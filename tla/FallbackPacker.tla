----------------------------- MODULE FallbackPacker ---------------------------
(***************************************************************************)
(* The Packer of msgpack/fallback.py: a BytesIO, and _pack() as a function *)
(* of its argument (FallbackPack).  No other code runs inside a call but   *)
(* default(), so a call is one step.  Packing after an error and reset()   *)
(* put a new BytesIO in the place of the old one, with whatever view of it *)
(* is alive.                                                               *)
(***************************************************************************)
EXTENDS FallbackPack

VARIABLES
  options,
  content,  \* the value of the BytesIO
  view,     \* "none", "live", or "stale" when it is one of an old BytesIO
  answer    \* what the last call came to

vars == <<options, content, view, answer>>

Init == content = <<>> /\ view = "none" /\ answer = <<"none">>

(* BytesIO refuses to be written to while a view of it is alive. *)
Written(r) ==
  IF view = "live" /\ r.out # <<>> THEN Raised("BufferError") ELSE r

NewBuffer ==
  /\ content' = <<>>
  /\ view' = IF view = "live" THEN "stale" ELSE view

(* The end of a call that wrote s. *)
Return(s) ==
  IF options.autoreset
    THEN answer' = <<"bytes", content \o s>> /\ NewBuffer
    ELSE answer' = <<"none">> /\ content' = content \o s /\ UNCHANGED view

(* wrote is the PackObject(), or the PackPairs(), of the argument. *)
Pack(wrote) ==
  /\ \E r \in {Written(wrote)} :
       IF r.status = "ok" THEN Return(r.out)
       ELSE answer' = <<"raised", r.status>> /\ NewBuffer
  /\ UNCHANGED options

(* What was written stays when one of these raises. *)
Keep(r) ==
  /\ answer' = <<"raised", r.status>>
  /\ content' = content \o r.out
  /\ UNCHANGED view

PackMapPairs(wrote) ==
  /\ \E r \in {Written(wrote)} :
       IF r.status = "ok" THEN Return(r.out) ELSE Keep(r)
  /\ UNCHANGED options

PackHeader(method, n) ==
  /\ \E r \in {Written(IF method = "pack_array_header"
                         THEN ArrayHeader(n) ELSE MapHeader(n))} :
       IF r.status = "ok" THEN Return(r.out) ELSE Keep(r)
  /\ UNCHANGED options

(* The content is not handed out, autoreset or not. *)
PackExtType(typecode, data) ==
  LET r == Written(Wrote(ExtHeader(Size(data), typecode) \o data)) IN
  /\ IF r.status = "ok"
       THEN answer' = <<"none">> /\ content' = content \o r.out /\ UNCHANGED view
       ELSE Keep(r)
  /\ UNCHANGED options

Reset == answer' = <<"none">> /\ NewBuffer /\ UNCHANGED options

Bytes == answer' = <<"bytes", content>> /\ UNCHANGED <<options, content, view>>

GetBuffer ==
  /\ view = "none"
  /\ view' = "live"
  /\ answer' = <<"view">>
  /\ UNCHANGED <<options, content>>

ReleaseBuffer ==
  /\ view # "none"
  /\ view' = "none"
  /\ UNCHANGED <<options, content, answer>>
===============================================================================
