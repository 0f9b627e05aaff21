----------------------------- MODULE MessageStream ----------------------------
(***************************************************************************)
(* What an Unpacker promises its caller: bytes arrive in pieces of any     *)
(* size, and each call answers as if the decoder had been run on all the   *)
(* bytes received since the end of the previous object.  There is no       *)
(* buffer, no parser state and no step inside a call.                      *)
(*                                                                         *)
(* The meaning of the bytes is a parameter: the recursive decoder of       *)
(* FallbackDecode in every instance.                                       *)
(***************************************************************************)
EXTENDS Values

CONSTANTS
  DecodedBy(_, _, _),  \* what a method makes of bytes, with which options
  Pieces,     \* what may arrive at once
  Options,    \* sets of options an Unpacker is made with
  HooksRaise  \* whether a hook may raise

VARIABLES
  received,  \* every byte that arrived
  next,      \* how many of them belong to what was already answered
  answer,    \* what the last call came to
  options    \* the options, as a record

vars == <<received, next, answer, options>>

Init ==
  /\ received = <<>> /\ next = 0 /\ answer = <<"none">>
  /\ options \in Options

(* What a call of method may make of the bytes after next.  Whether the    *)
(* max_..._len limits hold for what is only skipped or counted is left     *)
(* open: the two implementations differ.                                   *)
Unlimited == [options EXCEPT !.max_str_len = Huge, !.max_bin_len = Huge,
                             !.max_array_len = Huge, !.max_map_len = Huge,
                             !.max_ext_len = Huge]
Waiting == SubSeq(received, next + 1, Len(received))
Readings(method) ==
  {DecodedBy(method, Waiting, u) :
     u \in IF method = "unpack" THEN {options} ELSE {options, Unlimited}}
Methods == {"unpack", "skip", "read_array_header", "read_map_header"}

(* The header readers may refuse an object of another type as soon as its  *)
(* first byte is there, or read its payload first.                         *)
OtherType(method) ==
  LET b == received[next + 1] IN
  /\ next < Len(received)
  /\ \/ method = "read_array_header" /\ b \notin 144 .. 159 \cup {220, 221}
     \/ method = "read_map_header" /\ b \notin 128 .. 143 \cup {222, 223}

HookRefused(method) ==
  /\ HooksRaise
  /\ method = "unpack"
  /\ options.object_hook \/ options.pairs_hook \/ options.list_hook

Arrive ==
  /\ UNCHANGED <<next, answer>>
  /\ \E c \in Pieces : received' = received \o c

Begin == answer' = <<"none">> /\ UNCHANGED <<received, next>>

(* A whole object is there: it is returned and the next one starts after   *)
(* its last byte.                                                          *)
Deliver(method, r) ==
  /\ r.status = "ok"
  /\ answer' = <<"returned", IF method = "skip" THEN <<"nil">> ELSE r.obj>>
  /\ next' = next + (r.next - 1)
  /\ UNCHANGED received

(* OutOfData: no whole object is there. *)
Exhausted(r) ==
  /\ r.status # "ok"
  /\ answer' = <<"OutOfData">>
  /\ UNCHANGED <<received, next>>

(* Any other exception about the data: it is wrong as far as it goes, not  *)
(* just incomplete.                                                        *)
Reject(method, r) ==
  /\ \/ r.status \notin {"ok", "OutOfData"}
     \/ OtherType(method)
     \/ HookRefused(method)
  /\ answer' = <<"error">>
  /\ UNCHANGED <<received, next>>

(* The input or the memory failed, which says nothing about the data. *)
Interrupt == answer' = <<"interrupted">> /\ UNCHANGED <<received, next>>

(* read_bytes(): the bytes that wait, and when those run out others that   *)
(* never wait.                                                             *)
Bytes(k) ==
  /\ next' = next + k
  /\ answer' = <<"bytes", SubSeq(received, next + 1, next + k)>>
  /\ UNCHANGED received
BytesThrough ==
  /\ \E c \in Pieces : received' = received \o c
  /\ next' = Len(received')
  /\ answer' = <<"bytes", SubSeq(received', next + 1, next')>>

(* read_bytes() of the pure Python Unpacker takes all or nothing when the  *)
(* bytes are fed.                                                          *)
BytesRefused == answer' = <<"OutOfBytes">> /\ UNCHANGED <<received, next>>

(* read_bytes() whose file fails loses what waited. *)
GiveUp ==
  /\ next' = Len(received)
  /\ answer' = <<"interrupted">>
  /\ UNCHANGED received

Next ==
  /\ \/ Arrive
     \/ Begin
     \/ \E m \in Methods : \E r \in Readings(m) :
          Deliver(m, r) \/ Exhausted(r) \/ Reject(m, r)
     \/ Interrupt
     \/ \E k \in 0 .. Len(received) - next : Bytes(k)
     \/ BytesThrough
     \/ BytesRefused
     \/ GiveUp
  /\ UNCHANGED options

Spec == Init /\ [][Next]_vars
===============================================================================
