---------------------------- MODULE FallbackUnpacker --------------------------
(***************************************************************************)
(* The streaming Unpacker of msgpack/fallback.py: the buffer of            *)
(* FallbackBuffer and the recursive decoder of FallbackDecode.  A call     *)
(* runs the decoder from the checkpoint; wherever it needs bytes that are  *)
(* not there, _reserve() reads the file and the decoder goes on, or the    *)
(* call raises.                                                            *)
(*                                                                         *)
(* What the decoder does before a reservation depends on the bytes only,   *)
(* so the model runs it again from the checkpoint when they have come,     *)
(* instead of keeping its calls suspended.  The decoder is a parameter, to *)
(* which the instances give FallbackDecode.                                *)
(***************************************************************************)
EXTENDS Integers, Sequences

CONSTANTS
  Cases,            \* whole inputs, each with the options of the Unpacker
  DecodedBy(_, _, _),  \* what a method makes of the bytes from its first on
  MaxPiece,         \* most bytes fed or read at once
  max_buffer_size, read_size, INT_MAX, DefaultReadSize, MaxWanted

VARIABLES
  buffer, buff_i, buf_checkpoint, stream_offset, feeding, caller, wanted,
  missing, received, result, outcome,
  pc,      \* "idle", "decode", or "reserve" while a file is read
  method,  \* the method called last
  answer,  \* what it came to
  input,   \* the whole input
  user     \* the options, as a record

Inputs == {c[1] : c \in Cases}
Pieces == UNION {{SubSeq(s, i, j) : i \in 1 .. Len(s), j \in 0 .. Len(s)} : s \in Inputs}
Chunks == {c \in Pieces : Len(c) <= MaxPiece}

(* The buffer, with the lemmas about it. *)
Buffer == INSTANCE FallbackBufferProofs WITH Byte <- 0 .. 255, MaxReceived <- 64

(* __next__() reads as unpack() does. *)
Methods == {"unpack", "__next__", "skip", "read_array_header", "read_map_header"}
Reading(m) == IF m = "__next__" THEN "unpack" ELSE m

ASSUME UnpackerAssumption ==
  /\ \A c \in Cases : c[1] \in Seq(0 .. 255)
  /\ max_buffer_size \in Nat
  /\ read_size \in Nat
  /\ INT_MAX \in Nat \ {0}
  /\ DefaultReadSize \in Nat \ {0}
  /\ read_size <= Buffer!MaxBufferSize
  /\ MaxWanted \in Nat

(* The decoder reads forward.  It stops inside the bytes it has; when it   *)
(* misses some, it goes on missing the same ones until they have come, and *)
(* they are part of the object it reads.                                   *)
ASSUME DecoderAssumption ==
  \A c \in Cases, m \in Methods :
    \A from \in 1 .. Len(c[1]) + 1 :
      \A to \in from - 1 .. Len(c[1]) : \A later \in to .. Len(c[1]) :
        LET d == DecodedBy(Reading(m), SubSeq(c[1], from, to), c[2])
            e == DecodedBy(Reading(m), SubSeq(c[1], from, later), c[2])
        IN /\ d.next \in 1 .. (to - from) + 2
           /\ d.status = "OutOfData" =>
                /\ d.need \in Nat
                /\ (later - from) + 2 < d.next + d.need => e = d
                /\ e.status = "ok" => d.next + d.need <= e.next

bufferVars == <<buffer, buff_i, buf_checkpoint, stream_offset, feeding, caller,
                wanted, missing, received, result, outcome>>
vars == <<bufferVars, pc, method, answer, input, user>>

Init ==
  /\ Buffer!Init
  /\ pc = "idle"
  /\ method = "unpack"
  /\ answer = <<"none">>
  /\ \E c \in Cases : input = c[1] /\ user = c[2]

(* A caller feeds the input in order. *)
Upcoming(c) ==
  /\ Len(received) + Len(c) <= Len(input)
  /\ c = SubSeq(input, Len(received) + 1, Len(received) + Len(c))

(* What a file handed over is a prefix of the input. *)
FollowsInput ==
  /\ Len(received') <= Len(input)
  /\ received' = SubSeq(input, 1, Len(received'))

(* A caller of the model does not use an Unpacker that was left inside an  *)
(* object.                                                                 *)
Usable == pc = "idle" /\ buff_i = buf_checkpoint

-------------------------------------------------------------------------------
Feed ==
  /\ Usable
  /\ \E c \in Chunks : Upcoming(c) /\ Buffer!Feed(c)
  /\ UNCHANGED <<pc, method, answer, input, user>>

(* unpack(), __next__(), skip() and the header readers enter _unpack(). *)
Call(m) ==
  /\ Usable
  /\ method' = m
  /\ answer' = <<"none">>
  /\ pc' = "decode"
  /\ UNCHANGED <<bufferVars, input, user>>

(* The bytes from the checkpoint on, and what the decoder makes of them.   *)
Pending == SubSeq(buffer, buf_checkpoint + 1, Len(buffer))
Decoded == DecodedBy(Reading(method), Pending, user)

(* The bytes the decoder read since _buff_i was last set, when it stops    *)
(* with d.                                                                 *)
Progress(d) == (buf_checkpoint + (d.next - 1)) - buff_i

(* The object is complete: it is consumed. *)
Deliver(d) ==
  /\ d.status = "ok"
  /\ Buffer!Deliver(Progress(d))
  /\ answer' = <<"returned", IF method = "skip" THEN <<"nil">> ELSE d.obj>>
  /\ pc' = "idle"
  /\ UNCHANGED <<method, input, user>>

(* The decoder raises.  _buff_i stays where it is. *)
Reject(d) ==
  /\ d.status \notin {"ok", "OutOfData"}
  /\ Buffer!Fail(Progress(d))
  /\ answer' = <<"error">>
  /\ pc' = "idle"
  /\ UNCHANGED <<method, input, user>>

(* Bytes are missing: the file is read, or the call raises at once. *)
Reserve(d) ==
  /\ d.status = "OutOfData"
  /\ Buffer!Reserve(IF method = "__next__" THEN method ELSE "unpack",
                    Progress(d), d.need)
  /\ IF outcome' = "ok"
       THEN pc' = "reserve" /\ UNCHANGED answer
       ELSE /\ pc' = "idle"
            /\ answer' = IF outcome' = "OutOfData" THEN <<"OutOfData">>
                                                   ELSE <<"interrupted">>
  /\ UNCHANGED <<method, input, user>>

(* The decoder runs until one of the three. *)
Decode ==
  /\ pc = "decode"
  /\ \E d \in {Decoded} : Deliver(d) \/ Reject(d) \/ Reserve(d)

ReadFile ==
  /\ pc = "reserve"
  /\ Buffer!ReadFile
  /\ FollowsInput
  /\ IF outcome' = "ok" THEN UNCHANGED <<pc, answer>>
                        ELSE pc' = "idle" /\ answer' = <<"interrupted">>
  /\ UNCHANGED <<method, input, user>>

Reserved ==
  /\ pc = "reserve"
  /\ Buffer!Reserved
  /\ IF method = "read_bytes" THEN pc' = "idle" /\ answer' = <<"bytes", result'>>
     ELSE IF outcome' = "OutOfData" THEN pc' = "idle" /\ answer' = <<"OutOfData">>
     ELSE pc' = "decode" /\ UNCHANGED answer
  /\ UNCHANGED <<method, input, user>>

(* read_bytes(): in feed mode it raises OutOfData when n bytes are not     *)
(* there; a file answers with what there is.                               *)
ReadBytes(n) ==
  /\ Usable
  /\ method' = "read_bytes"
  /\ \/ Buffer!ReadBytes(n) /\ pc' = "idle" /\ answer' = <<"bytes", result'>>
     \/ /\ Buffer!Reserve("read_bytes", 0, n)
        /\ pc' = IF outcome' = "ok" THEN "reserve" ELSE "idle"
        /\ answer' = CASE outcome' = "ok"        -> <<"none">>
                       [] outcome' = "OutOfData" -> <<"OutOfBytes">>
                       [] OTHER                  -> <<"interrupted">>
  /\ UNCHANGED <<input, user>>

Unpacking == Decode \/ ReadFile \/ Reserved

(* An Unpacker that is not used again. *)
Abandoned == pc = "idle" /\ ~Usable /\ UNCHANGED vars

Next ==
  \/ Feed
  \/ \E m \in Methods : Call(m)
  \/ Unpacking
  \/ \E n \in 0 .. MaxWanted : ReadBytes(n)
  \/ Abandoned

(* A call that has begun runs on; nobody is obliged to make one. *)
Spec == Init /\ [][Next]_vars /\ WF_vars(Unpacking)

-------------------------------------------------------------------------------
(* A call that returned, or found too few bytes, leaves the Unpacker at    *)
(* the first byte of the next object, which is where tell() says it is.    *)
TellStartsNextObject ==
  pc = "idle" /\ answer[1] \notin {"error", "interrupted"} =>
    /\ buff_i = buf_checkpoint
    /\ SubSeq(buffer, buff_i + 1, Len(buffer))
         = SubSeq(received, stream_offset + 1, Len(received))

(* The Unpacker of fallback.py implements the same stream of messages as   *)
(* the Cython one.                                                         *)
Messages == INSTANCE MessageStream WITH
              next <- stream_offset, options <- user,
              Options <- {c[2] : c \in Cases}, HooksRaise <- FALSE
MessageSpec == Messages!Spec

(* A call returns or raises. *)
CallReturns == (pc # "idle") ~> (pc = "idle")

(* An object that is no longer than max_buffer_size can be read from a     *)
(* file, whatever was read before it and in whatever pieces it comes.      *)
ObjectThatFitsIsRead ==
  [][pc = "decode" /\ outcome' = "BufferFull" =>
       LET whole == DecodedBy(Reading(method),
                              SubSeq(input, stream_offset + 1, Len(input)), user)
       IN whole.status = "ok" => whole.next - 1 > Buffer!MaxBufferSize]_vars
===============================================================================
