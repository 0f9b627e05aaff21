------------------------------ MODULE ByteStream ------------------------------
(***************************************************************************)
(* What the input side of an Unpacker promises, without a buffer: the      *)
(* bytes taken in so far form one sequence, some prefix of it has been     *)
(* handed out in order, and at most Limit bytes wait.  UnpackBuffer        *)
(* implements this with an array that is compacted and enlarged in place.  *)
(***************************************************************************)
EXTENDS Integers, Sequences

CONSTANTS
  Chunks,      \* byte sequences one feed() or one file read can supply
  Limit        \* most bytes that may wait to be unpacked

VARIABLES
  received,    \* every byte taken in, in order
  position,    \* what tell() reports
  skipped,     \* bytes that left without being counted in position
  file_like,   \* "open": a file supplies the bytes; "none": feed() does
  result,      \* bytes handed out by the last step
  outcome      \* "ok", or the exception the last call raised

vars == <<received, position, skipped, file_like, result, outcome>>

Taken   == position + skipped
Waiting == Len(received) - Taken
Upcoming(k) == SubSeq(received, Taken + 1, Taken + k)

Init ==
  /\ received = <<>>
  /\ position = 0
  /\ skipped = 0
  /\ file_like \in {"open", "none"}
  /\ result = <<>>
  /\ outcome = "ok"

(* Bytes join the end of the stream when they fit. *)
Accept(c) ==
  /\ Waiting + Len(c) <= Limit
  /\ received' = received \o c
  /\ result' = <<>>
  /\ outcome' = "ok"
  /\ UNCHANGED <<position, skipped, file_like>>

(* A call that raises leaves the stream as it was. *)
Raise(e) ==
  /\ outcome' = e
  /\ result' = <<>>
  /\ UNCHANGED <<received, position, skipped, file_like>>

(* BufferFull only when something offered does not fit. *)
Refuse ==
  /\ \/ Waiting = Limit
     \/ \E c \in Chunks : Waiting + Len(c) > Limit
  /\ Raise("BufferFull")

EndOfFile ==
  /\ file_like = "open"
  /\ file_like' = "none"
  /\ result' = <<>>
  /\ outcome' = "ok"
  /\ UNCHANGED <<received, position, skipped>>

(* The next k waiting bytes are handed out. *)
Take(k) ==
  /\ result' = Upcoming(k)
  /\ position' = position + k
  /\ outcome' = "ok"
  /\ UNCHANGED <<received, skipped, file_like>>

(* Everything waiting is handed out, followed by bytes that come straight  *)
(* from the file.                                                          *)
TakeThrough(c) ==
  /\ file_like = "open"
  /\ received' = received \o c
  /\ result' = Upcoming(Waiting) \o c
  /\ position' = position + Waiting + Len(c)
  /\ outcome' = "ok"
  /\ UNCHANGED <<skipped, file_like>>

(* Bytes are given up and not counted: everything waiting when the file    *)
(* fails in read_bytes(), what the parser had consumed when a callback of  *)
(* it raised.                                                              *)
GiveUp(k, e) ==
  /\ e = "IOError" => file_like = "open" /\ k = Waiting
  /\ skipped' = skipped + k
  /\ result' = <<>>
  /\ outcome' = e
  /\ UNCHANGED <<received, position, file_like>>

Next ==
  \/ \E c \in Chunks : Accept(c) \/ TakeThrough(c)
  \/ Refuse
  \/ \E e \in {"AssertionError", "MemoryError", "IOError"} : Raise(e)
  \/ EndOfFile
  \/ \E k \in 0 .. Waiting :
       \/ Take(k)
       \/ \E e \in {"IOError", "CallbackError"} : GiveUp(k, e)

Spec == Init /\ [][Next]_vars
===============================================================================
