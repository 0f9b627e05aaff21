----------------------------- MODULE FallbackBuffer ---------------------------
(***************************************************************************)
(* The buffer of the pure Python Unpacker (msgpack/fallback.py): a         *)
(* bytearray with two positions in it.  _buff_i is where the decoder       *)
(* reads; _buf_checkpoint is where the object being read began, and where  *)
(* the decoder returns to when bytes are missing.  Bytes before the        *)
(* checkpoint are dead; feed() and the file reads drop them.               *)
(*                                                                         *)
(* The decoder is abstracted to the reservations it makes: it reads k      *)
(* bytes that are there and then either is done (Deliver), raises (Fail)   *)
(* or needs n bytes more than the buffer holds (Reserve).                  *)
(***************************************************************************)
EXTENDS Integers, Sequences

CONSTANTS
  Byte,             \* the byte values
  Chunks,           \* byte sequences one feed() or file read can supply
  max_buffer_size,  \* the constructor's argument; 0 stands for INT_MAX
  read_size,        \* the constructor's argument; 0 stands for the default
  INT_MAX,          \* 2**31 - 1 in the code
  DefaultReadSize,  \* 16 * 1024 in the code
  MaxReceived,      \* bound on the bytes the input supplies
  MaxWanted         \* bound on one reservation

Least(a, b) == IF a <= b THEN a ELSE b
Greatest(a, b) == IF a >= b THEN a ELSE b

(* The sizes __init__ settles on. *)
MaxBufferSize == IF max_buffer_size = 0 THEN INT_MAX ELSE max_buffer_size
ReadSize == IF read_size = 0 THEN Least(MaxBufferSize, DefaultReadSize)
                             ELSE read_size

(* __init__ raises ValueError when read_size exceeds the limit. *)
ASSUME FallbackAssumption ==
  /\ Chunks \subseteq Seq(Byte)
  /\ max_buffer_size \in Nat
  /\ read_size \in Nat
  /\ INT_MAX \in Nat \ {0}
  /\ DefaultReadSize \in Nat \ {0}
  /\ read_size <= MaxBufferSize
  /\ MaxReceived \in Nat
  /\ MaxWanted \in Nat

VARIABLES
  buffer,
  buff_i,
  buf_checkpoint,
  stream_offset,  \* what tell() returns
  feeding,        \* _feeding: there is no file
  caller,         \* the method whose _reserve() reads the file, or "none"
  wanted,         \* the argument of that _reserve()
  missing,        \* its remain_bytes
  received,       \* history: every byte that entered the buffer
  result,         \* bytes the last step handed out
  outcome         \* "ok", or the exception the last call raised

indices == <<buff_i, buf_checkpoint, stream_offset>>
reserve == <<caller, wanted, missing>>
vars == <<buffer, indices, feeding, reserve, received, result, outcome>>

Callers == {"unpack", "__next__", "read_bytes"}

TypeOK ==
  /\ buffer \in Seq(Byte)
  /\ buff_i \in Nat
  /\ buf_checkpoint \in Nat
  /\ stream_offset \in Nat
  /\ feeding \in BOOLEAN
  /\ caller \in Callers \cup {"none"}
  /\ wanted \in Nat
  /\ missing \in Int
  /\ received \in Seq(Byte)
  /\ result \in Seq(Byte)
  /\ outcome \in {"ok", "OutOfData", "BufferFull", "AssertionError",
                  "IOError", "DataError"}

Init ==
  /\ buffer = <<>>
  /\ buff_i = 0
  /\ buf_checkpoint = 0
  /\ stream_offset = 0
  /\ feeding \in BOOLEAN
  /\ caller = "none" /\ wanted = 0 /\ missing = 0
  /\ received = <<>>
  /\ result = <<>>
  /\ outcome = "ok"

Unread == Len(buffer) - buff_i
Running == caller # "none"

-------------------------------------------------------------------------------
(* Variant of Stripped: _buff_i is moved and the bytes stay. *)
NotStripped == buffer

(* del self._buffer[: self._buf_checkpoint] *)
Stripped == SubSeq(buffer, buf_checkpoint + 1, Len(buffer))

(* Variant of IndicesStripped: the checkpoint is not reset. *)
CheckpointKept(i) ==
  /\ buff_i' = i - buf_checkpoint
  /\ UNCHANGED buf_checkpoint

(* The two indices after the buffer was stripped, _buff_i being at i. *)
IndicesStripped(i) ==
  /\ buff_i' = i - buf_checkpoint
  /\ buf_checkpoint' = 0

Raise(e) == outcome' = e /\ result' = <<>>

(* _consume() with _buff_i at i. *)
Consume(i) ==
  /\ buff_i' = i
  /\ stream_offset' = stream_offset + (i - buf_checkpoint)
  /\ buf_checkpoint' = i

Feed(c) ==
  /\ ~Running
  /\ Len(received) + Len(c) <= MaxReceived
  /\ IF ~feeding
       THEN Raise("AssertionError") /\ UNCHANGED <<buffer, indices, received>>
     ELSE IF Unread + Len(c) > MaxBufferSize
       THEN Raise("BufferFull") /\ UNCHANGED <<buffer, indices, received>>
     ELSE /\ buffer' = Stripped \o c
          /\ IndicesStripped(buff_i)
          /\ received' = received \o c
          /\ outcome' = "ok" /\ result' = <<>>
          /\ UNCHANGED stream_offset
  /\ UNCHANGED <<feeding, reserve>>

(* An object or a header ends k bytes on: the call returns. *)
Deliver(k) ==
  /\ ~Running
  /\ k <= Unread
  /\ result' = SubSeq(buffer, buf_checkpoint + 1, buff_i + k)
  /\ outcome' = "ok"
  /\ Consume(buff_i + k)
  /\ UNCHANGED <<buffer, feeding, reserve, received>>

(* The decoder or a hook raises k bytes on.  Nothing is rolled back. *)
Fail(k) ==
  /\ ~Running
  /\ k <= Unread
  /\ buff_i' = buff_i + k
  /\ Raise("DataError")
  /\ UNCHANGED <<buffer, buf_checkpoint, stream_offset, feeding, reserve, received>>

(* OutOfData, with _buff_i rolled back to i.  __next__() consumes before   *)
(* it turns the exception into StopIteration.                              *)
OutOfData(method, i) ==
  /\ Raise("OutOfData")
  /\ IF method = "__next__" THEN Consume(i)
     ELSE buff_i' = i /\ UNCHANGED <<buf_checkpoint, stream_offset>>

(* Variant of TooMuch: consumed bytes still in the buffer are counted. *)
TooMuchUnstripped(i, n) == (i + n - Len(buffer)) + Len(buffer) > MaxBufferSize

(* Variant of TooMuch: what the object already holds is not counted. *)
TooMuchWanted(i, n) == n > MaxBufferSize

(* What is missing would not fit behind what is kept of the buffer. *)
TooMuch(i, n) == (i + n - Len(buffer)) + Len(Stripped) > MaxBufferSize

(* _reserve(n) after the decoder has read k bytes, when fewer than n are   *)
(* left.                                                                   *)
Reserve(method, k, n) ==
  LET i == buff_i + k IN
  /\ ~Running
  /\ k <= Unread
  /\ i + n > Len(buffer)
  /\ \/ /\ feeding
        /\ OutOfData(method, buf_checkpoint)
        /\ UNCHANGED <<buffer, reserve>>
     \/ /\ ~feeding
        /\ buffer' = Stripped
        /\ IndicesStripped(i)
        /\ UNCHANGED stream_offset
        /\ IF TooMuch(i, n)
             THEN Raise("BufferFull") /\ UNCHANGED reserve
             ELSE /\ caller' = method /\ wanted' = n
                  /\ missing' = i + n - Len(buffer)
                  /\ outcome' = "ok" /\ result' = <<>>
  /\ UNCHANGED <<feeding, received>>

(* The argument of file_like.read(). *)
ToRead == Greatest(ReadSize, missing)

(* file_like.read(): some bytes, none, or an exception. *)
ReadFile ==
  /\ Running /\ missing > 0
  /\ \/ \E c \in Chunks :
          /\ Len(c) \in 1 .. ToRead
          /\ Len(received) + Len(c) <= MaxReceived
          /\ buffer' = buffer \o c
          /\ received' = received \o c
          /\ missing' = missing - Len(c)
          /\ outcome' = "ok"
          /\ UNCHANGED <<caller, wanted>>
     \/ /\ missing' = 0  \* the loop is left
        /\ outcome' = "ok"
        /\ UNCHANGED <<buffer, received, caller, wanted>>
     \/ /\ caller' = "none" /\ wanted' = 0 /\ missing' = 0
        /\ outcome' = "IOError"
        /\ UNCHANGED <<buffer, received>>
  /\ result' = <<>>
  /\ UNCHANGED <<indices, feeding>>

(* Variant of Rollback: _buff_i stays where bytes were missing. *)
NoRollback == buff_i

(* The position _reserve() sets when the file had too little. *)
Rollback == 0

(* The bytes _read(n) answers, with _buff_i at i: a slice, short at the end. *)
Read(i, n) == SubSeq(buffer, i + 1, Least(i + n, Len(buffer)))

(* Variant of ReadEnd: all of n is counted, read or not. *)
ReadEndAsked(i, n) == i + n

(* i + len(ret): where _read(n) leaves _buff_i. *)
ReadEnd(i, n) == Least(i + n, Len(buffer))

(* Variant of StillShort: the test after the loop is missing. *)
NeverShort == FALSE

StillShort == Unread < wanted

(* The end of _reserve(): read_bytes() takes what there is, the decoder    *)
(* goes on or raises.                                                      *)
Reserved ==
  /\ Running /\ missing <= 0
  /\ caller' = "none" /\ wanted' = 0 /\ missing' = 0
  /\ IF caller = "read_bytes"
       THEN /\ result' = Read(buff_i, wanted)
            /\ outcome' = "ok"
            /\ Consume(ReadEnd(buff_i, wanted))
     ELSE IF StillShort THEN OutOfData(caller, Rollback)
     ELSE outcome' = "ok" /\ result' = <<>> /\ UNCHANGED indices
  /\ UNCHANGED <<buffer, feeding, received>>

(* read_bytes(n) on bytes that are there. *)
ReadBytes(n) ==
  /\ ~Running
  /\ n <= Unread
  /\ result' = Read(buff_i, n)
  /\ outcome' = "ok"
  /\ Consume(buff_i + n)
  /\ UNCHANGED <<buffer, feeding, reserve, received>>

Next ==
  \/ \E c \in Chunks : Feed(c)
  \/ \E k \in 0 .. Unread : Deliver(k) \/ Fail(k)
  \/ \E k \in 0 .. Unread, n \in 1 .. MaxWanted, m \in {"unpack", "__next__"} :
       Reserve(m, k, n)
  \/ \E n \in 0 .. MaxWanted : ReadBytes(n) \/ Reserve("read_bytes", 0, n)
  \/ ReadFile
  \/ Reserved

Spec == Init /\ [][Next]_vars

-------------------------------------------------------------------------------
(* The decoder never reads before the object it is on, nor past the end of *)
(* the buffer.  While _reserve() waits for the file nothing lies before    *)
(* the object, and remain_bytes is what is missing of its argument.        *)
Indices ==
  /\ buf_checkpoint <= buff_i
  /\ buff_i <= Len(buffer)
  /\ Running =>
       /\ ~feeding
       /\ buf_checkpoint = 0
       /\ wanted > 0
       /\ missing > 0 => missing = wanted - Unread

(* What tell() reports is exact in every state, whatever was fed, dropped, *)
(* rolled back or raised: the byte at the checkpoint is byte tell() of the *)
(* stream, and the rest of the buffer is the rest of what was received.    *)
Aligned ==
  /\ stream_offset + (Len(buffer) - buf_checkpoint) = Len(received)
  /\ \A i \in 1 .. Len(buffer) - buf_checkpoint :
       buffer[buf_checkpoint + i] = received[stream_offset + i]

(* A file never fills the buffer past the limit by more than one read of   *)
(* read_size, less the one byte that made it necessary.                    *)
FileBound ==
  /\ ~feeding => Len(buffer) <= MaxBufferSize + ReadSize - 1
  /\ Running /\ missing > 0 => Len(buffer) + missing <= MaxBufferSize

(* OutOfData leaves the Unpacker at the start of the object, in feed mode  *)
(* and on a file, also when __next__() then consumes: the call can be      *)
(* repeated when there are more bytes, and tell() has not moved.           *)
RollsBack ==
  [][outcome' = "OutOfData" =>
       buff_i' = buf_checkpoint' /\ stream_offset' = stream_offset]_vars

(* A read from a file is refused only for the object being read: what is   *)
(* kept of it and the bytes it needs exceed the limit together, whatever   *)
(* was consumed before and still sits in the buffer.                       *)
FullOnlyWhenFull ==
  [][\A m \in Callers, k \in 0 .. Unread, n \in 0 .. MaxWanted :
       ~feeding /\ Reserve(m, k, n) /\ outcome' = "BufferFull" =>
         (buff_i' - buf_checkpoint') + n > MaxBufferSize]_vars
===============================================================================
