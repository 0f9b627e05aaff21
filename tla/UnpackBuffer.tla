----------------------------- MODULE UnpackBuffer -----------------------------
(***************************************************************************)
(* The buffer of the Cython Unpacker (msgpack/_unpacker.pyx): one malloc'd *)
(* array buf of buf_size bytes whose cells buf_head .. buf_tail-1 hold the *)
(* bytes that wait to be unpacked.  feed() and the reads from file_like    *)
(* append to it, moving the waiting bytes to the front or to a larger      *)
(* array when they do not fit; the parser and read_bytes() take bytes      *)
(* from its head.                                                          *)
(*                                                                         *)
(* The parser is abstracted to Execute: one run of it moves buf_head       *)
(* forward over some of the waiting bytes.  UnpackExecute models it.       *)
(***************************************************************************)
EXTENDS Integers, Sequences

CONSTANTS
  Byte,             \* the byte values
  Junk,             \* content of a cell nobody has written
  Chunks,           \* byte sequences one feed() or file read can supply
  max_buffer_size,  \* the constructor's argument; 0 stands for INT_MAX
  read_size,        \* the constructor's argument; 0 stands for the default
  INT_MAX,
  DefaultReadSize,  \* 1024**2 in the code
  MaxReceived,      \* bound on the bytes the input supplies
  MaxWanted         \* bound on the argument of read_bytes()

Least(a, b) == IF a <= b THEN a ELSE b

(* The sizes __init__ settles on. *)
MaxBufferSize == IF max_buffer_size = 0 THEN INT_MAX ELSE max_buffer_size
ReadSize == IF read_size = 0 THEN Least(MaxBufferSize, DefaultReadSize)
                             ELSE read_size

(* __init__ raises ValueError when read_size exceeds the limit, so no      *)
(* Unpacker exists with such a pair.                                       *)
ASSUME BufferAssumption ==
  /\ Junk \notin Byte
  /\ Chunks \subseteq Seq(Byte)
  /\ max_buffer_size \in Nat
  /\ read_size \in Nat
  /\ INT_MAX \in Nat \ {0}
  /\ DefaultReadSize \in Nat \ {0}
  /\ read_size <= MaxBufferSize
  /\ MaxReceived \in Nat
  /\ MaxWanted \in Nat

VARIABLES
  buf,            \* the array
  buf_head,
  buf_tail,
  buf_size,
  stream_offset,  \* what tell() returns
  file_like,      \* "open" while self.file_like is a file, "none" for None
  source,         \* how the Unpacker was built: "file" or "feed"
  received,       \* history: the bytes that entered the buffer or were
                  \* passed through it by read_bytes(), in order
  skipped,        \* history: bytes taken and not counted by tell()
  lost,           \* history: bytes read from the file and dropped
  result,         \* bytes the last step handed to the parser or the caller
  outcome         \* "ok", or the exception the last call raised

memory  == <<buf, buf_head, buf_tail, buf_size>>
history == <<received, skipped, lost>>
vars == <<memory, stream_offset, file_like, source, history, result, outcome>>

Unread == buf_tail - buf_head

(* Variant of Waiting: the bytes are taken from the start of the array. *)
FromStart(k) == [i \in 1 .. k |-> buf[i - 1]]

Waiting(k) == [i \in 1 .. k |-> buf[buf_head + i - 1]]

TypeOK ==
  /\ buf_size \in Nat
  /\ buf \in [0 .. buf_size - 1 -> Byte \cup {Junk}]
  /\ buf_head \in Nat
  /\ buf_tail \in Nat
  /\ stream_offset \in Nat
  /\ file_like \in {"open", "none"}
  /\ source \in {"file", "feed"}
  /\ received \in Seq(Byte)
  /\ skipped \in Nat
  /\ lost \in Nat
  /\ result \in Seq(Byte)
  /\ outcome \in {"ok", "BufferFull", "MemoryError", "AssertionError",
                  "IOError", "CallbackError"}

Init ==
  /\ buf_size = ReadSize
  /\ buf = [i \in 0 .. ReadSize - 1 |-> Junk]
  /\ buf_head = 0
  /\ buf_tail = 0
  /\ stream_offset = 0
  /\ \/ source = "file" /\ file_like = "open"
     \/ source = "feed" /\ file_like = "none"
  /\ received = <<>>
  /\ skipped = 0
  /\ lost = 0
  /\ result = <<>>
  /\ outcome = "ok"

-------------------------------------------------------------------------------
(* memcpy(b + tail, c, len) *)
Stored(b, tail, c) ==
  [i \in DOMAIN b |->
     IF i \in tail .. tail + Len(c) - 1 THEN c[i - tail + 1] ELSE b[i]]

(* Variant of MovedToFront: the indices are reset and no byte is moved. *)
LeftInPlace == buf

(* memmove(buf, buf + head, tail - head): cells past the moved bytes keep  *)
(* what they held.                                                         *)
MovedToFront ==
  [i \in DOMAIN buf |-> IF i < Unread THEN buf[buf_head + i] ELSE buf[i]]

(* Variant of CopiedTo: the new array replaces the old one unfilled. *)
AllocatedOnly(size) == [i \in 0 .. size - 1 |-> Junk]

(* malloc(size), then memcpy of the waiting bytes. *)
CopiedTo(size) ==
  [i \in 0 .. size - 1 |-> IF i < Unread THEN buf[buf_head + i] ELSE Junk]

(* Variant of Grown: doubling is not clipped to the limit. *)
Doubled(len) == (Unread + len) * 2

Grown(len) == Least((Unread + len) * 2, MaxBufferSize)

Raise(e) == UNCHANGED memory /\ outcome' = e

(* Variant of Overfull: bytes already consumed are counted as waiting. *)
OverfullFromStart(c) == buf_tail + Len(c) > MaxBufferSize

Overfull(c) == Unread + Len(c) > MaxBufferSize

(* append_buffer(): the bytes fit behind the tail, or the waiting bytes    *)
(* are moved to the front, or the array is replaced, or the call raises    *)
(* before it has changed anything.                                         *)
AppendBuffer(c) ==
  \/ /\ buf_tail + Len(c) <= buf_size
     /\ buf' = Stored(buf, buf_tail, c)
     /\ buf_tail' = buf_tail + Len(c)
     /\ UNCHANGED <<buf_head, buf_size>>
     /\ outcome' = "ok"
  \/ /\ buf_tail + Len(c) > buf_size
     /\ Unread + Len(c) <= buf_size
     /\ buf' = Stored(MovedToFront, Unread, c)
     /\ buf_head' = 0
     /\ buf_tail' = Unread + Len(c)
     /\ UNCHANGED buf_size
     /\ outcome' = "ok"
  \/ /\ buf_tail + Len(c) > buf_size
     /\ Unread + Len(c) > buf_size
     /\ \/ Overfull(c) /\ Raise("BufferFull")
        \/ /\ ~Overfull(c)
           /\ \/ Raise("MemoryError")
              \/ /\ buf_size' = Grown(Len(c))
                 /\ buf' = Stored(CopiedTo(Grown(Len(c))), Unread, c)
                 /\ buf_head' = 0
                 /\ buf_tail' = Unread + Len(c)
                 /\ outcome' = "ok"

Bounded(c) == Len(received) + lost + Len(c) <= MaxReceived

(* feed(next_bytes) *)
Feed(c) ==
  /\ Bounded(c)
  /\ \/ file_like # "none" /\ Raise("AssertionError")
     \/ file_like = "none" /\ AppendBuffer(c)
  /\ received' = IF outcome' = "ok" THEN received \o c ELSE received
  /\ result' = <<>>
  /\ UNCHANGED <<stream_offset, file_like, source, skipped, lost>>

(* Variant of Remains: a file is asked for as much as an empty buffer      *)
(* takes.                                                                  *)
RemainsWhenEmpty == MaxBufferSize

Remains == MaxBufferSize - Unread

(* Variant of EndOfFile: the file is kept and asked again. *)
EndIgnored ==
  /\ outcome' = "ok"
  /\ UNCHANGED <<file_like, memory, history>>

(* The file returned nothing. *)
EndOfFile ==
  /\ file_like' = "none"
  /\ outcome' = "ok"
  /\ UNCHANGED <<memory, history>>

(* read_from_file(): a file returns at most what it is asked for, nothing  *)
(* at its end, and may raise.  Bytes it returned that append_buffer()      *)
(* refuses are gone.                                                       *)
ReadFromFile ==
  /\ file_like = "open"
  /\ \/ Remains <= 0 /\ Raise("BufferFull") /\ UNCHANGED <<file_like, history>>
     \/ /\ Remains > 0
        /\ \/ \E c \in Chunks :
                /\ Len(c) \in 1 .. Least(ReadSize, Remains)
                /\ Bounded(c)
                /\ AppendBuffer(c)
                /\ IF outcome' = "ok"
                     THEN received' = received \o c /\ UNCHANGED lost
                     ELSE lost' = lost + Len(c) /\ UNCHANGED received
                /\ UNCHANGED <<file_like, skipped>>
           \/ EndOfFile
           \/ Raise("IOError") /\ UNCHANGED <<file_like, history>>
  /\ result' = <<>>
  /\ UNCHANGED <<stream_offset, source>>

(* One call of execute() in _unpack(): the parser consumes k bytes and     *)
(* stream_offset follows buf_head.  execute() is declared "except? -1":    *)
(* when a callback raised, the call raises at once and stream_offset is    *)
(* left behind.                                                            *)
Execute(k) ==
  /\ Unread > 0
  /\ buf_head' = buf_head + k
  /\ \/ /\ stream_offset' = stream_offset + (buf_head' - buf_head)
        /\ result' = Waiting(k)
        /\ outcome' = "ok"
        /\ UNCHANGED history
     \/ /\ outcome' = "CallbackError"
        /\ result' = <<>>
        /\ skipped' = skipped + k
        /\ UNCHANGED <<stream_offset, received, lost>>
  /\ UNCHANGED <<buf, buf_tail, buf_size, file_like, source>>

(* read_bytes(nbytes): what the buffer holds, then what the file still     *)
(* gives.  buf_head moves before the file is asked, stream_offset after.   *)
ReadBytes(nbytes) ==
  LET nread == Least(Unread, nbytes) IN
  /\ buf_head' = buf_head + nread
  /\ \/ /\ nread = nbytes \/ file_like = "none"
        /\ result' = Waiting(nread)
        /\ stream_offset' = stream_offset + nread
        /\ outcome' = "ok"
        /\ UNCHANGED history
     \/ /\ nread < nbytes
        /\ file_like = "open"
        /\ \/ \E c \in Chunks :
                /\ Len(c) <= nbytes - nread
                /\ Bounded(c)
                /\ received' = received \o c
                /\ result' = Waiting(nread) \o c
                /\ stream_offset' = stream_offset + Len(result')
                /\ outcome' = "ok"
                /\ UNCHANGED <<skipped, lost>>
           \/ /\ outcome' = "IOError"
              /\ result' = <<>>
              /\ skipped' = skipped + nread
              /\ UNCHANGED <<stream_offset, received, lost>>
  /\ UNCHANGED <<buf, buf_tail, buf_size, file_like, source>>

Next ==
  \/ \E c \in Chunks : Feed(c)
  \/ ReadFromFile
  \/ \E k \in 0 .. Unread : Execute(k)
  \/ \E n \in 0 .. MaxWanted : ReadBytes(n)

Spec == Init /\ [][Next]_vars

-------------------------------------------------------------------------------
(* The waiting bytes lie inside the array, and the array never outgrows    *)
(* max_buffer_size, whatever the order of feeds, reads and failures.       *)
Bounds ==
  /\ buf_head <= buf_tail
  /\ buf_tail <= buf_size
  /\ buf_size <= MaxBufferSize
  /\ ReadSize <= buf_size

(* Compaction and enlargement lose, repeat and reorder nothing: the        *)
(* waiting cells are exactly the received bytes that were not taken yet,   *)
(* and tell() plus the bytes taken by calls that raised says how many      *)
(* were.                                                                   *)
Integrity ==
  /\ Len(received) = stream_offset + skipped + Unread
  /\ \A i \in 0 .. Unread - 1 :
       buf[buf_head + i] = received[stream_offset + skipped + i + 1]

(* feed() raises BufferFull exactly when the waiting bytes and the new     *)
(* ones exceed max_buffer_size -- never because of bytes already consumed  *)
(* that still sit at the front of the array -- and changes nothing then.   *)
FullOnlyWhenFull ==
  [][\A c \in Chunks :
       Feed(c) /\ file_like = "none" =>
         /\ (outcome' = "BufferFull") <=> (Unread + Len(c) > MaxBufferSize)
         /\ outcome' # "ok" => UNCHANGED memory]_vars

(* A file read asks for no more than still fits, so bytes already taken    *)
(* from the file are dropped only when memory runs out.                    *)
FileBytesKept == [][lost' # lost => outcome' = "MemoryError"]_vars

(* The buffer implements the stream of bytes. *)
Stream == INSTANCE ByteStream WITH
            Limit <- MaxBufferSize, position <- stream_offset
StreamSpec == Stream!Spec

(* What the documentation of tell() says: the number of bytes read from    *)
(* the input.  Every byte that has left the buffer is counted.             *)
TellCountsBytesRead == stream_offset = Len(received) - Unread
===============================================================================
