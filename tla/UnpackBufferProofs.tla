-------------------------- MODULE UnpackBufferProofs --------------------------
(***************************************************************************)
(* Proofs about the Cython buffer, for every limit, read size and set of   *)
(* chunks.                                                                 *)
(***************************************************************************)
EXTENDS UnpackBuffer, SequenceTheorems, TLAPS

(* The part of the state append_buffer() works on. *)
MemoryTyped ==
  /\ buf_size \in Nat
  /\ buf \in [0 .. buf_size - 1 -> Byte \cup {Junk}]
  /\ buf_head \in Nat
  /\ buf_tail \in Nat

(* None of the invariants is inductive alone: the waiting cells have to be *)
(* inside the array for Integrity to say anything of them, and hold bytes, *)
(* not Junk, for what is handed out to be typed.                           *)
IInv == TypeOK /\ Bounds /\ Integrity

(* The sizes __init__ computes are positive and ordered. *)
LEMMA Sizes ==
  /\ MaxBufferSize \in Nat \ {0}
  /\ ReadSize \in 1 .. MaxBufferSize
BY BufferAssumption DEF MaxBufferSize, ReadSize, Least

(* memcpy of c behind the tail: the cells of c hold c, the others what     *)
(* they held.                                                              *)
LEMMA StoredCells ==
  ASSUME NEW b, NEW size \in Nat, b \in [0 .. size - 1 -> Byte \cup {Junk}],
         NEW c \in Seq(Byte), NEW tail \in Nat, tail + Len(c) <= size
  PROVE  /\ Stored(b, tail, c) \in [0 .. size - 1 -> Byte \cup {Junk}]
         /\ \A i \in 0 .. tail - 1 : Stored(b, tail, c)[i] = b[i]
         /\ \A i \in 1 .. Len(c) : Stored(b, tail, c)[tail + i - 1] = c[i]
<1>1. ASSUME NEW i \in 0 .. size - 1
      PROVE  (IF i \in tail .. tail + Len(c) - 1 THEN c[i - tail + 1] ELSE b[i])
               \in Byte \cup {Junk}
  <2>1. CASE i \in tail .. tail + Len(c) - 1
    <3>1. i - tail + 1 \in 1 .. Len(c)
      BY <2>1
    <3>2. QED
      BY <2>1, <3>1
  <2>2. CASE i \notin tail .. tail + Len(c) - 1
    BY <2>2
  <2>3. QED
    BY <2>1, <2>2
<1>2. Stored(b, tail, c) \in [0 .. size - 1 -> Byte \cup {Junk}]
  BY <1>1 DEF Stored
<1>3. \A i \in 0 .. tail - 1 : Stored(b, tail, c)[i] = b[i]
  BY DEF Stored
<1>4. ASSUME NEW i \in 1 .. Len(c)
      PROVE  Stored(b, tail, c)[tail + i - 1] = c[i]
  <2>1. tail + i - 1 \in tail .. tail + Len(c) - 1 /\ tail + i - 1 \in 0 .. size - 1
    OBVIOUS
  <2>2. (tail + i - 1) - tail + 1 = i
    OBVIOUS
  <2>3. QED
    BY <2>1, <2>2 DEF Stored
<1>5. QED
  BY <1>2, <1>3, <1>4

(* Whatever branch append_buffer() takes, the array stays typed and within *)
(* the limit; when it succeeds, the cells from the new head on hold what   *)
(* waited, followed by c; when it raises, nothing changed.                 *)
LEMMA AppendEffect ==
  ASSUME MemoryTyped, Bounds, NEW c \in Seq(Byte), AppendBuffer(c)
  PROVE  /\ MemoryTyped'
         /\ Bounds'
         /\ outcome' \in {"ok", "BufferFull", "MemoryError"}
         /\ outcome' # "ok" => UNCHANGED memory
         /\ outcome' = "ok" =>
              /\ Unread' = Unread + Len(c)
              /\ \A i \in 0 .. Unread - 1 : buf'[buf_head' + i] = buf[buf_head + i]
              /\ \A i \in 1 .. Len(c) : buf'[buf_head' + Unread + i - 1] = c[i]
<1> USE Sizes
<1>1. Len(c) \in Nat /\ Unread \in Nat
  BY DEF MemoryTyped, Bounds, Unread
<1>2. CASE outcome' # "ok"
  BY <1>2 DEF AppendBuffer, Raise, memory, MemoryTyped, Bounds
<1>3. CASE /\ buf_tail + Len(c) <= buf_size
           /\ buf' = Stored(buf, buf_tail, c)
           /\ buf_tail' = buf_tail + Len(c)
           /\ UNCHANGED <<buf_head, buf_size>>
           /\ outcome' = "ok"
  <2>1. /\ buf' \in [0 .. buf_size - 1 -> Byte \cup {Junk}]
        /\ \A i \in 0 .. buf_tail - 1 : buf'[i] = buf[i]
        /\ \A i \in 1 .. Len(c) : buf'[buf_tail + i - 1] = c[i]
    BY <1>3, StoredCells DEF MemoryTyped
  <2>2. MemoryTyped' /\ Bounds' /\ Unread' = Unread + Len(c)
    BY <1>1, <1>3, <2>1 DEF MemoryTyped, Bounds, Unread
  <2>3. QED
    BY <1>1, <1>3, <2>1, <2>2 DEF MemoryTyped, Bounds, Unread
<1>4. CASE /\ Unread + Len(c) <= buf_size
           /\ buf' = Stored(MovedToFront, Unread, c)
           /\ buf_head' = 0
           /\ buf_tail' = Unread + Len(c)
           /\ UNCHANGED buf_size
           /\ outcome' = "ok"
  <2>1. MovedToFront \in [0 .. buf_size - 1 -> Byte \cup {Junk}]
    BY <1>1 DEF MovedToFront, MemoryTyped, Bounds, Unread
  <2>2. \A i \in 0 .. Unread - 1 : MovedToFront[i] = buf[buf_head + i]
    BY <1>1 DEF MovedToFront, MemoryTyped, Bounds, Unread
  <2>3. /\ buf' \in [0 .. buf_size - 1 -> Byte \cup {Junk}]
        /\ \A i \in 0 .. Unread - 1 : buf'[i] = buf[buf_head + i]
        /\ \A i \in 1 .. Len(c) : buf'[Unread + i - 1] = c[i]
    BY <1>1, <1>4, <2>1, <2>2, StoredCells DEF MemoryTyped
  <2>4. MemoryTyped' /\ Bounds' /\ Unread' = Unread + Len(c)
    BY <1>1, <1>4, <2>3 DEF MemoryTyped, Bounds, Unread
  <2>5. QED
    BY <1>1, <1>4, <2>3, <2>4
<1>5. CASE /\ Unread + Len(c) > buf_size
           /\ ~Overfull(c)
           /\ buf_size' = Grown(Len(c))
           /\ buf' = Stored(CopiedTo(Grown(Len(c))), Unread, c)
           /\ buf_head' = 0
           /\ buf_tail' = Unread + Len(c)
           /\ outcome' = "ok"
  <2> DEFINE size == Grown(Len(c))
  <2>1. /\ size \in Nat
        /\ Unread + Len(c) <= size
        /\ size <= MaxBufferSize
        /\ ReadSize <= size
    BY <1>1, <1>5 DEF Overfull, Grown, Least, Bounds, MemoryTyped
  <2>2. CopiedTo(size) \in [0 .. size - 1 -> Byte \cup {Junk}]
    BY <1>1, <2>1 DEF CopiedTo, MemoryTyped, Bounds, Unread
  <2>3. \A i \in 0 .. Unread - 1 : CopiedTo(size)[i] = buf[buf_head + i]
    BY <1>1, <2>1 DEF CopiedTo, MemoryTyped, Bounds, Unread
  <2> HIDE DEF size
  <2>4. buf' = Stored(CopiedTo(size), Unread, c) /\ buf_size' = size
    BY <1>5 DEF size
  <2>5. /\ buf' \in [0 .. size - 1 -> Byte \cup {Junk}]
        /\ \A i \in 0 .. Unread - 1 : buf'[i] = buf[buf_head + i]
        /\ \A i \in 1 .. Len(c) : buf'[Unread + i - 1] = c[i]
    BY <1>1, <2>1, <2>2, <2>3, <2>4, StoredCells
  <2>6. MemoryTyped' /\ Bounds' /\ Unread' = Unread + Len(c)
    BY <1>1, <1>5, <2>1, <2>4, <2>5 DEF MemoryTyped, Bounds, Unread
  <2>7. QED
    BY <1>1, <1>5, <2>5, <2>6
<1>6. QED
  BY <1>2, <1>3, <1>4, <1>5 DEF AppendBuffer, Raise

-------------------------------------------------------------------------------
Taken == stream_offset + skipped

(* What a step hands out from the head of the buffer is the next stretch   *)
(* of the stream.                                                          *)
LEMMA WaitingIsUpcoming ==
  ASSUME IInv, NEW k \in 0 .. Unread
  PROVE  /\ Waiting(k) \in Seq(Byte)
         /\ Len(Waiting(k)) = k
         /\ Waiting(k) = SubSeq(received, Taken + 1, Taken + k)
<1>1. /\ Unread \in Nat /\ Taken \in Nat /\ received \in Seq(Byte)
      /\ Taken + k <= Len(received)
  BY DEF IInv, TypeOK, Bounds, Integrity, Unread, Taken
<1>2. ASSUME NEW i \in 1 .. k
      PROVE  buf[buf_head + i - 1] = received[Taken + i]
  <2>1. i - 1 \in 0 .. Unread - 1
    BY <1>1
  <2>2. buf[buf_head + (i - 1)] = received[stream_offset + skipped + (i - 1) + 1]
    BY <2>1 DEF IInv, Integrity
  <2>3. /\ buf_head + (i - 1) = buf_head + i - 1
        /\ stream_offset + skipped + (i - 1) + 1 = Taken + i
    BY DEF IInv, TypeOK, Taken
  <2>4. QED
    BY <2>2, <2>3
<1>3. \A i \in 1 .. k : received[Taken + i] \in Byte
  BY <1>1
<1>4. Waiting(k) = [i \in 1 .. k |-> received[Taken + i]]
  BY <1>2 DEF Waiting
<1>5. [i \in 1 .. k |-> received[Taken + i]] \in Seq(Byte)
  BY <1>1, <1>3
<1>6. Len(Waiting(k)) = k
  BY <1>4, <1>1
<1>7. SubSeq(received, Taken + 1, Taken + k) = [i \in 1 .. k |-> received[Taken + i]]
  <2>1. SubSeq(received, Taken + 1, Taken + k)
          = [i \in 1 .. ((Taken + k) - (Taken + 1) + 1)
               |-> received[i + (Taken + 1) - 1]]
    BY <1>1
  <2>2. (Taken + k) - (Taken + 1) + 1 = k
    BY <1>1
  <2>3. \A i \in 1 .. k : i + (Taken + 1) - 1 = Taken + i
    BY <1>1
  <2>4. QED
    BY <2>1, <2>2, <2>3
<1>8. QED
  BY <1>4, <1>5, <1>6, <1>7

(* Bytes appended to the buffer and to the history keep the two equal. *)
LEMMA AppendKeepsIntegrity ==
  ASSUME IInv, NEW c \in Seq(Byte), AppendBuffer(c),
         UNCHANGED <<stream_offset, skipped>>,
         received' = IF outcome' = "ok" THEN received \o c ELSE received
  PROVE  Integrity' /\ received' \in Seq(Byte)
<1>1. MemoryTyped /\ Bounds
  BY DEF IInv, TypeOK, MemoryTyped
<1>2. /\ Unread \in Nat /\ Taken \in Nat /\ received \in Seq(Byte)
      /\ buf_head \in Nat
      /\ Len(received) = Taken + Unread
      /\ \A i \in 0 .. Unread - 1 : buf[buf_head + i] = received[Taken + i + 1]
  BY DEF IInv, TypeOK, Bounds, Integrity, Unread, Taken
<1>3. Taken' = Taken
  BY DEF Taken
<1>4. CASE outcome' # "ok"
  <2>1. UNCHANGED memory /\ received' = received
    BY <1>1, <1>4, AppendEffect
  <2>2. QED
    BY <1>2, <2>1 DEF memory, Integrity, IInv, Unread
<1>5. CASE outcome' = "ok"
  <2>1. /\ Unread' = Unread + Len(c)
        /\ \A i \in 0 .. Unread - 1 : buf'[buf_head' + i] = buf[buf_head + i]
        /\ \A i \in 1 .. Len(c) : buf'[buf_head' + Unread + i - 1] = c[i]
        /\ buf_head' \in Nat
    BY <1>1, <1>5, AppendEffect DEF MemoryTyped
  <2>2. /\ received' \in Seq(Byte)
        /\ Len(received') = Len(received) + Len(c)
        /\ \A i \in 1 .. Len(received) : received'[i] = received[i]
        /\ \A i \in 1 .. Len(c) : received'[Len(received) + i] = c[i]
    <3>1. received' = received \o c
      BY <1>5
    <3>2. \A i \in 1 .. Len(received) + Len(c) :
            received'[i] = IF i <= Len(received) THEN received[i]
                                                 ELSE c[i - Len(received)]
      BY <1>2, <3>1, ConcatProperties
    <3>3. \A i \in 1 .. Len(received) : received'[i] = received[i]
      BY <1>2, <3>2
    <3>4. ASSUME NEW i \in 1 .. Len(c)
          PROVE  received'[Len(received) + i] = c[i]
      <4>1. /\ Len(received) + i \in 1 .. Len(received) + Len(c)
            /\ ~(Len(received) + i <= Len(received))
            /\ (Len(received) + i) - Len(received) = i
        BY <1>2
      <4>2. QED
        BY <3>2, <4>1
    <3>5. QED
      BY <1>2, <3>1, <3>3, <3>4, ConcatProperties
  <2>3. ASSUME NEW i \in 0 .. (Unread + Len(c)) - 1
        PROVE  buf'[buf_head' + i] = received'[Taken + i + 1]
    <3>1. CASE i < Unread
      <4>1. i \in 0 .. Unread - 1 /\ Taken + i + 1 \in 1 .. Len(received)
        BY <1>2, <3>1
      <4>2. /\ buf'[buf_head' + i] = buf[buf_head + i]
            /\ buf[buf_head + i] = received[Taken + i + 1]
            /\ received'[Taken + i + 1] = received[Taken + i + 1]
        BY <1>2, <2>1, <2>2, <4>1
      <4>3. QED
        BY <4>2
    <3>2. CASE i >= Unread
      <4>1. i - Unread + 1 \in 1 .. Len(c)
        BY <1>2, <3>2
      <4>2. /\ buf'[buf_head' + Unread + (i - Unread + 1) - 1] = c[i - Unread + 1]
            /\ received'[Len(received) + (i - Unread + 1)] = c[i - Unread + 1]
        BY <2>1, <2>2, <4>1
      <4>3. /\ buf_head' + Unread + (i - Unread + 1) - 1 = buf_head' + i
            /\ Len(received) + (i - Unread + 1) = Taken + i + 1
        BY <1>2, <2>1
      <4>4. QED
        BY <4>2, <4>3
    <3>3. QED
      BY <1>2, <3>1, <3>2
  <2>4. Len(received') = Taken + (Unread + Len(c))
    BY <1>2, <2>2
  <2>5. QED
    BY <1>3, <2>1, <2>2, <2>3, <2>4 DEF Integrity, Taken
<1>6. QED
  BY <1>4, <1>5

(* Bytes that leave at the head and are counted, by tell() or as thrown    *)
(* away, keep the rest aligned with the history.                           *)
LEMMA TakeKeepsIntegrity ==
  ASSUME IInv, NEW k \in 0 .. Unread, Taken' = Taken + k,
         buf_head' = buf_head + k, UNCHANGED <<buf, buf_tail, received>>
  PROVE  Integrity'
<1>1. /\ Unread \in Nat /\ Taken \in Nat /\ buf_head \in Nat
      /\ Len(received) = Taken + Unread
      /\ \A i \in 0 .. Unread - 1 : buf[buf_head + i] = received[Taken + i + 1]
  BY DEF IInv, TypeOK, Bounds, Integrity, Unread, Taken
<1>2. Unread' = Unread - k
  BY DEF Unread, IInv, TypeOK
<1>3. ASSUME NEW i \in 0 .. (Unread - k) - 1
      PROVE  buf[(buf_head + k) + i] = received[(Taken + k) + i + 1]
  <2>1. k + i \in 0 .. Unread - 1
    BY <1>1
  <2>2. buf[buf_head + (k + i)] = received[Taken + (k + i) + 1]
    BY <1>1, <2>1
  <2>3. /\ buf_head + (k + i) = (buf_head + k) + i
        /\ Taken + (k + i) + 1 = (Taken + k) + i + 1
    BY <1>1
  <2>4. QED
    BY <2>2, <2>3
<1>4. Len(received) = (Taken + k) + (Unread - k)
  BY <1>1
<1>5. QED
  BY <1>2, <1>3, <1>4 DEF Integrity, Taken

-------------------------------------------------------------------------------
LEMMA InitIInv == Init => IInv
<1> SUFFICES ASSUME Init PROVE IInv
  OBVIOUS
<1> USE Sizes DEF Init
<1>1. TypeOK
  BY DEF TypeOK
<1>2. Bounds
  BY DEF Bounds
<1>3. Integrity
  BY DEF Integrity, Unread
<1>4. QED
  BY <1>1, <1>2, <1>3 DEF IInv

LEMMA FeedIInv ==
  ASSUME IInv, NEW c \in Chunks, Feed(c)
  PROVE  IInv'
<1>1. c \in Seq(Byte)
  BY BufferAssumption
<1>2. CASE AppendBuffer(c)
  <2>1. MemoryTyped' /\ Bounds' /\ outcome' \in {"ok", "BufferFull", "MemoryError"}
    BY <1>1, <1>2, AppendEffect DEF IInv, TypeOK, MemoryTyped
  <2>2. Integrity' /\ received' \in Seq(Byte)
    BY <1>1, <1>2, AppendKeepsIntegrity DEF Feed
  <2>3. result' = <<>> /\ UNCHANGED <<stream_offset, file_like, source, skipped, lost>>
    BY DEF Feed
  <2>4. TypeOK'
    <3>1. result' \in Seq(Byte)
      BY <2>3
    <3>2. QED
      BY <2>1, <2>2, <2>3, <3>1, Zenon DEF IInv, TypeOK, MemoryTyped
  <2>5. QED
    BY <2>1, <2>2, <2>4 DEF IInv
<1>3. CASE Raise("AssertionError")
  <2>1. /\ UNCHANGED <<memory, received, stream_offset, skipped, file_like,
                       source, lost>>
        /\ outcome' = "AssertionError"
        /\ result' = <<>>
    BY <1>3 DEF Feed, Raise
  <2>2. QED
    BY <2>1 DEF IInv, TypeOK, Bounds, Integrity, Unread, memory
<1>4. QED
  BY <1>2, <1>3 DEF Feed

LEMMA ReadFromFileIInv ==
  ASSUME IInv, ReadFromFile
  PROVE  IInv'
<1>1. ASSUME NEW c \in Chunks, AppendBuffer(c),
             IF outcome' = "ok"
               THEN received' = received \o c /\ UNCHANGED lost
               ELSE lost' = lost + Len(c) /\ UNCHANGED received,
             UNCHANGED <<file_like, skipped>>
      PROVE  IInv'
  <2>1. c \in Seq(Byte) /\ Len(c) \in Nat
    BY BufferAssumption
  <2>2. MemoryTyped' /\ Bounds' /\ outcome' \in {"ok", "BufferFull", "MemoryError"}
    BY <1>1, <2>1, AppendEffect DEF IInv, TypeOK, MemoryTyped
  <2>3. received' = IF outcome' = "ok" THEN received \o c ELSE received
    BY <1>1
  <2>4. Integrity' /\ received' \in Seq(Byte)
    BY <1>1, <2>1, <2>3, AppendKeepsIntegrity DEF ReadFromFile
  <2>5. lost' \in Nat
    BY <1>1, <2>1 DEF IInv, TypeOK
  <2>6. result' = <<>> /\ UNCHANGED <<stream_offset, source>>
    BY DEF ReadFromFile
  <2>7. TypeOK'
    <3>1. result' \in Seq(Byte)
      BY <2>6
    <3>2. QED
      BY <1>1, <2>2, <2>4, <2>5, <2>6, <3>1, Zenon DEF IInv, TypeOK, MemoryTyped
  <2>8. QED
    BY <2>2, <2>4, <2>7 DEF IInv
<1>2. ASSUME UNCHANGED <<memory, history>>,
             file_like' \in {"open", "none"},
             outcome' \in {"ok", "BufferFull", "IOError"}
      PROVE  IInv'
  BY <1>2 DEF ReadFromFile, IInv, TypeOK, Bounds, Integrity, Unread, memory, history
<1>3. QED
  BY <1>1, <1>2 DEF ReadFromFile, EndOfFile, Raise, IInv, TypeOK

LEMMA ExecuteIInv ==
  ASSUME IInv, NEW k \in 0 .. Unread, Execute(k)
  PROVE  IInv'
<1>1. result' \in Seq(Byte) /\ outcome' \in {"ok", "CallbackError"}
  <2>1. Waiting(k) \in Seq(Byte) /\ <<>> \in Seq(Byte)
    BY WaitingIsUpcoming
  <2>2. QED
    BY <2>1, Zenon DEF Execute
<1>2. /\ buf_head' = buf_head + k
      /\ UNCHANGED <<buf, buf_tail, buf_size, file_like, source, received, lost>>
  BY DEF Execute, history
<1>3. \/ stream_offset' = stream_offset + k /\ skipped' = skipped
      \/ stream_offset' = stream_offset /\ skipped' = skipped + k
  BY DEF Execute, history, IInv, TypeOK
<1>4. TypeOK' /\ Bounds'
  BY <1>1, <1>2, <1>3 DEF IInv, TypeOK, Bounds, Unread
<1>5. Taken' = Taken + k
  BY <1>3 DEF Taken, IInv, TypeOK
<1>6. Integrity'
  BY <1>2, <1>5, TakeKeepsIntegrity
<1>7. QED
  BY <1>4, <1>6 DEF IInv

LEMMA ReadBytesIInv ==
  ASSUME IInv, NEW nbytes \in Nat, ReadBytes(nbytes)
  PROVE  IInv'
<1> DEFINE nread == Least(Unread, nbytes)
<1>1. /\ nread \in 0 .. Unread
      /\ nread < nbytes => nread = Unread
  BY DEF Least, IInv, TypeOK, Bounds, Unread
<1>2. /\ buf_head' = buf_head + nread
      /\ UNCHANGED <<buf, buf_tail, buf_size, file_like, source>>
  BY DEF ReadBytes
<1>3. Bounds'
  BY <1>1, <1>2 DEF IInv, TypeOK, Bounds, Unread
<1>4. Waiting(nread) \in Seq(Byte) /\ Len(Waiting(nread)) = nread
  BY <1>1, WaitingIsUpcoming
<1>5. CASE /\ result' = Waiting(nread)
           /\ stream_offset' = stream_offset + nread
           /\ outcome' = "ok"
           /\ UNCHANGED history
  <2>1. TypeOK'
    BY <1>1, <1>2, <1>4, <1>5 DEF IInv, TypeOK, history
  <2>2. Integrity'
    <3>1. Taken' = Taken + nread
      BY <1>1, <1>5 DEF Taken, history, IInv, TypeOK
    <3>2. QED
      BY <1>1, <1>2, <1>5, <3>1, TakeKeepsIntegrity DEF history
  <2>3. QED
    BY <1>3, <2>1, <2>2 DEF IInv
<1>6. CASE /\ nread < nbytes
           /\ \E c \in Chunks :
                /\ received' = received \o c
                /\ result' = Waiting(nread) \o c
                /\ stream_offset' = stream_offset + Len(result')
                /\ outcome' = "ok"
                /\ UNCHANGED <<skipped, lost>>
  <2>1. PICK c \in Chunks :
                /\ received' = received \o c
                /\ result' = Waiting(nread) \o c
                /\ stream_offset' = stream_offset + Len(result')
                /\ outcome' = "ok"
                /\ UNCHANGED <<skipped, lost>>
    BY <1>6
  <2>2. c \in Seq(Byte) /\ received \in Seq(Byte)
    BY BufferAssumption DEF IInv, TypeOK
  <2>3. /\ result' \in Seq(Byte)
        /\ Len(result') = nread + Len(c)
        /\ received' \in Seq(Byte)
        /\ Len(received') = Len(received) + Len(c)
    BY <1>4, <2>1, <2>2, ConcatProperties
  <2>4. TypeOK'
    BY <1>1, <1>2, <2>1, <2>2, <2>3 DEF IInv, TypeOK
  <2>5. Unread' = 0
    BY <1>1, <1>2, <1>6 DEF Unread, IInv, TypeOK
  <2>6. Integrity'
    <3>1. Len(received) = stream_offset + skipped + nread
      BY <1>1, <1>6 DEF IInv, Integrity
    <3>2. Len(received') = stream_offset' + skipped' + Unread'
      <4>1. /\ stream_offset' = stream_offset + (nread + Len(c))
            /\ skipped' = skipped
            /\ Len(received') = (stream_offset + skipped + nread) + Len(c)
        BY <2>1, <2>3, <3>1
      <4>2. /\ stream_offset \in Nat /\ skipped \in Nat
            /\ nread \in Int /\ Len(c) \in Nat
        BY <1>1, <2>2 DEF IInv, TypeOK, Bounds, Unread
      <4>3. QED
        BY <2>5, <4>1, <4>2
    <3>3. QED
      BY <2>5, <3>2 DEF Integrity
  <2>7. QED
    BY <1>3, <2>4, <2>6 DEF IInv
<1>7. CASE /\ outcome' = "IOError"
           /\ result' = <<>>
           /\ skipped' = skipped + nread
           /\ UNCHANGED <<stream_offset, received, lost>>
  <2>1. TypeOK'
    BY <1>1, <1>2, <1>7 DEF IInv, TypeOK
  <2>2. Integrity'
    <3>1. Taken' = Taken + nread
      BY <1>1, <1>7 DEF Taken, IInv, TypeOK
    <3>2. QED
      BY <1>1, <1>2, <1>7, <3>1, TakeKeepsIntegrity
  <2>3. QED
    BY <1>3, <2>1, <2>2 DEF IInv
<1>8. QED
  BY <1>5, <1>6, <1>7 DEF ReadBytes

LEMMA NextIInv == IInv /\ [Next]_vars => IInv'
<1> SUFFICES ASSUME IInv, [Next]_vars PROVE IInv'
  OBVIOUS
<1>1. ASSUME NEW c \in Chunks, Feed(c) PROVE IInv'
  BY <1>1, FeedIInv
<1>2. CASE ReadFromFile
  BY <1>2, ReadFromFileIInv
<1>3. ASSUME NEW k \in 0 .. Unread, Execute(k) PROVE IInv'
  BY <1>3, ExecuteIInv
<1>4. ASSUME NEW n \in 0 .. MaxWanted, ReadBytes(n) PROVE IInv'
  BY <1>4, ReadBytesIInv, BufferAssumption
<1>5. CASE UNCHANGED vars
  BY <1>5 DEF vars, memory, history, IInv, TypeOK, Bounds, Integrity, Unread
<1>6. QED
  BY <1>1, <1>2, <1>3, <1>4, <1>5 DEF Next

LEMMA AlwaysIInv == Spec => []IInv
BY InitIInv, NextIInv, PTL DEF Spec

(* Every reachable state is typed: the cells are bytes or never written,   *)
(* the indices naturals, what is handed out made of bytes.                 *)
THEOREM TypeCorrect == Spec => []TypeOK
<1>1. IInv => TypeOK
  BY DEF IInv
<1>2. QED
  BY <1>1, AlwaysIInv, PTL

(* The indices stay inside the array and the array within max_buffer_size, *)
(* for every pair of sizes __init__ accepts.                               *)
THEOREM BoundsAlways == Spec => []Bounds
<1>1. IInv => Bounds
  BY DEF IInv
<1>2. QED
  BY <1>1, AlwaysIInv, PTL

(* No byte is lost, repeated or reordered by compaction, enlargement, file *)
(* reads, consumption or failures: the waiting cells are the part of the   *)
(* input that was not taken.                                               *)
THEOREM IntegrityAlways == Spec => []Integrity
<1>1. IInv => Integrity
  BY DEF IInv
<1>2. QED
  BY <1>1, AlwaysIInv, PTL

-------------------------------------------------------------------------------
(* The four ways append_buffer() can end, told apart by what must fit. *)
LEMMA AppendOutcome ==
  ASSUME TypeOK, Bounds, NEW c \in Seq(Byte), AppendBuffer(c)
  PROVE  /\ outcome' \in {"ok", "BufferFull", "MemoryError"}
         /\ (outcome' = "BufferFull") <=> (Unread + Len(c) > MaxBufferSize)
         /\ outcome' # "ok" => UNCHANGED memory
<1>1. /\ Len(c) \in Nat /\ Unread \in Nat /\ Unread <= buf_tail
      /\ buf_tail \in Nat /\ buf_size \in Nat /\ buf_size <= MaxBufferSize
      /\ MaxBufferSize \in Nat
  BY Sizes DEF TypeOK, Bounds, Unread
<1>2. CASE Unread + Len(c) > MaxBufferSize
  <2>1. buf_tail + Len(c) > buf_size /\ Unread + Len(c) > buf_size
    BY <1>1, <1>2
  <2>2. QED
    BY <1>1, <1>2, <2>1 DEF AppendBuffer, Overfull, Raise
<1>3. CASE Unread + Len(c) <= MaxBufferSize
  BY <1>1, <1>3 DEF AppendBuffer, Overfull, Raise
<1>4. QED
  BY <1>1, <1>2, <1>3

(* feed() refuses exactly the input that does not fit, and then leaves the *)
(* buffer alone.                                                           *)
THEOREM FeedRefusal == Spec => FullOnlyWhenFull
<1> DEFINE Refusal ==
      \A c \in Chunks :
        Feed(c) /\ file_like = "none" =>
          /\ (outcome' = "BufferFull") <=> (Unread + Len(c) > MaxBufferSize)
          /\ outcome' # "ok" => UNCHANGED memory
<1>1. IInv /\ [Next]_vars => [Refusal]_vars
  <2> SUFFICES ASSUME IInv, NEW c \in Chunks, Feed(c), file_like = "none"
               PROVE  /\ (outcome' = "BufferFull")
                           <=> (Unread + Len(c) > MaxBufferSize)
                      /\ outcome' # "ok" => UNCHANGED memory
    OBVIOUS
  <2>1. c \in Seq(Byte) /\ AppendBuffer(c)
    BY BufferAssumption DEF Feed
  <2>2. QED
    BY <2>1, AppendOutcome DEF IInv
<1>2. QED
  BY <1>1, AlwaysIInv, PTL DEF Spec, FullOnlyWhenFull

(* Bytes the file has given are dropped only for want of memory: the size  *)
(* asked for never exceeds what still fits.                                *)
THEOREM FileReadsFit == Spec => FileBytesKept
<1> DEFINE Kept == lost' # lost => outcome' = "MemoryError"
<1>1. IInv /\ [Next]_vars => [Kept]_vars
  <2> SUFFICES ASSUME IInv, [Next]_vars, lost' # lost
               PROVE  outcome' = "MemoryError"
    OBVIOUS
  <2>1. CASE ReadFromFile
    <3>1. PICK c \in Chunks :
            /\ Len(c) \in 1 .. Least(ReadSize, Remains)
            /\ AppendBuffer(c)
            /\ outcome' # "ok"
      BY <2>1 DEF ReadFromFile, EndOfFile, history
    <3>2. Unread + Len(c) <= MaxBufferSize
      BY <3>1, Sizes DEF Least, Remains, IInv, TypeOK, Bounds, Unread
    <3>3. c \in Seq(Byte) /\ Unread + Len(c) \in Nat /\ MaxBufferSize \in Nat
      BY <3>1, BufferAssumption, Sizes DEF IInv, TypeOK, Bounds, Unread
    <3>4. QED
      BY <3>1, <3>2, <3>3, AppendOutcome DEF IInv
  <2>2. QED
    BY <2>1 DEF Next, Feed, Execute, ReadBytes, vars, history
<1>2. QED
  BY <1>1, AlwaysIInv, PTL DEF Spec, FileBytesKept

-------------------------------------------------------------------------------
(* Refinement: every step of the buffer is a step of the stream of bytes. *)

LEMMA StreamWaiting ==
  ASSUME IInv
  PROVE  /\ Stream!Waiting = Unread
         /\ Unread \in 0 .. MaxBufferSize
         /\ \A k \in 0 .. Unread : Waiting(k) = Stream!Upcoming(k)
<1>1. Stream!Waiting = Unread /\ Unread \in 0 .. MaxBufferSize
  BY Sizes DEF Stream!Waiting, Stream!Taken, IInv, TypeOK, Bounds, Integrity, Unread
<1>2. ASSUME NEW k \in 0 .. Unread
      PROVE  Waiting(k) = Stream!Upcoming(k)
  BY WaitingIsUpcoming DEF Stream!Upcoming, Stream!Taken, Taken
<1>3. QED
  BY <1>1, <1>2

LEMMA FeedStream ==
  ASSUME IInv, NEW c \in Chunks, Feed(c)
  PROVE  Stream!Next
<1>1. c \in Seq(Byte) /\ Len(c) \in Nat
  BY BufferAssumption
<1>2. CASE AppendBuffer(c)
  <2>1. /\ outcome' \in {"ok", "BufferFull", "MemoryError"}
        /\ (outcome' = "BufferFull") <=> (Unread + Len(c) > MaxBufferSize)
    BY <1>1, <1>2, AppendOutcome DEF IInv
  <2>2. CASE outcome' = "ok"
    <3>1. Unread + Len(c) <= MaxBufferSize
      BY <1>1, <2>1, <2>2, StreamWaiting, Sizes
    <3>2. Stream!Accept(c)
      BY <2>2, <3>1, StreamWaiting DEF Feed, Stream!Accept
    <3>3. QED
      BY <3>2 DEF Stream!Next
  <2>3. CASE outcome' = "BufferFull"
    <3>1. Stream!Raise("BufferFull")
      BY <2>3 DEF Feed, Stream!Raise
    <3>2. QED
      BY <2>1, <2>3, <3>1, StreamWaiting DEF Stream!Refuse, Stream!Next
  <2>4. CASE outcome' = "MemoryError"
    BY <2>4 DEF Feed, Stream!Raise, Stream!Next
  <2>5. QED
    BY <2>1, <2>2, <2>3, <2>4
<1>3. CASE Raise("AssertionError")
  BY <1>3 DEF Feed, Raise, Stream!Raise, Stream!Next
<1>4. QED
  BY <1>2, <1>3 DEF Feed

LEMMA ReadFromFileStream ==
  ASSUME IInv, ReadFromFile
  PROVE  Stream!Next
<1>1. CASE Remains <= 0 /\ Raise("BufferFull") /\ UNCHANGED <<file_like, history>>
  <2>1. Stream!Raise("BufferFull")
    BY <1>1 DEF ReadFromFile, Raise, Stream!Raise, history
  <2>2. Stream!Waiting = MaxBufferSize
    BY <1>1, StreamWaiting, Sizes DEF Remains
  <2>3. QED
    BY <2>1, <2>2 DEF Stream!Refuse, Stream!Next
<1>2. ASSUME NEW c \in Chunks,
             Len(c) \in 1 .. Least(ReadSize, Remains),
             AppendBuffer(c),
             IF outcome' = "ok"
               THEN received' = received \o c /\ UNCHANGED lost
               ELSE lost' = lost + Len(c) /\ UNCHANGED received,
             UNCHANGED <<file_like, skipped>>
      PROVE  Stream!Next
  <2>1. c \in Seq(Byte) /\ Len(c) \in Nat
    BY BufferAssumption
  <2>2. Unread + Len(c) <= MaxBufferSize
    BY <1>2, StreamWaiting, Sizes DEF Least, Remains
  <2>3. outcome' \in {"ok", "MemoryError"}
    BY <1>2, <2>1, <2>2, AppendOutcome, StreamWaiting, Sizes DEF IInv
  <2>4. CASE outcome' = "ok"
    BY <1>2, <2>2, <2>4, StreamWaiting DEF ReadFromFile, Stream!Accept, Stream!Next
  <2>5. CASE outcome' = "MemoryError"
    BY <1>2, <2>5 DEF ReadFromFile, Stream!Raise, Stream!Next
  <2>6. QED
    BY <2>3, <2>4, <2>5
<1>3. CASE file_like' = "none" /\ outcome' = "ok" /\ UNCHANGED <<memory, history>>
  BY <1>3 DEF ReadFromFile, Stream!EndOfFile, Stream!Next, history
<1>4. CASE Raise("IOError") /\ UNCHANGED <<file_like, history>>
  BY <1>4 DEF ReadFromFile, Raise, Stream!Raise, Stream!Next, history
<1>5. QED
  BY <1>1, <1>2, <1>3, <1>4 DEF ReadFromFile, EndOfFile

LEMMA ExecuteStream ==
  ASSUME IInv, NEW k \in 0 .. Unread, Execute(k)
  PROVE  Stream!Next
<1>1. CASE outcome' = "ok"
  <2>1. stream_offset' = stream_offset + k
    BY <1>1 DEF Execute, IInv, TypeOK
  <2>2. Stream!Take(k)
    BY <1>1, <2>1, StreamWaiting DEF Execute, Stream!Take, history
  <2>3. QED
    BY <2>2, StreamWaiting DEF Stream!Next
<1>2. CASE outcome' = "CallbackError"
  <2>1. Stream!GiveUp(k, "CallbackError")
    BY <1>2 DEF Execute, Stream!GiveUp
  <2>2. QED
    BY <2>1, StreamWaiting DEF Stream!Next
<1>3. QED
  BY <1>1, <1>2 DEF Execute

LEMMA ReadBytesStream ==
  ASSUME IInv, NEW nbytes \in Nat, ReadBytes(nbytes)
  PROVE  Stream!Next
<1> DEFINE nread == Least(Unread, nbytes)
<1>1. /\ nread \in 0 .. Unread
      /\ nread < nbytes => nread = Unread
  BY DEF Least, IInv, TypeOK, Bounds, Unread
<1>2. CASE /\ result' = Waiting(nread)
           /\ stream_offset' = stream_offset + nread
           /\ outcome' = "ok"
           /\ UNCHANGED history
  <2>1. Stream!Take(nread)
    BY <1>1, <1>2, StreamWaiting DEF ReadBytes, Stream!Take, history
  <2>2. QED
    BY <1>1, <2>1, StreamWaiting DEF Stream!Next
<1>3. CASE /\ nread < nbytes
           /\ file_like = "open"
           /\ \E c \in Chunks :
                /\ received' = received \o c
                /\ result' = Waiting(nread) \o c
                /\ stream_offset' = stream_offset + Len(result')
                /\ outcome' = "ok"
                /\ UNCHANGED <<skipped, lost>>
  <2>1. PICK c \in Chunks :
                /\ received' = received \o c
                /\ result' = Waiting(nread) \o c
                /\ stream_offset' = stream_offset + Len(result')
                /\ outcome' = "ok"
                /\ UNCHANGED <<skipped, lost>>
    BY <1>3
  <2>2. /\ Waiting(nread) \in Seq(Byte) /\ Len(Waiting(nread)) = nread
        /\ Waiting(nread) = Stream!Upcoming(Stream!Waiting)
        /\ Stream!Waiting = nread
    BY <1>1, <1>3, WaitingIsUpcoming, StreamWaiting
  <2>3. Len(result') = nread + Len(c)
    BY <2>1, <2>2, BufferAssumption, ConcatProperties
  <2>4. stream_offset' = stream_offset + Stream!Waiting + Len(c)
    BY <2>1, <2>2, <2>3, <1>1, BufferAssumption DEF IInv, TypeOK
  <2>5. Stream!TakeThrough(c)
    BY <1>3, <2>1, <2>2, <2>4 DEF ReadBytes, Stream!TakeThrough
  <2>6. QED
    BY <2>5 DEF Stream!Next
<1>4. CASE /\ nread < nbytes
           /\ file_like = "open"
           /\ outcome' = "IOError"
           /\ result' = <<>>
           /\ skipped' = skipped + nread
           /\ UNCHANGED <<stream_offset, received, lost>>
  <2>1. Stream!GiveUp(nread, "IOError")
    BY <1>1, <1>4, StreamWaiting DEF ReadBytes, Stream!GiveUp
  <2>2. QED
    BY <1>1, <2>1, StreamWaiting DEF Stream!Next
<1>5. QED
  BY <1>2, <1>3, <1>4 DEF ReadBytes

(* The array with its head, tail, compaction and enlargement behaves, step *)
(* by step, as the plain sequence of bytes of ByteStream.                  *)
THEOREM BufferImplementsStream == Spec => StreamSpec
<1>1. Init => Stream!Init
  BY DEF Init, Stream!Init
<1>2. IInv /\ [Next]_vars => [Stream!Next]_(Stream!vars)
  <2> SUFFICES ASSUME IInv, [Next]_vars
               PROVE  [Stream!Next]_(Stream!vars)
    OBVIOUS
  <2>1. ASSUME NEW c \in Chunks, Feed(c) PROVE Stream!Next
    BY <2>1, FeedStream
  <2>2. CASE ReadFromFile
    BY <2>2, ReadFromFileStream
  <2>3. ASSUME NEW k \in 0 .. Unread, Execute(k) PROVE Stream!Next
    BY <2>3, ExecuteStream
  <2>4. ASSUME NEW n \in 0 .. MaxWanted, ReadBytes(n) PROVE Stream!Next
    BY <2>4, ReadBytesStream, BufferAssumption
  <2>5. CASE UNCHANGED vars
    BY <2>5 DEF vars, history, Stream!vars
  <2>6. QED
    BY <2>1, <2>2, <2>3, <2>4, <2>5 DEF Next
<1>3. QED
  BY <1>1, <1>2, AlwaysIInv, PTL DEF Spec, StreamSpec, Stream!Spec
===============================================================================
