------------------------- MODULE FallbackBufferProofs -------------------------
(***************************************************************************)
(* Proofs about the buffer of the pure Python Unpacker, for every limit,   *)
(* read size and set of chunks.                                            *)
(***************************************************************************)
EXTENDS FallbackBuffer, SequenceTheorems, TLAPS

(* Aligned needs the order of the indices to speak of cells that exist;    *)
(* FileBound needs remain_bytes to be what is missing, which makes a read  *)
(* of that many bytes end below the limit.                                 *)
IInv == TypeOK /\ Indices /\ Aligned /\ FileBound

(* The sizes __init__ computes are positive and ordered. *)
LEMMA Sizes ==
  /\ MaxBufferSize \in Nat \ {0}
  /\ ReadSize \in 1 .. MaxBufferSize
BY FallbackAssumption DEF MaxBufferSize, ReadSize, Least

(* A slice of the buffer is a sequence of bytes. *)
LEMMA SliceTyped ==
  ASSUME TypeOK, NEW a \in Nat, NEW b \in Int, b <= Len(buffer)
  PROVE  SubSeq(buffer, a + 1, b) \in Seq(Byte)
<1>1. \A i \in a + 1 .. b : buffer[i] \in Byte
  BY ElementOfSeq DEF TypeOK
<1>2. QED
  BY <1>1, SubSeqProperties

(* Stripping keeps the bytes from the checkpoint on, and moves them to the *)
(* front.                                                                  *)
LEMMA StrippedCells ==
  ASSUME TypeOK, Indices
  PROVE  /\ Stripped \in Seq(Byte)
         /\ Len(Stripped) = Len(buffer) - buf_checkpoint
         /\ \A i \in 1 .. Len(buffer) - buf_checkpoint :
              Stripped[i] = buffer[buf_checkpoint + i]
<1>1. /\ Len(buffer) \in Nat
      /\ buf_checkpoint \in Nat
      /\ buf_checkpoint <= Len(buffer)
  BY DEF TypeOK, Indices
<1>2. \A i \in buf_checkpoint + 1 .. Len(buffer) : buffer[i] \in Byte
  BY <1>1, ElementOfSeq DEF TypeOK
<1>3. QED
  BY <1>1, <1>2, SubSeqProperties DEF Stripped

(* What s holds behind position k is what t holds behind position o. *)
SameRest(s, k, t, o) ==
  /\ o + (Len(s) - k) = Len(t)
  /\ \A i \in 1 .. Len(s) - k : s[k + i] = t[o + i]

(* Two lengths that grow by the same amount. *)
LEMMA BothLonger ==
  ASSUME NEW a \in Nat, NEW b \in Nat, NEW x \in Nat, NEW k \in Nat, NEW o \in Nat,
         o + (a - k) = b
  PROVE  o + ((a + x) - k) = b + x
OBVIOUS

(* New bytes at the end of the buffer and of the history keep the two      *)
(* aligned, whether the buffer was stripped or not.                        *)
LEMMA AppendAligned ==
  ASSUME NEW s \in Seq(Byte), NEW t \in Seq(Byte), NEW c \in Seq(Byte),
         NEW k \in Nat, NEW o \in Nat, k <= Len(s),
         SameRest(s, k, t, o)
  PROVE  /\ s \o c \in Seq(Byte)
         /\ t \o c \in Seq(Byte)
         /\ Len(s \o c) = Len(s) + Len(c)
         /\ SameRest(s \o c, k, t \o c, o)
<1>1. Len(s) \in Nat /\ Len(t) \in Nat /\ Len(c) \in Nat
  OBVIOUS
<1> DEFINE u == s \o c
           v == t \o c
<1>2. /\ u \in Seq(Byte) /\ v \in Seq(Byte)
      /\ Len(u) = Len(s) + Len(c)
      /\ Len(v) = Len(t) + Len(c)
      /\ \A i \in 1 .. Len(s) + Len(c) :
           u[i] = IF i <= Len(s) THEN s[i] ELSE c[i - Len(s)]
      /\ \A i \in 1 .. Len(t) + Len(c) :
           v[i] = IF i <= Len(t) THEN t[i] ELSE c[i - Len(t)]
  BY ConcatProperties
<1> HIDE DEF u, v
<1>3. ASSUME NEW i \in 1 .. (Len(s) + Len(c)) - k
      PROVE  u[k + i] = v[o + i]
  <2>1. /\ k + i \in 1 .. Len(s) + Len(c)
        /\ o + i \in 1 .. Len(t) + Len(c)
    BY <1>1 DEF SameRest
  <2>2. CASE k + i <= Len(s)
    <3>1. i \in 1 .. Len(s) - k /\ o + i <= Len(t)
      BY <1>1, <2>2 DEF SameRest
    <3>2. s[k + i] = t[o + i]
      BY <3>1 DEF SameRest
    <3>3. u[k + i] = s[k + i] /\ v[o + i] = t[o + i]
      BY <1>2, <2>1, <2>2, <3>1
    <3>4. QED
      BY <3>2, <3>3
  <2>3. CASE k + i > Len(s)
    <3>1. o + i > Len(t) /\ (k + i) - Len(s) = (o + i) - Len(t)
      BY <1>1, <2>3 DEF SameRest
    <3>2. /\ u[k + i] = c[(k + i) - Len(s)]
          /\ v[o + i] = c[(o + i) - Len(t)]
      BY <1>1, <1>2, <2>1, <2>3, <3>1
    <3>3. QED
      BY <3>1, <3>2
  <2>4. QED
    BY <1>1, <2>2, <2>3
<1>4. o + (Len(u) - k) = Len(v)
  <2>1. o + (Len(s) - k) = Len(t)
    BY DEF SameRest
  <2>2. Len(u) = Len(s) + Len(c) /\ Len(v) = Len(t) + Len(c)
    BY <1>2
  <2>3. o + ((Len(s) + Len(c)) - k) = Len(t) + Len(c)
    BY <1>1, <2>1, BothLonger
  <2>4. QED
    BY <2>2, <2>3
<1>5. SameRest(u, k, v, o)
  BY <1>2, <1>3, <1>4 DEF SameRest
<1>6. QED
  BY <1>2, <1>5 DEF u, v

(* _consume() at a position inside the buffer moves tell() and the         *)
(* checkpoint together.                                                    *)
LEMMA ConsumeAligned ==
  ASSUME IInv, NEW i \in Nat, buf_checkpoint <= i, i <= Len(buffer),
         Consume(i), UNCHANGED <<buffer, received>>
  PROVE  /\ Aligned'
         /\ buff_i' \in Nat /\ buf_checkpoint' \in Nat /\ stream_offset' \in Nat
         /\ buf_checkpoint' = buff_i' /\ buff_i' <= Len(buffer')
<1>1. /\ Len(buffer) \in Nat
      /\ buf_checkpoint \in Nat
      /\ stream_offset \in Nat
  BY DEF IInv, TypeOK
<1>2. stream_offset' + (Len(buffer') - buf_checkpoint') = Len(received')
  <2>1. stream_offset + (Len(buffer) - buf_checkpoint) = Len(received)
    BY DEF IInv, Aligned
  <2>2. (stream_offset + (i - buf_checkpoint)) + (Len(buffer) - i) = Len(received)
    BY <1>1, <2>1
  <2>3. QED
    BY <2>2 DEF Consume
<1>3. ASSUME NEW j \in 1 .. Len(buffer) - i
      PROVE  buffer[i + j] = received[(stream_offset + (i - buf_checkpoint)) + j]
  <2> DEFINE x == (i - buf_checkpoint) + j
  <2>1. x \in 1 .. Len(buffer) - buf_checkpoint
    BY <1>1
  <2>2. /\ buf_checkpoint + x = i + j
        /\ stream_offset + x = (stream_offset + (i - buf_checkpoint)) + j
    BY <1>1
  <2> HIDE DEF x
  <2>3. buffer[buf_checkpoint + x] = received[stream_offset + x]
    BY <2>1 DEF IInv, Aligned
  <2>4. QED
    BY <2>2, <2>3
<1>4. /\ buff_i' = i
      /\ buf_checkpoint' = i
      /\ stream_offset' = stream_offset + (i - buf_checkpoint)
      /\ buffer' = buffer /\ received' = received
  BY DEF Consume
<1>5. Aligned'
  BY <1>2, <1>3, <1>4 DEF Aligned
<1>6. QED
  BY <1>1, <1>4, <1>5

(* Dropping the bytes before the checkpoint keeps the rest aligned. *)
LEMMA StripAligned ==
  ASSUME IInv
  PROVE  /\ Stripped \in Seq(Byte)
         /\ Len(Stripped) = Len(buffer) - buf_checkpoint
         /\ SameRest(Stripped, 0, received, stream_offset)
<1>1. /\ Stripped \in Seq(Byte)
      /\ Len(Stripped) = Len(buffer) - buf_checkpoint
      /\ \A i \in 1 .. Len(buffer) - buf_checkpoint :
           Stripped[i] = buffer[buf_checkpoint + i]
  BY StrippedCells DEF IInv
<1>2. Len(buffer) \in Nat /\ buf_checkpoint \in Nat /\ Len(Stripped) \in Nat
  BY <1>1 DEF IInv, TypeOK
<1>3. Len(Stripped) - 0 = Len(buffer) - buf_checkpoint
  BY <1>1, <1>2
<1>4. ASSUME NEW i \in 1 .. Len(Stripped) - 0
      PROVE  Stripped[0 + i] = received[stream_offset + i]
  <2>1. i \in 1 .. Len(buffer) - buf_checkpoint /\ 0 + i = i
    BY <1>2, <1>3
  <2>2. Stripped[i] = buffer[buf_checkpoint + i]
    BY <1>1, <2>1
  <2>3. buffer[buf_checkpoint + i] = received[stream_offset + i]
    BY <2>1 DEF IInv, Aligned
  <2>4. QED
    BY <2>1, <2>2, <2>3
<1>5. stream_offset + (Len(Stripped) - 0) = Len(received)
  <2>1. stream_offset + (Len(buffer) - buf_checkpoint) = Len(received)
    BY DEF IInv, Aligned
  <2>2. stream_offset \in Nat
    BY DEF IInv, TypeOK
  <2>3. QED
    BY <1>2, <1>3, <2>1, <2>2
<1>6. SameRest(Stripped, 0, received, stream_offset)
  BY <1>4, <1>5 DEF SameRest
<1>7. QED
  BY <1>1, <1>6

-------------------------------------------------------------------------------
(* One lemma per operation. *)

LEMMA InitIInv == Init => IInv
<1> SUFFICES ASSUME Init PROVE IInv
  OBVIOUS
<1>1. TypeOK
  BY EmptySeq DEF Init, TypeOK
<1>2. Indices /\ Aligned /\ FileBound
  BY Sizes DEF Init, Indices, Aligned, FileBound, Running
<1>3. QED
  BY <1>1, <1>2 DEF IInv

LEMMA FeedIInv ==
  ASSUME IInv, NEW c \in Chunks, Feed(c)
  PROVE  IInv'
<1>1. c \in Seq(Byte) /\ Len(c) \in Nat
  BY FallbackAssumption
<1>2. CASE /\ outcome' \in {"AssertionError", "BufferFull"}
           /\ result' = <<>>
           /\ UNCHANGED <<buffer, indices, received>>
  BY <1>2, EmptySeq
  DEF Feed, IInv, TypeOK, Indices, Aligned, FileBound, indices, reserve,
      Running, Unread
<1>3. CASE /\ feeding
           /\ buffer' = Stripped \o c
           /\ IndicesStripped(buff_i)
           /\ received' = received \o c
           /\ outcome' = "ok" /\ result' = <<>>
           /\ UNCHANGED stream_offset
  <2>1. /\ Stripped \in Seq(Byte)
        /\ Len(Stripped) = Len(buffer) - buf_checkpoint
        /\ SameRest(Stripped, 0, received, stream_offset)
    BY StripAligned
  <2>2. /\ received \in Seq(Byte)
        /\ stream_offset \in Nat
        /\ 0 \in Nat /\ 0 <= Len(Stripped)
    BY <2>1 DEF IInv, TypeOK
  <2>3. /\ buffer' \in Seq(Byte)
        /\ received' \in Seq(Byte)
        /\ Len(buffer') = Len(Stripped) + Len(c)
        /\ SameRest(buffer', 0, received', stream_offset)
    <3>1. /\ Stripped \o c \in Seq(Byte)
          /\ received \o c \in Seq(Byte)
          /\ Len(Stripped \o c) = Len(Stripped) + Len(c)
          /\ SameRest(Stripped \o c, 0, received \o c, stream_offset)
      BY <1>1, <2>1, <2>2, AppendAligned, Zenon
    <3>2. QED
      BY <1>3, <3>1
  <2>4. TypeOK'
    BY <1>3, <2>3, EmptySeq
    DEF Feed, IInv, TypeOK, Indices, IndicesStripped, reserve
  <2>5. Indices'
    BY <1>1, <1>3, <2>1, <2>3
    DEF Feed, IInv, TypeOK, Indices, IndicesStripped, reserve, Running
  <2>6. Aligned'
    BY <1>3, <2>3 DEF Aligned, SameRest, IndicesStripped
  <2>7. FileBound'
    BY <1>3 DEF Feed, FileBound, Running, reserve
  <2>8. QED
    BY <2>4, <2>5, <2>6, <2>7 DEF IInv
<1>4. QED
  BY <1>2, <1>3 DEF Feed, Raise

(* The decoder may also go back, as far as the checkpoint, before it ends. *)
LEMMA DeliverIInv ==
  ASSUME IInv, NEW k \in Int, buf_checkpoint <= buff_i + k, Deliver(k)
  PROVE  IInv'
<1>1. /\ buff_i + k \in Nat
      /\ buf_checkpoint <= buff_i + k
      /\ buff_i + k <= Len(buffer)
  BY DEF IInv, TypeOK, Indices, Unread, Deliver
<1>2. Consume(buff_i + k) /\ UNCHANGED <<buffer, received>>
  BY DEF Deliver
<1>3. /\ Aligned'
      /\ buff_i' \in Nat /\ buf_checkpoint' \in Nat /\ stream_offset' \in Nat
      /\ buf_checkpoint' = buff_i' /\ buff_i' <= Len(buffer')
  BY <1>1, <1>2, ConsumeAligned
<1>4. result' \in Seq(Byte)
  BY <1>1, SliceTyped DEF Deliver, IInv, TypeOK
<1>5. TypeOK' /\ Indices' /\ FileBound'
  BY <1>3, <1>4
  DEF Deliver, IInv, TypeOK, Indices, FileBound, reserve, Running
<1>6. QED
  BY <1>3, <1>5 DEF IInv

LEMMA FailIInv ==
  ASSUME IInv, NEW k \in Int, buf_checkpoint <= buff_i + k, Fail(k)
  PROVE  IInv'
BY EmptySeq
DEF Fail, Raise, IInv, TypeOK, Indices, Aligned, FileBound, Unread, reserve, Running

LEMMA ReserveIInv ==
  ASSUME IInv, NEW m \in Callers, NEW k \in Int, buf_checkpoint <= buff_i + k,
         NEW n \in Nat, Reserve(m, k, n)
  PROVE  IInv'
<1> DEFINE i == buff_i + k
<1>1. /\ i \in Nat /\ buf_checkpoint <= i /\ i <= Len(buffer)
      /\ Len(buffer) \in Nat /\ buf_checkpoint \in Nat
      /\ n > 0
  BY DEF IInv, TypeOK, Indices, Unread, Reserve
<1>2. CASE /\ feeding
           /\ OutOfData(m, buf_checkpoint)
           /\ UNCHANGED <<buffer, reserve>>
  <2>1. /\ buff_i' = buf_checkpoint
        /\ buf_checkpoint' = buf_checkpoint
        /\ stream_offset' = stream_offset
        /\ outcome' = "OutOfData" /\ result' = <<>>
    BY <1>1, <1>2 DEF OutOfData, Consume, Raise, IInv, TypeOK
  <2>2. QED
    BY <1>1, <1>2, <2>1, EmptySeq
    DEF Reserve, IInv, TypeOK, Indices, Aligned, FileBound, reserve, Running
<1>3. CASE /\ ~feeding
           /\ buffer' = Stripped
           /\ IndicesStripped(i)
           /\ UNCHANGED stream_offset
           /\ IF TooMuch(i, n)
                THEN Raise("BufferFull") /\ UNCHANGED reserve
                ELSE /\ caller' = m /\ wanted' = n
                     /\ missing' = i + n - Len(buffer)
                     /\ outcome' = "ok" /\ result' = <<>>
  <2>1. /\ Stripped \in Seq(Byte)
        /\ Len(Stripped) = Len(buffer) - buf_checkpoint
    BY StrippedCells DEF IInv
  <2>2. Aligned'
    BY <1>3, StripAligned DEF IndicesStripped, Reserve, SameRest, Aligned
  <2>3. /\ buffer' \in Seq(Byte)
        /\ Len(buffer') = Len(buffer) - buf_checkpoint
        /\ buff_i' \in Nat /\ buff_i' <= Len(buffer') /\ buf_checkpoint' = 0
        /\ UNCHANGED <<feeding, received, stream_offset>>
    BY <1>1, <1>3, <2>1 DEF IndicesStripped, Reserve
  <2>4. CASE TooMuch(i, n)
    BY <1>1, <1>3, <2>2, <2>3, <2>4, Sizes, EmptySeq
    DEF Raise, reserve, Reserve, IInv, TypeOK, Indices, FileBound, Running
  <2>5. CASE ~TooMuch(i, n)
    <3>1. /\ caller' = m /\ wanted' = n /\ missing' = i + n - Len(buffer)
          /\ outcome' = "ok" /\ result' = <<>>
      BY <1>3, <2>5
    <3>2. TypeOK'
      BY <1>1, <2>3, <3>1, EmptySeq DEF IInv, TypeOK
    <3>3. Indices'
      BY <1>1, <1>3, <2>1, <2>3, <3>1 DEF Indices, Unread, IndicesStripped
    <3>4. Len(buffer') + missing' <= MaxBufferSize
      BY <1>1, <1>3, <2>1, <2>5, <3>1, Sizes DEF TooMuch
    <3>5. missing' > 0
      BY <1>1, <3>1 DEF Reserve
    <3>6. FileBound'
      BY <2>3, <3>1, <3>2, <3>4, <3>5, Sizes DEF FileBound, TypeOK
    <3>7. QED
      BY <2>2, <3>2, <3>3, <3>6 DEF IInv
  <2>6. QED
    BY <2>4, <2>5
<1>4. QED
  BY <1>2, <1>3 DEF Reserve

LEMMA ReadFileIInv ==
  ASSUME IInv, ReadFile
  PROVE  IInv'
<1>1. /\ Len(buffer) \in Nat /\ missing \in Nat /\ missing > 0
      /\ Len(buffer) + missing <= MaxBufferSize
      /\ ~feeding /\ Running
  BY DEF ReadFile, IInv, TypeOK, FileBound, Indices
<1>2. ASSUME NEW c \in Chunks,
             Len(c) \in 1 .. ToRead,
             buffer' = buffer \o c,
             received' = received \o c,
             missing' = missing - Len(c),
             outcome' = "ok",
             UNCHANGED <<caller, wanted>>
      PROVE  IInv'
  <2>1. c \in Seq(Byte) /\ Len(c) \in Nat
    BY FallbackAssumption
  <2>2. /\ buffer' \in Seq(Byte)
        /\ received' \in Seq(Byte)
        /\ Len(buffer') = Len(buffer) + Len(c)
        /\ Aligned'
    <3>1. /\ SameRest(buffer, buf_checkpoint, received, stream_offset)
          /\ buffer \in Seq(Byte) /\ received \in Seq(Byte)
          /\ buf_checkpoint \in Nat /\ stream_offset \in Nat
          /\ buf_checkpoint <= Len(buffer)
      BY <1>1 DEF IInv, TypeOK, Indices, Aligned, SameRest
    <3>2. /\ buffer \o c \in Seq(Byte)
          /\ received \o c \in Seq(Byte)
          /\ Len(buffer \o c) = Len(buffer) + Len(c)
          /\ SameRest(buffer \o c, buf_checkpoint, received \o c, stream_offset)
      BY <2>1, <3>1, AppendAligned
    <3>3. QED
      BY <1>2, <3>2 DEF ReadFile, indices, Aligned, SameRest
  <2>3. TypeOK'
    BY <1>2, <2>1, <2>2, EmptySeq DEF ReadFile, IInv, TypeOK, indices
  <2>4. Indices'
    BY <1>1, <1>2, <2>1, <2>2
    DEF ReadFile, IInv, TypeOK, Indices, Running, Unread, indices
  <2>5. Len(buffer') <= MaxBufferSize + ReadSize - 1
    BY <1>1, <1>2, <2>1, <2>2, Sizes DEF ToRead, Greatest
  <2>6. FileBound'
    BY <1>1, <1>2, <2>1, <2>2, <2>5, Sizes DEF FileBound
  <2>7. QED
    BY <2>2, <2>3, <2>4, <2>6 DEF IInv
<1>3. CASE /\ missing' = 0
           /\ outcome' = "ok"
           /\ UNCHANGED <<buffer, received, caller, wanted>>
  BY <1>3, EmptySeq
  DEF ReadFile, IInv, TypeOK, Indices, Aligned, FileBound, Running, indices
<1>4. CASE /\ caller' = "none" /\ wanted' = 0 /\ missing' = 0
           /\ outcome' = "IOError"
           /\ UNCHANGED <<buffer, received>>
  BY <1>4, EmptySeq
  DEF ReadFile, IInv, TypeOK, Indices, Aligned, FileBound, Running, indices
<1>5. QED
  BY <1>2, <1>3, <1>4 DEF ReadFile

LEMMA ReservedIInv ==
  ASSUME IInv, Reserved
  PROVE  IInv'
<1>1. /\ Len(buffer) \in Nat /\ buff_i \in Nat /\ buff_i <= Len(buffer)
      /\ wanted \in Nat
      /\ ~feeding /\ Running /\ buf_checkpoint = 0
      /\ UNCHANGED <<buffer, feeding, received>>
      /\ caller' = "none" /\ wanted' = 0 /\ missing' = 0
  BY DEF Reserved, IInv, TypeOK, Indices
<1>2. CASE /\ result' = Read(buff_i, wanted)
           /\ outcome' = "ok"
           /\ Consume(ReadEnd(buff_i, wanted))
  <2>1. /\ ReadEnd(buff_i, wanted) \in Nat
        /\ buf_checkpoint <= ReadEnd(buff_i, wanted)
        /\ ReadEnd(buff_i, wanted) <= Len(buffer)
    BY <1>1 DEF ReadEnd, Least
  <2>2. /\ Aligned'
        /\ buff_i' \in Nat /\ buf_checkpoint' \in Nat /\ stream_offset' \in Nat
        /\ buf_checkpoint' = buff_i' /\ buff_i' <= Len(buffer')
    BY <1>1, <1>2, <2>1, ConsumeAligned
  <2>3. result' \in Seq(Byte)
    <3>1. SubSeq(buffer, buff_i + 1, ReadEnd(buff_i, wanted)) \in Seq(Byte)
      BY <1>1, <2>1, SliceTyped DEF IInv
    <3>2. QED
      BY <1>2, <3>1 DEF Read, ReadEnd
  <2>4. QED
    BY <1>1, <1>2, <2>2, <2>3 DEF IInv, TypeOK, Indices, FileBound, Running
<1>3. CASE OutOfData(caller, Rollback)
  <2>1. /\ buff_i' = 0
        /\ buf_checkpoint' = 0
        /\ stream_offset' = stream_offset
        /\ outcome' = "OutOfData" /\ result' = <<>>
    BY <1>1, <1>3 DEF OutOfData, Rollback, Consume, Raise, IInv, TypeOK
  <2>2. QED
    BY <1>1, <2>1, EmptySeq
    DEF IInv, TypeOK, Indices, Aligned, FileBound, Running
<1>4. CASE outcome' = "ok" /\ result' = <<>> /\ UNCHANGED indices
  BY <1>1, <1>4, EmptySeq
  DEF IInv, TypeOK, Indices, Aligned, FileBound, Running, indices
<1>5. QED
  BY <1>2, <1>3, <1>4 DEF Reserved

LEMMA ReadBytesIInv ==
  ASSUME IInv, NEW n \in Nat, ReadBytes(n)
  PROVE  IInv'
<1>1. /\ buff_i + n \in Nat
      /\ buf_checkpoint <= buff_i + n
      /\ buff_i + n <= Len(buffer)
      /\ buff_i \in Nat
  BY DEF ReadBytes, IInv, TypeOK, Indices, Unread
<1>2. /\ Aligned'
      /\ buff_i' \in Nat /\ buf_checkpoint' \in Nat /\ stream_offset' \in Nat
      /\ buf_checkpoint' = buff_i' /\ buff_i' <= Len(buffer')
  BY <1>1, ConsumeAligned DEF ReadBytes
<1>3. ReadEnd(buff_i, n) \in Int /\ ReadEnd(buff_i, n) <= Len(buffer)
  BY <1>1 DEF ReadEnd, Least, IInv, TypeOK
<1>4. result' \in Seq(Byte)
  BY <1>1, <1>3, SliceTyped DEF ReadBytes, Read, ReadEnd, IInv
<1>5. TypeOK' /\ Indices' /\ FileBound'
  BY <1>2, <1>4
  DEF ReadBytes, IInv, TypeOK, Indices, FileBound, reserve, Running
<1>6. QED
  BY <1>2, <1>5 DEF IInv

LEMMA StepIInv == IInv /\ [Next]_vars => IInv'
<1> SUFFICES ASSUME IInv, [Next]_vars PROVE IInv'
  OBVIOUS
<1>1. ASSUME NEW c \in Chunks, Feed(c) PROVE IInv'
  BY <1>1, FeedIInv
<1>0. \A k \in 0 .. Unread : k \in Int /\ buf_checkpoint <= buff_i + k
  BY DEF IInv, TypeOK, Indices, Unread
<1>2. ASSUME NEW k \in 0 .. Unread, Deliver(k) \/ Fail(k) PROVE IInv'
  BY <1>0, <1>2, DeliverIInv, FailIInv
<1>3. ASSUME NEW m \in Callers, NEW k \in 0 .. Unread, NEW n \in 0 .. MaxWanted,
             Reserve(m, k, n)
      PROVE  IInv'
  <2>1. n \in Nat
    BY FallbackAssumption
  <2>2. QED
    BY <1>0, <1>3, <2>1, ReserveIInv
<1>4. ASSUME NEW n \in 0 .. MaxWanted, ReadBytes(n) PROVE IInv'
  BY <1>4, ReadBytesIInv, FallbackAssumption
<1>5. CASE ReadFile
  BY <1>5, ReadFileIInv
<1>6. CASE Reserved
  BY <1>6, ReservedIInv
<1>7. CASE UNCHANGED vars
  BY <1>7
  DEF vars, indices, reserve, IInv, TypeOK, Indices, Aligned, FileBound,
      Running, Unread
<1>8. ASSUME NEW n \in 0 .. MaxWanted, Reserve("read_bytes", 0, n) PROVE IInv'
  <2>1. 0 \in 0 .. Unread /\ "read_bytes" \in Callers
    BY DEF IInv, TypeOK, Indices, Unread, Callers
  <2>2. QED
    BY <1>3, <1>8, <2>1
<1>9. ASSUME NEW m \in {"unpack", "__next__"}, NEW k \in 0 .. Unread,
             NEW n \in 1 .. MaxWanted, Reserve(m, k, n)
      PROVE  IInv'
  BY <1>3, <1>9 DEF Callers
<1>10. QED
  BY <1>1, <1>2, <1>4, <1>5, <1>6, <1>7, <1>8, <1>9 DEF Next

LEMMA AlwaysIInv == Spec => []IInv
BY InitIInv, StepIInv, PTL DEF Spec

-------------------------------------------------------------------------------
(* The variables keep their types in every reachable state. *)
THEOREM TypeCorrect == Spec => []TypeOK
BY AlwaysIInv, PTL DEF IInv

(* The indices stay ordered and inside the buffer, and remain_bytes counts *)
(* what is missing.                                                        *)
THEOREM IndicesAlways == Spec => []Indices
BY AlwaysIInv, PTL DEF IInv

(* tell() is exact and no byte is lost, repeated or moved, whatever was    *)
(* fed, dropped, rolled back or raised.                                    *)
THEOREM AlignedAlways == Spec => []Aligned
BY AlwaysIInv, PTL DEF IInv

(* The buffer of a file Unpacker exceeds max_buffer_size by less than      *)
(* read_size.                                                              *)
THEOREM FileBoundAlways == Spec => []FileBound
BY AlwaysIInv, PTL DEF IInv

(* OutOfData always leaves _buff_i at the checkpoint and tell() unmoved:   *)
(* the rollback to 0 on a file is the rollback to the checkpoint, because  *)
(* the buffer was stripped, and the _consume() of __next__() adds nothing. *)
THEOREM RollsBackAlways == Spec => RollsBack
<1>1. ASSUME IInv, Next, outcome' = "OutOfData"
      PROVE  buff_i' = buf_checkpoint' /\ stream_offset' = stream_offset
  <2>1. ASSUME NEW m \in Callers, NEW k \in Int, NEW n \in Int, Reserve(m, k, n)
        PROVE  buff_i' = buf_checkpoint' /\ stream_offset' = stream_offset
    BY <1>1, <2>1 DEF Reserve, OutOfData, Consume, Raise, IInv, TypeOK
  <2>2. CASE Reserved
    BY <1>1, <2>2
    DEF Reserved, OutOfData, Rollback, Consume, IInv, TypeOK, Indices
  <2>3. QED
    BY <1>1, <2>1, <2>2, FallbackAssumption
    DEF Next, Feed, Raise, Deliver, Fail, ReadFile, ReadBytes, Callers
<1>2. IInv /\ [Next]_vars =>
        [outcome' = "OutOfData" =>
           buff_i' = buf_checkpoint' /\ stream_offset' = stream_offset]_vars
  BY <1>1
<1>3. QED
  BY <1>2, AlwaysIInv, PTL DEF Spec, RollsBack

(* A file read is refused for the object being read alone: the buffer was  *)
(* stripped of what came before it, so what is kept and what is wanted     *)
(* exceed the limit together.                                              *)
THEOREM RefusedForTheObject == Spec => FullOnlyWhenFull
<1>1. ASSUME IInv, NEW m \in Callers, NEW k \in 0 .. Unread,
             NEW n \in 0 .. MaxWanted,
             ~feeding, Reserve(m, k, n), outcome' = "BufferFull"
      PROVE  (buff_i' - buf_checkpoint') + n > MaxBufferSize
  <2>1. /\ Len(buffer) \in Nat /\ buff_i \in Nat /\ buf_checkpoint \in Nat
        /\ k \in Int /\ n \in Int
    BY <1>1, FallbackAssumption DEF IInv, TypeOK
  <2>2. Len(Stripped) = Len(buffer) - buf_checkpoint
    BY <1>1, StrippedCells DEF IInv
  <2>3. /\ buff_i' = (buff_i + k) - buf_checkpoint
        /\ buf_checkpoint' = 0
        /\ TooMuch(buff_i + k, n)
    BY <1>1 DEF Reserve, IndicesStripped
  <2>4. QED
    BY <2>1, <2>2, <2>3, Sizes DEF TooMuch
<1>2. IInv /\ [Next]_vars =>
        [\A m \in Callers, k \in 0 .. Unread, n \in 0 .. MaxWanted :
           ~feeding /\ Reserve(m, k, n) /\ outcome' = "BufferFull" =>
             (buff_i' - buf_checkpoint') + n > MaxBufferSize]_vars
  BY <1>1
<1>3. QED
  BY <1>2, AlwaysIInv, PTL DEF Spec, FullOnlyWhenFull
===============================================================================
