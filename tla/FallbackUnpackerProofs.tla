------------------------ MODULE FallbackUnpackerProofs ------------------------
(***************************************************************************)
(* Proofs about the streaming Unpacker of fallback.py, for every input,    *)
(* cut into pieces in every way, every limit and every decoder that reads  *)
(* forward: it is the stream of messages the Cython Unpacker is, and it    *)
(* refuses no object that would have fitted.                               *)
(***************************************************************************)
EXTENDS FallbackUnpacker, SequenceTheorems, TLAPS

Control ==
  /\ pc \in {"idle", "decode", "reserve"}
  /\ method \in Methods \cup {"read_bytes"}
  /\ pc = "decode" => method \in Methods
  /\ caller = IF pc # "reserve" THEN "none"
              ELSE IF method \in {"__next__", "read_bytes"} THEN method ELSE "unpack"

(* What came is the beginning of one of the inputs. *)
FromInput ==
  /\ \E c \in Cases : input = c[1] /\ user = c[2]
  /\ Len(received) <= Len(input)
  /\ received = SubSeq(input, 1, Len(received))

(* No object was begun. *)
AtStart ==
  \/ pc = "idle" /\ answer[1] \notin {"error", "interrupted"}
  \/ pc = "reserve" /\ method = "read_bytes"
  => buff_i = buf_checkpoint

(* A reservation that has not got its bytes is the one on which the        *)
(* decoder would stop again.                                               *)
Misses ==
  pc = "reserve" /\ method # "read_bytes" /\ Len(buffer) - buff_i < wanted =>
    /\ Decoded.status = "OutOfData"
    /\ Decoded.next = (buff_i - buf_checkpoint) + 1
    /\ Decoded.need = wanted

Inv == Buffer!IInv /\ Control /\ FromInput /\ AtStart /\ Misses

-------------------------------------------------------------------------------
(* Slices of sequences. *)
LEMMA SliceOf ==
  ASSUME NEW S, NEW s \in Seq(S), NEW i \in Nat, NEW n \in Nat, i + n <= Len(s)
  PROVE  /\ SubSeq(s, i + 1, i + n) \in Seq(S)
         /\ Len(SubSeq(s, i + 1, i + n)) = n
         /\ \A k \in 1 .. n : SubSeq(s, i + 1, i + n)[k] = s[i + k]
<1>1. \A k \in i + 1 .. i + n : s[k] \in S
  BY ElementOfSeq
<1>2. QED
  BY <1>1, SubSeqProperties

(* s and t hold the same n elements behind positions i and j. *)
SameCells(s, i, t, j, n) ==
  /\ i + n <= Len(s)
  /\ j + n <= Len(t)
  /\ \A k \in 1 .. n : s[i + k] = t[j + k]

LEMMA SameSlice ==
  ASSUME NEW S, NEW s \in Seq(S), NEW t \in Seq(S),
         NEW i \in Nat, NEW j \in Nat, NEW n \in Nat,
         SameCells(s, i, t, j, n)
  PROVE  SubSeq(s, i + 1, i + n) = SubSeq(t, j + 1, j + n)
<1> DEFINE a == SubSeq(s, i + 1, i + n)
           b == SubSeq(t, j + 1, j + n)
<1>1. /\ a \in Seq(S) /\ Len(a) = n
      /\ \A k \in 1 .. n : a[k] = s[i + k]
  BY SliceOf DEF SameCells
<1>2. /\ b \in Seq(S) /\ Len(b) = n
      /\ \A k \in 1 .. n : b[k] = t[j + k]
  BY SliceOf DEF SameCells
<1> HIDE DEF a, b
<1>3. a = b
  BY <1>1, <1>2, SeqEqual DEF SameCells
<1>4. QED
  BY <1>3 DEF a, b

LEMMA SliceTwice ==
  ASSUME NEW S, NEW s \in Seq(S), NEW a \in Nat, NEW b \in Nat, a <= b, b <= Len(s)
  PROVE  SubSeq(SubSeq(s, 1, b), a + 1, b) = SubSeq(s, a + 1, b)
<1> DEFINE t == SubSeq(s, 1, b)
           n == b - a
<1>1. t \in Seq(S) /\ Len(t) = b /\ \A k \in 1 .. b : t[k] = s[k]
  <2>1. 0 \in Nat /\ 0 + b = b /\ 0 + 1 = 1 /\ \A k \in 1 .. b : 0 + k = k
    OBVIOUS
  <2>2. QED
    BY <2>1, SliceOf
<1>2. n \in Nat /\ a + n = b /\ \A k \in 1 .. n : a + k \in 1 .. b
  OBVIOUS
<1> HIDE DEF t, n
<1>3. SubSeq(t, a + 1, a + n) = SubSeq(s, a + 1, a + n)
  <2>1. SameCells(t, a, s, a, n)
    BY <1>1, <1>2 DEF SameCells
  <2>2. QED
    BY <1>1, <1>2, <2>1, SameSlice
<1>4. QED
  BY <1>2, <1>3 DEF t

LEMMA SlicesJoined ==
  ASSUME NEW S, NEW s \in Seq(S), NEW a \in Nat, NEW b \in Nat, a <= b, b <= Len(s)
  PROVE  SubSeq(s, 1, a) \o SubSeq(s, a + 1, b) = SubSeq(s, 1, b)
<1> DEFINE t == SubSeq(s, 1, a)
           u == SubSeq(s, a + 1, b)
           v == SubSeq(s, 1, b)
<1>1. \A k \in 1 .. b : s[k] \in S
  BY ElementOfSeq
<1>2. /\ t \in Seq(S) /\ Len(t) = a /\ \A k \in 1 .. a : t[k] = s[k]
      /\ u \in Seq(S) /\ Len(u) = b - a /\ \A k \in 1 .. b - a : u[k] = s[a + k]
      /\ v \in Seq(S) /\ Len(v) = b /\ \A k \in 1 .. b : v[k] = s[k]
  BY <1>1, SubSeqProperties
<1> HIDE DEF t, u, v
<1> DEFINE w == t \o u
<1>3. /\ w \in Seq(S) /\ Len(w) = Len(t) + Len(u)
      /\ \A k \in 1 .. Len(t) + Len(u) : w[k] = IF k <= Len(t) THEN t[k] ELSE u[k - Len(t)]
  <2>1. t \in Seq(S) /\ u \in Seq(S)
    BY <1>2
  <2>2. QED
    BY <2>1, ConcatProperties
<1> HIDE DEF w
<1>4. w = v
  <2>1. Len(w) = b
    BY <1>2, <1>3
  <2>2. ASSUME NEW k \in 1 .. b PROVE w[k] = v[k]
    <3>1. w[k] = IF k <= a THEN t[k] ELSE u[k - a]
      BY <1>2, <1>3, <2>1
    <3>2. CASE k <= a
      BY <1>2, <3>1, <3>2
    <3>3. CASE a < k
      <4>1. k - a \in 1 .. b - a /\ a + (k - a) = k
        BY <3>3
      <4>2. u[k - a] = s[k] /\ v[k] = s[k]
        BY <1>2, <4>1
      <4>3. QED
        BY <3>1, <3>3, <4>2
    <3>4. QED
      BY <3>2, <3>3
  <2>3. QED
    BY <1>2, <1>3, <2>1, <2>2, SeqEqual
<1>5. QED
  BY <1>4 DEF t, u, v, w

-------------------------------------------------------------------------------
(* What is fed or read is bytes of the input. *)
LEMMA ChunksAreBytes == Chunks \subseteq Seq(0 .. 255)
<1> DEFINE B == 0 .. 255
           Bytes == Seq(B)
<1>1. \A s \in Inputs : s \in Bytes
  BY UnpackerAssumption DEF Inputs
<1> HIDE DEF B
<1>2. ASSUME NEW s \in Inputs, NEW i \in 1 .. Len(s), NEW j \in 0 .. Len(s)
      PROVE  SubSeq(s, i, j) \in Bytes
  <2>1. \A k \in i .. j : s[k] \in B
    BY <1>1, ElementOfSeq
  <2>2. QED
    BY <2>1, SubSeqProperties
<1> HIDE DEF Bytes
<1>3. ASSUME NEW c \in Pieces PROVE c \in Bytes
  <2>1. PICK s \in Inputs : c \in {SubSeq(s, i, j) : i \in 1 .. Len(s), j \in 0 .. Len(s)}
    BY DEF Pieces
  <2>2. PICK i \in 1 .. Len(s), j \in 0 .. Len(s) : c = SubSeq(s, i, j)
    BY <2>1
  <2>3. QED
    BY <1>2, <2>2
<1>4. QED
  BY <1>3 DEF Chunks, Bytes, B

(* What the buffer's proofs assume of their constants. *)
LEMMA BufferSizes == Buffer!FallbackAssumption
BY ChunksAreBytes, UnpackerAssumption DEF Buffer!FallbackAssumption

(* The buffer and the input in numbers. *)
LEMMA Lengths ==
  ASSUME Buffer!IInv, FromInput
  PROVE  /\ buff_i \in Nat /\ buf_checkpoint \in Nat /\ stream_offset \in Nat
         /\ Len(buffer) \in Nat /\ Len(received) \in Nat /\ Len(input) \in Nat
         /\ buf_checkpoint <= buff_i /\ buff_i <= Len(buffer)
         /\ Len(received) <= Len(input)
         /\ stream_offset + (Len(buffer) - buf_checkpoint) = Len(received)
         /\ wanted \in Nat
<1>1. input \in Seq(0 .. 255)
  BY UnpackerAssumption DEF FromInput
<1>2. buffer \in Seq(0 .. 255) /\ received \in Seq(0 .. 255)
  BY DEF Buffer!IInv, Buffer!TypeOK
<1>3. Len(buffer) \in Nat /\ Len(received) \in Nat /\ Len(input) \in Nat
  BY <1>1, <1>2, LenProperties
<1>4. QED
  BY <1>3 DEF Buffer!IInv, Buffer!TypeOK, Buffer!Indices, Buffer!Aligned, FromInput

LEMMA LengthsNext ==
  Buffer!IInv' /\ FromInput' =>
    /\ Len(buffer') \in Nat /\ Len(received') \in Nat /\ Len(input') \in Nat
    /\ stream_offset' + (Len(buffer') - buf_checkpoint') = Len(received')
    /\ Len(received') <= Len(input')
<1> DEFINE L == /\ Len(buffer) \in Nat /\ Len(received) \in Nat /\ Len(input) \in Nat
                /\ stream_offset + (Len(buffer) - buf_checkpoint) = Len(received)
                /\ Len(received) <= Len(input)
<1>1. Buffer!IInv /\ FromInput => L
  BY Lengths
<1>2. (Buffer!IInv /\ FromInput => L)'
  BY <1>1, PTL
<1>3. QED
  BY <1>2

(* Bytes of the buffer are those of the stream. *)
LEMMA SliceReceived ==
  ASSUME Buffer!IInv, FromInput, NEW k \in 0 .. Len(buffer) - buf_checkpoint
  PROVE  SubSeq(buffer, buf_checkpoint + 1, buf_checkpoint + k)
           = SubSeq(received, stream_offset + 1, stream_offset + k)
<1> DEFINE B == 0 .. 255
<1>1. buffer \in Seq(B) /\ received \in Seq(B)
  BY DEF Buffer!IInv, Buffer!TypeOK
<1>2. \A i \in 1 .. Len(buffer) - buf_checkpoint :
        buffer[buf_checkpoint + i] = received[stream_offset + i]
  BY DEF Buffer!IInv, Buffer!Aligned
<1> HIDE DEF B
<1>3. SameCells(buffer, buf_checkpoint, received, stream_offset, k)
  BY <1>2, Lengths DEF SameCells
<1>4. k \in Nat /\ buf_checkpoint \in Nat /\ stream_offset \in Nat
  BY Lengths
<1>5. QED
  BY <1>1, <1>3, <1>4, SameSlice

(* The decoder runs on what was received after the last object. *)
LEMMA PendingFromInput ==
  Buffer!IInv /\ FromInput =>
    /\ Pending = SubSeq(received, stream_offset + 1, Len(received))
    /\ Pending = SubSeq(input, stream_offset + 1, Len(received))
<1> SUFFICES ASSUME Buffer!IInv, FromInput
             PROVE  /\ Pending = SubSeq(received, stream_offset + 1, Len(received))
                    /\ Pending = SubSeq(input, stream_offset + 1, Len(received))
  OBVIOUS
<1> DEFINE k == Len(buffer) - buf_checkpoint
<1>1. /\ k \in 0 .. Len(buffer) - buf_checkpoint
      /\ buf_checkpoint + k = Len(buffer) /\ stream_offset + k = Len(received)
  BY Lengths
<1> HIDE DEF k
<1>2. Pending = SubSeq(received, stream_offset + 1, Len(received))
  <2>1. SubSeq(buffer, buf_checkpoint + 1, buf_checkpoint + k)
          = SubSeq(received, stream_offset + 1, stream_offset + k)
    BY <1>1, SliceReceived
  <2>2. QED
    BY <1>1, <2>1 DEF Pending
<1>3. SubSeq(SubSeq(input, 1, Len(received)), stream_offset + 1, Len(received))
        = SubSeq(input, stream_offset + 1, Len(received))
  <2> DEFINE B == 0 .. 255
  <2>1. input \in Seq(B)
    BY UnpackerAssumption DEF FromInput
  <2> HIDE DEF B
  <2>2. stream_offset \in Nat /\ Len(received) \in Nat
        /\ stream_offset <= Len(received) /\ Len(received) <= Len(input)
    BY Lengths
  <2>3. QED
    BY <2>1, <2>2, SliceTwice
<1>4. QED
  BY <1>2, <1>3 DEF FromInput

LEMMA PendingFromInputNext ==
  (Buffer!IInv /\ FromInput =>
     /\ Pending = SubSeq(received, stream_offset + 1, Len(received))
     /\ Pending = SubSeq(input, stream_offset + 1, Len(received)))'
BY PendingFromInput, PTL

(* What DecoderAssumption says of the bytes pending.                       *)
LEMMA DecoderStops ==
  ASSUME Buffer!IInv, FromInput, method \in Methods
  PROVE  /\ Decoded.next \in 1 .. (Len(buffer) - buf_checkpoint) + 1
         /\ Decoded.status = "OutOfData" => Decoded.need \in Nat
<1> DEFINE from == stream_offset + 1
           to == Len(received)
<1>1. /\ from \in 1 .. Len(input) + 1 /\ to \in from - 1 .. Len(input)
      /\ to \in to .. Len(input)
      /\ (to - from) + 2 = (Len(buffer) - buf_checkpoint) + 1
  BY Lengths
<1>2. Decoded = DecodedBy(Reading(method), SubSeq(input, from, to), user)
  BY PendingFromInput DEF Decoded
<1> HIDE DEF from, to
<1>3. PICK c \in Cases : input = c[1] /\ user = c[2]
  BY DEF FromInput
<1>4. QED
  BY <1>1, <1>2, <1>3, DecoderAssumption

LEMMA DecoderWaits ==
  ASSUME Buffer!IInv, FromInput, method \in Methods, Decoded.status = "OutOfData",
         NEW later \in Len(received) .. Len(input)
  PROVE  LET e == DecodedBy(Reading(method), SubSeq(input, stream_offset + 1, later), user)
         IN /\ (later - stream_offset) + 1 < Decoded.next + Decoded.need => e = Decoded
            /\ e.status = "ok" => Decoded.next + Decoded.need <= e.next
            /\ e.next \in Int
<1> DEFINE from == stream_offset + 1
           to == Len(received)
<1>1. /\ from \in 1 .. Len(input) + 1 /\ to \in from - 1 .. Len(input)
      /\ later \in to .. Len(input)
      /\ (later - from) + 2 = (later - stream_offset) + 1
  BY Lengths
<1>2. Decoded = DecodedBy(Reading(method), SubSeq(input, from, to), user)
  BY PendingFromInput DEF Decoded
<1>3. PICK c \in Cases : input = c[1] /\ user = c[2]
  BY DEF FromInput
<1>4. LET e == DecodedBy(Reading(method), SubSeq(input, from, later), user)
      IN /\ (later - from) + 2 < Decoded.next + Decoded.need => e = Decoded
         /\ e.status = "ok" => Decoded.next + Decoded.need <= e.next
  <2> HIDE DEF from, to
  <2>1. QED
    BY <1>1, <1>2, <1>3, DecoderAssumption
<1>5. DecodedBy(Reading(method), SubSeq(input, from, later), user).next \in Int
  <2>1. later \in from - 1 .. Len(input) /\ later \in later .. Len(input)
    BY <1>1
  <2> HIDE DEF from, to
  <2>2. \A end \in from - 1 .. Len(input) : \A l \in end .. Len(input) :
          DecodedBy(Reading(method), SubSeq(input, from, end), user).next
            \in 1 .. (end - from) + 2
    BY <1>1, <1>3, DecoderAssumption
  <2>3. DecodedBy(Reading(method), SubSeq(input, from, later), user).next
          \in 1 .. (later - from) + 2
    BY <2>1, <2>2
  <2>4. QED
    BY <2>3
<1>6. QED
  BY <1>1, <1>4, <1>5

-------------------------------------------------------------------------------
(* A step of the Unpacker is one of the stream of messages, or none of its *)
(* concern.                                                                *)
StreamStep == Messages!Next \/ UNCHANGED Messages!vars

LEMMA InputKept ==
  ASSUME FromInput, UNCHANGED <<input, user, received>>
  PROVE  FromInput'
BY DEF FromInput

LEMMA BufferKept ==
  ASSUME Buffer!IInv, UNCHANGED bufferVars
  PROVE  Buffer!IInv'
<1>1. UNCHANGED Buffer!vars
  BY DEF bufferVars, Buffer!vars, Buffer!indices, Buffer!reserve
<1>2. QED
  BY <1>1, BufferSizes, Buffer!StepIInv

LEMMA FeedInv ==
  ASSUME Inv, Feed
  PROVE  Inv' /\ StreamStep
<1>1. PICK c \in Chunks : Upcoming(c) /\ Buffer!Feed(c)
  BY DEF Feed
<1>2. Buffer!IInv'
  BY <1>1, BufferSizes, Buffer!FeedIInv DEF Inv
<1>3. /\ pc = "idle" /\ buff_i = buf_checkpoint
      /\ UNCHANGED <<pc, method, answer, input, user>>
      /\ UNCHANGED <<caller, stream_offset>>
  BY <1>1, Zenon DEF Feed, Usable, Buffer!Feed, Buffer!indices, Buffer!reserve
<1>4. \/ UNCHANGED <<received, buff_i, buf_checkpoint>>
      \/ /\ received' = received \o c
         /\ buff_i' = buff_i - buf_checkpoint
         /\ buf_checkpoint' = 0
  BY <1>1, Zenon DEF Buffer!Feed, Buffer!indices, Buffer!IndicesStripped
<1>5. buff_i' = buf_checkpoint'
  BY <1>3, <1>4, Lengths DEF Inv
<1>6. FromInput'
  <2>1. CASE UNCHANGED received
    BY <1>3, <2>1, InputKept DEF Inv
  <2>2. CASE received' = received \o c
    <3> DEFINE B == 0 .. 255
               n == Len(received)
               m == Len(received) + Len(c)
    <3>1. input \in Seq(B) /\ c \in Seq(B) /\ received \in Seq(B)
      BY UnpackerAssumption, ChunksAreBytes DEF Inv, FromInput, Buffer!IInv, Buffer!TypeOK
    <3> HIDE DEF B
    <3>2. Len(received') = m /\ n \in Nat /\ m \in Nat /\ n <= m /\ m <= Len(input)
      BY <1>1, <2>2, <3>1 DEF Upcoming
    <3>3. SubSeq(input, 1, n) \o SubSeq(input, n + 1, m) = SubSeq(input, 1, m)
      <4> HIDE DEF n, m
      <4>1. QED
        BY <3>1, <3>2, SlicesJoined
    <3>4. received = SubSeq(input, 1, n) /\ c = SubSeq(input, n + 1, m)
      BY <1>1 DEF Upcoming, Inv, FromInput
    <3> HIDE DEF n, m
    <3>5. received' = SubSeq(input, 1, m)
      BY <2>2, <3>3, <3>4
    <3>6. QED
      BY <1>3, <3>2, <3>5 DEF Inv, FromInput
  <2>3. QED
    BY <1>4, <2>1, <2>2
<1>7. Inv'
  BY <1>2, <1>3, <1>5, <1>6 DEF Inv, Control, AtStart, Misses
<1>8. StreamStep
  <2>1. c \in Pieces
    BY DEF Chunks
  <2>2. QED
    BY <1>3, <1>4, <2>1
    DEF StreamStep, Messages!Next, Messages!Arrive, Messages!vars
<1>9. QED
  BY <1>7, <1>8

LEMMA CallInv ==
  ASSUME Inv, NEW m \in Methods, Call(m)
  PROVE  Inv' /\ StreamStep
<1>1. /\ pc = "idle" /\ pc' = "decode" /\ method' = m
      /\ answer' = <<"none">>
      /\ UNCHANGED <<caller, received, stream_offset, input, user>>
  BY DEF Call, Usable, bufferVars
<1>2. Buffer!IInv' /\ FromInput'
  BY <1>1, BufferKept, InputKept DEF Inv, Call
<1>3. Inv'
  BY <1>1, <1>2 DEF Inv, Control, AtStart, Misses
<1>4. StreamStep
  BY <1>1 DEF StreamStep, Messages!Next, Messages!Begin
<1>5. QED
  BY <1>3, <1>4

-------------------------------------------------------------------------------
(* The decoder stops. *)
DecodedNow == Inv /\ pc = "decode"

LEMMA StopsInBuffer ==
  ASSUME DecodedNow
  PROVE  /\ method \in Methods
         /\ caller = "none"
         /\ Progress(Decoded) \in Int
         /\ Decoded.next \in Int
         /\ buff_i + Progress(Decoded) = buf_checkpoint + (Decoded.next - 1)
         /\ buf_checkpoint <= buff_i + Progress(Decoded)
         /\ Decoded.status = "OutOfData" => Decoded.need \in Nat
<1>1. method \in Methods /\ caller = "none"
  BY DEF DecodedNow, Inv, Control
<1>2. QED
  BY <1>1, Lengths, DecoderStops DEF DecodedNow, Inv, Progress

(* What the decoder made of the bytes is a reading of those that wait.     *)
LEMMA ReadingOf ==
  ASSUME Buffer!IInv, FromInput, method \in Methods
  PROVE  /\ Reading(method) \in Messages!Methods
         /\ Decoded \in Messages!Readings(Reading(method))
<1>1. Reading(method) \in Messages!Methods
  BY DEF Reading, Methods, Messages!Methods
<1>2. Pending = Messages!Waiting
  BY PendingFromInput DEF Messages!Waiting
<1>3. Decoded \in Messages!Readings(Reading(method))
  BY <1>2 DEF Decoded, Messages!Readings
<1>4. QED
  BY <1>1, <1>3

LEMMA DeliverInv ==
  ASSUME DecodedNow, Deliver(Decoded)
  PROVE  Inv' /\ StreamStep
<1> DEFINE k == Progress(Decoded)
<1>1. /\ Buffer!Deliver(k) /\ Decoded.status = "ok"
      /\ answer' = <<"returned", IF method = "skip" THEN <<"nil">> ELSE Decoded.obj>>
      /\ pc' = "idle"
      /\ UNCHANGED <<method, input, user>>
  BY DEF Deliver
<1>2. Buffer!IInv'
  BY <1>1, StopsInBuffer, BufferSizes, Buffer!DeliverIInv DEF DecodedNow, Inv
<1>3. /\ buff_i' = buff_i + k /\ buf_checkpoint' = buff_i + k
      /\ stream_offset' = stream_offset + ((buff_i + k) - buf_checkpoint)
      /\ UNCHANGED <<caller, received>>
  BY <1>1, Zenon DEF Buffer!Deliver, Buffer!Consume, Buffer!reserve
<1>4. FromInput'
  BY <1>1, <1>3, InputKept DEF DecodedNow, Inv
<1>5. Inv'
  BY <1>1, <1>2, <1>3, <1>4, StopsInBuffer DEF DecodedNow, Inv, Control, AtStart, Misses
<1>6. stream_offset' = stream_offset + (Decoded.next - 1)
  <2>1. stream_offset \in Int /\ buf_checkpoint \in Int
    BY Lengths DEF DecodedNow, Inv
  <2>2. (buff_i + k) - buf_checkpoint = Decoded.next - 1
    BY <2>1, StopsInBuffer
  <2> HIDE DEF k
  <2>3. QED
    BY <1>3, <2>2
<1>7. Reading(method) = "skip" <=> method = "skip"
  BY DEF Reading
<1>8. Messages!Deliver(Reading(method), Decoded)
  BY <1>1, <1>3, <1>6, <1>7 DEF Messages!Deliver
<1>9. StreamStep
  BY <1>1, <1>8, StopsInBuffer, ReadingOf DEF DecodedNow, Inv, StreamStep, Messages!Next
<1>10. QED
  BY <1>5, <1>9

LEMMA RejectInv ==
  ASSUME DecodedNow, Reject(Decoded)
  PROVE  Inv' /\ StreamStep
<1> DEFINE k == Progress(Decoded)
<1>1. /\ Buffer!Fail(k) /\ Decoded.status \notin {"ok", "OutOfData"}
      /\ answer' = <<"error">>
      /\ pc' = "idle"
      /\ UNCHANGED <<method, input, user>>
  BY DEF Reject
<1>2. Buffer!IInv'
  BY <1>1, StopsInBuffer, BufferSizes, Buffer!FailIInv DEF DecodedNow, Inv
<1>3. UNCHANGED <<caller, received, stream_offset>>
  BY <1>1, Zenon DEF Buffer!Fail, Buffer!reserve
<1>4. FromInput'
  BY <1>1, <1>3, InputKept DEF DecodedNow, Inv
<1>5. Inv'
  BY <1>1, <1>2, <1>3, <1>4, StopsInBuffer DEF DecodedNow, Inv, Control, AtStart, Misses
<1>6. Messages!Reject(Reading(method), Decoded)
  BY <1>1, <1>3 DEF Messages!Reject
<1>7. StreamStep
  BY <1>1, <1>6, StopsInBuffer, ReadingOf DEF DecodedNow, Inv, StreamStep, Messages!Next
<1>8. QED
  BY <1>5, <1>7
LEMMA DecodedKept ==
  ASSUME Buffer!IInv, FromInput, Buffer!IInv', FromInput',
         UNCHANGED <<input, user, received, stream_offset, method>>
  PROVE  Decoded' = Decoded
<1>1. Pending' = Pending
  BY PendingFromInput, PendingFromInputNext
<1>2. QED
  BY <1>1 DEF Decoded

(* What Buffer!Reserve comes to. *)
LEMMA ReserveEnds ==
  ASSUME Inv, NEW m, NEW k \in Int, NEW n \in Nat, Buffer!Reserve(m, k, n)
  PROVE  /\ UNCHANGED received
         /\ stream_offset' = stream_offset
         /\ \/ /\ outcome' = "OutOfData" /\ caller' = "none"
               /\ buff_i' = buf_checkpoint'
            \/ /\ outcome' = "BufferFull" /\ caller' = "none"
               /\ Buffer!TooMuch(buff_i + k, n)
            \/ /\ outcome' = "ok" /\ caller' = m /\ wanted' = n
               /\ buff_i' = (buff_i + k) - buf_checkpoint
               /\ buf_checkpoint' = 0
<1>1. UNCHANGED received /\ caller = "none"
  BY DEF Buffer!Reserve, Buffer!Running
<1>2. CASE Buffer!OutOfData(m, buf_checkpoint) /\ UNCHANGED Buffer!reserve
  <2>1. outcome' = "OutOfData" /\ caller' = "none"
    BY <1>1, <1>2 DEF Buffer!OutOfData, Buffer!Raise, Buffer!reserve
  <2>2. \/ /\ buff_i' = buf_checkpoint /\ buf_checkpoint' = buf_checkpoint
           /\ stream_offset' = stream_offset + (buf_checkpoint - buf_checkpoint)
        \/ /\ buff_i' = buf_checkpoint
           /\ UNCHANGED <<buf_checkpoint, stream_offset>>
    BY <1>2 DEF Buffer!OutOfData, Buffer!Consume
  <2>3. QED
    BY <1>1, <2>1, <2>2, Lengths DEF Inv
<1>3. CASE /\ Buffer!IndicesStripped(buff_i + k)
           /\ UNCHANGED stream_offset
           /\ IF Buffer!TooMuch(buff_i + k, n)
                THEN Buffer!Raise("BufferFull") /\ UNCHANGED Buffer!reserve
                ELSE caller' = m /\ wanted' = n /\ outcome' = "ok"
  BY <1>1, <1>3 DEF Buffer!Raise, Buffer!IndicesStripped, Buffer!reserve
<1>4. QED
  BY <1>2, <1>3, Zenon DEF Buffer!Reserve

LEMMA ReserveInv ==
  ASSUME DecodedNow, Reserve(Decoded)
  PROVE  Inv' /\ StreamStep
<1> DEFINE k == Progress(Decoded)
           m == IF method = "__next__" THEN method ELSE "unpack"
           n == Decoded.need
<1>1. /\ Buffer!Reserve(m, k, n) /\ Decoded.status = "OutOfData"
      /\ IF outcome' = "ok"
           THEN pc' = "reserve" /\ UNCHANGED answer
           ELSE /\ pc' = "idle"
                /\ answer' = IF outcome' = "OutOfData" THEN <<"OutOfData">>
                                                       ELSE <<"interrupted">>
      /\ UNCHANGED <<method, input, user>>
  BY DEF Reserve
<1>2. /\ k \in Int /\ n \in Nat /\ buf_checkpoint <= buff_i + k
      /\ m \in Buffer!Callers /\ method \in Methods
      /\ buff_i + k = buf_checkpoint + (Decoded.next - 1)
      /\ Decoded.next \in Int /\ buf_checkpoint \in Int
      /\ Inv
  BY <1>1, StopsInBuffer, Lengths DEF DecodedNow, Inv, Buffer!Callers
<1> HIDE DEF k, n
<1>3. Buffer!IInv'
  <2> HIDE DEF m
  <2>1. QED
    BY <1>1, <1>2, BufferSizes, Buffer!ReserveIInv DEF Inv
<1>4. /\ UNCHANGED <<received, stream_offset>>
      /\ \/ /\ outcome' = "OutOfData" /\ caller' = "none"
            /\ buff_i' = buf_checkpoint'
         \/ outcome' = "BufferFull" /\ caller' = "none"
         \/ /\ outcome' = "ok" /\ caller' = m /\ wanted' = n
            /\ buff_i' = (buff_i + k) - buf_checkpoint
            /\ buf_checkpoint' = 0
  <2> HIDE DEF m
  <2>1. QED
    BY <1>1, <1>2, ReserveEnds
<1>5. FromInput'
  BY <1>1, <1>2, <1>4, InputKept DEF Inv
<1>6. Decoded' = Decoded
  BY <1>1, <1>2, <1>3, <1>4, <1>5, DecodedKept DEF Inv
<1>7. Control'
  BY <1>1, <1>2, <1>4 DEF Control, Methods
<1>8. AtStart'
  BY <1>1, <1>2, <1>4 DEF AtStart, Methods
<1>9. Misses'
  BY <1>1, <1>2, <1>4, <1>6 DEF Misses, n
<1>10. StreamStep
  <2>1. CASE outcome' = "OutOfData"
    <3>1. Messages!Exhausted(Decoded)
      BY <1>1, <1>4, <2>1 DEF Messages!Exhausted
    <3>2. QED
      BY <1>1, <1>2, <3>1, ReadingOf DEF Inv, StreamStep, Messages!Next
  <2>2. CASE outcome' = "BufferFull"
    BY <1>1, <1>4, <2>2 DEF StreamStep, Messages!Next, Messages!Interrupt
  <2>3. CASE outcome' = "ok"
    BY <1>1, <1>4, <2>3 DEF StreamStep, Messages!vars
  <2>4. QED
    BY <1>4, <2>1, <2>2, <2>3
<1>11. QED
  BY <1>3, <1>5, <1>7, <1>8, <1>9, <1>10 DEF Inv
-------------------------------------------------------------------------------
(* The file is read, for the decoder or for read_bytes(). *)
LEMMA StillMissing ==
  ASSUME Inv, Buffer!IInv', FromInput', pc = "reserve", method # "read_bytes",
         Len(received') \in Len(received) .. Len(input),
         Len(buffer') >= Len(buffer),
         UNCHANGED <<input, user, method, stream_offset, buff_i, buf_checkpoint, wanted>>,
         stream_offset + (Len(buffer') - buf_checkpoint) = Len(received'),
         Len(buffer') \in Nat, Len(buffer') - buff_i < wanted
  PROVE  /\ Decoded'.status = "OutOfData"
         /\ Decoded'.next = (buff_i - buf_checkpoint) + 1
         /\ Decoded'.need = wanted
<1> DEFINE later == Len(received')
<1>1. method \in Methods
  BY DEF Inv, Control
<1>2. /\ Decoded.status = "OutOfData"
      /\ Decoded.next = (buff_i - buf_checkpoint) + 1
      /\ Decoded.need = wanted
  <2>1. Len(buffer) - buff_i < wanted
    BY Lengths DEF Inv
  <2>2. QED
    BY <2>1 DEF Inv, Misses
<1>3. (later - stream_offset) + 1 < Decoded.next + Decoded.need
  <2>1. /\ stream_offset \in Int /\ buf_checkpoint \in Int /\ buff_i \in Int
        /\ wanted \in Int
    BY Lengths DEF Inv
  <2>2. (later - stream_offset) + 1 < ((buff_i - buf_checkpoint) + 1) + wanted
    BY <2>1
  <2>3. QED
    BY <1>2, <2>2
<1>4. Decoded' = DecodedBy(Reading(method), SubSeq(input, stream_offset + 1, later), user)
  BY PendingFromInputNext DEF Decoded
<1> HIDE DEF later
<1>5. later \in Len(received) .. Len(input)
  BY DEF later
<1>6. Decoded' = Decoded
  BY <1>1, <1>2, <1>3, <1>4, <1>5, DecoderWaits DEF Inv
<1>7. QED
  BY <1>2, <1>6

LEMMA ReadFileInv ==
  ASSUME Inv, ReadFile
  PROVE  Inv' /\ StreamStep
<1>1. /\ pc = "reserve" /\ Buffer!ReadFile
      /\ IF outcome' = "ok" THEN UNCHANGED <<pc, answer>>
                            ELSE pc' = "idle" /\ answer' = <<"interrupted">>
      /\ UNCHANGED <<method, input, user>>
  BY DEF ReadFile
<1>2. Buffer!IInv'
  BY <1>1, BufferSizes, Buffer!ReadFileIInv DEF Inv
<1>3. FromInput'
  BY <1>1 DEF ReadFile, FollowsInput, Inv, FromInput
<1>4. UNCHANGED <<stream_offset, buff_i, buf_checkpoint>>
  BY <1>1, Zenon DEF Buffer!ReadFile, Buffer!indices
<1>5. CASE outcome' # "ok"
  <2>1. caller' = "none" /\ UNCHANGED received
    BY <1>1, <1>5 DEF Buffer!ReadFile
  <2>2. Inv'
    BY <1>1, <1>2, <1>3, <1>5, <2>1 DEF Inv, Control, AtStart, Misses
  <2>3. StreamStep
    BY <1>1, <1>4, <1>5, <2>1 DEF StreamStep, Messages!Next, Messages!Interrupt
  <2>4. QED
    BY <2>2, <2>3
<1>6. CASE outcome' = "ok"
  <2>1. /\ UNCHANGED <<caller, wanted>>
        /\ \/ \E c \in Chunks : buffer' = buffer \o c /\ received' = received \o c
           \/ UNCHANGED <<buffer, received>>
    BY <1>1, <1>6 DEF Buffer!ReadFile
  <2>2. /\ Len(received') \in Len(received) .. Len(input)
        /\ Len(buffer') >= Len(buffer)
        /\ Len(buffer') \in Nat
        /\ stream_offset + (Len(buffer') - buf_checkpoint) = Len(received')
    <3>1. Len(buffer') >= Len(buffer) /\ Len(received') >= Len(received)
      <4>1. CASE UNCHANGED <<buffer, received>>
        BY <4>1, Lengths DEF Inv
      <4>2. ASSUME NEW c \in Chunks, buffer' = buffer \o c, received' = received \o c
            PROVE  Len(buffer') >= Len(buffer) /\ Len(received') >= Len(received)
        <5> DEFINE B == 0 .. 255
        <5>1. buffer \in Seq(B) /\ received \in Seq(B) /\ c \in Seq(B)
          BY ChunksAreBytes DEF Inv, Buffer!IInv, Buffer!TypeOK
        <5> HIDE DEF B
        <5>2. QED
          BY <4>2, <5>1
      <4>3. QED
        BY <2>1, <4>1, <4>2
    <3>2. /\ Len(buffer') \in Nat /\ Len(received') \in Nat /\ Len(input') \in Nat
          /\ stream_offset' + (Len(buffer') - buf_checkpoint') = Len(received')
          /\ Len(received') <= Len(input')
      BY <1>2, <1>3, LengthsNext
    <3>3. Len(received) \in Nat
      BY Lengths DEF Inv
    <3>4. QED
      BY <1>1, <1>4, <3>1, <3>2, <3>3
  <2>3. Misses'
    BY <1>1, <1>2, <1>3, <1>4, <1>6, <2>1, <2>2, StillMissing DEF Misses
  <2>4. Control' /\ AtStart'
    BY <1>1, <1>4, <1>6, <2>1 DEF Inv, Control, AtStart
  <2>5. StreamStep
    <3>1. \A c \in Chunks : c \in Pieces
      BY DEF Chunks
    <3>2. UNCHANGED <<answer, user, stream_offset>>
      BY <1>1, <1>4, <1>6
    <3>3. QED
      BY <2>1, <3>1, <3>2
      DEF StreamStep, Messages!Next, Messages!Arrive, Messages!vars
  <2>6. QED
    BY <1>2, <1>3, <2>3, <2>4, <2>5 DEF Inv
<1>7. QED
  BY <1>5, <1>6

(* read_bytes() hands out what a slice of the buffer holds.                *)
LEMMA BytesOf ==
  ASSUME Buffer!IInv, FromInput, buff_i = buf_checkpoint, NEW n \in Nat,
         result' = Buffer!Read(buff_i, n),
         Buffer!Consume(Buffer!ReadEnd(buff_i, n)),
         answer' = <<"bytes", result'>>,
         UNCHANGED <<received, user>>
  PROVE  StreamStep /\ buff_i' = buf_checkpoint'
<1> DEFINE k == Buffer!ReadEnd(buff_i, n) - buf_checkpoint
<1>1. /\ k \in 0 .. Len(buffer) - buf_checkpoint
      /\ Buffer!ReadEnd(buff_i, n) = buf_checkpoint + k
      /\ Buffer!ReadEnd(buff_i, n) = Buffer!Least(buff_i + n, Len(buffer))
  BY Lengths DEF Buffer!ReadEnd, Buffer!Least
<1>2. k \in 0 .. Len(received) - stream_offset
  BY <1>1, Lengths
<1>3. stream_offset' = stream_offset + k
  BY DEF Buffer!Consume
<1> HIDE DEF k
<1>4. result' = SubSeq(received, stream_offset + 1, stream_offset + k)
  <2>1. result' = SubSeq(buffer, buf_checkpoint + 1, buf_checkpoint + k)
    BY <1>1 DEF Buffer!Read
  <2>2. QED
    BY <1>1, <2>1, SliceReceived
<1>5. Messages!Bytes(k)
  BY <1>3, <1>4 DEF Messages!Bytes
<1>6. buff_i' = buf_checkpoint'
  BY DEF Buffer!Consume
<1>7. QED
  BY <1>2, <1>5, <1>6 DEF StreamStep, Messages!Next

LEMMA ReservedInv ==
  ASSUME Inv, Reserved
  PROVE  Inv' /\ StreamStep
<1>1. /\ pc = "reserve" /\ Buffer!Reserved
      /\ IF method = "read_bytes" THEN pc' = "idle" /\ answer' = <<"bytes", result'>>
         ELSE IF outcome' = "OutOfData" THEN pc' = "idle" /\ answer' = <<"OutOfData">>
         ELSE pc' = "decode" /\ UNCHANGED answer
      /\ UNCHANGED <<method, input, user>>
  BY DEF Reserved
<1>2. Buffer!IInv'
  BY <1>1, BufferSizes, Buffer!ReservedIInv DEF Inv
<1>3. /\ caller' = "none"
      /\ UNCHANGED <<buffer, received>>
      /\ caller = "read_bytes" <=> method = "read_bytes"
      /\ method \in Methods \cup {"read_bytes"}
  BY <1>1 DEF Buffer!Reserved, Inv, Control
<1>4. FromInput'
  BY <1>1, <1>3, InputKept DEF Inv
<1>5. buf_checkpoint = 0 /\ stream_offset \in Nat /\ wanted \in Nat
  BY <1>1, Lengths DEF Inv, Buffer!IInv, Buffer!Indices, Buffer!Reserved
<1>6. Control' /\ Misses'
  BY <1>1, <1>3 DEF Control, Misses
<1>7. CASE method = "read_bytes"
  <2>1. /\ result' = Buffer!Read(buff_i, wanted)
        /\ Buffer!Consume(Buffer!ReadEnd(buff_i, wanted))
    BY <1>1, <1>3, <1>7, Zenon DEF Buffer!Reserved
  <2>2. buff_i = buf_checkpoint
    BY <1>1, <1>7 DEF Inv, AtStart
  <2>3. StreamStep /\ buff_i' = buf_checkpoint'
    BY <1>1, <1>3, <1>5, <1>7, <2>1, <2>2, BytesOf DEF Inv
  <2>4. QED
    BY <1>2, <1>4, <1>6, <2>3 DEF Inv, AtStart
<1>8. CASE method # "read_bytes" /\ Buffer!StillShort
  <2>1. Buffer!OutOfData(caller, Buffer!Rollback)
    BY <1>1, <1>3, <1>8, Zenon DEF Buffer!Reserved
  <2>2. /\ outcome' = "OutOfData"
        /\ buff_i' = buf_checkpoint' /\ stream_offset' = stream_offset
    BY <1>5, <2>1
    DEF Buffer!OutOfData, Buffer!Consume, Buffer!Raise, Buffer!Rollback
  <2>3. Decoded.status = "OutOfData"
    BY <1>1, <1>8 DEF Inv, Misses, Buffer!StillShort, Buffer!Unread
  <2>4. Messages!Exhausted(Decoded)
    BY <1>1, <1>3, <1>8, <2>2, <2>3 DEF Messages!Exhausted
  <2>5. StreamStep
    BY <1>1, <1>3, <1>8, <2>4, ReadingOf DEF Inv, StreamStep, Messages!Next
  <2>6. QED
    BY <1>2, <1>4, <1>6, <2>2, <2>5 DEF Inv, AtStart
<1>9. CASE method # "read_bytes" /\ ~Buffer!StillShort
  <2>1. outcome' = "ok" /\ UNCHANGED Buffer!indices
    BY <1>1, <1>3, <1>9, Zenon DEF Buffer!Reserved
  <2>2. pc' = "decode" /\ UNCHANGED <<answer, stream_offset>>
    BY <1>1, <1>9, <2>1 DEF Buffer!indices
  <2>3. StreamStep
    BY <1>1, <1>3, <2>2 DEF StreamStep, Messages!vars
  <2>4. QED
    BY <1>2, <1>4, <1>6, <2>2, <2>3 DEF Inv, AtStart
<1>10. QED
  BY <1>7, <1>8, <1>9

LEMMA ReadBytesInv ==
  ASSUME Inv, NEW n \in 0 .. MaxWanted, ReadBytes(n)
  PROVE  Inv' /\ StreamStep
<1>1. /\ pc = "idle" /\ buff_i = buf_checkpoint /\ n \in Nat
      /\ method' = "read_bytes"
      /\ UNCHANGED <<input, user>>
  BY UnpackerAssumption DEF ReadBytes, Usable
<1>2. CASE Buffer!ReadBytes(n) /\ pc' = "idle" /\ answer' = <<"bytes", result'>>
  <2>1. Buffer!IInv'
    BY <1>1, <1>2, BufferSizes, Buffer!ReadBytesIInv DEF Inv
  <2>2. /\ UNCHANGED <<caller, received>>
        /\ result' = Buffer!Read(buff_i, n)
        /\ n <= Len(buffer) - buff_i
        /\ Buffer!Consume(buff_i + n)
    BY <1>2, Zenon DEF Buffer!ReadBytes, Buffer!reserve, Buffer!Unread
  <2>3. Buffer!ReadEnd(buff_i, n) = buff_i + n
    BY <1>1, <2>2, Lengths DEF Inv, Buffer!ReadEnd, Buffer!Least
  <2>4. StreamStep /\ buff_i' = buf_checkpoint'
    BY <1>1, <1>2, <2>2, <2>3, BytesOf DEF Inv
  <2>5. FromInput'
    BY <1>1, <2>2, InputKept DEF Inv
  <2>6. QED
    BY <1>1, <1>2, <2>1, <2>2, <2>4, <2>5 DEF Inv, Control, AtStart, Misses
<1>3. CASE /\ Buffer!Reserve("read_bytes", 0, n)
           /\ pc' = IF outcome' = "ok" THEN "reserve" ELSE "idle"
           /\ answer' = CASE outcome' = "ok"        -> <<"none">>
                          [] outcome' = "OutOfData" -> <<"OutOfBytes">>
                          [] OTHER                  -> <<"interrupted">>
  <2>1. "read_bytes" \in Buffer!Callers /\ buf_checkpoint <= buff_i + 0 /\ 0 \in Int
    BY Lengths DEF Inv, Buffer!Callers
  <2>2. Buffer!IInv'
    BY <1>1, <1>3, <2>1, BufferSizes, Buffer!ReserveIInv DEF Inv
  <2>3. /\ UNCHANGED <<received, stream_offset>>
        /\ \/ /\ outcome' = "OutOfData" /\ caller' = "none"
              /\ buff_i' = buf_checkpoint'
           \/ outcome' = "BufferFull" /\ caller' = "none"
           \/ /\ outcome' = "ok" /\ caller' = "read_bytes"
              /\ buff_i' = (buff_i + 0) - buf_checkpoint
              /\ buf_checkpoint' = 0
    BY <1>1, <1>3, <2>1, ReserveEnds
  <2>4. outcome' = "ok" => buff_i' = buf_checkpoint'
    BY <1>1, <2>3, Lengths DEF Inv
  <2>5. /\ outcome' = "ok" => answer' = <<"none">>
        /\ outcome' = "OutOfData" => answer' = <<"OutOfBytes">>
        /\ outcome' = "BufferFull" => answer' = <<"interrupted">>
    BY <1>3
  <2>6. FromInput'
    BY <1>1, <2>3, InputKept DEF Inv
  <2>7. Inv'
    BY <1>1, <1>3, <2>2, <2>3, <2>4, <2>5, <2>6 DEF Inv, Control, AtStart, Misses
  <2>8. StreamStep
    BY <1>1, <2>3, <2>5
    DEF StreamStep, Messages!Next, Messages!Begin, Messages!BytesRefused,
        Messages!Interrupt
  <2>9. QED
    BY <2>7, <2>8
<1>4. QED
  BY <1>2, <1>3 DEF ReadBytes
-------------------------------------------------------------------------------
LEMMA InitInv == Init => Inv
<1> SUFFICES ASSUME Init PROVE Inv
  OBVIOUS
<1>1. Buffer!IInv
  BY BufferSizes, Buffer!InitIInv DEF Init
<1>2. FromInput
  <2>1. received = <<>> /\ Len(received) = 0
    BY DEF Init, Buffer!Init
  <2>2. \E c \in Cases : input = c[1] /\ user = c[2]
    BY DEF Init
  <2>3. Len(input) \in Nat
    BY <2>2, UnpackerAssumption
  <2>4. SubSeq(input, 1, 0) = <<>>
    BY SubSeqEmpty
  <2>5. QED
    BY <2>1, <2>2, <2>3, <2>4 DEF FromInput
<1>3. Control /\ AtStart /\ Misses
  BY DEF Init, Buffer!Init, Control, AtStart, Misses, Methods
<1>4. QED
  BY <1>1, <1>2, <1>3 DEF Inv

LEMMA StepInv == Inv /\ [Next]_vars => Inv' /\ StreamStep
<1> SUFFICES ASSUME Inv, [Next]_vars PROVE Inv' /\ StreamStep
  OBVIOUS
<1>1. CASE Feed
  BY <1>1, FeedInv
<1>2. ASSUME NEW m \in Methods, Call(m) PROVE Inv' /\ StreamStep
  BY <1>2, CallInv
<1>3. CASE Decode
  <2>1. DecodedNow /\ (Deliver(Decoded) \/ Reject(Decoded) \/ Reserve(Decoded))
    BY <1>3 DEF Decode, DecodedNow
  <2>2. QED
    BY <2>1, DeliverInv, RejectInv, ReserveInv
<1>4. CASE ReadFile
  BY <1>4, ReadFileInv
<1>5. CASE Reserved
  BY <1>5, ReservedInv
<1>6. ASSUME NEW n \in 0 .. MaxWanted, ReadBytes(n) PROVE Inv' /\ StreamStep
  BY <1>6, ReadBytesInv
<1>7. CASE UNCHANGED vars
  <2>1. /\ UNCHANGED bufferVars
        /\ UNCHANGED <<buffer, buff_i, buf_checkpoint, caller, wanted, received,
                       stream_offset, pc, method, answer, input, user>>
    BY <1>7 DEF vars, bufferVars
  <2>2. Buffer!IInv' /\ FromInput'
    BY <2>1, BufferKept, InputKept DEF Inv
  <2>3. Control' /\ AtStart'
    BY <2>1 DEF Inv, Control, AtStart
  <2>4. Misses'
    BY <2>1, <2>2, DecodedKept DEF Inv, Misses
  <2>5. QED
    BY <2>1, <2>2, <2>3, <2>4 DEF Inv, StreamStep, Messages!vars
<1>8. QED
  BY <1>1, <1>2, <1>3, <1>4, <1>5, <1>6, <1>7 DEF Next, Unpacking, Abandoned

LEMMA AlwaysInv == Spec => []Inv
<1>1. Inv /\ [Next]_vars => Inv'
  BY StepInv
<1>2. QED
  BY <1>1, InitInv, PTL DEF Spec

-------------------------------------------------------------------------------
(* A call that returned, or asked for more bytes, leaves the buffer at the *)
(* first byte of the next object, which is where tell() says it is,        *)
(* however often _reserve() stripped the buffer or rolled _buff_i back.    *)
THEOREM TellStartsAlways == Spec => []TellStartsNextObject
<1>1. Inv => TellStartsNextObject
  <2> SUFFICES ASSUME Inv, pc = "idle", answer[1] \notin {"error", "interrupted"}
               PROVE  /\ buff_i = buf_checkpoint
                      /\ SubSeq(buffer, buff_i + 1, Len(buffer))
                           = SubSeq(received, stream_offset + 1, Len(received))
    BY DEF TellStartsNextObject
  <2>1. buff_i = buf_checkpoint
    BY DEF Inv, AtStart
  <2>2. QED
    BY <2>1, PendingFromInput DEF Inv, Pending
<1>2. QED
  BY <1>1, AlwaysInv, PTL

(* The Unpacker of fallback.py answers as the stream of messages does:     *)
(* every object is read from the bytes after the one before, and asking    *)
(* for more bytes, a full buffer or a failed read takes nothing away.      *)
THEOREM UnpackerImplementsMessages == Spec => MessageSpec
<1>1. Init => Messages!Init
  BY DEF Init, Buffer!Init, Messages!Init
<1>2. Inv /\ [Next]_vars => [Messages!Next]_(Messages!vars)
  BY StepInv DEF StreamStep
<1>3. QED
  BY <1>1, <1>2, AlwaysInv, PTL DEF Spec, MessageSpec, Messages!Spec

(* BufferFull is raised in a call only for an object that is longer than   *)
(* max_buffer_size: what was consumed before it does not count.            *)
THEOREM FittingObjectsAreRead == Spec => ObjectThatFitsIsRead
<1> DEFINE Whole == DecodedBy(Reading(method),
                              SubSeq(input, stream_offset + 1, Len(input)), user)
<1>1. ASSUME Inv, Next, pc = "decode", outcome' = "BufferFull", Whole.status = "ok"
      PROVE  Whole.next - 1 > Buffer!MaxBufferSize
  <2>1. DecodedNow /\ (Deliver(Decoded) \/ Reject(Decoded) \/ Reserve(Decoded))
    BY <1>1, Zenon
    DEF Next, Feed, Call, Usable, Unpacking, Decode, ReadFile, Reserved, ReadBytes,
        Abandoned, DecodedNow
  <2>2. Reserve(Decoded)
    BY <1>1, <2>1, Zenon
    DEF Deliver, Reject, Buffer!Deliver, Buffer!Fail, Buffer!Raise
  <2> DEFINE k == Progress(Decoded)
             m == IF method = "__next__" THEN method ELSE "unpack"
             n == Decoded.need
  <2>3. Decoded.status = "OutOfData" /\ Buffer!Reserve(m, k, n)
    BY <2>2 DEF Reserve
  <2>4. /\ method \in Methods /\ k \in Int /\ n \in Nat /\ Decoded.next \in Int
        /\ buff_i + k = buf_checkpoint + (Decoded.next - 1)
    BY <2>1, <2>3, StopsInBuffer
  <2> HIDE DEF k, m, n
  <2>5. Buffer!TooMuch(buff_i + k, n)
    BY <1>1, <2>3, <2>4, ReserveEnds
  <2>6. Len(Buffer!Stripped) = Len(buffer) - buf_checkpoint
    BY <1>1, BufferSizes, Buffer!StrippedCells DEF Inv, Buffer!IInv
  <2>7. (Decoded.next - 1) + n > Buffer!MaxBufferSize
    <3>1. /\ buf_checkpoint \in Int /\ Len(buffer) \in Int
          /\ Buffer!MaxBufferSize \in Int
      BY <1>1, Lengths, BufferSizes, Buffer!Sizes DEF Inv
    <3>2. ((buff_i + k) + n - Len(buffer)) + (Len(buffer) - buf_checkpoint)
            > Buffer!MaxBufferSize
      BY <2>5, <2>6 DEF Buffer!TooMuch
    <3>3. QED
      BY <2>4, <3>1, <3>2
  <2>8. /\ Decoded.next + n <= Whole.next
        /\ Whole.next \in Int
    <3>1. Len(input) \in Len(received) .. Len(input)
      BY <1>1, Lengths DEF Inv
    <3>2. Decoded.next + Decoded.need <= Whole.next /\ Whole.next \in Int
      BY <1>1, <2>3, <2>4, <3>1, DecoderWaits DEF Inv
    <3>3. QED
      BY <1>1, <3>2 DEF n
  <2>9. QED
    BY <2>4, <2>7, <2>8, BufferSizes, Buffer!Sizes
<1>2. Inv /\ [Next]_vars =>
        [pc = "decode" /\ outcome' = "BufferFull" =>
           (Whole.status = "ok" => Whole.next - 1 > Buffer!MaxBufferSize)]_vars
  BY <1>1
<1>3. QED
  BY <1>2, AlwaysInv, PTL DEF Spec, ObjectThatFitsIsRead
===============================================================================
