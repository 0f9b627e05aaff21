-------------------------- MODULE CythonUnpackerProofs ------------------------
(***************************************************************************)
(* Proofs about the streaming Unpacker, for every input, cut into pieces   *)
(* in every way, and all options: it uses its buffer as UnpackBuffer says, *)
(* and its parser finds on every call what the last one left.              *)
(***************************************************************************)
EXTENDS CythonUnpacker, SequenceTheorems, TLAPS

Building == method \in {"unpack", "skip"} /\ construct = (method = "unpack")

(* Nothing was taken since the last object: between calls, on the way to   *)
(* the parser, and when it came back with nothing or a header reader did.  *)
NothingTaken ==
  \/ pc \in {"idle", "loop"}
  \/ pc = "check" /\ ret = "more"
  \/ pc = "check" /\ ret # "object" /\ method \notin {"unpack", "skip"}

Control ==
  /\ pc \in {"idle", "loop", "execute", "check"}
  /\ (pc = "execute") <=> (at # "idle")
  /\ pc \in {"idle", "loop"} => ret = "more"
  /\ broken => pc = "idle"
  /\ InObject \/ pc = "execute" => broken \/ Building

Inv ==
  /\ Buffer!IInv
  /\ Control
  /\ Parser!StackTyped
  /\ ~broken => Parser!Parsing
  /\ NothingTaken /\ ~InObject /\ ~broken => Taken = objStart

(* What is fed or read is bytes of the input.                              *)
LEMMA PieceOfBytes ==
  ASSUME NEW S, NEW s \in Seq(S), NEW i \in 1 .. Len(s), NEW j \in 0 .. Len(s)
  PROVE  SubSeq(s, i, j) \in Seq(S)
<1>1. \A k \in i .. j : s[k] \in S
  BY ElementOfSeq
<1>2. QED
  BY <1>1, SubSeqProperties

LEMMA ChunksAreBytes == Chunks \subseteq Seq(0 .. 255)
<1> DEFINE Bytes == Seq(0 .. 255)
<1>1. \A s \in Inputs : s \in Bytes
  BY UnpackerAssumption DEF Inputs
<1>2. \A s \in Inputs : \A i \in 1 .. Len(s), j \in 0 .. Len(s) :
        SubSeq(s, i, j) \in Bytes
  BY <1>1, PieceOfBytes
<1> HIDE DEF Bytes
<1>3. ASSUME NEW c \in Pieces PROVE c \in Bytes
  <2>1. PICK s \in Inputs : c \in {SubSeq(s, i, j) : i \in 1 .. Len(s), j \in 0 .. Len(s)}
    BY DEF Pieces
  <2>2. PICK i \in 1 .. Len(s), j \in 0 .. Len(s) : c = SubSeq(s, i, j)
    BY <2>1
  <2>3. QED
    BY <1>2, <2>2
<1>4. QED
  BY <1>3 DEF Chunks, Bytes

(* What the buffer's proofs assume of their constants. *)
LEMMA BufferSizes == Buffer!BufferAssumption
BY ChunksAreBytes, UnpackerAssumption DEF Buffer!BufferAssumption

(* The bytes that wait in the buffer, as bytes of the stream.              *)
LEMMA BufferIsStream ==
  ASSUME Buffer!IInv
  PROVE  /\ Taken \in Nat /\ buf_head \in Nat /\ buf_tail \in Nat
         /\ Len(received) \in Nat
         /\ Len(received) - Taken = buf_tail - buf_head
         /\ buf_head <= buf_tail
         /\ \A i \in 0 .. (buf_tail - buf_head) - 1 :
              buf[buf_head + i] = received[Taken + i + 1]
<1>1. /\ buf_head \in Nat /\ buf_tail \in Nat /\ stream_offset \in Nat
      /\ skipped \in Nat /\ received \in Seq(0 .. 255)
      /\ buf_head <= buf_tail
  BY DEF Buffer!IInv, Buffer!TypeOK, Buffer!Bounds
<1>2. /\ Len(received) = stream_offset + skipped + (buf_tail - buf_head)
      /\ \A i \in 0 .. (buf_tail - buf_head) - 1 :
           buf[buf_head + i] = received[stream_offset + skipped + i + 1]
  BY DEF Buffer!IInv, Buffer!Integrity, Buffer!Unread
<1>3. QED
  BY <1>1, <1>2 DEF Taken

(* The waiting cells hold bytes received, so the parser can read them.     *)
LEMMA BufferReadable ==
  ASSUME Buffer!IInv
  PROVE  /\ Parser!Readable
         /\ buf_head \in Nat /\ buf_tail \in Nat /\ buf_head <= buf_tail
<1>1. /\ Taken \in Nat /\ buf_head \in Nat /\ buf_tail \in Nat
      /\ Len(received) - Taken = buf_tail - buf_head
      /\ buf_head <= buf_tail
      /\ \A i \in 0 .. (buf_tail - buf_head) - 1 :
           buf[buf_head + i] = received[Taken + i + 1]
  BY BufferIsStream
<1>2. received \in Seq(0 .. 255)
  BY DEF Buffer!IInv, Buffer!TypeOK
<1>3. ASSUME NEW i \in buf_head .. buf_tail - 1 PROVE buf[i] \in 0 .. 255
  <2> DEFINE j == i - buf_head
             k == Taken + j + 1
  <2>1. j \in 0 .. (buf_tail - buf_head) - 1 /\ buf_head + j = i
    BY <1>1
  <2>2. k \in 1 .. Len(received)
    BY <1>1, <1>2, <2>1
  <2>3. buf[i] = received[k]
    BY <1>1, <2>1
  <2> HIDE DEF k
  <2>4. QED
    BY <1>2, <2>2, <2>3, ElementOfSeq
<1>4. QED
  BY <1>1, <1>3 DEF Parser!Readable

-------------------------------------------------------------------------------
(* What a step keeps when it leaves the buffer, or the context, alone.     *)
BufferStep == Buffer!Next \/ UNCHANGED Buffer!vars

LEMMA BufferKept ==
  ASSUME Buffer!IInv, UNCHANGED bufferVars
  PROVE  Buffer!IInv' /\ BufferStep /\ Taken' = Taken
<1>1. UNCHANGED Buffer!vars
  BY DEF bufferVars, Buffer!vars, Buffer!memory, Buffer!history
<1>2. Buffer!IInv'
  BY <1>1, BufferSizes, Buffer!NextIInv
<1>3. QED
  BY <1>1, <1>2 DEF BufferStep, bufferVars, Taken

(* Between two steps of the parser only the context matters.               *)
LEMMA ContextKept ==
  ASSUME Parser!StackTyped, UNCHANGED <<stack, construct>>
  PROVE  /\ Parser!StackTyped'
         /\ Parser!Parsing /\ at' = "idle" /\ UNCHANGED <<cs, trail>>
              /\ ((ret' = ret /\ at = "idle") \/ ~InObject) => Parser!Parsing'
<1>1. Parser!StackTyped' /\ (Parser!FramesOK => Parser!FramesOK')
  BY Parser!StackKept
<1>2. ASSUME Parser!Parsing, at' = "idle", UNCHANGED <<cs, trail>>,
             (ret' = ret /\ at = "idle") \/ ~InObject
      PROVE  Parser!Parsing'
  <2>1. Parser!Position' /\ cs' \in Parser!Codes
    BY <1>2 DEF Parser!Parsing, Parser!Position
  <2>2. ASSUME ~InObject PROVE Parser!Waits' /\ Parser!FramesOK'
    BY <1>2, <2>2
    DEF InObject, Parser!Waits, Parser!TrailOK, Parser!FramesOK
  <2>3. ASSUME ret' = ret, at = "idle"
        PROVE  Parser!Waits' /\ (ret' # "raised" => Parser!FramesOK')
    BY <1>1, <1>2, <2>3 DEF Parser!Parsing, Parser!Waits, Parser!TrailOK
  <2>4. QED
    BY <1>1, <1>2, <2>1, <2>2, <2>3 DEF Parser!Parsing
<1>3. QED
  BY <1>1, <1>2

(* A context just initialised. *)
LEMMA ContextReset ==
  ASSUME Parser!ResetContext, at' = "idle", ret' = "more"
  PROVE  Parser!Parsing' /\ Parser!StackTyped' /\ ~InObject'
<1>1. Parser!StackTyped' /\ Parser!FramesOK'
  BY UnpackerAssumption
  DEF Parser!ResetContext, Parser!StackTyped, Parser!FramesOK, Parser!IsSeq, Parser!top
<1>2. Parser!Position' /\ Parser!Waits' /\ cs' \in Parser!Codes
  BY DEF Parser!ResetContext, Parser!Position, Parser!Waits, Parser!TrailOK,
         Parser!Codes, Parser!CS_HEADER
<1>3. QED
  BY <1>1, <1>2 DEF Parser!Parsing, Parser!ResetContext, InObject

-------------------------------------------------------------------------------
(* The steps of the caller. *)
LEMMA FeedInv ==
  ASSUME Inv, Feed
  PROVE  Inv' /\ BufferStep
<1>1. PICK c \in Chunks : Buffer!Feed(c)
  BY DEF Feed
<1>2. Buffer!IInv' /\ BufferStep
  BY <1>1, BufferSizes, Buffer!FeedIInv DEF Inv, BufferStep, Buffer!Next
<1>3. Taken' = Taken
  BY <1>1 DEF Buffer!Feed, Taken
<1>4. at = "idle" /\ UNCHANGED <<parserVars, callVars>>
  BY DEF Feed, Usable, Inv, Control
<1>5. UNCHANGED <<cs, trail, stack, root, at, construct, p, obj, ret, pc, method,
                  objStart, broken>>
  BY <1>4 DEF parserVars, callVars
<1>6. Parser!StackTyped' /\ (~broken' => Parser!Parsing')
  BY <1>4, <1>5, ContextKept DEF Inv
<1>7. QED
  BY <1>2, <1>3, <1>5, <1>6 DEF Inv, Control, Building, NothingTaken, InObject

LEMMA ReadBytesInv ==
  ASSUME Inv, NEW nbytes \in 0 .. MaxWanted, ReadBytes(nbytes)
  PROVE  Inv' /\ BufferStep
<1>1. Buffer!IInv' /\ BufferStep
  <2>1. nbytes \in Nat
    BY UnpackerAssumption
  <2>2. QED
    BY <2>1, BufferSizes, Buffer!ReadBytesIInv
    DEF ReadBytes, Inv, BufferStep, Buffer!Next
<1>2. at = "idle" /\ objStart' = Taken'
      /\ UNCHANGED <<parserVars, pc, method, broken>>
  BY DEF ReadBytes, Usable, Inv, Control
<1>3. UNCHANGED <<cs, trail, stack, at, construct, ret, pc, method, broken>>
  BY <1>2 DEF parserVars
<1>4. Parser!StackTyped' /\ (~broken' => Parser!Parsing')
  BY <1>2, <1>3, ContextKept DEF Inv
<1>5. QED
  BY <1>1, <1>2, <1>3, <1>4 DEF Inv, Control, Building, InObject

LEMMA CallInv ==
  ASSUME Inv, NEW m, Call(m)
  PROVE  Inv' /\ BufferStep
<1>1. Buffer!IInv' /\ BufferStep /\ Taken' = Taken
  BY BufferKept DEF Inv, Call
<1>2. at = "idle" /\ pc = "idle" /\ ~broken /\ (InObject => m = method)
      /\ method' = m /\ pc' = "loop" /\ UNCHANGED <<parserVars, objStart, broken>>
  BY DEF Call, Usable, Inv, Control
<1>3. UNCHANGED <<cs, trail, stack, at, construct, ret>>
  BY <1>2 DEF parserVars
<1>4. Parser!StackTyped' /\ Parser!Parsing'
  BY <1>2, <1>3, ContextKept DEF Inv
<1>5. QED
  BY <1>1, <1>2, <1>3, <1>4 DEF Inv, Control, Building, NothingTaken, InObject

-------------------------------------------------------------------------------
(* The steps of _unpack() and of the parser. *)
LEMMA NothingToExecuteInv ==
  ASSUME Inv, NothingToExecute
  PROVE  Inv' /\ BufferStep
<1>1. Buffer!IInv' /\ BufferStep /\ Taken' = Taken
  BY BufferKept DEF Inv, NothingToExecute
<1>2. at = "idle" /\ ret = "more" /\ ~broken /\ pc = "loop"
      /\ ret' = "more" /\ pc' = "check"
      /\ UNCHANGED <<cs, trail, stack, at, construct, method, objStart, broken>>
  BY DEF NothingToExecute, Inv, Control
<1>3. Parser!StackTyped' /\ Parser!Parsing'
  BY <1>2, ContextKept DEF Inv
<1>4. QED
  BY <1>1, <1>2, <1>3 DEF Inv, Control, Building, NothingTaken, InObject

LEMMA StartExecuteInv ==
  ASSUME Inv, StartExecute
  PROVE  Inv' /\ BufferStep
<1>1. Buffer!IInv' /\ BufferStep
  BY BufferKept DEF Inv, StartExecute
<1>2. /\ Parser!Enter(method = "unpack") /\ buf_head < buf_tail
      /\ method \in {"unpack", "skip"} /\ pc = "loop" /\ ret = "more" /\ ~broken
      /\ pc' = "execute"
      /\ UNCHANGED <<buf, buf_tail, method, objStart, broken>>
  BY DEF StartExecute, Inv, Control, bufferVars
<1>3. stack # <<>> => (method = "unpack") = construct
  BY <1>2 DEF Inv, Control, Building, InObject
<1>4. Parser!Readable /\ buf_head # buf_tail
  BY <1>2, BufferReadable DEF Inv
<1>5. Parser!Parsing' /\ at' = "loop"
  BY <1>2, <1>3, <1>4, Parser!EnterParses DEF Inv
<1>6. construct' = (method = "unpack")
  BY <1>2 DEF Parser!Enter
<1>7. QED
  BY <1>1, <1>2, <1>5, <1>6
  DEF Inv, Control, Building, NothingTaken, Parser!Parsing

(* execute() consumed k bytes: it moved the head inside the waiting bytes. *)
LEMMA CountedInv ==
  ASSUME Buffer!IInv, Counted, buf_head' \in buf_head .. buf_tail
  PROVE  /\ Buffer!IInv' /\ BufferStep
         /\ UNCHANGED <<buf, buf_tail>>
         /\ buf_head' = buf_head => Taken' = Taken
<1> DEFINE k == buf_head' - buf_head
<1>1. Buffer!Execute(k)
  BY DEF Counted
<1>2. k \in 0 .. Buffer!Unread
  BY BufferReadable DEF Buffer!Unread
<1>3. Buffer!IInv'
  BY <1>1, <1>2, BufferSizes, Buffer!ExecuteIInv
<1>4. BufferStep
  BY <1>1, <1>2 DEF BufferStep, Buffer!Next
<1>5. /\ UNCHANGED <<buf, buf_tail>>
      /\ \/ stream_offset' = stream_offset + k /\ skipped' = skipped
         \/ stream_offset' = stream_offset /\ skipped' = skipped + k
  BY <1>1 DEF Buffer!Execute, Buffer!history
<1>6. stream_offset \in Nat /\ skipped \in Nat
  BY DEF Buffer!IInv, Buffer!TypeOK
<1>7. ASSUME buf_head' = buf_head PROVE Taken' = Taken
  <2>1. k = 0
    BY <1>7, BufferReadable
  <2> HIDE DEF k
  <2>2. QED
    BY <1>5, <1>6, <2>1 DEF Taken
<1>8. QED
  BY <1>3, <1>4, <1>5, <1>7

LEMMA ExecuteHeaderInv ==
  ASSUME Inv, ExecuteHeader
  PROVE  Inv' /\ BufferStep
<1>1. /\ pc = "loop" /\ buf_head < buf_tail /\ Counted /\ pc' = "check"
      /\ method \in {"read_array_header", "read_map_header"}
      /\ UNCHANGED <<method, objStart, broken>>
      /\ ~broken /\ ~InObject
  BY DEF ExecuteHeader, Inv, Control, Building
<1>2. Parser!Readable
  BY BufferReadable DEF Inv
<1>3. UNCHANGED <<buf, buf_tail>>
  BY <1>1, Zenon DEF Counted, Buffer!Execute
<1>4. PICK fixed, var : Parser!ContainerHeader(fixed, var)
  BY DEF ExecuteHeader, Parser!ReadArrayHeader, Parser!ReadMapHeader
<1>5. /\ buf_head' \in buf_head .. buf_tail /\ at' = "idle"
      /\ ret' # "object" => buf_head' = buf_head
      /\ UNCHANGED <<cs, trail, stack, construct>>
  BY <1>1, <1>2, <1>3, <1>4, Parser!HeaderReads
<1>6. Buffer!IInv' /\ BufferStep /\ (buf_head' = buf_head => Taken' = Taken)
  BY <1>1, <1>5, CountedInv DEF Inv
<1>7. Parser!StackTyped' /\ Parser!Parsing'
  BY <1>1, <1>5, ContextKept DEF Inv
<1>8. QED
  BY <1>1, <1>5, <1>6, <1>7 DEF Inv, Control, Building, NothingTaken, InObject

LEMMA ExecuteInv ==
  ASSUME Inv, Execute
  PROVE  Inv' /\ BufferStep
<1>1. /\ pc = "execute" /\ ~broken /\ Parser!Step
      /\ UNCHANGED <<method, objStart, broken>>
      /\ method \in {"unpack", "skip"} /\ Building
  BY DEF Execute, Inv, Control, Building
<1>2. IF at' = "idle" THEN Counted /\ pc' = "check" ELSE UNCHANGED <<bufferVars, pc>>
  BY DEF Execute
<1>3. UNCHANGED <<buf, buf_tail>>
  BY <1>2, Zenon DEF Counted, Buffer!Execute, bufferVars
<1>4. Parser!Settled /\ Parser!Parsing'
  BY <1>1, <1>3, UnpackerAssumption, BufferReadable, Parser!ParserStep DEF Inv
<1>5. construct' = construct
  BY <1>1, Zenon DEF Parser!Step
<1>6. Parser!StackTyped' /\ Building'
  BY <1>1, <1>4, <1>5 DEF Parser!Parsing, Building
<1>7. CASE at' = "idle"
  <2>1. Buffer!IInv' /\ BufferStep
    BY <1>2, <1>4, <1>7, CountedInv DEF Inv, Parser!Settled
  <2>2. ret' = "more" => InObject'
    BY <1>4, <1>7 DEF Parser!Settled, InObject
  <2>3. pc' = "check"
    BY <1>2, <1>7
  <2>4. QED
    BY <1>1, <1>4, <1>6, <1>7, <2>1, <2>2, <2>3 DEF Inv, Control, NothingTaken
<1>8. CASE at' # "idle"
  <2>1. pc' = "execute" /\ Buffer!IInv' /\ BufferStep
    BY <1>1, <1>2, <1>8, BufferKept DEF Inv
  <2>2. QED
    BY <1>1, <1>4, <1>6, <1>8, <2>1 DEF Inv, Control, NothingTaken
<1>9. QED
  BY <1>7, <1>8

LEMMA DeliverInv ==
  ASSUME Inv, Deliver
  PROVE  Inv' /\ BufferStep
<1>1. Buffer!IInv' /\ BufferStep /\ Taken' = Taken
  BY BufferKept DEF Inv, Deliver
<1>2. /\ pc = "check" /\ ~broken /\ Parser!ResetContext
      /\ pc' = "idle" /\ at' = "idle" /\ ret' = "more"
      /\ objStart' = Taken /\ UNCHANGED broken
  BY DEF Deliver, Leave, Inv, Control
<1>3. Parser!Parsing' /\ Parser!StackTyped' /\ ~InObject'
  BY <1>2, ContextReset
<1>4. QED
  BY <1>1, <1>2, <1>3 DEF Inv, Control

LEMMA ReadMoreInv ==
  ASSUME Inv, ReadMore
  PROVE  Inv' /\ BufferStep
<1>1. Buffer!IInv' /\ BufferStep
  BY BufferSizes, Buffer!ReadFromFileIInv
  DEF ReadMore, Inv, BufferStep, Buffer!Next
<1>2. Taken' = Taken /\ (outcome' = "ok" => lost' = lost)
  BY Zenon DEF ReadMore, Buffer!ReadFromFile, Buffer!EndOfFile, Buffer!Raise,
               Buffer!history, Taken
<1>3. /\ pc = "check" /\ ~broken /\ at = "idle" /\ ret = "more"
      /\ at' = "idle" /\ ret' = "more"
      /\ pc' = IF outcome' = "ok" THEN "loop" ELSE "idle"
      /\ broken' = (lost' # lost)
      /\ UNCHANGED <<cs, trail, stack, construct, method, objStart>>
  BY DEF ReadMore, Leave, Inv, Control
<1>4. Parser!StackTyped' /\ Parser!Parsing'
  BY <1>3, ContextKept DEF Inv
<1>5. broken' => pc' = "idle"
  BY <1>2, <1>3
<1>6. QED
  BY <1>1, <1>2, <1>3, <1>4, <1>5 DEF Inv, Control, Building, NothingTaken, InObject

LEMMA ExhaustedInv ==
  ASSUME Inv, Exhausted
  PROVE  Inv' /\ BufferStep
<1>1. Buffer!IInv' /\ BufferStep /\ Taken' = Taken
  BY BufferKept DEF Inv, Exhausted
<1>2. /\ pc = "check" /\ ~broken /\ at = "idle" /\ ret = "more"
      /\ pc' = "idle" /\ at' = "idle" /\ ret' = "more"
      /\ UNCHANGED <<cs, trail, stack, construct, method, objStart, broken>>
  BY DEF Exhausted, Leave, Inv, Control
<1>3. Parser!StackTyped' /\ Parser!Parsing'
  BY <1>2, ContextKept DEF Inv
<1>4. QED
  BY <1>1, <1>2, <1>3 DEF Inv, Control, Building, NothingTaken, InObject

(* A header reader is not called inside an object, so what it leaves behind *)
(* is the empty context it found.                                          *)
LEMMA RejectInv ==
  ASSUME Inv, Reject
  PROVE  Inv' /\ BufferStep
<1>1. Buffer!IInv' /\ BufferStep /\ Taken' = Taken
  BY BufferKept DEF Inv, Reject
<1>2. /\ pc = "check" /\ ~broken /\ at = "idle" /\ ret \notin {"object", "more"}
      /\ pc' = "idle" /\ at' = "idle" /\ ret' = "more"
      /\ broken' = (method \in {"unpack", "skip"})
      /\ UNCHANGED <<cs, trail, stack, construct, method, objStart>>
  BY DEF Reject, Leave, Inv, Control
<1>3. ~broken' => ~InObject
  BY <1>2 DEF Inv, Control, Building
<1>4. Parser!StackTyped' /\ (~broken' => Parser!Parsing')
  BY <1>2, <1>3, ContextKept DEF Inv
<1>5. QED
  BY <1>1, <1>2, <1>3, <1>4 DEF Inv, Control, Building, NothingTaken, InObject

LEMMA StutterInv ==
  ASSUME Inv, UNCHANGED vars
  PROVE  Inv' /\ BufferStep
<1>1. /\ UNCHANGED bufferVars
      /\ UNCHANGED <<buf, buf_tail, buf_head, cs, trail, stack, at, construct, p,
                     obj, ret, pc, method, objStart, broken>>
  BY DEF vars, bufferVars, parserVars, callVars
<1>2. Buffer!IInv' /\ BufferStep /\ Taken' = Taken
  BY <1>1, BufferKept DEF Inv
<1>3. Parser!StackTyped'
  BY <1>1, Parser!StackKept DEF Inv
<1>4. ~broken => Parser!Parsing'
  BY <1>1, BufferReadable, Parser!StutterParses DEF Inv
<1>5. QED
  BY <1>1, <1>2, <1>3, <1>4 DEF Inv, Control, Building, NothingTaken, InObject

-------------------------------------------------------------------------------
LEMMA InitInv == Init => Inv
<1> SUFFICES ASSUME Init PROVE Inv
  OBVIOUS
<1>1. Buffer!IInv
  BY BufferSizes, Buffer!InitIInv DEF Init
<1>2. Parser!Parsing /\ Parser!StackTyped
  <2>1. Parser!Parsing
    BY UnpackerAssumption, Parser!InitParses DEF Init
  <2>2. QED
    BY <2>1 DEF Parser!Parsing
<1>3. Taken = objStart
  BY DEF Init, Buffer!Init, Taken
<1>4. ~InObject
  BY DEF Init, Parser!InitContext, InObject
<1>5. QED
  BY <1>1, <1>2, <1>3, <1>4 DEF Init, Inv, Control

LEMMA NextInv == Inv /\ [Next]_vars => Inv' /\ BufferStep
<1> SUFFICES ASSUME Inv, [Next]_vars PROVE Inv' /\ BufferStep
  OBVIOUS
<1>1. CASE Feed
  BY <1>1, FeedInv
<1>2. ASSUME NEW n \in 0 .. MaxWanted, ReadBytes(n) PROVE Inv' /\ BufferStep
  BY <1>2, ReadBytesInv
<1>3. ASSUME NEW m \in Methods, Call(m) PROVE Inv' /\ BufferStep
  BY <1>3, CallInv
<1>4. CASE Unpacking
  BY <1>4, NothingToExecuteInv, StartExecuteInv, ExecuteHeaderInv, ExecuteInv,
     DeliverInv, ReadMoreInv, ExhaustedInv, RejectInv DEF Unpacking
<1>5. CASE Abandoned \/ UNCHANGED vars
  BY <1>5, StutterInv DEF Abandoned
<1>6. QED
  BY <1>1, <1>2, <1>3, <1>4, <1>5 DEF Next

LEMMA AlwaysInv == Spec => []Inv
<1>1. Inv /\ [Next]_vars => Inv'
  BY NextInv
<1>2. QED
  BY InitInv, <1>1, PTL DEF Spec

(* The parser takes no more than the buffer holds, so the waiting bytes     *)
(* stay those that follow the ones taken, however the input is cut and     *)
(* wherever the parser stops.                                              *)
THEOREM HeadFollowsParserAlways == Spec => []HeadFollowsParser
<1>1. Inv => HeadFollowsParser
  BY DEF Inv, Buffer!IInv, HeadFollowsParser
<1>2. QED
  BY <1>1, AlwaysInv, PTL

(* The open containers a call finds are those the last one left, each with *)
(* the items it counted.                                                   *)
THEOREM FramesAlways == Spec => []Frames
<1>1. ASSUME Inv PROVE Frames
  <2>1. Len(stack) <= EmbedStackSize
    BY <1>1 DEF Inv, Parser!StackTyped, Parser!top
  <2>2. ~(broken \/ ret = "raised") => Parser!FramesOK
    BY <1>1 DEF Inv, Parser!Parsing
  <2>3. QED
    BY <2>1, <2>2 DEF Frames
<1>2. QED
  BY <1>1, AlwaysInv, PTL

(* Between objects tell() is the start of the next: every way of not       *)
(* getting an object leaves nothing taken, or leaves the context inside it. *)
THEOREM TellAlways == Spec => []TellBetweenObjects
<1>1. Inv => TellBetweenObjects
  BY DEF Inv, NothingTaken, Taken, TellBetweenObjects
<1>2. QED
  BY <1>1, AlwaysInv, PTL

(* What the Unpacker does to its buffer is what UnpackBuffer allows: the    *)
(* parser is one of the runs that module abstracts to Execute.             *)
THEOREM UnpackerUsesBuffer == Spec => Buffer!Spec
<1>1. Init => Buffer!Init
  BY DEF Init
<1>2. Inv /\ [Next]_vars => [Buffer!Next]_(Buffer!vars)
  BY NextInv DEF BufferStep
<1>3. QED
  BY <1>1, <1>2, AlwaysInv, PTL DEF Spec, Buffer!Spec

(* So the Unpacker as a whole implements the stream of bytes: what the      *)
(* parser and read_bytes() are handed is the input, in order.              *)
THEOREM UnpackerImplementsStream == Spec => Buffer!StreamSpec
BY UnpackerUsesBuffer, BufferSizes, Buffer!BufferImplementsStream, PTL

-------------------------------------------------------------------------------
(* A read that does not raise brings bytes or the end of the file.         *)
LEMMA FileGives ==
  ASSUME Buffer!IInv, Buffer!ReadFromFile
  PROVE  \/ Len(received') > Len(received)
         \/ file_like = "open" /\ file_like' = "none"
         \/ outcome' # "ok" /\ UNCHANGED <<received, file_like>>
<1>1. received \in Seq(0 .. 255)
  BY DEF Buffer!IInv, Buffer!TypeOK
<1>2. ASSUME NEW c \in Chunks, Len(c) >= 1, received' = received \o c
      PROVE  Len(received') > Len(received)
  <2>1. c \in Seq(0 .. 255)
    BY ChunksAreBytes
  <2>2. QED
    BY <1>1, <1>2, <2>1
<1>3. CASE \E c \in Chunks :
             /\ Len(c) \in 1 .. Buffer!Least(Buffer!ReadSize, Buffer!Remains)
             /\ IF outcome' = "ok" THEN received' = received \o c
                                   ELSE UNCHANGED received
             /\ UNCHANGED file_like
  BY <1>2, <1>3
<1>4. CASE Buffer!EndOfFile
  BY <1>4 DEF Buffer!ReadFromFile, Buffer!EndOfFile
<1>5. CASE \E r \in {"BufferFull", "IOError"} :
             Buffer!Raise(r) /\ UNCHANGED <<file_like, received>>
  BY <1>5 DEF Buffer!Raise
<1>6. \/ \E c \in Chunks :
            /\ Len(c) \in 1 .. Buffer!Least(Buffer!ReadSize, Buffer!Remains)
            /\ IF outcome' = "ok" THEN received' = received \o c
                                  ELSE UNCHANGED received
            /\ UNCHANGED file_like
      \/ Buffer!EndOfFile
      \/ \E r \in {"BufferFull", "IOError"} :
            Buffer!Raise(r) /\ UNCHANGED <<file_like, received>>
  BY Zenon DEF Buffer!ReadFromFile, Buffer!history
<1>7. QED
  BY <1>3, <1>4, <1>5, <1>6

(* The parser goes forward inside a call, as it does in unpackb().         *)
LEMMA ParserAdvances ==
  ASSUME Inv, Execute
  PROVE  Parser!Advances
<1>1. Parser!Step /\ ~broken
  BY DEF Execute, Inv, Control
<1>2. UNCHANGED <<buf, buf_tail>>
  BY Zenon DEF Execute, Counted, Buffer!Execute, bufferVars
<1>3. construct' = construct
  BY <1>1, ExecuteInv, Zenon DEF Parser!Step
<1>4. Parser!Stepping
  BY <1>1, <1>2, <1>3, UnpackerAssumption, BufferReadable
  DEF Parser!Stepping, Inv
<1>5. QED
  BY <1>1, <1>4, Parser!ParserGoes DEF Parser!Goes

(* The loop of _unpack() never comes back to where it was: a call goes on   *)
(* only while the parser moves and the file still gives something.         *)
THEOREM CallAdvancesAlways == Spec => CallAdvances
<1> DEFINE Same == UNCHANGED <<received, file_like>>
           Forward ==
             pc # "idle" =>
               \/ Len(received') > Len(received)
               \/ file_like = "open" /\ file_like' = "none"
               \/ Same /\ (Stage' < Stage \/ (Stage' = Stage /\ Parser!Advances))
<1>1. ASSUME Inv, Unpacking PROVE Forward
  <2>1. CASE NothingToExecute \/ StartExecute
    <3>1. Same
      BY <2>1 DEF NothingToExecute, StartExecute, bufferVars
    <3>2. pc = "loop" /\ pc' \in {"execute", "check"}
      BY <2>1 DEF NothingToExecute, StartExecute
    <3>3. QED
      BY <3>1, <3>2 DEF Stage
  <2>2. CASE ExecuteHeader
    <3>1. Same
      BY <2>2, Zenon DEF ExecuteHeader, Counted, Buffer!Execute, Buffer!history
    <3>2. pc = "loop" /\ pc' = "check"
      BY <2>2 DEF ExecuteHeader
    <3>3. QED
      BY <3>1, <3>2 DEF Stage
  <2>3. CASE Execute
    <3>1. Same
      BY <2>3, Zenon DEF Execute, Counted, Buffer!Execute, Buffer!history, bufferVars
    <3>2. pc = "execute" /\ pc' \in {"execute", "check"}
      BY <2>3 DEF Execute
    <3>3. QED
      BY <1>1, <2>3, <3>1, <3>2, ParserAdvances DEF Stage
  <2>4. CASE Deliver \/ Exhausted \/ Reject
    <3>1. Same
      BY <2>4 DEF Deliver, Exhausted, Reject, bufferVars
    <3>2. pc = "check" /\ pc' = "idle"
      BY <2>4 DEF Deliver, Exhausted, Reject, Leave
    <3>3. QED
      BY <3>1, <3>2 DEF Stage
  <2>5. CASE ReadMore
    <3>1. pc = "check" /\ (outcome' # "ok" => pc' = "idle")
      BY <2>5 DEF ReadMore, Leave
    <3>2. QED
      BY <1>1, <2>5, <3>1, FileGives DEF Inv, ReadMore, Stage
  <2>6. QED
    BY <1>1, <2>1, <2>2, <2>3, <2>4, <2>5 DEF Unpacking
<1>2. ASSUME Inv, [Next]_vars PROVE [Forward]_vars
  <2>1. CASE Feed \/ (\E n \in 0 .. MaxWanted : ReadBytes(n))
             \/ (\E m \in Methods : Call(m)) \/ Abandoned
    BY <2>1 DEF Feed, ReadBytes, Call, Abandoned, Usable
  <2>2. QED
    BY <1>1, <1>2, <2>1 DEF Next
<1>3. Inv /\ [Next]_vars => [Forward]_vars
  BY <1>2
<1>4. QED
  BY AlwaysInv, <1>3, PTL DEF Spec, CallAdvances

-------------------------------------------------------------------------------
(* WaitingParser runs UnpackExecute on the stream, the Unpacker runs it on *)
(* its buffer: what does not look at the bytes is the same in both.        *)
LEMMA SameCodes ==
  /\ Waiting!Null = Parser!Null /\ Waiting!Fail = Parser!Fail
  /\ Waiting!Malformed = Parser!Malformed
  /\ Waiting!CS_HEADER = Parser!CS_HEADER
  /\ Waiting!CS_BIN = Parser!CS_BIN /\ Waiting!CS_EXT = Parser!CS_EXT
  /\ Waiting!CS_FLOAT = Parser!CS_FLOAT /\ Waiting!CS_UINT = Parser!CS_UINT
  /\ Waiting!CS_INT = Parser!CS_INT /\ Waiting!CS_RAW = Parser!CS_RAW
  /\ Waiting!CS_ARRAY = Parser!CS_ARRAY /\ Waiting!CS_MAP = Parser!CS_MAP
  /\ Waiting!ACS_RAW_VALUE = Parser!ACS_RAW_VALUE
  /\ Waiting!ACS_BIN_VALUE = Parser!ACS_BIN_VALUE
  /\ Waiting!ACS_EXT_VALUE = Parser!ACS_EXT_VALUE
BY Zenon
DEF Waiting!Null, Parser!Null, Waiting!Fail, Parser!Fail,
   Waiting!Malformed, Parser!Malformed, Waiting!CS_HEADER, Parser!CS_HEADER,
   Waiting!CS_BIN, Parser!CS_BIN,
   Waiting!CS_EXT, Parser!CS_EXT, Waiting!CS_FLOAT, Parser!CS_FLOAT,
   Waiting!CS_UINT, Parser!CS_UINT, Waiting!CS_INT, Parser!CS_INT,
   Waiting!CS_RAW, Parser!CS_RAW, Waiting!CS_ARRAY, Parser!CS_ARRAY,
   Waiting!CS_MAP, Parser!CS_MAP, Waiting!ACS_RAW_VALUE, Parser!ACS_RAW_VALUE,
   Waiting!ACS_BIN_VALUE, Parser!ACS_BIN_VALUE,
   Waiting!ACS_EXT_VALUE, Parser!ACS_EXT_VALUE

LEMMA SameLengths ==
  /\ Waiting!Huge = Parser!Huge
  /\ \A b : Waiting!Length(b) = Parser!Length(b)
  /\ \A b : Waiting!ExtTrail(b) = Parser!ExtTrail(b)
<1>1. Waiting!Huge = Parser!Huge
  BY SMT DEF Waiting!Huge, Parser!Huge
<1>2. \A b : Waiting!Length(b) = Parser!Length(b)
  BY <1>1, Zenon DEF Waiting!Length, Parser!Length
<1>3. \A b : Waiting!ExtTrail(b) = Parser!ExtTrail(b)
  BY <1>1, <1>2, Zenon DEF Waiting!ExtTrail, Parser!ExtTrail
<1>4. QED
  BY <1>1, <1>2, <1>3

LEMMA SameNumbers ==
  /\ \A b : Waiting!Unsigned(b) = Parser!Unsigned(b)
  /\ \A b : Waiting!Signed(b) = Parser!Signed(b)
<1>1. \A b : Waiting!Shortest(b) = Parser!Shortest(b)
  BY Zenon
  DEF Waiting!Shortest, Parser!Shortest, Waiting!Redundant, Parser!Redundant
<1>2. QED
  BY <1>1, Zenon
  DEF Waiting!Unsigned, Parser!Unsigned, Waiting!Signed, Parser!Signed

LEMMA SamePayload ==
  \A acs, b : Waiting!Payload(acs, b) = Parser!Payload(acs, b)
<1>1. \A s, n : Waiting!Timestamp(s, n) = Parser!Timestamp(s, n)
  BY SMT, SameCodes DEF Waiting!Timestamp, Parser!Timestamp
<1>2. \A b : Waiting!TimestampFromBytes(b) = Parser!TimestampFromBytes(b)
  BY <1>1, SameCodes, SameNumbers, SameLengths, Zenon
  DEF Waiting!TimestampFromBytes, Parser!TimestampFromBytes
<1>3. \A c, b : Waiting!Extension(c, b) = Parser!Extension(c, b)
  BY <1>2, SameCodes, Zenon DEF Waiting!Extension, Parser!Extension
<1>4. \A r, b : Waiting!Text(r, b) = Parser!Text(r, b)
  BY SameCodes, Zenon DEF Waiting!Text, Parser!Text
<1>5. \A b : /\ Waiting!Raw(b) = Parser!Raw(b)
             /\ Waiting!Bin(b) = Parser!Bin(b)
             /\ Waiting!Ext(b) = Parser!Ext(b)
  BY <1>3, <1>4, SameCodes, Zenon
  DEF Waiting!Raw, Parser!Raw, Waiting!Bin, Parser!Bin, Waiting!Ext, Parser!Ext
<1>6. QED
  BY <1>5, SameCodes, Zenon DEF Waiting!Payload, Parser!Payload

LEMMA SameCallbacks ==
  /\ \A v : Waiting!Built(v) = Parser!Built(v)
  /\ \A h, v : Waiting!Hooked(h, v) = Parser!Hooked(h, v)
  /\ \A b : Waiting!Number(b) = Parser!Number(b)
  /\ \A ct : Waiting!Empty(ct) = Parser!Empty(ct)
  /\ \A ct : Waiting!EndHook(ct) = Parser!EndHook(ct)
  /\ \A ct : Waiting!CountLimit(ct) = Parser!CountLimit(ct)
<1>1. \A v : Waiting!Built(v) = Parser!Built(v)
  BY SameCodes, Zenon DEF Waiting!Built, Parser!Built
<1>2. \A h, v : Waiting!Hooked(h, v) = Parser!Hooked(h, v)
  BY <1>1, SameCodes, Zenon DEF Waiting!Hooked, Parser!Hooked
<1>3. \A b : Waiting!Number(b) = Parser!Number(b)
  BY SameNumbers, SameCodes, Zenon DEF Waiting!Number, Parser!Number
<1>4. QED
  BY <1>1, <1>2, <1>3, Zenon
  DEF Waiting!Empty, Parser!Empty, Waiting!EndHook, Parser!EndHook,
      Waiting!CountLimit, Parser!CountLimit

LEMMA SameHeaders ==
  /\ \A b : Waiting!Immediate(b) = Parser!Immediate(b)
  /\ \A b : Waiting!IsImmediate(b) <=> Parser!IsImmediate(b)
  /\ \A b : Waiting!IsLong(b) <=> Parser!IsLong(b)
  /\ \A b : Waiting!Next_(b) = Parser!Next_(b)
<1>1. \A b : Waiting!Immediate(b) = Parser!Immediate(b)
  BY SameNumbers, Zenon DEF Waiting!Immediate, Parser!Immediate
<1>2. \A b : Waiting!Next_(b) = Parser!Next_(b)
  BY SameCodes, Zenon
  DEF Waiting!Next_, Parser!Next_, Waiting!NEXT_CS, Parser!NEXT_CS
<1>3. QED
  BY <1>1, <1>2, Zenon
  DEF Waiting!IsImmediate, Parser!IsImmediate, Waiting!IsLong, Parser!IsLong

LEMMA SameFrames ==
  /\ Waiting!top = Parser!top /\ Waiting!frame = Parser!frame
  /\ Waiting!StackFull <=> Parser!StackFull
  /\ Waiting!Extended = Parser!Extended /\ Waiting!Filled = Parser!Filled
  /\ \A f : Waiting!WithTop(f) = Parser!WithTop(f)
  /\ Waiting!Last <=> Parser!Last
<1>1. Waiting!top = Parser!top
  BY Zenon DEF Waiting!top, Parser!top
<1>2. Waiting!frame = Parser!frame
  BY <1>1, Zenon DEF Waiting!frame, Parser!frame
<1>3. \A o, k, v : Waiting!MapItem(o, k, v) = Parser!MapItem(o, k, v)
  BY SameCodes, Zenon
  DEF Waiting!MapItem, Parser!MapItem, Waiting!StrictKey, Parser!StrictKey,
      Waiting!Hashable, Parser!Hashable, Waiting!WithItem, Parser!WithItem
<1>4. Waiting!Extended = Parser!Extended
  BY <1>2, <1>3, Zenon
  DEF Waiting!Extended, Parser!Extended, Waiting!ArrayItem, Parser!ArrayItem
<1>5. Waiting!Filled = Parser!Filled
  BY <1>2, <1>4, SameCallbacks, Zenon DEF Waiting!Filled, Parser!Filled
<1>6. QED
  BY <1>1, <1>2, <1>4, <1>5, Zenon
  DEF Waiting!StackFull, Parser!StackFull, Waiting!WithTop, Parser!WithTop,
      Waiting!Last, Parser!Last

-------------------------------------------------------------------------------
(* Where a position in the buffer is in the stream. *)
Shifted(x) == Taken + (x - buf_head)

(* A step of the parser: what it does to the positions. *)
Moving ==
  /\ at \in {"loop", "push"} /\ ret = "more" /\ ~broken /\ ~broken'
  /\ UNCHANGED <<buf, buf_tail, received, objStart>>
  /\ IF at' = "idle" THEN Taken' = Taken + (buf_head' - buf_head)
                     ELSE UNCHANGED <<buf_head, Taken>>
  /\ Taken \in Nat /\ buf_head \in Nat /\ buf_tail \in Nat /\ Len(received) \in Nat
  /\ Len(received) - Taken = buf_tail - buf_head
  /\ \A i \in 0 .. (buf_tail - buf_head) - 1 :
       buf[buf_head + i] = received[Taken + i + 1]

(* The mapping of the positions before and after the step. *)
LEMMA BeforeMove ==
  ASSUME Moving
  PROVE  /\ StreamAt = at /\ StreamStart = objStart /\ StreamPos = Shifted(p)
         /\ UNCHANGED <<StreamBytes, StreamEnd>>
BY DEF Moving, StreamAt, StreamStart, StreamPos, Shifted, Paused, StreamBytes, StreamEnd

LEMMA AfterMove ==
  ASSUME Moving
  PROVE  /\ at' # "idle" =>
              StreamAt' = at' /\ StreamStart' = objStart /\ StreamPos' = Shifted(p')
         /\ at' = "idle" =>
              /\ StreamPos' = Shifted(buf_head')
              /\ ret' # "more" => StreamAt' = "idle" /\ StreamStart' = Shifted(buf_head')
              /\ ret' = "more" /\ InObject' =>
                   StreamAt' = "loop" /\ StreamStart' = objStart
BY DEF Moving, StreamAt, StreamStart, StreamPos, Shifted, Paused

(* The ways a step ends are the same at the shifted position, but for one: *)
(* where the parser returns to wait for a header byte, the other goes on   *)
(* and waits there.                                                        *)
LEMMA ReturnShifts ==
  ASSUME Moving, NEW r, r # "more", NEW x, Parser!Return(r, x)
  PROVE  Waiting!Return(r, Shifted(x))
BY AfterMove DEF Parser!Return, Waiting!Return

LEMMA HeaderAgainShifts ==
  ASSUME Moving, NEW x \in buf_head .. buf_tail - 1, Parser!HeaderAgain(x),
         stack' # <<>>
  PROVE  Waiting!HeaderAgain(Shifted(x))
<1>1. /\ x + 1 \in Int /\ Shifted(x + 1) = Shifted(x) + 1
      /\ Shifted(x) + 1 # StreamEnd
  BY DEF Moving, Shifted, StreamEnd
<1>2. cs' = Waiting!CS_HEADER /\ InObject' /\ ret' = "more"
  BY SameCodes DEF Parser!HeaderAgain, Parser!Return, InObject, Moving
<1>3. StreamAt' = "loop" /\ StreamPos' = Shifted(x) + 1 /\ StreamStart' = objStart
  <2>1. CASE x + 1 = buf_tail
    BY <1>1, <1>2, <2>1, AfterMove DEF Parser!HeaderAgain, Parser!Return
  <2>2. CASE x + 1 # buf_tail
    BY <1>1, <1>2, <2>2, AfterMove DEF Parser!HeaderAgain
  <2>3. QED
    BY <2>1, <2>2
<1>4. StreamStart = objStart /\ ret = "more"
  BY BeforeMove DEF Moving
<1>5. QED
  BY <1>1, <1>2, <1>3, <1>4, Zenon DEF Waiting!HeaderAgain

LEMMA PushShifts ==
  ASSUME Moving, NEW x, NEW v, Parser!Push(v, x)
  PROVE  Waiting!Push(v, Shifted(x))
<1> Parser!Fail # Parser!Malformed
  BY DEF Parser!Fail, Parser!Malformed
<1>1. CASE v = Parser!Fail
  BY <1>1, ReturnShifts, SameCodes DEF Parser!Push, Waiting!Push
<1>2. CASE v = Parser!Malformed
  BY <1>2, ReturnShifts, SameCodes DEF Parser!Push, Waiting!Push
<1>3. CASE v # Parser!Fail /\ v # Parser!Malformed
  BY <1>3, BeforeMove, AfterMove, SameCodes DEF Parser!Push, Waiting!Push
<1>4. QED
  BY <1>1, <1>2, <1>3

LEMMA AgainShifts ==
  ASSUME Moving, at = "loop", NEW acs, NEW count, NEW x \in Int,
         Parser!Again(acs, count, x)
  PROVE  Waiting!Again(acs, count, Shifted(x))
<1>1. CASE count = 0
  BY <1>1, PushShifts, SamePayload, SameCallbacks DEF Parser!Again, Waiting!Again
<1>2. CASE count # 0
  <2>1. Shifted(x + 1) = Shifted(x) + 1
    BY DEF Shifted, Moving
  <2>2. QED
    BY <1>2, <2>1, BeforeMove, AfterMove DEF Parser!Again, Waiting!Again
<1>3. QED
  BY <1>1, <1>2

LEMMA ContainerShifts ==
  ASSUME Moving, Parser!Stepping, NEW ct, NEW count, NEW x \in buf_head .. buf_tail - 1,
         Parser!StartContainer(ct, count, x)
  PROVE  Waiting!StartContainer(ct, count, Shifted(x))
<1>1. CASE Parser!StackFull
  BY <1>1, ReturnShifts, SameFrames DEF Parser!StartContainer, Waiting!StartContainer
<1>2. CASE ~Parser!StackFull /\ construct /\ count > Parser!CountLimit(ct)
  BY <1>2, ReturnShifts, SameFrames, SameCallbacks
  DEF Parser!StartContainer, Waiting!StartContainer
<1>3. CASE ~Parser!StackFull /\ ~(construct /\ count > Parser!CountLimit(ct))
  <2>1. ASSUME NEW f PROVE Append(stack, f) # <<>>
    <3> DEFINE S == {stack[i] : i \in DOMAIN stack}
    <3>1. stack \in Seq(S)
      BY DEF Parser!Stepping, Parser!Parsing, Parser!StackTyped, Parser!IsSeq
    <3> HIDE DEF S
    <3>2. Len(Append(stack, f)) = Len(stack) + 1 /\ Len(stack) \in Nat
      BY <3>1
    <3>3. Len(<<>>) = 0
      OBVIOUS
    <3>4. QED
      BY <3>2, <3>3
  <2>2. QED
    BY <1>3, <2>1, PushShifts, HeaderAgainShifts, SameFrames, SameCallbacks, SameCodes
    DEF Parser!StartContainer, Waiting!StartContainer
<1>4. QED
  BY <1>1, <1>2, <1>3

(* Both read the same bytes. *)
LEMMA ByteShifts ==
  ASSUME Moving, NEW x \in buf_head .. buf_tail - 1
  PROVE  StreamBytes[Shifted(x)] = buf[x]
<1> DEFINE i == x - buf_head
<1>1. i \in 0 .. (buf_tail - buf_head) - 1 /\ buf_head + i = x
  BY DEF Moving
<1>2. buf[x] = received[Taken + i + 1]
  BY <1>1 DEF Moving
<1>3. Taken + i \in 0 .. Len(received) - 1
  BY <1>1 DEF Moving
<1>4. QED
  BY <1>2, <1>3 DEF StreamBytes, Shifted

LEMMA HereShifts ==
  ASSUME Moving, Parser!Stepping, at = "loop", cs = Parser!CS_HEADER
  PROVE  /\ Waiting!here = Parser!here /\ p \in buf_head .. buf_tail - 1
         /\ StreamPos + Waiting!Needed <= Waiting!arrived
<1>1. p \in buf_head .. buf_tail - 1
  BY Parser!InLoop
<1>2. Waiting!here = Parser!here
  BY <1>1, BeforeMove, ByteShifts DEF Waiting!here, Parser!here
<1>3. Waiting!Needed = 1 /\ StreamPos = Shifted(p) /\ Waiting!arrived = Len(received)
  BY BeforeMove, SameCodes DEF Waiting!Needed, Waiting!arrived, StreamEnd, Moving
<1>4. QED
  BY <1>1, <1>2, <1>3 DEF Shifted, Moving

LEMMA TrailShifts ==
  ASSUME Moving, Parser!Stepping, Parser!AtTrail, Parser!Complete
  PROVE  /\ Waiting!AtTrail /\ Waiting!Complete
         /\ Waiting!n = Parser!n /\ Waiting!q = Shifted(Parser!q)
         /\ Parser!q \in buf_head .. buf_tail - 1
         /\ StreamPos + Waiting!Needed <= Waiting!arrived
<1>1. /\ p \in buf_head .. buf_tail /\ trail \in Nat \ {0} /\ p + trail <= buf_tail
      /\ at = "loop" /\ cs # Parser!CS_HEADER
      /\ buf_head \in Nat /\ buf_tail \in Nat
  BY Parser!InLoop DEF Parser!AtTrail, Parser!Complete
<1>2. /\ StreamPos = Shifted(p) /\ StreamAt = "loop"
      /\ Waiting!Needed = trail /\ Waiting!arrived = Len(received)
      /\ StreamEnd = Len(received) + 1
  BY <1>1, BeforeMove, SameCodes DEF Waiting!Needed, Waiting!arrived, StreamEnd, Moving
<1>3. Shifted(p) \in Nat /\ Shifted(p) + trail <= Len(received)
  BY <1>1 DEF Shifted, Moving
<1>4. ASSUME NEW i \in 1 .. trail
      PROVE  StreamBytes[StreamPos + i - 1] = buf[p + i - 1]
  <2>1. p + i - 1 \in buf_head .. buf_tail - 1
        /\ Shifted(p + i - 1) = Shifted(p) + i - 1
    BY <1>1 DEF Shifted, Moving
  <2>2. QED
    BY <1>2, <2>1, ByteShifts
<1>5. Waiting!n = Parser!n
  BY <1>4, Zenon DEF Waiting!n, Parser!n
<1>6. Waiting!q = Shifted(Parser!q)
  BY <1>1, <1>2 DEF Waiting!q, Parser!q, Shifted, Moving
<1>7. Parser!q \in buf_head .. buf_tail - 1
  BY <1>1 DEF Parser!q
<1>8. Waiting!AtTrail /\ Waiting!Complete
  BY <1>1, <1>2, <1>3, SameCodes DEF Waiting!AtTrail, Waiting!Complete
<1>9. QED
  BY <1>2, <1>3, <1>5, <1>6, <1>7, <1>8

-------------------------------------------------------------------------------
(* The waiting parser takes the step. *)
Parsed == /\ StreamAt = "loop" => StreamPos + Waiting!Needed <= Waiting!arrived
          /\ Waiting!Step

LEMMA HeaderShifts ==
  ASSUME Moving, Parser!Stepping, UNCHANGED <<root, construct>>,
         \/ Parser!HeaderImmediate \/ Parser!HeaderLong
         \/ Parser!HeaderContainer \/ Parser!HeaderNeverUsed
  PROVE  Parsed
<1>1. Parser!AtHeader
  BY DEF Parser!HeaderImmediate, Parser!HeaderLong, Parser!HeaderContainer,
         Parser!HeaderNeverUsed
<1>2. /\ at = "loop" /\ Waiting!here = Parser!here /\ p \in buf_head .. buf_tail - 1
      /\ StreamPos + Waiting!Needed <= Waiting!arrived
      /\ Waiting!AtHeader /\ StreamPos = Shifted(p)
  BY <1>1, HereShifts, BeforeMove, SameCodes DEF Parser!AtHeader, Waiting!AtHeader
<1>3. CASE Parser!HeaderImmediate
  <2>1. Waiting!HeaderImmediate
    BY <1>2, <1>3, PushShifts, SameHeaders, SameCallbacks
    DEF Parser!HeaderImmediate, Waiting!HeaderImmediate
  <2>2. QED
    BY <1>2, <2>1 DEF Parsed, Waiting!Step
<1>4. CASE Parser!HeaderLong
  <2>1. p \in Int
    BY <1>2 DEF Moving
  <2>2. Waiting!HeaderLong
    BY <1>2, <1>4, <2>1, AgainShifts, SameHeaders
    DEF Parser!HeaderLong, Waiting!HeaderLong
  <2>3. QED
    BY <1>2, <2>2 DEF Parsed, Waiting!Step
<1>5. CASE Parser!HeaderContainer
  <2>1. Waiting!HeaderContainer
    BY <1>2, <1>5, ContainerShifts
    DEF Parser!HeaderContainer, Waiting!HeaderContainer
  <2>2. QED
    BY <1>2, <2>1 DEF Parsed, Waiting!Step
<1>6. CASE Parser!HeaderNeverUsed
  <2>1. Waiting!HeaderNeverUsed
    BY <1>2, <1>6, ReturnShifts
    DEF Parser!HeaderNeverUsed, Waiting!HeaderNeverUsed
  <2>2. QED
    BY <1>2, <2>1 DEF Parsed, Waiting!Step
<1>7. QED
  BY <1>3, <1>4, <1>5, <1>6

LEMMA CompleteShifts ==
  ASSUME Moving, Parser!Stepping, UNCHANGED <<root, construct>>,
         \/ Parser!TrailLength \/ Parser!TrailNumber \/ Parser!TrailPayload
         \/ Parser!TrailContainer
  PROVE  Parsed
<1>1. Parser!AtTrail /\ Parser!Complete
  BY DEF Parser!TrailLength, Parser!TrailNumber, Parser!TrailPayload,
         Parser!TrailContainer
<1>2. /\ Waiting!AtTrail /\ Waiting!Complete
      /\ Waiting!n = Parser!n /\ Waiting!q = Shifted(Parser!q)
      /\ Parser!q \in buf_head .. buf_tail - 1
      /\ StreamPos + Waiting!Needed <= Waiting!arrived
      /\ at = "loop"
  BY <1>1, TrailShifts DEF Parser!AtTrail
<1>3. CASE Parser!TrailLength
  <2>1. Parser!q \in Int
    BY <1>2 DEF Moving
  <2>2. ASSUME NEW acs, NEW count, Parser!Again(acs, count, Parser!q)
        PROVE  Waiting!Again(acs, count, Waiting!q)
    BY <1>2, <2>1, <2>2, AgainShifts
  <2>3. Waiting!TrailLength
    BY <1>2, <1>3, <2>2, SameLengths, SameCodes, Zenon
    DEF Parser!TrailLength, Waiting!TrailLength
  <2>4. QED
    BY <1>2, <2>3 DEF Parsed, Waiting!Step
<1>4. CASE Parser!TrailNumber
  <2>1. Waiting!TrailNumber
    BY <1>2, <1>4, PushShifts, SameCodes, SameCallbacks
    DEF Parser!TrailNumber, Waiting!TrailNumber
  <2>2. QED
    BY <1>2, <2>1 DEF Parsed, Waiting!Step
<1>5. CASE Parser!TrailPayload
  <2>1. Waiting!TrailPayload
    BY <1>2, <1>5, PushShifts, SameCodes, SamePayload, SameCallbacks
    DEF Parser!TrailPayload, Waiting!TrailPayload
  <2>2. QED
    BY <1>2, <2>1 DEF Parsed, Waiting!Step
<1>6. CASE Parser!TrailContainer
  <2>1. ASSUME NEW ct, NEW count, Parser!StartContainer(ct, count, Parser!q)
        PROVE  Waiting!StartContainer(ct, count, Waiting!q)
    BY <1>2, <2>1, ContainerShifts
  <2>2. Waiting!TrailContainer
    BY <1>2, <1>6, <2>1, SameLengths, SameCodes, Zenon
    DEF Parser!TrailContainer, Waiting!TrailContainer
  <2>3. QED
    BY <1>2, <2>2 DEF Parsed, Waiting!Step
<1>7. QED
  BY <1>3, <1>4, <1>5, <1>6

(* Replacing the innermost frame leaves one. *)
LEMMA TopStays ==
  ASSUME Parser!Stepping, Parser!top > 0, NEW f
  PROVE  Parser!WithTop(f) # <<>>
<1> DEFINE S == {stack[i] : i \in DOMAIN stack}
<1>1. stack \in Seq(S) /\ Len(stack) > 0
  BY DEF Parser!Stepping, Parser!Parsing, Parser!StackTyped, Parser!IsSeq, Parser!top
<1> HIDE DEF S
<1>2. Parser!WithTop(f) \in Seq(S \cup {f}) /\ Len(Parser!WithTop(f)) = Len(stack)
  BY <1>1 DEF Parser!WithTop, Parser!top
<1>3. QED
  BY <1>1, <1>2

LEMMA DeliveryShifts ==
  ASSUME Moving, Parser!Stepping, UNCHANGED construct,
         \/ /\ Parser!PushKey \/ Parser!PushRefused \/ Parser!PushItem \/ Parser!PushLast
            /\ UNCHANGED root
         \/ Parser!PushRoot
  PROVE  Parsed
<1>1. Parser!AtPush
  BY DEF Parser!PushKey, Parser!PushRefused, Parser!PushItem, Parser!PushLast,
         Parser!PushRoot
<1>2. /\ at = "push" /\ p \in buf_head .. buf_tail - 1 /\ p \in Int
      /\ Waiting!AtPush /\ StreamAt = "push" /\ StreamPos = Shifted(p)
  BY <1>1, Parser!AtInnermost, BeforeMove DEF Parser!AtPush, Waiting!AtPush, Moving
<1>3. CASE Parser!PushKey /\ UNCHANGED root
  <2>1. Waiting!HeaderAgain(StreamPos)
    BY <1>2, <1>3, TopStays, HeaderAgainShifts DEF Parser!PushKey
  <2>2. Waiting!PushKey
    BY <1>2, <1>3, <2>1, SameFrames, SameCodes, Zenon DEF Parser!PushKey, Waiting!PushKey
  <2>3. QED
    BY <1>2, <1>3, <2>2 DEF Parsed, Waiting!Step
<1>4. CASE Parser!PushRefused /\ UNCHANGED root
  <2>1. Waiting!PushRefused
    BY <1>2, <1>4, ReturnShifts, SameFrames, SameCallbacks, SameCodes
    DEF Parser!PushRefused, Waiting!PushRefused
  <2>2. QED
    BY <1>2, <1>4, <2>1 DEF Parsed, Waiting!Step
<1>5. CASE Parser!PushItem /\ UNCHANGED root
  <2>1. Waiting!HeaderAgain(StreamPos)
    BY <1>2, <1>5, TopStays, HeaderAgainShifts DEF Parser!PushItem
  <2>2. Waiting!PushItem
    BY <1>2, <1>5, <2>1, SameFrames, SameCallbacks, SameCodes, Zenon
    DEF Parser!PushItem, Waiting!PushItem
  <2>3. QED
    BY <1>2, <1>5, <2>2 DEF Parsed, Waiting!Step
<1>6. CASE Parser!PushLast /\ UNCHANGED root
  <2>1. \A v : Parser!Push(v, p) => Waiting!Push(v, StreamPos)
    BY <1>2, PushShifts
  <2>2. Waiting!PushLast
    BY <1>2, <1>6, <2>1, SameFrames, SameCallbacks, SameCodes, Zenon
    DEF Parser!PushLast, Waiting!PushLast
  <2>3. QED
    BY <1>2, <1>6, <2>2 DEF Parsed, Waiting!Step
<1>7. CASE Parser!PushRoot
  <2>1. Shifted(p + 1) = StreamPos + 1
    BY <1>2 DEF Shifted, Moving
  <2>2. Waiting!Return("object", StreamPos + 1)
    BY <1>7, <2>1, ReturnShifts DEF Parser!PushRoot
  <2>3. Waiting!PushRoot
    BY <1>2, <1>7, <2>2, SameFrames DEF Parser!PushRoot, Waiting!PushRoot
  <2>4. QED
    BY <1>2, <2>3 DEF Parsed, Waiting!Step
<1>8. QED
  BY <1>3, <1>4, <1>5, <1>6, <1>7

-------------------------------------------------------------------------------
(* Running out of bytes inside an object: the parser waits where it is.    *)
LEMMA ShortShifts ==
  ASSUME Moving, Parser!TrailShort
  PROVE  UNCHANGED <<StreamAt, StreamStart, StreamPos, cs, trail, stack, obj, ret>>
<1>1. /\ at = "loop" /\ cs # Parser!CS_HEADER
      /\ Parser!Return("more", p) /\ UNCHANGED <<cs, trail, stack, obj>>
  BY DEF Parser!TrailShort, Parser!AtTrail
<1>2. ret = "more" /\ at' = "idle" /\ ret' = "more" /\ buf_head' = p
  BY <1>1 DEF Moving, Parser!Return
<1>3. InObject'
  BY <1>1 DEF InObject
<1>4. QED
  BY <1>1, <1>2, <1>3, BeforeMove, AfterMove

(* When the parser stops, the bytes it waits for have not come. *)
LEMMA StopStarves ==
  ASSUME Moving, Parser!Settled, Parser!Stops, Parser!Parsing',
         at' = "idle", ret' = "more"
  PROVE  Waiting!Starved'
<1>1. InObject' /\ buf_head' \in Int /\ buf_head' + Parser!Needed' > buf_tail
  BY DEF Parser!Settled, Parser!Stops, InObject, Moving
<1>2. StreamAt' = "loop" /\ StreamPos' = Shifted(buf_head')
  BY <1>1, AfterMove
<1>3. Waiting!Needed' = Parser!Needed' /\ Parser!Needed' \in Int
  <2>1. Parser!TrailOK'
    BY DEF Parser!Parsing, Parser!Waits
  <2>2. QED
    BY <2>1, SameCodes
    DEF Waiting!Needed, Parser!Needed, Parser!TrailOK, Parser!WaitsFor
<1>4. StreamPos' + Waiting!Needed' > Waiting!arrived'
  <2>1. Waiting!arrived' = Len(received)
    BY BeforeMove DEF Waiting!arrived, StreamEnd, Moving
  <2>2. Shifted(buf_head') + Parser!Needed' > Len(received)
    BY <1>1, <1>3 DEF Shifted, Moving
  <2>3. QED
    BY <1>2, <1>3, <2>1, <2>2
<1>5. QED
  BY <1>2, <1>4 DEF Waiting!Starved

-------------------------------------------------------------------------------
(* What the mapping needs besides Inv: no object is in hand between runs of *)
(* the parser, and a call gives up only where the bytes have not come.     *)
WInv ==
  /\ Inv
  /\ broken \in BOOLEAN
  /\ Parser!Forgotten
  /\ pc = "check" /\ ret = "more" => Waiting!Starved

(* What Counted does to the number of bytes taken.                         *)
LEMMA CountedTakes ==
  ASSUME Buffer!IInv, Counted, buf_head' \in buf_head .. buf_tail
  PROVE  /\ Taken' = Taken + (buf_head' - buf_head)
         /\ UNCHANGED <<buf, buf_tail, received>>
<1> DEFINE k == buf_head' - buf_head
<1>1. Buffer!Execute(k)
  BY DEF Counted
<1>2. k \in Nat /\ stream_offset \in Nat /\ skipped \in Nat
  <2>1. k \in Nat
    BY BufferReadable
  <2>2. QED
    BY <2>1 DEF Buffer!IInv, Buffer!TypeOK
<1>3. /\ UNCHANGED <<buf, buf_tail, received>>
      /\ \/ stream_offset' = stream_offset + k /\ skipped' = skipped
         \/ stream_offset' = stream_offset /\ skipped' = skipped + k
  BY <1>1 DEF Buffer!Execute, Buffer!history
<1> HIDE DEF k
<1>4. Taken' = Taken + k
  BY <1>2, <1>3 DEF Taken
<1>5. QED
  BY <1>3, <1>4 DEF k

(* A step of the parser, here and there. *)
LEMMA ExecuteWaits ==
  ASSUME WInv, Execute
  PROVE  WInv' /\ [Waiting!Next]_(Waiting!vars)
<1>1. Inv' /\ Inv
  BY ExecuteInv DEF WInv
<1>2. /\ pc = "execute" /\ ~broken /\ Parser!Step
      /\ UNCHANGED <<method, answer, objStart, broken, input, user>>
      /\ method \in {"unpack", "skip"} /\ at \in {"loop", "push"} /\ ret = "more"
  BY Zenon DEF Execute, WInv, Inv, Control, Building, Parser!Parsing, Parser!Position
<1>3. IF at' = "idle" THEN Counted /\ pc' = "check" ELSE UNCHANGED <<bufferVars, pc>>
  BY DEF Execute
<1>4. UNCHANGED <<buf, buf_tail>>
  BY <1>3, Zenon DEF Counted, Buffer!Execute, bufferVars
<1>5. Parser!Stepping
  BY <1>1, <1>2, <1>4, UnpackerAssumption, BufferReadable
  DEF Parser!Stepping, Parser!Step, Inv
<1>6. Parser!Settled /\ Parser!Parsing'
  BY <1>1, <1>2, <1>4, UnpackerAssumption, BufferReadable, Parser!ParserStep DEF Inv
<1>7. Parser!Goes
  BY <1>2, <1>5, Parser!ParserGoes
<1>8. Moving
  <2>1. CASE at' = "idle"
    BY <1>1, <1>2, <1>3, <1>6, <2>1, BufferIsStream, CountedTakes
    DEF Moving, Inv, Parser!Settled
  <2>2. CASE at' # "idle"
    BY <1>1, <1>2, <1>3, <2>2, BufferIsStream DEF Moving, Inv, bufferVars, Taken
  <2>3. QED
    BY <2>1, <2>2
<1>9. WInv'
  <2>1. Parser!Forgotten'
    BY <1>7 DEF WInv, Parser!Goes
  <2>2. pc' = "check" => at' = "idle"
    BY <1>2, <1>3
  <2>3. pc' = "check" /\ ret' = "more" => Waiting!Starved'
    BY <1>6, <1>7, <1>8, <2>2, StopStarves DEF Parser!Goes
  <2>4. QED
    BY <1>1, <1>2, <2>1, <2>3 DEF WInv
<1>10. CASE Parsed
  <2>1. UNCHANGED <<StreamBytes, StreamEnd, user, method, answer, broken>>
    BY <1>2, <1>8, BeforeMove
  <2>2. Waiting!Parse
    BY <1>10, <2>1 DEF Waiting!Parse, Parsed
  <2>3. QED
    BY <1>9, <2>2 DEF Waiting!Next
<1>11. CASE Parser!TrailShort /\ UNCHANGED <<root, construct>>
  <2>1. UNCHANGED Waiting!vars
    BY <1>2, <1>8, <1>11, BeforeMove, ShortShifts
    DEF Waiting!vars, Waiting!ctx, Waiting!local
  <2>2. QED
    BY <1>9, <2>1
<1>12. Parsed \/ (Parser!TrailShort /\ UNCHANGED <<root, construct>>)
  BY <1>2, <1>5, <1>8, HeaderShifts, CompleteShifts, DeliveryShifts DEF Parser!Step
<1>13. QED
  BY <1>9, <1>10, <1>11, <1>12

-------------------------------------------------------------------------------
(* Between two runs of the parser.                                         *)
LEMMA StreamIdle ==
  /\ at = "idle" =>
       /\ StreamPos = Taken
       /\ Paused => StreamAt = "loop" /\ StreamStart = objStart
       /\ ~Paused => StreamAt = "idle" /\ StreamStart = Taken
  /\ at' = "idle" =>
       /\ StreamPos' = Taken'
       /\ Paused' => StreamAt' = "loop" /\ StreamStart' = objStart'
       /\ ~Paused' => StreamAt' = "idle" /\ StreamStart' = Taken'
BY DEF StreamPos, StreamAt, StreamStart, Paused

(* What has arrived stays. *)
LEMMA StreamGrows ==
  ASSUME received \in Seq(0 .. 255),
         \/ received' = received
         \/ \E c \in Chunks : received' = received \o c
  PROVE  Waiting!Grow
<1>1. Waiting!arrived = Len(received) /\ Len(received) \in Nat
  BY DEF Waiting!arrived, StreamEnd
<1>2. /\ Len(received') >= Len(received) /\ Len(received') \in Nat
      /\ \A i \in 1 .. Len(received) : received'[i] = received[i]
  <2>1. CASE received' = received
    BY <1>1, <2>1
  <2>2. ASSUME NEW c \in Chunks, received' = received \o c
        PROVE  /\ Len(received') >= Len(received) /\ Len(received') \in Nat
               /\ \A i \in 1 .. Len(received) : received'[i] = received[i]
    <3>1. c \in Seq(0 .. 255)
      BY ChunksAreBytes
    <3>2. QED
      BY <2>2, <3>1
  <2>3. QED
    BY <2>1, <2>2
<1>3. StreamEnd' >= StreamEnd
  BY <1>1, <1>2 DEF StreamEnd
<1>4. ASSUME NEW i \in 0 .. Waiting!arrived - 1
      PROVE  StreamBytes'[i] = StreamBytes[i]
  <2>1. i \in 0 .. Len(received) - 1 /\ i \in 0 .. Len(received') - 1
        /\ i + 1 \in 1 .. Len(received)
    BY <1>1, <1>2
  <2>2. QED
    BY <1>2, <2>1 DEF StreamBytes
<1>5. QED
  BY <1>3, <1>4 DEF Waiting!Grow

(* The steps of the caller and of _unpack(). *)
LEMMA FeedWaits ==
  ASSUME WInv, Feed
  PROVE  WInv' /\ [Waiting!Next]_(Waiting!vars)
<1>1. Inv /\ Inv' /\ Parser!Forgotten
  BY FeedInv DEF WInv
<1>2. PICK c \in Chunks : Buffer!Feed(c)
  BY DEF Feed
<1>3. Taken' = Taken
  BY <1>2 DEF Buffer!Feed, Taken
<1>4. /\ pc = "idle" /\ at = "idle"
      /\ UNCHANGED <<cs, trail, stack, root, at, construct, p, obj, ret, pc,
                     method, answer, objStart, broken, user>>
  BY Zenon DEF Feed, Usable, WInv, Inv, Control, parserVars, callVars
<1>5. WInv'
  BY <1>1, <1>4 DEF WInv, Parser!Forgotten
<1>6. Paused' = Paused
  BY <1>4 DEF Paused, InObject
<1>7. UNCHANGED <<StreamAt, StreamStart, StreamPos>>
  BY <1>3, <1>4, <1>6, StreamIdle
<1>8. received \in Seq(0 .. 255)
  BY <1>1 DEF Inv, Buffer!IInv, Buffer!TypeOK
<1>9. Waiting!Grow
  BY <1>2, <1>8, StreamGrows DEF Buffer!Feed
<1>10. Waiting!Arrive
  BY <1>4, <1>7, <1>9 DEF Waiting!Arrive, Waiting!ctx, Waiting!local
<1>11. QED
  BY <1>5, <1>10 DEF Waiting!Next

LEMMA CallWaits ==
  ASSUME WInv, NEW m \in Methods, Call(m)
  PROVE  WInv' /\ [Waiting!Next]_(Waiting!vars)
<1>1. Inv /\ Inv' /\ Parser!Forgotten
  BY CallInv DEF WInv
<1>2. /\ pc = "idle" /\ at = "idle" /\ ~broken /\ pc' = "loop"
      /\ (InObject => m = method) /\ method' = m /\ answer' = <<"none">>
      /\ UNCHANGED <<bufferVars, cs, trail, stack, root, at, construct, p, obj,
                     ret, objStart, broken, user>>
  BY Zenon DEF Call, Usable, WInv, Inv, Control, parserVars
<1>3. WInv'
  BY <1>1, <1>2 DEF WInv, Parser!Forgotten
<1>4. Paused' = Paused /\ Taken' = Taken /\ received' = received
  BY <1>2 DEF Paused, InObject, Taken, bufferVars
<1>5. UNCHANGED <<StreamBytes, StreamEnd, StreamAt, StreamStart, StreamPos>>
  BY <1>2, <1>4, StreamIdle DEF StreamBytes, StreamEnd
<1>6. InObject <=> Waiting!InObject
  BY SameCodes DEF InObject, Waiting!InObject
<1>7. Waiting!Begin
  BY <1>2, <1>5, <1>6
  DEF Waiting!Begin, Waiting!ctx, Waiting!local, Methods, Waiting!Methods
<1>8. QED
  BY <1>3, <1>7 DEF Waiting!Next

LEMMA NothingToExecuteWaits ==
  ASSUME WInv, NothingToExecute
  PROVE  WInv' /\ [Waiting!Next]_(Waiting!vars)
<1>1. Inv /\ Inv' /\ Parser!Forgotten
  BY NothingToExecuteInv DEF WInv
<1>2. /\ pc = "loop" /\ at = "idle" /\ ~broken /\ ret = "more" /\ ret' = "more"
      /\ buf_head >= buf_tail
      /\ UNCHANGED <<bufferVars, cs, trail, stack, root, at, construct, p, obj,
                     method, answer, objStart, broken, user>>
  BY Zenon DEF NothingToExecute, WInv, Inv, Control
<1>3. Paused' = Paused /\ Taken' = Taken /\ received' = received
  BY <1>2 DEF Paused, InObject, Taken, bufferVars
<1>4. UNCHANGED <<StreamBytes, StreamEnd, StreamAt, StreamStart, StreamPos>>
  BY <1>2, <1>3, StreamIdle DEF StreamBytes, StreamEnd
<1>5. Taken = Len(received) /\ Taken \in Nat
  BY <1>1, <1>2, BufferIsStream DEF Inv
<1>6. Waiting!Starved
  <2>1. CASE Paused
    <3>1. Parser!TrailOK
      BY <1>1, <1>2, <2>1 DEF Inv, Parser!Parsing, Parser!Waits
    <3>2. Waiting!Needed \in Nat \ {0}
      BY <3>1, SameCodes DEF Waiting!Needed, Parser!TrailOK, Parser!WaitsFor
    <3>3. QED
      BY <1>2, <1>5, <2>1, <3>2, StreamIdle
      DEF Waiting!Starved, Waiting!arrived, StreamEnd
  <2>2. CASE ~Paused
    BY <1>2, <1>5, <2>2, StreamIdle DEF Waiting!Starved, Waiting!arrived, StreamEnd
  <2>3. QED
    BY <2>1, <2>2
<1>7. Waiting!Starved'
  BY <1>2, <1>4, <1>6
  DEF Waiting!Starved, Waiting!Needed, Waiting!arrived, Waiting!HeaderNeeds
<1>8. WInv'
  BY <1>1, <1>2, <1>7 DEF WInv, Parser!Forgotten
<1>9. UNCHANGED Waiting!vars
  BY <1>2, <1>4 DEF Waiting!vars, Waiting!ctx, Waiting!local
<1>10. QED
  BY <1>8, <1>9

LEMMA StartExecuteWaits ==
  ASSUME WInv, StartExecute
  PROVE  WInv' /\ [Waiting!Next]_(Waiting!vars)
<1>1. Inv /\ Inv' /\ Parser!Forgotten
  BY StartExecuteInv DEF WInv
<1>2. /\ pc = "loop" /\ at = "idle" /\ ~broken /\ ret = "more"
      /\ buf_head < buf_tail /\ method \in {"unpack", "skip"} /\ pc' = "execute"
      /\ Parser!Enter(method = "unpack")
      /\ UNCHANGED <<bufferVars, method, answer, objStart, broken, user>>
  BY Zenon DEF StartExecute, WInv, Inv, Control
<1>3. /\ Taken \in Nat /\ Len(received) \in Nat /\ buf_head \in Nat /\ buf_tail \in Nat
      /\ Taken < Len(received)
  BY <1>1, <1>2, BufferIsStream DEF Inv
<1>4. /\ at' = "loop" /\ p' = buf_head /\ construct' = (method = "unpack")
      /\ obj' = Parser!Null /\ ret' = ret
      /\ UNCHANGED <<cs, trail, stack, root>>
  BY <1>2, <1>3 DEF Parser!Enter, Parser!ctx
<1>5. /\ Taken' = Taken /\ received' = received /\ buf_head' = buf_head
  BY <1>2 DEF Taken, bufferVars
<1>6. /\ StreamAt' = "loop" /\ StreamStart' = objStart /\ StreamPos' = Taken
      /\ UNCHANGED <<StreamBytes, StreamEnd>>
  BY <1>2, <1>3, <1>4, <1>5
  DEF StreamAt, StreamStart, StreamPos, StreamBytes, StreamEnd
<1>7. WInv'
  BY <1>1, <1>2, <1>4 DEF WInv, Parser!Forgotten
<1>8. CASE InObject
  <2>1. Paused
    BY <1>2, <1>8 DEF Paused
  <2>2. UNCHANGED <<StreamAt, StreamStart, StreamPos>>
    BY <1>2, <1>6, <2>1, StreamIdle
  <2>3. obj' = obj /\ construct' = construct
    BY <1>1, <1>2, <1>4, <1>8 DEF Parser!Forgotten, Inv, Control, Building
  <2>4. UNCHANGED Waiting!vars
    BY <1>2, <1>4, <1>6, <2>2, <2>3 DEF Waiting!vars, Waiting!ctx, Waiting!local
  <2>5. QED
    BY <1>7, <2>4
<1>9. CASE ~InObject
  <2>1. /\ StreamAt = "idle" /\ StreamStart = Taken /\ StreamPos = Taken
    BY <1>2, <1>9, StreamIdle DEF Paused
  <2>2. Taken = objStart
    BY <1>1, <1>2, <1>9 DEF Inv, NothingTaken
  <2>3. StreamStart # StreamEnd
    BY <1>3, <2>1 DEF StreamEnd
  <2>4. Waiting!Enter(method = "unpack") /\ StreamStart' = StreamStart
    BY <1>4, <1>6, <2>1, <2>2, <2>3, SameCodes DEF Waiting!Enter, Waiting!ctx
  <2>5. Waiting!Start
    BY <1>2, <1>6, <1>9, <2>4, SameCodes
    DEF Waiting!Start, Waiting!Builders, Waiting!InObject, InObject
  <2>6. QED
    BY <1>7, <2>5 DEF Waiting!Next
<1>10. QED
  BY <1>8, <1>9

(* The ends of a call. *)
LEMMA DeliverWaits ==
  ASSUME WInv, Deliver
  PROVE  WInv' /\ [Waiting!Next]_(Waiting!vars)
<1>1. Inv /\ Inv' /\ Parser!Forgotten
  BY DeliverInv DEF WInv
<1>2. /\ pc = "check" /\ at = "idle" /\ ~broken /\ ret = "object"
      /\ pc' = "idle" /\ at' = "idle" /\ p' = 0 /\ obj' = Parser!Null /\ ret' = "more"
      /\ Parser!ResetContext /\ answer' = <<"returned", root>>
      /\ UNCHANGED <<bufferVars, construct, method, broken, user>>
  BY DEF Deliver, Leave, WInv, Inv, Control
<1>3. ~Paused /\ ~Paused' /\ Taken' = Taken /\ received' = received
  BY <1>2 DEF Paused, InObject, Taken, bufferVars, Parser!ResetContext
<1>4. /\ StreamAt = "idle"
      /\ UNCHANGED <<StreamBytes, StreamEnd, StreamAt, StreamStart, StreamPos>>
  BY <1>2, <1>3, StreamIdle DEF StreamBytes, StreamEnd
<1>5. Waiting!ResetContext
  BY <1>2, SameCodes DEF Parser!ResetContext, Waiting!ResetContext
<1>6. Waiting!Deliver
  BY <1>2, <1>4, <1>5, SameCodes DEF Waiting!Deliver, Waiting!Forget
<1>7. WInv'
  BY <1>1, <1>2 DEF WInv, Parser!Forgotten
<1>8. QED
  BY <1>6, <1>7 DEF Waiting!Next

LEMMA ExhaustedWaits ==
  ASSUME WInv, Exhausted
  PROVE  WInv' /\ [Waiting!Next]_(Waiting!vars)
<1>1. Inv /\ Inv' /\ Parser!Forgotten
  BY ExhaustedInv DEF WInv
<1>2. /\ pc = "check" /\ at = "idle" /\ ~broken /\ ret = "more"
      /\ pc' = "idle" /\ at' = "idle" /\ p' = 0 /\ obj' = Parser!Null /\ ret' = "more"
      /\ answer' = <<"OutOfData">>
      /\ UNCHANGED <<bufferVars, cs, trail, stack, root, construct, method, broken, user>>
  BY DEF Exhausted, Leave, WInv, Inv, Control
<1>3. Paused' = Paused /\ Taken' = Taken /\ received' = received
  BY <1>2 DEF Paused, InObject, Taken, bufferVars
<1>4. UNCHANGED <<StreamBytes, StreamEnd, StreamAt, StreamStart, StreamPos>>
  <2>1. objStart' = objStart
    BY DEF Exhausted
  <2>2. QED
    BY <1>2, <1>3, <2>1, StreamIdle DEF StreamBytes, StreamEnd
<1>5. obj' = obj /\ Waiting!Starved
  BY <1>1, <1>2 DEF WInv, Parser!Forgotten
<1>6. Waiting!Exhausted
  BY <1>2, <1>4, <1>5 DEF Waiting!Exhausted, Waiting!ctx, Waiting!local
<1>7. WInv'
  BY <1>1, <1>2 DEF WInv, Parser!Forgotten
<1>8. QED
  BY <1>6, <1>7 DEF Waiting!Next

LEMMA RejectWaits ==
  ASSUME WInv, Reject
  PROVE  WInv' /\ [Waiting!Next]_(Waiting!vars)
<1>1. Inv /\ Inv' /\ Parser!Forgotten
  BY RejectInv DEF WInv
<1>2. /\ pc = "check" /\ at = "idle" /\ ~broken /\ ret \notin {"object", "more"}
      /\ pc' = "idle" /\ at' = "idle" /\ p' = 0 /\ obj' = Parser!Null /\ ret' = "more"
      /\ answer' = <<"error">> /\ broken' = (method \in {"unpack", "skip"})
      /\ UNCHANGED <<bufferVars, cs, trail, stack, root, construct, method, user>>
  BY DEF Reject, Leave, WInv, Inv, Control
<1>3. ~broken' => ~InObject'
  BY <1>1, <1>2 DEF Inv, Control, Building, InObject
<1>4. ~Paused /\ ~Paused' /\ Taken' = Taken /\ received' = received
  BY <1>2, <1>3 DEF Paused, InObject, Taken, bufferVars
<1>5. /\ StreamAt = "idle"
      /\ UNCHANGED <<StreamBytes, StreamEnd, StreamAt, StreamStart, StreamPos>>
  BY <1>2, <1>4, StreamIdle DEF StreamBytes, StreamEnd
<1>6. Waiting!Reject
  BY <1>2, <1>5, SameCodes
  DEF Waiting!Reject, Waiting!Forget, Waiting!Builders, Waiting!ctx
<1>7. WInv'
  BY <1>1, <1>2 DEF WInv, Parser!Forgotten
<1>8. QED
  BY <1>6, <1>7 DEF Waiting!Next

(* What a read of the file does to the stream.                             *)
LEMMA ReadFromFileStream ==
  ASSUME Buffer!ReadFromFile
  PROVE  /\ UNCHANGED <<stream_offset, skipped>>
         /\ outcome' # "ok" => received' = received
         /\ outcome' = "ok" => lost' = lost
         /\ \/ received' = received
            \/ \E c \in Chunks : received' = received \o c
BY Zenon DEF Buffer!ReadFromFile, Buffer!EndOfFile, Buffer!Raise, Buffer!history

LEMMA ReadMoreWaits ==
  ASSUME WInv, ReadMore
  PROVE  WInv' /\ [Waiting!Next]_(Waiting!vars)
<1>1. Inv /\ Inv' /\ Parser!Forgotten
  BY ReadMoreInv DEF WInv
<1>2. /\ pc = "check" /\ at = "idle" /\ ~broken /\ ret = "more"
      /\ broken' = (lost' # lost) /\ Buffer!ReadFromFile
      /\ UNCHANGED <<cs, trail, stack, root, method, objStart, user>>
  BY DEF ReadMore, WInv, Inv, Control
<1>3. IF outcome' = "ok"
        THEN pc' = "loop" /\ UNCHANGED <<at, construct, p, obj, ret, answer>>
        ELSE Leave /\ answer' = <<"interrupted">>
  BY DEF ReadMore
<1>4. obj = Parser!Null /\ broken = FALSE
  BY <1>1, <1>2 DEF Parser!Forgotten, WInv
<1>5. /\ pc' \in {"loop", "idle"}
      /\ UNCHANGED <<at, construct, obj, ret>>
  BY <1>2, <1>3, <1>4 DEF Leave
<1>6. Taken' = Taken
  BY <1>2, ReadFromFileStream DEF Taken
<1>7. WInv'
  BY <1>1, <1>2, <1>5 DEF WInv, Parser!Forgotten
<1>8. StreamPos' = StreamPos /\ StreamPos = Taken
  BY <1>2, <1>5, <1>6, StreamIdle
<1>9. CASE outcome' = "ok"
  <2>1. Paused' = Paused
    BY <1>2, <1>5, <1>9, ReadFromFileStream DEF Paused, InObject
  <2>2. UNCHANGED <<StreamAt, StreamStart>>
    BY <1>2, <1>5, <1>6, <2>1, StreamIdle
  <2>3. received \in Seq(0 .. 255)
    BY <1>1 DEF Inv, Buffer!IInv, Buffer!TypeOK
  <2>4. Waiting!Grow
    <3>1. \/ received' = received
          \/ \E c \in Chunks : received' = received \o c
      BY <1>2, ReadFromFileStream, Zenon
    <3>2. QED
      BY <2>3, <3>1, StreamGrows
  <2>5. broken' = broken
    BY <1>2, <1>4, <1>9, ReadFromFileStream
  <2>6. Waiting!Arrive
    BY <1>2, <1>3, <1>5, <1>8, <1>9, <2>2, <2>4, <2>5
    DEF Waiting!Arrive, Waiting!ctx, Waiting!local
  <2>7. QED
    BY <1>7, <2>6 DEF Waiting!Next
<1>10. CASE outcome' # "ok"
  <2>1. answer' = <<"interrupted">> /\ received' = received
    BY <1>2, <1>3, <1>10, ReadFromFileStream
  <2>2. UNCHANGED <<StreamBytes, StreamEnd>>
    BY <2>1 DEF StreamBytes, StreamEnd
  <2>3. CASE broken'
    <3>1. StreamAt' = "idle" /\ StreamStart' = StreamPos
      BY <1>2, <1>5, <1>6, <1>8, <2>3, StreamIdle DEF Paused
    <3>2. Waiting!Interrupt
      BY <1>2, <1>5, <1>8, <2>1, <2>2, <2>3, <3>1 DEF Waiting!Interrupt, Waiting!ctx
    <3>3. QED
      BY <1>7, <3>2 DEF Waiting!Next
  <2>4. CASE ~broken'
    <3>1. Paused' = Paused /\ broken' = broken
      BY <1>2, <1>4, <1>5, <2>4 DEF Paused, InObject
    <3>2. UNCHANGED <<StreamAt, StreamStart>>
      BY <1>2, <1>5, <1>6, <3>1, StreamIdle
    <3>3. Waiting!Interrupt
      BY <1>2, <1>5, <1>8, <2>1, <2>2, <3>1, <3>2 DEF Waiting!Interrupt, Waiting!ctx
    <3>4. QED
      BY <1>7, <3>3 DEF Waiting!Next
  <2>5. QED
    BY <2>3, <2>4
<1>11. QED
  BY <1>9, <1>10

LEMMA StutterWaits ==
  ASSUME WInv, UNCHANGED vars
  PROVE  WInv' /\ [Waiting!Next]_(Waiting!vars)
<1>1. Inv' /\ UNCHANGED <<bufferVars, parserVars, callVars>>
  BY StutterInv DEF WInv, vars
<1>2. /\ UNCHANGED <<bufferVars, cs, trail, stack, root, at, construct, p, obj,
                     ret, pc, method, answer, objStart, broken, input, user>>
  BY <1>1, Zenon DEF parserVars, callVars
<1>3. Taken' = Taken /\ received' = received /\ buf_head' = buf_head /\ Paused' = Paused
  BY <1>2 DEF Taken, bufferVars, Paused, InObject
<1>4. UNCHANGED <<StreamBytes, StreamEnd, StreamAt, StreamStart, StreamPos>>
  BY <1>2, <1>3 DEF StreamBytes, StreamEnd, StreamAt, StreamStart, StreamPos
<1>5. UNCHANGED Waiting!vars
  BY <1>2, <1>4 DEF Waiting!vars, Waiting!ctx, Waiting!local
<1>6. pc' = "check" /\ ret' = "more" => Waiting!Starved'
  BY <1>2, <1>4
  DEF WInv, Waiting!Starved, Waiting!Needed, Waiting!arrived, Waiting!HeaderNeeds
<1>7. WInv'
  BY <1>1, <1>2, <1>6 DEF WInv, Parser!Forgotten
<1>8. QED
  BY <1>5, <1>7

LEMMA InitWaits == Init => WInv /\ Waiting!Init
<1> SUFFICES ASSUME Init PROVE WInv /\ Waiting!Init
  OBVIOUS
<1>1. Inv
  BY InitInv
<1>2. /\ stream_offset = 0 /\ skipped = 0 /\ received = <<>>
      /\ Parser!InitContext
      /\ at = "idle" /\ construct = TRUE /\ p = 0 /\ obj = Parser!Null /\ ret = "more"
      /\ pc = "idle" /\ method = "unpack" /\ answer = <<"none">> /\ broken = FALSE
  BY Zenon DEF Init, Buffer!Init
<1>3. WInv
  BY <1>1, <1>2 DEF WInv, Parser!Forgotten
<1>4. Taken = 0 /\ Len(received) = 0 /\ ~Paused
  BY <1>2 DEF Taken, Paused, InObject, Parser!InitContext
<1>5. /\ StreamAt = "idle" /\ StreamStart = 0 /\ StreamPos = 0
      /\ Waiting!arrived = 0
  BY <1>2, <1>4, StreamIdle DEF Waiting!arrived, StreamEnd
<1>6. Waiting!InitContext
  BY <1>2, SameCodes DEF Parser!InitContext, Waiting!InitContext
<1>7. Waiting!Init
  BY <1>2, <1>5, <1>6, SameCodes DEF Waiting!Init
<1>8. QED
  BY <1>3, <1>7

-------------------------------------------------------------------------------
(* What read_bytes() hands over is the next bytes of the stream.           *)
LEMMA ReadBytesTakes ==
  ASSUME Buffer!IInv, NEW nbytes \in Nat, Buffer!ReadBytes(nbytes)
  PROVE  /\ Waiting!Grow
         /\ Taken \in Nat /\ Taken' \in Taken .. Len(received')
         /\ outcome' = "ok" =>
              result' = [i \in 1 .. Taken' - Taken |-> received'[Taken + i]]
<1> DEFINE nread == Buffer!Least(Buffer!Unread, nbytes)
<1>1. /\ Taken \in Nat /\ buf_head \in Nat /\ buf_tail \in Nat
      /\ Len(received) \in Nat
      /\ Len(received) - Taken = buf_tail - buf_head
      /\ buf_head <= buf_tail
      /\ \A i \in 0 .. (buf_tail - buf_head) - 1 :
           buf[buf_head + i] = received[Taken + i + 1]
  BY BufferIsStream
<1>2. received \in Seq(0 .. 255) /\ stream_offset \in Nat /\ skipped \in Nat
  BY DEF Buffer!IInv, Buffer!TypeOK
<1>3. /\ nread \in 0 .. buf_tail - buf_head
      /\ nread < nbytes => nread = buf_tail - buf_head
  BY <1>1 DEF Buffer!Least, Buffer!Unread
<1> DEFINE w == Buffer!Waiting(nread)
<1>4. /\ w = [i \in 1 .. nread |-> received[Taken + i]]
      /\ w \in Seq(0 .. 255) /\ Len(w) = nread
  <2>1. ASSUME NEW i \in 1 .. nread
        PROVE  buf[buf_head + i - 1] = received[Taken + i]
    <3>1. i - 1 \in 0 .. (buf_tail - buf_head) - 1
      BY <1>1, <1>3
    <3>2. buf[buf_head + (i - 1)] = received[Taken + (i - 1) + 1]
      BY <1>1, <3>1
    <3>3. buf_head + (i - 1) = buf_head + i - 1 /\ Taken + (i - 1) + 1 = Taken + i
      BY <1>1, <1>3
    <3>4. QED
      BY <3>2, <3>3
  <2>2. w = [i \in 1 .. nread |-> received[Taken + i]]
    BY <2>1 DEF Buffer!Waiting
  <2>3. ASSUME NEW i \in 1 .. nread PROVE received[Taken + i] \in 0 .. 255
    <3>1. Taken + i \in 1 .. Len(received)
      BY <1>1, <1>3
    <3>2. QED
      BY <1>2, <3>1, ElementOfSeq
  <2>4. nread \in Nat
    BY <1>1, <1>3
  <2> HIDE DEF nread, w
  <2>5. w \in [1 .. nread -> 0 .. 255]
    BY <2>2, <2>3
  <2>6. QED
    BY <2>2, <2>4, <2>5
<1> HIDE DEF nread, w
<1>5. CASE /\ result' = w
           /\ stream_offset' = stream_offset + nread
           /\ UNCHANGED <<received, skipped>>
  <2>1. Taken' = Taken + nread
    BY <1>2, <1>3, <1>5 DEF Taken
  <2>2. Taken' - Taken = nread
    BY <1>1, <1>3, <2>1
  <2>3. Waiting!Grow
    BY <1>2, <1>5, StreamGrows
  <2>4. result' = [i \in 1 .. Taken' - Taken |-> received'[Taken + i]]
    BY <1>4, <1>5, <2>2
  <2>5. QED
    BY <1>1, <1>3, <1>5, <2>1, <2>3, <2>4
<1>6. ASSUME NEW c \in Chunks, nread < nbytes,
             received' = received \o c, result' = w \o c,
             stream_offset' = stream_offset + Len(result'), skipped' = skipped
      PROVE  /\ Waiting!Grow
             /\ Taken' \in Taken .. Len(received')
             /\ result' = [i \in 1 .. Taken' - Taken |-> received'[Taken + i]]
  <2>1. c \in Seq(0 .. 255) /\ Len(c) \in Nat
    BY ChunksAreBytes
  <2>2. /\ result' \in Seq(0 .. 255) /\ Len(result') = nread + Len(c)
        /\ \A i \in 1 .. nread : result'[i] = w[i]
        /\ \A i \in nread + 1 .. nread + Len(c) : result'[i] = c[i - nread]
    BY <1>3, <1>4, <1>6, <2>1
  <2>3. /\ Len(received') = Len(received) + Len(c)
        /\ \A i \in 1 .. Len(received) : received'[i] = received[i]
        /\ \A i \in Len(received) + 1 .. Len(received) + Len(c) :
             received'[i] = c[i - Len(received)]
    BY <1>2, <1>6, <2>1
  <2>4. Len(received) = Taken + nread
    BY <1>1, <1>3, <1>6
  <2>5. Taken' = Taken + (nread + Len(c)) /\ Taken' - Taken = nread + Len(c)
    BY <1>1, <1>2, <1>3, <1>6, <2>1, <2>2 DEF Taken
  <2>6. ASSUME NEW i \in 1 .. nread + Len(c) PROVE result'[i] = received'[Taken + i]
    <3>1. CASE i <= nread
      <4>1. i \in 1 .. nread /\ Taken + i \in 1 .. Len(received)
        BY <1>1, <1>3, <2>1, <2>4, <3>1
      <4>2. w[i] = received[Taken + i]
        BY <1>4, <4>1
      <4>3. QED
        BY <2>2, <2>3, <4>1, <4>2
    <3>2. CASE i > nread
      <4>1. /\ i \in nread + 1 .. nread + Len(c)
            /\ Taken + i \in Len(received) + 1 .. Len(received) + Len(c)
            /\ (Taken + i) - Len(received) = i - nread
        BY <1>1, <1>3, <2>1, <2>4, <3>2
      <4>2. QED
        BY <2>2, <2>3, <4>1
    <3>3. QED
      BY <1>3, <2>1, <3>1, <3>2
  <2>7. result' = [i \in 1 .. Taken' - Taken |-> received'[Taken + i]]
    <3>1. result' = [i \in 1 .. nread + Len(c) |-> result'[i]]
      BY <2>2
    <3>2. QED
      BY <2>5, <2>6, <3>1
  <2>8. Waiting!Grow
    BY <1>2, <1>6, StreamGrows
  <2>9. Taken' \in Taken .. Len(received')
    BY <1>1, <1>3, <2>1, <2>3, <2>4, <2>5
  <2>10. QED
    BY <2>7, <2>8, <2>9
<1>7. CASE /\ outcome' = "IOError" /\ skipped' = skipped + nread
           /\ UNCHANGED <<stream_offset, received>>
  <2>1. Taken' = Taken + nread
    BY <1>2, <1>3, <1>7 DEF Taken
  <2>2. Waiting!Grow
    BY <1>2, <1>7, StreamGrows
  <2>3. QED
    BY <1>1, <1>3, <1>7, <2>1, <2>2
<1>8. QED
  BY <1>1, <1>5, <1>6, <1>7, Zenon DEF Buffer!ReadBytes, Buffer!history, nread, w

LEMMA ReadBytesWaits ==
  ASSUME WInv, NEW nbytes \in 0 .. MaxWanted, ReadBytes(nbytes)
  PROVE  WInv' /\ [Waiting!Next]_(Waiting!vars)
<1>1. Inv /\ Inv' /\ Parser!Forgotten
  BY ReadBytesInv DEF WInv
<1>2. /\ pc = "idle" /\ at = "idle" /\ ~broken /\ ~InObject
      /\ Buffer!ReadBytes(nbytes)
      /\ answer' = IF outcome' = "ok" THEN <<"bytes", result'>> ELSE <<"interrupted">>
      /\ UNCHANGED <<cs, trail, stack, root, at, construct, p, obj, ret, pc,
                     method, broken, user>>
  BY Zenon DEF ReadBytes, Usable, WInv, Inv, Control, parserVars
<1>3. nbytes \in Nat
  BY UnpackerAssumption
<1>4. /\ Waiting!Grow
      /\ Taken \in Nat /\ Taken' \in Taken .. Len(received')
      /\ outcome' = "ok" =>
           result' = [i \in 1 .. Taken' - Taken |-> received'[Taken + i]]
  BY <1>1, <1>2, <1>3, ReadBytesTakes DEF Inv
<1>5. ~Paused /\ ~Paused'
  BY <1>2 DEF Paused, InObject
<1>6. /\ StreamAt = "idle" /\ StreamAt' = "idle" /\ StreamStart = Taken
      /\ StreamStart' = Taken' /\ StreamPos' = Taken'
  BY <1>2, <1>5, StreamIdle
<1>7. Len(received') \in Nat
  BY <1>1 DEF Inv, Buffer!IInv, Buffer!TypeOK
<1>8. Waiting!arrived' = Len(received')
  BY <1>7 DEF Waiting!arrived, StreamEnd
<1>9. ASSUME NEW i \in 1 .. Taken' - Taken
      PROVE  StreamBytes'[Taken + i - 1] = received'[Taken + i]
  <2>1. Taken + i - 1 \in 0 .. Len(received') - 1
        /\ (Taken + i - 1) + 1 = Taken + i
    <3>1. ASSUME NEW a \in Nat, NEW b \in a .. Len(received'), NEW j \in 1 .. b - a
          PROVE  a + j - 1 \in 0 .. Len(received') - 1 /\ (a + j - 1) + 1 = a + j
      BY <1>7
    <3>2. QED
      BY <1>4, <3>1
  <2>2. QED
    BY <2>1 DEF StreamBytes
<1>10. \/ answer' = <<"bytes", [i \in 1 .. Taken' - Taken |->
                                  StreamBytes'[Taken + i - 1]]>>
       \/ answer' = <<"interrupted">>
  <2>1. [i \in 1 .. Taken' - Taken |-> StreamBytes'[Taken + i - 1]]
          = [i \in 1 .. Taken' - Taken |-> received'[Taken + i]]
    BY <1>9
  <2>2. QED
    BY <1>2, <1>4, <2>1
<1>11. ~Waiting!InObject
  BY <1>2, SameCodes DEF InObject, Waiting!InObject
<1>12. Waiting!TakeBytes
  BY <1>2, <1>4, <1>6, <1>8, <1>10, <1>11 DEF Waiting!TakeBytes, Waiting!ctx
<1>13. WInv'
  BY <1>1, <1>2 DEF WInv, Parser!Forgotten
<1>14. QED
  BY <1>12, <1>13 DEF Waiting!Next

(* The bytes of a container header that is there.                          *)
LEMMA HeaderBytes ==
  ASSUME Buffer!IInv, ~Paused, at = "idle", NEW k \in Nat, k < buf_tail - buf_head
  PROVE  /\ StreamStart = Taken
         /\ [i \in 1 .. k |-> StreamBytes[StreamStart + i]]
              = [i \in 1 .. k |-> buf[buf_head + i]]
<1>1. /\ Taken \in Nat /\ buf_head \in Nat /\ buf_tail \in Nat
      /\ Len(received) \in Nat
      /\ Len(received) - Taken = buf_tail - buf_head
      /\ \A i \in 0 .. (buf_tail - buf_head) - 1 :
           buf[buf_head + i] = received[Taken + i + 1]
  BY BufferIsStream
<1>2. StreamStart = Taken
  BY StreamIdle
<1>3. ASSUME NEW i \in 1 .. k
      PROVE  StreamBytes[Taken + i] = buf[buf_head + i]
  <2>1. Taken + i \in 0 .. Len(received) - 1 /\ i \in 0 .. (buf_tail - buf_head) - 1
    BY <1>1
  <2>2. QED
    BY <1>1, <2>1 DEF StreamBytes
<1>4. QED
  BY <1>2, <1>3

(* A header reader on the buffer is the one on the stream, or waits. *)
LEMMA ContainerHeaderWaits ==
  ASSUME Buffer!IInv, Counted, ~Paused, ~InObject, at = "idle",
         buf_head < buf_tail, buf_head' \in buf_head .. buf_tail,
         NEW fixed \in {128, 144}, NEW var \in {220, 222},
         Parser!ContainerHeader(fixed, var)
  PROVE  /\ UNCHANGED <<StreamBytes, StreamEnd>>
         /\ ret' = "more" =>
              /\ UNCHANGED <<StreamAt, StreamStart, StreamPos, root>>
              /\ \/ StreamBytes[Taken] = var /\ Taken + 3 > Len(received)
                 \/ StreamBytes[Taken] = var + 1 /\ Taken + 5 > Len(received)
         /\ ret' # "more" =>
              Waiting!ContainerHeader(fixed, var) /\ StreamStart' <= Len(received)
<1>1. /\ Taken \in Nat /\ buf_head \in Nat /\ buf_tail \in Nat
      /\ Len(received) \in Nat
      /\ Len(received) - Taken = buf_tail - buf_head
      /\ \A i \in 0 .. (buf_tail - buf_head) - 1 :
           buf[buf_head + i] = received[Taken + i + 1]
  BY BufferIsStream
<1>2. /\ Taken' = Taken + (buf_head' - buf_head)
      /\ UNCHANGED <<buf, buf_tail, received>>
  BY CountedTakes
<1>3. UNCHANGED <<StreamBytes, StreamEnd>>
  BY <1>2 DEF StreamBytes, StreamEnd
<1>4. at' = "idle" /\ UNCHANGED <<cs, trail, stack, construct, obj>>
  BY Zenon DEF Parser!ContainerHeader, Parser!HeaderIncomplete, Parser!Return
<1>5. ~Paused'
  BY <1>4 DEF Paused, InObject
<1>6. /\ StreamAt = "idle" /\ StreamAt' = "idle"
      /\ StreamStart = Taken /\ StreamPos = Taken
      /\ StreamStart' = Taken' /\ StreamPos' = Taken'
  BY <1>4, <1>5, StreamIdle
<1>7. StreamBytes[Taken] = buf[buf_head]
  <2>1. 0 \in 0 .. (buf_tail - buf_head) - 1 /\ Taken \in 0 .. Len(received) - 1
    BY <1>1
  <2>2. buf[buf_head + 0] = received[Taken + 0 + 1]
    BY <1>1, <2>1
  <2>3. QED
    BY <1>1, <2>1, <2>2 DEF StreamBytes
(* What reading a header of k bytes does to both.                          *)
<1> DEFINE Reads(k, v) == IF buf_tail - buf_head < k
                            THEN Parser!HeaderIncomplete
                            ELSE /\ Parser!Return("object", buf_head + k)
                                 /\ root' = <<"count", v>>
<1>8. ASSUME NEW k \in {1, 3, 5}, NEW v, Reads(k, v)
      PROVE  /\ ret' = "more" => /\ UNCHANGED <<StreamAt, StreamStart, StreamPos, root>>
                                 /\ k # 1 /\ Taken + k > Len(received)
             /\ ret' # "more" => /\ ~(buf_tail - buf_head < k)
                                 /\ ~(StreamEnd - StreamStart < k)
                                 /\ ret' = "object" /\ Taken' = Taken + k
                                 /\ root' = <<"count", v>>
                                 /\ StreamStart' <= Len(received)
  <2>1. CASE buf_tail - buf_head < k
    <3>1. ret' = "more" /\ buf_head' = buf_head /\ root' = root
      BY <1>8, <2>1 DEF Parser!HeaderIncomplete, Parser!Return
    <3>2. Taken' = Taken
      BY <1>1, <1>2, <3>1
    <3>3. k # 1 /\ Taken + k > Len(received)
      BY <1>1, <2>1
    <3>4. QED
      BY <1>6, <3>1, <3>2, <3>3
  <2>2. CASE ~(buf_tail - buf_head < k)
    <3>1. ret' = "object" /\ buf_head' = buf_head + k /\ root' = <<"count", v>>
      BY <1>8, <2>2 DEF Parser!Return
    <3>2. Taken' = Taken + k
      BY <1>1, <1>2, <3>1
    <3>3. ~(StreamEnd - StreamStart < k) /\ Taken + k <= Len(received)
      BY <1>1, <1>6, <2>2 DEF StreamEnd
    <3>4. QED
      BY <1>6, <2>2, <3>1, <3>2, <3>3
  <2>3. QED
    BY <2>1, <2>2
<1> HIDE DEF Reads
<1> DEFINE b == buf[buf_head]
<1>9. ASSUME NEW k \in {2, 4}, ~(buf_tail - buf_head < k + 1)
      PROVE  [i \in 1 .. k |-> StreamBytes[StreamStart + i]]
               = [i \in 1 .. k |-> buf[buf_head + i]]
  BY <1>1, <1>9, HeaderBytes
<1>10. CASE b = var
  <2>10. PICK v : v = Parser!Length([i \in 1 .. 2 |-> buf[buf_head + i]])
    OBVIOUS
  <2>11. PICK w : w = Waiting!Length([i \in 1 .. 2 |-> StreamBytes[StreamStart + i]])
    OBVIOUS
  <2>1. ~(b = var + 1) /\ b \notin fixed .. fixed + 15
    BY <1>10
  <2>2. Reads(3, v)
    BY <1>10, <2>1, <2>10, Zenon DEF Parser!ContainerHeader, Reads
  <2>3. ~(buf_tail - buf_head < 3) => v = w
    BY <1>9, <2>10, <2>11, SameLengths
  <2>4. /\ ret' = "more" => /\ UNCHANGED <<StreamAt, StreamStart, StreamPos, root>>
                            /\ Taken + 3 > Len(received)
        /\ ret' # "more" =>
             /\ ~(StreamEnd - StreamStart < 3)
             /\ ret' = "object" /\ Taken' = Taken + 3
             /\ root' = <<"count", w>>
             /\ StreamStart' <= Len(received)
    <3>1. /\ ret' = "more" => /\ UNCHANGED <<StreamAt, StreamStart, StreamPos, root>>
                              /\ Taken + 3 > Len(received)
          /\ ret' # "more" =>
               /\ ~(buf_tail - buf_head < 3)
               /\ ~(StreamEnd - StreamStart < 3)
               /\ ret' = "object" /\ Taken' = Taken + 3
               /\ root' = <<"count", v>>
               /\ StreamStart' <= Len(received)
      BY <1>8, <2>2
    <3>2. QED
      BY <2>3, <3>1
  <2>5. ret' # "more" => Waiting!ContainerHeader(fixed, var)
    BY <1>4, <1>6, <1>7, <1>10, <2>4, <2>11, Zenon
    DEF Waiting!ContainerHeader, Waiting!Return
  <2>6. QED
    BY <1>3, <1>7, <1>10, <2>4, <2>5
<1>11. CASE b = var + 1
  <2>10. PICK v : v = Parser!Length([i \in 1 .. 4 |-> buf[buf_head + i]])
    OBVIOUS
  <2>11. PICK w : w = Waiting!Length([i \in 1 .. 4 |-> StreamBytes[StreamStart + i]])
    OBVIOUS
  <2>1. ~(b = var) /\ b \notin fixed .. fixed + 15
    BY <1>11
  <2>2. Reads(5, v)
    BY <1>11, <2>1, <2>10, Zenon DEF Parser!ContainerHeader, Reads
  <2>3. ~(buf_tail - buf_head < 5) => v = w
    BY <1>9, <2>10, <2>11, SameLengths
  <2>4. /\ ret' = "more" => /\ UNCHANGED <<StreamAt, StreamStart, StreamPos, root>>
                            /\ Taken + 5 > Len(received)
        /\ ret' # "more" =>
             /\ ~(StreamEnd - StreamStart < 5)
             /\ ret' = "object" /\ Taken' = Taken + 5
             /\ root' = <<"count", w>>
             /\ StreamStart' <= Len(received)
    <3>1. /\ ret' = "more" => /\ UNCHANGED <<StreamAt, StreamStart, StreamPos, root>>
                              /\ Taken + 5 > Len(received)
          /\ ret' # "more" =>
               /\ ~(buf_tail - buf_head < 5)
               /\ ~(StreamEnd - StreamStart < 5)
               /\ ret' = "object" /\ Taken' = Taken + 5
               /\ root' = <<"count", v>>
               /\ StreamStart' <= Len(received)
      BY <1>8, <2>2
    <3>2. QED
      BY <2>3, <3>1
  <2>5. ret' # "more" => Waiting!ContainerHeader(fixed, var)
    BY <1>4, <1>6, <1>7, <1>11, <2>4, <2>11, Zenon
    DEF Waiting!ContainerHeader, Waiting!Return
  <2>6. QED
    BY <1>3, <1>7, <1>11, <2>4, <2>5
<1>12. CASE b \in fixed .. fixed + 15
  <2>10. PICK v : v = Parser!Length(<<b % 16>>)
    OBVIOUS
  <2>11. PICK w : w = Waiting!Length(<<b % 16>>)
    OBVIOUS
  <2>1. ~(b = var) /\ ~(b = var + 1) /\ b \notin {var, var + 1}
    BY <1>12
  <2>2. Reads(1, v)
    BY <1>12, <2>1, <2>10, Zenon DEF Parser!ContainerHeader, Reads
  <2>3. v = w
    BY <2>10, <2>11, SameLengths
  <2>4. /\ ret' # "more"
        /\ ~(StreamEnd - StreamStart < 1)
        /\ ret' = "object" /\ Taken' = Taken + 1
        /\ root' = <<"count", w>>
        /\ StreamStart' <= Len(received)
    BY <1>8, <2>2, <2>3
  <2>5. Waiting!ContainerHeader(fixed, var)
    BY <1>4, <1>6, <1>7, <1>12, <2>4, <2>11, Zenon
    DEF Waiting!ContainerHeader, Waiting!Return
  <2>6. QED
    BY <1>3, <2>4, <2>5
<1>13. CASE b \notin {var, var + 1} \cup fixed .. fixed + 15
  <2>1. Parser!Return("raised", buf_head) /\ UNCHANGED root
    BY <1>13, Zenon DEF Parser!ContainerHeader
  <2>2. ret' = "raised" /\ Taken' = Taken
    BY <1>1, <1>2, <2>1 DEF Parser!Return
  <2>3. Waiting!Return("raised", StreamStart) /\ StreamStart' <= Len(received)
    BY <1>1, <1>6, <2>2 DEF Waiting!Return
  <2>4. Waiting!ContainerHeader(fixed, var)
    BY <1>4, <1>6, <1>7, <1>13, <2>1, <2>3, Zenon DEF Waiting!ContainerHeader
  <2>5. QED
    BY <1>3, <2>2, <2>3, <2>4
<1>14. QED
  BY <1>10, <1>11, <1>12, <1>13

LEMMA ExecuteHeaderWaits ==
  ASSUME WInv, ExecuteHeader
  PROVE  WInv' /\ [Waiting!Next]_(Waiting!vars)
<1>1. Inv /\ Inv' /\ Parser!Forgotten
  BY ExecuteHeaderInv DEF WInv
<1>2. /\ pc = "loop" /\ at = "idle" /\ ~broken /\ ret = "more" /\ ~InObject
      /\ buf_head < buf_tail /\ Counted /\ pc' = "check"
      /\ method \in {"read_array_header", "read_map_header"}
      /\ UNCHANGED <<method, answer, objStart, broken, user>>
  BY DEF ExecuteHeader, WInv, Inv, Control, Building
<1> DEFINE fixed == IF method = "read_array_header" THEN 144 ELSE 128
           var   == IF method = "read_array_header" THEN 220 ELSE 222
<1>3. Parser!ContainerHeader(fixed, var)
  BY <1>2 DEF ExecuteHeader, Parser!ReadArrayHeader, Parser!ReadMapHeader
<1>4. fixed \in {128, 144} /\ var \in {220, 222}
  OBVIOUS
<1>5. Parser!Readable /\ UNCHANGED <<buf, buf_tail>>
  BY <1>1, <1>2, BufferReadable, Zenon DEF Inv, Counted, Buffer!Execute
<1>6. /\ buf_head' \in buf_head .. buf_tail /\ at' = "idle"
      /\ ret' \in {"object", "more", "raised"}
      /\ UNCHANGED <<cs, trail, stack, construct>>
  BY <1>2, <1>3, <1>5, Parser!HeaderReads
<1>7. obj' = obj
  BY <1>3, Zenon DEF Parser!ContainerHeader
<1>8. ~Paused
  BY <1>2 DEF Paused
<1>9. /\ UNCHANGED <<StreamBytes, StreamEnd>>
      /\ ret' = "more" =>
           /\ UNCHANGED <<StreamAt, StreamStart, StreamPos, root>>
           /\ \/ StreamBytes[Taken] = var /\ Taken + 3 > Len(received)
              \/ StreamBytes[Taken] = var + 1 /\ Taken + 5 > Len(received)
      /\ ret' # "more" =>
           Waiting!ContainerHeader(fixed, var) /\ StreamStart' <= Len(received)
  BY <1>1, <1>2, <1>3, <1>4, <1>6, <1>8, ContainerHeaderWaits DEF Inv
<1>10. /\ StreamAt = "idle" /\ StreamStart = Taken /\ Taken \in Nat
       /\ Taken < Len(received) /\ Len(received) \in Nat
       /\ Waiting!arrived = Len(received)
  BY <1>1, <1>2, <1>8, StreamIdle, BufferIsStream
  DEF Inv, Waiting!arrived, StreamEnd
<1>11. CASE ret' = "more"
  <2>1. UNCHANGED Waiting!vars
    BY <1>2, <1>6, <1>7, <1>9, <1>11 DEF Waiting!vars, Waiting!ctx, Waiting!local
  <2>2. /\ StreamAt' = "idle" /\ StreamStart' = Taken /\ StreamBytes' = StreamBytes
        /\ method' = method /\ Waiting!arrived' = Len(received)
    BY <1>2, <1>9, <1>10, <1>11 DEF Waiting!arrived
  <2>3. Waiting!HeaderNeeds' = IF StreamBytes[Taken] = var THEN 3
                               ELSE IF StreamBytes[Taken] = var + 1 THEN 5 ELSE 1
    BY <2>2, Zenon DEF Waiting!HeaderNeeds
  <2>4. Taken + Waiting!HeaderNeeds' > Len(received)
    <3>1. var + 1 # var
      BY <1>4
    <3>2. QED
      BY <1>9, <1>11, <2>3, <3>1
  <2>5. Waiting!Starved'
    BY <1>2, <2>2, <2>4 DEF Waiting!Starved, Waiting!Builders
  <2>6. WInv'
    BY <1>1, <1>2, <1>6, <1>7, <2>5 DEF WInv, Parser!Forgotten
  <2>7. QED
    BY <2>1, <2>6
<1>12. CASE ret' # "more"
  <2>1. \/ method = "read_array_header" /\ Waiting!ReadArrayHeader
        \/ method = "read_map_header" /\ Waiting!ReadMapHeader
    BY <1>2, <1>9, <1>12 DEF Waiting!ReadArrayHeader, Waiting!ReadMapHeader
  <2>2. ~Waiting!InObject
    BY <1>2, SameCodes DEF InObject, Waiting!InObject
  <2>3. Waiting!ReadHeader
    BY <1>2, <1>9, <1>10, <1>12, <2>1, <2>2 DEF Waiting!ReadHeader
  <2>4. WInv'
    BY <1>1, <1>2, <1>6, <1>12 DEF WInv, Parser!Forgotten
  <2>5. QED
    BY <2>3, <2>4 DEF Waiting!Next
<1>13. QED
  BY <1>11, <1>12

-------------------------------------------------------------------------------
LEMMA NextWaits == WInv /\ [Next]_vars => WInv' /\ [Waiting!Next]_(Waiting!vars)
<1> SUFFICES ASSUME WInv, [Next]_vars
             PROVE  WInv' /\ [Waiting!Next]_(Waiting!vars)
  OBVIOUS
<1> DEFINE Goal == WInv' /\ [Waiting!Next]_(Waiting!vars)
<1>1. CASE Feed
  BY <1>1, FeedWaits
<1>2. ASSUME NEW n \in 0 .. MaxWanted, ReadBytes(n) PROVE Goal
  BY <1>2, ReadBytesWaits
<1>3. ASSUME NEW m \in Methods, Call(m) PROVE Goal
  BY <1>3, CallWaits
<1>4. CASE Unpacking
  BY <1>4, NothingToExecuteWaits, StartExecuteWaits, ExecuteHeaderWaits,
     ExecuteWaits, DeliverWaits, ReadMoreWaits, ExhaustedWaits, RejectWaits
  DEF Unpacking
<1>5. CASE Abandoned \/ UNCHANGED vars
  BY <1>5, StutterWaits DEF Abandoned
<1> HIDE DEF Goal
<1>6. QED
  BY <1>1, <1>2, <1>3, <1>4, <1>5 DEF Next, Goal

(* The Unpacker implements the parser that waits for its bytes: however    *)
(* the input is cut, fed or read, paused and resumed, every call does what *)
(* that parser does with the whole of it.                                  *)
THEOREM UnpackerWaits == Spec => WaitingSpec
<1>1. Init => WInv /\ Waiting!Init
  BY InitWaits
<1>2. WInv /\ [Next]_vars => WInv' /\ [Waiting!Next]_(Waiting!vars)
  BY NextWaits
<1>3. QED
  BY <1>1, <1>2, PTL DEF Spec, WaitingSpec, Waiting!Spec
===============================================================================
