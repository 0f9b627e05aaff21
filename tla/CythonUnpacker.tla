----------------------------- MODULE CythonUnpacker ---------------------------
(***************************************************************************)
(* The streaming Unpacker of msgpack/_unpacker.pyx: the buffer of          *)
(* UnpackBuffer and the resumable parser of UnpackExecute, tied together   *)
(* by the loop of _unpack(), which runs the parser on what the buffer      *)
(* holds and fetches more from the file until an object is complete.       *)
(*                                                                         *)
(* A caller of the model keeps two rules the code relies on: a call that   *)
(* raised OutOfData inside an object is continued with the same method,    *)
(* and an Unpacker whose data was found wrong is not used again.           *)
(***************************************************************************)
EXTENDS Integers, Sequences

CONSTANTS
  Cases,            \* whole inputs, each with the options of the Unpacker
  MaxPiece,         \* most bytes fed or read at once
  Junk, max_buffer_size, read_size, INT_MAX, DefaultReadSize,
  MaxReceived, MaxWanted, EmbedStackSize, HooksRaise

VARIABLES
  buf, buf_head, buf_tail, buf_size, stream_offset, file_like, source,
  received, skipped, lost, result, outcome,
  cs, trail, stack, root, at, construct, p, obj, ret,
  pc,        \* where _unpack() is: "idle", "loop", "execute" or "check"
  method,    \* the method called last
  answer,    \* what it came to
  objStart,  \* history: bytes taken when the last object was complete
  broken,    \* history: the data was found wrong, or bytes were lost
  input,     \* the whole input
  user       \* the options, as a record

Inputs == {c[1] : c \in Cases}
Pieces == UNION {{SubSeq(s, i, j) : i \in 1 .. Len(s), j \in 0 .. Len(s)} : s \in Inputs}
Chunks == {c \in Pieces : Len(c) <= MaxPiece}

(* The two parts, with the lemmas about them. *)
Buffer == INSTANCE UnpackBufferProofs WITH
            Byte <- 0 .. 255
Parser == INSTANCE UnpackExecuteProofs WITH
            data <- buf, len <- buf_tail, off <- buf_head

ASSUME UnpackerAssumption ==
  /\ \A c \in Cases : c[1] \in Seq(0 .. 255)
  /\ EmbedStackSize \in Nat
  /\ Junk \notin 0 .. 255
  /\ max_buffer_size \in Nat
  /\ read_size \in Nat
  /\ INT_MAX \in Nat \ {0}
  /\ DefaultReadSize \in Nat \ {0}
  /\ read_size <= Buffer!MaxBufferSize
  /\ MaxReceived \in Nat
  /\ MaxWanted \in Nat

bufferVars == <<buf, buf_head, buf_tail, buf_size, stream_offset, file_like,
                source, received, skipped, lost, result, outcome>>
parserVars == <<cs, trail, stack, root, at, construct, p, obj, ret>>
callVars   == <<pc, method, answer, objStart, broken, input, user>>
vars == <<bufferVars, parserVars, callVars>>

Taken == stream_offset + skipped
InObject == cs # Parser!CS_HEADER \/ stack # <<>>
Methods == {"unpack", "skip", "read_array_header", "read_map_header"}

Init ==
  /\ Buffer!Init
  /\ Parser!InitContext
  /\ at = "idle" /\ construct = TRUE /\ p = 0 /\ obj = Parser!Null /\ ret = "more"
  /\ pc = "idle"
  /\ method = "unpack"
  /\ answer = <<"none">>
  /\ objStart = 0
  /\ broken = FALSE
  /\ \E c \in Cases : input = c[1] /\ user = c[2]

(* A caller feeds the input in order. *)
Upcoming(c) ==
  /\ Len(received) + Len(c) <= Len(input)
  /\ c = SubSeq(input, Len(received) + 1, Len(received) + Len(c))

(* What a file handed over is a prefix of the input. *)
FollowsInput ==
  /\ Len(received') <= Len(input)
  /\ received' = SubSeq(input, 1, Len(received'))

Usable == pc = "idle" /\ ~broken

-------------------------------------------------------------------------------
Feed ==
  /\ Usable
  /\ \E c \in Chunks : Upcoming(c) /\ Buffer!Feed(c)
  /\ UNCHANGED <<parserVars, callVars>>

(* read_bytes() takes bytes between objects. *)
ReadBytes(nbytes) ==
  /\ Usable /\ ~InObject
  /\ Buffer!ReadBytes(nbytes)
  /\ FollowsInput
  /\ objStart' = Taken'
  /\ answer' = IF outcome' = "ok" THEN <<"bytes", result'>> ELSE <<"interrupted">>
  /\ UNCHANGED <<parserVars, pc, method, broken, input, user>>

(* unpack(), __next__(), skip() and the header readers: enter _unpack(). *)
Call(m) ==
  /\ Usable
  /\ InObject => m = method
  /\ method' = m
  /\ answer' = <<"none">>
  /\ pc' = "loop"
  /\ UNCHANGED <<bufferVars, parserVars, objStart, broken, input, user>>

(* Variant of Counted: buf_head moves and stream_offset does not. *)
Uncounted ==
  /\ outcome' = "ok"
  /\ result' = <<>>
  /\ UNCHANGED <<buf, buf_tail, buf_size, stream_offset, file_like, source,
                 received, skipped, lost>>

(* What the parser consumed is counted, unless it raised. *)
Counted ==
  /\ Buffer!Execute(buf_head' - buf_head)
  /\ (outcome' = "CallbackError") <=> (ret' = "raised")

(* The top of the while loop: execute() is called when there are bytes. *)
NothingToExecute ==
  /\ pc = "loop" /\ buf_head >= buf_tail
  /\ ret' = "more"
  /\ pc' = "check"
  /\ UNCHANGED <<bufferVars, cs, trail, stack, root, at, construct, p, obj,
                 method, answer, objStart, broken, input, user>>

StartExecute ==
  /\ pc = "loop" /\ buf_head < buf_tail
  /\ method \in {"unpack", "skip"}
  /\ Parser!Enter(method = "unpack")
  /\ pc' = "execute"
  /\ UNCHANGED <<bufferVars, method, answer, objStart, broken, input, user>>

ExecuteHeader ==
  /\ pc = "loop" /\ buf_head < buf_tail
  /\ \/ method = "read_array_header" /\ Parser!ReadArrayHeader
     \/ method = "read_map_header" /\ Parser!ReadMapHeader
  /\ Counted
  /\ pc' = "check"
  /\ UNCHANGED <<method, answer, objStart, broken, input, user>>

Execute ==
  /\ pc = "execute"
  /\ Parser!Step
  /\ IF at' = "idle" THEN Counted /\ pc' = "check"
                     ELSE UNCHANGED <<bufferVars, pc>>
  /\ UNCHANGED <<method, answer, objStart, broken, input, user>>

(* _unpack() returns or raises: its locals and those of the parser go. *)
Leave ==
  /\ pc' = "idle"
  /\ at' = "idle" /\ p' = 0 /\ obj' = Parser!Null /\ ret' = "more"
  /\ UNCHANGED construct

(* ret == 1 *)
Deliver ==
  /\ pc = "check" /\ ret = "object"
  /\ answer' = <<"returned", root>>
  /\ objStart' = Taken
  /\ Parser!ResetContext
  /\ Leave
  /\ UNCHANGED <<bufferVars, method, broken, input, user>>

(* ret == 0 with a file: more is read and the loop goes on, or the read    *)
(* raises and the call with it.                                            *)
ReadMore ==
  /\ pc = "check" /\ ret = "more" /\ file_like = "open"
  /\ Buffer!ReadFromFile
  /\ FollowsInput
  /\ IF outcome' = "ok"
       THEN pc' = "loop" /\ UNCHANGED <<at, construct, p, obj, ret, answer>>
       ELSE Leave /\ answer' = <<"interrupted">>
  /\ broken' = (lost' # lost)
  /\ UNCHANGED <<cs, trail, stack, root, method, objStart, input, user>>

(* ret == 0 without a file: OutOfData or StopIteration. *)
Exhausted ==
  /\ pc = "check" /\ ret = "more" /\ file_like = "none"
  /\ answer' = <<"OutOfData">>
  /\ Leave
  /\ UNCHANGED <<bufferVars, cs, trail, stack, root, method, objStart, broken,
                 input, user>>

(* A negative ret, or the exception of a callback.  The context is left as *)
(* it is; a header reader has not touched it.                              *)
Reject ==
  /\ pc = "check" /\ ret \notin {"object", "more"}
  /\ answer' = <<"error">>
  /\ broken' = (method \in {"unpack", "skip"})
  /\ Leave
  /\ UNCHANGED <<bufferVars, cs, trail, stack, root, method, objStart, input,
                 user>>

Unpacking == \/ NothingToExecute \/ StartExecute \/ ExecuteHeader \/ Execute
             \/ Deliver \/ ReadMore \/ Exhausted \/ Reject

(* An Unpacker that is not used again. *)
Abandoned == pc = "idle" /\ broken /\ UNCHANGED vars

Next ==
  \/ Feed
  \/ \E n \in 0 .. MaxWanted : ReadBytes(n)
  \/ \E m \in Methods : Call(m)
  \/ Unpacking
  \/ Abandoned

(* A call that has begun runs on; nobody is obliged to make one. *)
Spec == Init /\ [][Next]_vars /\ WF_vars(Unpacking)

-------------------------------------------------------------------------------
(* The open containers stay consistent across calls: each has fewer items  *)
(* than it needs, the object being built holds exactly those, and a map    *)
(* waiting for a value has its key.  Only an error may leave a full frame. *)
Frames ==
  /\ Len(stack) <= EmbedStackSize
  /\ ~(broken \/ ret = "raised") => Parser!FramesOK

(* Between objects tell() is where the next one starts: a call that found  *)
(* nothing, or only part of a container header, took nothing.              *)
TellBetweenObjects ==
  pc = "idle" /\ ~InObject /\ ~broken => stream_offset + skipped = objStart

(* The parser takes no more than the buffer holds and moves the head by    *)
(* what it consumed, also when it stops inside an object, so the waiting   *)
(* bytes stay those that follow the ones taken.                            *)
HeadFollowsParser == Buffer!Bounds /\ Buffer!Integrity

(* Cutting leaves no trace: buffer, calls and pauses make no difference to *)
(* a parser that waits for its bytes.  A call that stopped inside an       *)
(* object is that parser waiting, since the object began at objStart.      *)
Paused == at = "idle" /\ InObject /\ ret = "more" /\ ~broken
StreamBytes == [i \in 0 .. Len(received) - 1 |-> received[i + 1]]
StreamEnd   == Len(received) + 1
StreamAt    == IF Paused THEN "loop" ELSE at
StreamStart == IF at # "idle" \/ Paused THEN objStart ELSE Taken
StreamPos   == IF at = "idle" THEN Taken ELSE Taken + (p - buf_head)

Waiting == INSTANCE WaitingParser WITH
             data <- StreamBytes, len <- StreamEnd, at <- StreamAt,
             off <- StreamStart, p <- StreamPos
WaitingSpec == Waiting!Spec

(* What is left of one round of the loop of _unpack(). *)
Stage == CASE pc = "loop"    -> 3
           [] pc = "execute" -> 2
           [] pc = "check"   -> 1
           [] pc = "idle"    -> 0

(* The loop of _unpack() never comes back to where it was: each step of a  *)
(* call gets on with the round or with the parser, and a new round is for  *)
(* bytes the file has given, or because it has ended.                      *)
CallAdvances ==
  [][pc # "idle" =>
       \/ Len(received') > Len(received)
       \/ file_like = "open" /\ file_like' = "none"
       \/ /\ UNCHANGED <<received, file_like>>
          /\ Stage' < Stage \/ (Stage' = Stage /\ Parser!Advances)]_vars

(* A call returns or raises: the loop of _unpack() ends once the file      *)
(* does.                                                                   *)
CallReturns == (pc # "idle") ~> (pc = "idle")
===============================================================================
