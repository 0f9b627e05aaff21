----------------------------- MODULE UnpackbProofs ----------------------------
(***************************************************************************)
(* Proofs about unpackb(), for every input and all options.                *)
(***************************************************************************)
EXTENDS Unpackb, SequenceTheorems, TLAPS

(* ParserOK is what a caller sees of the parser's invariant.               *)
Inv ==
  /\ packed \in Seq(0 .. 255)
  /\ Parser!Readable
  /\ Parser!Parsing
  /\ phase = "call" => stack = <<>> /\ ret = "more"

LEMMA InputLength ==
  ASSUME packed \in Seq(0 .. 255)
  PROVE  /\ buf_len \in Nat
         /\ \A i \in 0 .. buf_len - 1 :
              [j \in 0 .. buf_len - 1 |-> packed[j + 1]][i] \in 0 .. 255
<1>1. buf_len \in Nat
  BY DEF buf_len
<1>2. ASSUME NEW i \in 0 .. buf_len - 1 PROVE packed[i + 1] \in 0 .. 255
  <2>1. i + 1 \in 1 .. Len(packed)
    BY <1>1 DEF buf_len
  <2>2. QED
    BY <2>1, ElementOfSeq
<1>3. QED
  BY <1>1, <1>2

LEMMA InitInv == Init => Inv
<1> SUFFICES ASSUME Init PROVE Inv
  OBVIOUS
<1>1. packed \in Seq(0 .. 255) /\ EmbedStackSize \in Nat
  BY UnpackbAssumption DEF Init
<1>2. Parser!Readable
  BY <1>1, InputLength DEF Init, Parser!Readable
<1>3. Parser!Parsing
  BY <1>1, Parser!InitParses DEF Init
<1>4. QED
  BY <1>1, <1>2, <1>3 DEF Inv, Init, Parser!InitContext

LEMMA NextInv == Inv /\ [Next]_vars => Inv'
<1> SUFFICES ASSUME Inv, [Next]_vars PROVE Inv'
  OBVIOUS
<1>1. CASE Call
  <2>1. UNCHANGED <<[i \in 0 .. buf_len - 1 |-> packed[i + 1]], buf_len>>
    BY <1>1 DEF Call, buf_len
  <2>2. stack # <<>> => TRUE = construct
    BY <1>1 DEF Inv, Call
  <2>3. Parser!Parsing' /\ Parser!Readable'
    BY <1>1, <2>1, <2>2, Parser!EnterParses DEF Inv, Call
  <2>4. QED
    BY <1>1, <2>3 DEF Inv, Call
<1>2. CASE Execute
  <2>1. UNCHANGED <<[i \in 0 .. buf_len - 1 |-> packed[i + 1]], buf_len>>
    BY <1>2 DEF Execute, buf_len
  <2>2. Parser!Parsing' /\ Parser!Readable'
    BY <1>2, <2>1, Parser!ParserStep, UnpackbAssumption DEF Inv, Execute
  <2>3. QED
    BY <1>2, <2>2 DEF Inv, Execute
<1>3. CASE Finish \/ UNCHANGED vars
  <2>1. UNCHANGED <<packed, user, off, cs, trail, stack, root, at, construct,
                    p, obj, ret>>
    BY <1>3 DEF Finish, vars
  <2>2. Parser!Parsing' /\ Parser!Readable'
    BY <2>1, Parser!StutterParses DEF Inv, buf_len
  <2>3. QED
    BY <1>3, <2>1, <2>2 DEF Inv, Finish, vars
<1>4. QED
  BY <1>1, <1>2, <1>3 DEF Next, Done

(* The parser of unpackb() never passes the end of the input, keeps its    *)
(* stack within its array, and keeps every open container consistent.      *)
THEOREM ParserOKAlways == Spec => []ParserOK
<1>1. Inv => ParserOK
  <2>1. ASSUME Inv PROVE off \in 0 .. buf_len /\ (at # "idle" => p \in 0 .. buf_len)
    BY <2>1, InputLength
    DEF Inv, Parser!Readable, Parser!Parsing, Parser!Position
  <2>2. ASSUME Inv PROVE Len(stack) <= EmbedStackSize /\ (ret # "raised" => Parser!FramesOK)
    BY <2>2 DEF Inv, Parser!Parsing, Parser!StackTyped, Parser!top
  <2>3. QED
    BY <2>1, <2>2 DEF ParserOK
<1>2. QED
  BY InitInv, NextInv, <1>1, PTL DEF Spec

(* Every step of the parser ends its run, passes a byte of the input or    *)
(* goes down the stack: there are finitely many of each, so no input and   *)
(* no hook keeps unpackb() running for ever.                               *)
THEOREM StepsAdvanceAlways == Spec => StepsAdvance
<1>1. ASSUME Inv, [Next]_vars
      PROVE  [phase = "execute" /\ at # "idle" => Parser!Advances]_vars
  <2>1. CASE Execute
    <3>1. UNCHANGED <<[i \in 0 .. buf_len - 1 |-> packed[i + 1]], buf_len>>
      BY <2>1 DEF Execute, buf_len
    <3>2. Parser!Step
      BY <2>1 DEF Execute
    <3>3. Parser!Stepping
      BY <1>1, <3>1, <3>2, UnpackbAssumption, Zenon
      DEF Inv, Parser!Stepping, Parser!Step
    <3>4. QED
      BY <3>2, <3>3, Parser!ParserGoes DEF Parser!Goes
  <2>2. CASE Call \/ Finish
    BY <2>2 DEF Call, Finish
  <2>3. QED
    BY <1>1, <2>1, <2>2 DEF Next, Done
<1>2. Inv /\ [Next]_vars
      => [phase = "execute" /\ at # "idle" => Parser!Advances]_vars
  BY <1>1
<1>3. QED
  BY InitInv, NextInv, <1>2, PTL DEF Spec, StepsAdvance
===============================================================================
