-------------------------------- MODULE Unpackb -------------------------------
(***************************************************************************)
(* unpackb() of msgpack/_unpacker.pyx: one call of the parser on the whole *)
(* input, with limits taken from its length, and what it returns or        *)
(* raises.                                                                 *)
(***************************************************************************)
EXTENDS Integers, Sequences

CONSTANTS
  Inputs,          \* the byte strings passed to unpackb()
  Options,         \* the keyword arguments, as records
  EmbedStackSize, HooksRaise

ASSUME UnpackbAssumption ==
  /\ Inputs \subseteq Seq(0 .. 255)
  /\ EmbedStackSize \in Nat

VARIABLES
  packed,          \* the argument
  user, off, cs, trail, stack, root, at, construct, p, obj, ret,
  phase,           \* "call", "execute" or "done"
  outcome          \* what unpackb() returned or raised

buf_len == Len(packed)

(* The parser, with the lemmas about it. *)
Parser == INSTANCE UnpackExecuteProofs WITH
            data <- [i \in 0 .. buf_len - 1 |-> packed[i + 1]],
            len <- buf_len

vars == <<packed, user, off, cs, trail, stack, root, at, construct, p, obj,
          ret, phase, outcome>>

(* A limit left at -1 is set from the length of the input. *)
OrDefault(limit, default) == IF limit = -1 THEN default ELSE limit
Configured(o) ==
  [raw |-> o.raw, strict_map_key |-> o.strict_map_key,
   object_hook |-> o.object_hook, pairs_hook |-> o.pairs_hook,
   list_hook |-> o.list_hook,
   max_str_len   |-> OrDefault(o.max_str_len, buf_len),
   max_bin_len   |-> OrDefault(o.max_bin_len, buf_len),
   max_array_len |-> OrDefault(o.max_array_len, buf_len),
   max_map_len   |-> OrDefault(o.max_map_len, buf_len \div 2),
   max_ext_len   |-> OrDefault(o.max_ext_len, buf_len)]

Init ==
  /\ packed \in Inputs
  /\ \E o \in Options : user = Configured(o)
  /\ Parser!InitContext
  /\ off = 0
  /\ at = "idle" /\ construct = TRUE /\ p = 0 /\ obj = Parser!Null /\ ret = "more"
  /\ phase = "call"
  /\ outcome = <<"none">>

Call ==
  /\ phase = "call"
  /\ Parser!Enter(TRUE)
  /\ phase' = "execute"
  /\ UNCHANGED <<packed, user, outcome>>

Execute ==
  /\ phase = "execute"
  /\ Parser!Step
  /\ UNCHANGED <<packed, user, phase, outcome>>

(* What becomes of the parser's return value. *)
Result ==
  CASE ret = "object" ->
         IF off < buf_len
           THEN <<"ExtraData", root, SubSeq(packed, off + 1, buf_len)>>
           ELSE <<"ok", root>>
    [] ret \in {"more", "failed"} -> <<"ValueError">>
    [] ret = "format" -> <<"FormatError">>
    [] ret = "stack"  -> <<"StackError">>
    [] ret = "raised" -> <<"CallbackError">>

Finish ==
  /\ phase = "execute" /\ at = "idle"
  /\ outcome' = Result
  /\ phase' = "done"
  /\ UNCHANGED <<packed, user, off, cs, trail, stack, root, at, construct, p,
                 obj, ret>>

(* unpackb() has returned. *)
Done == phase = "done" /\ UNCHANGED vars

Next == Call \/ Execute \/ Finish \/ Done

(* Nothing but the interpreter's own progress is assumed. *)
Spec == Init /\ [][Next]_vars /\ WF_vars(Call \/ Execute \/ Finish)

-------------------------------------------------------------------------------
(* The parser keeps its frames consistent: an open container has an object *)
(* to fill, fewer items than it needs, and the items it has are in it; the *)
(* position never passes the end of the input.                             *)
ParserOK ==
  /\ off \in 0 .. buf_len
  /\ at # "idle" => p \in 0 .. buf_len
  /\ Len(stack) <= EmbedStackSize
  /\ ret # "raised" => Parser!FramesOK

(* No step of the parser goes round in a circle: each one ends the run, or *)
(* passes a byte of the input, or delivers an object one container deeper  *)
(* down the stack, of which there are finitely many.                       *)
StepsAdvance ==
  [][phase = "execute" /\ at # "idle" => Parser!Advances]_vars

(* unpackb() comes to an end on every input. *)
Returns == <>(phase = "done")
===============================================================================
