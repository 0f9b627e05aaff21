------------------------ MODULE CythonUnpackerMessages ------------------------
(***************************************************************************)
(* What the calls of the streaming Unpacker answer, against what the       *)
(* recursive decoder makes of the bytes received.                          *)
(***************************************************************************)
EXTENDS CythonUnpacker

CONSTANT RecursionLimit  \* of the interpreter

Fallback == INSTANCE FallbackDecode
DecodedBy(m, d, u) == Fallback!DecodeCall(m, d, u)

-------------------------------------------------------------------------------
(* The Unpacker implements the stream of messages: however the input is    *)
(* cut into pieces and whatever is interrupted in between, every call      *)
(* answers what the recursive decoder makes of the bytes received.         *)
Messages == INSTANCE MessageStream WITH
              next <- objStart, options <- user, Options <- {c[2] : c \in Cases}
MessageSpec == Messages!Spec

(* What the documentation of skip() says: it reads one object, so when it  *)
(* returns a whole object was there.                                       *)
SkipWholeObject ==
  [][pc = "check" /\ pc' = "idle" /\ method = "skip" /\ answer'[1] = "returned" =>
       Fallback!Skip(received, objStart + 1, user).status = "ok"]_vars
===============================================================================
