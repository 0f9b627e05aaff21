---------------------------- MODULE UnpackbDecoded ----------------------------
(***************************************************************************)
(* What unpackb() of the C module comes to, against what the pure Python   *)
(* decoder makes of the same bytes.                                        *)
(***************************************************************************)
EXTENDS Unpackb

CONSTANT RecursionLimit  \* of the interpreter

Fallback == INSTANCE FallbackDecode

-------------------------------------------------------------------------------
(* The two implementations decode alike: unpackb() of the C module returns *)
(* an object, or an object and extra bytes, exactly when the pure Python   *)
(* one does, and the same ones; otherwise both raise.  (Which exception    *)
(* comes first for an input with several faults may differ.)               *)
Decoded(r) == r[1] \in {"ok", "ExtraData"}
SameResult ==
  phase = "done" =>
    LET other == Fallback!UnpackbResult(packed, user)
    IN Decoded(outcome) \/ Decoded(other) => outcome = other

(* What the documentation of strict_map_key says, of the pure Python       *)
(* decoder: only str and bytes are accepted for keys.                      *)
FallbackStrictKeys ==
  phase = "done" /\ user.strict_map_key =>
    LET other == Fallback!UnpackbResult(packed, user)
        IsPairs(v) == v[1] = "hook" /\ v[2][1] = "pairs"
    IN Decoded(other) /\ IsPairs(other[2]) =>
         \A i \in DOMAIN other[2][2][2] : Parser!StrictKey(other[2][2][2][i][1])
===============================================================================
