---------------------------- MODULE WaitingParser ----------------------------
(***************************************************************************)
(* A parser that never returns for want of bytes: it stands where it is    *)
(* until the ones it needs next have come.  There is no buffer, a position *)
(* is a position in the whole stream, and a call that stops inside an      *)
(* object leaves no trace.  CythonUnpacker implements this: what an        *)
(* Unpacker makes of its input does not depend on how it was cut.          *)
(*                                                                         *)
(* len lies behind every byte that has arrived, so that the steps of       *)
(* UnpackExecute never find the end of the stream.                         *)
(***************************************************************************)
EXTENDS UnpackExecute

VARIABLES
  method,   \* the method called last
  answer,   \* what it came to
  broken    \* the data was found wrong, or bytes were lost

vars == <<data, len, off, user, ctx, local, method, answer, broken>>

arrived == len - 1
InObject == cs # CS_HEADER \/ stack # <<>>
Methods == {"unpack", "skip", "read_array_header", "read_map_header"}
Builders == {"unpack", "skip"}

Init ==
  /\ InitContext
  /\ arrived = 0 /\ off = 0
  /\ at = "idle" /\ construct = TRUE /\ p = 0 /\ obj = Null /\ ret = "more"
  /\ method = "unpack" /\ answer = <<"none">> /\ broken = FALSE

(* More of the stream may come. *)
Grow ==
  /\ len' >= len
  /\ \A i \in 0 .. arrived - 1 : data'[i] = data[i]
Arrive == Grow /\ UNCHANGED <<off, user, ctx, local, method, answer, broken>>

Begin ==
  /\ ~broken
  /\ \E m \in Methods : (InObject => m = method) /\ method' = m
  /\ answer' = <<"none">>
  /\ UNCHANGED <<data, len, off, user, ctx, local, broken>>

Start ==
  /\ ~broken /\ ~InObject /\ method \in Builders
  /\ Enter(method = "unpack")
  /\ UNCHANGED <<data, len, off, user, method, answer, broken>>

Parse ==
  /\ at = "loop" => p + Needed <= arrived
  /\ Step
  /\ UNCHANGED <<data, len, user, method, answer, broken>>

ReadHeader ==
  /\ ~broken /\ ~InObject /\ off < arrived
  /\ ret' # "more" /\ off' <= arrived
  /\ \/ method = "read_array_header" /\ ReadArrayHeader
     \/ method = "read_map_header" /\ ReadMapHeader
  /\ UNCHANGED <<data, len, user, method, answer, broken>>

-------------------------------------------------------------------------------
(* How a call ends. *)
Forget == obj' = Null /\ ret' = "more"

Deliver ==
  /\ at = "idle" /\ ret = "object"
  /\ answer' = <<"returned", root>>
  /\ ResetContext /\ Forget
  /\ UNCHANGED <<data, len, off, user, at, construct, p, method, broken>>

(* OutOfData: the next bytes have not come. *)
HeaderNeeds ==
  LET b == data[off]
      var == IF method = "read_array_header" THEN 220 ELSE 222
  IN IF b = var THEN 3 ELSE IF b = var + 1 THEN 5 ELSE 1
Starved ==
  \/ at = "loop" /\ p + Needed > arrived
  \/ at = "idle" /\ off = arrived
  \/ at = "idle" /\ method \notin Builders /\ off + HeaderNeeds > arrived

Exhausted ==
  /\ ret = "more" /\ Starved
  /\ answer' = <<"OutOfData">>
  /\ UNCHANGED <<data, len, off, user, ctx, local, method, broken>>

Reject ==
  /\ at = "idle" /\ ret \notin {"object", "more"}
  /\ answer' = <<"error">>
  /\ broken' = (method \in Builders)
  /\ Forget
  /\ UNCHANGED <<data, len, off, user, ctx, at, construct, p, method>>

(* The input or the memory failed, perhaps with bytes that are now lost.   *)
Interrupt ==
  /\ answer' = <<"interrupted">>
  /\ \/ UNCHANGED <<off, at, broken>>
     \/ broken' = TRUE /\ at' = "idle" /\ off' = p
  /\ UNCHANGED <<data, len, user, ctx, construct, p, obj, ret, method>>

(* read_bytes() takes bytes between objects; some are gone when its file   *)
(* fails.                                                                  *)
TakeBytes ==
  /\ ~broken /\ ~InObject /\ at = "idle"
  /\ Grow
  /\ off' \in off .. arrived' /\ p' = off'
  /\ \/ answer' = <<"bytes", [i \in 1 .. off' - off |-> data'[off + i - 1]]>>
     \/ answer' = <<"interrupted">>
  /\ UNCHANGED <<user, ctx, at, construct, obj, ret, method, broken>>

Next ==
  \/ Arrive \/ Begin \/ Start \/ Parse \/ ReadHeader
  \/ Deliver \/ Exhausted \/ Reject \/ Interrupt \/ TakeBytes

Spec == Init /\ [][Next]_vars
===============================================================================
