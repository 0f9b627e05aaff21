-------------------------------- MODULE Formats -------------------------------
(***************************************************************************)
(* The formats both packers choose: one item is packed by the C writers    *)
(* and by the Python ones.  An item is an object, of which only what is    *)
(* written before the objects in it counts, or <<"array_header", n>> or    *)
(* <<"map_header", n>> for the calls that take a count.                    *)
(***************************************************************************)
EXTENDS FallbackFormats, SequencesExt

CONSTANTS
  Samples,
  Options  \* of the packers, as records

VARIABLES
  item, given,  \* what is packed, with which options
  cython,       \* what the C writers made of it: [status, out]
  fallback,     \* what fallback.py made of it: [status, out, asks]
  phase         \* "pack" or "packed"

formatsVars == <<item, given, cython, fallback, phase>>

Nothing == Raised("none")

IsHeader(o) == o[1] \in {"array_header", "map_header"}

CythonHeader(o) ==
  IF Less(ITEM_LIMIT, o[2]) THEN [status |-> "ValueError", out |-> <<>>]
  ELSE [status |-> "ok", out |-> IF o[1] = "array_header" THEN pack_array(o[2])
                                                          ELSE pack_map(o[2])]
CythonPacks(o, opt) ==
  LET r == PackInner(o, opt) IN [status |-> r.status, out |-> FlattenSeq(r.writes)]

FallbackHeader(o) ==
  IF o[1] = "array_header" THEN ArrayHeader(o[2]) ELSE MapHeader(o[2])
FallbackPacks(o, opt) == WriteSelf(Seen(o, opt.strict_types), opt)

InitItem ==
  /\ item \in Samples
  /\ given \in Options
  /\ cython = Nothing /\ fallback = Nothing
  /\ phase = "pack"

HeaderPacked ==
  /\ phase = "pack" /\ IsHeader(item)
  /\ cython' = CythonHeader(item)
  /\ fallback' = FallbackHeader(item)
  /\ phase' = "packed"
  /\ UNCHANGED <<item, given>>

ObjectPacked ==
  /\ phase = "pack" /\ ~IsHeader(item)
  /\ cython' = CythonPacks(item, given)
  /\ fallback' = FallbackPacks(item, given)
  /\ phase' = "packed"
  /\ UNCHANGED <<item, given>>

Packed == phase = "packed" /\ UNCHANGED formatsVars

NextItem == HeaderPacked \/ ObjectPacked \/ Packed

FormatsSpec == InitItem /\ [][NextItem]_formatsVars

-------------------------------------------------------------------------------
(* The two packers, written independently, agree on every byte and on what *)
(* they refuse, if not always on the exception.                            *)
SameBytes ==
  /\ cython.out = fallback.out
  /\ (cython.status = "ok") <=> (fallback.status = "ok")
===============================================================================
