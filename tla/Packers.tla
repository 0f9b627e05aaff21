--------------------------------- MODULE Packers ------------------------------
(***************************************************************************)
(* The two implementations of Packer, given the same calls: the one of     *)
(* _packer.pyx, whose calls are steps of their own, beside the one of      *)
(* fallback.py.  A program must not be able to tell which it has.          *)
(***************************************************************************)
EXTENDS CythonPacker

CONSTANTS
  Args,        \* objects for pack()
  PairLists,   \* arguments for pack_map_pairs()
  Sizes,       \* arguments for the header methods, as bytes
  Exts,        \* <<typecode, data>> for pack_ext_type()
  Options,     \* of the packers, as records
  MaxContent   \* bound on the bytes held when a call begins

VARIABLES
  py_content, py_view, py_answer,
  same  \* history: since the last reset() neither was refused for a view,
        \* ran out of memory or met the limit of nesting

Python == INSTANCE FallbackPacker WITH
            content <- py_content, view <- py_view, answer <- py_answer

pythonVars == <<py_content, py_view, py_answer>>
allVars == <<vars, pythonVars, same>>

InitBoth ==
  /\ options \in Options
  /\ Init
  /\ Python!Init
  /\ same = TRUE

(* What fallback.py writes of the arguments. *)
ObjectsPacked == [o \in Args, opt \in Options |-> Python!PackObject(o, opt)]
PairsPacked == [pairs \in PairLists, opt \in Options |-> Python!PackPairs(pairs, opt)]

PackBoth(o) == Pack(o) /\ Python!Pack(ObjectsPacked[o, options])
MapPairsBoth(pairs) ==
  PackMapPairs(pairs) /\ Python!PackMapPairs(PairsPacked[pairs, options])
HeaderBoth(method, n) == PackHeader(method, n) /\ Python!PackHeader(method, n)
ExtTypeBoth(code, data) == PackExtType(code, data) /\ Python!PackExtType(code, data)

WritingCall ==
  /\ Len(content) <= MaxContent /\ Len(py_content) <= MaxContent
  /\ \/ \E o \in Args : PackBoth(o)
     \/ \E pairs \in PairLists : MapPairsBoth(pairs)
     \/ \E m \in Headers, n \in Sizes : HeaderBoth(m, n)
     \/ \E e \in Exts : ExtTypeBoth(e[1], e[2])
  /\ same' = (same /\ exports = 0 /\ py_answer' # <<"raised", "nesting">>)

BytesBoth == Bytes /\ Python!Bytes /\ UNCHANGED same

ResetBoth ==
  /\ Reset /\ Python!Reset
  /\ same' = (exports = 0)

(* One view at a time, of both. *)
ViewBoth ==
  /\ exports = 0 /\ py_view = "none"
  /\ GetBuffer /\ Python!GetBuffer
  /\ UNCHANGED same

ReleaseBoth ==
  /\ ReleaseBuffer
  /\ IF py_view = "none" THEN UNCHANGED pythonVars ELSE Python!ReleaseBuffer
  /\ UNCHANGED same

PackingStep ==
  /\ Packing
  /\ UNCHANGED pythonVars
  /\ same' = (same /\ ~pending' /\ \A e \in {"MemoryError", "SystemError"} :
                                     answer' # <<"raised", e>>)

Next == \/ WritingCall \/ BytesBoth \/ ResetBoth \/ ViewBoth \/ ReleaseBoth
        \/ PackingStep

(* A call that has begun runs on: WF_allVars(PackingStep), with the        *)
(* condition ENABLED PackingStep, true exactly while a call runs, written  *)
(* out.                                                                    *)
Fairness == []<>(call = "none") \/ []<><<PackingStep>>_allVars

Spec == InitBoth /\ [][Next]_allVars /\ Fairness

-------------------------------------------------------------------------------
(* However a program mixes the calls, whatever default() returns and       *)
(* wherever an object is refused, both packers answer alike and hold the   *)
(* same bytes for the calls to come; only the limit of nesting may come    *)
(* earlier in fallback.py.                                                 *)
SameAnswers ==
  call = "none" /\ same =>
    /\ content = py_content
    /\ IF py_answer[1] = "raised" THEN answer[1] = "raised" ELSE answer = py_answer

(* A call returns or raises, also when default() keeps answering with      *)
(* objects it has to be asked about.                                       *)
CallEnds == (call # "none") ~> (call = "none")
===============================================================================
