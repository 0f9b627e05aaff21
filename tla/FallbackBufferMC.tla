--------------------------- MODULE FallbackBufferMC ---------------------------
(***************************************************************************)
(* Instances of FallbackBuffer for TLC.                                    *)
(***************************************************************************)
EXTENDS FallbackBuffer

MCByte == {1, 2}
MCChunks == {<<>>, <<1>>, <<2, 1>>, <<2, 2, 1>>}
===============================================================================
