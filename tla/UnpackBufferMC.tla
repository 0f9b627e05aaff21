---------------------------- MODULE UnpackBufferMC ----------------------------
(***************************************************************************)
(* Instances of UnpackBuffer for TLC.                                      *)
(***************************************************************************)
EXTENDS UnpackBuffer

(* Chunks of up to five bytes, none of them a constant or a periodic       *)
(* sequence, so that a byte out of place is seen.                          *)
MCByte == {1, 2}
MCChunks == {<<>>, <<1>>, <<2, 1>>, <<2, 2, 1, 2, 1>>}

(* An Unpacker whose hooks and conversions never raise, so that whatever   *)
(* tell() misses was missed by read_bytes().                               *)
QuietSpec == Init /\ [][Next /\ outcome' # "CallbackError"]_vars
===============================================================================
