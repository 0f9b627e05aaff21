---------------------------- MODULE CythonUnpackerMC --------------------------
(***************************************************************************)
(* Instances of CythonUnpacker for TLC.                                    *)
(***************************************************************************)
EXTENDS CythonUnpackerMessages

(* Short inputs, each of several objects or of one with several kinds of   *)
(* state to resume in: nested containers, length fields, payloads, empty   *)
(* values, and faulty data.                                                *)
MCStreams ==
  {<<146, 1, 161, 65, 192>>,          \* [1, "A"], nil
   <<129, 161, 65, 145, 2>>,          \* {"A": [2]}
   <<205, 1, 2, 199, 1, 5, 7>>,       \* 258, ExtType(5, b"\7")
   <<220, 0, 2, 195, 196, 1, 7>>,     \* [True, b"\7"]
   <<144, 128, 160, 196, 0>>,         \* [], {}, "", b""
   <<222, 0, 1, 161, 65, 144>>,       \* {"A": []}
   <<192, 146, 1, 193>>,              \* nil, then an invalid byte in an array
   <<129, 1, 161, 200>>,              \* a map with an int key, bad text
   <<165, 65, 66, 67, 68, 69>>}       \* a str longer than the buffer may be

MCUser == [raw |-> FALSE, strict_map_key |-> TRUE, object_hook |-> FALSE,
           pairs_hook |-> FALSE, list_hook |-> FALSE, max_str_len |-> 20,
           max_bin_len |-> 20, max_array_len |-> 20, max_map_len |-> 20,
           max_ext_len |-> 20]

(* Inputs that meet hooks, limits of 2 and a stack of 3 frames.            *)
MCRefusals ==
  {<<145, 145, 145, 145, 1, 192>>,    \* the fourth array finds no frame
   <<199, 3, 255, 0, 0, 0, 192>>,     \* a timestamp of three bytes
   <<147, 1, 2, 3>>,                  \* an array longer than max_array_len
   <<131, 1, 2>>,                     \* a map longer than max_map_len
   <<163, 65, 66, 67, 192>>,          \* a str longer than max_str_len
   <<129, 161, 65, 146, 1, 144>>,     \* {"A": [1, []]}
   <<128, 144, 193>>}                 \* {}, [], then an invalid byte

MCStrictUser == [MCUser EXCEPT !.object_hook = TRUE, !.list_hook = TRUE,
                               !.max_str_len = 2, !.max_bin_len = 2,
                               !.max_array_len = 2, !.max_map_len = 2]

MCCases == MCStreams \X {MCUser} \cup MCRefusals \X {MCStrictUser}

(* An ext 32 whose length field is all ones, then five bytes of payload.   *)
MCLongExt == {<<201, 255, 255, 255, 255, 5, 1, 2>>} \X {MCUser}
===============================================================================
