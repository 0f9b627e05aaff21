--------------------------- MODULE FallbackUnpackerMC -------------------------
(***************************************************************************)
(* Instances of FallbackUnpacker for TLC.                                  *)
(***************************************************************************)
EXTENDS FallbackUnpacker

CONSTANT RecursionLimit  \* of the interpreter

Decoder == INSTANCE FallbackDecode
MCDecodedBy(m, d, u) == Decoder!DecodeCall(m, d, u)

(* Objects shorter and longer than a buffer of 4, nested, with length      *)
(* fields and payloads to reserve, and faulty data.                        *)
MCStreams ==
  {<<146, 1, 161, 65, 192>>,          \* [1, "A"], nil
   <<129, 161, 65, 145, 2>>,          \* {"A": [2]}
   <<192, 205, 1, 2, 199, 1, 5, 7>>,  \* nil, 258, ExtType(5, b"\7")
   <<220, 0, 2, 195, 196, 1, 7>>,     \* [True, b"\7"]
   <<144, 128, 160, 196, 0>>,         \* [], {}, "", b""
   <<192, 146, 1, 193>>,              \* nil, then an invalid byte in an array
   <<129, 1, 161, 200>>,              \* a map with an int key, bad text
   <<165, 65, 66, 67, 68, 69>>}       \* a str longer than the buffer may be

MCUser == [raw |-> FALSE, strict_map_key |-> TRUE, object_hook |-> FALSE,
           pairs_hook |-> FALSE, list_hook |-> FALSE, max_str_len |-> 20,
           max_bin_len |-> 20, max_array_len |-> 20, max_map_len |-> 20,
           max_ext_len |-> 20]

(* Inputs that meet limits of 2, hooks and the recursion limit. *)
MCRefusals ==
  {<<145, 145, 145, 145, 1, 192>>,    \* arrays deeper than the limit
   <<192, 199, 3, 255, 0, 0, 0, 192>>,\* a timestamp of three bytes
   <<147, 1, 2, 3>>,                  \* an array longer than max_array_len
   <<1, 163, 65, 66, 67, 192>>,       \* a str longer than max_str_len
   <<129, 161, 65, 146, 1, 144>>}     \* {"A": [1, []]}

MCStrictUser == [MCUser EXCEPT !.object_hook = TRUE, !.list_hook = TRUE,
                               !.max_str_len = 2, !.max_bin_len = 2,
                               !.max_array_len = 2, !.max_map_len = 2]

MCCases == MCStreams \X {MCUser} \cup MCRefusals \X {MCStrictUser}
===============================================================================
