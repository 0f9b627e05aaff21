------------------------------- MODULE UnpackbMC ------------------------------
(***************************************************************************)
(* Instances of Unpackb for TLC: every short string over an alphabet that  *)
(* has a byte of each header class, and longer inputs for the wide formats.*)
(***************************************************************************)
EXTENDS UnpackbDecoded

(* 0 and 2 are fixints, lengths and payload; then fixmap 0-2, fixarray 0-2,*)
(* fixstr 0-1, nil, never used, bin 8, ext 8, uint 8, fixext 1, str 8,     *)
(* array 16, map 16 and -1.                                                *)
Alphabet == {0, 2, 128, 129, 130, 144, 145, 146, 160, 161, 192, 193, 196, 199,
             204, 212, 217, 220, 222, 255}
Short(n) == UNION {[1 .. k -> Alphabet] : k \in 0 .. n}

MCShort3 == Short(3)

(* Containers over a smaller alphabet, one byte longer each. *)
Nested(n) == UNION {[1 .. k -> {1, 129, 145, 146, 161, 192}] : k \in 0 .. n}
MCNested5 == Nested(5)

Zeros(k) == [i \in 1 .. k |-> 0]
Wide ==
  {<<194>>, <<195>>, <<224>>, <<127>>, <<197, 0, 1, 7>>, <<197, 1, 0, 7>>, <<198, 0, 0, 0, 1, 7>>,
   <<198, 255, 255, 255, 255>>, <<200, 0, 1, 5, 7>>, <<201, 0, 0, 0, 1, 5, 7>>,
   <<201, 0, 0, 0, 0, 5>>, <<201, 255, 255, 255, 255>>, <<201, 255, 255, 255, 255, 0>>,
   <<201, 255, 255, 255, 254, 0>>, <<202, 1, 2, 3, 4>>,
   <<203, 1, 2, 3, 4, 5, 6, 7, 8>>, <<203, 1, 2, 3, 4, 5, 6, 7>>,
   <<205, 1, 2>>, <<205, 0, 200>>, <<206, 255, 0, 0, 1>>,
   <<207, 255, 0, 0, 0, 0, 0, 0, 1>>, <<208, 200>>, <<208, 7>>, <<209, 255, 7>>,
   <<209, 255, 200>>, <<210, 255, 255, 255, 128>>,
   <<211, 255, 255, 255, 255, 127, 255, 255, 255>>, <<213, 5, 1, 2>>,
   <<214, 255, 0, 0, 0, 9>>, <<215, 255, 238, 107, 39, 252, 0, 0, 0, 1>>,
   <<215, 255, 238, 107, 40, 1, 0, 0, 0, 1>>, <<215, 254>> \o Zeros(8),
   <<216, 5>> \o Zeros(16), <<216, 255>> \o Zeros(16),
   <<199, 12, 255, 59, 154, 201, 255>> \o Zeros(8),
   <<199, 12, 255, 59, 154, 202, 0>> \o Zeros(8),
   <<199, 12, 255, 200, 0, 0, 0>> \o Zeros(8), <<199, 3, 255, 0, 0, 0>>,
   <<199, 4, 255, 255, 0, 0, 0>>, <<218, 0, 1, 65>>, <<219, 0, 0, 0, 1, 65>>,
   <<219, 128, 0, 0, 0>>, <<221, 0, 0, 0, 1, 1>>, <<221, 0, 0, 0, 0>>,
   <<221, 255, 255, 255, 255>>, <<223, 0, 0, 0, 1, 161, 65, 1>>,
   <<223, 0, 0, 0, 0>>, <<222, 0, 1, 1, 1>>,
   \* duplicate keys, mixed keys, containers as keys
   <<130, 161, 65, 1, 161, 65, 2>>, <<130, 161, 65, 1, 196, 1, 65, 2>>,
   <<129, 1, 1>>, <<129, 144, 1>>, <<129, 128, 1, 0, 0>>, <<129, 145, 1, 1>>,
   <<129, 161, 65, 130, 161, 66, 1, 161, 67, 145, 2>>}

(* Each input of Wide, alone, cut short, followed by a byte, and inside an *)
(* array.                                                                  *)
Cut(s) == {SubSeq(s, 1, k) : k \in 0 .. Len(s) - 1}
MCWide == Wide \cup UNION {Cut(s) : s \in Wide}
          \cup {s \o <<0>> : s \in Wide} \cup {<<146, 1>> \o s : s \in Wide}

Defaults == [raw |-> FALSE, strict_map_key |-> TRUE, object_hook |-> FALSE,
             pairs_hook |-> FALSE, list_hook |-> FALSE, max_str_len |-> -1,
             max_bin_len |-> -1, max_array_len |-> -1, max_map_len |-> -1,
             max_ext_len |-> -1]
Limits(k) == [Defaults EXCEPT !.max_str_len = k, !.max_bin_len = k,
                              !.max_array_len = k, !.max_map_len = k,
                              !.max_ext_len = k]

MCOptions ==
  {Defaults, [Defaults EXCEPT !.raw = TRUE, !.strict_map_key = FALSE], Limits(1),
   [Defaults EXCEPT !.list_hook = TRUE, !.object_hook = TRUE, !.strict_map_key = FALSE],
   [Defaults EXCEPT !.pairs_hook = TRUE, !.strict_map_key = FALSE]}
MCPairsStrict == {[Defaults EXCEPT !.pairs_hook = TRUE]}
MCInputs == MCShort3 \cup MCNested5 \cup MCWide
===============================================================================
