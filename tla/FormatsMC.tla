------------------------------- MODULE FormatsMC ------------------------------
(***************************************************************************)
(* Items for Formats: the numbers around every power of two at which a     *)
(* format changes, or might.                                               *)
(***************************************************************************)
EXTENDS FormatsDecoded

(* 2^k - 1, 2^k and 2^k + 1, and their negatives less or plus one. *)
Edge(k) ==
  LET below == [i \in 1 .. 9 |-> IF i = 9 - k \div 8 THEN 2 ^ (k % 8) - 1
                                 ELSE IF i > 9 - k \div 8 THEN 255 ELSE 0]
      above == [Pow(k) EXCEPT ![9] = @ + 1]
      under == [i \in 1 .. 9 |-> 255 - Pow(k)[i]]  \* -2^k - 1
      over  == [NegPow(k) EXCEPT ![9] = (@ + 1) % 256]
  IN {below, Pow(k), above, under, NegPow(k), over}

MCPowers == {1, 4, 5, 7, 8, 15, 16, 31, 32, 33, 34, 35, 63, 64}
MCInts == {<<"int", n>> : n \in UNION {Edge(k) : k \in MCPowers} \cup {Zero}}

(* Counts that are not negative; those up to 2^32 are packed. *)
MCCounts ==
  {n \in UNION {Edge(k) : k \in {4, 8, 15, 16, 31, 32}} \cup {Zero} : n[1] < 128}
MCHeaders == {"array_header", "map_header"} \X MCCounts

Letters(k) == [i \in 1 .. k |-> 65]
Lengths == {0, 1, 2, 3, 4, 5, 8, 15, 16, 17, 31, 32, 33, 127, 128, 255, 256, 257}
MCSized == {"str", "bytes", "memoryview"} \X {Letters(k) : k \in Lengths}
           \cup {<<"ext", code, Letters(k)>> : code \in {0, 5, 127}, k \in Lengths}

MCTimes ==
  {<<"timestamp", <<"int", sec>>, nsec>> :
     sec \in UNION {Edge(k) : k \in {8, 31, 32, 33, 34, 63}} \cup {Zero},
     nsec \in {0, 1, 999999999}}

(* Datetimes from 1969 to 1970, whole seconds before the epoch. *)
MCDatetimes ==
  {<<"datetime", sec, usec>> : sec \in {0, 1, 3600}, usec \in {0, 1, 999999}}
  \cup {<<"datetime", sec, 0>> : sec \in {-1, -3600}}
MCBeforeEpoch == {<<"datetime", -1, 500000>>, <<"datetime", -1, 0>>}

MCOthers ==
  {<<"nil">>, <<"bool", TRUE>>, <<"bool", FALSE>>,
   <<"float", <<63, 240, 0, 0, 0, 0, 0, 0>>>>, <<"unencodable">>, <<"naive">>, <<"user", "a">>, <<"list", <<>>>>, <<"tuple", <<>>>>,
   <<"dict", <<>>>>}
MCSubclasses ==
  {<<"sub", o>> : o \in {<<"int", <<1>>>>, <<"str", Letters(2)>>, <<"tuple", <<>>>>,
                         <<"ext", 5, Letters(1)>>, <<"dict", <<>>>>, <<"naive">>}}

MCItems == MCInts \cup MCHeaders \cup MCSized \cup MCTimes \cup MCDatetimes
           \cup MCOthers \cup MCSubclasses

MCOptions ==
  {[use_bin_type |-> b, strict_types |-> s, datetime |-> TRUE, default |-> FALSE] :
     b, s \in BOOLEAN}
  \cup {[use_bin_type |-> TRUE, strict_types |-> FALSE, datetime |-> FALSE,
         default |-> FALSE]}
===============================================================================
