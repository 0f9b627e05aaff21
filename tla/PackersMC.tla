------------------------------- MODULE PackersMC ------------------------------
(***************************************************************************)
(* Instances of Packers for TLC.                                           *)
(***************************************************************************)
EXTENDS Packers

One == <<"int", <<1>>>>
A == <<"str", <<65>>>>

(* a becomes a dict, b a list that holds another b, c an e and e a c;      *)
(* default() raises for d and makes None of everything else.               *)
MCDefault(o) ==
  CASE o = <<"user", "a">> -> <<"dict", <<<<A, One>>>>>>
    [] o = <<"user", "b">> -> <<"list", <<o>>>>
    [] o = <<"user", "c">> -> <<"user", "e">>
    [] o = <<"user", "e">> -> <<"user", "c">>
    [] o = <<"user", "d">> -> <<"raises">>
    [] OTHER               -> <<"nil">>

MCArgs ==
  {One, <<"list", <<One, <<"user", "a">>>>>>, <<"list", <<A, <<"user", "d">>>>>>,
   <<"user", "b">>, <<"user", "c">>,
   <<"dict", <<<<A, <<"dict", <<<<A, One>>>>>>>>>>>>,
   <<"list", <<<<"int", <<1, 0, 0, 0, 0, 0, 0, 0, 0>>>>>>>>,
   <<"timestamp", <<"int", <<1>>>>, 0>>}
MCPairLists == {<<<<A, One>>>>, <<<<<<"user", "d">>, One>>>>}
MCSizes == {<<3>>, <<1, 0, 0, 0, 0>>}
MCExts == {<<5, <<65>>>>}

MCOptions ==
  {[use_bin_type |-> TRUE, strict_types |-> FALSE, datetime |-> FALSE,
    default |-> d, autoreset |-> a] : d, a \in BOOLEAN}
===============================================================================
