---------------------------- MODULE FormatsDecoded ----------------------------
(***************************************************************************)
(* What was packed, against the decoder: items that hold no other are      *)
(* unpacked by the recursive decoder of fallback.py.                       *)
(***************************************************************************)
EXTENDS Formats

Decoder == INSTANCE FallbackDecode WITH RecursionLimit <- 2

(* The options to unpack with: what was packed by the old format, without  *)
(* use_bin_type, is read as bytes.                                         *)
User == [raw |-> ~given.use_bin_type, strict_map_key |-> TRUE,
         object_hook |-> FALSE, pairs_hook |-> FALSE, list_hook |-> FALSE,
         max_str_len |-> Decoder!Huge, max_bin_len |-> Decoder!Huge,
         max_array_len |-> Decoder!Huge, max_map_len |-> Decoder!Huge,
         max_ext_len |-> Decoder!Huge]

(* What must come out of unpacking o. *)
Number(n) == <<"int", Decoder!Shortest(n)>>
Count(n) == <<"count", Decoder!Length(Low(n, 4))>>
Meant(o) ==
  CASE IsHeader(o)           -> Count(o[2])
    [] o[1] = "int"          -> Number(o[2])
    [] o[1] = "str"          -> <<IF given.use_bin_type THEN "str" ELSE "bytes", o[2]>>
    [] o[1] = "memoryview"   -> <<"bytes", o[2]>>
    [] o[1] = "tuple"        -> <<"list", o[2]>>
    [] o[1] = "dict"         -> <<"dict", {}>>
    [] o[1] = "timestamp"    -> <<"timestamp", Number(o[2][2]), o[3]>>
    [] o[1] = "datetime"     -> <<"timestamp", Number(OfInt(o[2])), o[3] * 1000>>
    [] OTHER                 -> o
Object == IF item[1] = "sub" THEN Meant(item[2]) ELSE Meant(item)

Unpacked(s) ==
  IF item[1] = "array_header" THEN Decoder!CountOf(s, 1, User, "ARRAY")
  ELSE IF item[1] = "map_header" THEN Decoder!CountOf(s, 1, User, "MAP")
  ELSE Decoder!Construct(s, 1, User)
Means(s) == Unpacked(s) = Decoder!Good(Object, Len(s) + 1)

(* Every way to write the item that the format has, and many that mean     *)
(* something else.  Without use_bin_type the types added with it are not   *)
(* used.                                                                   *)
New == IF given.use_bin_type THEN {196, 197, 198, 217} ELSE {}
Sized(s) ==
  LET l == OfInt(Len(s)) IN
  {<<c + Len(s)>> \o s : c \in IF Len(s) < 32 THEN {160} ELSE {}}
  \cup {<<c>> \o Low(l, IF c < 199 THEN 2 ^ (c - 196) ELSE 2 ^ (c - 217)) \o s :
          c \in New \cup {218, 219}}
Extended(code, s) ==
  LET l == OfInt(Len(s)) IN
  {<<c, code % 256>> \o s : c \in 212 .. 216}
  \cup {<<c>> \o Low(l, 2 ^ (c - 199)) \o <<code % 256>> \o s : c \in 199 .. 201}
Encodings ==
  CASE item[1] = "int" ->
         {Low(item[2], 1)}
         \cup {<<c>> \o Low(item[2], 2 ^ ((c - 204) % 4)) : c \in 204 .. 211}
    [] item[1] = "array_header" ->
         {<<144 + (Low(item[2], 1)[1] % 16)>>, <<220>> \o Low(item[2], 2),
          <<221>> \o Low(item[2], 4)}
    [] item[1] = "map_header" ->
         {<<128 + (Low(item[2], 1)[1] % 16)>>, <<222>> \o Low(item[2], 2),
          <<223>> \o Low(item[2], 4)}
    [] item[1] \in {"str", "bytes", "memoryview"} -> Sized(item[2])
    [] item[1] = "ext" -> Extended(item[2], item[3])
    [] item[1] = "timestamp" ->
         Extended(255, Low(item[2][2], 4))
         \cup Extended(255, data64(item[2][2], item[3]))
         \cup Extended(255, OfInt(item[3]) \o Low(item[2][2], 8))
    [] OTHER -> {}

(* What the C writers pack is unpacked to the same object, with nothing    *)
(* left over: at every power of two where the format changes, and for      *)
(* every length and time.                                                  *)
RoundTrip == cython.status = "ok" => Means(cython.out)

(* The packers use the shortest format that holds the object: nothing      *)
(* shorter is unpacked to it.                                              *)
NoShorter ==
  cython.status = "ok" =>
    \A s \in Encodings : Len(s) < Len(cython.out) => ~Means(s)

(* What test_timestamp.py asserts of from_datetime(), and the note in      *)
(* Timestamp's documentation says of times before the epoch: the Timestamp *)
(* made of a datetime is that datetime.                                    *)
DatetimeKept ==
  fallback.status = "ok" /\ item[1] = "datetime" => Means(fallback.out)
===============================================================================
