-------------------------------- MODULE Values --------------------------------
(***************************************************************************)
(* Python objects as both decoders build them, and the conversions from    *)
(* bytes to them.  An object is a tuple whose first element is its type.   *)
(*                                                                         *)
(* An int is written as its shortest two's complement byte string, which   *)
(* is the same for equal numbers whatever format they were packed in and   *)
(* holds 64-bit numbers TLC's integers cannot.                             *)
(***************************************************************************)
EXTENDS Integers, Sequences, FiniteSets

Null == <<"null">>  \* no object: NULL in C
Fail == <<"fail">>  \* the conversion raised
Malformed == <<"malformed">>  \* a timestamp of no known length

(* A leading byte that only repeats the sign of the next one adds nothing. *)
Redundant(n, i) == \/ n[i] = 0 /\ n[i + 1] < 128
                   \/ n[i] = 255 /\ n[i + 1] >= 128
Shortest(n) ==
  LET first == CHOOSE i \in 1 .. Len(n) :
                 /\ i = Len(n) \/ ~Redundant(n, i)
                 /\ \A j \in 1 .. i - 1 : Redundant(n, j)
  IN SubSeq(n, first, Len(n))

Signed(n)   == <<"int", Shortest(n)>>
Unsigned(n) == <<"int", Shortest(<<0>> \o n)>>

(* A length field of one, two or four bytes.  Lengths from 2^31 up are all *)
(* read as Huge: no input of an instance is that long, and no limit.       *)
Huge == 2147483647
Length(n) ==
  CASE Len(n) = 1 -> n[1]
    [] Len(n) = 2 -> n[1] * 256 + n[2]
    [] Len(n) = 4 -> IF n[1] >= 128 THEN Huge
                     ELSE ((n[1] * 256 + n[2]) * 256 + n[3]) * 256 + n[4]

(* Text: UTF-8 unless raw is set.  The inputs of the instances hold no     *)
(* multi-byte character, so every byte from 0x80 up is undecodable.        *)
Text(raw, b) ==
  IF raw THEN <<"bytes", b>>
  ELSE IF \E i \in 1 .. Len(b) : b[i] >= 128 THEN Fail ELSE <<"str", b>>

(* A timestamp payload: seconds and nanoseconds packed in 4, 8 or 12       *)
(* bytes.  The Timestamp constructor refuses a billion nanoseconds and up. *)
Timestamp(sec, nsec) ==
  IF nsec >= 1000000000 THEN Fail ELSE <<"timestamp", sec, nsec>>
TimestampFromBytes(b) ==
  CASE Len(b) = 4  -> Timestamp(Unsigned(b), 0)
    [] Len(b) = 8  -> Timestamp(Unsigned(<<b[4] % 4>> \o SubSeq(b, 5, 8)),
                                b[1] * 2^22 + b[2] * 2^14 + b[3] * 2^6 + b[4] \div 4)
    [] Len(b) = 12 -> Timestamp(Signed(SubSeq(b, 5, 12)), Length(SubSeq(b, 1, 4)))
    [] OTHER       -> Malformed

(* Code -1 is a timestamp; the default ext_hook, ExtType, refuses the      *)
(* other negative ones.                                                    *)
Extension(code, b) ==
  CASE code = 255 -> TimestampFromBytes(b)
    [] code < 128 -> <<"ext", code, b>>
    [] OTHER      -> Fail

(* Mappings.  Keys compare as modelled objects: that Python's 1, 1.0 and   *)
(* True are one key is left out.                                           *)
Hashable(k) == k[1] \notin {"list", "dict", "pairs"}
StrictKey(k) == k[1] \in {"str", "bytes"}
WithItem(d, k, v) == <<"dict", {e \in d[2] : e[1] # k} \cup {<<k, v>>}>>
===============================================================================
