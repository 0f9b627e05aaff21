------------------------------ MODULE PackTemplate ----------------------------
(***************************************************************************)
(* The C writers of msgpack/pack_template.h: which format an integer, a    *)
(* length or a timestamp is given, and its bytes.  Numbers and lengths are *)
(* byte strings (see Numbers); every operator gives the argument of the    *)
(* msgpack_pack_write() it ends in.  Objects are as in FallbackPack.       *)
(***************************************************************************)
EXTENDS Numbers

(* The longest array or map Packer accepts: 2^32 - 1 items. *)
ITEM_LIMIT == <<0, 255, 255, 255, 255>>

(* Variant of real_uint64: the 8-bit test of a signed byte. *)
real_uint64Signed(d) ==
  Chosen(d, << <<Less(d, Pow(8)), <<>>, 1>>, <<Less(d, Pow(16)), <<205>>, 2>>,
               <<Less(d, Pow(32)), <<206>>, 4>>, <<TRUE, <<207>>, 8>> >>)

real_uint64(d) ==
  Chosen(d, << <<Less(d, Pow(7)), <<>>, 1>>,
               <<Less(d, Pow(8)), <<204>>, 1>>,
               <<Less(d, Pow(16)), <<205>>, 2>>,
               <<Less(d, Pow(32)), <<206>>, 4>>,
               <<TRUE, <<207>>, 8>> >>)

(* Variant of real_int64: -2^7 is given two bytes. *)
real_int64Late(d) ==
  IF ~Less(d, NegPow(5)) THEN real_uint64(d)
  ELSE Chosen(d, << <<Less(d, NegPow(31)), <<211>>, 8>>,
                    <<Less(d, NegPow(15)), <<210>>, 4>>,
                    <<~Less(NegPow(7), d), <<209>>, 2>>,
                    <<TRUE, <<208>>, 1>> >>)

real_int64(d) ==
  IF ~Less(d, NegPow(5)) THEN real_uint64(d)
  ELSE Chosen(d, << <<Less(d, NegPow(31)), <<211>>, 8>>,
                    <<Less(d, NegPow(15)), <<210>>, 4>>,
                    <<Less(d, NegPow(7)), <<209>>, 2>>,
                    <<TRUE, <<208>>, 1>> >>)

(* The counts of arrays and maps are unsigned ints in C. *)
unsigned(n) == <<0>> \o Low(n, 4)
counted(n, fix, code) ==
  Chosen(n, << <<Less(n, Pow(4)), <<fix + Low(n, 1)[1]>>, 0>>,
               <<Less(n, Pow(16)), <<code>>, 2>>,
               <<TRUE, <<code + 1>>, 4>> >>)
pack_array(n) == counted(unsigned(n), 144, 220)
pack_map(n)   == counted(unsigned(n), 128, 222)

(* Variant of pack_raw: str 8 whatever use_bin_type says. *)
pack_rawStr8(l, use_bin_type) ==
  Chosen(l, << <<Less(l, Pow(5)), <<160 + Low(l, 1)[1]>>, 0>>,
               <<Less(l, Pow(8)), <<217>>, 1>>,
               <<Less(l, Pow(16)), <<218>>, 2>>,
               <<TRUE, <<219>>, 4>> >>)

pack_raw(l, use_bin_type) ==
  Chosen(l, << <<Less(l, Pow(5)), <<160 + Low(l, 1)[1]>>, 0>>,
               <<use_bin_type /\ Less(l, Pow(8)), <<217>>, 1>>,
               <<Less(l, Pow(16)), <<218>>, 2>>,
               <<TRUE, <<219>>, 4>> >>)

pack_bin(l, use_bin_type) ==
  IF ~use_bin_type THEN pack_raw(l, use_bin_type)
  ELSE Chosen(l, << <<Less(l, Pow(8)), <<196>>, 1>>,
                    <<Less(l, Pow(16)), <<197>>, 2>>,
                    <<TRUE, <<198>>, 4>> >>)

(* Variant of typebyte: the sign of the code is kept. *)
typebyteSigned(typecode) == typecode

(* (unsigned char)typecode, in the last byte of a header. *)
typebyte(typecode) == typecode % 256

fixext(l) == {k \in 0 .. 4 : Wide(l) = Pow(k)}
pack_ext(typecode, l) ==
  (IF fixext(l) # {} THEN <<212 + CHOOSE k \in fixext(l) : TRUE>>
   ELSE Chosen(l, << <<Less(l, Pow(8)), <<199>>, 1>>,
                     <<Less(l, Pow(16)), <<200>>, 2>>,
                     <<TRUE, <<201>>, 4>> >>)) \o <<typebyte(typecode)>>

(* 30 bits of nanoseconds over 34 bits of seconds. *)
data64(sec, nsec) ==
  <<nsec \div 2^22, (nsec \div 2^14) % 256, (nsec \div 2^6) % 256,
    (nsec % 64) * 4 + Wide(sec)[5]>> \o Low(sec, 4)

(* The header and the payload are written one after the other. *)
pack_timestamp(sec, nsec) ==
  IF Within(sec, Zero, Pow(34))
    THEN IF nsec = 0 /\ Less(sec, Pow(32))
           THEN <<pack_ext(-1, <<4>>), Low(sec, 4)>>
           ELSE <<pack_ext(-1, <<8>>), data64(sec, nsec)>>
    ELSE <<pack_ext(-1, <<12>>), OfInt(nsec) \o Low(sec, 8)>>

-------------------------------------------------------------------------------
(* _pack_inner().  An instance of a subclass counts as one of its type,    *)
(* except where the type is compared exactly.                              *)
Recognised(o, strict_types) ==
  IF o[1] = "sub" /\ ~strict_types /\ o[2][1] \notin {"timestamp", "datetime"}
    THEN o[2] ELSE o

CanConvert(n) == Within(n, NegPow(63), Pow(64))

(* default() is asked for these (-2), and they are refused without it. *)
Unknown(o, opt) ==
  \/ o[1] = "int" /\ ~CanConvert(o[2])
  \/ o[1] = "tuple" /\ opt.strict_types
  \/ o[1] = "datetime" /\ ~opt.datetime
  \/ o[1] \in {"naive", "user", "sub"}
Refusal(o, opt) ==
  CASE o[1] = "int" -> "OverflowError"
    [] o[1] = "naive" /\ opt.datetime -> "ValueError"
    [] OTHER -> "TypeError"

(* The exception a conversion to C raises whatever default() is. *)
Failure(o) ==
  CASE o[1] = "unencodable" -> "UnicodeEncodeError"
    [] o[1] = "timestamp" /\ ~Within(o[2][2], NegPow(63), Pow(63)) -> "OverflowError"
    [] OTHER -> "ok"

(* The byte strings handed to msgpack_pack_write(), in order, for o up to  *)
(* the objects in it.  The eight bytes of a double are its value in the    *)
(* model.                                                                  *)
Body(s) == IF s = <<>> THEN <<>> ELSE <<s>>
Writes(o, use_bin_type) ==
  CASE o[1] = "nil"   -> <<<<192>>>>
    [] o[1] = "bool"  -> <<IF o[2] THEN <<195>> ELSE <<194>>>>
    [] o[1] = "int"   -> <<IF Less(Zero, o[2]) THEN real_uint64(o[2])
                                               ELSE real_int64(o[2])>>
    [] o[1] = "float" -> <<<<203>> \o o[2]>>
    [] o[1] \in {"bytes", "memoryview"} ->
         <<pack_bin(OfInt(Len(o[2])), use_bin_type)>> \o Body(o[2])
    [] o[1] = "str"   -> <<pack_raw(OfInt(Len(o[2])), use_bin_type)>> \o Body(o[2])
    [] o[1] = "ext"   -> <<pack_ext(o[2], OfInt(Len(o[3])))>> \o Body(o[3])
    [] o[1] = "timestamp" -> pack_timestamp(o[2][2], o[3])
    [] o[1] = "datetime"  -> pack_timestamp(OfInt(o[2]), o[3] * 1000)
    [] o[1] \in {"list", "tuple"} -> <<pack_array(OfInt(Len(o[2])))>>
    [] o[1] = "dict"  -> <<pack_map(OfInt(Len(o[2])))>>
KeysAndValues(pairs) ==
  [i \in 1 .. 2 * Len(pairs) |-> pairs[(i + 1) \div 2][2 - (i % 2)]]
Parts(o) ==
  CASE o[1] \in {"list", "tuple"} -> o[2]
    [] o[1] = "dict"              -> KeysAndValues(o[2])
    [] OTHER                      -> <<>>

(* What _pack_inner() does with an object: the exception it ends in, or    *)
(* the writes, and the objects to pack after them.  The writes of          *)
(* msgpack_pack_timestamp() are not checked for an error.                  *)
PackInner(obj, opt) ==
  LET o == Recognised(obj, opt.strict_types)
      unknown == Unknown(o, opt)
      status == IF unknown THEN Refusal(o, opt) ELSE Failure(o)
  IN [status  |-> status,
      unknown |-> unknown,
      writes  |-> IF status = "ok" THEN Writes(o, opt.use_bin_type) ELSE <<>>,
      checked |-> o[1] \notin {"timestamp", "datetime"},
      parts   |-> IF status = "ok" THEN Parts(o) ELSE <<>>]
===============================================================================
