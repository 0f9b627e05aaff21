---------------------------- MODULE FallbackFormats ---------------------------
(***************************************************************************)
(* The formats fallback.py gives numbers, lengths and timestamps: what     *)
(* _pack() and its helpers write for an object that holds no other.        *)
(* Numbers are byte strings (see Numbers).                                 *)
(***************************************************************************)
EXTENDS PackTemplate

(* out holds what was written, before an exception too; asks says that     *)
(* default() gets the object, if there is one, before the exception.       *)
Wrote(s) == [status |-> "ok", out |-> s, asks |-> FALSE]
Raised(status) == [status |-> status, out |-> <<>>, asks |-> FALSE]
NotKnown(status) == [status |-> status, out |-> <<>>, asks |-> TRUE]

(* The formats of integers, in the order _pack() tries them. *)
IntFormats(n) ==
  << <<Within(n, Zero, Pow(7)), <<>>, 1>>,
     <<Within(n, NegPow(5), Zero), <<>>, 1>>,
     <<Within(n, Pow(7), Pow(8)), <<204>>, 1>>,
     <<Within(n, NegPow(7), Zero), <<208>>, 1>>,
     <<Within(n, Pow(8), Pow(16)), <<205>>, 2>>,
     <<Within(n, NegPow(15), NegPow(7)), <<209>>, 2>>,
     <<Within(n, Pow(16), Pow(32)), <<206>>, 4>>,
     <<Within(n, NegPow(31), NegPow(15)), <<210>>, 4>>,
     <<Within(n, Pow(32), Pow(64)), <<207>>, 8>>,
     <<Within(n, NegPow(63), NegPow(31)), <<211>>, 8>> >>
InRange(n) == \E i \in DOMAIN IntFormats(n) : IntFormats(n)[i][1]

CountHeader(n, fix, code) ==
  IF ~Less(n, Pow(32)) THEN Raised("ValueError")
  ELSE Wrote(Chosen(n, << <<Less(n, Pow(4)), <<fix + Low(n, 1)[1]>>, 0>>,
                          <<Less(n, Pow(16)), <<code>>, 2>>,
                          <<TRUE, <<code + 1>>, 4>> >>))
ArrayHeader(n) == CountHeader(n, 144, 220)
MapHeader(n)   == CountHeader(n, 128, 222)

RawHeader(n, use_bin_type) ==
  Chosen(n, << <<Less(n, Pow(5)), <<160 + Low(n, 1)[1]>>, 0>>,
               <<use_bin_type /\ Less(n, Pow(8)), <<217>>, 1>>,
               <<Less(n, Pow(16)), <<218>>, 2>>,
               <<Less(n, Pow(32)), <<219>>, 4>> >>)
BinHeader(n, use_bin_type) ==
  IF ~use_bin_type THEN RawHeader(n, use_bin_type)
  ELSE Chosen(n, << <<Less(n, Pow(8)), <<196>>, 1>>,
                    <<Less(n, Pow(16)), <<197>>, 2>>,
                    <<Less(n, Pow(32)), <<198>>, 4>> >>)
ExtHeader(n, code) ==
  Chosen(n, << <<Wide(n) = Pow(0), <<212>>, 0>>, <<Wide(n) = Pow(1), <<213>>, 0>>,
               <<Wide(n) = Pow(2), <<214>>, 0>>, <<Wide(n) = Pow(3), <<215>>, 0>>,
               <<Wide(n) = Pow(4), <<216>>, 0>>,
               <<Less(n, Pow(8)), <<199>>, 1>>,
               <<Less(n, Pow(16)), <<200>>, 2>>,
               <<TRUE, <<201>>, 4>> >>) \o <<code % 256>>

Size(s) == OfInt(Len(s))

(* Timestamp.to_bytes(): struct.pack() refuses what 64 bits do not hold.   *)
ToBytes(sec, nsec) ==
  IF Within(sec, Zero, Pow(34))
    THEN IF nsec = 0 /\ Less(sec, Pow(32)) THEN Low(sec, 4) ELSE data64(sec, nsec)
    ELSE OfInt(nsec) \o Low(sec, 8)
PackTimestamp(sec, nsec) ==
  IF Within(sec, NegPow(63), Pow(63))
    THEN Wrote(ExtHeader(Size(ToBytes(sec, nsec)), -1) \o ToBytes(sec, nsec))
    ELSE Raised("struct.error")

(* Timestamp.from_datetime(): int() cuts the fraction off towards zero. A  *)
(* datetime is whole seconds, rounded down, and microseconds.              *)
FromDatetime(sec, usec) ==
  LET cut == IF sec < 0 /\ usec > 0 THEN sec + 1 ELSE sec
  IN <<"timestamp", <<"int", OfInt(cut)>>, usec * 1000>>

(* What isinstance(), or with strict_types the exact type, makes of o. *)
Seen(o, strict_types) == IF o[1] = "sub" /\ ~strict_types THEN o[2] ELSE o

(* What _pack() writes for s itself, before the objects in it. *)
WriteSelf(s, opt) ==
  CASE s[1] = "nil"       -> Wrote(<<192>>)
    [] s[1] = "bool"      -> Wrote(IF s[2] THEN <<195>> ELSE <<194>>)
    [] s[1] = "int"       -> IF InRange(s[2]) THEN Wrote(Chosen(s[2], IntFormats(s[2])))
                             ELSE NotKnown("OverflowError")
    [] s[1] \in {"bytes", "memoryview"} ->
         Wrote(BinHeader(Size(s[2]), opt.use_bin_type) \o s[2])
    [] s[1] = "str"       -> Wrote(RawHeader(Size(s[2]), opt.use_bin_type) \o s[2])
    [] s[1] = "unencodable" -> Raised("UnicodeEncodeError")
    [] s[1] = "float"     -> Wrote(<<203>> \o s[2])
    [] s[1] = "timestamp" -> PackTimestamp(s[2][2], s[3])
    [] s[1] = "ext"       -> Wrote(ExtHeader(Size(s[3]), s[2]) \o s[3])
    [] s[1] = "list" \/ (s[1] = "tuple" /\ ~opt.strict_types) -> ArrayHeader(Size(s[2]))
    [] s[1] = "dict"      -> MapHeader(Size(s[2]))
    [] s[1] = "datetime" /\ opt.datetime ->
         LET t == FromDatetime(s[2], s[3]) IN PackTimestamp(t[2][2], t[3])
    [] s[1] = "naive" /\ opt.datetime -> NotKnown("ValueError")
    [] OTHER              -> NotKnown("TypeError")
===============================================================================
