---------------------------- MODULE FormatsProofs ----------------------------
(***************************************************************************)
(* Both packers give every object and every count the same bytes, and both *)
(* refuse the same ones (SameBytesAlways).  First: the C writers write     *)
(* bytes, since each narrows what it is given to the width of its field,   *)
(* and the formats that put a number inside another byte are chosen only   *)
(* when it fits there (WritersWriteBytes).  Then: a comparison of byte     *)
(* strings is that of the integers they stand for (LessIsLess), so the     *)
(* tables of both packers say the same, row by row.                        *)
(***************************************************************************)
EXTENDS Formats, SequenceTheorems, TLAPS

Byte == {b \in Nat : b <= 255}
ByteString == Seq(Byte)

(* A number: one to nine bytes. *)
Num == {n \in ByteString : 1 <= Len(n) /\ Len(n) <= 9}

LEMMA Exponents ==
  /\ 2 ^ 6 = 64 /\ 2 ^ 8 = 256 /\ 2 ^ 14 = 16384 /\ 2 ^ 16 = 65536
  /\ 2 ^ 22 = 4194304 /\ 2 ^ 23 = 8388608 /\ 2 ^ 24 = 16777216
BY SMT

(* The powers of two that bound a number inside another byte. *)
LEMMA PowerBytes ==
  ASSUME NEW i \in 1 .. 9
  PROVE  /\ Pow(4)[i] = IF i = 9 THEN 16 ELSE 0
         /\ Pow(5)[i] = IF i = 9 THEN 32 ELSE 0
         /\ Pow(34)[i] = IF i = 5 THEN 4 ELSE 0
<1>1. /\ 9 - 4 \div 8 = 9 /\ 4 % 8 = 4
      /\ 9 - 5 \div 8 = 9 /\ 5 % 8 = 5
      /\ 9 - 34 \div 8 = 5 /\ 34 % 8 = 2
  BY SMT
<1>2. ASSUME NEW k \in 0 .. 64
      PROVE  Pow(k)[i] = IF i = 9 - k \div 8 THEN 2 ^ (k % 8) ELSE 0
  BY Zenon DEF Pow, Powers
<1>3. /\ Pow(4)[i] = IF i = 9 - 4 \div 8 THEN 2 ^ (4 % 8) ELSE 0
      /\ Pow(5)[i] = IF i = 9 - 5 \div 8 THEN 2 ^ (5 % 8) ELSE 0
      /\ Pow(34)[i] = IF i = 9 - 34 \div 8 THEN 2 ^ (34 % 8) ELSE 0
  <2>1. 4 \in 0 .. 64 /\ 5 \in 0 .. 64 /\ 34 \in 0 .. 64
    OBVIOUS
  <2>2. QED
    BY <1>2, <2>1, Zenon
<1>4. QED
  <2>1. 2 ^ 4 = 16 /\ 2 ^ 5 = 32 /\ 2 ^ 2 = 4
    BY SMT
  <2>2. QED
    BY <1>1, <1>3, <2>1, Zenon

LEMMA PowerSequence ==
  ASSUME NEW k \in 0 .. 64
  PROVE  Pow(k) \in Seq({Pow(k)[i] : i \in 1 .. 9}) /\ Len(Pow(k)) = 9
<1> DEFINE e(i) == IF i = 9 - k \div 8 THEN 2 ^ (k % 8) ELSE 0
<1>1. Pow(k) = [i \in 1 .. 9 |-> e(i)]
  BY Zenon DEF Pow, Powers
<1> HIDE DEF e
<1>2. QED
  BY <1>1

-------------------------------------------------------------------------------
(* Numbers: sign extension, truncation and comparison. *)
LEMMA NumBytes ==
  ASSUME NEW n \in Num
  PROVE  n \in Seq(Byte) /\ 1 <= Len(n) /\ Len(n) <= 9
BY Zenon DEF Num, ByteString

LEMMA WideBytes ==
  ASSUME NEW n \in Num
  PROVE  /\ Wide(n) \in ByteString
         /\ Len(Wide(n)) = 9
         /\ \A i \in 1 .. 9 : Wide(n)[i] \in Byte
<1> DEFINE k == 9 - Len(n)
           sign == [i \in 1 .. k |-> IF n[1] >= 128 THEN 255 ELSE 0]
<1>0. n \in Seq(Byte) /\ 1 <= Len(n) /\ Len(n) <= 9
  BY NumBytes, Zenon
<1>1. k \in Nat
  BY <1>0
<1> HIDE DEF k
<1>2. sign \in ByteString /\ Len(sign) = k
  <2>1. \A i \in 1 .. k : sign[i] \in Byte
    BY DEF Byte
  <2>2. sign \in [1 .. k -> Byte]
    BY <2>1
  <2>3. QED
    BY <1>1, <2>2 DEF ByteString
<1>3. Wide(n) = sign \o n
  BY DEF Wide, k
<1> HIDE DEF sign
<1>4. Wide(n) \in ByteString /\ Len(Wide(n)) = k + Len(n)
  BY <1>0, <1>2, <1>3, ConcatProperties DEF ByteString
<1>5. k + Len(n) = 9
  BY <1>0 DEF k
<1>6. \A i \in 1 .. 9 : Wide(n)[i] \in Byte
  BY <1>4, <1>5, ElementOfSeq DEF ByteString
<1>7. QED
  BY <1>4, <1>5, <1>6

(* Nine bytes are their own extension. *)
LEMMA WideOfNine ==
  ASSUME NEW S, NEW n \in Seq(S), Len(n) = 9
  PROVE  Wide(n) = n
<1>1. [i \in 1 .. 9 - Len(n) |-> IF n[1] >= 128 THEN 255 ELSE 0] = <<>>
  OBVIOUS
<1>2. QED
  BY <1>1 DEF Wide

LEMMA LowBytes ==
  ASSUME NEW n \in Num, NEW k \in 0 .. 8
  PROVE  /\ Low(n, k) \in ByteString
         /\ Len(Low(n, k)) = k
         /\ \A i \in 1 .. k : Low(n, k)[i] = Wide(n)[(9 - k) + i]
<1> DEFINE w == Wide(n)
           m == 10 - k
<1>1. /\ w \in Seq(Byte) /\ Len(w) = 9 /\ \A i \in m .. 9 : w[i] \in Byte
      /\ m \in 2 .. 10
  BY WideBytes DEF ByteString
<1>2. Low(n, k) = SubSeq(w, m, 9)
  BY DEF Low
<1> HIDE DEF w, m
<1>3. /\ SubSeq(w, m, 9) \in Seq(Byte)
      /\ Len(SubSeq(w, m, 9)) = IF m <= 9 THEN (9 - m) + 1 ELSE 0
      /\ \A i \in 1 .. (9 - m) + 1 : SubSeq(w, m, 9)[i] = w[(m + i) - 1]
  BY <1>1, SubSeqProperties
<1>4. QED
  BY <1>1, <1>2, <1>3 DEF ByteString, w, m

(* What Less compares: three numbers of three bytes. *)
LEMMA Thirds ==
  ASSUME NEW w
  PROVE  /\ Third(w, 0) = (w[1] * 256 + w[2]) * 256 + w[3]
         /\ Third(w, 1) = (w[4] * 256 + w[5]) * 256 + w[6]
         /\ Third(w, 2) = (w[7] * 256 + w[8]) * 256 + w[9]
<1>1. /\ 3 * 0 + 1 = 1 /\ 3 * 0 + 2 = 2 /\ 3 * 0 + 3 = 3
      /\ 3 * 1 + 1 = 4 /\ 3 * 1 + 2 = 5 /\ 3 * 1 + 3 = 6
      /\ 3 * 2 + 1 = 7 /\ 3 * 2 + 2 = 8 /\ 3 * 2 + 3 = 9
  BY SMT
<1>2. QED
  BY <1>1, SMT DEF Third

LEMMA TopThird ==
  ASSUME NEW w, NEW t \in Nat, t < 16777216, Third(w, 0) = t
  PROVE  Top(w) = IF t < 8388608 THEN t + 8388608 ELSE t - 8388608
BY Exponents, SMT DEF Top

LEMMA ThreeBytes ==
  ASSUME NEW a \in Byte, NEW b \in Byte, NEW c \in Byte
  PROVE  /\ (a * 256 + b) * 256 + c \in Nat
         /\ (a * 256 + b) * 256 + c < 16777216
         /\ a < 128 => (a * 256 + b) * 256 + c < 8388608
         /\ (a * 256 + b) * 256 + c < 1024 => b < 4
         /\ c <= (a * 256 + b) * 256 + c
BY SMT DEF Byte

(* A number between 0 and a power of two has nothing above its bits.       *)
LEMMA BelowPower ==
  ASSUME NEW n \in Num, Wide(n)[1] < 128
  PROVE  /\ Less(n, Pow(4)) => Wide(n)[9] < 16
         /\ Less(n, Pow(5)) => Wide(n)[9] < 32
         /\ Less(n, Pow(34)) => Wide(n)[5] < 4
<1> DEFINE w == Wide(n)
<1>1. /\ w[1] \in Byte /\ w[2] \in Byte /\ w[3] \in Byte
      /\ w[4] \in Byte /\ w[5] \in Byte /\ w[6] \in Byte
      /\ w[7] \in Byte /\ w[8] \in Byte /\ w[9] \in Byte
      /\ w[1] < 128
  BY WideBytes
<1>2. ASSUME NEW k \in {4, 5, 34}
      PROVE  Wide(Pow(k)) = Pow(k)
  <2>1. k \in 0 .. 64
    OBVIOUS
  <2>2. Pow(k) \in Seq({Pow(k)[i] : i \in 1 .. 9}) /\ Len(Pow(k)) = 9
    BY <2>1, PowerSequence, Zenon
  <2>3. QED
    BY <2>2, WideOfNine, Zenon
<1> HIDE DEF w
<1>3. /\ Third(w, 0) \in Nat /\ Third(w, 0) < 8388608
      /\ Third(w, 1) \in Nat /\ Third(w, 2) \in Nat
      /\ Top(w) = Third(w, 0) + 8388608
  <2>1. /\ Third(w, 0) \in Nat /\ Third(w, 0) < 8388608
        /\ Third(w, 1) \in Nat /\ Third(w, 2) \in Nat
    BY <1>1, Thirds, ThreeBytes, SMT
  <2>2. QED
    BY <2>1, TopThird, SMT
<1>4. ASSUME NEW b \in {16, 32}, NEW P, P[9] = b, \A i \in 1 .. 8 : P[i] = 0,
             \/ Top(w) < Top(P)
             \/ Top(w) = Top(P) /\ Third(w, 1) < Third(P, 1)
             \/ Top(w) = Top(P) /\ Third(w, 1) = Third(P, 1) /\ Third(w, 2) < Third(P, 2)
      PROVE  w[9] < b
  <2>1. Third(P, 0) = 0 /\ Third(P, 1) = 0 /\ Third(P, 2) = b
    BY <1>4, Thirds, SMT
  <2>2. Top(P) = 8388608
    BY <2>1, TopThird, SMT
  <2>3. Third(w, 2) < b
    BY <1>3, <1>4, <2>1, <2>2, SMT
  <2>4. w[9] \in Byte /\ w[9] <= Third(w, 2)
    BY <1>1, Thirds, ThreeBytes, SMT
  <2>5. QED
    BY <1>3, <2>3, <2>4, SMT DEF Byte
<1>5. ASSUME NEW P, P[5] = 4, \A i \in {1, 2, 3, 4, 6, 7, 8, 9} : P[i] = 0,
             \/ Top(w) < Top(P)
             \/ Top(w) = Top(P) /\ Third(w, 1) < Third(P, 1)
             \/ Top(w) = Top(P) /\ Third(w, 1) = Third(P, 1) /\ Third(w, 2) < Third(P, 2)
      PROVE  w[5] < 4
  <2>1. Third(P, 0) = 0 /\ Third(P, 1) = 1024 /\ Third(P, 2) = 0
    BY <1>5, Thirds, SMT
  <2>2. Top(P) = 8388608
    BY <2>1, TopThird, SMT
  <2>3. Third(w, 1) < 1024
    BY <1>3, <1>5, <2>1, <2>2, SMT
  <2>4. Third(w, 1) < 1024 => w[5] < 4
    BY <1>1, Thirds, ThreeBytes
  <2>5. QED
    BY <2>3, <2>4
<1>6. ASSUME NEW k \in {4, 5, 34}, Less(n, Pow(k))
      PROVE  \/ Top(w) < Top(Pow(k))
             \/ Top(w) = Top(Pow(k)) /\ Third(w, 1) < Third(Pow(k), 1)
             \/ /\ Top(w) = Top(Pow(k)) /\ Third(w, 1) = Third(Pow(k), 1)
                /\ Third(w, 2) < Third(Pow(k), 2)
  BY <1>2, <1>6, Zenon DEF Less, w
<1>7. /\ Pow(4)[9] = 16 /\ \A i \in 1 .. 8 : Pow(4)[i] = 0
      /\ Pow(5)[9] = 32 /\ \A i \in 1 .. 8 : Pow(5)[i] = 0
      /\ Pow(34)[5] = 4 /\ \A i \in {1, 2, 3, 4, 6, 7, 8, 9} : Pow(34)[i] = 0
  BY PowerBytes
<1>8. /\ Less(n, Pow(4)) => w[9] < 16
      /\ Less(n, Pow(5)) => w[9] < 32
  BY <1>4, <1>6, <1>7
<1>9. Less(n, Pow(34)) => w[5] < 4
  BY <1>5, <1>6, <1>7
<1>10. QED
  BY <1>8, <1>9 DEF w

-------------------------------------------------------------------------------
(* The writers. *)

(* A table whose last row always applies gives bytes when the rows that    *)
(* can be chosen do.                                                       *)
LEMMA ChosenBytes ==
  ASSUME NEW n \in Num, NEW k \in 1 .. 5, NEW rows, DOMAIN rows = 1 .. k,
         rows[k][1],
         \A i \in 1 .. k : rows[i][1] =>
            rows[i][2] \in ByteString /\ rows[i][3] \in 0 .. 8
  PROVE  Chosen(n, rows) \in ByteString
<1> DEFINE IsFirst(i) == rows[i][1] /\ \A j \in 1 .. i - 1 : ~rows[j][1]
           first == CHOOSE i \in DOMAIN rows : IsFirst(i)
<1>1. \E i \in DOMAIN rows : IsFirst(i)
  <2>1. CASE rows[1][1]
    BY <2>1
  <2>2. CASE ~rows[1][1] /\ k >= 2 /\ rows[2][1]
    BY <2>2
  <2>3. CASE ~rows[1][1] /\ ~rows[2][1] /\ k >= 3 /\ rows[3][1]
    BY <2>3
  <2>4. CASE ~rows[1][1] /\ ~rows[2][1] /\ ~rows[3][1] /\ k >= 4 /\ rows[4][1]
    BY <2>4
  <2>5. CASE /\ ~rows[1][1] /\ ~rows[2][1] /\ ~rows[3][1] /\ ~rows[4][1]
             /\ k = 5
    BY <2>5
  <2>6. k = 1 \/ k = 2 \/ k = 3 \/ k = 4 \/ k = 5
    OBVIOUS
  <2>7. QED
    BY <2>1, <2>2, <2>3, <2>4, <2>5, <2>6
<1>2. first \in 1 .. k /\ rows[first][1]
  BY <1>1
<1>3. Chosen(n, rows) = rows[first][2] \o Low(n, rows[first][3])
  BY Zenon DEF Chosen
<1> HIDE DEF first
<1>4. rows[first][2] \in ByteString /\ Low(n, rows[first][3]) \in ByteString
  BY <1>2, LowBytes
<1>5. QED
  BY <1>3, <1>4, ConcatProperties DEF ByteString

LEMMA OneByte ==
  ASSUME NEW b \in Byte
  PROVE  <<b>> \in ByteString
BY DEF ByteString

LEMMA IntegerBytes ==
  ASSUME NEW d \in Num
  PROVE  real_uint64(d) \in ByteString /\ real_int64(d) \in ByteString
<1>1. real_uint64(d) \in ByteString
  <2> DEFINE rows == << <<Less(d, Pow(7)), <<>>, 1>>,
                        <<Less(d, Pow(8)), <<204>>, 1>>,
                        <<Less(d, Pow(16)), <<205>>, 2>>,
                        <<Less(d, Pow(32)), <<206>>, 4>>,
                        <<TRUE, <<207>>, 8>> >>
  <2>1. /\ DOMAIN rows = 1 .. 5 /\ rows[5][1]
        /\ \A i \in 1 .. 5 : rows[i][2] \in ByteString /\ rows[i][3] \in 0 .. 8
    BY DEF ByteString, Byte
  <2>2. real_uint64(d) = Chosen(d, rows)
    BY DEF real_uint64
  <2> HIDE DEF rows
  <2>3. QED
    BY <2>1, <2>2, ChosenBytes
<1>2. CASE Less(d, NegPow(5))
  <2> DEFINE rows == << <<Less(d, NegPow(31)), <<211>>, 8>>,
                        <<Less(d, NegPow(15)), <<210>>, 4>>,
                        <<Less(d, NegPow(7)), <<209>>, 2>>,
                        <<TRUE, <<208>>, 1>> >>
  <2>1. /\ DOMAIN rows = 1 .. 4 /\ rows[4][1]
        /\ \A i \in 1 .. 4 : rows[i][2] \in ByteString /\ rows[i][3] \in 0 .. 8
    BY DEF ByteString, Byte
  <2>2. real_int64(d) = Chosen(d, rows)
    BY <1>2 DEF real_int64
  <2> HIDE DEF rows
  <2>3. QED
    BY <1>1, <2>1, <2>2, ChosenBytes
<1>3. CASE ~Less(d, NegPow(5))
  BY <1>1, <1>3 DEF real_int64
<1>4. QED
  BY <1>2, <1>3

(* A number whose first byte is below 128 is not negative. *)
LEMMA NotNegative ==
  ASSUME NEW n \in Num, n[1] < 128
  PROVE  Wide(n)[1] < 128
<1> DEFINE k == 9 - Len(n)
           sign == [i \in 1 .. k |-> IF n[1] >= 128 THEN 255 ELSE 0]
<1>1. n \in Seq(Byte) /\ 1 <= Len(n) /\ Len(n) <= 9
  BY NumBytes, Zenon
<1>2. n[1] \in Byte
  BY <1>1, ElementOfSeq
<1>3. k \in Nat
  BY <1>1
<1>4. \A i \in 1 .. k : sign[i] = 0
  BY <1>2 DEF Byte
<1>5. sign \in Seq({0}) /\ Len(sign) = k
  BY <1>3, <1>4
<1>6. Wide(n) = sign \o n
  BY DEF Wide
<1>7. CASE k = 0
  BY <1>1, <1>5, <1>6, <1>7
<1>8. CASE k > 0
  BY <1>1, <1>3, <1>4, <1>5, <1>6, <1>8
<1> HIDE DEF k
<1>9. k = 0 \/ k > 0
  BY <1>3, SMT
<1>10. QED
  BY <1>7, <1>8, <1>9, Zenon

(* A byte in front of four. *)
LEMMA Unsigned4 ==
  ASSUME NEW n \in Num
  PROVE  unsigned(n) \in Num /\ Wide(unsigned(n))[1] < 128
<1> DEFINE low == Low(n, 4)
           lead == <<0>>
<1>1. low \in Seq(Byte) /\ Len(low) = 4
  BY LowBytes DEF ByteString
<1>2. lead \in Seq(Byte) /\ Len(lead) = 1 /\ lead[1] = 0
  BY DEF Byte
<1>3. unsigned(n) = lead \o low
  BY DEF unsigned
<1> HIDE DEF low, lead
<1>4. unsigned(n) \in Seq(Byte) /\ Len(unsigned(n)) = 5 /\ unsigned(n)[1] = 0
  <2>1. /\ lead \o low \in Seq(Byte) /\ Len(lead \o low) = Len(lead) + Len(low)
        /\ \A i \in 1 .. Len(lead) + Len(low) :
             (lead \o low)[i] = IF i <= Len(lead) THEN lead[i] ELSE low[i - Len(lead)]
    BY <1>1, <1>2, ConcatProperties, Zenon
  <2>2. 1 \in 1 .. Len(lead) + Len(low) /\ 1 <= Len(lead) /\ Len(lead) + Len(low) = 5
    BY <1>1, <1>2
  <2>3. (lead \o low)[1] = lead[1]
    BY <2>1, <2>2, Zenon
  <2>4. QED
    BY <1>2, <1>3, <2>1, <2>2, <2>3
<1>5. unsigned(n) \in Num
  <2>1. 1 <= Len(unsigned(n)) /\ Len(unsigned(n)) <= 9
    BY <1>4
  <2>2. QED
    BY <1>4, <2>1, Zenon DEF Num, ByteString
<1>6. QED
  BY <1>4, <1>5, NotNegative

(* The count of a fix format is below 16, so it fits beside the code.      *)
LEMMA CountBytes ==
  ASSUME NEW n \in Num, Wide(n)[1] < 128, NEW fix \in 0 .. 240, NEW code \in 0 .. 254
  PROVE  counted(n, fix, code) \in ByteString
<1> DEFINE lead == fix + Low(n, 1)[1]
           rows == << <<Less(n, Pow(4)), <<lead>>, 0>>,
                      <<Less(n, Pow(16)), <<code>>, 2>>,
                      <<TRUE, <<code + 1>>, 4>> >>
<1>1. Low(n, 1)[1] = Wide(n)[9] /\ Wide(n)[9] \in Byte
  BY LowBytes, WideBytes
<1>2. Less(n, Pow(4)) => lead \in Byte
  BY <1>1, BelowPower DEF Byte
<1> HIDE DEF lead
<1>3. /\ Less(n, Pow(4)) => <<lead>> \in ByteString
      /\ <<code>> \in ByteString /\ <<code + 1>> \in ByteString
  BY <1>2, OneByte DEF Byte
<1>4. /\ DOMAIN rows = 1 .. 3 /\ rows[3][1]
      /\ \A i \in 1 .. 3 : rows[i][1] =>
           rows[i][2] \in ByteString /\ rows[i][3] \in 0 .. 8
  BY <1>3
<1>5. counted(n, fix, code) = Chosen(n, rows)
  BY DEF counted, lead
<1> HIDE DEF rows
<1>6. QED
  BY <1>4, <1>5, ChosenBytes

LEMMA HeaderBytes ==
  ASSUME NEW n \in Num
  PROVE  pack_array(n) \in ByteString /\ pack_map(n) \in ByteString
<1>1. unsigned(n) \in Num /\ Wide(unsigned(n))[1] < 128
  BY Unsigned4, Zenon
<1>2. /\ 144 \in 0 .. 240 /\ 220 \in 0 .. 254
      /\ 128 \in 0 .. 240 /\ 222 \in 0 .. 254
  BY SMT
<1>3. QED
  BY <1>1, <1>2, CountBytes, Zenon DEF pack_array, pack_map

(* Integers of the model are those of 32 bits. *)
Int32 == {i \in Int : -2147483648 <= i /\ i <= 2147483647}

LEMMA SmallBytes ==
  ASSUME NEW i \in Int32
  PROVE  /\ OfInt(i) \in Num
         /\ i >= 0 => Wide(OfInt(i))[1] < 128
<1> DEFINE u == IF i < 0 THEN i + 2147483647 + 1 ELSE i
           t == IF i < 0 THEN 128 ELSE 0
           a == t + u \div 2^24
           b == (u \div 2^16) % 256
           c == (u \div 2^8) % 256
           d == u % 256
<1>1. /\ a \in Byte /\ b \in Byte /\ c \in Byte /\ d \in Byte
      /\ i >= 0 => a < 128
  BY Exponents, SMT DEF Byte, Int32
<1>2. OfInt(i) = <<a, b, c, d>>
  BY SMT DEF OfInt
<1> HIDE DEF a, b, c, d
<1>3. OfInt(i) \in Seq(Byte) /\ Len(OfInt(i)) = 4 /\ OfInt(i)[1] = a
  BY <1>1, <1>2
<1>4. OfInt(i) \in Num
  <2>1. 1 <= Len(OfInt(i)) /\ Len(OfInt(i)) <= 9
    BY <1>3
  <2>2. QED
    BY <1>3, <2>1, Zenon DEF Num, ByteString
<1>5. QED
  BY <1>1, <1>3, <1>4, NotNegative

(* So is the length in the header of a short str. *)
LEMMA RawBytes ==
  ASSUME NEW l \in Num, Wide(l)[1] < 128, NEW use_bin_type
  PROVE  pack_raw(l, use_bin_type) \in ByteString
<1> DEFINE lead == 160 + Low(l, 1)[1]
           rows == << <<Less(l, Pow(5)), <<lead>>, 0>>,
                      <<use_bin_type /\ Less(l, Pow(8)), <<217>>, 1>>,
                      <<Less(l, Pow(16)), <<218>>, 2>>,
                      <<TRUE, <<219>>, 4>> >>
<1>1. Low(l, 1)[1] = Wide(l)[9] /\ Wide(l)[9] \in Byte
  BY LowBytes, WideBytes
<1>2. Less(l, Pow(5)) => lead \in Byte
  BY <1>1, BelowPower DEF Byte
<1> HIDE DEF lead
<1>3. /\ Less(l, Pow(5)) => <<lead>> \in ByteString
      /\ <<217>> \in ByteString /\ <<218>> \in ByteString /\ <<219>> \in ByteString
  <2>1. 217 \in Byte /\ 218 \in Byte /\ 219 \in Byte
    BY DEF Byte
  <2>2. QED
    BY <1>2, <2>1, OneByte, Zenon
<1>4. /\ DOMAIN rows = 1 .. 4 /\ rows[4][1]
      /\ \A i \in 1 .. 4 : rows[i][1] =>
           rows[i][2] \in ByteString /\ rows[i][3] \in 0 .. 8
  BY <1>3
<1>5. pack_raw(l, use_bin_type) = Chosen(l, rows)
  BY DEF pack_raw, lead
<1> HIDE DEF rows
<1>6. QED
  BY <1>4, <1>5, ChosenBytes

LEMMA BinBytes ==
  ASSUME NEW l \in Num, Wide(l)[1] < 128, NEW use_bin_type
  PROVE  pack_bin(l, use_bin_type) \in ByteString
<1> DEFINE rows == << <<Less(l, Pow(8)), <<196>>, 1>>,
                      <<Less(l, Pow(16)), <<197>>, 2>>,
                      <<TRUE, <<198>>, 4>> >>
<1>1. /\ DOMAIN rows = 1 .. 3 /\ rows[3][1]
      /\ \A i \in 1 .. 3 : rows[i][2] \in ByteString /\ rows[i][3] \in 0 .. 8
  BY DEF ByteString, Byte
<1>2. \/ pack_bin(l, use_bin_type) = Chosen(l, rows)
      \/ pack_bin(l, use_bin_type) = pack_raw(l, use_bin_type)
  BY Zenon DEF pack_bin
<1> HIDE DEF rows
<1>3. QED
  BY <1>1, <1>2, ChosenBytes, RawBytes

LEMMA ExtBytes ==
  ASSUME NEW l \in Num, NEW typecode \in Int
  PROVE  pack_ext(typecode, l) \in ByteString
<1> DEFINE rows == << <<Less(l, Pow(8)), <<199>>, 1>>,
                      <<Less(l, Pow(16)), <<200>>, 2>>,
                      <<TRUE, <<201>>, 4>> >>
           fixed == CHOOSE k \in fixext(l) : TRUE
<1>1. /\ DOMAIN rows = 1 .. 3 /\ rows[3][1]
      /\ \A i \in 1 .. 3 : rows[i][2] \in ByteString /\ rows[i][3] \in 0 .. 8
  BY DEF ByteString, Byte
<1>2. typebyte(typecode) \in Byte
  BY DEF typebyte, Byte
<1>3. fixext(l) # {} => fixed \in 0 .. 4
  BY DEF fixext
<1>4. pack_ext(typecode, l)
        = (IF fixext(l) # {} THEN <<212 + fixed>> ELSE Chosen(l, rows))
            \o <<typebyte(typecode)>>
  BY Zenon DEF pack_ext
<1> HIDE DEF rows, fixed
<1>5. Chosen(l, rows) \in ByteString
  BY <1>1, ChosenBytes
<1>6. fixext(l) # {} => <<212 + fixed>> \in ByteString
  BY <1>3, OneByte DEF Byte
<1>7. <<typebyte(typecode)>> \in ByteString
  BY <1>2, OneByte
<1>8. CASE fixext(l) # {}
  <2>1. pack_ext(typecode, l) = <<212 + fixed>> \o <<typebyte(typecode)>>
    BY <1>4, <1>8, Zenon
  <2>2. QED
    BY <1>6, <1>7, <1>8, <2>1, ConcatProperties DEF ByteString
<1>9. CASE fixext(l) = {}
  <2>1. pack_ext(typecode, l) = Chosen(l, rows) \o <<typebyte(typecode)>>
    BY <1>4, <1>9, Zenon
  <2>2. QED
    BY <1>5, <1>7, <2>1, ConcatProperties DEF ByteString
<1>10. QED
  BY <1>8, <1>9

LEMMA NotBelowZero ==
  ASSUME NEW n \in Num, ~Less(n, Zero)
  PROVE  Wide(n)[1] < 128
<1> DEFINE w == Wide(n)
           z == Wide(Zero)
<1>1. \A i \in 1 .. 9 : z[i] = 0
  <2>1. [i \in 1 .. 8 |-> IF Zero[1] >= 128 THEN 255 ELSE 0] = [i \in 1 .. 8 |-> 0]
    BY DEF Zero
  <2>2. z = [i \in 1 .. 8 |-> 0] \o <<0>>
    BY <2>1 DEF Wide, Zero
  <2>3. QED
    BY <2>2
<1>2. /\ w[1] \in Byte /\ w[2] \in Byte /\ w[3] \in Byte
  BY WideBytes
<1>3. ~(Top(w) < Top(z))
  BY Zenon DEF Less
<1> HIDE DEF w, z
<1>4. Third(z, 0) = 0
  BY <1>1, Thirds, SMT
<1>5. Top(z) = 8388608
  BY <1>4, TopThird, SMT
<1>6. Third(w, 0) \in Nat /\ Third(w, 0) < 16777216
  BY <1>2, Thirds, ThreeBytes, SMT
<1>7. Third(w, 0) < 8388608
  BY <1>3, <1>5, <1>6, TopThird, SMT
<1>8. w[1] < 128
  <2>1. Third(w, 0) = (w[1] * 256 + w[2]) * 256 + w[3]
    BY Thirds
  <2>2. ASSUME NEW a \in Byte, NEW b \in Byte, NEW c \in Byte,
               (a * 256 + b) * 256 + c < 8388608
        PROVE  a < 128
    BY <2>2, SMT DEF Byte
  <2>3. QED
    BY <1>2, <1>7, <2>1, <2>2, SMT
<1>9. QED
  BY <1>8 DEF w

LEMMA OneWrite ==
  ASSUME NEW b \in ByteString
  PROVE  <<b>> \in Seq(ByteString)
OBVIOUS

LEMMA TwoWrites ==
  ASSUME NEW b \in ByteString, NEW c \in ByteString
  PROVE  <<b, c>> \in Seq(ByteString)
OBVIOUS

LEMMA LowInNum ==
  ASSUME NEW n \in Num, NEW k \in {4, 8}
  PROVE  Low(n, k) \in ByteString
BY LowBytes

(* Nanoseconds in a second: 30 bits. *)
Nanoseconds == {n \in Nat : n <= 999999999}

LEMMA NanosecondBits ==
  ASSUME NEW nsec \in Nanoseconds
  PROVE  /\ nsec \in Int32 /\ nsec \div 2^22 \in Byte
         /\ (nsec \div 2^14) % 256 \in Byte /\ (nsec \div 2^6) % 256 \in Byte
         /\ (nsec % 64) * 4 \in 0 .. 252
BY Exponents, SMT DEF Byte, Nanoseconds, Int32

(* Seconds below 2^34 leave six bits of their byte to the nanoseconds.     *)
LEMMA TimestampBytes ==
  ASSUME NEW sec \in Num, NEW nsec \in Nanoseconds
  PROVE  pack_timestamp(sec, nsec) \in Seq(ByteString)
<1>1. /\ pack_ext(-1, <<4>>) \in ByteString
      /\ pack_ext(-1, <<8>>) \in ByteString
      /\ pack_ext(-1, <<12>>) \in ByteString
  <2>1. <<4>> \in Num /\ <<8>> \in Num /\ <<12>> \in Num
    BY DEF Num, ByteString, Byte
  <2>2. -1 \in Int
    OBVIOUS
  <2>3. QED
    BY <2>1, <2>2, ExtBytes
<1>2. Low(sec, 4) \in ByteString /\ Low(sec, 8) \in ByteString
  BY LowInNum
<1>3. OfInt(nsec) \o Low(sec, 8) \in ByteString
  <2>1. OfInt(nsec) \in ByteString
    BY NanosecondBits, SmallBytes, NumBytes DEF ByteString
  <2>2. QED
    BY <1>2, <2>1, ConcatProperties DEF ByteString
<1>4. ASSUME Within(sec, Zero, Pow(34)) PROVE data64(sec, nsec) \in ByteString
  <2> DEFINE a == nsec \div 2^22
             b == (nsec \div 2^14) % 256
             c == (nsec \div 2^6) % 256
             s == Wide(sec)[5]
             d == (nsec % 64) * 4 + s
  <2>1. s \in Byte /\ s < 4
    BY <1>4, NotBelowZero, BelowPower, WideBytes DEF Within
  <2> HIDE DEF s
  <2>2. a \in Byte /\ b \in Byte /\ c \in Byte /\ d \in Byte
    BY <2>1, NanosecondBits, SMT DEF Byte
  <2>3. data64(sec, nsec) = <<a, b, c, d>> \o Low(sec, 4)
    BY Zenon DEF data64, s
  <2> HIDE DEF a, b, c, d
  <2>4. <<a, b, c, d>> \in ByteString
    BY <2>2 DEF ByteString
  <2>5. QED
    BY <1>2, <2>3, <2>4, ConcatProperties DEF ByteString
<1>5. \/ pack_timestamp(sec, nsec) = <<pack_ext(-1, <<4>>), Low(sec, 4)>>
      \/ /\ pack_timestamp(sec, nsec) = <<pack_ext(-1, <<8>>), data64(sec, nsec)>>
         /\ Within(sec, Zero, Pow(34))
      \/ pack_timestamp(sec, nsec) = <<pack_ext(-1, <<12>>), OfInt(nsec) \o Low(sec, 8)>>
  BY Zenon DEF pack_timestamp
<1>6. QED
  BY <1>1, <1>2, <1>3, <1>4, <1>5, TwoWrites, Zenon

-------------------------------------------------------------------------------
(* What a program can pack: the content of an object has the type its kind *)
(* says, and its components are in objects.  Lengths and the numbers that  *)
(* come as C integers are those of 32 bits.                                *)
Microseconds == {n \in Nat : n <= 999999}
Short(s) == Len(s) \in Int32
Packable(o, objects) ==
  /\ o[1] \in {"nil", "bool", "int", "float", "bytes", "memoryview", "str", "ext",
               "timestamp", "datetime", "list", "tuple", "dict", "unencodable",
               "naive", "user", "sub"}
  /\ o[1] = "int" => o[2] \in Num
  /\ o[1] \in {"float", "bytes", "memoryview", "str"} => o[2] \in ByteString /\ Short(o[2])
  /\ o[1] = "ext" => o[2] \in Int /\ o[3] \in ByteString /\ Short(o[3])
  /\ o[1] = "timestamp" => o[2][2] \in Num /\ o[3] \in Nanoseconds
  /\ o[1] = "datetime" => o[2] \in Int32 /\ o[3] \in Microseconds
  /\ o[1] \in {"list", "tuple"} => o[2] \in Seq(objects) /\ Short(o[2])
  /\ o[1] = "dict" => o[2] \in Seq(objects \X objects) /\ Short(o[2])
  /\ o[1] = "sub" => o[2] \in objects

LEMMA LengthBytes ==
  ASSUME NEW S, NEW s \in Seq(S), Short(s)
  PROVE  OfInt(Len(s)) \in Num /\ Wide(OfInt(Len(s)))[1] < 128
<1>1. Len(s) \in Int32 /\ Len(s) >= 0
  BY DEF Short
<1>2. QED
  BY <1>1, SmallBytes

LEMMA BodyBytes ==
  ASSUME NEW s \in ByteString, NEW header \in ByteString
  PROVE  <<header>> \o Body(s) \in Seq(ByteString)
<1>1. Body(s) \in Seq(ByteString) /\ <<header>> \in Seq(ByteString)
  BY DEF Body
<1>2. QED
  BY <1>1, ConcatProperties

(* Every writer hands bytes to msgpack_pack_write(). *)
LEMMA WritersWriteBytes ==
  ASSUME NEW objects, NEW o, Packable(o, objects), NEW use_bin_type,
         o[1] \notin {"unencodable", "naive", "user", "sub"}
  PROVE  Writes(o, use_bin_type) \in Seq(ByteString)
<1> DEFINE W == Writes(o, use_bin_type)
<1>1. CASE o[1] = "nil"
  <2>1. W = <<<<192>>>>
    BY <1>1 DEF Writes
  <2>2. QED
    BY <2>1, OneByte, OneWrite DEF Byte
<1>2. CASE o[1] = "bool"
  <2> DEFINE true == <<<<195>>>>
             false == <<<<194>>>>
  <2>1. W = true \/ W = false
    BY <1>2 DEF Writes
  <2>2. <<195>> \in ByteString /\ <<194>> \in ByteString
    BY OneByte DEF Byte
  <2>3. true \in Seq(ByteString) /\ false \in Seq(ByteString)
    BY <2>2, OneWrite
  <2> HIDE DEF W, true, false
  <2>4. W \in Seq(ByteString)
    BY <2>1, <2>3
  <2>5. QED
    BY <2>4 DEF W
<1>3. CASE o[1] = "int"
  <2>1. W = <<real_uint64(o[2])>> \/ W = <<real_int64(o[2])>>
    BY <1>3 DEF Writes
  <2>2. o[2] \in Num
    BY <1>3 DEF Packable
  <2>3. QED
    BY <2>1, <2>2, IntegerBytes, OneWrite, Zenon
<1>4. CASE o[1] = "float"
  <2>1. W = <<<<203>> \o o[2]>>
    BY <1>4 DEF Writes
  <2>2. o[2] \in Seq(Byte) /\ <<203>> \in Seq(Byte)
    BY <1>4 DEF Packable, ByteString, Byte
  <2>3. <<203>> \o o[2] \in ByteString
    BY <2>2, ConcatProperties DEF ByteString
  <2>4. QED
    BY <2>1, <2>3, OneWrite, Zenon
<1>5. CASE o[1] \in {"bytes", "memoryview", "str"}
  <2> DEFINE l == OfInt(Len(o[2]))
  <2>1. o[2] \in ByteString /\ l \in Num /\ Wide(l)[1] < 128
    BY <1>5, LengthBytes DEF Packable, ByteString
  <2>2. \/ W = <<pack_bin(l, use_bin_type)>> \o Body(o[2])
        \/ W = <<pack_raw(l, use_bin_type)>> \o Body(o[2])
    BY <1>5 DEF Writes
  <2> HIDE DEF l, W
  <2>3. QED
    BY <2>1, <2>2, BinBytes, RawBytes, BodyBytes DEF W
<1>6. CASE o[1] = "ext"
  <2> DEFINE l == OfInt(Len(o[3]))
  <2>1. o[2] \in Int /\ o[3] \in ByteString /\ l \in Num
    BY <1>6, LengthBytes DEF Packable, ByteString
  <2>2. W = <<pack_ext(o[2], l)>> \o Body(o[3])
    BY <1>6 DEF Writes
  <2> HIDE DEF l, W
  <2>3. QED
    BY <2>1, <2>2, ExtBytes, BodyBytes DEF W
<1>7. CASE o[1] = "timestamp"
  <2>1. W = pack_timestamp(o[2][2], o[3])
    BY <1>7 DEF Writes
  <2>2. o[2][2] \in Num /\ o[3] \in Nanoseconds
    BY <1>7 DEF Packable
  <2>3. QED
    BY <2>1, <2>2, TimestampBytes
<1>8. CASE o[1] = "datetime"
  <2> DEFINE nsec == o[3] * 1000
  <2>1. W = pack_timestamp(OfInt(o[2]), nsec)
    BY <1>8 DEF Writes
  <2>2. o[2] \in Int32 /\ o[3] \in Microseconds
    BY <1>8 DEF Packable
  <2>3. nsec \in Nanoseconds
    BY <2>2, SMT DEF Microseconds, Nanoseconds
  <2> HIDE DEF nsec, W
  <2>4. QED
    BY <2>1, <2>2, <2>3, SmallBytes, TimestampBytes DEF W
<1>9. CASE o[1] \in {"list", "tuple", "dict"}
  <2> DEFINE l == OfInt(Len(o[2]))
  <2>1. l \in Num
    BY <1>9, LengthBytes DEF Packable
  <2>2. W = <<pack_array(l)>> \/ W = <<pack_map(l)>>
    BY <1>9 DEF Writes
  <2> HIDE DEF l, W
  <2>3. QED
    BY <2>1, <2>2, HeaderBytes, OneWrite, Zenon DEF W
<1>10. QED
  BY <1>1, <1>2, <1>3, <1>4, <1>5, <1>6, <1>7, <1>8, <1>9 DEF Packable

(* pack_map_pairs() goes through the keys and values alternately. *)
LEMMA KeysAndValuesType ==
  ASSUME NEW objects, NEW pairs \in Seq(objects \X objects)
  PROVE  KeysAndValues(pairs) \in Seq(objects)
<1> DEFINE n == Len(pairs)
           e(i) == pairs[(i + 1) \div 2][2 - (i % 2)]
<1>1. n \in Nat
  OBVIOUS
<1>2. ASSUME NEW i \in 1 .. 2 * n PROVE e(i) \in objects
  <2> DEFINE j == (i + 1) \div 2
             k == 2 - (i % 2)
  <2>1. j \in 1 .. n /\ k \in {1, 2}
    BY <1>1, SMT
  <2> HIDE DEF j, k
  <2>2. pairs[j] \in objects \X objects
    BY <2>1, ElementOfSeq
  <2>3. pairs[j][k] \in objects
    BY <2>1, <2>2
  <2>4. QED
    BY <2>3 DEF j, k
<1>3. KeysAndValues(pairs) = [i \in 1 .. 2 * n |-> e(i)]
  BY DEF KeysAndValues
<1> HIDE DEF n, e
<1>4. [i \in 1 .. 2 * n |-> e(i)] \in [1 .. 2 * n -> objects] /\ 2 * n \in Nat
  BY <1>1, <1>2
<1>5. QED
  BY <1>3, <1>4

LEMMA PartsType ==
  ASSUME NEW objects, NEW o, Packable(o, objects)
  PROVE  Parts(o) \in Seq(objects)
<1>1. CASE o[1] \in {"list", "tuple"}
  <2>1. Parts(o) = o[2]
    BY <1>1 DEF Parts
  <2>2. QED
    BY <1>1, <2>1 DEF Packable
<1>2. CASE o[1] = "dict"
  <2>1. Parts(o) = KeysAndValues(o[2])
    BY <1>2 DEF Parts
  <2>2. QED
    BY <1>2, <2>1, KeysAndValuesType DEF Packable
<1>3. CASE o[1] \notin {"list", "tuple", "dict"}
  <2>1. Parts(o) = <<>>
    BY <1>3 DEF Parts
  <2>2. QED
    BY <2>1
<1>4. QED
  BY <1>1, <1>2, <1>3

(* Whatever the options: _pack_inner() of an object writes bytes and goes  *)
(* on with objects that can be packed.                                     *)
LEMMA PackInnerType ==
  ASSUME NEW objects, \A x \in objects : Packable(x, objects),
         NEW obj, Packable(obj, objects), NEW opt
  PROVE  /\ PackInner(obj, opt).writes \in Seq(ByteString)
         /\ PackInner(obj, opt).checked \in BOOLEAN
         /\ PackInner(obj, opt).parts \in Seq(objects)
<1> DEFINE o == Recognised(obj, opt.strict_types)
           status == IF Unknown(o, opt) THEN Refusal(o, opt) ELSE Failure(o)
<1>1. Packable(o, objects)
  <2>1. o = obj \/ (obj[1] = "sub" /\ o = obj[2])
    BY DEF Recognised
  <2>2. obj[1] = "sub" => obj[2] \in objects
    BY DEF Packable
  <2>3. QED
    BY <2>1, <2>2
<1>2. /\ PackInner(obj, opt).writes
           = IF status = "ok" THEN Writes(o, opt.use_bin_type) ELSE <<>>
      /\ PackInner(obj, opt).checked = (o[1] \notin {"timestamp", "datetime"})
      /\ PackInner(obj, opt).parts = IF status = "ok" THEN Parts(o) ELSE <<>>
  BY DEF PackInner
<1> HIDE DEF o
<1>3. ASSUME status = "ok" PROVE o[1] \notin {"unencodable", "naive", "user", "sub"}
  <2>1. ~Unknown(o, opt)
    <3>1. Refusal(o, opt) # "ok"
      BY DEF Refusal
    <3>2. QED
      BY <1>3, <3>1
  <2>2. Failure(o) = "ok"
    BY <1>3, <2>1
  <2>3. o[1] # "unencodable"
    BY <2>2 DEF Failure
  <2>4. QED
    BY <2>1, <2>3 DEF Unknown
<1> HIDE DEF status
<1>4. <<>> \in Seq(ByteString) /\ <<>> \in Seq(objects)
  OBVIOUS
<1>5. status = "ok" => /\ Writes(o, opt.use_bin_type) \in Seq(ByteString)
                       /\ Parts(o) \in Seq(objects)
  BY <1>1, <1>3, WritersWriteBytes, PartsType
<1>6. QED
  BY <1>2, <1>4, <1>5

-------------------------------------------------------------------------------
(* The integer a number stands for. *)
Value(n) ==
  ((Top(Wide(n)) - 8388608) * 16777216 + Third(Wide(n), 1)) * 16777216
    + Third(Wide(n), 2)

(* The three digits Less compares. *)
Digits(w) ==
  /\ Top(w) \in Nat /\ Top(w) < 16777216
  /\ Third(w, 1) \in Nat /\ Third(w, 1) < 16777216
  /\ Third(w, 2) \in Nat /\ Third(w, 2) < 16777216

(* Nine bytes, the first of them signed. *)
Sum(s, b, c, d, e, f, g, h, i) ==
  (((((((s * 256 + b) * 256 + c) * 256 + d) * 256 + e) * 256 + f) * 256 + g)
    * 256 + h) * 256 + i
Signed(b) == IF b >= 128 THEN b - 256 ELSE b
OfBytes(w) == Sum(Signed(w[1]), w[2], w[3], w[4], w[5], w[6], w[7], w[8], w[9])

LEMMA ValueBytes ==
  ASSUME NEW n \in Num
  PROVE  /\ Value(n) \in Int
         /\ Value(n) = OfBytes(Wide(n))
         /\ Digits(Wide(n))
<1> DEFINE w == Wide(n)
<1>1. /\ w[1] \in Byte /\ w[2] \in Byte /\ w[3] \in Byte
      /\ w[4] \in Byte /\ w[5] \in Byte /\ w[6] \in Byte
      /\ w[7] \in Byte /\ w[8] \in Byte /\ w[9] \in Byte
      /\ \A i \in 1 .. 9 : w[i] \in Byte
  BY WideBytes
<1> DEFINE t == Third(w, 0)
<1>2. /\ t = (w[1] * 256 + w[2]) * 256 + w[3]
      /\ Third(w, 1) = (w[4] * 256 + w[5]) * 256 + w[6]
      /\ Third(w, 2) = (w[7] * 256 + w[8]) * 256 + w[9]
  BY Thirds
<1>3. t \in Nat /\ t < 16777216
  BY <1>1, <1>2, ThreeBytes, SMT
<1>4. Top(w) = IF t < 8388608 THEN t + 8388608 ELSE t - 8388608
  BY <1>3, TopThird, SMT
<1> HIDE DEF t
<1>5. Digits(w)
  BY <1>1, <1>2, <1>3, <1>4, SMT DEF Byte, Digits
<1>6. Value(n) = ((Top(w) - 8388608) * 16777216 + Third(w, 1)) * 16777216 + Third(w, 2)
  BY DEF Value
<1>7. t < 8388608 <=> w[1] < 128
  BY <1>1, <1>2, SMT DEF Byte
<1>8. Top(w) - 8388608 =
        ((IF w[1] >= 128 THEN w[1] - 256 ELSE w[1]) * 256 + w[2]) * 256 + w[3]
  BY <1>1, <1>2, <1>4, <1>7, SMT DEF Byte
<1> DEFINE s == IF w[1] >= 128 THEN w[1] - 256 ELSE w[1]
           high == (s * 256 + w[2]) * 256 + w[3]
           middle == (w[4] * 256 + w[5]) * 256 + w[6]
           low == (w[7] * 256 + w[8]) * 256 + w[9]
<1>9. /\ s \in Int
      /\ w[2] \in Int /\ w[3] \in Int /\ w[4] \in Int /\ w[5] \in Int
      /\ w[6] \in Int /\ w[7] \in Int /\ w[8] \in Int /\ w[9] \in Int
  BY <1>1, SMT DEF Byte
<1>10. Value(n) = (high * 16777216 + middle) * 16777216 + low
  BY <1>2, <1>6, <1>8, SMT
<1> HIDE DEF s
<1>11. /\ (high * 16777216 + middle) * 16777216 + low
            = (((((((s * 256 + w[2]) * 256 + w[3]) * 256 + w[4]) * 256 + w[5])
                 * 256 + w[6]) * 256 + w[7]) * 256 + w[8]) * 256 + w[9]
       /\ (high * 16777216 + middle) * 16777216 + low \in Int
  BY <1>9, SMT
<1> HIDE DEF high, middle, low
<1>12. QED
  BY <1>1, <1>5, <1>10, <1>11, SMT DEF s, OfBytes, Sum, Signed

LEMMA LessIsLess ==
  ASSUME NEW m \in Num, NEW n \in Num
  PROVE  Less(m, n) <=> Value(m) < Value(n)
<1> DEFINE x == Wide(m)
           y == Wide(n)
<1>1. /\ Value(m) = ((Top(x) - 8388608) * 16777216 + Third(x, 1)) * 16777216 + Third(x, 2)
      /\ Value(n) = ((Top(y) - 8388608) * 16777216 + Third(y, 1)) * 16777216 + Third(y, 2)
  BY DEF Value
<1>2. Less(m, n) <=> \/ Top(x) < Top(y)
                     \/ Top(x) = Top(y) /\ Third(x, 1) < Third(y, 1)
                     \/ Top(x) = Top(y) /\ Third(x, 1) = Third(y, 1) /\ Third(x, 2) < Third(y, 2)
  BY Zenon DEF Less
<1>3. Digits(x) /\ Digits(y)
  BY ValueBytes
<1> HIDE DEF x, y
<1>4. QED
  BY <1>1, <1>2, <1>3, SMT DEF Digits

(* Powers of two as numbers.                                               *)
LEMMA PowerCells ==
  ASSUME NEW k \in 0 .. 64, NEW i \in 1 .. 9
  PROVE  /\ Pow(k)[i] = IF i = 9 - k \div 8 THEN 2 ^ (k % 8) ELSE 0
         /\ NegPow(k)[i] = IF i = 9 - k \div 8 THEN 256 - 2 ^ (k % 8)
                           ELSE IF i < 9 - k \div 8 THEN 255 ELSE 0
BY Zenon DEF Pow, Powers, NegPow, NegPowers

(* Sign extension, byte by byte. *)
LEMMA WideCells ==
  ASSUME NEW n \in Num, NEW i \in 1 .. 9
  PROVE  Wide(n)[i] = IF i > 9 - Len(n) THEN n[i - (9 - Len(n))]
                      ELSE IF n[1] >= 128 THEN 255 ELSE 0
<1> DEFINE k == 9 - Len(n)
           b == IF n[1] >= 128 THEN 255 ELSE 0
           sign == [j \in 1 .. k |-> b]
<1>1. n \in Seq(Byte) /\ k \in Nat /\ k + Len(n) = 9
  BY NumBytes
<1>2. sign \in Seq({b}) /\ Len(sign) = k /\ \A j \in 1 .. k : sign[j] = b
  BY <1>1
<1>3. Wide(n) = sign \o n
  BY DEF Wide
<1> HIDE DEF k, b, sign
<1>4. sign \in Seq(Byte \cup {b}) /\ n \in Seq(Byte \cup {b})
  <2>1. Seq({b}) \subseteq Seq(Byte \cup {b}) /\ Seq(Byte) \subseteq Seq(Byte \cup {b})
    BY SeqDef
  <2>2. QED
    BY <1>1, <1>2, <2>1
<1>5. \A j \in 1 .. Len(sign) + Len(n) :
        (sign \o n)[j] = IF j <= Len(sign) THEN sign[j] ELSE n[j - Len(sign)]
  BY <1>4, ConcatProperties, Zenon
<1>6. Wide(n)[i] = IF i > k THEN n[i - k] ELSE b
  BY <1>1, <1>2, <1>3, <1>5
<1>7. QED
  BY <1>6 DEF k, b

LEMMA Nine ==
  ASSUME NEW n \in [1 .. 9 -> Byte]
  PROVE  n \in Num /\ Wide(n) = n
<1>1. n \in Seq(Byte)
  BY SeqDef
<1>2. Len(n) = 9
  BY <1>1, LenProperties
<1>3. n \in Num
  <2>1. 1 <= Len(n) /\ Len(n) <= 9
    BY <1>2
  <2>2. QED
    BY <1>1, <2>1, Zenon DEF Num, ByteString
<1>4. Wide(n) = n
  BY <1>1, <1>2, WideOfNine, Zenon
<1>5. QED
  BY <1>3, <1>4

(* The value of a number of nine bytes. *)
LEMMA NineBytes ==
  ASSUME NEW n \in [1 .. 9 -> Byte]
  PROVE  n \in Num /\ Value(n) = OfBytes(n)
BY Nine, ValueBytes

(* The powers of two at which the format of a number changes. *)
LEMMA PowerValues ==
  /\ Pow(4) \in Num /\ Value(Pow(4)) = 16
  /\ Pow(5) \in Num /\ Value(Pow(5)) = 32
  /\ Pow(7) \in Num /\ Value(Pow(7)) = 128
  /\ Pow(8) \in Num /\ Value(Pow(8)) = 256
  /\ Pow(16) \in Num /\ Value(Pow(16)) = 65536
  /\ Pow(32) \in Num /\ Value(Pow(32)) = 4294967296
  /\ Pow(34) \in Num /\ Value(Pow(34)) = 17179869184
  /\ Pow(63) \in Num /\ Value(Pow(63)) = 9223372036854775808
  /\ Pow(64) \in Num /\ Value(Pow(64)) = 18446744073709551616
<1>1. ASSUME NEW k \in 0 .. 64
      PROVE  /\ \A i \in 1 .. 9 : Pow(k)[i] = IF i = 9 - k \div 8 THEN 2 ^ (k % 8) ELSE 0
             /\ Pow(k) = [i \in 1 .. 9 |-> Pow(k)[i]]
  BY PowerCells, Zenon DEF Pow, Powers
<1>2. /\ 2 ^ 0 = 1 /\ 2 ^ 1 = 2 /\ 2 ^ 2 = 4 /\ 2 ^ 3 = 8 /\ 2 ^ 4 = 16
      /\ 2 ^ 5 = 32 /\ 2 ^ 6 = 64 /\ 2 ^ 7 = 128
  BY SMT
<1>3. Pow(4) \in Num /\ Value(Pow(4)) = 16
  <2>1. /\ Pow(4)[9] = 16
        /\ \A i \in 1 .. 9 : i # 9 => Pow(4)[i] = 0
        /\ Pow(4) = [i \in 1 .. 9 |-> Pow(4)[i]]
    BY <1>1, <1>2, SMT
  <2>2. Pow(4) \in [1 .. 9 -> Byte]
    BY <2>1 DEF Byte
  <2>3. QED
    BY <2>1, <2>2, NineBytes, SMT DEF OfBytes, Sum, Signed
<1>4. Pow(5) \in Num /\ Value(Pow(5)) = 32
  <2>1. /\ Pow(5)[9] = 32
        /\ \A i \in 1 .. 9 : i # 9 => Pow(5)[i] = 0
        /\ Pow(5) = [i \in 1 .. 9 |-> Pow(5)[i]]
    BY <1>1, <1>2, SMT
  <2>2. Pow(5) \in [1 .. 9 -> Byte]
    BY <2>1 DEF Byte
  <2>3. QED
    BY <2>1, <2>2, NineBytes, SMT DEF OfBytes, Sum, Signed
<1>5. Pow(7) \in Num /\ Value(Pow(7)) = 128
  <2>1. /\ Pow(7)[9] = 128
        /\ \A i \in 1 .. 9 : i # 9 => Pow(7)[i] = 0
        /\ Pow(7) = [i \in 1 .. 9 |-> Pow(7)[i]]
    BY <1>1, <1>2, SMT
  <2>2. Pow(7) \in [1 .. 9 -> Byte]
    BY <2>1 DEF Byte
  <2>3. QED
    BY <2>1, <2>2, NineBytes, SMT DEF OfBytes, Sum, Signed
<1>6. Pow(8) \in Num /\ Value(Pow(8)) = 256
  <2>1. /\ Pow(8)[8] = 1
        /\ \A i \in 1 .. 9 : i # 8 => Pow(8)[i] = 0
        /\ Pow(8) = [i \in 1 .. 9 |-> Pow(8)[i]]
    BY <1>1, <1>2, SMT
  <2>2. Pow(8) \in [1 .. 9 -> Byte]
    BY <2>1 DEF Byte
  <2>3. QED
    BY <2>1, <2>2, NineBytes, SMT DEF OfBytes, Sum, Signed
<1>7. Pow(16) \in Num /\ Value(Pow(16)) = 65536
  <2>1. /\ Pow(16)[7] = 1
        /\ \A i \in 1 .. 9 : i # 7 => Pow(16)[i] = 0
        /\ Pow(16) = [i \in 1 .. 9 |-> Pow(16)[i]]
    BY <1>1, <1>2, SMT
  <2>2. Pow(16) \in [1 .. 9 -> Byte]
    BY <2>1 DEF Byte
  <2>3. QED
    BY <2>1, <2>2, NineBytes, SMT DEF OfBytes, Sum, Signed
<1>8. Pow(32) \in Num /\ Value(Pow(32)) = 4294967296
  <2>1. /\ Pow(32)[5] = 1
        /\ \A i \in 1 .. 9 : i # 5 => Pow(32)[i] = 0
        /\ Pow(32) = [i \in 1 .. 9 |-> Pow(32)[i]]
    BY <1>1, <1>2, SMT
  <2>2. Pow(32) \in [1 .. 9 -> Byte]
    BY <2>1 DEF Byte
  <2>3. QED
    BY <2>1, <2>2, NineBytes, SMT DEF OfBytes, Sum, Signed
<1>9. Pow(34) \in Num /\ Value(Pow(34)) = 17179869184
  <2>1. /\ Pow(34)[5] = 4
        /\ \A i \in 1 .. 9 : i # 5 => Pow(34)[i] = 0
        /\ Pow(34) = [i \in 1 .. 9 |-> Pow(34)[i]]
    BY <1>1, <1>2, SMT
  <2>2. Pow(34) \in [1 .. 9 -> Byte]
    BY <2>1 DEF Byte
  <2>3. QED
    BY <2>1, <2>2, NineBytes, SMT DEF OfBytes, Sum, Signed
<1>10. Pow(63) \in Num /\ Value(Pow(63)) = 9223372036854775808
  <2>1. /\ Pow(63)[2] = 128
        /\ \A i \in 1 .. 9 : i # 2 => Pow(63)[i] = 0
        /\ Pow(63) = [i \in 1 .. 9 |-> Pow(63)[i]]
    BY <1>1, <1>2, SMT
  <2>2. Pow(63) \in [1 .. 9 -> Byte]
    BY <2>1 DEF Byte
  <2>3. QED
    BY <2>1, <2>2, NineBytes, SMT DEF OfBytes, Sum, Signed
<1>11. Pow(64) \in Num /\ Value(Pow(64)) = 18446744073709551616
  <2>1. /\ Pow(64)[1] = 1
        /\ \A i \in 1 .. 9 : i # 1 => Pow(64)[i] = 0
        /\ Pow(64) = [i \in 1 .. 9 |-> Pow(64)[i]]
    BY <1>1, <1>2, SMT
  <2>2. Pow(64) \in [1 .. 9 -> Byte]
    BY <2>1 DEF Byte
  <2>3. QED
    BY <2>1, <2>2, NineBytes, SMT DEF OfBytes, Sum, Signed
<1>12. QED
  BY <1>3, <1>4, <1>5, <1>6, <1>7, <1>8, <1>9, <1>10, <1>11

LEMMA NegPowerValues ==
  /\ NegPow(5) \in Num /\ Value(NegPow(5)) = -32
  /\ NegPow(7) \in Num /\ Value(NegPow(7)) = -128
  /\ NegPow(15) \in Num /\ Value(NegPow(15)) = -32768
  /\ NegPow(31) \in Num /\ Value(NegPow(31)) = -2147483648
  /\ NegPow(63) \in Num /\ Value(NegPow(63)) = -9223372036854775808
  /\ Zero \in Num /\ Value(Zero) = 0
<1>1. ASSUME NEW k \in 0 .. 64
      PROVE  /\ \A i \in 1 .. 9 :
                  NegPow(k)[i] = IF i = 9 - k \div 8 THEN 256 - 2 ^ (k % 8)
                                 ELSE IF i < 9 - k \div 8 THEN 255 ELSE 0
             /\ NegPow(k) = [i \in 1 .. 9 |-> NegPow(k)[i]]
  BY PowerCells, Zenon DEF NegPow, NegPowers
<1>2. 2 ^ 5 = 32 /\ 2 ^ 7 = 128
  BY SMT
<1>3. NegPow(5) \in Num /\ Value(NegPow(5)) = -32
  <2>1. /\ NegPow(5)[9] = 224
        /\ \A i \in 1 .. 9 : i < 9 => NegPow(5)[i] = 255
        /\ \A i \in 1 .. 9 : i > 9 => NegPow(5)[i] = 0
        /\ NegPow(5) = [i \in 1 .. 9 |-> NegPow(5)[i]]
    BY <1>1, <1>2, SMT
  <2>2. NegPow(5) \in [1 .. 9 -> Byte]
    BY <2>1 DEF Byte
  <2>3. QED
    BY <2>1, <2>2, NineBytes, SMT DEF OfBytes, Sum, Signed
<1>4. NegPow(7) \in Num /\ Value(NegPow(7)) = -128
  <2>1. /\ NegPow(7)[9] = 128
        /\ \A i \in 1 .. 9 : i < 9 => NegPow(7)[i] = 255
        /\ \A i \in 1 .. 9 : i > 9 => NegPow(7)[i] = 0
        /\ NegPow(7) = [i \in 1 .. 9 |-> NegPow(7)[i]]
    BY <1>1, <1>2, SMT
  <2>2. NegPow(7) \in [1 .. 9 -> Byte]
    BY <2>1 DEF Byte
  <2>3. QED
    BY <2>1, <2>2, NineBytes, SMT DEF OfBytes, Sum, Signed
<1>5. NegPow(15) \in Num /\ Value(NegPow(15)) = -32768
  <2>1. /\ NegPow(15)[8] = 128
        /\ \A i \in 1 .. 9 : i < 8 => NegPow(15)[i] = 255
        /\ \A i \in 1 .. 9 : i > 8 => NegPow(15)[i] = 0
        /\ NegPow(15) = [i \in 1 .. 9 |-> NegPow(15)[i]]
    BY <1>1, <1>2, SMT
  <2>2. NegPow(15) \in [1 .. 9 -> Byte]
    BY <2>1 DEF Byte
  <2>3. QED
    BY <2>1, <2>2, NineBytes, SMT DEF OfBytes, Sum, Signed
<1>6. NegPow(31) \in Num /\ Value(NegPow(31)) = -2147483648
  <2>1. /\ NegPow(31)[6] = 128
        /\ \A i \in 1 .. 9 : i < 6 => NegPow(31)[i] = 255
        /\ \A i \in 1 .. 9 : i > 6 => NegPow(31)[i] = 0
        /\ NegPow(31) = [i \in 1 .. 9 |-> NegPow(31)[i]]
    BY <1>1, <1>2, SMT
  <2>2. NegPow(31) \in [1 .. 9 -> Byte]
    BY <2>1 DEF Byte
  <2>3. QED
    BY <2>1, <2>2, NineBytes, SMT DEF OfBytes, Sum, Signed
<1>7. NegPow(63) \in Num /\ Value(NegPow(63)) = -9223372036854775808
  <2>1. /\ NegPow(63)[2] = 128
        /\ \A i \in 1 .. 9 : i < 2 => NegPow(63)[i] = 255
        /\ \A i \in 1 .. 9 : i > 2 => NegPow(63)[i] = 0
        /\ NegPow(63) = [i \in 1 .. 9 |-> NegPow(63)[i]]
    BY <1>1, <1>2, SMT
  <2>2. NegPow(63) \in [1 .. 9 -> Byte]
    BY <2>1 DEF Byte
  <2>3. QED
    BY <2>1, <2>2, NineBytes, SMT DEF OfBytes, Sum, Signed
<1>8. Zero \in Num /\ Value(Zero) = 0
  <2>1. Zero \in Num /\ Len(Zero) = 1 /\ Zero[1] = 0
    BY DEF Zero, Num, ByteString, Byte
  <2>2. ASSUME NEW i \in 1 .. 9 PROVE Wide(Zero)[i] = 0
    <3>1. Wide(Zero)[i] = IF i > 9 - Len(Zero) THEN Zero[i - (9 - Len(Zero))]
                          ELSE IF Zero[1] >= 128 THEN 255 ELSE 0
      BY <2>1, WideCells, Zenon
    <3>2. QED
      BY <2>1, <3>1
  <2>3. Value(Zero) = OfBytes(Wide(Zero))
    BY <2>1, ValueBytes, Zenon
  <2>4. QED
    BY <2>1, <2>2, <2>3, SMT DEF OfBytes, Sum, Signed
<1>9. QED
  BY <1>3, <1>4, <1>5, <1>6, <1>7, <1>8

-------------------------------------------------------------------------------
(* Small and unsigned numbers. *)
LEMMA FourBytes ==
  ASSUME NEW n \in Num, Len(n) = 4
  PROVE  Value(n) = (((IF n[1] >= 128 THEN n[1] - 256 ELSE n[1]) * 256 + n[2])
                       * 256 + n[3]) * 256 + n[4]
<1>1. /\ n[1] \in Byte /\ n[2] \in Byte /\ n[3] \in Byte /\ n[4] \in Byte
  BY NumBytes, ElementOfSeq
<1>2. ASSUME NEW i \in 1 .. 9
      PROVE  Wide(n)[i] = IF i > 5 THEN n[i - 5] ELSE IF n[1] >= 128 THEN 255 ELSE 0
  <2>1. Wide(n)[i] = IF i > 9 - Len(n) THEN n[i - (9 - Len(n))]
                     ELSE IF n[1] >= 128 THEN 255 ELSE 0
    BY WideCells, Zenon
  <2>2. QED
    BY <2>1
<1>3. Value(n) = OfBytes(Wide(n))
  BY ValueBytes, Zenon
<1>4. QED
  BY <1>1, <1>2, <1>3, SMT DEF Byte, OfBytes, Sum, Signed

(* OfInt is the number it is given. *)
LEMMA OfIntValue ==
  ASSUME NEW i \in Int32
  PROVE  OfInt(i) \in Num /\ Value(OfInt(i)) = i
<1> DEFINE u == IF i < 0 THEN i + 2147483647 + 1 ELSE i
           t == IF i < 0 THEN 128 ELSE 0
           a == t + u \div 2^24
           b == (u \div 2^16) % 256
           c == (u \div 2^8) % 256
           d == u % 256
<1>1. OfInt(i) = <<a, b, c, d>>
  BY SMT DEF OfInt
<1>2. OfInt(i) \in Num
  BY SmallBytes
<1>3. Value(OfInt(i)) = (((IF a >= 128 THEN a - 256 ELSE a) * 256 + b) * 256 + c) * 256 + d
  BY <1>1, <1>2, FourBytes
<1>4. (((IF a >= 128 THEN a - 256 ELSE a) * 256 + b) * 256 + c) * 256 + d = i
  BY Exponents, SMT DEF Int32
<1>5. QED
  BY <1>2, <1>3, <1>4

(* Numbers of 32 bits, as counts and lengths are. *)
In32(v) == 0 <= v /\ v < 4294967296
Fits32(n) == In32(Value(n))

LEMMA SmallThird ==
  ASSUME NEW a \in Byte, NEW b \in Byte, NEW c \in Byte,
         (a * 256 + b) * 256 + c < 256
  PROVE  a = 0 /\ b = 0 /\ c = (a * 256 + b) * 256 + c
BY SMT DEF Byte

LEMMA HighBytes ==
  ASSUME NEW n \in Num, Fits32(n), NEW w, w = Wide(n)
  PROVE  w[1] = 0 /\ w[2] = 0 /\ w[3] = 0 /\ w[4] = 0 /\ w[5] = 0
<1>1. /\ w[1] \in Byte /\ w[2] \in Byte /\ w[3] \in Byte
      /\ w[4] \in Byte /\ w[5] \in Byte /\ w[6] \in Byte
  BY WideBytes
<1>2. /\ Third(w, 0) = (w[1] * 256 + w[2]) * 256 + w[3]
      /\ Third(w, 1) = (w[4] * 256 + w[5]) * 256 + w[6]
  BY Thirds
<1>3. Value(n) = ((Top(w) - 8388608) * 16777216 + Third(w, 1)) * 16777216 + Third(w, 2)
  BY SMT DEF Value
<1>4. Digits(w)
  BY ValueBytes, SMT
<1>5. Third(w, 0) \in Nat /\ Third(w, 0) < 16777216
  BY <1>1, <1>2, ThreeBytes, SMT
<1>6. Top(w) = IF Third(w, 0) < 8388608 THEN Third(w, 0) + 8388608 ELSE Third(w, 0) - 8388608
  BY <1>5, TopThird, SMT
<1>7. Top(w) = 8388608 /\ Third(w, 1) < 256
  BY <1>3, <1>4, SMT DEF Digits, Fits32, In32
<1>8. Third(w, 0) = 0
  BY <1>5, <1>6, <1>7, SMT
<1>9. w[1] = 0 /\ w[2] = 0 /\ w[3] = 0
  BY <1>1, <1>2, <1>8, SmallThird
<1>10. w[4] = 0 /\ w[5] = 0
  BY <1>1, <1>2, <1>7, SmallThird
<1>11. QED
  BY <1>9, <1>10, SMT

LEMMA UnsignedWide ==
  ASSUME NEW n \in Num, Fits32(n)
  PROVE  unsigned(n) \in Num /\ Wide(unsigned(n)) = Wide(n)
<1> DEFINE w == Wide(n)
           low == Low(n, 4)
           m == unsigned(n)
<1>1. w \in Seq(Byte) /\ Len(w) = 9 /\ \A i \in 1 .. 9 : w[i] \in Byte
  BY WideBytes DEF ByteString
<1>2. Value(n) = OfBytes(w)
  BY ValueBytes, Zenon
<1>3. low \in Seq(Byte) /\ Len(low) = 4 /\ \A i \in 1 .. 4 : low[i] = w[5 + i]
  BY LowBytes DEF ByteString
<1>4. m \in Num /\ m = <<0>> \o low
  BY Unsigned4 DEF unsigned
<1> HIDE DEF w, low, m
<1>5. w[1] = 0 /\ w[2] = 0 /\ w[3] = 0 /\ w[4] = 0 /\ w[5] = 0
  BY HighBytes, Zenon DEF w
<1>6. Len(m) = 5 /\ m[1] = 0 /\ \A i \in 1 .. 4 : m[1 + i] = low[i]
  <2> DEFINE lead == <<0>>
  <2>1. lead \in Seq(Byte) /\ Len(lead) = 1 /\ lead[1] = 0
    BY DEF Byte
  <2>2. m = lead \o low
    BY <1>4
  <2> HIDE DEF lead
  <2>3. /\ Len(lead \o low) = Len(lead) + Len(low)
        /\ \A i \in 1 .. Len(lead) + Len(low) :
             (lead \o low)[i] = IF i <= Len(lead) THEN lead[i] ELSE low[i - Len(lead)]
    BY <1>3, <2>1, ConcatProperties, Zenon
  <2>4. QED
    BY <1>3, <2>1, <2>2, <2>3
<1>7. ASSUME NEW i \in 1 .. 9 PROVE Wide(m)[i] = w[i]
  <2>1. Wide(m)[i] = IF i > 9 - Len(m) THEN m[i - (9 - Len(m))]
                     ELSE IF m[1] >= 128 THEN 255 ELSE 0
    BY <1>4, WideCells, Zenon
  <2>2. CASE i <= 4
    BY <1>5, <1>6, <2>1, <2>2
  <2>3. CASE i = 5
    BY <1>5, <1>6, <2>1, <2>3
  <2>4. CASE i > 5
    <3> DEFINE j == i - 5
    <3>1. j \in 1 .. 4 /\ i = 5 + j /\ i - (9 - Len(m)) = 1 + j /\ i > 9 - Len(m)
      BY <1>6, <2>4
    <3> HIDE DEF j
    <3>2. QED
      BY <1>3, <1>6, <2>1, <3>1
  <2>5. QED
    BY <2>2, <2>3, <2>4
<1>8. Wide(m) = w
  <2>1. Wide(m) \in Seq(Byte) /\ Len(Wide(m)) = 9
    BY <1>4, WideBytes DEF ByteString
  <2>2. QED
    BY <1>1, <1>7, <2>1, SeqEqual
<1>9. QED
  BY <1>4, <1>8 DEF w, m

-------------------------------------------------------------------------------
(* Comparisons, as they decide on formats. *)
LEMMA PowerBounds ==
  ASSUME NEW n \in Num
  PROVE  /\ Value(n) \in Int
         /\ Less(n, Pow(4)) <=> Value(n) < 16
         /\ Less(n, Pow(5)) <=> Value(n) < 32
         /\ Less(n, Pow(7)) <=> Value(n) < 128
         /\ Less(n, Pow(8)) <=> Value(n) < 256
         /\ Less(n, Pow(16)) <=> Value(n) < 65536
         /\ Less(n, Pow(32)) <=> Value(n) < 4294967296
         /\ Less(n, Pow(34)) <=> Value(n) < 17179869184
         /\ Less(n, Pow(63)) <=> Value(n) < 9223372036854775808
         /\ Less(n, Pow(64)) <=> Value(n) < 18446744073709551616
         /\ Less(n, NegPow(5)) <=> Value(n) < -32
         /\ Less(n, NegPow(7)) <=> Value(n) < -128
         /\ Less(n, NegPow(15)) <=> Value(n) < -32768
         /\ Less(n, NegPow(31)) <=> Value(n) < -2147483648
         /\ Less(n, NegPow(63)) <=> Value(n) < -9223372036854775808
         /\ Less(n, Zero) <=> Value(n) < 0
         /\ Less(Zero, n) <=> 0 < Value(n)
BY ValueBytes, LessIsLess, PowerValues, NegPowerValues, SMT

(* The first row that applies is chosen. *)
LEMMA FirstRow ==
  ASSUME NEW n, NEW rows, NEW k \in Nat, DOMAIN rows = 1 .. k, NEW i \in 1 .. k,
         rows[i][1], \A j \in 1 .. i - 1 : ~rows[j][1]
  PROVE  Chosen(n, rows) = rows[i][2] \o Low(n, rows[i][3])
<1> DEFINE IsFirst(m) == rows[m][1] /\ \A j \in 1 .. m - 1 : ~rows[j][1]
           first == CHOOSE m \in DOMAIN rows : IsFirst(m)
<1>1. IsFirst(i) /\ i \in DOMAIN rows
  OBVIOUS
<1>2. first \in 1 .. k /\ IsFirst(first)
  BY <1>1, Zenon
<1>3. Chosen(n, rows) = rows[first][2] \o Low(n, rows[first][3])
  BY Zenon DEF Chosen
<1> HIDE DEF first
<1>4. ~(first < i) /\ ~(i < first)
  BY <1>1, <1>2
<1>5. first = i
  BY <1>2, <1>4
<1>6. QED
  BY <1>3, <1>5


(* So a row is chosen when it applies and those before it do not.          *)
Row(n, rows, i) == rows[i][2] \o Low(n, rows[i][3])

LEMMA RowsInOrder ==
  ASSUME NEW n, NEW rows, NEW k \in 1 .. 10, DOMAIN rows = 1 .. k
  PROVE  /\ k >= 1 /\ rows[1][1] => Chosen(n, rows) = Row(n, rows, 1)
         /\ k >= 2 /\ ~rows[1][1] /\ rows[2][1] => Chosen(n, rows) = Row(n,
             rows, 2)
         /\ k >= 3 /\ ~rows[1][1] /\ ~rows[2][1] /\ rows[3][1] => Chosen(n,
             rows) = Row(n, rows, 3)
         /\ /\ k >= 4 /\ ~rows[1][1] /\ ~rows[2][1] /\ ~rows[3][1]
            /\ rows[4][1]
            => Chosen(n, rows) = Row(n, rows, 4)
         /\ /\ k >= 5 /\ ~rows[1][1] /\ ~rows[2][1] /\ ~rows[3][1]
            /\ ~rows[4][1] /\ rows[5][1]
            => Chosen(n, rows) = Row(n, rows, 5)
         /\ /\ k >= 6 /\ ~rows[1][1] /\ ~rows[2][1] /\ ~rows[3][1]
            /\ ~rows[4][1] /\ ~rows[5][1] /\ rows[6][1]
            => Chosen(n, rows) = Row(n, rows, 6)
         /\ /\ k >= 7 /\ ~rows[1][1] /\ ~rows[2][1] /\ ~rows[3][1]
            /\ ~rows[4][1] /\ ~rows[5][1] /\ ~rows[6][1] /\ rows[7][1]
            => Chosen(n, rows) = Row(n, rows, 7)
         /\ /\ k >= 8 /\ ~rows[1][1] /\ ~rows[2][1] /\ ~rows[3][1]
            /\ ~rows[4][1] /\ ~rows[5][1] /\ ~rows[6][1] /\ ~rows[7][1]
            /\ rows[8][1]
            => Chosen(n, rows) = Row(n, rows, 8)
         /\ /\ k >= 9 /\ ~rows[1][1] /\ ~rows[2][1] /\ ~rows[3][1]
            /\ ~rows[4][1] /\ ~rows[5][1] /\ ~rows[6][1] /\ ~rows[7][1]
            /\ ~rows[8][1] /\ rows[9][1]
            => Chosen(n, rows) = Row(n, rows, 9)
         /\ /\ k >= 10 /\ ~rows[1][1] /\ ~rows[2][1] /\ ~rows[3][1]
            /\ ~rows[4][1] /\ ~rows[5][1] /\ ~rows[6][1] /\ ~rows[7][1]
            /\ ~rows[8][1] /\ ~rows[9][1] /\ rows[10][1]
            => Chosen(n, rows) = Row(n, rows, 10)
<1>1. ASSUME NEW i \in 1 .. k, rows[i][1], \A j \in 1 .. i - 1 : ~rows[j][1]
      PROVE  Chosen(n, rows) = Row(n, rows, i)
  <2>1. k \in Nat
    OBVIOUS
  <2>2. QED
    BY <1>1, <2>1, FirstRow, Zenon DEF Row
<1>2. ASSUME k >= 1, rows[1][1]
      PROVE  Chosen(n, rows) = Row(n, rows, 1)
  <2>1. 1 \in 1 .. k /\ \A j \in 1 .. 1 - 1 : ~rows[j][1]
    BY <1>2
  <2>2. QED
    BY <1>1, <1>2, <2>1, Zenon
<1>3. ASSUME k >= 2, ~rows[1][1], rows[2][1]
      PROVE  Chosen(n, rows) = Row(n, rows, 2)
  <2>1. 2 \in 1 .. k /\ \A j \in 1 .. 2 - 1 : ~rows[j][1]
    BY <1>3
  <2>2. QED
    BY <1>1, <1>3, <2>1, Zenon
<1>4. ASSUME k >= 3, ~rows[1][1], ~rows[2][1], rows[3][1]
      PROVE  Chosen(n, rows) = Row(n, rows, 3)
  <2>1. 3 \in 1 .. k /\ \A j \in 1 .. 3 - 1 : ~rows[j][1]
    BY <1>4
  <2>2. QED
    BY <1>1, <1>4, <2>1, Zenon
<1>5. ASSUME k >= 4, ~rows[1][1], ~rows[2][1], ~rows[3][1], rows[4][1]
      PROVE  Chosen(n, rows) = Row(n, rows, 4)
  <2>1. 4 \in 1 .. k /\ \A j \in 1 .. 4 - 1 : ~rows[j][1]
    BY <1>5
  <2>2. QED
    BY <1>1, <1>5, <2>1, Zenon
<1>6. ASSUME k >= 5, ~rows[1][1], ~rows[2][1], ~rows[3][1], ~rows[4][1],
             rows[5][1]
      PROVE  Chosen(n, rows) = Row(n, rows, 5)
  <2>1. 5 \in 1 .. k /\ \A j \in 1 .. 5 - 1 : ~rows[j][1]
    BY <1>6
  <2>2. QED
    BY <1>1, <1>6, <2>1, Zenon
<1>7. ASSUME k >= 6, ~rows[1][1], ~rows[2][1], ~rows[3][1], ~rows[4][1],
             ~rows[5][1], rows[6][1]
      PROVE  Chosen(n, rows) = Row(n, rows, 6)
  <2>1. 6 \in 1 .. k /\ \A j \in 1 .. 6 - 1 : ~rows[j][1]
    BY <1>7
  <2>2. QED
    BY <1>1, <1>7, <2>1, Zenon
<1>8. ASSUME k >= 7, ~rows[1][1], ~rows[2][1], ~rows[3][1], ~rows[4][1],
             ~rows[5][1], ~rows[6][1], rows[7][1]
      PROVE  Chosen(n, rows) = Row(n, rows, 7)
  <2>1. 7 \in 1 .. k /\ \A j \in 1 .. 7 - 1 : ~rows[j][1]
    BY <1>8
  <2>2. QED
    BY <1>1, <1>8, <2>1, Zenon
<1>9. ASSUME k >= 8, ~rows[1][1], ~rows[2][1], ~rows[3][1], ~rows[4][1],
             ~rows[5][1], ~rows[6][1], ~rows[7][1], rows[8][1]
      PROVE  Chosen(n, rows) = Row(n, rows, 8)
  <2>1. 8 \in 1 .. k /\ \A j \in 1 .. 8 - 1 : ~rows[j][1]
    BY <1>9
  <2>2. QED
    BY <1>1, <1>9, <2>1, Zenon
<1>10. ASSUME k >= 9, ~rows[1][1], ~rows[2][1], ~rows[3][1], ~rows[4][1],
             ~rows[5][1], ~rows[6][1], ~rows[7][1], ~rows[8][1], rows[9][1]
      PROVE  Chosen(n, rows) = Row(n, rows, 9)
  <2>1. 9 \in 1 .. k /\ \A j \in 1 .. 9 - 1 : ~rows[j][1]
    BY <1>10
  <2>2. QED
    BY <1>1, <1>10, <2>1, Zenon
<1>11. ASSUME k >= 10, ~rows[1][1], ~rows[2][1], ~rows[3][1], ~rows[4][1],
             ~rows[5][1], ~rows[6][1], ~rows[7][1], ~rows[8][1], ~rows[9][1],
             rows[10][1]
      PROVE  Chosen(n, rows) = Row(n, rows, 10)
  <2>1. 10 \in 1 .. k /\ \A j \in 1 .. 10 - 1 : ~rows[j][1]
    BY <1>11
  <2>2. QED
    BY <1>1, <1>11, <2>1, Zenon
<1>12. QED
  BY <1>2, <1>3, <1>4, <1>5, <1>6, <1>7, <1>8, <1>9, <1>10, <1>11

Coded(n, code, k) == <<code>> \o Low(n, k)
Plain(n) == <<>> \o Low(n, 1)

(* The format of an integer of value v. *)
IntegerFormat(n, v) ==
  CASE v < -2147483648 -> Coded(n, 211, 8)
    [] -2147483648 <= v /\ v < -32768 -> Coded(n, 210, 4)
    [] -32768 <= v /\ v < -128 -> Coded(n, 209, 2)
    [] -128 <= v /\ v < -32 -> Coded(n, 208, 1)
    [] -32 <= v /\ v < 128 -> Plain(n)
    [] 128 <= v /\ v < 256 -> Coded(n, 204, 1)
    [] 256 <= v /\ v < 65536 -> Coded(n, 205, 2)
    [] 65536 <= v /\ v < 4294967296 -> Coded(n, 206, 4)
    [] OTHER -> Coded(n, 207, 8)

LEMMA IntegerFormats ==
  ASSUME NEW n, NEW v \in Int
  PROVE  /\ v < -2147483648 => IntegerFormat(n, v) = Coded(n, 211, 8)
         /\ -2147483648 <= v /\ v < -32768 => IntegerFormat(n, v) = Coded(n, 210, 4)
         /\ -32768 <= v /\ v < -128 => IntegerFormat(n, v) = Coded(n, 209, 2)
         /\ -128 <= v /\ v < -32 => IntegerFormat(n, v) = Coded(n, 208, 1)
         /\ -32 <= v /\ v < 128 => IntegerFormat(n, v) = Plain(n)
         /\ 128 <= v /\ v < 256 => IntegerFormat(n, v) = Coded(n, 204, 1)
         /\ 256 <= v /\ v < 65536 => IntegerFormat(n, v) = Coded(n, 205, 2)
         /\ 65536 <= v /\ v < 4294967296 => IntegerFormat(n, v) = Coded(n, 206, 4)
         /\ 4294967296 <= v => IntegerFormat(n, v) = Coded(n, 207, 8)
BY SMT DEF IntegerFormat

(* Those of pack_template.h. *)
LEMMA Uint64Formats ==
  ASSUME NEW n \in Num, NEW v, v = Value(n), -32 <= v
  PROVE  real_uint64(n) = IntegerFormat(n, v)
<1> DEFINE rows == << <<Less(n, Pow(7)), <<>>, 1>>,
                      <<Less(n, Pow(8)), <<204>>, 1>>,
                      <<Less(n, Pow(16)), <<205>>, 2>>,
                      <<Less(n, Pow(32)), <<206>>, 4>>,
                      <<TRUE, <<207>>, 8>> >>
<1>1. real_uint64(n) = Chosen(n, rows)
  BY Zenon DEF real_uint64
<1>2. /\ DOMAIN rows = 1 .. 5
      /\ Row(n, rows, 1) = Plain(n)
      /\ Row(n, rows, 2) = Coded(n, 204, 1)
      /\ Row(n, rows, 3) = Coded(n, 205, 2)
      /\ Row(n, rows, 4) = Coded(n, 206, 4)
      /\ Row(n, rows, 5) = Coded(n, 207, 8)
  BY DEF Row, Coded, Plain
<1>3. /\ rows[1][1] <=> Less(n, Pow(7))
      /\ rows[2][1] <=> Less(n, Pow(8))
      /\ rows[3][1] <=> Less(n, Pow(16))
      /\ rows[4][1] <=> Less(n, Pow(32))
      /\ rows[5][1]
  OBVIOUS
<1> HIDE DEF rows
<1>4. /\ v \in Int
      /\ rows[1][1] <=> v < 128
      /\ rows[2][1] <=> v < 256
      /\ rows[3][1] <=> v < 65536
      /\ rows[4][1] <=> v < 4294967296
      /\ rows[5][1]
  BY <1>3, PowerBounds, SMT
<1>5. /\ rows[1][1] => real_uint64(n) = Row(n, rows, 1)
      /\ ~rows[1][1] /\ rows[2][1] => real_uint64(n) = Row(n, rows, 2)
      /\ ~rows[1][1] /\ ~rows[2][1] /\ rows[3][1] => real_uint64(n) = Row(n, rows, 3)
      /\ ~rows[1][1] /\ ~rows[2][1] /\ ~rows[3][1] /\ rows[4][1] => real_uint64(n) = Row(n, rows, 4)
      /\ /\ ~rows[1][1] /\ ~rows[2][1] /\ ~rows[3][1] /\ ~rows[4][1]
         /\ rows[5][1]
         => real_uint64(n) = Row(n, rows, 5)
  BY <1>1, <1>2, RowsInOrder, SMT
<1>6. ASSUME v < 128
      PROVE  real_uint64(n) = IntegerFormat(n, v)
  BY <1>2, <1>4, <1>5, <1>6, IntegerFormats, SMT
<1>7. ASSUME 128 <= v, v < 256
      PROVE  real_uint64(n) = IntegerFormat(n, v)
  BY <1>2, <1>4, <1>5, <1>7, IntegerFormats, SMT
<1>8. ASSUME 256 <= v, v < 65536
      PROVE  real_uint64(n) = IntegerFormat(n, v)
  BY <1>2, <1>4, <1>5, <1>8, IntegerFormats, SMT
<1>9. ASSUME 65536 <= v, v < 4294967296
      PROVE  real_uint64(n) = IntegerFormat(n, v)
  BY <1>2, <1>4, <1>5, <1>9, IntegerFormats, SMT
<1>10. ASSUME 4294967296 <= v
       PROVE  real_uint64(n) = IntegerFormat(n, v)
  BY <1>2, <1>4, <1>5, <1>10, IntegerFormats, SMT
<1>11. QED
  BY <1>4, <1>6, <1>7, <1>8, <1>9, <1>10, SMT

LEMMA Int64Formats ==
  ASSUME NEW n \in Num, NEW v, v = Value(n)
  PROVE  real_int64(n) = IntegerFormat(n, v)
<1> DEFINE rows == << <<Less(n, NegPow(31)), <<211>>, 8>>,
                      <<Less(n, NegPow(15)), <<210>>, 4>>,
                      <<Less(n, NegPow(7)), <<209>>, 2>>,
                      <<TRUE, <<208>>, 1>> >>
<1>1. real_int64(n) = IF ~Less(n, NegPow(5)) THEN real_uint64(n) ELSE Chosen(n, rows)
  BY Zenon DEF real_int64
<1>2. /\ DOMAIN rows = 1 .. 4
      /\ Row(n, rows, 1) = Coded(n, 211, 8)
      /\ Row(n, rows, 2) = Coded(n, 210, 4)
      /\ Row(n, rows, 3) = Coded(n, 209, 2)
      /\ Row(n, rows, 4) = Coded(n, 208, 1)
  BY DEF Row, Coded, Plain
<1>3. /\ rows[1][1] <=> Less(n, NegPow(31))
      /\ rows[2][1] <=> Less(n, NegPow(15))
      /\ rows[3][1] <=> Less(n, NegPow(7))
      /\ rows[4][1]
  OBVIOUS
<1> HIDE DEF rows
<1>4. /\ v \in Int
      /\ rows[1][1] <=> v < -2147483648
      /\ rows[2][1] <=> v < -32768
      /\ rows[3][1] <=> v < -128
      /\ rows[4][1]
      /\ Less(n, NegPow(5)) <=> v < -32
  BY <1>3, PowerBounds, SMT
<1>5. /\ rows[1][1] => Chosen(n, rows) = Row(n, rows, 1)
      /\ ~rows[1][1] /\ rows[2][1] => Chosen(n, rows) = Row(n, rows, 2)
      /\ ~rows[1][1] /\ ~rows[2][1] /\ rows[3][1] => Chosen(n, rows) = Row(n, rows, 3)
      /\ ~rows[1][1] /\ ~rows[2][1] /\ ~rows[3][1] /\ rows[4][1] => Chosen(n, rows) = Row(n, rows, 4)
  BY <1>2, RowsInOrder, SMT
<1>6. ASSUME -32 <= v
      PROVE  real_int64(n) = IntegerFormat(n, v)
  BY <1>1, <1>4, <1>6, Uint64Formats, SMT
<1>7. ASSUME -128 <= v, v < -32
      PROVE  real_int64(n) = IntegerFormat(n, v)
  BY <1>1, <1>2, <1>4, <1>5, <1>7, IntegerFormats, SMT
<1>8. ASSUME -32768 <= v, v < -128
      PROVE  real_int64(n) = IntegerFormat(n, v)
  BY <1>1, <1>2, <1>4, <1>5, <1>8, IntegerFormats, SMT
<1>9. ASSUME -2147483648 <= v, v < -32768
      PROVE  real_int64(n) = IntegerFormat(n, v)
  BY <1>1, <1>2, <1>4, <1>5, <1>9, IntegerFormats, SMT
<1>10. ASSUME v < -2147483648
       PROVE  real_int64(n) = IntegerFormat(n, v)
  BY <1>1, <1>2, <1>4, <1>5, <1>10, IntegerFormats, SMT
<1>11. QED
  BY <1>4, <1>6, <1>7, <1>8, <1>9, <1>10, SMT

(* Those of fallback.py. *)
LEMMA FallbackInteger ==
  ASSUME NEW n \in Num, NEW v, v = Value(n)
  PROVE  /\ InRange(n) <=> -9223372036854775808 <= v /\ v < 18446744073709551616
         /\ InRange(n) => Chosen(n, IntFormats(n)) = IntegerFormat(n, v)
<1> DEFINE rows == IntFormats(n)
<1>1. /\ DOMAIN rows = 1 .. 10
      /\ Row(n, rows, 1) = Plain(n)
      /\ Row(n, rows, 2) = Plain(n)
      /\ Row(n, rows, 3) = Coded(n, 204, 1)
      /\ Row(n, rows, 4) = Coded(n, 208, 1)
      /\ Row(n, rows, 5) = Coded(n, 205, 2)
  BY DEF IntFormats, Row, Coded, Plain
<1>2. /\ Row(n, rows, 6) = Coded(n, 209, 2)
      /\ Row(n, rows, 7) = Coded(n, 206, 4)
      /\ Row(n, rows, 8) = Coded(n, 210, 4)
      /\ Row(n, rows, 9) = Coded(n, 207, 8)
      /\ Row(n, rows, 10) = Coded(n, 211, 8)
  BY DEF IntFormats, Row, Coded
<1>3. /\ rows[1][1] <=> Within(n, Zero, Pow(7))
      /\ rows[2][1] <=> Within(n, NegPow(5), Zero)
      /\ rows[3][1] <=> Within(n, Pow(7), Pow(8))
      /\ rows[4][1] <=> Within(n, NegPow(7), Zero)
      /\ rows[5][1] <=> Within(n, Pow(8), Pow(16))
  BY DEF IntFormats
<1>4. /\ rows[6][1] <=> Within(n, NegPow(15), NegPow(7))
      /\ rows[7][1] <=> Within(n, Pow(16), Pow(32))
      /\ rows[8][1] <=> Within(n, NegPow(31), NegPow(15))
      /\ rows[9][1] <=> Within(n, Pow(32), Pow(64))
      /\ rows[10][1] <=> Within(n, NegPow(63), NegPow(31))
  BY DEF IntFormats
<1>5. InRange(n) <=> \E i \in DOMAIN rows : rows[i][1]
  BY Zenon DEF InRange
<1> HIDE DEF rows
<1>6. /\ v \in Int
      /\ rows[1][1] <=> 0 <= v /\ v < 128
      /\ rows[2][1] <=> -32 <= v /\ v < 0
      /\ rows[3][1] <=> 128 <= v /\ v < 256
      /\ rows[4][1] <=> -128 <= v /\ v < 0
      /\ rows[5][1] <=> 256 <= v /\ v < 65536
  BY <1>3, PowerBounds, SMT DEF Within
<1>7. /\ rows[6][1] <=> -32768 <= v /\ v < -128
      /\ rows[7][1] <=> 65536 <= v /\ v < 4294967296
      /\ rows[8][1] <=> -2147483648 <= v /\ v < -32768
      /\ rows[9][1] <=> 4294967296 <= v /\ v < 18446744073709551616
      /\ rows[10][1] <=> -9223372036854775808 <= v /\ v < -2147483648
  BY <1>4, PowerBounds, SMT DEF Within
<1> DEFINE c == Chosen(n, IntFormats(n))
<1>c. c = Chosen(n, rows)
  BY DEF rows
<1> HIDE DEF c
<1>8. /\ rows[1][1] => c = Row(n, rows, 1)
      /\ ~rows[1][1] /\ rows[2][1] => c = Row(n, rows, 2)
      /\ ~rows[1][1] /\ ~rows[2][1] /\ rows[3][1] => c = Row(n, rows, 3)
      /\ ~rows[1][1] /\ ~rows[2][1] /\ ~rows[3][1] /\ rows[4][1] => c = Row(n, rows, 4)
      /\ /\ ~rows[1][1] /\ ~rows[2][1] /\ ~rows[3][1] /\ ~rows[4][1]
         /\ rows[5][1]
         => c = Row(n, rows, 5)
      /\ /\ ~rows[1][1] /\ ~rows[2][1] /\ ~rows[3][1] /\ ~rows[4][1]
         /\ ~rows[5][1] /\ rows[6][1]
         => c = Row(n, rows, 6)
      /\ /\ ~rows[1][1] /\ ~rows[2][1] /\ ~rows[3][1] /\ ~rows[4][1]
         /\ ~rows[5][1] /\ ~rows[6][1] /\ rows[7][1]
         => c = Row(n, rows, 7)
      /\ /\ ~rows[1][1] /\ ~rows[2][1] /\ ~rows[3][1] /\ ~rows[4][1]
         /\ ~rows[5][1] /\ ~rows[6][1] /\ ~rows[7][1] /\ rows[8][1]
         => c = Row(n, rows, 8)
      /\ /\ ~rows[1][1] /\ ~rows[2][1] /\ ~rows[3][1] /\ ~rows[4][1]
         /\ ~rows[5][1] /\ ~rows[6][1] /\ ~rows[7][1] /\ ~rows[8][1]
         /\ rows[9][1]
         => c = Row(n, rows, 9)
      /\ /\ ~rows[1][1] /\ ~rows[2][1] /\ ~rows[3][1] /\ ~rows[4][1]
         /\ ~rows[5][1] /\ ~rows[6][1] /\ ~rows[7][1] /\ ~rows[8][1]
         /\ ~rows[9][1] /\ rows[10][1]
         => c = Row(n, rows, 10)
  BY <1>1, <1>c, RowsInOrder, SMT
<1>9. InRange(n) <=> -9223372036854775808 <= v /\ v < 18446744073709551616
  <2>1. ASSUME NEW i \in 1 .. 10, rows[i][1]
        PROVE  -9223372036854775808 <= v /\ v < 18446744073709551616
    <3>1. i = 1 \/ i = 2 \/ i = 3 \/ i = 4 \/ i = 5
            \/ i = 6 \/ i = 7 \/ i = 8 \/ i = 9 \/ i = 10
      BY <2>1, SMT
    <3>2. QED
      BY <1>6, <1>7, <2>1, <3>1, SMT
  <2>2. ASSUME -9223372036854775808 <= v, v < 18446744073709551616
        PROVE  \E i \in 1 .. 10 : rows[i][1]
    <3>1. \/ rows[1][1] \/ rows[2][1] \/ rows[3][1] \/ rows[4][1] \/ rows[5][1]
          \/ rows[6][1] \/ rows[7][1] \/ rows[8][1] \/ rows[9][1] \/ rows[10][1]
      BY <1>6, <1>7, <2>2, SMT
    <3>2. QED
      BY <3>1, SMT
  <2>3. QED
    BY <1>1, <1>5, <2>1, <2>2, SMT
<1>10. ASSUME 0 <= v, v < 128
       PROVE  c = IntegerFormat(n, v)
  BY <1>1, <1>2, <1>6, <1>7, <1>8, <1>10, IntegerFormats, SMT
<1>11. ASSUME -32 <= v, v < 0
       PROVE  c = IntegerFormat(n, v)
  BY <1>1, <1>2, <1>6, <1>7, <1>8, <1>11, IntegerFormats, SMT
<1>12. ASSUME 128 <= v, v < 256
       PROVE  c = IntegerFormat(n, v)
  BY <1>1, <1>2, <1>6, <1>7, <1>8, <1>12, IntegerFormats, SMT
<1>13. ASSUME -128 <= v, v < -32
       PROVE  c = IntegerFormat(n, v)
  BY <1>1, <1>2, <1>6, <1>7, <1>8, <1>13, IntegerFormats, SMT
<1>14. ASSUME 256 <= v, v < 65536
       PROVE  c = IntegerFormat(n, v)
  BY <1>1, <1>2, <1>6, <1>7, <1>8, <1>14, IntegerFormats, SMT
<1>15. ASSUME -32768 <= v, v < -128
       PROVE  c = IntegerFormat(n, v)
  BY <1>1, <1>2, <1>6, <1>7, <1>8, <1>15, IntegerFormats, SMT
<1>16. ASSUME 65536 <= v, v < 4294967296
       PROVE  c = IntegerFormat(n, v)
  BY <1>1, <1>2, <1>6, <1>7, <1>8, <1>16, IntegerFormats, SMT
<1>17. ASSUME -2147483648 <= v, v < -32768
       PROVE  c = IntegerFormat(n, v)
  BY <1>1, <1>2, <1>6, <1>7, <1>8, <1>17, IntegerFormats, SMT
<1>18. ASSUME 4294967296 <= v, v < 18446744073709551616
       PROVE  c = IntegerFormat(n, v)
  BY <1>1, <1>2, <1>6, <1>7, <1>8, <1>18, IntegerFormats, SMT
<1>19. ASSUME -9223372036854775808 <= v, v < -2147483648
       PROVE  c = IntegerFormat(n, v)
  BY <1>1, <1>2, <1>6, <1>7, <1>8, <1>19, IntegerFormats, SMT
<1>20. QED
  BY <1>6, <1>9, <1>10, <1>11, <1>12, <1>13, <1>14, <1>15, <1>16, <1>17, <1>18, <1>19, SMT DEF c

(* The two agree on every integer. *)
LEMMA IntegersAgree ==
  ASSUME NEW n \in Num
  PROVE  /\ CanConvert(n) <=> InRange(n)
         /\ CanConvert(n) =>
              (IF Less(Zero, n) THEN real_uint64(n) ELSE real_int64(n))
                = Chosen(n, IntFormats(n))
<1> DEFINE v == Value(n)
<1>1. /\ CanConvert(n) <=> -9223372036854775808 <= v /\ v < 18446744073709551616
      /\ Less(Zero, n) => -32 <= v
  BY PowerBounds, SMT DEF CanConvert, Within
<1>2. /\ InRange(n) <=> -9223372036854775808 <= v /\ v < 18446744073709551616
      /\ InRange(n) => Chosen(n, IntFormats(n)) = IntegerFormat(n, v)
  BY FallbackInteger, SMT
<1>3. Less(Zero, n) => real_uint64(n) = IntegerFormat(n, v)
  BY <1>1, Uint64Formats, SMT
<1>4. real_int64(n) = IntegerFormat(n, v)
  BY Int64Formats, SMT
<1>5. QED
  BY <1>1, <1>2, <1>3, <1>4, SMT

-------------------------------------------------------------------------------
(* Counts and lengths. *)

(* A number counts by its nine bytes only. *)
LEMMA SameWide ==
  ASSUME NEW m, NEW n, Wide(m) = Wide(n)
  PROVE  /\ \A k : Low(m, k) = Low(n, k)
         /\ \A p : Less(m, p) <=> Less(n, p)
         /\ \A rows : Chosen(m, rows) = Chosen(n, rows)
<1>1. \A k : Low(m, k) = Low(n, k)
  BY Zenon DEF Low
<1>2. \A p : Less(m, p) <=> Less(n, p)
  BY Zenon DEF Less
<1>3. \A rows : Chosen(m, rows) = Chosen(n, rows)
  BY <1>1, Zenon DEF Chosen
<1>4. QED
  BY <1>1, <1>2, <1>3, Zenon

(* The test against ITEM_LIMIT is the test against 2^32. *)
LEMMA ItemLimit ==
  ASSUME NEW n \in Num
  PROVE  Less(ITEM_LIMIT, n) <=> ~Less(n, Pow(32))
<1> DEFINE l == ITEM_LIMIT
<1>1. l \in Num /\ Len(l) = 5
  BY DEF ITEM_LIMIT, Num, ByteString, Byte
<1>2. /\ l[1] = 0 /\ l[2] = 255 /\ l[3] = 255 /\ l[4] = 255 /\ l[5] = 255
  BY DEF ITEM_LIMIT
<1> HIDE DEF l
<1>3. ASSUME NEW i \in 1 .. 9
      PROVE  Wide(l)[i] = IF i > 4 THEN l[i - 4] ELSE 0
  <2>1. Wide(l)[i] = IF i > 9 - Len(l) THEN l[i - (9 - Len(l))]
                     ELSE IF l[1] >= 128 THEN 255 ELSE 0
    BY <1>1, WideCells, Zenon
  <2>2. QED
    BY <1>1, <1>2, <2>1
<1>4. Value(l) = OfBytes(Wide(l))
  BY <1>1, ValueBytes, Zenon
<1>5. Value(l) = 4294967295
  BY <1>2, <1>3, <1>4, SMT DEF OfBytes, Sum, Signed
<1>6. Less(l, n) <=> Value(l) < Value(n)
  BY <1>1, LessIsLess, Zenon
<1>7. /\ Less(n, Pow(32)) <=> Value(n) < 4294967296
      /\ Value(n) \in Int
  BY PowerBounds, SMT
<1>8. QED
  BY <1>5, <1>6, <1>7, SMT DEF l

(* pack_array_header() and pack_map_header(), and the headers of lists and *)
(* dicts.                                                                  *)
LEMMA CountsAgree ==
  ASSUME NEW n \in Num, Fits32(n)
  PROVE  /\ ArrayHeader(n) = Wrote(pack_array(n))
         /\ MapHeader(n) = Wrote(pack_map(n))
<1>1. Wide(unsigned(n)) = Wide(n)
  BY UnsignedWide, Zenon
<1>2. Less(n, Pow(32))
  BY PowerBounds, SMT DEF Fits32, In32
<1>3. ASSUME NEW fix, NEW code
      PROVE  counted(unsigned(n), fix, code) = counted(n, fix, code)
  <2> DEFINE m == unsigned(n)
  <2>1. /\ \A k : Low(m, k) = Low(n, k)
        /\ \A p : Less(m, p) <=> Less(n, p)
        /\ \A rows : Chosen(m, rows) = Chosen(n, rows)
    BY <1>1, SameWide, Zenon
  <2> HIDE DEF m
  <2>2. /\ Low(m, 1) = Low(n, 1)
        /\ Less(m, Pow(4)) = Less(n, Pow(4)) /\ Less(m, Pow(16)) = Less(n, Pow(16))
    <3>1. \A p : Less(m, p) \in BOOLEAN /\ Less(n, p) \in BOOLEAN
      BY Zenon DEF Less
    <3>2. QED
      BY <2>1, <3>1
  <2>3. counted(m, fix, code) = counted(n, fix, code)
    BY <2>1, <2>2, Zenon DEF counted
  <2>4. QED
    BY <2>3 DEF m
<1>4. ASSUME NEW fix, NEW code
      PROVE  CountHeader(n, fix, code) = Wrote(counted(n, fix, code))
  BY <1>2, Zenon DEF CountHeader, counted
<1>5. QED
  BY <1>3, <1>4, SMT DEF ArrayHeader, MapHeader, pack_array, pack_map

LEMMA LengthsAgree ==
  ASSUME NEW n \in Num, Fits32(n), NEW use_bin_type
  PROVE  /\ RawHeader(n, use_bin_type) = pack_raw(n, use_bin_type)
         /\ BinHeader(n, use_bin_type) = pack_bin(n, use_bin_type)
<1>1. Less(n, Pow(32)) = TRUE
  <2>1. Less(n, Pow(32))
    BY PowerBounds, SMT DEF Fits32, In32
  <2>2. Less(n, Pow(32)) \in BOOLEAN
    BY Zenon DEF Less
  <2>3. QED
    BY <2>1, <2>2
<1>2. RawHeader(n, use_bin_type) = pack_raw(n, use_bin_type)
  BY <1>1, Zenon DEF RawHeader, pack_raw
<1>3. BinHeader(n, use_bin_type) = pack_bin(n, use_bin_type)
  BY <1>1, <1>2, Zenon DEF BinHeader, pack_bin
<1>4. QED
  BY <1>2, <1>3

(* The powers of two that are the sizes of fixext. *)
LEMMA FixextSizes ==
  /\ Pow(0)[9] = 1 /\ Pow(1)[9] = 2 /\ Pow(2)[9] = 4 /\ Pow(3)[9] = 8 /\ Pow(4)[9] = 16
<1>1. ASSUME NEW k \in 0 .. 64 PROVE Pow(k)[9] = IF 9 = 9 - k \div 8 THEN 2 ^ (k % 8) ELSE 0
  <2>1. 9 \in 1 .. 9
    OBVIOUS
  <2>2. QED
    BY <2>1, PowerCells, Zenon
<1>2. 2 ^ 0 = 1 /\ 2 ^ 1 = 2 /\ 2 ^ 2 = 4 /\ 2 ^ 3 = 8 /\ 2 ^ 4 = 16
  BY SMT
<1>3. QED
  BY <1>1, <1>2, SMT

LEMMA ExtsAgree ==
  ASSUME NEW n \in Num, NEW code
  PROVE  ExtHeader(n, code) = pack_ext(code, n)
<1> DEFINE rows == << <<Wide(n) = Pow(0), <<212>>, 0>>, <<Wide(n) = Pow(1), <<213>>, 0>>,
                      <<Wide(n) = Pow(2), <<214>>, 0>>, <<Wide(n) = Pow(3), <<215>>, 0>>,
                      <<Wide(n) = Pow(4), <<216>>, 0>>,
                      <<Less(n, Pow(8)), <<199>>, 1>>,
                      <<Less(n, Pow(16)), <<200>>, 2>>,
                      <<TRUE, <<201>>, 4>> >>
           last == << <<Less(n, Pow(8)), <<199>>, 1>>,
                      <<Less(n, Pow(16)), <<200>>, 2>>,
                      <<TRUE, <<201>>, 4>> >>
           fixed == CHOOSE k \in fixext(n) : TRUE
           c == Chosen(n, rows)
           d == Chosen(n, last)
<1>1. ExtHeader(n, code) = c \o <<code % 256>>
  BY Zenon DEF ExtHeader
<1>2. pack_ext(code, n) = (IF fixext(n) # {} THEN <<212 + fixed>> ELSE d) \o <<code % 256>>
  BY Zenon DEF pack_ext, typebyte
<1>3. /\ DOMAIN rows = 1 .. 8 /\ DOMAIN last = 1 .. 3
      /\ Row(n, rows, 6) = Row(n, last, 1) /\ Row(n, rows, 7) = Row(n, last, 2)
      /\ Row(n, rows, 8) = Row(n, last, 3)
  BY DEF Row
<1>4. /\ rows[1][2] = <<212>> /\ rows[1][3] = 0
      /\ rows[2][2] = <<213>> /\ rows[2][3] = 0
      /\ rows[3][2] = <<214>> /\ rows[3][3] = 0
      /\ rows[4][2] = <<215>> /\ rows[4][3] = 0
      /\ rows[5][2] = <<216>> /\ rows[5][3] = 0
  OBVIOUS
<1>5. /\ rows[1][1] <=> Wide(n) = Pow(0)
      /\ rows[2][1] <=> Wide(n) = Pow(1)
      /\ rows[3][1] <=> Wide(n) = Pow(2)
      /\ rows[4][1] <=> Wide(n) = Pow(3)
      /\ rows[5][1] <=> Wide(n) = Pow(4)
  OBVIOUS
<1>6. /\ rows[6][1] <=> last[1][1]
      /\ rows[7][1] <=> last[2][1]
      /\ rows[8][1] /\ last[3][1]
  OBVIOUS
<1> HIDE DEF rows, last, fixed, c, d
<1>7. ASSUME NEW k \in 0 .. 4
      PROVE  /\ rows[k + 1][2] = <<212 + k>> /\ rows[k + 1][3] = 0
             /\ rows[k + 1][1] <=> Wide(n) = Pow(k)
  <2>1. k = 0 \/ k = 1 \/ k = 2 \/ k = 3 \/ k = 4
    OBVIOUS
  <2>2. QED
    BY <1>4, <1>5, <2>1
<1>8. ASSUME NEW k \in 0 .. 4, Wide(n) = Pow(k) PROVE c = <<212 + k>>
  <2>1. ASSUME NEW j \in 0 .. 4, Wide(n) = Pow(j) PROVE j = k
    <3>1. Pow(j)[9] = Pow(k)[9]
      BY <1>8, <2>1
    <3>2. /\ j = 0 \/ j = 1 \/ j = 2 \/ j = 3 \/ j = 4
          /\ k = 0 \/ k = 1 \/ k = 2 \/ k = 3 \/ k = 4
      OBVIOUS
    <3>3. QED
      BY <3>1, <3>2, FixextSizes, SMT
  <2>2. rows[k + 1][1] /\ k + 1 \in 1 .. 8 /\ 8 \in Nat
    BY <1>7, <1>8
  <2>3. \A j \in 1 .. (k + 1) - 1 : ~rows[j][1]
    <3>1. ASSUME NEW j \in 1 .. (k + 1) - 1 PROVE ~rows[j][1]
      <4>1. j - 1 \in 0 .. 4 /\ j - 1 # k /\ (j - 1) + 1 = j
        BY <3>1
      <4>2. QED
        BY <1>7, <2>1, <4>1
    <3>2. QED
      BY <3>1
  <2>4. c = rows[k + 1][2] \o Low(n, rows[k + 1][3])
    BY <1>3, <2>2, <2>3, FirstRow, Zenon DEF c
  <2>5. rows[k + 1][2] = <<212 + k>> /\ rows[k + 1][3] = 0
    BY <1>7
  <2>6. Low(n, 0) = <<>>
    <3>1. 0 \in 0 .. 8
      OBVIOUS
    <3>2. Low(n, 0) \in Seq(Byte) /\ Len(Low(n, 0)) = 0
      BY <3>1, LowBytes DEF ByteString
    <3>3. QED
      BY <3>2, EmptySeq
  <2>7. <<212 + k>> \o <<>> = <<212 + k>>
    OBVIOUS
  <2>8. QED
    BY <2>4, <2>5, <2>6, <2>7
<1>9. CASE fixext(n) # {}
  <2>1. fixed \in fixext(n)
    BY <1>9, Zenon DEF fixed
  <2>2. fixed \in 0 .. 4 /\ Wide(n) = Pow(fixed)
    BY <2>1 DEF fixext
  <2>3. QED
    BY <1>1, <1>2, <1>8, <1>9, <2>2, Zenon
<1>10. CASE fixext(n) = {}
  <2>1. \A k \in 0 .. 4 : ~rows[k + 1][1]
    BY <1>7, <1>10 DEF fixext
  <2>2. ~rows[1][1] /\ ~rows[2][1] /\ ~rows[3][1] /\ ~rows[4][1] /\ ~rows[5][1]
    BY <2>1
  <2>3. /\ rows[6][1] => c = Row(n, rows, 6)
        /\ ~rows[6][1] /\ rows[7][1] => c = Row(n, rows, 7)
        /\ ~rows[6][1] /\ ~rows[7][1] => c = Row(n, rows, 8)
    BY <1>3, <1>6, <2>2, RowsInOrder DEF c
  <2>4. /\ last[1][1] => d = Row(n, last, 1)
        /\ ~last[1][1] /\ last[2][1] => d = Row(n, last, 2)
        /\ ~last[1][1] /\ ~last[2][1] => d = Row(n, last, 3)
    BY <1>3, <1>6, RowsInOrder DEF d
  <2>5. c = d
    BY <1>3, <1>6, <2>3, <2>4, Zenon
  <2>6. QED
    BY <1>1, <1>2, <1>10, <2>5, Zenon
<1>11. QED
  BY <1>9, <1>10

-------------------------------------------------------------------------------
(* What was handed to msgpack_pack_write() is the concatenation.           *)
LEMMA FlattenTwo ==
  ASSUME NEW s, NEW n \in {1, 2}, Len(s) = n
  PROVE  FlattenSeq(s) = IF n = 1 THEN s[1] ELSE s[1] \o s[2]
<1> DEFINE Is(g) == g = [i \in 1 .. n |-> IF i = 1 THEN s[i] ELSE g[i - 1] \o s[i]]
           flatten == CHOOSE g : Is(g)
<1>1. n # 0
  OBVIOUS
<1>2. FlattenSeq(s) = flatten[n]
  BY <1>1, Zenon DEF FlattenSeq
<1> DEFINE f == [i \in 1 .. n |-> IF i = 1 THEN s[1] ELSE s[1] \o s[2]]
<1>3. Is(f)
  <2>1. ASSUME NEW i \in 1 .. n
        PROVE  f[i] = IF i = 1 THEN s[i] ELSE f[i - 1] \o s[i]
    <3>1. CASE i = 1
      BY <3>1
    <3>2. CASE i # 1
      <4>1. i = 2 /\ i - 1 = 1 /\ 1 \in 1 .. n /\ 2 \in 1 .. n
        BY <3>2, SMT
      <4>2. f[1] = s[1] /\ f[2] = s[1] \o s[2]
        BY <4>1
      <4> HIDE DEF f
      <4>3. QED
        BY <4>1, <4>2, <3>2
    <3>3. QED
      BY <3>1, <3>2
  <2>2. f = [i \in 1 .. n |-> f[i]]
    OBVIOUS
  <2> HIDE DEF f
  <2>3. QED
    BY <2>1, <2>2, Zenon
<1>4. Is(flatten)
  BY <1>3, Zenon
<1> HIDE DEF flatten
<1>5. \A i \in 1 .. n : flatten[i] = IF i = 1 THEN s[i] ELSE flatten[i - 1] \o s[i]
  BY <1>4, Zenon
<1>6. flatten[1] = s[1]
  BY <1>5
<1>7. n = 2 => flatten[2] = flatten[1] \o s[2]
  BY <1>5
<1>8. QED
  BY <1>2, <1>6, <1>7

LEMMA Flattened ==
  ASSUME NEW s
  PROVE  /\ Len(s) = 1 => FlattenSeq(s) = s[1]
         /\ Len(s) = 2 => FlattenSeq(s) = s[1] \o s[2]
<1>1. CASE Len(s) = 1
  <2>1. FlattenSeq(s) = IF 1 = 1 THEN s[1] ELSE s[1] \o s[2]
    BY <1>1, FlattenTwo
  <2>2. QED
    BY <1>1, <2>1
<1>2. CASE Len(s) = 2
  <2>1. FlattenSeq(s) = IF 2 = 1 THEN s[1] ELSE s[1] \o s[2]
    BY <1>2, FlattenTwo
  <2>2. QED
    BY <1>2, <2>1
<1>3. QED
  BY <1>1, <1>2

-------------------------------------------------------------------------------
(* Lengths and timestamps. *)
LEMMA SizeBytes ==
  ASSUME NEW S, NEW s \in Seq(S), Short(s)
  PROVE  Size(s) \in Num /\ Fits32(Size(s))
<1>1. Len(s) \in Int32 /\ Len(s) >= 0 /\ Len(s) < 4294967296
  BY SMT DEF Short, Int32
<1>2. Size(s) \in Num /\ Value(Size(s)) = Len(s)
  BY <1>1, OfIntValue, SMT DEF Size
<1>3. QED
  BY <1>1, <1>2, SMT DEF Fits32, In32

(* One byte says the same as the four of an int. *)
LEMMA ByteWide ==
  ASSUME NEW b \in 0 .. 127
  PROVE  <<b>> \in Num /\ OfInt(b) \in Num /\ Wide(<<b>>) = Wide(OfInt(b))
<1> DEFINE m == <<b>>
           n == OfInt(b)
<1>1. m \in Num /\ Len(m) = 1 /\ m[1] = b
  BY DEF Num, ByteString, Byte
<1>2. n = <<0, 0, 0, b>>
  BY Exponents, SMT DEF OfInt
<1>3. n \in Num /\ Len(n) = 4 /\ n[1] = 0 /\ n[2] = 0 /\ n[3] = 0 /\ n[4] = b
  <2>1. b \in Int32
    BY SMT DEF Int32
  <2>2. n \in Num
    BY <2>1, SmallBytes
  <2>3. QED
    BY <1>2, <2>2
<1> HIDE DEF m, n
<1>4. ASSUME NEW i \in 1 .. 9 PROVE Wide(m)[i] = Wide(n)[i]
  <2>1. /\ Wide(m)[i] = IF i > 9 - Len(m) THEN m[i - (9 - Len(m))]
                        ELSE IF m[1] >= 128 THEN 255 ELSE 0
        /\ Wide(n)[i] = IF i > 9 - Len(n) THEN n[i - (9 - Len(n))]
                        ELSE IF n[1] >= 128 THEN 255 ELSE 0
    BY <1>1, <1>3, WideCells, Zenon
  <2>2. i <= 5 \/ i = 6 \/ i = 7 \/ i = 8 \/ i = 9
    OBVIOUS
  <2>3. QED
    BY <1>1, <1>3, <2>1, <2>2
<1>5. /\ Wide(m) \in Seq(Byte) /\ Len(Wide(m)) = 9
      /\ Wide(n) \in Seq(Byte) /\ Len(Wide(n)) = 9
  BY <1>1, <1>3, WideBytes DEF ByteString
<1>6. Wide(m) = Wide(n)
  BY <1>4, <1>5, SeqEqual
<1>7. QED
  BY <1>1, <1>3, <1>6 DEF m, n

LEMMA SameExt ==
  ASSUME NEW m, NEW n, Wide(m) = Wide(n), NEW code
  PROVE  pack_ext(code, m) = pack_ext(code, n)
<1>1. /\ \A p : Less(m, p) = Less(n, p)
      /\ \A rows : Chosen(m, rows) = Chosen(n, rows)
  <2>1. \A p : Less(m, p) \in BOOLEAN /\ Less(n, p) \in BOOLEAN
    BY Zenon DEF Less
  <2>2. QED
    BY <2>1, SameWide
<1>2. fixext(m) = fixext(n)
  BY Zenon DEF fixext
<1>3. Less(m, Pow(8)) = Less(n, Pow(8)) /\ Less(m, Pow(16)) = Less(n, Pow(16))
  BY <1>1
<1> DEFINE rows(l) == << <<Less(l, Pow(8)), <<199>>, 1>>,
                         <<Less(l, Pow(16)), <<200>>, 2>>,
                         <<TRUE, <<201>>, 4>> >>
           fixed(l) == <<212 + CHOOSE k \in fixext(l) : TRUE>>
<1>4. rows(m) = rows(n)
  BY <1>3, Zenon
<1>5. fixed(m) = fixed(n)
  BY <1>2, Zenon
<1>6. ASSUME NEW l
      PROVE  pack_ext(code, l) = (IF fixext(l) # {} THEN fixed(l) ELSE Chosen(l, rows(l)))
                                   \o <<typebyte(code)>>
  BY Zenon DEF pack_ext
<1> HIDE DEF rows, fixed
<1>7. Chosen(m, rows(m)) = Chosen(n, rows(n))
  BY <1>1, <1>4, Zenon
<1>8. QED
  BY <1>2, <1>5, <1>6, <1>7, Zenon

(* msgpack_pack_timestamp() and Timestamp.to_bytes() behind its header.    *)
LEMMA TimestampsAgree ==
  ASSUME NEW sec \in Num, NEW nsec \in Nanoseconds
  PROVE  FlattenSeq(pack_timestamp(sec, nsec))
           = ExtHeader(Size(ToBytes(sec, nsec)), -1) \o ToBytes(sec, nsec)
<1> DEFINE b == ToBytes(sec, nsec)
<1>1. ASSUME NEW l \in {4, 8, 12}, Len(b) = l,
             pack_timestamp(sec, nsec) = <<pack_ext(-1, <<l>>), b>>
      PROVE  FlattenSeq(pack_timestamp(sec, nsec)) = ExtHeader(Size(b), -1) \o b
  <2> DEFINE h == pack_ext(-1, <<l>>)
             s == <<h, b>>
  <2>1. l \in 0 .. 127
    BY <1>1
  <2>2. OfInt(l) \in Num /\ Wide(<<l>>) = Wide(OfInt(l))
    BY <2>1, ByteWide
  <2>3. h = pack_ext(-1, OfInt(l))
    BY <2>2, SameExt
  <2>4. pack_ext(-1, OfInt(l)) = ExtHeader(OfInt(l), -1)
    BY <2>2, ExtsAgree
  <2>5. Size(b) = OfInt(l)
    BY <1>1, Zenon DEF Size
  <2> HIDE DEF h, b
  <2>6. Len(s) = 2 /\ s[1] = h /\ s[2] = b
    OBVIOUS
  <2> HIDE DEF s
  <2>7. FlattenSeq(s) = h \o b
    BY <2>6, Flattened
  <2>8. pack_timestamp(sec, nsec) = s
    BY <1>1, Zenon DEF s, h
  <2>9. QED
    BY <2>3, <2>4, <2>5, <2>7, <2>8, Zenon
<1>2. /\ Low(sec, 4) \in Seq(Byte) /\ Len(Low(sec, 4)) = 4
      /\ Low(sec, 8) \in Seq(Byte) /\ Len(Low(sec, 8)) = 8
  BY LowBytes DEF ByteString
<1>3. CASE Within(sec, Zero, Pow(34)) /\ nsec = 0 /\ Less(sec, Pow(32))
  <2>1. b = Low(sec, 4)
    BY <1>3, Zenon DEF ToBytes
  <2>2. pack_timestamp(sec, nsec) = <<pack_ext(-1, <<4>>), b>>
    BY <1>3, <2>1, Zenon DEF pack_timestamp
  <2> HIDE DEF b
  <2>3. QED
    BY <1>1, <1>2, <2>1, <2>2 DEF b
<1>4. CASE Within(sec, Zero, Pow(34)) /\ ~(nsec = 0 /\ Less(sec, Pow(32)))
  <2>1. b = data64(sec, nsec)
    BY <1>4, Zenon DEF ToBytes
  <2>2. pack_timestamp(sec, nsec) = <<pack_ext(-1, <<8>>), b>>
    BY <1>4, <2>1, Zenon DEF pack_timestamp
  <2>3. Len(data64(sec, nsec)) = 8
    <3> DEFINE p == nsec \div 2^22
               q == (nsec \div 2^14) % 256
               r == (nsec \div 2^6) % 256
               s == (nsec % 64) * 4 + Wide(sec)[5]
               high == <<p, q, r, s>>
    <3>1. data64(sec, nsec) = high \o Low(sec, 4)
      BY Zenon DEF data64
    <3> HIDE DEF p, q, r, s
    <3>2. high \in Seq({p, q, r, s} \cup Byte) /\ Len(high) = 4
      OBVIOUS
    <3>3. Seq(Byte) \subseteq Seq({p, q, r, s} \cup Byte)
      BY SeqDef
    <3> HIDE DEF high
    <3>4. Low(sec, 4) \in Seq({p, q, r, s} \cup Byte)
      BY <1>2, <3>3, Zenon
    <3>5. Len(high \o Low(sec, 4)) = Len(high) + Len(Low(sec, 4))
      BY <3>2, <3>4, ConcatProperties, Zenon
    <3>6. QED
      BY <1>2, <3>1, <3>2, <3>5
  <2> HIDE DEF b
  <2>4. QED
    BY <1>1, <2>1, <2>2, <2>3 DEF b
<1>5. CASE ~Within(sec, Zero, Pow(34))
  <2>1. b = OfInt(nsec) \o Low(sec, 8)
    BY <1>5, Zenon DEF ToBytes
  <2>2. pack_timestamp(sec, nsec) = <<pack_ext(-1, <<12>>), b>>
    BY <1>5, <2>1, Zenon DEF pack_timestamp
  <2>3. OfInt(nsec) \in Seq(Byte)
    BY NanosecondBits, SmallBytes, NumBytes
  <2>4. Len(OfInt(nsec)) = 4
    BY SMT DEF OfInt
  <2>5. Len(b) = 12
    <3>1. Len(OfInt(nsec) \o Low(sec, 8)) = Len(OfInt(nsec)) + Len(Low(sec, 8))
      BY <1>2, <2>3, ConcatProperties, Zenon
    <3>2. Len(b) = Len(OfInt(nsec) \o Low(sec, 8))
      BY <2>1, Zenon
    <3>3. Len(b) = 4 + 8
      BY <1>2, <2>4, <3>1, <3>2, Zenon
    <3> HIDE DEF b
    <3>4. QED
      BY <3>3 DEF b
  <2> HIDE DEF b
  <2>6. QED
    BY <1>1, <2>2, <2>5 DEF b
<1>6. QED
  BY <1>3, <1>4, <1>5

(* The other objects are a header and its body. *)
LEMMA BodyFlat ==
  ASSUME NEW h \in ByteString, NEW s \in ByteString
  PROVE  FlattenSeq(<<h>> \o Body(s)) = h \o s
<1> DEFINE w == <<h>> \o Body(s)
<1>1. CASE s = <<>>
  <2>1. w = <<h>>
    BY <1>1 DEF Body
  <2>2. Len(w) = 1 /\ w[1] = h
    BY <2>1
  <2> HIDE DEF w
  <2>3. FlattenSeq(w) = h
    BY <2>2, Flattened
  <2>4. h \o s = h
    BY <1>1 DEF ByteString
  <2>5. QED
    BY <2>3, <2>4 DEF w
<1>2. CASE s # <<>>
  <2> DEFINE p == <<h>>
             q == <<s>>
  <2>1. w = p \o q
    BY <1>2 DEF Body
  <2>2. /\ p \in Seq(ByteString) /\ Len(p) = 1 /\ p[1] = h
        /\ q \in Seq(ByteString) /\ Len(q) = 1 /\ q[1] = s
    OBVIOUS
  <2> HIDE DEF w, p, q
  <2>3. Len(w) = 2 /\ w[1] = h /\ w[2] = s
    BY <2>1, <2>2, ConcatProperties
  <2>4. FlattenSeq(w) = h \o s
    BY <2>3, Flattened
  <2>5. QED
    BY <2>4 DEF w
<1>3. QED
  BY <1>1, <1>2

LEMMA OneFlat ==
  ASSUME NEW h
  PROVE  FlattenSeq(<<h>>) = h
<1> DEFINE w == <<h>>
<1>1. Len(w) = 1 /\ w[1] = h
  OBVIOUS
<1> HIDE DEF w
<1>2. FlattenSeq(w) = h
  BY <1>1, Flattened
<1>3. QED
  BY <1>2 DEF w

-------------------------------------------------------------------------------
(* The exception _pack_inner() ends in for an object, or "ok". *)
Outcome(o, opt) == IF Unknown(o, opt) THEN Refusal(o, opt) ELSE Failure(o)

(* The options as Packer has them. *)
OptionsType(opt) ==
  opt.use_bin_type \in BOOLEAN /\ opt.strict_types \in BOOLEAN /\ opt.datetime \in BOOLEAN

(* A datetime before 1970 with a fraction of a second is rounded down by   *)
(* the C packer and up by fallback.py.                                     *)
Rounded(o) == o[1] = "datetime" => o[2] >= 0 \/ o[3] = 0

(* The two agree on an object that is not an instance of a subclass. *)
Same(o, opt) ==
  /\ Outcome(o, opt) = "ok" =>
       WriteSelf(o, opt) = Wrote(FlattenSeq(Writes(o, opt.use_bin_type)))
  /\ Outcome(o, opt) # "ok" =>
       WriteSelf(o, opt).status # "ok" /\ WriteSelf(o, opt).out = <<>>

LEMMA Refused ==
  ASSUME NEW o, NEW opt, Outcome(o, opt) # "ok", NEW e, e # "ok",
         WriteSelf(o, opt) = NotKnown(e) \/ WriteSelf(o, opt) = Raised(e)
  PROVE  Same(o, opt)
BY DEF Same, NotKnown, Raised

LEMMA Accepted ==
  ASSUME NEW o, NEW opt, Outcome(o, opt) = "ok", NEW b,
         WriteSelf(o, opt) = Wrote(b), FlattenSeq(Writes(o, opt.use_bin_type)) = b
  PROVE  Same(o, opt)
BY DEF Same

LEMMA SelfAgrees ==
  ASSUME NEW objects, NEW o, Packable(o, objects), Rounded(o), NEW opt, OptionsType(opt)
  PROVE  Same(o, opt)
<1> DEFINE u == opt.use_bin_type
           W == Writes(o, u)
<1>1. CASE o[1] = "nil"
  <2>1. Outcome(o, opt) = "ok"
    BY <1>1 DEF Outcome, Unknown, Failure
  <2>2. WriteSelf(o, opt) = Wrote(<<192>>) /\ W = <<<<192>>>>
    BY <1>1 DEF WriteSelf, Writes
  <2>3. QED
    BY <2>1, <2>2, OneFlat, Accepted
<1>2. CASE o[1] = "bool"
  <2>1. Outcome(o, opt) = "ok"
    BY <1>2 DEF Outcome, Unknown, Failure
  <2> DEFINE b == IF o[2] THEN <<195>> ELSE <<194>>
  <2>2. WriteSelf(o, opt) = Wrote(b) /\ W = <<b>>
    BY <1>2 DEF WriteSelf, Writes
  <2> HIDE DEF b
  <2>3. QED
    BY <2>1, <2>2, OneFlat, Accepted
<1>3. CASE o[1] = "int"
  <2> DEFINE n == o[2]
             c == IF Less(Zero, n) THEN real_uint64(n) ELSE real_int64(n)
  <2>1. n \in Num
    BY <1>3 DEF Packable
  <2>2. CanConvert(n) <=> InRange(n)
    BY <2>1, IntegersAgree
  <2>3. CanConvert(n) => c = Chosen(n, IntFormats(n))
    BY <2>1, IntegersAgree
  <2>4. /\ CanConvert(n) => Outcome(o, opt) = "ok"
        /\ ~CanConvert(n) => Outcome(o, opt) = "OverflowError"
    BY <1>3 DEF Outcome, Unknown, Failure, Refusal
  <2>5. /\ InRange(n) => WriteSelf(o, opt) = Wrote(Chosen(n, IntFormats(n)))
        /\ ~InRange(n) => WriteSelf(o, opt) = NotKnown("OverflowError")
    BY <1>3 DEF WriteSelf
  <2>6. W = <<c>>
    BY <1>3 DEF Writes
  <2> HIDE DEF n, c
  <2>7. FlattenSeq(W) = c
    BY <2>6, OneFlat
  <2>8. CASE InRange(n)
    BY <2>2, <2>3, <2>4, <2>5, <2>7, <2>8, Accepted
  <2>9. CASE ~InRange(n)
    BY <2>2, <2>4, <2>5, <2>9, Refused
  <2>10. QED
    BY <2>8, <2>9
<1>4. CASE o[1] = "float"
  <2>1. Outcome(o, opt) = "ok"
    BY <1>4 DEF Outcome, Unknown, Failure
  <2> DEFINE b == <<203>> \o o[2]
  <2>2. WriteSelf(o, opt) = Wrote(b) /\ W = <<b>>
    BY <1>4 DEF WriteSelf, Writes
  <2> HIDE DEF b
  <2>3. QED
    BY <2>1, <2>2, OneFlat, Accepted
<1>5. CASE o[1] \in {"bytes", "memoryview", "str"}
  <2>1. Outcome(o, opt) = "ok"
    BY <1>5 DEF Outcome, Unknown, Failure
  <2> DEFINE l == Size(o[2])
  <2>2. o[2] \in ByteString /\ Short(o[2])
    BY <1>5 DEF Packable
  <2>3. l \in Num /\ Fits32(l) /\ Wide(l)[1] < 128
    BY <2>2, SizeBytes, LengthBytes DEF ByteString, Size
  <2>4. pack_bin(l, u) \in ByteString /\ pack_raw(l, u) \in ByteString
    BY <2>3, BinBytes, RawBytes
  <2>5. RawHeader(l, u) = pack_raw(l, u) /\ BinHeader(l, u) = pack_bin(l, u)
    BY <2>3, LengthsAgree
  <2>6. ASSUME NEW h \in ByteString, WriteSelf(o, opt) = Wrote(h \o o[2]),
               W = <<h>> \o Body(o[2])
        PROVE  Same(o, opt)
    BY <2>1, <2>2, <2>6, BodyFlat, Accepted
  <2>7. CASE o[1] = "str"
    <3>1. WriteSelf(o, opt) = Wrote(RawHeader(l, u) \o o[2])
      BY <2>7 DEF WriteSelf
    <3>2. W = <<pack_raw(l, u)>> \o Body(o[2])
      BY <2>7 DEF Writes, Size
    <3>3. QED
      BY <2>4, <2>5, <2>6, <3>1, <3>2
  <2>8. CASE o[1] \in {"bytes", "memoryview"}
    <3>1. WriteSelf(o, opt) = Wrote(BinHeader(l, u) \o o[2])
      BY <2>8 DEF WriteSelf
    <3>2. W = <<pack_bin(l, u)>> \o Body(o[2])
      BY <2>8 DEF Writes, Size
    <3>3. QED
      BY <2>4, <2>5, <2>6, <3>1, <3>2
  <2>9. QED
    BY <1>5, <2>7, <2>8
<1>6. CASE o[1] = "ext"
  <2>1. Outcome(o, opt) = "ok"
    BY <1>6 DEF Outcome, Unknown, Failure
  <2> DEFINE l == Size(o[3])
  <2>2. o[2] \in Int /\ o[3] \in ByteString /\ Short(o[3])
    BY <1>6 DEF Packable
  <2>3. l \in Num
    BY <2>2, SizeBytes DEF ByteString
  <2>4. ExtHeader(l, o[2]) = pack_ext(o[2], l) /\ pack_ext(o[2], l) \in ByteString
    BY <2>2, <2>3, ExtsAgree, ExtBytes
  <2>5. WriteSelf(o, opt) = Wrote(ExtHeader(l, o[2]) \o o[3])
    BY <1>6 DEF WriteSelf
  <2>6. W = <<pack_ext(o[2], l)>> \o Body(o[3])
    BY <1>6 DEF Writes, Size
  <2> HIDE DEF l
  <2>7. FlattenSeq(W) = pack_ext(o[2], l) \o o[3]
    BY <2>2, <2>4, <2>6, BodyFlat
  <2>8. QED
    BY <2>1, <2>4, <2>5, <2>7, Accepted
<1> DEFINE T(sec, nsec) == ExtHeader(Size(ToBytes(sec, nsec)), -1) \o ToBytes(sec, nsec)
<1>7. CASE o[1] = "timestamp"
  <2> DEFINE sec == o[2][2]
             nsec == o[3]
             in64 == Within(sec, NegPow(63), Pow(63))
  <2>1. sec \in Num /\ nsec \in Nanoseconds
    BY <1>7 DEF Packable
  <2>2. /\ in64 => Outcome(o, opt) = "ok"
        /\ ~in64 => Outcome(o, opt) = "OverflowError"
    BY <1>7 DEF Outcome, Unknown, Failure
  <2>3. WriteSelf(o, opt) = PackTimestamp(sec, nsec)
    BY <1>7 DEF WriteSelf
  <2>4. W = pack_timestamp(sec, nsec)
    BY <1>7 DEF Writes
  <2>5. PackTimestamp(sec, nsec) = IF in64 THEN Wrote(T(sec, nsec)) ELSE Raised("struct.error")
    BY Zenon DEF PackTimestamp
  <2>6. FlattenSeq(W) = T(sec, nsec)
    BY <2>1, <2>4, TimestampsAgree
  <2> HIDE DEF sec, nsec, in64, T
  <2>7. CASE in64
    BY <2>2, <2>3, <2>5, <2>6, <2>7, Accepted
  <2>8. CASE ~in64
    BY <2>2, <2>3, <2>5, <2>8, Refused
  <2>9. QED
    BY <2>7, <2>8
<1>8. CASE o[1] = "datetime"
  <2> DEFINE sec == OfInt(o[2])
             nsec == o[3] * 1000
  <2>1. o[2] \in Int32 /\ o[3] \in Microseconds
    BY <1>8 DEF Packable
  <2>2. nsec \in Nanoseconds
    BY <2>1, SMT DEF Microseconds, Nanoseconds
  <2>3. sec \in Num /\ Within(sec, NegPow(63), Pow(63))
    <3>1. sec \in Num /\ Value(sec) = o[2]
      BY <2>1, OfIntValue
    <3> HIDE DEF sec
    <3>2. QED
      BY <2>1, <3>1, PowerBounds, SMT DEF Int32, Within
  <2>4. /\ opt.datetime => Outcome(o, opt) = "ok"
        /\ ~opt.datetime => Outcome(o, opt) = "TypeError"
    BY <1>8 DEF Outcome, Unknown, Failure, Refusal
  <2>5. FromDatetime(o[2], o[3]) = <<"timestamp", <<"int", sec>>, nsec>>
    <3>1. (IF o[2] < 0 /\ o[3] > 0 THEN o[2] + 1 ELSE o[2]) = o[2]
      BY <1>8, <2>1, SMT DEF Rounded, Int32, Microseconds
    <3>2. QED
      BY <3>1, Zenon DEF FromDatetime
  <2>6. /\ opt.datetime => WriteSelf(o, opt) = PackTimestamp(sec, nsec)
        /\ ~opt.datetime => WriteSelf(o, opt) = NotKnown("TypeError")
    <3> DEFINE t == FromDatetime(o[2], o[3])
    <3>1. /\ opt.datetime => WriteSelf(o, opt) = PackTimestamp(t[2][2], t[3])
          /\ ~opt.datetime => WriteSelf(o, opt) = NotKnown("TypeError")
      BY <1>8 DEF WriteSelf
    <3>2. t[2][2] = sec /\ t[3] = nsec
      BY <2>5
    <3> HIDE DEF t, sec, nsec
    <3>3. QED
      BY <3>1, <3>2
  <2>7. W = pack_timestamp(sec, nsec)
    BY <1>8 DEF Writes
  <2>8. PackTimestamp(sec, nsec) = Wrote(T(sec, nsec))
    BY <2>3, Zenon DEF PackTimestamp
  <2>9. FlattenSeq(W) = T(sec, nsec)
    BY <2>2, <2>3, <2>7, TimestampsAgree
  <2> HIDE DEF sec, nsec, T
  <2>10. CASE opt.datetime
    BY <2>4, <2>6, <2>8, <2>9, <2>10, Accepted
  <2>11. CASE ~opt.datetime
    BY <2>4, <2>6, <2>11, Refused
  <2>12. QED
    BY <2>10, <2>11
<1>9. CASE o[1] \in {"list", "tuple", "dict"}
  <2> DEFINE l == Size(o[2])
             refused == o[1] = "tuple" /\ opt.strict_types
             h == IF o[1] = "dict" THEN pack_map(l) ELSE pack_array(l)
  <2>1. l \in Num /\ Fits32(l)
    BY <1>9, SizeBytes DEF Packable
  <2>2. ArrayHeader(l) = Wrote(pack_array(l)) /\ MapHeader(l) = Wrote(pack_map(l))
    BY <2>1, CountsAgree
  <2>3. /\ ~refused => Outcome(o, opt) = "ok"
        /\ refused => Outcome(o, opt) = "TypeError"
    BY <1>9 DEF Outcome, Unknown, Failure, Refusal
  <2>4. W = <<h>>
    BY <1>9 DEF Writes, Size
  <2>5. /\ ~refused /\ o[1] # "dict" => WriteSelf(o, opt) = ArrayHeader(l)
        /\ refused => WriteSelf(o, opt) = NotKnown("TypeError")
        /\ o[1] = "dict" => WriteSelf(o, opt) = MapHeader(l)
    BY <1>9 DEF WriteSelf
  <2>6. ~refused => WriteSelf(o, opt) = Wrote(h)
    BY <2>2, <2>5
  <2> HIDE DEF h, l
  <2>7. FlattenSeq(W) = h
    BY <2>4, OneFlat
  <2>8. CASE refused
    BY <2>3, <2>5, <2>8, Refused
  <2>9. CASE ~refused
    BY <2>3, <2>6, <2>7, <2>9, Accepted
  <2>10. QED
    BY <2>8, <2>9
<1>10. CASE o[1] = "unencodable"
  <2>1. Outcome(o, opt) = "UnicodeEncodeError"
    BY <1>10 DEF Outcome, Unknown, Failure
  <2>2. WriteSelf(o, opt) = Raised("UnicodeEncodeError")
    BY <1>10 DEF WriteSelf
  <2>3. QED
    BY <2>1, <2>2, Refused
<1>11. CASE o[1] \in {"naive", "user", "sub"}
  <2>1. Outcome(o, opt) \in {"ValueError", "TypeError"}
    BY <1>11 DEF Outcome, Unknown, Refusal
  <2>2. WriteSelf(o, opt) = NotKnown("ValueError") \/ WriteSelf(o, opt) = NotKnown("TypeError")
    BY <1>11 DEF WriteSelf
  <2>3. QED
    BY <2>1, <2>2, Refused
<1>12. QED
  BY <1>1, <1>2, <1>3, <1>4, <1>5, <1>6, <1>7, <1>8, <1>9, <1>10, <1>11 DEF Packable

(* What may be packed for the two to agree: a count that is not negative,  *)
(* or an object.  The C packer compares the type of a timestamp or a       *)
(* datetime exactly, fallback.py takes a subclass too.                     *)
Given(o, objects) ==
  IF IsHeader(o) THEN o[2] \in Num /\ ~Less(o[2], Zero)
  ELSE /\ Packable(o, objects) /\ Rounded(o)
       /\ o[1] = "sub" => /\ Packable(o[2], objects)
                          /\ o[2][1] \notin {"timestamp", "datetime"}

LEMMA HeadersAgree ==
  ASSUME NEW o, IsHeader(o), o[2] \in Num, ~Less(o[2], Zero)
  PROVE  /\ CythonHeader(o).out = FallbackHeader(o).out
         /\ (CythonHeader(o).status = "ok") <=> (FallbackHeader(o).status = "ok")
<1> DEFINE n == o[2]
<1>1. Less(ITEM_LIMIT, n) <=> ~Less(n, Pow(32))
  BY ItemLimit
<1>2. CASE Less(n, Pow(32))
  <2>1. Fits32(n)
    BY <1>2, PowerBounds, SMT DEF Fits32, In32
  <2>2. ArrayHeader(n) = Wrote(pack_array(n)) /\ MapHeader(n) = Wrote(pack_map(n))
    BY <2>1, CountsAgree
  <2>3. CythonHeader(o) =
          [status |-> "ok",
           out |-> IF o[1] = "array_header" THEN pack_array(n) ELSE pack_map(n)]
    BY <1>1, <1>2, Zenon DEF CythonHeader
  <2>4. FallbackHeader(o) = IF o[1] = "array_header" THEN ArrayHeader(n) ELSE MapHeader(n)
    BY Zenon DEF FallbackHeader
  <2> HIDE DEF n
  <2>5. QED
    BY <2>2, <2>3, <2>4 DEF Wrote
<1>3. CASE ~Less(n, Pow(32))
  <2>1. CythonHeader(o) = [status |-> "ValueError", out |-> <<>>]
    BY <1>1, <1>3, Zenon DEF CythonHeader
  <2>2. ArrayHeader(n) = Raised("ValueError") /\ MapHeader(n) = Raised("ValueError")
    BY <1>3, Zenon DEF ArrayHeader, MapHeader, CountHeader
  <2>3. FallbackHeader(o) = Raised("ValueError")
    BY <2>2, Zenon DEF FallbackHeader
  <2>4. QED
    BY <2>1, <2>3 DEF Raised
<1>4. QED
  BY <1>2, <1>3

LEMMA ObjectsAgree ==
  ASSUME NEW objects, NEW o, Given(o, objects), ~IsHeader(o), NEW opt, OptionsType(opt)
  PROVE  /\ CythonPacks(o, opt).out = FallbackPacks(o, opt).out
         /\ (CythonPacks(o, opt).status = "ok") <=> (FallbackPacks(o, opt).status = "ok")
<1> DEFINE s == Recognised(o, opt.strict_types)
           W == Writes(s, opt.use_bin_type)
<1>1. Seen(o, opt.strict_types) = s
  BY DEF Given, Recognised, Seen
<1>2. Packable(s, objects) /\ Rounded(s)
  BY DEF Given, Recognised, Rounded
<1>3. Same(s, opt)
  BY <1>2, SelfAgrees
<1>4. /\ PackInner(o, opt).status = Outcome(s, opt)
      /\ PackInner(o, opt).writes = IF Outcome(s, opt) = "ok" THEN W ELSE <<>>
  BY DEF PackInner, Outcome
<1>5. FallbackPacks(o, opt) = WriteSelf(s, opt)
  BY <1>1, Zenon DEF FallbackPacks
<1>6. /\ CythonPacks(o, opt).status = PackInner(o, opt).status
      /\ CythonPacks(o, opt).out = FlattenSeq(PackInner(o, opt).writes)
  BY DEF CythonPacks
<1>7. FlattenSeq(<<>>) = <<>>
  <2>1. Len(<<>>) = 0
    OBVIOUS
  <2>2. QED
    BY <2>1, Zenon DEF FlattenSeq
<1> HIDE DEF s, W
<1>8. CASE Outcome(s, opt) = "ok"
  <2>1. WriteSelf(s, opt) = Wrote(FlattenSeq(W))
    BY <1>3, <1>8 DEF Same, W
  <2>2. CythonPacks(o, opt).status = "ok" /\ CythonPacks(o, opt).out = FlattenSeq(W)
    BY <1>4, <1>6, <1>8
  <2>3. QED
    BY <1>5, <2>1, <2>2 DEF Wrote
<1>9. CASE Outcome(s, opt) # "ok"
  <2>1. WriteSelf(s, opt).status # "ok" /\ WriteSelf(s, opt).out = <<>>
    BY <1>3, <1>9 DEF Same
  <2>2. CythonPacks(o, opt).status # "ok" /\ CythonPacks(o, opt).out = <<>>
    BY <1>4, <1>6, <1>7, <1>9
  <2>3. QED
    BY <1>5, <2>1, <2>2
<1>10. QED
  BY <1>8, <1>9

(* The C packer and fallback.py, whatever is packed with whatever options: *)
(* the same bytes, or an exception from both.                              *)
THEOREM SameBytesAlways ==
  ASSUME NEW objects, \A o \in Samples : Given(o, objects),
         \A opt \in Options : OptionsType(opt)
  PROVE  FormatsSpec => []SameBytes
<1> DEFINE I == item \in Samples /\ given \in Options /\ SameBytes
<1>1. InitItem => I
  BY DEF InitItem, SameBytes
<1>2. I /\ [NextItem]_formatsVars => I'
  <2> SUFFICES ASSUME I, [NextItem]_formatsVars
               PROVE  I'
    OBVIOUS
  <2>1. Given(item, objects) /\ OptionsType(given)
    OBVIOUS
  <2>2. CASE HeaderPacked
    <3>1. /\ item' = item /\ given' = given /\ IsHeader(item)
          /\ cython' = CythonHeader(item) /\ fallback' = FallbackHeader(item)
      BY <2>2 DEF HeaderPacked
    <3>2. item[2] \in Num /\ ~Less(item[2], Zero)
      BY <2>1, <3>1 DEF Given
    <3>3. QED
      BY <3>1, <3>2, HeadersAgree DEF SameBytes
  <2>3. CASE ObjectPacked
    <3>1. /\ item' = item /\ given' = given /\ ~IsHeader(item)
          /\ cython' = CythonPacks(item, given) /\ fallback' = FallbackPacks(item, given)
      BY <2>3 DEF ObjectPacked
    <3>2. QED
      BY <2>1, <3>1, ObjectsAgree DEF SameBytes
  <2>4. CASE UNCHANGED formatsVars
    BY <2>4 DEF formatsVars, SameBytes
  <2>5. QED
    BY <2>2, <2>3, <2>4 DEF NextItem, Packed
<1>3. I => SameBytes
  OBVIOUS
<1>4. QED
  BY <1>1, <1>2, <1>3, PTL DEF FormatsSpec
===============================================================================
