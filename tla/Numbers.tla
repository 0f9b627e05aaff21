-------------------------------- MODULE Numbers -------------------------------
(***************************************************************************)
(* Integers of up to 65 bits as big-endian two's complement byte strings   *)
(* (see Values): the comparisons with powers of two that choose a format,  *)
(* and the truncation to the bytes that are written.                       *)
(***************************************************************************)
EXTENDS Integers, Sequences

(* Sign extended to nine bytes. *)
Wide(n) ==
  [i \in 1 .. 9 - Len(n) |-> IF n[1] >= 128 THEN 255 ELSE 0] \o n

(* 2^k and -2^k, for k up to 64. *)
Powers ==
  [k \in 0 .. 64 |-> [i \in 1 .. 9 |-> IF i = 9 - k \div 8 THEN 2 ^ (k % 8) ELSE 0]]
NegPowers ==
  [k \in 0 .. 64 |-> [i \in 1 .. 9 |-> IF i = 9 - k \div 8 THEN 256 - 2 ^ (k % 8)
                                      ELSE IF i < 9 - k \div 8 THEN 255 ELSE 0]]
Pow(k) == Powers[k]
NegPow(k) == NegPowers[k]

(* a < b: three bytes at a time, the first of the top three being signed.  *)
Third(w, i) == (w[3 * i + 1] * 256 + w[3 * i + 2]) * 256 + w[3 * i + 3]
Top(w) == (Third(w, 0) + 2^23) % 2^24
Less(a, b) ==
  LET x == Wide(a)
      y == Wide(b)
  IN \/ Top(x) < Top(y)
     \/ Top(x) = Top(y) /\ Third(x, 1) < Third(y, 1)
     \/ Top(x) = Top(y) /\ Third(x, 1) = Third(y, 1) /\ Third(x, 2) < Third(y, 2)

Zero == <<0>>
Within(n, from, below) == ~Less(n, from) /\ Less(n, below)

(* The k lowest bytes: a store of that width. *)
Low(n, k) == SubSeq(Wide(n), 10 - k, 9)

(* Small numbers of TLC in four bytes. *)
OfInt(i) ==
  LET u == IF i < 0 THEN i + 2147483647 + 1 ELSE i
      top == IF i < 0 THEN 128 ELSE 0
  IN <<top + u \div 2^24, (u \div 2^16) % 256, (u \div 2^8) % 256, u % 256>>

(* The first row <<test, lead, width>> of a table whose test holds: lead,  *)
(* then n in width bytes.                                                  *)
Chosen(n, rows) ==
  LET first == CHOOSE i \in DOMAIN rows :
                 rows[i][1] /\ \A j \in 1 .. i - 1 : ~rows[j][1]
  IN rows[first][2] \o Low(n, rows[first][3])
===============================================================================
