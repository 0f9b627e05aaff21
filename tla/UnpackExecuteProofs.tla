-------------------------- MODULE UnpackExecuteProofs -------------------------
(***************************************************************************)
(* Proofs about the parser: what one step of it preserves, whatever the    *)
(* bytes, the options and the hooks.  Those who run the parser cite them.  *)
(***************************************************************************)
EXTENDS UnpackExecute, SequenceTheorems, TLAPS

(* A sequence, whatever its elements. *)
IsSeq(s) == s \in Seq({s[i] : i \in DOMAIN s})

(* The array is readable from the position on. *)
Readable ==
  /\ len \in Nat
  /\ off \in 0 .. len
  /\ \A i \in off .. len - 1 : data[i] \in 0 .. 255

Frame(f) == [ct : {"ARRAY_ITEM", "MAP_KEY", "MAP_VALUE"}, size : Nat, count : Nat,
             obj : {f.obj}, map_key : {f.map_key}]
FrameTyped(f) ==
  /\ f \in Frame(f)
  /\ construct /\ f.ct = "ARRAY_ITEM" => IsSeq(f.obj[2])
StackTyped ==
  /\ IsSeq(stack)
  /\ top <= EmbedStackSize
  /\ \A i \in 1 .. top : FrameTyped(stack[i])

(* Where a call is inside the bytes it was given. *)
Position ==
  /\ at \in {"idle", "loop", "push"}
  /\ at = "loop" => p \in off .. len /\ (cs = CS_HEADER => p < len)
  /\ at = "push" => p \in off .. len - 1 /\ (construct => obj # Null)
  /\ at # "idle" => ret = "more"

Codes == 0 .. 34

(* A length field is as wide as its code says, so that Length is defined   *)
(* on it, and no state waits for nothing.                                  *)
PayloadCodes == {ACS_RAW_VALUE, ACS_BIN_VALUE, ACS_EXT_VALUE}
WaitsFor(c, t) ==
  /\ c \in Codes \ {CS_HEADER}
  /\ t \in Nat
  /\ t = 0 => c \in PayloadCodes
  /\ c \in {4, 7, 25} => t = 1
  /\ c \in {5, 8, 26, 28, 30} => t = 2
  /\ c \in {6, 9, 27, 29, 31} => t = 4
TrailOK == cs # CS_HEADER => WaitsFor(cs, trail) /\ trail > 0

(* What the next call, or the next step of this one, continues from. *)
Waits == at = "loop" \/ (at = "idle" /\ ret = "more") => TrailOK

(* The invariant of the parser. *)
Parsing ==
  /\ cs \in Codes
  /\ Position
  /\ StackTyped
  /\ ret # "raised" => FramesOK
  /\ Waits

(* What a step does to the position: a call that returns has moved it      *)
(* inside the array, and returns 0 only inside an object.                  *)
Settled ==
  /\ off' \in off .. len
  /\ at' = "idle" /\ ret' = "more" => cs' # CS_HEADER \/ stack' # <<>>

-------------------------------------------------------------------------------
(* The values the callbacks make are objects, or one of the two failures.  *)
LEMMA ImmediateValue ==
  ASSUME NEW b \in 0 .. 255, IsImmediate(b)
  PROVE  Immediate(b) # Null
BY DEF IsImmediate, Immediate, Null, Unsigned, Signed

LEMMA TimestampValue ==
  ASSUME NEW b
  PROVE  TimestampFromBytes(b) # Null
<1>1. ASSUME NEW sec, NEW nsec PROVE Timestamp(sec, nsec) # Null
  BY SMT DEF Timestamp, Null, Fail
<1>2. QED
  BY <1>1 DEF TimestampFromBytes, Malformed, Null

LEMMA PayloadValue ==
  ASSUME NEW acs \in {ACS_RAW_VALUE, ACS_BIN_VALUE, ACS_EXT_VALUE}, NEW b
  PROVE  Payload(acs, b) # Null
<1>1. Raw(b) # Null
  BY DEF Raw, Text, Null, Fail
<1>2. Bin(b) # Null
  BY DEF Bin, Null, Fail
<1>3. ASSUME NEW code, NEW c PROVE Extension(code, c) # Null
  BY TimestampValue DEF Extension, Null, Fail
<1>4. Ext(b) # Null
  BY <1>3 DEF Ext, Null, Fail
<1>5. QED
  BY <1>1, <1>2, <1>4 DEF Payload, ACS_RAW_VALUE, ACS_BIN_VALUE, ACS_EXT_VALUE

LEMMA NumberValue ==
  ASSUME cs \in CS_FLOAT \cup CS_UINT \cup CS_INT, NEW b
  PROVE  Number(b) # Null
BY DEF Number, Unsigned, Signed, Null, CS_FLOAT, CS_UINT, CS_INT

LEMMA NextByte ==
  ASSUME NEW high \in Nat, NEW low \in Nat
  PROVE  high * 256 + low \in Nat
OBVIOUS

(* Length is defined on the fields it is used on. *)
LEMMA LengthTyped ==
  ASSUME NEW k \in {1, 2, 4}, NEW b \in [1 .. k -> 0 .. 255]
  PROVE  Length(b) \in Nat
<1>1. Len(b) = k
  OBVIOUS
<1>2. CASE k = 1
  <2>1. Length(b) = b[1]
    BY <1>1, <1>2, SMT DEF Length
  <2>2. QED
    BY <1>2, <2>1
<1>3. CASE k = 2
  <2>1. Length(b) = b[1] * 256 + b[2]
    BY <1>1, <1>3, SMT DEF Length
  <2>2. b[1] \in Nat /\ b[2] \in Nat
    BY <1>3
  <2>3. QED
    BY <2>1, <2>2
<1>4. CASE k = 4
  <2>1. Length(b) = IF b[1] >= 128 THEN Huge
                    ELSE ((b[1] * 256 + b[2]) * 256 + b[3]) * 256 + b[4]
    BY <1>1, <1>4, SMT DEF Length
  <2>2. b[1] \in Nat /\ b[2] \in Nat /\ b[3] \in Nat /\ b[4] \in Nat
    BY <1>4
  <2>3. Huge \in Nat
    BY SMT DEF Huge
  <2>4. ((b[1] * 256 + b[2]) * 256 + b[3]) * 256 + b[4] \in Nat
    <3> DEFINE two == b[1] * 256 + b[2]
               three == two * 256 + b[3]
    <3>1. two \in Nat
      BY <2>2, NextByte, Zenon
    <3> HIDE DEF two
    <3>2. three \in Nat
      BY <2>2, <3>1, NextByte, Zenon
    <3> HIDE DEF three
    <3>3. three * 256 + b[4] \in Nat
      BY <2>2, <3>2, NextByte, Zenon
    <3>4. QED
      BY <3>3, Zenon DEF two, three
  <2>5. QED
    BY <2>1, <2>3, <2>4
<1>5. QED
  BY <1>2, <1>3, <1>4

LEMMA ExtTrailTyped ==
  ASSUME NEW k \in {1, 2, 4}, NEW b \in [1 .. k -> 0 .. 255]
  PROVE  ExtTrail(b) \in Nat
<1>1. Huge \in Nat
  BY SMT DEF Huge
<1>2. Length(b) \in Nat
  BY LengthTyped
<1>3. 0 \in Nat /\ Length(b) + 1 \in Nat
  BY <1>2
<1>4. QED
  BY <1>1, <1>3, Zenon DEF ExtTrail

LEMMA PowersOfTwo ==
  ASSUME NEW e
  PROVE  /\ e = 0 => 2 ^ e = 1
         /\ e = 1 => 2 ^ e = 2
         /\ e = 2 => 2 ^ e = 4
         /\ e = 3 => 2 ^ e = 8
<1>1. 2 ^ 0 = 1 /\ 2 ^ 1 = 2 /\ 2 ^ 2 = 4 /\ 2 ^ 3 = 8
  OBVIOUS
<1>2. QED
  BY <1>1, Zenon

(* What a header byte announces: a code with a field of its width, or a    *)
(* payload of some length.                                                 *)
LEMMA HeaderWaits ==
  ASSUME NEW b \in 0 .. 255, IsLong(b)
  PROVE  WaitsFor(Next_(b)[1], Next_(b)[2])
<1> USE DEF WaitsFor, PayloadCodes, Codes, CS_HEADER, ACS_RAW_VALUE,
            ACS_BIN_VALUE, ACS_EXT_VALUE
<1>1. CASE b \in 160 .. 191
  <2>1. Next_(b) = <<32, b % 32>>
    BY <1>1, SMT DEF Next_
  <2>2. QED
    BY <1>1, <2>1
<1>2. CASE b \in 196 .. 198
  <2>1. Next_(b) = <<NEXT_CS(b), 2 ^ (b - 196)>>
    BY <1>2, SMT DEF Next_
  <2>2. \/ b % 32 = 4 /\ b - 196 = 0
        \/ b % 32 = 5 /\ b - 196 = 1
        \/ b % 32 = 6 /\ b - 196 = 2
    BY <1>2
  <2>3. \/ b % 32 = 4 /\ 2 ^ (b - 196) = 1
        \/ b % 32 = 5 /\ 2 ^ (b - 196) = 2
        \/ b % 32 = 6 /\ 2 ^ (b - 196) = 4
    BY <2>2, PowersOfTwo, Zenon
  <2>4. QED
    BY <2>1, <2>3 DEF NEXT_CS
<1>3. CASE b \in 199 .. 201
  <2>1. Next_(b) = <<NEXT_CS(b), 2 ^ (b - 199)>>
    BY <1>3, SMT DEF Next_
  <2>2. \/ b % 32 = 7 /\ b - 199 = 0
        \/ b % 32 = 8 /\ b - 199 = 1
        \/ b % 32 = 9 /\ b - 199 = 2
    BY <1>3
  <2>3. \/ b % 32 = 7 /\ 2 ^ (b - 199) = 1
        \/ b % 32 = 8 /\ 2 ^ (b - 199) = 2
        \/ b % 32 = 9 /\ 2 ^ (b - 199) = 4
    BY <2>2, PowersOfTwo, Zenon
  <2>4. QED
    BY <2>1, <2>3 DEF NEXT_CS
<1>4. CASE b \in 202 .. 211
  <2>1. Next_(b) = <<NEXT_CS(b), 2 ^ (b % 4)>>
    BY <1>4, SMT DEF Next_
  <2>2. b % 32 \in 10 .. 19 /\ b % 4 \in {0, 1, 2, 3}
    BY <1>4
  <2>3. 2 ^ (b % 4) \in {1, 2, 4, 8}
    BY <2>2, PowersOfTwo
  <2>4. QED
    BY <2>1, <2>2, <2>3 DEF NEXT_CS
<1>5. CASE b \in 212 .. 215
  <2>1. Next_(b) = <<34, 2 ^ (b % 4) + 1>>
    BY <1>5, SMT DEF Next_
  <2>2. 2 ^ (b % 4) \in {1, 2, 4, 8}
    <3>1. b % 4 \in {0, 1, 2, 3}
      BY <1>5
    <3>2. QED
      BY <3>1, PowersOfTwo
  <2>3. QED
    BY <2>1, <2>2
<1>6. CASE b = 216
  BY <1>6, SMT DEF Next_
<1>7. CASE b = 217
  <2>1. Next_(b) = <<NEXT_CS(b), 1>>
    BY <1>7, SMT DEF Next_
  <2>2. b % 32 = 25
    BY <1>7
  <2>3. QED
    BY <2>1, <2>2 DEF NEXT_CS
<1>8. CASE b \in 218 .. 223
  <2>1. Next_(b) = <<NEXT_CS(b), 2 * 2 ^ (b % 2)>>
    BY <1>8, SMT DEF Next_
  <2>2. \/ b % 32 \in {26, 28, 30} /\ b % 2 = 0
        \/ b % 32 \in {27, 29, 31} /\ b % 2 = 1
    BY <1>8
  <2>3. \/ b % 32 \in {26, 28, 30} /\ 2 ^ (b % 2) = 1
        \/ b % 32 \in {27, 29, 31} /\ 2 ^ (b % 2) = 2
    BY <2>2, PowersOfTwo, Zenon
  <2>4. QED
    BY <2>1, <2>3 DEF NEXT_CS
<1>9. QED
  BY <1>1, <1>2, <1>3, <1>4, <1>5, <1>6, <1>7, <1>8 DEF IsLong

-------------------------------------------------------------------------------
(* The stack: frames added, replaced and removed at its top.               *)
LEMMA SeqIsSeq ==
  ASSUME NEW S, NEW s \in Seq(S)
  PROVE  IsSeq(s)
BY DEF IsSeq

LEMMA FrameAdded ==
  ASSUME EmbedStackSize \in Nat, StackTyped, ~StackFull,
         NEW f, FrameTyped(f), stack' = Append(stack, f), UNCHANGED construct
  PROVE  /\ StackTyped'
         /\ FramesOK /\ FrameOK(f) => FramesOK'
         /\ stack' # <<>>
<1> DEFINE S == {stack[i] : i \in DOMAIN stack} \cup {f}
<1>1. stack \in Seq(S)
  BY DEF StackTyped, IsSeq
<1> HIDE DEF S
<1>2. /\ stack' \in Seq(S \cup {f})
      /\ Len(stack') = Len(stack) + 1
      /\ Len(stack) \in Nat
      /\ \A i \in 1 .. Len(stack) : stack'[i] = stack[i]
      /\ stack'[Len(stack) + 1] = f
  BY <1>1
<1>3. IsSeq(stack')
  BY <1>2, SeqIsSeq
<1>4. Len(stack') <= EmbedStackSize
  BY <1>2 DEF StackFull, top
<1>5. \A i \in 1 .. Len(stack') : i \in 1 .. Len(stack) \/ i = Len(stack) + 1
  BY <1>2
<1>6. \A i \in 1 .. Len(stack') : FrameTyped(stack[i])'
  BY <1>2, <1>5, Zenon DEF StackTyped, FrameTyped, Frame, top
<1>7. StackTyped'
  BY <1>3, <1>4, <1>6 DEF StackTyped, top
<1>8. ASSUME FramesOK, FrameOK(f) PROVE FramesOK'
  <2>1. DOMAIN stack = 1 .. Len(stack) /\ DOMAIN stack' = 1 .. Len(stack')
    BY <1>1, <1>2
  <2>2. \A i \in 1 .. Len(stack') : FrameOK(stack[i])'
    BY <1>2, <1>5, <1>8, <2>1, Zenon DEF FramesOK, FrameOK
  <2>3. QED
    BY <2>1, <2>2 DEF FramesOK
<1>9. stack' # <<>>
  BY <1>2
<1>10. QED
  BY <1>7, <1>8, <1>9

LEMMA TopReplaced ==
  ASSUME EmbedStackSize \in Nat, StackTyped, top > 0,
         NEW f, FrameTyped(f), stack' = WithTop(f), UNCHANGED construct
  PROVE  /\ StackTyped'
         /\ FramesOK /\ FrameOK(f) => FramesOK'
         /\ stack' # <<>>
<1> DEFINE S == {stack[i] : i \in DOMAIN stack} \cup {f}
<1>1. stack \in Seq(S) /\ Len(stack) > 0
  BY DEF StackTyped, IsSeq, top
<1> HIDE DEF S
<1>2. /\ stack' \in Seq(S \cup {f})
      /\ Len(stack') = Len(stack)
      /\ Len(stack) \in Nat
      /\ \A i \in 1 .. Len(stack) : i # Len(stack) => stack'[i] = stack[i]
      /\ stack'[Len(stack)] = f
  BY <1>1 DEF WithTop, top
<1>3. IsSeq(stack')
  BY <1>2, SeqIsSeq
<1>4. Len(stack') <= EmbedStackSize
  BY <1>2 DEF StackTyped, top
<1>5. \A i \in 1 .. Len(stack') : FrameTyped(stack[i])'
  BY <1>2, Zenon DEF StackTyped, FrameTyped, Frame, top
<1>6. StackTyped'
  BY <1>3, <1>4, <1>5 DEF StackTyped, top
<1>7. ASSUME FramesOK, FrameOK(f) PROVE FramesOK'
  <2>1. DOMAIN stack = 1 .. Len(stack) /\ DOMAIN stack' = 1 .. Len(stack')
    BY <1>1, <1>2
  <2>2. \A i \in 1 .. Len(stack') : FrameOK(stack[i])'
    BY <1>2, <1>7, <2>1, Zenon DEF FramesOK, FrameOK
  <2>3. QED
    BY <2>1, <2>2 DEF FramesOK
<1>8. stack' # <<>>
  BY <1>1, <1>2
<1>9. QED
  BY <1>6, <1>7, <1>8

LEMMA FrontProperties ==
  ASSUME NEW S, NEW s \in Seq(S), NEW m \in Nat, m = Len(s) - 1
  PROVE  /\ SubSeq(s, 1, m) \in Seq(S)
         /\ Len(SubSeq(s, 1, m)) = m
         /\ \A i \in 1 .. m : SubSeq(s, 1, m)[i] = s[i]
<1>1. SubSeq(s, 1, m) \in Seq(S)
  BY SubSeqProperties
<1>2. Len(SubSeq(s, 1, m)) = m
  BY SubSeqProperties
<1>3. \A i \in 1 .. m : SubSeq(s, 1, m)[i] = s[i]
  BY SubSeqProperties
<1>4. QED
  BY <1>1, <1>2, <1>3

LEMMA TopRemoved ==
  ASSUME EmbedStackSize \in Nat, StackTyped, top > 0,
         stack' = SubSeq(stack, 1, top - 1), UNCHANGED construct
  PROVE  /\ StackTyped'
         /\ FramesOK => FramesOK'
<1> DEFINE S == {stack[i] : i \in DOMAIN stack}
<1>1. stack \in Seq(S) /\ Len(stack) > 0
  BY DEF StackTyped, IsSeq, top
<1> HIDE DEF S
<1>2. /\ stack' \in Seq(S)
      /\ Len(stack') = Len(stack) - 1
      /\ Len(stack) \in Nat
      /\ \A i \in 1 .. Len(stack') : i \in 1 .. Len(stack) /\ stack'[i] = stack[i]
  <2> DEFINE m == Len(stack) - 1
  <2>1. m \in Nat /\ m = Len(stack) - 1 /\ stack' = SubSeq(stack, 1, m)
    BY <1>1 DEF top
  <2> HIDE DEF m
  <2>2. /\ SubSeq(stack, 1, m) \in Seq(S)
        /\ Len(SubSeq(stack, 1, m)) = m
        /\ \A i \in 1 .. m : SubSeq(stack, 1, m)[i] = stack[i]
    BY <1>1, <2>1, FrontProperties, Zenon
  <2>3. Len(stack) \in Nat
    BY <1>1
  <2>4. \A i \in 1 .. m : i \in 1 .. Len(stack)
    BY <2>1, <2>3
  <2>5. QED
    BY <2>1, <2>2, <2>3, <2>4, Zenon
<1>3. IsSeq(stack')
  BY <1>2, SeqIsSeq
<1>4. Len(stack') <= EmbedStackSize
  BY <1>2 DEF StackTyped, top
<1>5. \A i \in 1 .. Len(stack') : FrameTyped(stack[i])'
  BY <1>2, Zenon DEF StackTyped, FrameTyped, Frame, top
<1>6. StackTyped'
  BY <1>3, <1>4, <1>5 DEF StackTyped, top
<1>7. ASSUME FramesOK PROVE FramesOK'
  <2>1. DOMAIN stack = 1 .. Len(stack) /\ DOMAIN stack' = 1 .. Len(stack')
    BY <1>1, <1>2
  <2>2. \A i \in 1 .. Len(stack') : FrameOK(stack[i])'
    BY <1>2, <1>7, <2>1, Zenon DEF FramesOK, FrameOK
  <2>3. QED
    BY <2>1, <2>2 DEF FramesOK
<1>8. QED
  BY <1>6, <1>7

LEMMA StackKept ==
  ASSUME StackTyped, UNCHANGED <<stack, construct>>
  PROVE  StackTyped' /\ (FramesOK => FramesOK')
BY DEF StackTyped, FrameTyped, Frame, FramesOK, FrameOK, top

-------------------------------------------------------------------------------
(* The ways a step ends: it returns, reads the next header or has an       *)
(* object to push.                                                         *)
LEMMA ReturnSettles ==
  ASSUME Readable, NEW pos \in off .. len, NEW r, r # "more", Return(r, pos),
         UNCHANGED <<len, construct>>
  PROVE  Position' /\ Settled /\ Waits' /\ ret' = r
BY DEF Return, Position, Settled, Waits

LEMMA HeaderAgainSettles ==
  ASSUME Readable, ret = "more", NEW pos \in off .. len - 1, HeaderAgain(pos),
         stack' # <<>>, UNCHANGED <<len, construct>>
  PROVE  /\ Position' /\ Settled /\ Waits'
         /\ cs' \in Codes /\ ret' = "more"
<1>1. len \in Nat /\ off \in Nat /\ pos \in Nat
  BY DEF Readable
<1>2. CASE pos + 1 = len
  BY <1>1, <1>2
  DEF HeaderAgain, Return, Position, Settled, Waits, TrailOK, Codes, CS_HEADER
<1>3. CASE pos + 1 # len
  BY <1>1, <1>3
  DEF HeaderAgain, Position, Settled, Waits, TrailOK, Codes, CS_HEADER
<1>4. QED
  BY <1>2, <1>3

LEMMA PushSettles ==
  ASSUME Readable, ret = "more", NEW pos \in off .. len - 1, NEW v, Push(v, pos),
         construct => v # Null, UNCHANGED <<len, construct>>
  PROVE  /\ Position' /\ Settled /\ Waits'
         /\ (ret' = "raised") <=> (v = Fail)
<1>1. len \in Nat /\ off \in Nat /\ pos \in Nat /\ Fail # Malformed
  BY DEF Readable, Fail, Malformed
<1>2. CASE v = Fail
  BY <1>1, <1>2, ReturnSettles DEF Push
<1>3. CASE v = Malformed
  BY <1>1, <1>3, ReturnSettles DEF Push
<1>4. CASE v # Fail /\ v # Malformed
  BY <1>1, <1>4 DEF Push, Position, Settled, Waits
<1>5. QED
  BY <1>2, <1>3, <1>4

-------------------------------------------------------------------------------
(* One step of the parser, on an array that does not change.               *)
Stepping ==
  /\ EmbedStackSize \in Nat
  /\ Readable
  /\ Parsing
  /\ UNCHANGED <<data, len, construct>>

LEMMA BuiltValue ==
  ASSUME NEW v, v # Null, construct
  PROVE  Built(v) # Null
BY DEF Built

LEMMA HookedValue ==
  ASSUME NEW hook, NEW v, v # Null, NEW w \in Hooked(hook, v), construct
  PROVE  w # Null
BY DEF Hooked, Built, Null, Fail

(* In the loop there is a byte to read at a header, and a code that waits  *)
(* for its bytes anywhere else.                                            *)
LEMMA InLoop ==
  ASSUME Stepping, at = "loop"
  PROVE  /\ off \in Nat /\ len \in Nat /\ p \in off .. len
         /\ ret = "more" /\ FramesOK /\ StackTyped /\ cs \in Codes
         /\ cs = CS_HEADER => p \in off .. len - 1 /\ here \in 0 .. 255
         /\ cs # CS_HEADER => WaitsFor(cs, trail) /\ trail \in Nat \ {0}
<1>1. /\ off \in Nat /\ len \in Nat /\ p \in off .. len
      /\ cs = CS_HEADER => p < len
  BY DEF Stepping, Readable, Parsing, Position
<1>2. ret = "more" /\ FramesOK /\ StackTyped /\ cs \in Codes
  BY DEF Stepping, Parsing, Position
<1>3. cs = CS_HEADER => p \in off .. len - 1 /\ here \in 0 .. 255
  BY <1>1 DEF Stepping, Readable, here
<1>4. ASSUME cs # CS_HEADER PROVE WaitsFor(cs, trail) /\ trail > 0
  BY <1>4, Zenon DEF Stepping, Parsing, Waits, TrailOK
<1>5. cs # CS_HEADER => trail \in Nat \ {0}
  BY <1>4 DEF WaitsFor
<1>6. QED
  BY <1>1, <1>2, <1>3, <1>4, <1>5

(* What a step has to show when it leaves the stack alone. *)
LEMMA SameStack ==
  ASSUME Stepping, FramesOK, UNCHANGED stack, cs' \in Codes,
         Position', Settled, Waits'
  PROVE  Settled /\ Parsing'
BY StackKept DEF Stepping, Parsing

LEMMA AgainSettles ==
  ASSUME Stepping, at = "loop", NEW acs, NEW count, NEW pos \in off .. len - 1,
         WaitsFor(acs, count), Again(acs, count, pos), UNCHANGED stack
  PROVE  Settled /\ Parsing'
<1>1. off \in Nat /\ len \in Nat /\ ret = "more" /\ FramesOK /\ cs \in Codes
  BY InLoop
<1>2. CASE count = 0
  <2>1. Push(Built(Payload(acs, <<>>)), pos) /\ cs' = cs
    BY <1>2 DEF Again
  <2>2. construct => Built(Payload(acs, <<>>)) # Null
    BY <1>2, PayloadValue, BuiltValue DEF WaitsFor, PayloadCodes
  <2>3. Position' /\ Settled /\ Waits'
    BY <1>1, <2>1, <2>2, PushSettles DEF Stepping
  <2>4. QED
    BY <1>1, <2>1, <2>3, SameStack
<1>3. CASE count # 0
  <2>1. /\ cs' = acs /\ trail' = count /\ p' = pos + 1
        /\ at' = "loop" /\ off' = off /\ ret' = "more" /\ obj' = obj
        /\ len' = len
    BY <1>1, <1>3 DEF Again, Stepping
  <2>2. count \in Nat /\ count > 0 /\ acs # CS_HEADER /\ acs \in Codes
    BY <1>3 DEF WaitsFor
  <2>3. Position'
    BY <1>1, <2>1, <2>2 DEF Position
  <2>4. Waits'
    BY <2>1, <2>2 DEF Waits, TrailOK, WaitsFor
  <2>5. Settled
    BY <1>1, <2>1 DEF Settled, Stepping, Readable
  <2>6. QED
    BY <1>1, <2>1, <2>2, <2>3, <2>4, <2>5, SameStack
<1>4. QED
  BY <1>2, <1>3

(* An object made at once: one of the values above, or a failure.          *)
LEMMA ObjectSettles ==
  ASSUME Stepping, at = "loop", NEW v, v # Null, NEW pos \in off .. len - 1,
         Push(Built(v), pos), UNCHANGED <<cs, stack>>
  PROVE  Settled /\ Parsing'
<1>1. ret = "more" /\ FramesOK /\ cs \in Codes
  BY InLoop
<1>2. construct => Built(v) # Null
  BY BuiltValue
<1>3. Position' /\ Settled /\ Waits'
  BY <1>1, <1>2, PushSettles DEF Stepping
<1>4. QED
  BY <1>1, <1>3, SameStack

(* A step that returns an error. *)
LEMMA RefusalSettles ==
  ASSUME Stepping, at # "idle", NEW r, r # "more", NEW pos \in off .. len,
         Return(r, pos), UNCHANGED <<cs, stack>>
  PROVE  Settled /\ Parsing'
<1>1. ret = "more" /\ FramesOK /\ cs \in Codes
  BY DEF Stepping, Parsing, Position
<1>2. Position' /\ Settled /\ Waits'
  BY ReturnSettles DEF Stepping
<1>3. QED
  BY <1>1, <1>2, SameStack

(* An empty container is an object; another opens a frame with nothing in  *)
(* it.                                                                     *)
LEMMA ContainerSettles ==
  ASSUME Stepping, at = "loop", NEW ct \in {"ARRAY_ITEM", "MAP_KEY"},
         NEW count \in Nat, NEW pos \in off .. len - 1,
         StartContainer(ct, count, pos)
  PROVE  Settled /\ Parsing'
<1>1. /\ off \in Nat /\ len \in Nat /\ ret = "more" /\ FramesOK /\ StackTyped
      /\ cs \in Codes
  BY InLoop
<1>2. Empty(ct) # Null /\ (ct = "ARRAY_ITEM" => Empty(ct) = <<"list", <<>>>>)
  BY DEF Empty, Null
<1>3. ASSUME NEW r, r # "more", Return(r, pos), UNCHANGED <<cs, stack>>
      PROVE  Settled /\ Parsing'
  BY <1>1, <1>3, RefusalSettles
<1>4. ASSUME NEW v \in Hooked(EndHook(ct), Empty(ct)), Push(v, pos),
             UNCHANGED <<cs, stack>>
      PROVE  Settled /\ Parsing'
  <2>1. construct => v # Null
    BY <1>2, HookedValue
  <2>2. Position' /\ Settled /\ Waits'
    BY <1>1, <1>4, <2>1, PushSettles DEF Stepping
  <2>3. QED
    BY <1>1, <1>4, <2>2, SameStack
<1>5. ASSUME count > 0, ~StackFull, HeaderAgain(pos),
             stack' = Append(stack, [ct |-> ct, size |-> count, count |-> 0,
                                     obj |-> Built(Empty(ct)), map_key |-> Null])
      PROVE  Settled /\ Parsing'
  <2> DEFINE f == [ct |-> ct, size |-> count, count |-> 0,
                   obj |-> Built(Empty(ct)), map_key |-> Null]
  <2>1. /\ f \in Frame(f)
        /\ f.ct = ct /\ f.size = count /\ f.count = 0 /\ f.obj = Built(Empty(ct))
    BY DEF Frame
  <2> HIDE DEF f
  <2>2. construct => f.obj # Null
    BY <1>2, <2>1, BuiltValue
  <2>3. construct /\ ct = "ARRAY_ITEM" =>
          f.obj[1] = "list" /\ f.obj[2] = <<>>
    BY <1>2, <2>1 DEF Built
  <2>4. IsSeq(<<>>) /\ Len(<<>>) = 0
    BY DEF IsSeq
  <2>5. FrameTyped(f)
    BY <2>1, <2>3, <2>4, Zenon DEF FrameTyped
  <2>6. f.count < f.size
    BY <1>5, <2>1
  <2>7. FrameOK(f)
    BY <2>1, <2>2, <2>3, <2>4, <2>6, Zenon DEF FrameOK
  <2>8. StackTyped' /\ FramesOK' /\ stack' # <<>>
    BY <1>1, <1>5, <2>5, <2>7, FrameAdded DEF Stepping, f
  <2>9. Position' /\ Settled /\ Waits' /\ cs' \in Codes
    BY <1>1, <1>5, <2>8, HeaderAgainSettles DEF Stepping
  <2>10. QED
    BY <2>8, <2>9 DEF Parsing
<1>6. QED
  BY <1>3, <1>4, <1>5 DEF StartContainer

LEMMA HeaderStep ==
  ASSUME Stepping,
         HeaderImmediate \/ HeaderLong \/ HeaderContainer \/ HeaderNeverUsed
  PROVE  Settled /\ Parsing'
<1>1. AtHeader
  BY DEF HeaderImmediate, HeaderLong, HeaderContainer, HeaderNeverUsed
<1>2. /\ at = "loop" /\ p \in off .. len - 1 /\ here \in 0 .. 255
      /\ off \in Nat /\ len \in Nat
  BY <1>1, InLoop DEF AtHeader
<1>3. CASE HeaderImmediate
  <2>1. Immediate(here) # Null
    BY <1>2, <1>3, ImmediateValue DEF HeaderImmediate
  <2>2. QED
    BY <1>2, <1>3, <2>1, ObjectSettles DEF HeaderImmediate
<1>4. CASE HeaderLong
  <2>1. WaitsFor(Next_(here)[1], Next_(here)[2])
    BY <1>2, <1>4, HeaderWaits DEF HeaderLong
  <2>2. QED
    BY <1>2, <1>4, <2>1, AgainSettles DEF HeaderLong
<1>5. CASE HeaderContainer
  <2>1. here % 16 \in Nat
    BY <1>2
  <2>2. (IF here >= 144 THEN "ARRAY_ITEM" ELSE "MAP_KEY") \in {"ARRAY_ITEM", "MAP_KEY"}
    OBVIOUS
  <2>3. QED
    BY <1>2, <1>5, <2>1, <2>2, ContainerSettles DEF HeaderContainer
<1>6. CASE HeaderNeverUsed
  <2>1. p \in off .. len
    BY <1>2
  <2>2. QED
    BY <1>2, <1>6, <2>1, RefusalSettles DEF HeaderNeverUsed
<1>7. QED
  BY <1>3, <1>4, <1>5, <1>6

(* The bytes a state has waited for, when they are there. *)
LEMMA TrailBytes ==
  ASSUME Stepping, AtTrail, Complete
  PROVE  /\ q \in off .. len - 1
         /\ n \in [1 .. trail -> 0 .. 255]
<1>1. /\ off \in Nat /\ len \in Nat /\ p \in off .. len
      /\ trail \in Nat \ {0} /\ p + trail <= len
  BY InLoop DEF AtTrail, Complete
<1>2. q \in off .. len - 1
  BY <1>1 DEF q
<1>3. ASSUME NEW i \in 1 .. trail PROVE data[p + i - 1] \in 0 .. 255
  <2>1. p + i - 1 \in off .. len - 1
    BY <1>1
  <2>2. QED
    BY <2>1 DEF Stepping, Readable
<1>4. QED
  BY <1>2, <1>3 DEF n

LEMMA TrailStep ==
  ASSUME Stepping,
         \/ TrailShort \/ TrailLength \/ TrailNumber \/ TrailPayload
         \/ TrailContainer
  PROVE  Settled /\ Parsing'
<1>1. AtTrail
  BY DEF TrailShort, TrailLength, TrailNumber, TrailPayload, TrailContainer
<1>2. /\ at = "loop" /\ cs # CS_HEADER /\ ret = "more" /\ FramesOK /\ cs \in Codes
      /\ off \in Nat /\ len \in Nat /\ p \in off .. len
      /\ WaitsFor(cs, trail) /\ trail \in Nat \ {0}
  BY <1>1, InLoop DEF AtTrail
<1>3. CASE TrailShort
  <2>1. /\ at' = "idle" /\ ret' = "more" /\ off' = p /\ len' = len
        /\ UNCHANGED <<cs, trail, stack>>
    BY <1>3 DEF TrailShort, Return, Stepping
  <2>2. Position' /\ Settled
    BY <1>2, <2>1 DEF Position, Settled
  <2>3. Waits'
    BY <1>2, <2>1 DEF Waits, TrailOK, WaitsFor
  <2>4. QED
    BY <1>2, <2>1, <2>2, <2>3, SameStack
<1>4. CASE TrailLength
  <2>1. q \in off .. len - 1 /\ n \in [1 .. trail -> 0 .. 255]
    BY <1>1, <1>4, TrailBytes DEF TrailLength
  <2>2. cs \in CS_EXT \cup CS_BIN \cup CS_RAW => trail \in {1, 2, 4}
    BY <1>2 DEF CS_EXT, CS_BIN, CS_RAW, WaitsFor
  <2>3. ASSUME NEW acs \in PayloadCodes, NEW count \in Nat
        PROVE  WaitsFor(acs, count)
    BY DEF WaitsFor, PayloadCodes, ACS_RAW_VALUE, ACS_BIN_VALUE, ACS_EXT_VALUE,
           Codes, CS_HEADER
  <2>4. ASSUME NEW acs \in PayloadCodes, NEW count \in Nat, Again(acs, count, q)
        PROVE  Settled /\ Parsing'
    BY <1>2, <1>4, <2>1, <2>3, <2>4, AgainSettles DEF TrailLength
  <2>5. ASSUME cs \in CS_EXT \cup CS_BIN \cup CS_RAW
        PROVE  Length(n) \in Nat /\ ExtTrail(n) \in Nat
    <3>1. trail \in {1, 2, 4}
      BY <2>2, <2>5
    <3>2. n \in [1 .. trail -> 0 .. 255]
      BY <2>1
    <3>3. Length(n) \in Nat
      BY <3>1, <3>2, LengthTyped
    <3>4. ExtTrail(n) \in Nat
      BY <3>1, <3>2, ExtTrailTyped
    <3>5. QED
      BY <3>3, <3>4
  <2>6. QED
    BY <1>4, <2>4, <2>5, Zenon DEF TrailLength, PayloadCodes
<1>5. CASE TrailNumber
  <2>1. q \in off .. len - 1
    BY <1>1, <1>5, TrailBytes DEF TrailNumber
  <2>2. Number(n) # Null
    BY <1>5, NumberValue DEF TrailNumber
  <2>3. QED
    BY <1>2, <1>5, <2>1, <2>2, ObjectSettles DEF TrailNumber
<1>6. CASE TrailPayload
  <2>1. q \in off .. len - 1
    BY <1>1, <1>6, TrailBytes DEF TrailPayload
  <2>2. Payload(cs, n) # Null
    BY <1>6, PayloadValue DEF TrailPayload
  <2>3. QED
    BY <1>2, <1>6, <2>1, <2>2, ObjectSettles DEF TrailPayload
<1>7. CASE TrailContainer
  <2>1. q \in off .. len - 1 /\ n \in [1 .. trail -> 0 .. 255]
    BY <1>1, <1>7, TrailBytes DEF TrailContainer
  <2>2. cs \in CS_ARRAY \cup CS_MAP => trail \in {1, 2, 4}
    BY <1>2 DEF CS_ARRAY, CS_MAP, WaitsFor
  <2>3. Length(n) \in Nat
    BY <1>7, <2>1, <2>2, LengthTyped DEF TrailContainer
  <2>4. QED
    BY <1>2, <1>7, <2>1, <2>3, ContainerSettles DEF TrailContainer
<1>8. QED
  BY <1>3, <1>4, <1>5, <1>6, <1>7

-------------------------------------------------------------------------------
(* Delivering an object to the innermost container.                        *)
LEMMA AtInnermost ==
  ASSUME Stepping, AtPush
  PROVE  /\ off \in Nat /\ len \in Nat /\ p \in off .. len - 1
         /\ construct => obj # Null
         /\ ret = "more" /\ FramesOK /\ StackTyped /\ cs \in Codes /\ top \in Nat
         /\ top > 0 => frame \in Frame(frame) /\ FrameTyped(frame) /\ FrameOK(frame)
<1>1. off \in Nat /\ len \in Nat /\ p \in off .. len - 1
  BY DEF AtPush, Stepping, Readable, Parsing, Position
<1>2. /\ construct => obj # Null
      /\ ret = "more" /\ FramesOK /\ StackTyped /\ cs \in Codes
  BY Zenon DEF AtPush, Stepping, Parsing, Position
<1>3. top \in Nat /\ DOMAIN stack = 1 .. top
  BY <1>2 DEF StackTyped, IsSeq, top
<1>4. ASSUME top > 0 PROVE FrameTyped(frame) /\ FrameOK(frame)
  <2>1. top \in 1 .. top
    BY <1>3, <1>4
  <2>2. QED
    BY <1>2, <1>3, <2>1, Zenon DEF StackTyped, FramesOK, frame
<1>5. QED
  BY <1>1, <1>2, <1>3, <1>4 DEF FrameTyped

(* The fields of a frame with one item more. *)
LEMMA FilledFields ==
  ASSUME frame \in Frame(frame)
  PROVE  /\ Filled \in Frame(Filled)
         /\ Filled.ct = frame.ct /\ Filled.size = frame.size
         /\ Filled.count = frame.count + 1 /\ Filled.obj = Built(Extended)
         /\ Filled.map_key = frame.map_key
<1> DEFINE g == [frame EXCEPT !.obj = Built(Extended), !.count = @ + 1]
<1>1. frame.count + 1 \in Nat
  BY DEF Frame
<1>2. /\ g.ct = frame.ct /\ g.size = frame.size
      /\ g.count = frame.count + 1 /\ g.obj = Built(Extended)
      /\ g.map_key = frame.map_key
  BY DEF Frame
<1>3. g \in [ct : {"ARRAY_ITEM", "MAP_KEY", "MAP_VALUE"}, size : Nat, count : Nat,
             obj : {Built(Extended)}, map_key : {frame.map_key}]
  BY <1>1 DEF Frame
<1>4. QED
  BY <1>2, <1>3, Zenon DEF Frame, Filled

(* The container holds the items counted, and the new one. *)
LEMMA ExtendedValue ==
  ASSUME frame \in Frame(frame), FrameTyped(frame), FrameOK(frame), construct,
         frame.ct # "MAP_KEY"
  PROVE  /\ Extended # Null
         /\ frame.ct = "ARRAY_ITEM" =>
              /\ Extended[1] = "list"
              /\ IsSeq(Extended[2])
              /\ Len(Extended[2]) = frame.count + 1
<1>1. CASE frame.ct = "ARRAY_ITEM"
  <2> DEFINE s == frame.obj[2]
  <2>1. IsSeq(s) /\ Len(s) = frame.count
    BY <1>1 DEF FrameTyped, FrameOK
  <2>2. Extended = <<"list", Append(s, obj)>>
    BY <1>1 DEF Extended, ArrayItem
  <2> HIDE DEF s
  <2>3. /\ Append(s, obj) \in Seq({s[i] : i \in DOMAIN s} \cup {obj})
        /\ Len(Append(s, obj)) = frame.count + 1
    BY <2>1 DEF IsSeq
  <2>4. IsSeq(Append(s, obj))
    BY <2>3, SeqIsSeq
  <2>5. QED
    BY <2>2, <2>3, <2>4 DEF Null
<1>2. CASE frame.ct # "ARRAY_ITEM"
  <2>1. Extended = MapItem(frame.obj, frame.map_key, obj)
    BY <1>2 DEF Extended
  <2>2. MapItem(frame.obj, frame.map_key, obj) # Null
    BY DEF MapItem, WithItem, Null, Fail
  <2>3. QED
    BY <1>2, <2>1, <2>2
<1>3. QED
  BY <1>1, <1>2

LEMMA FilledTyped ==
  ASSUME frame \in Frame(frame), FrameTyped(frame), FrameOK(frame),
         frame.ct # "MAP_KEY"
  PROVE  FrameTyped(Filled)
<1>1. ASSUME construct, frame.ct = "ARRAY_ITEM" PROVE IsSeq(Filled.obj[2])
  BY <1>1, FilledFields, ExtendedValue DEF Built
<1>2. QED
  BY <1>1, FilledFields, Zenon DEF FrameTyped

LEMMA PushKeyStep ==
  ASSUME Stepping, PushKey
  PROVE  Settled /\ Parsing'
<1> DEFINE f == [frame EXCEPT !.map_key = obj, !.ct = "MAP_VALUE"]
<1>1. /\ off \in Nat /\ len \in Nat /\ p \in off .. len - 1
      /\ construct => obj # Null
      /\ ret = "more" /\ FramesOK /\ StackTyped /\ top > 0
      /\ frame \in Frame(frame) /\ FrameOK(frame)
  BY AtInnermost DEF PushKey
<1>2. /\ f \in Frame(f)
      /\ f.ct = "MAP_VALUE" /\ f.size = frame.size /\ f.count = frame.count
      /\ f.obj = frame.obj /\ f.map_key = obj
  BY <1>1 DEF Frame
<1>3. stack' = WithTop(f) /\ HeaderAgain(p)
  BY DEF PushKey
<1> HIDE DEF f
<1>4. FrameTyped(f) /\ FrameOK(f)
  BY <1>1, <1>2 DEF FrameTyped, FrameOK
<1>5. StackTyped' /\ FramesOK' /\ stack' # <<>>
  BY <1>1, <1>3, <1>4, TopReplaced DEF Stepping
<1>6. Position' /\ Settled /\ Waits' /\ cs' \in Codes
  BY <1>1, <1>3, <1>5, HeaderAgainSettles DEF Stepping
<1>7. QED
  BY <1>5, <1>6 DEF Parsing

LEMMA PushItemStep ==
  ASSUME Stepping, PushItem
  PROVE  Settled /\ Parsing'
<1> DEFINE f == [Filled EXCEPT !.ct = IF @ = "MAP_VALUE" THEN "MAP_KEY" ELSE @]
<1>1. /\ off \in Nat /\ len \in Nat /\ p \in off .. len - 1
      /\ ret = "more" /\ FramesOK /\ StackTyped /\ top > 0
      /\ frame \in Frame(frame) /\ FrameTyped(frame) /\ FrameOK(frame)
      /\ frame.ct # "MAP_KEY" /\ ~Last
  BY AtInnermost DEF PushItem
<1>2. stack' = WithTop(f) /\ HeaderAgain(p)
  BY DEF PushItem
<1>3. /\ Filled \in Frame(Filled)
      /\ Filled.ct = frame.ct /\ Filled.size = frame.size
      /\ Filled.count = frame.count + 1 /\ Filled.obj = Built(Extended)
  BY <1>1, FilledFields
<1>4. /\ f \in Frame(f)
      /\ f.ct = IF frame.ct = "MAP_VALUE" THEN "MAP_KEY" ELSE frame.ct
      /\ f.size = frame.size /\ f.count = frame.count + 1
      /\ f.obj = Built(Extended)
  BY <1>3 DEF Frame
<1> HIDE DEF f
<1>5. f.ct \in {"ARRAY_ITEM", "MAP_KEY"}
  BY <1>1, <1>4 DEF Frame
<1>6. f.count < f.size
  BY <1>1, <1>4 DEF Frame, FrameOK, Last
<1>7. construct => /\ f.obj # Null
                   /\ f.ct = "ARRAY_ITEM" => /\ f.obj[1] = "list" /\ IsSeq(f.obj[2])
                                             /\ Len(f.obj[2]) = f.count
  BY <1>1, <1>4, ExtendedValue DEF Built
<1>8. FrameTyped(f) /\ FrameOK(f)
  BY <1>4, <1>5, <1>6, <1>7 DEF FrameTyped, FrameOK
<1>9. StackTyped' /\ FramesOK' /\ stack' # <<>>
  BY <1>1, <1>2, <1>8, TopReplaced DEF Stepping
<1>10. Position' /\ Settled /\ Waits' /\ cs' \in Codes
  BY <1>1, <1>2, <1>9, HeaderAgainSettles DEF Stepping
<1>11. QED
  BY <1>9, <1>10 DEF Parsing

LEMMA PushLastStep ==
  ASSUME Stepping, PushLast
  PROVE  Settled /\ Parsing'
<1>1. /\ off \in Nat /\ len \in Nat /\ p \in off .. len - 1
      /\ ret = "more" /\ FramesOK /\ StackTyped /\ top > 0
      /\ frame \in Frame(frame) /\ FrameTyped(frame) /\ FrameOK(frame)
      /\ frame.ct # "MAP_KEY" /\ cs \in Codes /\ cs' = cs
  BY AtInnermost DEF PushLast
<1> DEFINE hook == EndHook(IF frame.ct = "ARRAY_ITEM" THEN frame.ct ELSE "MAP_KEY")
<1>2. PICK v \in Hooked(hook, Extended) :
        /\ Push(v, p)
        /\ stack' = IF v = Fail THEN WithTop(Filled) ELSE SubSeq(stack, 1, top - 1)
  BY Zenon DEF PushLast
<1> HIDE DEF hook
<1>3. construct => v # Null
  BY <1>1, <1>2, ExtendedValue, HookedValue
<1>4. Position' /\ Settled /\ Waits' /\ ((ret' = "raised") <=> (v = Fail))
  BY <1>1, <1>2, <1>3, PushSettles DEF Stepping
<1>5. CASE v = Fail
  <2>1. StackTyped'
    BY <1>1, <1>2, <1>5, FilledTyped, TopReplaced DEF Stepping
  <2>2. QED
    BY <1>1, <1>4, <1>5, <2>1 DEF Parsing
<1>6. CASE v # Fail
  <2>1. StackTyped' /\ FramesOK'
    BY <1>1, <1>2, <1>6, TopRemoved DEF Stepping
  <2>2. QED
    BY <1>1, <1>4, <2>1 DEF Parsing
<1>7. QED
  BY <1>5, <1>6

(* Every step of the parser keeps its invariant, moves the position inside *)
(* the array only, and asks for more bytes only inside an object.          *)
LEMMA ParserStep ==
  ASSUME EmbedStackSize \in Nat, Readable, Parsing, Step, UNCHANGED <<data, len>>
  PROVE  Settled /\ Parsing' /\ Readable'
<1>1. Stepping
  BY DEF Stepping, Step
<1>2. ASSUME PushRefused PROVE Settled /\ Parsing'
  <2>1. AtPush /\ at # "idle" /\ Return("raised", p) /\ UNCHANGED <<cs, stack>>
    BY <1>2 DEF PushRefused, AtPush
  <2>2. p \in off .. len
    BY <1>1, <2>1, AtInnermost
  <2>3. QED
    BY <1>1, <2>1, <2>2, RefusalSettles
<1>3. ASSUME PushRoot PROVE Settled /\ Parsing'
  <2>1. AtPush /\ at # "idle" /\ Return("object", p + 1) /\ UNCHANGED <<cs, stack>>
    BY <1>3 DEF PushRoot, AtPush
  <2>2. p + 1 \in off .. len
    BY <1>1, <2>1, AtInnermost
  <2>3. QED
    BY <1>1, <2>1, <2>2, RefusalSettles
<1>4. Settled /\ Parsing'
  BY <1>1, <1>2, <1>3, HeaderStep, TrailStep, PushKeyStep, PushItemStep, PushLastStep
  DEF Step
<1>5. Readable'
  BY <1>4 DEF Settled, Readable
<1>6. QED
  BY <1>4, <1>5

-------------------------------------------------------------------------------
(* An object is in hand only on its way to its container.                  *)
Forgotten == at # "push" /\ ret = "more" => obj = Null

(* What a step does to the bytes: it stops for want of them only when they *)
(* are not there, forgets the object it delivered, and goes forward.       *)
Stops == at' = "idle" /\ ret' = "more" => off' + Needed' > len
Goes == Stops /\ (Forgotten => Forgotten') /\ Advances

LEMMA ReturnGoes ==
  ASSUME NEW r, r # "more", NEW pos, Return(r, pos)
  PROVE  Goes
BY DEF Return, Goes, Stops, Forgotten, Advances

LEMMA HeaderAgainGoes ==
  ASSUME Stepping, p \in Int, NEW pos \in Int, pos >= p, HeaderAgain(pos),
         Forgotten => obj' = Null
  PROVE  Goes
<1>1. CASE pos + 1 = len
  BY <1>1 DEF HeaderAgain, Return, Goes, Stops, Forgotten, Advances, Needed, CS_HEADER
<1>2. CASE pos + 1 # len
  BY <1>2 DEF HeaderAgain, Goes, Stops, Forgotten, Advances
<1>3. QED
  BY <1>1, <1>2

LEMMA PushGoes ==
  ASSUME Stepping, p \in Int, NEW pos \in Int, pos >= p, NEW v, Push(v, pos),
         v # Fail => top' < Rank
  PROVE  Goes
<1>1. CASE v = Fail
  BY <1>1, ReturnGoes DEF Push
<1>2. CASE v = Malformed
  BY <1>2, ReturnGoes DEF Push, Malformed, Fail
<1>3. CASE v # Fail /\ v # Malformed
  BY <1>3 DEF Push, Goes, Stops, Forgotten, Advances, Rank
<1>4. QED
  BY <1>1, <1>2, <1>3

(* In the loop no rank is higher, and no object is in hand. *)
LEMMA RankInLoop ==
  ASSUME Stepping, at = "loop"
  PROVE  top < Rank /\ p \in Int /\ (Forgotten => obj = Null)
BY InLoop DEF Forgotten, Stepping, StackTyped, IsSeq, Rank, top

LEMMA AgainGoes ==
  ASSUME Stepping, at = "loop", UNCHANGED stack,
         NEW acs, NEW count, NEW pos \in Int, pos >= p, Again(acs, count, pos)
  PROVE  Goes
<1>1. top' < Rank /\ p \in Int
  BY RankInLoop DEF top
<1>2. CASE count = 0
  BY <1>1, <1>2, PushGoes DEF Again
<1>3. CASE count # 0
  BY <1>1, <1>3 DEF Again, Goes, Stops, Forgotten, Advances
<1>4. QED
  BY <1>2, <1>3

LEMMA ContainerGoes ==
  ASSUME Stepping, at = "loop", NEW ct, NEW count,
         NEW pos \in Int, pos >= p, StartContainer(ct, count, pos)
  PROVE  Goes
<1>1. top < Rank /\ p \in Int /\ (Forgotten => obj = Null)
  BY RankInLoop
<1>2. ASSUME NEW r, r # "more", Return(r, pos) PROVE Goes
  BY <1>2, ReturnGoes
<1>3. ASSUME NEW v, Push(v, pos), UNCHANGED stack PROVE Goes
  BY <1>1, <1>3, PushGoes DEF top
<1>4. ASSUME HeaderAgain(pos), UNCHANGED obj PROVE Goes
  BY <1>1, <1>4, HeaderAgainGoes
<1>5. QED
  BY <1>2, <1>3, <1>4, Zenon DEF StartContainer

(* Every step stops only where it must, and goes forward. *)
LEMMA ParserGoes ==
  ASSUME Stepping, Step
  PROVE  Goes
<1>1. CASE HeaderImmediate \/ HeaderLong \/ HeaderContainer \/ HeaderNeverUsed
  <2>1. at = "loop"
    BY <1>1 DEF HeaderImmediate, HeaderLong, HeaderContainer, HeaderNeverUsed, AtHeader
  <2>2. p \in Int /\ p >= p /\ top < Rank
    BY <2>1, RankInLoop
  <2>3. CASE HeaderImmediate
    BY <2>1, <2>2, <2>3, PushGoes DEF HeaderImmediate, top
  <2>4. CASE HeaderLong
    BY <2>1, <2>2, <2>4, AgainGoes DEF HeaderLong
  <2>5. CASE HeaderContainer
    BY <2>1, <2>2, <2>5, ContainerGoes DEF HeaderContainer
  <2>6. CASE HeaderNeverUsed
    BY <2>6, ReturnGoes DEF HeaderNeverUsed
  <2>7. QED
    BY <1>1, <2>3, <2>4, <2>5, <2>6
<1>2. CASE TrailShort
  <2>1. at = "loop" /\ cs # CS_HEADER
    BY <1>2 DEF TrailShort, AtTrail
  <2>2. p \in Int /\ trail \in Nat /\ len \in Nat /\ (Forgotten => obj = Null)
    BY <2>1, InLoop, RankInLoop
  <2>3. QED
    BY <1>2, <2>1, <2>2
    DEF TrailShort, Complete, Return, Goes, Stops, Forgotten, Advances, Needed
<1>3. CASE TrailLength \/ TrailNumber \/ TrailPayload \/ TrailContainer
  <2>1. at = "loop" /\ AtTrail /\ Complete
    BY <1>3 DEF TrailLength, TrailNumber, TrailPayload, TrailContainer, AtTrail
  <2>2. q \in Int /\ q >= p /\ p \in Int /\ top < Rank
    BY <2>1, InLoop, RankInLoop DEF AtTrail, q
  <2>3. CASE TrailLength
    BY <2>1, <2>2, <2>3, AgainGoes DEF TrailLength
  <2>4. CASE TrailNumber \/ TrailPayload
    BY <2>1, <2>2, <2>4, PushGoes DEF TrailNumber, TrailPayload, top
  <2>5. CASE TrailContainer
    BY <2>1, <2>2, <2>5, ContainerGoes DEF TrailContainer
  <2>6. QED
    BY <1>3, <2>3, <2>4, <2>5
<1>4. CASE PushKey \/ PushItem
  BY <1>4, AtInnermost, HeaderAgainGoes DEF PushKey, PushItem
<1>5. CASE PushRefused \/ PushRoot
  BY <1>5, ReturnGoes DEF PushRefused, PushRoot
<1>6. CASE PushLast
  <2>1. /\ StackTyped /\ top > 0 /\ at = "push" /\ p \in Int
    BY <1>6, AtInnermost DEF PushLast, AtPush
  <2>2. PICK v : /\ Push(v, p)
                 /\ stack' = IF v = Fail THEN WithTop(Filled) ELSE SubSeq(stack, 1, top - 1)
    BY <1>6, Zenon DEF PushLast
  <2>3. Rank = top
    BY <2>1 DEF Rank
  <2>4. ASSUME v # Fail PROVE top' < top
    <3>1. IsSeq(stack) /\ Len(stack) > 0
      BY <2>1 DEF StackTyped, top
    <3> DEFINE m == Len(stack) - 1
    <3>2. m \in Nat /\ m = Len(stack) - 1 /\ m < Len(stack)
      BY <3>1 DEF IsSeq
    <3>3. stack' = SubSeq(stack, 1, m)
      BY <2>2, <2>4 DEF top
    <3> HIDE DEF m
    <3>4. Len(stack') = m
      BY <3>1, <3>2, <3>3, FrontProperties, Zenon DEF IsSeq
    <3>5. QED
      BY <3>2, <3>4 DEF top
  <2>5. QED
    BY <2>1, <2>2, <2>3, <2>4, PushGoes
<1>7. QED
  BY <1>1, <1>2, <1>3, <1>4, <1>5, <1>6 DEF Step

-------------------------------------------------------------------------------
(* The ends of a call. *)
LEMMA InitParses ==
  ASSUME EmbedStackSize \in Nat, InitContext, at = "idle", ret = "more"
  PROVE  Parsing
<1>1. StackTyped /\ FramesOK
  BY DEF InitContext, StackTyped, FramesOK, IsSeq, top
<1>2. Position /\ Waits /\ cs \in Codes
  BY DEF InitContext, Position, Waits, TrailOK, Codes, CS_HEADER
<1>3. QED
  BY <1>1, <1>2 DEF Parsing

(* A call on an open container goes on building it, or skipping it. *)
LEMMA EnterParses ==
  ASSUME Readable, Parsing, ret = "more", NEW building, Enter(building),
         stack # <<>> => building = construct, UNCHANGED <<data, len>>
  PROVE  /\ Parsing' /\ Readable'
         /\ off' = off
         /\ off # len => at' = "loop" /\ ret' = "more"
<1>1. /\ off' = off /\ ret' = "more" /\ construct' = building
      /\ at' = IF off = len THEN "idle" ELSE "loop"
      /\ p' = off
      /\ UNCHANGED <<cs, trail, stack>>
  BY DEF Enter, Return, ctx
<1>2. at = "idle" /\ TrailOK
  BY DEF Enter, Parsing, Waits
<1>3. StackTyped' /\ FramesOK'
  <2>1. CASE stack = <<>>
    BY <1>1, <2>1 DEF Parsing, StackTyped, FramesOK, IsSeq, top
  <2>2. CASE stack # <<>>
    BY <1>1, <2>2, StackKept DEF Parsing
  <2>3. QED
    BY <2>1, <2>2
<1>4. Readable'
  BY <1>1 DEF Readable
<1>5. Position'
  BY <1>1 DEF Position, Readable
<1>6. Waits'
  BY <1>1, <1>2 DEF Waits, TrailOK
<1>7. QED
  BY <1>1, <1>3, <1>4, <1>5, <1>6 DEF Parsing

(* A header reader moves past a header it could read whole, and only then. *)
LEMMA HeaderReads ==
  ASSUME Readable, NEW fixed, NEW var, ContainerHeader(fixed, var),
         off < len, UNCHANGED <<data, len>>
  PROVE  /\ off' \in off .. len /\ Readable'
         /\ at = "idle" /\ at' = "idle"
         /\ ret' \in {"object", "more", "raised"}
         /\ ret' # "object" => off' = off
         /\ UNCHANGED <<cs, trail, stack, construct>>
<1>1. off \in Nat /\ len \in Nat
  BY DEF Readable
<1>2. ASSUME NEW k \in {1, 3, 5}, ~(len - off < k), Return("object", off + k)
      PROVE  off' \in off .. len /\ at' = "idle" /\ ret' = "object"
  BY <1>1, <1>2 DEF Return
<1>3. ASSUME NEW r \in {"more", "raised"}, Return(r, off)
      PROVE  off' = off /\ off' \in off .. len /\ at' = "idle" /\ ret' = r
  BY <1>1, <1>3 DEF Return
<1>4. at = "idle" /\ UNCHANGED <<cs, trail, stack, construct>>
  BY DEF ContainerHeader
<1>5. \/ \E k \in {1, 3, 5} : ~(len - off < k) /\ Return("object", off + k)
      \/ \E r \in {"more", "raised"} : Return(r, off)
  BY Zenon DEF ContainerHeader, HeaderIncomplete
<1>6. /\ off' \in off .. len /\ at' = "idle"
      /\ ret' \in {"object", "more", "raised"}
      /\ ret' # "object" => off' = off
  BY <1>2, <1>3, <1>5
<1>7. Readable'
  BY <1>1, <1>6 DEF Readable
<1>8. QED
  BY <1>4, <1>6, <1>7

(* Nothing happens. *)
LEMMA StutterParses ==
  ASSUME Readable, Parsing,
         UNCHANGED <<data, len, off, cs, trail, stack, at, construct, p, obj, ret>>
  PROVE  Readable' /\ Parsing'
<1>1. Readable' /\ Position' /\ Waits'
  BY DEF Readable, Parsing, Position, Waits, TrailOK
<1>2. StackTyped' /\ (FramesOK => FramesOK')
  BY StackKept DEF Parsing
<1>3. QED
  BY <1>1, <1>2 DEF Parsing
===============================================================================
