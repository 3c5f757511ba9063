---------------------------- MODULE ConversionsProofs ----------------------------
(***************************************************************************)
(* Theorems about what MCConversions computes, for every range of an axis,   *)
(* every width of a word and every length of a string.                       *)
(***************************************************************************)
EXTENDS MCConversions, HidDecoderProofs, FiniteSetTheorems

(***************************************************************************)
(* Axes.                                                                    *)
(***************************************************************************)

\* What is divided in two halves is divided whole, or falls one short.
LEMMA HalvesOf ==
  ASSUME NEW a \in Nat, NEW c \in Nat, NEW b \in Nat \ {0}, NEW n \in Nat, a + c = n * b
  PROVE  a \div b + c \div b \in {n - 1, n}
<1> DEFINE q == a \div b
           p == c \div b
<1>1. q \in Nat /\ q * b <= a /\ a < q * b + b
  OBVIOUS
<1>2. p \in Nat /\ p * b <= c /\ c < p * b + b
  OBVIOUS
<1> HIDE DEF q, p
<1>3. (q + p) * b <= n * b /\ n * b < (q + p + 2) * b
  BY <1>1, <1>2
<1>4. ASSUME q + p > n
      PROVE  FALSE
  <2>1. (q + p) * b >= (n + 1) * b
    BY <1>1, <1>2, <1>4
  <2> QED BY <1>1, <1>2, <1>3, <2>1
<1>5. ASSUME q + p < n - 1
      PROVE  FALSE
  <2>1. n * b >= (q + p + 2) * b
    BY <1>1, <1>2, <1>5
  <2> QED BY <1>1, <1>2, <1>3, <2>1
<1>6. q + p \in {n - 1, n}
  BY <1>1, <1>2, <1>4, <1>5
<1> QED BY <1>6 DEF q, p

\* The ranges are ranges.
LEMMA RangesAre ==
  ASSUME NEW r \in Ranges
  PROVE  IsRange(r)
BY ConversionsAssumption, WidthAssumption DEF Ranges, RANGE, IsRange

\* The ends of a range, its middle and what lies opposite.
LEMMA TakenSound ==
  ASSUME NEW r, IsRange(r), NEW v \in r[1] .. r[2]
  PROVE  /\ Taken(r[1], r) = RANGE[1] /\ Taken(r[2], r) = RANGE[2]
         /\ r[1] = -r[2] => Taken(0, r) = 0 /\ Taken(v, r) + Taken(-v, r) \in {-1, 0}
         /\ r = RANGE => Taken(v, r) = v
<1>1. r[1] \in Int /\ r[2] \in Int /\ r[1] < r[2]
  BY DEF IsRange
<1>2. \A x \in r[1] .. r[2] : Taken(x, r) = ((x - r[1]) * 1000) \div (r[2] - r[1]) - 500
  BY TakenWithin
<1>3. RANGE[1] = -500 /\ RANGE[2] = 500
  BY DEF RANGE
<1> DEFINE b == r[2] - r[1]
<1>4. b \in Nat \ {0}
  BY <1>1
<1>5. Taken(r[1], r) = RANGE[1]
  <2>1. ((r[1] - r[1]) * 1000) \div b = 0
    BY <1>1, <1>4
  <2> QED BY <1>1, <1>2, <1>3, <2>1
<1>6. Taken(r[2], r) = RANGE[2]
  <2>1. (b * 1000) \div b = 1000
    <3>1. \A n \in Nat \ {0} : (n * 1000) \div n = 1000
      OBVIOUS
    <3> QED BY <1>4, <3>1
  <2> QED BY <1>1, <1>2, <1>3, <2>1
<1>7. ASSUME r[1] = -r[2]
      PROVE  Taken(0, r) = 0 /\ Taken(v, r) + Taken(-v, r) \in {-1, 0}
  <2> DEFINE m == r[2]
             a == (v + m) * 1000
             c == (m - v) * 1000
  <2>1. m \in Nat \ {0} /\ 0 \in r[1] .. r[2] /\ -v \in r[1] .. r[2] /\ b = 2 * m
    BY <1>1, <1>7
  <2>2. Taken(0, r) = 0
    <3>1. (m * 1000) \div (2 * m) = 500
      <4>1. \A n \in Nat \ {0} : (n * 1000) \div (2 * n) = 500
        OBVIOUS
      <4> QED BY <2>1, <4>1
    <3> QED BY <1>2, <1>7, <2>1, <3>1
  <2>3. a \in Nat /\ c \in Nat /\ a + c = 1000 * b
    BY <1>1, <1>7, <2>1
  <2>4. Taken(v, r) = a \div b - 500 /\ Taken(-v, r) = c \div b - 500
    <3>1. (v - r[1]) * 1000 = a /\ (-v - r[1]) * 1000 = c
      BY <1>1, <1>7, <2>1
    <3>2. \A x \in r[1] .. r[2] : \A y : (x - r[1]) * 1000 = y => Taken(x, r) = y \div b - 500
      BY <1>2
    <3> HIDE DEF a, b, c
    <3> QED BY <2>1, <3>1, <3>2
  <2> HIDE DEF a, b, c
  <2>5. a \div b + c \div b \in {1000 - 1, 1000} /\ a \div b \in Int /\ c \div b \in Int
    BY <1>4, <2>3, HalvesOf
  <2> QED BY <2>2, <2>4, <2>5
<1>8. ASSUME r = RANGE
      PROVE  Taken(v, r) = v
  <2>1. r[1] = -500 /\ r[2] = 500
    BY <1>3, <1>8
  <2>2. ((v + 500) * 1000) \div 1000 = v + 500
    BY <2>1
  <2> QED BY <1>2, <2>1, <2>2
<1> QED BY <1>5, <1>6, <1>7, <1>8

(***************************************************************************)
(* Settings.                                                                *)
(***************************************************************************)

\* Words and the numbers that have the same bits.
LEMMA SameBits ==
  /\ HALF \in Nat /\ HALF > 6
  /\ \A w \in I32 : AsU32(w) \in U32 /\ AsI32(AsU32(w)) = w
  /\ \A n \in U32 : AsI32(n) \in I32 /\ AsU32(AsI32(n)) = n
  /\ \A n \in U32 : AtLeastZero(AsI32(n)) = IF n < HALF THEN n ELSE 0
<1>1. HALF \in Nat /\ HALF > 6
  BY SettingsAssumption
<1> QED BY <1>1 DEF U32, I32, AsU32, AsI32, AtLeastZero

\* A flag, as it is set and read.
LEMMA FlagIs ==
  ASSUME NEW s \in Flags
  PROVE  /\ \A w \in I32 : ReadsBack(s, w, IF w = 0 THEN 0 ELSE 1)
         /\ \A b \in BOOLEAN : s.get[s.set[b]] = b
<1>1. s = inverted
  BY DEF Flags, swap_yz, grab_device
<1>2. /\ DOMAIN s.set = BOOLEAN
      /\ \A b \in BOOLEAN : s.set[b] = IF b THEN 1 ELSE 0
      /\ \A w \in I32 : s.get[w] = (w # 0)
  BY <1>1 DEF inverted
<1>3. 0 \in I32 /\ 1 \in I32 /\ 0 # 1
  BY SameBits DEF I32
<1>4. \A b \in BOOLEAN : s.get[s.set[b]] = b
  BY <1>2, <1>3
<1>5. ASSUME NEW w \in I32
      PROVE  ReadsBack(s, w, IF w = 0 THEN 0 ELSE 1)
  <2>1. s.get[w] = (w # 0)
    BY <1>2
  <2>2. CASE w = 0
    <3>1. s.get[w] = FALSE /\ s.set[FALSE] = 0 /\ s.get[0] = FALSE
      BY <1>2, <1>3, <2>1, <2>2
    <3> QED BY <2>2, <3>1 DEF ReadsBack
  <2>3. CASE w # 0
    <3>1. s.get[w] = TRUE /\ s.set[TRUE] = 1 /\ s.get[1] = TRUE
      BY <1>2, <1>3, <2>1, <2>3
    <3> QED BY <2>3, <3>1 DEF ReadsBack
  <2> QED BY <2>2, <2>3
<1> QED BY <1>4, <1>5

\* A sensitivity has the bits of its word.
LEMMA SensitivityIs ==
  /\ \A w \in I32 : ReadsBack(sensitivity, w, w)
  /\ \A n \in U32 : sensitivity.get[sensitivity.set[n]] = n
<1>1. /\ \A n \in U32 : sensitivity.set[n] = AsI32(n)
      /\ \A w \in I32 : sensitivity.get[w] = AsU32(w)
  BY DEF sensitivity
<1> QED BY <1>1, SameBits DEF ReadsBack

\* A number that is counted from 0 is read as 0 of a word below it.
LEMMA NumberIs ==
  ASSUME NEW s \in {mapped_button, key_map}
  PROVE  /\ \A w \in I32 : ReadsBack(s, w, IF w < 0 THEN 0 ELSE w)
         /\ \A n \in U32 : s.get[s.set[n]] = IF n < HALF THEN n ELSE 0
<1>1. s = mapped_button
  BY DEF key_map
<1>2. /\ DOMAIN s.set = U32 /\ \A n \in U32 : s.set[n] = AsI32(n)
      /\ \A w \in I32 : s.get[w] = AtLeastZero(w)
  BY <1>1 DEF mapped_button
<1>3. \A n \in U32 : s.get[s.set[n]] = IF n < HALF THEN n ELSE 0
  BY <1>2, SameBits
<1>4. ASSUME NEW w \in I32
      PROVE  ReadsBack(s, w, IF w < 0 THEN 0 ELSE w)
  <2> DEFINE n == IF w < 0 THEN 0 ELSE w
  <2>1. n \in U32 /\ n \in I32 /\ AtLeastZero(w) = n /\ AtLeastZero(n) = n /\ AsI32(n) = n
    BY SameBits DEF I32, U32, AtLeastZero, AsI32
  <2> HIDE DEF n
  <2>2. s.get[w] = n /\ s.set[n] = n /\ s.get[n] = n
    BY <1>2, <2>1
  <2> QED BY <2>2 DEF ReadsBack, n
<1> QED BY <1>3, <1>4

\* A code is its own word.
LEMMA CodeIs ==
  ASSUME NEW s \in {button_action, led}
  PROVE  /\ \A w \in I32 : ReadsBack(s, w, w)
         /\ \A n \in U32 : n \in DOMAIN s.set => s.get[s.set[n]] = n
<1>1. PICK codes \in {0 .. 6, 0 .. 2} : s = Codes(codes)
  BY DEF button_action, led
<1>2. /\ DOMAIN s.set = codes /\ \A n \in codes : s.set[n] = n
      /\ \A w \in I32 : s.get[w] = IF w \in codes THEN w ELSE Protocol
  BY <1>1 DEF Codes
<1>3. codes \subseteq I32
  BY SameBits DEF I32
<1> QED BY <1>2, <1>3 DEF ReadsBack

\* An interval that fits is read as the whole milliseconds in it, and one that was
\* read is set again as it was; one that does not fit is refused.
LEMMA IntervalIs ==
  /\ \A w \in I32 : ReadsBack(repeat_interval, w, IF w < 0 THEN -1 ELSE w)
  /\ repeat_interval.get[repeat_interval.set[None]] = None
  /\ \A n \in U32 : \A halves \in {2 * n, 2 * n + 1} :
       halves \in DOMAIN repeat_interval.set =>
         LET kept == repeat_interval.set[halves]
         IN  IF n < HALF THEN kept # Protocol /\ repeat_interval.get[kept] = 2 * n
             ELSE kept = Protocol
<1> DEFINE s == repeat_interval
<1>1. /\ DOMAIN s.set = {None} \cup 0 .. Longest
      /\ \A i \in {None} \cup 0 .. Longest : s.set[i] = Millis(i)
      /\ \A w \in I32 : s.get[w] = IF w < 0 THEN None ELSE 2 * w
  BY DEF repeat_interval
<1>2. Millis(None) = -1
  BY DEF Millis
<1>3. \A i : i # None /\ ~(i \div 2 >= HALF) => Millis(i) = i \div 2
  BY DEF Millis
<1>4. \A i : i # None /\ i \div 2 >= HALF => Millis(i) = Protocol
  BY DEF Millis
<1>5. /\ HALF \in Nat /\ HALF > 6 /\ -1 \in I32 /\ -1 < 0 /\ Longest \in Nat
      /\ None \notin Int /\ Protocol \notin Int
  BY SameBits, SettingsAssumption DEF I32
<1>6. s.set[None] = -1 /\ s.get[-1] = None
  BY <1>1, <1>2, <1>5
<1>7. ASSUME NEW w \in I32
      PROVE  ReadsBack(s, w, IF w < 0 THEN -1 ELSE w)
  <2>1. CASE w < 0
    <3>1. s.get[w] = None
      BY <1>1, <2>1
    <3> HIDE DEF s
    <3> QED BY <1>6, <2>1, <3>1 DEF ReadsBack
  <2>2. CASE ~(w < 0)
    <3>1. w \in Nat /\ s.get[w] = 2 * w /\ w < HALF
      BY <1>1, <1>5, <2>2 DEF I32
    <3>2. (2 * w) \div 2 = w /\ 2 * w # None
      BY <1>5, <3>1
    <3>3. Millis(2 * w) = w
      BY <1>3, <1>5, <3>1, <3>2
    <3>4. 2 * w \in DOMAIN s.set => s.set[2 * w] = w
      BY <1>1, <3>3
    <3> HIDE DEF s
    <3> QED BY <2>2, <3>1, <3>4 DEF ReadsBack
  <2> QED BY <2>1, <2>2
<1>8. ASSUME NEW n \in U32, NEW halves \in {2 * n, 2 * n + 1}, halves \in DOMAIN s.set
      PROVE  LET kept == s.set[halves]
             IN  IF n < HALF THEN kept # Protocol /\ s.get[kept] = 2 * n
                 ELSE kept = Protocol
  <2>1. n \in Nat /\ halves \div 2 = n /\ halves # None
    BY <1>5 DEF U32
  <2>2. s.set[halves] = Millis(halves)
    BY <1>1, <1>8
  <2>3. CASE n < HALF
    <3>1. s.set[halves] = n
      BY <1>3, <1>5, <2>1, <2>2, <2>3
    <3>2. n \in I32 /\ ~(n < 0) /\ n # Protocol
      BY <1>5, <2>1, <2>3 DEF I32
    <3>3. s.get[n] = 2 * n
      BY <1>1, <3>2
    <3> HIDE DEF s
    <3> QED BY <2>3, <3>1, <3>2, <3>3
  <2>4. CASE ~(n < HALF)
    <3>1. s.set[halves] = Protocol
      BY <1>4, <1>5, <2>1, <2>2, <2>4
    <3> HIDE DEF s
    <3> QED BY <2>4, <3>1
  <2> QED BY <2>3, <2>4
<1> HIDE DEF s
<1>9. s.get[s.set[None]] = None
  BY <1>6
<1> QED BY <1>7, <1>8, <1>9 DEF s

(***************************************************************************)
(* The keys of the sparse models.                                           *)
(***************************************************************************)

\* Of stretches that do not meet, a bit is numbered by the one it is in.
LEMMA SpreadIs ==
  ASSUME NEW stretches,
         \A s, t \in stretches : \A bit \in s[1] .. s[2] : bit \in t[1] .. t[2] => s = t
  PROVE  /\ \A bit \in DOMAIN Spread(stretches) : \E s \in stretches : bit \in s[1] .. s[2]
         /\ \A s \in stretches : \A bit \in s[1] .. s[2] :
              bit \in DOMAIN Spread(stretches) /\ Spread(stretches)[bit] = bit - s[1] + s[3]
<1> DEFINE dom == UNION {s[1] .. s[2] : s \in stretches}
           Of(bit) == CHOOSE s \in stretches : bit \in s[1] .. s[2]
<1>1. Spread(stretches) = [bit \in dom |-> bit - Of(bit)[1] + Of(bit)[3]]
  BY DEF Spread
<1>2. DOMAIN Spread(stretches) = dom
  BY <1>1, Zenon
<1>3. ASSUME NEW s \in stretches, NEW bit \in s[1] .. s[2]
      PROVE  bit \in dom /\ Of(bit) = s
  <2>1. bit \in dom
    OBVIOUS
  <2>2. Of(bit) \in stretches /\ bit \in Of(bit)[1] .. Of(bit)[2]
    BY <1>3, Zenon
  <2> HIDE DEF Of
  <2>3. Of(bit) = s
    BY <2>2, Zenon
  <2> QED BY <2>1, <2>3
<1>4. \A bit \in dom : \E s \in stretches : bit \in s[1] .. s[2]
  OBVIOUS
<1> HIDE DEF dom, Of
<1>5. ASSUME NEW s \in stretches, NEW bit \in s[1] .. s[2]
      PROVE  /\ bit \in DOMAIN Spread(stretches)
             /\ Spread(stretches)[bit] = bit - s[1] + s[3]
  <2>1. bit \in dom /\ Of(bit) = s
    BY <1>3
  <2>2. Spread(stretches)[bit] = bit - Of(bit)[1] + Of(bit)[3]
    BY <1>1, <2>1, Zenon
  <2> QED BY <1>2, <2>1, <2>2, Zenon
<1> QED BY <1>2, <1>4, <1>5, Zenon

\* The bits of a map of buttons, each with a number of its own, up to a count.
NumbersAll(map, count) ==
  /\ \A bit \in DOMAIN map : bit \in 0 .. 175 /\ map[bit] \in 0 .. count - 1
  /\ \A b, c \in DOMAIN map : map[b] = map[c] => b = c
  /\ \A n \in 0 .. count - 1 : \E bit \in DOMAIN map : map[bit] = n

\* The SpaceMouse Pro and its like have 15 keys, each with a number of its own.
LEMMA ProNumbersAll == NumbersAll(pro_buttons, 15)
<1> DEFINE S == {<<12, 15, 0>>, <<0, 2, 4>>, <<4, 5, 7>>, <<8, 8, 9>>, <<26, 26, 10>>,
                 <<22, 25, 11>>}
           map == pro_buttons
<1>1. map = Spread(S)
  BY DEF pro_buttons
<1>2. \A s, t \in S : \A bit \in s[1] .. s[2] : bit \in t[1] .. t[2] => s = t
  OBVIOUS
<1>3. /\ \A bit \in DOMAIN map : \E s \in S : bit \in s[1] .. s[2]
      /\ \A s \in S : \A bit \in s[1] .. s[2] :
           bit \in DOMAIN map /\ map[bit] = bit - s[1] + s[3]
  <2> HIDE DEF S, map
  <2> QED BY <1>1, <1>2, SpreadIs
<1> HIDE DEF map
<1>4. /\ \A bit \in 12 .. 15 : bit \in DOMAIN map /\ map[bit] = bit - 12 + 0
      /\ \A bit \in 0 .. 2 : bit \in DOMAIN map /\ map[bit] = bit - 0 + 4
      /\ \A bit \in 4 .. 5 : bit \in DOMAIN map /\ map[bit] = bit - 4 + 7
      /\ \A bit \in 8 .. 8 : bit \in DOMAIN map /\ map[bit] = bit - 8 + 9
      /\ \A bit \in 26 .. 26 : bit \in DOMAIN map /\ map[bit] = bit - 26 + 10
      /\ \A bit \in 22 .. 25 : bit \in DOMAIN map /\ map[bit] = bit - 22 + 11
  BY <1>3
<1>5. \A bit \in DOMAIN map :
        \/ bit \in 12 .. 15 \/ bit \in 0 .. 2 \/ bit \in 4 .. 5 \/ bit \in 8 .. 8
        \/ bit \in 26 .. 26 \/ bit \in 22 .. 25
  BY <1>3
<1> HIDE DEF S
<1>6. \A bit \in DOMAIN map : bit \in 0 .. 175 /\ map[bit] \in 0 .. 14
  BY <1>4, <1>5
<1>7. \A b, c \in DOMAIN map : map[b] = map[c] => b = c
  BY <1>4, <1>5
<1>8. ASSUME NEW n \in 0 .. 14
      PROVE  \E bit \in DOMAIN map : map[bit] = n
  <2>1. n \in 0 .. 3 => n + 12 \in DOMAIN map /\ map[n + 12] = n
    BY <1>4
  <2>2. n \in 4 .. 6 => n - 4 \in DOMAIN map /\ map[n - 4] = n
    BY <1>4
  <2>3. n \in 7 .. 8 => n - 3 \in DOMAIN map /\ map[n - 3] = n
    BY <1>4
  <2>4. n = 9 => 8 \in DOMAIN map /\ map[8] = n
    BY <1>4
  <2>5. n = 10 => 26 \in DOMAIN map /\ map[26] = n
    BY <1>4
  <2>6. n \in 11 .. 14 => n + 11 \in DOMAIN map /\ map[n + 11] = n
    BY <1>4
  <2> QED BY <2>1, <2>2, <2>3, <2>4, <2>5, <2>6
<1> QED BY <1>6, <1>7, <1>8 DEF NumbersAll, map

\* The Enterprise has 31.
LEMMA EnterpriseNumbersAll == NumbersAll(enterprise_buttons, 31)
<1> DEFINE S == {<<12, 21, 0>>, <<76, 77, 10>>, <<0, 2, 12>>, <<4, 5, 15>>, <<8, 8, 17>>,
                 <<22, 26, 18>>, <<35, 36, 23>>, <<174, 175, 25>>, <<102, 104, 27>>,
                 <<10, 10, 30>>}
           map == enterprise_buttons
<1>1. map = Spread(S)
  BY DEF enterprise_buttons
<1>2. \A s, t \in S : \A bit \in s[1] .. s[2] : bit \in t[1] .. t[2] => s = t
  OBVIOUS
<1>3. /\ \A bit \in DOMAIN map : \E s \in S : bit \in s[1] .. s[2]
      /\ \A s \in S : \A bit \in s[1] .. s[2] :
           bit \in DOMAIN map /\ map[bit] = bit - s[1] + s[3]
  <2> HIDE DEF S, map
  <2> QED BY <1>1, <1>2, SpreadIs
<1> HIDE DEF map
<1>4. /\ \A bit \in 12 .. 21 : bit \in DOMAIN map /\ map[bit] = bit - 12 + 0
      /\ \A bit \in 76 .. 77 : bit \in DOMAIN map /\ map[bit] = bit - 76 + 10
      /\ \A bit \in 0 .. 2 : bit \in DOMAIN map /\ map[bit] = bit - 0 + 12
      /\ \A bit \in 4 .. 5 : bit \in DOMAIN map /\ map[bit] = bit - 4 + 15
      /\ \A bit \in 8 .. 8 : bit \in DOMAIN map /\ map[bit] = bit - 8 + 17
      /\ \A bit \in 22 .. 26 : bit \in DOMAIN map /\ map[bit] = bit - 22 + 18
      /\ \A bit \in 35 .. 36 : bit \in DOMAIN map /\ map[bit] = bit - 35 + 23
      /\ \A bit \in 174 .. 175 : bit \in DOMAIN map /\ map[bit] = bit - 174 + 25
      /\ \A bit \in 102 .. 104 : bit \in DOMAIN map /\ map[bit] = bit - 102 + 27
      /\ \A bit \in 10 .. 10 : bit \in DOMAIN map /\ map[bit] = bit - 10 + 30
  BY <1>3
<1>5. \A bit \in DOMAIN map :
        \/ bit \in 12 .. 21 \/ bit \in 76 .. 77 \/ bit \in 0 .. 2 \/ bit \in 4 .. 5
        \/ bit \in 8 .. 8 \/ bit \in 22 .. 26 \/ bit \in 35 .. 36 \/ bit \in 174 .. 175
        \/ bit \in 102 .. 104 \/ bit \in 10 .. 10
  BY <1>3
<1> HIDE DEF S
<1>6. \A bit \in DOMAIN map : bit \in 0 .. 175 /\ map[bit] \in 0 .. 30
  BY <1>4, <1>5
<1>7. \A b, c \in DOMAIN map : map[b] = map[c] => b = c
  BY <1>4, <1>5
<1>8. ASSUME NEW n \in 0 .. 30
      PROVE  \E bit \in DOMAIN map : map[bit] = n
  <2>1. n \in 0 .. 9 => n + 12 \in DOMAIN map /\ map[n + 12] = n
    BY <1>4
  <2>2. n \in 10 .. 11 => n + 66 \in DOMAIN map /\ map[n + 66] = n
    BY <1>4
  <2>3. n \in 12 .. 14 => n - 12 \in DOMAIN map /\ map[n - 12] = n
    BY <1>4
  <2>4. n \in 15 .. 16 => n - 11 \in DOMAIN map /\ map[n - 11] = n
    BY <1>4
  <2>5. n = 17 => 8 \in DOMAIN map /\ map[8] = n
    BY <1>4
  <2>6. n \in 18 .. 22 => n + 4 \in DOMAIN map /\ map[n + 4] = n
    BY <1>4
  <2>7. n \in 23 .. 24 => n + 12 \in DOMAIN map /\ map[n + 12] = n
    BY <1>4
  <2>8. n \in 25 .. 26 => n + 149 \in DOMAIN map /\ map[n + 149] = n
    BY <1>4
  <2>9. n \in 27 .. 29 => n + 75 \in DOMAIN map /\ map[n + 75] = n
    BY <1>4
  <2>10. n = 30 => 10 \in DOMAIN map /\ map[10] = n
    BY <1>4
  <2> QED BY <2>1, <2>2, <2>3, <2>4, <2>5, <2>6, <2>7, <2>8, <2>9, <2>10
<1> QED BY <1>6, <1>7, <1>8 DEF NumbersAll, map

Models == SpaceMousePro \cup {Enterprise}

\* Every sparse model numbers all of its buttons.
LEMMA ModelNumbersAll ==
  ASSUME NEW m \in Models
  PROVE  /\ NumbersAll(button_map(m), button_count(m)) /\ button_count(m) \in Nat
BY ProNumbersAll, EnterpriseNumbersAll DEF button_map, button_count

\* When the bits of a report have been set one after the other, just those that
\* stand for a button have been told, each once.
KeysTold(m, data, told) ==
  /\ data \in Seq(BOOLEAN) /\ \A i \in 1 .. Len(data) : data[i] = TRUE
  /\ told \in Seq(Nat)
  /\ \A i, j \in 1 .. Len(told) : told[i] = told[j] => i = j
  /\ \A i \in 1 .. Len(told) :
       \E bit \in DOMAIN button_map(m) : bit < Len(data) /\ told[i] = button_map(m)[bit]
  /\ \A bit \in DOMAIN button_map(m) :
       bit < Len(data) => \E i \in 1 .. Len(told) : told[i] = button_map(m)[bit]

\* The next bit is told, if it stands for a button, and nothing else is.
LEMMA NextKeyTold ==
  ASSUME NEW data \in Seq(BOOLEAN), \A i \in 1 .. Len(data) : data[i] = TRUE, NEW map,
         DOMAIN map \subseteq Nat
  PROVE  \E bits :
           /\ bits = (IF Len(data) \in DOMAIN map THEN <<Len(data)>> ELSE <<>>)
           /\ ButtonEvents(Append(data, TRUE), data, map)
                = EventsFor(Append(data, TRUE), map, bits)
<1> DEFINE more == Append(data, TRUE)
           n == Len(data)
           told == ToldBits(more, data, map)
<1>1. /\ more \in Seq(BOOLEAN) /\ n \in Nat /\ Len(more) = n + 1
      /\ \A i \in 1 .. n : more[i] = data[i]
      /\ more[n + 1] = TRUE
  BY AppendProperties, LenProperties, TRUE \in BOOLEAN
<1>2. BitsIn(more, data) = n + 1
  BY <1>1 DEF BitsIn
<1>3. \A bit \in 0 .. n : IsDown(more, bit) = TRUE /\ IsDown(data, bit) = (bit < n)
  <2>1. ASSUME NEW bit \in 0 .. n
        PROVE  IsDown(more, bit) = TRUE /\ IsDown(data, bit) = (bit < n)
    <3>1. bit < n => bit + 1 \in 1 .. n
      BY <1>1
    <3>2. bit < n => data[bit + 1] /\ more[bit + 1]
      BY <1>1, <3>1
    <3>3. bit < n \/ bit = n
      BY <1>1
    <3>4. bit < Len(more)
      BY <1>1
    <3> HIDE DEF n, more
    <3> QED BY <1>1, <3>2, <3>3, <3>4 DEF IsDown, n
  <2> QED BY <2>1
<1>4. \A bit : bit \in told <=> bit = n /\ n \in DOMAIN map
  <2>1. told = {bit \in 0 .. n : Changed(more, data, bit) /\ bit \in DOMAIN map}
    <3>1. (n + 1) - 1 = n
      BY <1>1
    <3> QED BY <1>2, <3>1 DEF ToldBits
  <2>2. \A bit \in 0 .. n : Changed(more, data, bit) <=> bit = n
    <3>1. \A bit \in 0 .. n : ~(bit < n) <=> bit = n
      BY <1>1
    <3> HIDE DEF n, more
    <3>2. \A bit \in 0 .. n : Changed(more, data, bit) = (TRUE # (bit < n))
      BY <1>3, Zenon DEF Changed
    <3> QED BY <3>1, <3>2, Zenon
  <2>3. n \in 0 .. n
    BY <1>1
  <2> HIDE DEF n, more, told
  <2> QED BY <2>1, <2>2, <2>3
<1>5. PICK bits \in Seq(told) : /\ ButtonEvents(more, data, map) = EventsFor(more, map, bits)
                                /\ InOrder(bits, told, n + 1)
  <2> HIDE DEF n, more
  <2> QED BY <1>1, <1>2, ButtonEventsAre DEF n
<1> HIDE DEF told, n, more
<1>6. Len(bits) \in Nat /\ \A i \in 1 .. Len(bits) : bits[i] = n /\ n \in DOMAIN map
  BY <1>4, ElementOfSeq, LenProperties
<1>7. CASE n \in DOMAIN map
  <2>1. n \in told /\ n < n + 1
    BY <1>1, <1>4, <1>7
  <2>2. PICK i \in 1 .. Len(bits) : bits[i] = n
    BY <1>5, <2>1 DEF InOrder
  <2>3. ~(2 \in 1 .. Len(bits))
    <3>1. ASSUME 2 \in 1 .. Len(bits)
          PROVE  FALSE
      <4>1. 1 \in 1 .. Len(bits) /\ 1 < 2
        BY <1>6, <3>1
      <4>2. bits[1] < bits[2]
        BY <1>5, <3>1, <4>1 DEF InOrder
      <4> QED BY <1>1, <1>6, <3>1, <4>1, <4>2
    <3> QED BY <3>1
  <2>4. Len(bits) = 1
    <3>1. Len(bits) \in Nat
      BY <1>6
    <3>2. \A k \in Nat : \A j \in 1 .. k : 2 \notin 1 .. k => k = 1
      OBVIOUS
    <3> QED BY <2>2, <2>3, <3>1, <3>2, Zenon
  <2>5. bits[1] = n
    BY <1>6, <2>4
  <2>6. bits = <<n>>
    BY <2>4, <2>5, LenProperties
  <2> QED BY <1>5, <1>7, <2>6 DEF n, more
<1>8. CASE n \notin DOMAIN map
  <2>1. Len(bits) = 0
    BY <1>6, <1>8
  <2>2. bits = <<>>
    BY <2>1, EmptySeq, LenProperties
  <2> QED BY <1>5, <1>8, <2>2 DEF n, more
<1> QED BY <1>7, <1>8

\* A function on the numbers up to one is a list of so many.
LEMMA ListIs ==
  ASSUME NEW n \in Nat, NEW S, NEW f \in [1 .. n -> S]
  PROVE  f \in Seq(S) /\ Len(f) = n
<1>1. f \in Seq(S)
  BY SeqDef
<1>2. DOMAIN f = 1 .. n /\ DOMAIN f = 1 .. Len(f) /\ Len(f) \in Nat
  BY <1>1, LenProperties
<1> QED BY <1>1, <1>2

\* What one bit is told as.
LEMMA EventsForOne ==
  ASSUME NEW d, NEW map, NEW n, NEW bits, Len(bits) = 1, bits[1] = n,
         NEW events, events = EventsFor(d, map, bits)
  PROVE  Len(events) = 1 /\ events[1].index = map[n]
<1>1. events = [i \in 1 .. 1 |-> ButtonEvent(d, map, bits[i])]
  BY DEF EventsFor
<1>2. events \in [1 .. 1 -> {ButtonEvent(d, map, n)}] /\ events[1] = ButtonEvent(d, map, n)
  BY <1>1
<1> QED BY <1>2, ListIs DEF ButtonEvent

\* No bits are told as nothing.
LEMMA EventsForNone ==
  ASSUME NEW d, NEW map, NEW bits, Len(bits) = 0
  PROVE  Len(EventsFor(d, map, bits)) = 0
<1>1. EventsFor(d, map, bits) \in [1 .. 0 -> {}]
  BY DEF EventsFor
<1> QED BY <1>1, ListIs

\* One bit more, and what it tells.
LEMMA KeysToldNext ==
  ASSUME NEW m \in Models, NEW data, NEW told, KeysTold(m, data, told),
         NEW events, events = ButtonEvents(Append(data, TRUE), data, button_map(m))
  PROVE  KeysTold(m, Append(data, TRUE),
                  told \o [i \in 1 .. Len(events) |-> events[i].index])
<1> DEFINE map == button_map(m)
           more == Append(data, TRUE)
           n == Len(data)
           k == Len(told)
           news == [i \in 1 .. Len(events) |-> events[i].index]
           now == told \o news
<1>1. /\ data \in Seq(BOOLEAN) /\ n \in Nat /\ k \in Nat /\ told \in Seq(Nat)
      /\ \A i \in 1 .. n : data[i] = TRUE
  BY LenProperties DEF KeysTold
<1>2. /\ DOMAIN map \subseteq Nat /\ \A bit \in DOMAIN map : map[bit] \in Nat
      /\ \A b, c \in DOMAIN map : map[b] = map[c] => b = c
  BY ModelNumbersAll DEF NumbersAll
<1>3. /\ more \in Seq(BOOLEAN) /\ Len(more) = n + 1 /\ \A i \in 1 .. n + 1 : more[i] = TRUE
  <2>1. /\ more \in Seq(BOOLEAN) /\ Len(more) = n + 1
        /\ \A i \in 1 .. n : more[i] = data[i]
        /\ more[n + 1] = TRUE
    BY <1>1, AppendProperties, TRUE \in BOOLEAN
  <2>2. \A i \in 1 .. n + 1 : i \in 1 .. n \/ i = n + 1
    BY <1>1
  <2> QED BY <1>1, <2>1, <2>2, Zenon
<1>4. PICK bits : /\ bits = (IF n \in DOMAIN map THEN <<n>> ELSE <<>>)
                  /\ events = EventsFor(more, map, bits)
  <2> HIDE DEF map
  <2> QED BY <1>1, <1>2, NextKeyTold DEF map
<1>5. events = EventsFor(more, map, bits)
  BY <1>4
<1>6. \A i, j \in 1 .. k : told[i] = told[j] => i = j
  BY DEF KeysTold
<1>7. \A i \in 1 .. k : \E bit \in DOMAIN map : bit < n /\ told[i] = map[bit]
  BY DEF KeysTold
<1>8. \A bit \in DOMAIN map : bit < n => \E i \in 1 .. k : told[i] = map[bit]
  BY DEF KeysTold
<1>9. CASE n \in DOMAIN map
  <2> HIDE DEF map, more, n, k
  <2>1. bits = <<n>>
    BY <1>4, <1>9
  <2>3. Len(events) = 1 /\ events[1].index = map[n]
    <3>1. Len(bits) = 1 /\ bits[1] = n
      BY <2>1
    <3>2. /\ Len(EventsFor(more, map, bits)) = 1
          /\ EventsFor(more, map, bits)[1].index = map[n]
      BY <3>1, EventsForOne
    <3> QED BY <1>5, <3>2, Zenon
  <2>4. news = <<map[n]>> /\ map[n] \in Nat
    <3>1. news = [i \in 1 .. 1 |-> events[i].index]
      BY <2>3
    <3>2. map[n] \in Nat /\ 1 \in 1 .. 1 /\ \A i \in 1 .. 1 : i = 1
      BY <1>2, <1>9
    <3>3. news \in [1 .. 1 -> Nat] /\ news[1] = map[n]
      BY <2>3, <3>1, <3>2, Zenon
    <3> HIDE DEF news
    <3>4. news \in Seq(Nat) /\ Len(news) = 1
      BY <3>3, ListIs
    <3> QED BY <3>2, <3>3, <3>4, LenProperties
  <2> HIDE DEF news
  <2>5. now = Append(told, map[n])
    BY <1>1, <2>4
  <2>6. /\ now \in Seq(Nat) /\ Len(now) = k + 1
        /\ \A i \in 1 .. k : now[i] = told[i]
        /\ now[k + 1] = map[n]
    BY <1>1, <2>4, <2>5, AppendProperties DEF k
  <2>7. \A i \in 1 .. k + 1 : i \in 1 .. k \/ i = k + 1
    BY <1>1
  <2>8. \A i \in 1 .. k : now[i] # map[n]
    <3> SUFFICES ASSUME NEW i \in 1 .. k PROVE now[i] # map[n]
      OBVIOUS
    <3>1. PICK bit \in DOMAIN map : bit < n /\ told[i] = map[bit]
      BY <1>7
    <3>2. bit # n
      BY <1>1, <1>2, <3>1
    <3> QED BY <1>2, <1>9, <2>6, <3>1, <3>2, Zenon
  <2> HIDE DEF now
  <2>9. \A i, j \in 1 .. k + 1 : now[i] = now[j] => i = j
    BY <1>6, <2>6, <2>7, <2>8, Zenon
  <2>10. \A i \in 1 .. k + 1 : \E bit \in DOMAIN map : bit < n + 1 /\ now[i] = map[bit]
    <3> SUFFICES ASSUME NEW i \in 1 .. k + 1
                 PROVE  \E bit \in DOMAIN map : bit < n + 1 /\ now[i] = map[bit]
      OBVIOUS
    <3>1. CASE i = k + 1
      BY <1>1, <1>9, <2>6, <3>1
    <3>2. CASE i \in 1 .. k
      <4>1. PICK bit \in DOMAIN map : bit < n /\ told[i] = map[bit]
        BY <1>7, <3>2
      <4>2. bit < n + 1
        BY <1>1, <1>2, <4>1
      <4> QED BY <2>6, <3>2, <4>1, <4>2
    <3> QED BY <2>7, <3>1, <3>2
  <2>11. \A bit \in DOMAIN map : bit < n + 1 => \E i \in 1 .. k + 1 : now[i] = map[bit]
    <3> SUFFICES ASSUME NEW bit \in DOMAIN map, bit < n + 1
                 PROVE  \E i \in 1 .. k + 1 : now[i] = map[bit]
      OBVIOUS
    <3>1. CASE bit = n
      BY <1>1, <2>6, <3>1
    <3>2. CASE bit < n
      <4>1. PICK i \in 1 .. k : told[i] = map[bit]
        BY <1>8, <3>2
      <4>2. i \in 1 .. k + 1
        BY <1>1
      <4> QED BY <2>6, <4>1, <4>2
    <3>3. bit = n \/ bit < n
      BY <1>1, <1>2
    <3> QED BY <3>1, <3>2, <3>3
  <2>12. KeysTold(m, more, now)
    BY <1>3, <2>6, <2>9, <2>10, <2>11 DEF KeysTold, map
  <2> QED BY <2>12 DEF now, news, more
<1>10. CASE n \notin DOMAIN map
  <2> HIDE DEF map, more, n, k
  <2>1. bits = <<>>
    BY <1>4, <1>10
  <2>3. Len(events) = 0
    <3>1. Len(bits) = 0
      BY <2>1
    <3>2. Len(EventsFor(more, map, bits)) = 0
      BY <3>1, EventsForNone
    <3> QED BY <1>5, <3>2, Zenon
  <2>4. news = <<>>
    <3>1. news = [i \in 1 .. 0 |-> events[i].index]
      BY <2>3
    <3>2. news \in [1 .. 0 -> {}]
      <4>1. \A i \in 1 .. 0 : events[i].index \in {}
        OBVIOUS
      <4> QED BY <3>1, <4>1, Zenon
    <3>3. news \in Seq({}) /\ Len(news) = 0
      BY <3>2, ListIs
    <3> HIDE DEF news
    <3> QED BY <3>3, EmptySeq, LenProperties
  <2> HIDE DEF news
  <2>5. now = told
    BY <1>1, <2>4
  <2>6. \A bit \in DOMAIN map : bit < n + 1 <=> bit < n
    BY <1>1, <1>2, <1>10
  <2>7. KeysTold(m, more, told)
    BY <1>1, <1>3, <1>6, <1>7, <1>8, <2>6 DEF KeysTold, k, map
  <2> QED BY <2>5, <2>7 DEF news, more
<1> QED BY <1>9, <1>10

\* Keys told under numbers of their own, in the end all that the model has.
Counted(m, data, told) ==
  LET says == {told[i] : i \in DOMAIN told}
      all == 0 .. button_count(m) - 1
  IN  /\ says \subseteq all /\ Cardinality(says) = Len(told)
      /\ Len(data) > MaxBit => says = all

\* When all bits have been set, the keys are as many as the model has.
LEMMA KeysAreCounted ==
  ASSUME NEW m \in Models, NEW data, NEW told, KeysTold(m, data, told)
  PROVE  Counted(m, data, told)
<1> DEFINE says == {told[i] : i \in DOMAIN told}
           all == 0 .. button_count(m) - 1
           map == button_map(m)
<1>1. /\ told \in Seq(Nat) /\ Len(told) \in Nat /\ DOMAIN told = 1 .. Len(told)
      /\ told \in [1 .. Len(told) -> Nat]
  BY LenProperties DEF KeysTold
<1>2. NumbersAll(map, button_count(m))
  BY ModelNumbersAll
<1>3. says \subseteq all
  BY <1>1, <1>2 DEF KeysTold, NumbersAll
<1>4. Cardinality(says) = Len(told)
  <2>1. told \in Surjection(1 .. Len(told), says) /\ told \in Injection(1 .. Len(told), says)
    <3>1. told \in [1 .. Len(told) -> says]
      BY <1>1
    <3>2. \A x \in says : \E i \in 1 .. Len(told) : told[i] = x
      BY <1>1
    <3>3. \A i, j \in 1 .. Len(told) : told[i] = told[j] => i = j
      BY DEF KeysTold
    <3> HIDE DEF says
    <3> QED BY <3>1, <3>2, <3>3 DEF Surjection, Injection, IsInjective
  <2>2. IsFiniteSet(1 .. Len(told)) /\ Cardinality(1 .. Len(told)) = Len(told)
    <3>1. 1 \in Int /\ Len(told) \in Int
      BY <1>1
    <3>2. /\ IsFiniteSet(1 .. Len(told))
          /\ Cardinality(1 .. Len(told)) = IF 1 > Len(told) THEN 0 ELSE Len(told) - 1 + 1
      BY <3>1, FS_Interval, Zenon
    <3> QED BY <1>1, <3>2
  <2> HIDE DEF says
  <2> QED BY <2>1, <2>2, FS_Surjection
<1>5. ASSUME Len(data) > MaxBit
      PROVE  all \subseteq says
  <2>1. MaxBit \in Nat /\ MaxBit >= 175 /\ Len(data) \in Nat
    BY ConversionsAssumption, LenProperties DEF KeysTold
  <2>2. ASSUME NEW n \in all
        PROVE  n \in says
    <3>1. PICK bit \in DOMAIN map : map[bit] = n
      BY <1>2 DEF NumbersAll
    <3>2. bit \in 0 .. 175
      BY <1>2 DEF NumbersAll
    <3>3. bit < Len(data)
      BY <1>5, <2>1, <3>2
    <3>4. PICK i \in 1 .. Len(told) : told[i] = n
      BY <3>1, <3>3 DEF KeysTold
    <3> QED BY <1>1, <3>4
  <2> QED BY <2>2
<1> QED BY <1>3, <1>4, <1>5 DEF Counted

(***************************************************************************)
(* Strings.                                                                 *)
(***************************************************************************)

\* A word below the bit of a continuation, and one that has it.
LEMMA WordIs ==
  ASSUME NEW w \in Int
  PROVE  /\ CONT_BIT \in Nat /\ CONT_BIT = MAX_STRING + 1
         /\ w \in 0 .. MAX_STRING => w % CONT_BIT = w /\ (w \div CONT_BIT) % 2 = 0
         /\ w \in CONT_BIT .. 2 * CONT_BIT - 1 =>
              w % CONT_BIT = w - CONT_BIT /\ (w \div CONT_BIT) % 2 = 1
<1> DEFINE c == CONT_BIT
<1>1. c \in Nat \ {0} /\ c = MAX_STRING + 1
  BY StringAssumption DEF CONT_BIT
<1> HIDE DEF c
<1>2. w \in 0 .. c - 1 => w \div c = 0 /\ w % c = w
  BY <1>1
<1>3. w \in c .. 2 * c - 1 => w \div c = 1 /\ w % c = w - c
  BY <1>1
<1>4. 0 % 2 = 0 /\ 1 % 2 = 1 /\ c - 1 = MAX_STRING
  BY <1>1, StringAssumption
<1> QED BY <1>1, <1>2, <1>3, <1>4 DEF c

\* What is taken of a packet, after what there was.
LEMMA TextGrows ==
  ASSUME NEW packet \in Packets, NEW text \in Seq(Nat), NEW n \in Nat
  PROVE  /\ Take(n) \in Nat /\ Take(n) = IF n <= CHUNK THEN n ELSE CHUNK
         /\ text \o SubSeq(packet.data, 1, Take(n)) \in Seq(Nat)
         /\ Len(text \o SubSeq(packet.data, 1, Take(n))) = Len(text) + Take(n)
<1> DEFINE part == SubSeq(packet.data, 1, Take(n))
<1>1. CHUNK \in Nat /\ Take(n) \in Nat /\ Take(n) = IF n <= CHUNK THEN n ELSE CHUNK
  BY StringAssumption DEF Take, AtMost
<1>2. packet.data \in Seq(Nat) /\ Len(packet.data) = CHUNK
  <2>1. packet.data \in [1 .. CHUNK -> Nat]
    BY <1>1 DEF Packets
  <2> QED BY <1>1, <2>1, ListIs
<1>3. part \in Seq(Nat) /\ Len(part) = Take(n)
  <2>1. Take(n) <= CHUNK
    BY <1>1
  <2> QED BY <1>1, <1>2, <2>1, SubSeqProperties
<1> HIDE DEF part
<1>4. text \o part \in Seq(Nat) /\ Len(text \o part) = Len(text) + Take(n)
  BY <1>3, ConcatProperties
<1> QED BY <1>1, <1>4 DEF part

\* A first packet begins a string anew, whatever the reader has.
LEMMA FirstPacket ==
  ASSUME NEW reader, NEW packet \in Packets, packet.word \in 0 .. MAX_STRING,
         NEW pushed, pushed = push(reader, packet)
  PROVE  \/ /\ packet.word <= CHUNK /\ pushed.result = "string" /\ pushed.reader = NewReader
            /\ Len(pushed.text) = packet.word
         \/ /\ packet.word > CHUNK /\ pushed.result = "more"
            /\ pushed.reader.started = TRUE /\ pushed.reader.expect = packet.word - CHUNK
            /\ pushed.reader.text \in Seq(Nat) /\ Len(pushed.reader.text) = CHUNK
<1> DEFINE w == packet.word
           fresh == [text |-> <<>>, expect |-> w, started |-> TRUE]
           text == fresh.text \o SubSeq(packet.data, 1, Take(w))
<1>1. w \in Nat /\ w \in Int /\ ~(w < 0) /\ w >= 0 /\ CHUNK \in Nat
  BY StringAssumption
<1>2. w % CONT_BIT = w /\ (w \div CONT_BIT) % 2 = 0
  BY <1>1, WordIs
<1>3. ~IsContinuation(packet)
  BY <1>2 DEF IsContinuation
<1>4. Readied(reader, packet) = fresh
  BY <1>2, <1>3 DEF Readied
<1>5. ~OutOfOrder(reader, packet)
  BY <1>2, <1>3, <1>4 DEF OutOfOrder
<1>6. /\ Take(w) \in Nat /\ Take(w) = IF w <= CHUNK THEN w ELSE CHUNK
      /\ text \in Seq(Nat) /\ Len(text) = Take(w)
  <2>1. fresh.text \in Seq(Nat) /\ Len(fresh.text) = 0
    BY EmptySeq
  <2>2. \A k \in Nat : 0 + k = k
    OBVIOUS
  <2>3. /\ Take(w) \in Nat /\ Take(w) = (IF w <= CHUNK THEN w ELSE CHUNK)
        /\ text \in Seq(Nat) /\ Len(text) = Len(fresh.text) + Take(w)
    BY <1>1, <2>1, TextGrows
  <2> HIDE DEF text, w, fresh
  <2> QED BY <2>1, <2>2, <2>3
<1>7. fresh.expect = w
  OBVIOUS
<1> HIDE DEF fresh
<1>8. pushed = IF fresh.expect = Take(w)
               THEN [reader |-> NewReader, result |-> "string", text |-> text]
               ELSE [reader |-> [text |-> text, expect |-> fresh.expect - Take(w),
                                 started |-> TRUE],
                     result |-> "more", text |-> <<>>]
  BY <1>1, <1>2, <1>4, <1>5, Zenon DEF push
<1> HIDE DEF text, w
<1>9. CASE w <= CHUNK
  <2>1. pushed = [reader |-> NewReader, result |-> "string", text |-> text] /\ Take(w) = w
    BY <1>6, <1>7, <1>8, <1>9
  <2> QED BY <1>6, <1>9, <2>1 DEF w
<1>10. CASE w > CHUNK
  <2>1. Take(w) = CHUNK /\ w # CHUNK
    BY <1>1, <1>6, <1>10
  <2>2. pushed = [reader |-> [text |-> text, expect |-> w - CHUNK, started |-> TRUE],
                  result |-> "more", text |-> <<>>]
    BY <1>7, <1>8, <2>1, Zenon
  <2> QED BY <1>6, <1>10, <2>1, <2>2 DEF w
<1>11. w <= CHUNK \/ w > CHUNK
  BY <1>1
<1> QED BY <1>9, <1>10, <1>11

\* A later one goes on with the string, or is not the next of it.
LEMMA LaterPacket ==
  ASSUME NEW reader, reader.text \in Seq(Nat), reader.expect \in Nat,
         NEW packet \in Packets, packet.word \in CONT_BIT .. 2 * CONT_BIT - 1,
         NEW pushed, pushed = push(reader, packet)
  PROVE  LET n == packet.word - CONT_BIT
         IN  \/ pushed.result = "Protocol"
             \/ /\ reader.started /\ reader.expect = n /\ n <= CHUNK
                /\ pushed.result = "string" /\ pushed.reader = NewReader
                /\ Len(pushed.text) = Len(reader.text) + n
             \/ /\ reader.started /\ reader.expect = n /\ n > CHUNK
                /\ pushed.result = "more"
                /\ pushed.reader.started = TRUE /\ pushed.reader.expect = n - CHUNK
                /\ pushed.reader.text \in Seq(Nat)
                /\ Len(pushed.reader.text) = Len(reader.text) + CHUNK
<1> DEFINE w == packet.word
           n == w - CONT_BIT
           text == reader.text \o SubSeq(packet.data, 1, Take(n))
<1>0. CONT_BIT \in Nat /\ CHUNK \in Nat /\ w \in Int
  BY StringAssumption DEF CONT_BIT
<1>1. w \in Nat /\ ~(w < 0) /\ w >= 0 /\ CHUNK \in Nat /\ n \in Nat
  BY <1>0
<1>2. w % CONT_BIT = n /\ (w \div CONT_BIT) % 2 = 1
  BY <1>0, WordIs
<1>3. IsContinuation(packet)
  BY <1>2 DEF IsContinuation
<1>4. Readied(reader, packet) = reader
  BY <1>3 DEF Readied
<1> HIDE DEF w, n
<1>5. CASE OutOfOrder(reader, packet)
  <2>1. pushed = [reader |-> reader, result |-> "Protocol", text |-> <<>>]
    BY <1>1, <1>4, <1>5, Zenon DEF push, w
  <2> QED BY <2>1
<1>6. CASE ~OutOfOrder(reader, packet)
  <2>1. reader.started /\ n = reader.expect
    BY <1>2, <1>3, <1>4, <1>6 DEF OutOfOrder, w
  <2>2. /\ Take(n) \in Nat /\ Take(n) = (IF n <= CHUNK THEN n ELSE CHUNK)
        /\ text \in Seq(Nat) /\ Len(text) = Len(reader.text) + Take(n)
    BY <1>1, TextGrows
  <2>3. pushed = IF reader.expect = Take(n)
                 THEN [reader |-> NewReader, result |-> "string", text |-> text]
                 ELSE [reader |-> [text |-> text, expect |-> reader.expect - Take(n),
                                   started |-> TRUE],
                       result |-> "more", text |-> <<>>]
    BY <1>1, <1>2, <1>4, <1>6, Zenon DEF push, w
  <2> HIDE DEF text
  <2>4. CASE n <= CHUNK
    <3>1. Take(n) = n /\ pushed = [reader |-> NewReader, result |-> "string", text |-> text]
      BY <2>1, <2>2, <2>3, <2>4
    <3> QED BY <2>1, <2>2, <2>4, <3>1 DEF n, w
  <2>5. CASE n > CHUNK
    <3>1. Take(n) = CHUNK /\ n # CHUNK
      BY <1>1, <2>2, <2>5
    <3>2. pushed = [reader |-> [text |-> text, expect |-> n - CHUNK, started |-> TRUE],
                    result |-> "more", text |-> <<>>]
      BY <2>1, <2>3, <3>1, Zenon
    <3> QED BY <2>1, <2>2, <2>5, <3>1, <3>2 DEF n, w
  <2>6. n <= CHUNK \/ n > CHUNK
    BY <1>1
  <2> QED BY <2>4, <2>5, <2>6
<1> QED BY <1>5, <1>6

\* From the f-th word on: the first packet of a string, and then those that follow.
Joins(words, f) ==
  /\ f \in 1 .. Len(words) /\ words[f] \in 0 .. MAX_STRING
  /\ \A i \in f + 1 .. Len(words) :
       /\ words[f] - (i - f) * CHUNK \in 1 .. MAX_STRING
       /\ words[i] = words[f] - (i - f) * CHUNK + CONT_BIT

\* The bytes in the packets from the f-th on.
Room(words, f) == (Len(words) - f + 1) * CHUNK

\* What a reader has of the words, and what the last of them made of it: nothing yet,
\* an error, a part of a string or the whole of one.
Pushed(reader, words, last) ==
  /\ words \in Seq(Int)
  /\ \/ Len(words) = 0 /\ reader = NewReader /\ last.result = "more"
     \/ last.result \in {"Refused", "Protocol"}
     \/ /\ last.result = "more" /\ reader.started = TRUE /\ reader.text \in Seq(Nat)
        /\ \E f \in 1 .. Len(words) :
             /\ Joins(words, f) /\ Len(reader.text) = Room(words, f)
             /\ words[f] > Room(words, f) /\ reader.expect = words[f] - Room(words, f)
     \/ /\ last.result = "string" /\ reader = NewReader
        /\ \E f \in 1 .. Len(words) :
             Joins(words, f) /\ Len(last.text) = words[f] /\ words[f] <= Room(words, f)

\* One packet more, of any kind, at any time.
LEMMA PushedNext ==
  ASSUME NEW reader, NEW words, NEW last, Pushed(reader, words, last),
         last.result \in {"more", "string"}, NEW packet \in Packets,
         NEW pushed, pushed = push(reader, packet)
  PROVE  Pushed(pushed.reader, Append(words, packet.word), pushed)
<1> DEFINE w == packet.word
           now == Append(words, w)
           n == Len(words)
<1>1. /\ CHUNK \in Nat /\ CHUNK >= 1 /\ MAX_STRING \in Nat /\ CONT_BIT = MAX_STRING + 1
  BY StringAssumption DEF CONT_BIT
<1>2. w \in -1 .. 2 * CONT_BIT - 1 /\ w \in Int
  BY <1>1 DEF Packets
<1>3. n \in Nat /\ words \in Seq(Int) /\ \A i \in 1 .. n : words[i] \in Int
  BY LenProperties, ElementOfSeq DEF Pushed
<1>4. /\ now \in Seq(Int) /\ Len(now) = n + 1 /\ now[n + 1] = w
      /\ \A i \in 1 .. n : now[i] = words[i]
  BY <1>2, <1>3, AppendProperties
<1> HIDE DEF now, w, n
<1>5. CASE w < 0
  <2>1. pushed.result = "Refused"
    <3>1. w < 0 /\ ~(w >= 0)
      BY <1>2, <1>5
    <3>2. pushed = [reader |-> reader, result |-> "Refused", text |-> <<>>]
      BY <3>1, Zenon DEF push, w
    <3> QED BY <3>2
  <2>2. Pushed(pushed.reader, now, pushed)
    BY <1>4, <2>1 DEF Pushed
  <2> QED BY <2>2 DEF now, w
<1>6. CASE w \in 0 .. MAX_STRING
  <2>1. Joins(now, n + 1) /\ Room(now, n + 1) = CHUNK /\ n + 1 \in 1 .. Len(now)
    <3>1. n + 1 \in 1 .. Len(now) /\ \A i : i \notin (n + 1) + 1 .. Len(now)
      BY <1>3, <1>4
    <3>2. (Len(now) - (n + 1) + 1) * CHUNK = CHUNK
      BY <1>1, <1>3, <1>4
    <3> QED BY <1>4, <1>6, <3>1, <3>2 DEF Joins, Room
  <2>2. \/ /\ w <= CHUNK /\ pushed.result = "string" /\ pushed.reader = NewReader
           /\ Len(pushed.text) = w
        \/ /\ w > CHUNK /\ pushed.result = "more"
           /\ pushed.reader.started = TRUE /\ pushed.reader.expect = w - CHUNK
           /\ pushed.reader.text \in Seq(Nat) /\ Len(pushed.reader.text) = CHUNK
    BY <1>6, FirstPacket DEF w
  <2>3. Pushed(pushed.reader, now, pushed)
    BY <1>4, <2>1, <2>2, Zenon DEF Pushed
  <2> QED BY <2>3 DEF now, w
<1>7. CASE w \in CONT_BIT .. 2 * CONT_BIT - 1
  <2> DEFINE r == w - CONT_BIT
  <2>0. r \in 0 .. MAX_STRING /\ w = r + CONT_BIT
    BY <1>1, <1>2, <1>7
  <2>1. ASSUME pushed.result = "Protocol"
        PROVE  Pushed(pushed.reader, now, pushed)
    BY <1>4, <2>1 DEF Pushed
  <2>2. CASE reader = NewReader
    <3>1. reader.text \in Seq(Nat) /\ reader.expect \in Nat /\ ~reader.started
      BY <2>2, EmptySeq DEF NewReader
    <3>2. pushed.result = "Protocol"
      BY <1>7, <3>1, LaterPacket DEF w
    <3>3. Pushed(pushed.reader, now, pushed)
      BY <2>1, <3>2
    <3> QED BY <3>3 DEF now, w
  <2>3. CASE reader # NewReader
    <3>1. reader.started = TRUE /\ reader.text \in Seq(Nat)
      BY <2>3 DEF Pushed
    <3>2. PICK f \in 1 .. n : /\ Joins(words, f) /\ Len(reader.text) = Room(words, f)
                              /\ words[f] > Room(words, f)
                              /\ reader.expect = words[f] - Room(words, f)
      BY <2>3 DEF Pushed, n
    <3>3. words[f] \in 0 .. MAX_STRING /\ now[f] = words[f] /\ f \in 1 .. n + 1
      BY <1>3, <1>4, <3>2 DEF Joins
    <3>4. Room(words, f) \in Nat /\ Room(now, f) = Room(words, f) + CHUNK
          /\ Room(words, f) = ((n + 1) - f) * CHUNK
      <4>1. n - f + 1 \in Nat /\ (n + 1) - f + 1 = (n - f + 1) + 1 /\ (n + 1) - f = n - f + 1
        BY <1>3
      <4>2. \A k, c \in Nat : k * c \in Nat /\ (k + 1) * c = k * c + c
        OBVIOUS
      <4>3. Room(words, f) = (n - f + 1) * CHUNK /\ Room(now, f) = ((n + 1) - f + 1) * CHUNK
        BY <1>4 DEF Room, n
      <4> HIDE DEF r
      <4> QED BY <1>1, <4>1, <4>2, <4>3
    <3>5. reader.expect \in Nat /\ reader.expect > 0
      BY <3>2, <3>3, <3>4
    <3>6. \/ pushed.result = "Protocol"
          \/ /\ reader.started /\ reader.expect = r /\ r <= CHUNK
             /\ pushed.result = "string" /\ pushed.reader = NewReader
             /\ Len(pushed.text) = Len(reader.text) + r
          \/ /\ reader.started /\ reader.expect = r /\ r > CHUNK
             /\ pushed.result = "more"
             /\ pushed.reader.started = TRUE /\ pushed.reader.expect = r - CHUNK
             /\ pushed.reader.text \in Seq(Nat)
             /\ Len(pushed.reader.text) = Len(reader.text) + CHUNK
      BY <1>7, <3>1, <3>5, LaterPacket DEF w
    <3> HIDE DEF r
    <3>7. ASSUME reader.expect = r
          PROVE  Joins(now, f)
      <4>1. now[f] \in 0 .. MAX_STRING /\ f \in 1 .. Len(now)
        BY <1>4, <3>3
      <4>2. ASSUME NEW i \in f + 1 .. n + 1
            PROVE  /\ now[f] - (i - f) * CHUNK \in 1 .. MAX_STRING
                   /\ now[i] = now[f] - (i - f) * CHUNK + CONT_BIT
        <5>1. i \in f + 1 .. n \/ i = n + 1
          BY <1>3
        <5>2. CASE i \in f + 1 .. n
          <6>1. i \in 1 .. n
            BY <1>3, <5>2
          <6> QED BY <1>4, <3>2, <3>3, <5>2, <6>1 DEF Joins, n
        <5>3. CASE i = n + 1
          <6>1. (i - f) * CHUNK = Room(words, f)
            BY <3>4, <5>3
          <6>2. now[f] - Room(words, f) = r /\ r > 0
            BY <3>2, <3>3, <3>5, <3>7
          <6> QED BY <1>4, <2>0, <5>3, <6>1, <6>2
        <5> QED BY <5>1, <5>2, <5>3
      <4> QED BY <1>4, <4>1, <4>2, Zenon DEF Joins
    <3>8. CASE reader.expect = r /\ pushed.result = "string"
      <4>1. Len(pushed.text) = now[f] /\ now[f] <= Room(now, f)
        BY <1>1, <2>0, <3>2, <3>3, <3>4, <3>6, <3>8
      <4>2. pushed.reader = NewReader /\ f \in 1 .. Len(now)
        BY <1>4, <3>3, <3>6, <3>8
      <4>3. Pushed(pushed.reader, now, pushed)
        BY <1>4, <3>7, <3>8, <4>1, <4>2, Zenon DEF Pushed
      <4> QED BY <4>3 DEF now, w
    <3>9. CASE reader.expect = r /\ pushed.result = "more"
      <4>1. /\ now[f] > Room(now, f) /\ pushed.reader.expect = now[f] - Room(now, f)
            /\ Len(pushed.reader.text) = Room(now, f)
        <5>1. /\ r > CHUNK /\ pushed.reader.expect = r - CHUNK
              /\ Len(pushed.reader.text) = Len(reader.text) + CHUNK
          BY <3>6, <3>9
        <5>2. r = now[f] - Room(words, f) /\ now[f] \in Nat /\ r \in Nat
          BY <2>0, <3>2, <3>3, <3>9
        <5>3. \A k, c, room \in Nat : k > c /\ k = now[f] - room =>
                now[f] > room + c /\ k - c = now[f] - (room + c)
          BY <5>2
        <5> QED BY <1>1, <3>2, <3>4, <5>1, <5>2, <5>3
      <4>2. /\ pushed.reader.started = TRUE /\ pushed.reader.text \in Seq(Nat)
            /\ f \in 1 .. Len(now)
        BY <1>4, <3>3, <3>6, <3>9
      <4>3. Pushed(pushed.reader, now, pushed)
        BY <1>4, <3>7, <3>9, <4>1, <4>2, Zenon DEF Pushed
      <4> QED BY <4>3 DEF now, w
    <3>10. CASE pushed.result = "Protocol"
      <4>1. Pushed(pushed.reader, now, pushed)
        BY <2>1, <3>10
      <4> QED BY <4>1 DEF now, w
    <3> QED BY <3>6, <3>8, <3>9, <3>10
  <2> QED BY <2>2, <2>3
<1>8. w < 0 \/ w \in 0 .. MAX_STRING \/ w \in CONT_BIT .. 2 * CONT_BIT - 1
  BY <1>1, <1>2
<1> QED BY <1>5, <1>6, <1>7, <1>8

\* So many packets, the last of which is needed, are those of a string.
LEMMA CountIs ==
  ASSUME NEW n \in Nat, NEW k \in Nat \ {0}, n <= k * CHUNK, k = 1 \/ n > (k - 1) * CHUNK
  PROVE  PacketCount(n) = k
<1> DEFINE q == (n + CHUNK - 1) \div CHUNK
<1>1. CHUNK \in Nat /\ CHUNK >= 1
  BY StringAssumption
<1>2. CASE n = 0
  <2>1. k = 1
    <3>1. (k - 1) * CHUNK >= 0
      BY <1>1
    <3> QED BY <1>1, <1>2, <3>1
  <2> QED BY <1>2, <2>1 DEF PacketCount
<1>3. CASE n # 0
  <2>1. q \in Nat /\ q * CHUNK <= n + CHUNK - 1 /\ n + CHUNK - 1 < q * CHUNK + CHUNK
    BY <1>1, <1>3
  <2>2. PacketCount(n) = q
    BY <1>3 DEF PacketCount
  <2> HIDE DEF q
  <2>3. n > (k - 1) * CHUNK
    BY <1>1, <1>3
  <2>4. ASSUME q > k
        PROVE  FALSE
    <3>1. q * CHUNK >= (k + 1) * CHUNK
      BY <1>1, <2>1, <2>4
    <3> QED BY <1>1, <2>1, <3>1
  <2>5. ASSUME q < k
        PROVE  FALSE
    <3>1. (q + 1) * CHUNK <= k * CHUNK /\ (k - 1) * CHUNK >= q * CHUNK
      BY <1>1, <2>1, <2>5
    <3> QED BY <1>1, <2>1, <2>3, <3>1
  <2> QED BY <2>1, <2>2, <2>4, <2>5
<1> QED BY <1>2, <1>3

\* The words of the packets of a string.
LEMMA WordsAre ==
  ASSUME NEW text \in Seq(Nat), NEW size \in 0 .. MAX_STRING, Len(text) = size
  PROVE  LET packets == string_packets(text)
         IN  /\ DOMAIN packets = 1 .. PacketCount(size)
             /\ \A i \in 1 .. PacketCount(size) :
                  packets[i].word = Remaining(size - (i - 1) * CHUNK, i > 1)
<1>1. size \in Nat /\ MAX_STRING \in Nat /\ size <= MAX_STRING
  BY StringAssumption
<1>2. AtMost(Len(text), MAX_STRING) = size
  BY <1>1 DEF AtMost
<1>3. Len(CutShort(text)) = size
  <2>1. \A i \in 1 .. size : text[i] \in Nat
    BY ElementOfSeq
  <2>2. Len(SubSeq(text, 1, size)) = IF 1 <= size THEN size - 1 + 1 ELSE 0
    BY <1>1, <2>1, SubSeqProperties
  <2> QED BY <1>1, <1>2, <2>2 DEF CutShort
<1> DEFINE packets == string_packets(text)
           datum(i) == [j \in 1 .. CHUNK |->
                          IF (i - 1) * CHUNK + j <= Len(CutShort(text))
                          THEN CutShort(text)[(i - 1) * CHUNK + j] ELSE NoByte]
<1>4. packets = [i \in 1 .. PacketCount(size) |->
                   [word |-> Remaining(size - (i - 1) * CHUNK, i > 1), data |-> datum(i)]]
  BY <1>3, Zenon DEF string_packets
<1> HIDE DEF packets, datum
<1>5. /\ DOMAIN packets = 1 .. PacketCount(size)
      /\ \A i \in 1 .. PacketCount(size) :
           packets[i].word = Remaining(size - (i - 1) * CHUNK, i > 1)
  BY <1>4
<1> QED BY <1>5 DEF packets

\* The words from the last first packet on are those of the packets of a string that
\* long.
Announced(words, last) ==
  LET first == Sets!Max({i \in DOMAIN words : words[i] \in 0 .. MAX_STRING})
      packets == string_packets([i \in 1 .. words[first] |-> NoByte])
  IN  /\ Len(last.text) = words[first]
      /\ SubSeq(words, first, Len(words)) = [i \in DOMAIN packets |-> packets[i].word]

\* The words that made a whole string are those of its packets.
LEMMA JoinedIs ==
  ASSUME NEW reader, NEW words, NEW last, Pushed(reader, words, last),
         words # <<>>, last.result = "string"
  PROVE  Announced(words, last)
<1> DEFINE n == Len(words)
           firsts == {i \in DOMAIN words : words[i] \in 0 .. MAX_STRING}
<1>1. /\ CHUNK \in Nat /\ CHUNK >= 1 /\ MAX_STRING \in Nat /\ CONT_BIT = MAX_STRING + 1
      /\ NoByte \in Nat
  BY StringAssumption DEF CONT_BIT
<1>2. /\ words \in Seq(Int) /\ n \in Nat /\ DOMAIN words = 1 .. n
      /\ \A i \in 1 .. n : words[i] \in Int
  BY LenProperties, ElementOfSeq DEF Pushed
<1>3. n # 0
  BY <1>2, EmptySeq, LenProperties
<1>4. PICK f \in 1 .. n : /\ Joins(words, f) /\ Len(last.text) = words[f]
                          /\ words[f] <= Room(words, f)
  BY <1>3 DEF Pushed
<1> DEFINE size == words[f]
           k == n - f + 1
           text == [i \in 1 .. size |-> NoByte]
           packets == string_packets(text)
<1>5. /\ size \in 0 .. MAX_STRING /\ size \in Nat /\ k \in Nat \ {0} /\ size <= k * CHUNK
  BY <1>1, <1>2, <1>4 DEF Joins, Room
<1>6. \A i \in f + 1 .. n : /\ size - (i - f) * CHUNK \in 1 .. MAX_STRING
                            /\ words[i] = size - (i - f) * CHUNK + CONT_BIT
  BY <1>4 DEF Joins
<1>7. Sets!Max(firsts) = f
  <2>1. f \in firsts
    BY <1>2, <1>5
  <2>2. \A i \in firsts : i \in 1 .. n /\ i <= f
    <3> SUFFICES ASSUME NEW i \in firsts PROVE i \in 1 .. n /\ i <= f
      OBVIOUS
    <3>1. i \in 1 .. n /\ words[i] \in 0 .. MAX_STRING
      BY <1>2
    <3>2. ASSUME i > f PROVE FALSE
      <4>1. i \in f + 1 .. n
        BY <3>1, <3>2
      <4>2. words[i] >= 1 + CONT_BIT
        <5>1. \A x \in 1 .. MAX_STRING : x + CONT_BIT >= 1 + CONT_BIT
          BY <1>1
        <5> QED BY <1>6, <4>1, <5>1
      <4> QED BY <1>1, <3>1, <4>2
    <3> QED BY <3>1, <3>2
  <2> HIDE DEF firsts
  <2>3. \A x \in firsts : (\A y \in firsts : x >= y) <=> x = f
    BY <1>2, <2>1, <2>2
  <2> QED BY <2>1, <2>3 DEF Sets!Max
<1> HIDE DEF firsts
<1>8. PacketCount(size) = k
  <2>1. ASSUME k # 1 PROVE size > (k - 1) * CHUNK
    <3>1. n \in f + 1 .. n /\ n - f = k - 1
      BY <1>2, <1>5, <2>1
    <3>2. size - (k - 1) * CHUNK \in 1 .. MAX_STRING
      BY <1>6, <3>1
    <3>3. (k - 1) * CHUNK \in Int
      BY <1>1, <1>5
    <3> HIDE DEF k, size
    <3> QED BY <1>5, <3>2, <3>3
  <2> HIDE DEF k, size
  <2> QED BY <1>5, <2>1, CountIs
<1>9. text \in Seq(Nat) /\ Len(text) = size
  <2>1. text \in [1 .. size -> Nat]
    BY <1>1
  <2> HIDE DEF text, size
  <2> QED BY <1>5, <2>1, ListIs
<1>10. /\ DOMAIN packets = 1 .. k
       /\ \A i \in 1 .. k : packets[i].word = Remaining(size - (i - 1) * CHUNK, i > 1)
  <2> HIDE DEF text, size, k
  <2> QED BY <1>5, <1>8, <1>9, WordsAre
<1>11. ASSUME NEW i \in 1 .. k
       PROVE  packets[i].word = words[f + i - 1]
  <2>1. CASE i = 1
    <3>1. (i - 1) * CHUNK = 0 /\ ~(i > 1) /\ f + i - 1 = f
      BY <1>1, <2>1
    <3>2. Remaining(size - (i - 1) * CHUNK, i > 1) = size
      BY <1>5, <3>1 DEF Remaining
    <3> HIDE DEF packets
    <3> QED BY <1>10, <3>1, <3>2
  <2>2. CASE i # 1
    <3> DEFINE rest == size - (i - 1) * CHUNK
    <3>1. f + i - 1 \in f + 1 .. n /\ (f + i - 1) - f = i - 1 /\ (i > 1) = TRUE
      BY <1>2, <2>2
    <3>2. rest \in 1 .. MAX_STRING /\ words[f + i - 1] = rest + CONT_BIT
      BY <1>6, <3>1
    <3> HIDE DEF rest, packets, size
    <3>3. rest \in Int /\ CONT_BIT \in Nat \ {0} /\ rest \in 0 .. CONT_BIT - 1
      BY <1>1, <3>2
    <3>4. rest \div CONT_BIT = 0
      BY <3>3
    <3>5. Remaining(rest, i > 1) = rest + CONT_BIT
      BY <3>1, <3>4 DEF Remaining
    <3> QED BY <1>10, <3>2, <3>5 DEF rest
  <2> QED BY <2>1, <2>2
<1> DEFINE read == SubSeq(words, f, n)
           sent == [i \in DOMAIN packets |-> packets[i].word]
<1>12. read = sent
  <2>1. read \in Seq(Int) /\ Len(read) = k /\ \A i \in 1 .. k : read[i] = words[f + i - 1]
    <3>1. f \in Int /\ n \in Int /\ f <= n /\ \A i \in f .. n : words[i] \in Int
      BY <1>2
    <3> QED BY <3>1, SubSeqProperties
  <2>2. sent = [i \in 1 .. k |-> packets[i].word] /\ \A i \in 1 .. k : packets[i].word \in Int
    <3>1. \A i \in 1 .. k : f + i - 1 \in 1 .. n
      BY <1>2
    <3> HIDE DEF packets, k
    <3> QED BY <1>2, <1>10, <1>11, <3>1
  <2> HIDE DEF read, packets, k
  <2>3. sent \in [1 .. k -> Int] /\ \A i \in 1 .. k : sent[i] = packets[i].word
    BY <2>2
  <2> HIDE DEF sent
  <2>4. sent \in Seq(Int) /\ Len(sent) = k
    BY <1>5, <2>3, ListIs
  <2> QED BY <1>11, <2>1, <2>3, <2>4, SeqEqual
<1> QED BY <1>4, <1>7, <1>12, Zenon DEF Announced, firsts

(***************************************************************************)
(* Descriptors.                                                             *)
(***************************************************************************)

\* Every item there may be, one that is passed over with them.
AnyItem ==
  {item \in [tag : Main \cup {"Page", "Minimum", "Maximum", "Usage", "From", "To", "Other"},
             size : {0, 1, 2, 4}, value : Nat] : item.value < NumbersOf(item.size)}

\* The greatest of some numbers is the one that all the others come up to at most.
LEMMA MaxIs ==
  ASSUME NEW S \in SUBSET Int, NEW m \in S, \A x \in S : x <= m
  PROVE  Sets!Max(S) = m
<1>1. \A x \in S : (\A y \in S : x >= y) <=> x = m
  OBVIOUS
<1> QED BY <1>1 DEF Sets!Max

\* The least of some numbers is the one that all the others come down to at most.
LEMMA MinIs ==
  ASSUME NEW S \in SUBSET Int, NEW m \in S, \A x \in S : m <= x
  PROVE  Sets!Min(S) = m
<1>1. \A x \in S : (\A y \in S : x <= y) <=> x = m
  OBVIOUS
<1> QED BY <1>1 DEF Sets!Min

\* The greatest of nought alone.
LEMMA MaxOfNought == Sets!Max({0}) = 0
<1>1. {0} \in SUBSET Int /\ 0 \in {0} /\ \A x \in {0} : x <= 0
  OBVIOUS
<1> QED BY <1>1, MaxIs

\* Of numbers up to some other there is a greatest.
LEMMA MaxOf ==
  ASSUME NEW n \in Nat, NEW S \in SUBSET (0 .. n), S # {}
  PROVE  Sets!Max(S) \in S /\ \A x \in S : x <= Sets!Max(S)
<1> DEFINE T == {n - x : x \in S}
<1>1. T \in SUBSET Nat /\ T # {}
  <2>1. \A x \in S : n - x \in Nat
    OBVIOUS
  <2> QED BY <2>1
<1>2. PICK t \in T : \A k \in T : t <= k
  BY <1>1, LeastOf
<1>3. PICK m \in S : t = n - m
  BY <1>2
<1>4. ASSUME NEW x \in S
      PROVE  x <= m
  <2>1. n - x \in T
    OBVIOUS
  <2>2. n - m <= n - x
    BY <1>2, <1>3, <2>1
  <2>3. x \in Int /\ m \in Int
    OBVIOUS
  <2> QED BY <2>2, <2>3
<1>5. Sets!Max(S) = m
  <2>1. S \in SUBSET Int
    OBVIOUS
  <2> QED BY <1>4, <2>1, MaxIs
<1> QED BY <1>4, <1>5

\* One number more, above all the others.
LEMMA MoreAbove ==
  ASSUME NEW S \in SUBSET Nat, NEW n \in Nat, \A x \in S : x < n
  PROVE  /\ Sets!Max(S \cup {n}) = n
         /\ Sets!Min(S \cup {n}) = IF S = {} THEN n ELSE Sets!Min(S)
<1>1. Sets!Max(S \cup {n}) = n
  BY MaxIs
<1>2. CASE S = {}
  <2>1. Sets!Min({n}) = n
    BY MinIs
  <2> QED BY <1>1, <1>2, <2>1
<1>3. CASE S # {}
  <2>1. PICK m \in S : \A k \in S : m <= k
    BY <1>3, LeastOf
  <2>2. Sets!Min(S) = m
    BY <2>1, MinIs
  <2>3. m \in S \cup {n} /\ \A x \in S \cup {n} : m <= x
    BY <2>1
  <2>4. Sets!Min(S \cup {n}) = m
    <3> DEFINE T == S \cup {n}
    <3>1. T \in SUBSET Int
      OBVIOUS
    <3> HIDE DEF T
    <3> QED BY <2>3, <3>1, MinIs DEF T
  <2> QED BY <1>1, <1>3, <2>2, <2>4
<1> QED BY <1>2, <1>3

\* The items of a kind among one more.
LEMMA TaggedNext ==
  ASSUME NEW items, NEW tag, NEW n \in Nat
  PROVE  Tagged(items, tag, 1 .. n + 1)
           = Tagged(items, tag, 1 .. n) \cup (IF items[n + 1].tag = tag THEN {n + 1} ELSE {})
<1>1. 1 .. n + 1 = (1 .. n) \cup {n + 1}
  OBVIOUS
<1> QED BY <1>1 DEF Tagged

\* The last item of a kind among one more, and among none.
LEMMA LastNext ==
  ASSUME NEW items, NEW tag, NEW n \in Nat
  PROVE  /\ LastOf(items, tag, 0) = 0
         /\ LastOf(items, tag, n + 1)
              = IF items[n + 1].tag = tag THEN n + 1 ELSE LastOf(items, tag, n)
<1>1. LastOf(items, tag, 0) = 0
  <2>1. {0} \cup Tagged(items, tag, 1 .. 0) = {0}
    BY DEF Tagged
  <2>2. Sets!Max({0}) = 0
    BY MaxOfNought
  <2> QED BY <2>1, <2>2 DEF LastOf
<1>2. Tagged(items, tag, 1 .. n + 1)
        = Tagged(items, tag, 1 .. n) \cup (IF items[n + 1].tag = tag THEN {n + 1} ELSE {})
  BY TaggedNext
<1>3. CASE items[n + 1].tag = tag
  <2> DEFINE S == {0} \cup Tagged(items, tag, 1 .. n)
  <2>1. S \in SUBSET Nat /\ \A x \in S : x < n + 1
    <3>1. Tagged(items, tag, 1 .. n) \in SUBSET (1 .. n)
      BY DEF Tagged
    <3>2. \A x \in {0} \cup (1 .. n) : x \in Nat /\ x < n + 1
      OBVIOUS
    <3> QED BY <3>1, <3>2
  <2>2. {0} \cup Tagged(items, tag, 1 .. n + 1) = S \cup {n + 1}
    BY <1>3, <1>2
  <2> HIDE DEF S
  <2>3. Sets!Max(S \cup {n + 1}) = n + 1
    BY <2>1, MoreAbove
  <2>4. LastOf(items, tag, n + 1) = n + 1
    BY <2>2, <2>3, Zenon DEF LastOf
  <2> QED BY <1>1, <1>3, <2>4
<1>4. CASE items[n + 1].tag # tag
  <2>1. Tagged(items, tag, 1 .. n + 1) = Tagged(items, tag, 1 .. n)
    BY <1>4, <1>2
  <2>2. LastOf(items, tag, n + 1) = LastOf(items, tag, n)
    BY <2>1, Zenon DEF LastOf
  <2> QED BY <1>1, <1>4, <2>2
<1> QED BY <1>3, <1>4

\* What is in force after one item more.
LEMMA InForceNext ==
  ASSUME NEW items, NEW n \in Nat
  PROVE  LET item == items[n + 1]
         IN  /\ PageAt(items, n + 1) = IF item.tag = "Page" THEN item.value % WORD
                                       ELSE PageAt(items, n)
             /\ MinAt(items, n + 1) = IF item.tag = "Minimum" THEN Signed(item)
                                      ELSE MinAt(items, n)
             /\ MaxAt(items, n + 1) =
                  IF item.tag # "Maximum" THEN MaxAt(items, n)
                  ELSE IF MinAt(items, n) < 0 \/ item.size = 4 THEN Signed(item)
                  ELSE item.value
<1>1. n + 1 # 0
  OBVIOUS
<1>2. \A tag : LastOf(items, tag, n + 1)
                = IF items[n + 1].tag = tag THEN n + 1 ELSE LastOf(items, tag, n)
  BY LastNext
<1>3. PageAt(items, n + 1) = IF items[n + 1].tag = "Page" THEN items[n + 1].value % WORD
                             ELSE PageAt(items, n)
  <2>1. CASE items[n + 1].tag = "Page"
    <3>1. LastOf(items, "Page", n + 1) = n + 1
      BY <1>2, <2>1
    <3> QED BY <1>1, <2>1, <3>1 DEF PageAt
  <2>2. CASE items[n + 1].tag # "Page"
    <3>1. LastOf(items, "Page", n + 1) = LastOf(items, "Page", n)
      BY <1>2, <2>2
    <3> QED BY <2>2, <3>1 DEF PageAt
  <2> QED BY <2>1, <2>2
<1>4. MinAt(items, n + 1) = IF items[n + 1].tag = "Minimum" THEN Signed(items[n + 1])
                            ELSE MinAt(items, n)
  <2>1. CASE items[n + 1].tag = "Minimum"
    <3>1. LastOf(items, "Minimum", n + 1) = n + 1
      BY <1>2, <2>1
    <3> QED BY <1>1, <2>1, <3>1 DEF MinAt
  <2>2. CASE items[n + 1].tag # "Minimum"
    <3>1. LastOf(items, "Minimum", n + 1) = LastOf(items, "Minimum", n)
      BY <1>2, <2>2
    <3> QED BY <2>2, <3>1 DEF MinAt
  <2> QED BY <2>1, <2>2
<1>5. MaxAt(items, n + 1) =
        IF items[n + 1].tag # "Maximum" THEN MaxAt(items, n)
        ELSE IF MinAt(items, n) < 0 \/ items[n + 1].size = 4 THEN Signed(items[n + 1])
        ELSE items[n + 1].value
  <2>1. CASE items[n + 1].tag = "Maximum"
    <3>1. LastOf(items, "Maximum", n + 1) = n + 1
      BY <1>2, <2>1
    <3>2. MinAt(items, n + 1) = MinAt(items, n)
      BY <1>4, <2>1
    <3> QED BY <1>1, <2>1, <3>1, <3>2 DEF MaxAt
  <2>2. CASE items[n + 1].tag # "Maximum"
    <3>1. LastOf(items, "Maximum", n + 1) = LastOf(items, "Maximum", n)
      BY <1>2, <2>2
    <3> QED BY <2>2, <3>1 DEF MaxAt
  <2> QED BY <2>1, <2>2
<1> QED BY <1>3, <1>4, <1>5

\* The items that are for the next main item, after one item more.
LEMMA LocalNext ==
  ASSUME NEW items, NEW n \in Nat
  PROVE  /\ LocalTo(items, 1) = {}
         /\ LocalTo(items, n + 1) \in SUBSET (1 .. n)
         /\ LocalTo(items, n + 2) = IF items[n + 1].tag \in Main THEN {}
                                    ELSE LocalTo(items, n + 1) \cup {n + 1}
<1>1. LocalTo(items, 1) = {} /\ LocalTo(items, n + 1) \in SUBSET (1 .. n)
  BY DEF LocalTo
<1>2. (n + 2) - 1 = n + 1 /\ (n + 1) - 1 = n /\ n + 1 \in 1 .. n + 1
  OBVIOUS
<1>3. LocalTo(items, n + 2) = {j \in 1 .. n + 1 : \A k \in j .. n + 1 : items[k].tag \notin Main}
  BY <1>2 DEF LocalTo
<1>4. LocalTo(items, n + 1) = {j \in 1 .. n : \A k \in j .. n : items[k].tag \notin Main}
  BY <1>2 DEF LocalTo
<1>5. CASE items[n + 1].tag \in Main
  <2>1. \A j \in 1 .. n + 1 : n + 1 \in j .. n + 1
    OBVIOUS
  <2> QED BY <1>1, <1>3, <1>5, <2>1
<1>6. CASE items[n + 1].tag \notin Main
  <2>1. \A j \in 1 .. n + 1 : j .. n + 1 = (j .. n) \cup {n + 1}
    OBVIOUS
  <2>2. \A j \in 1 .. n + 1 : (\A k \in j .. n + 1 : items[k].tag \notin Main)
                               <=> (\A k \in j .. n : items[k].tag \notin Main)
    BY <1>6, <2>1
  <2>3. \A k \in n + 1 .. n : FALSE
    OBVIOUS
  <2>4. 1 .. n + 1 = (1 .. n) \cup {n + 1}
    OBVIOUS
  <2> QED BY <1>1, <1>3, <1>4, <1>6, <2>2, <2>3, <2>4
<1> QED BY <1>1, <1>5, <1>6

\* The local items of a kind, after one item more.
LEMMA LocalTagged ==
  ASSUME NEW items, NEW tag, NEW n \in Nat, tag \notin Main
  PROVE  /\ Tagged(items, tag, LocalTo(items, n + 1)) \in SUBSET Nat
         /\ \A j \in Tagged(items, tag, LocalTo(items, n + 1)) : j < n + 1
         /\ Tagged(items, tag, LocalTo(items, n + 2)) =
              IF items[n + 1].tag \in Main THEN {}
              ELSE Tagged(items, tag, LocalTo(items, n + 1))
                     \cup (IF items[n + 1].tag = tag THEN {n + 1} ELSE {})
<1>1. LocalTo(items, n + 1) \in SUBSET (1 .. n)
  BY LocalNext
<1>2. LocalTo(items, n + 2) = IF items[n + 1].tag \in Main THEN {}
                              ELSE LocalTo(items, n + 1) \cup {n + 1}
  BY LocalNext
<1>3. Tagged(items, tag, LocalTo(items, n + 1)) \in SUBSET (1 .. n)
  BY <1>1 DEF Tagged
<1>4. Tagged(items, tag, LocalTo(items, n + 2)) =
        IF items[n + 1].tag \in Main THEN {}
        ELSE Tagged(items, tag, LocalTo(items, n + 1))
               \cup (IF items[n + 1].tag = tag THEN {n + 1} ELSE {})
  BY <1>2 DEF Tagged
<1> QED BY <1>3, <1>4

\* The usages that are for the i-th item, each with its page.
UsageAt(items, j) ==
  IF items[j].size = 4 THEN <<items[j].value \div WORD, items[j].value % WORD>>
  ELSE <<PageAt(items, j), items[j].value>>

UsagesAt(items, i) == {UsageAt(items, j) : j \in Tagged(items, "Usage", LocalTo(items, i))}

\* The inputs for an axis up to the n-th item, and the range that the last has.
InputsFor(items, n, u) ==
  {i \in Tagged(items, "Input", 1 .. n) : ForAxis(items, i, u) /\ MinAt(items, i) < MaxAt(items, i)}

RangeAt(items, n, u) ==
  LET i == Sets!Max({0} \cup InputsFor(items, n, u))
  IN  IF i = 0 THEN <<>> ELSE <<MinAt(items, i), MaxAt(items, i)>>

\* What has been read with the n-th item, told from the whole of the items.
ReadAt(items, n) ==
  [page |-> PageAt(items, n), min |-> MinAt(items, n), max |-> MaxAt(items, n),
   usages |-> UsagesAt(items, n + 1), span |-> SpanAt(items, n + 1),
   ranges |-> [u \in AxisUsages |-> RangeAt(items, n, u)]]

\* The usages after one item more.
LEMMA UsagesNext ==
  ASSUME NEW items, NEW n \in Nat
  PROVE  /\ UsagesAt(items, 1) = {}
         /\ UsagesAt(items, n + 2) =
              IF items[n + 1].tag \in Main THEN {}
              ELSE IF items[n + 1].tag = "Usage" THEN UsagesAt(items, n + 1) \cup {UsageAt(items, n + 1)}
              ELSE UsagesAt(items, n + 1)
<1> DEFINE here == Tagged(items, "Usage", LocalTo(items, n + 1))
           more == Tagged(items, "Usage", LocalTo(items, n + 2))
<1>1. UsagesAt(items, 1) = {}
  <2>1. LocalTo(items, 1) = {}
    BY LocalNext
  <2> QED BY <2>1 DEF UsagesAt, Tagged
<1>2. more = IF items[n + 1].tag \in Main THEN {}
             ELSE here \cup (IF items[n + 1].tag = "Usage" THEN {n + 1} ELSE {})
  <2>1. "Usage" \notin Main
    BY DEF Main
  <2> QED BY <2>1, LocalTagged
<1>3. /\ UsagesAt(items, n + 1) = {UsageAt(items, j) : j \in here}
      /\ UsagesAt(items, n + 2) = {UsageAt(items, j) : j \in more}
  BY DEF UsagesAt
<1> HIDE DEF here, more
<1>4. CASE items[n + 1].tag \in Main
  BY <1>1, <1>2, <1>3, <1>4
<1>5. CASE items[n + 1].tag \notin Main /\ items[n + 1].tag = "Usage"
  <2>1. more = here \cup {n + 1}
    BY <1>2, <1>5
  <2>2. {UsageAt(items, j) : j \in here \cup {n + 1}}
          = {UsageAt(items, j) : j \in here} \cup {UsageAt(items, n + 1)}
    OBVIOUS
  <2> QED BY <1>1, <1>3, <1>5, <2>1, <2>2
<1>6. CASE items[n + 1].tag \notin Main /\ items[n + 1].tag # "Usage"
  <2>1. more = here
    BY <1>2, <1>6
  <2> QED BY <1>1, <1>3, <1>6, <2>1
<1> QED BY <1>4, <1>5, <1>6

\* The span after one item more.
LEMMA SpanNext ==
  ASSUME NEW items, NEW n \in Nat
  PROVE  LET tag == items[n + 1].tag
             value == items[n + 1].value
             span == SpanAt(items, n + 1)
         IN  /\ SpanAt(items, 1) = <<>>
             /\ SpanAt(items, n + 2) =
                  IF tag \in Main THEN <<>>
                  ELSE IF tag = "From" THEN <<value, IF span = <<>> THEN value ELSE span[2]>>
                  ELSE IF tag = "To" THEN <<IF span = <<>> THEN value ELSE span[1], value>>
                  ELSE span
<1> DEFINE tag == items[n + 1].tag
           value == items[n + 1].value
           Froms(i) == Tagged(items, "From", LocalTo(items, i))
           Tos(i) == Tagged(items, "To", LocalTo(items, i))
           Span(F, T) ==
             IF F \cup T = {} THEN <<>>
             ELSE <<items[IF F # {} THEN Sets!Max(F) ELSE Sets!Min(T)].value,
                    items[IF T # {} THEN Sets!Max(T) ELSE Sets!Min(F)].value>>
           F == Froms(n + 1)
           T == Tos(n + 1)
<1>1. \A i : SpanAt(items, i) = Span(Froms(i), Tos(i))
  BY Zenon DEF SpanAt
<1>2. SpanAt(items, 1) = <<>>
  <2>1. LocalTo(items, 1) = {}
    BY LocalNext
  <2>2. Froms(1) = {} /\ Tos(1) = {}
    BY <2>1 DEF Tagged
  <2>3. Span({}, {}) = <<>>
    OBVIOUS
  <2> HIDE DEF Froms, Tos, Span
  <2> QED BY <1>1, <2>2, <2>3
<1>3. /\ F \in SUBSET Nat /\ \A j \in F : j < n + 1
      /\ Froms(n + 2) = IF tag \in Main THEN {} ELSE F \cup (IF tag = "From" THEN {n + 1} ELSE {})
  <2>1. "From" \notin Main
    BY DEF Main
  <2> QED BY <2>1, LocalTagged
<1>4. /\ T \in SUBSET Nat /\ \A j \in T : j < n + 1
      /\ Tos(n + 2) = IF tag \in Main THEN {} ELSE T \cup (IF tag = "To" THEN {n + 1} ELSE {})
  <2>1. "To" \notin Main
    BY DEF Main
  <2> QED BY <2>1, LocalTagged
<1>5. \A S \in SUBSET Nat : (\A j \in S : j < n + 1) =>
         /\ Sets!Max(S \cup {n + 1}) = n + 1
         /\ Sets!Min(S \cup {n + 1}) = IF S = {} THEN n + 1 ELSE Sets!Min(S)
  BY MoreAbove
<1>6. /\ Sets!Max(F \cup {n + 1}) = n + 1 /\ Sets!Max(T \cup {n + 1}) = n + 1
      /\ Sets!Min(F \cup {n + 1}) = IF F = {} THEN n + 1 ELSE Sets!Min(F)
      /\ Sets!Min(T \cup {n + 1}) = IF T = {} THEN n + 1 ELSE Sets!Min(T)
  BY <1>3, <1>4, <1>5
<1> HIDE DEF F, T, Froms, Tos
<1>7. /\ SpanAt(items, n + 1) = Span(F, T)
      /\ SpanAt(items, n + 2) = Span(Froms(n + 2), Tos(n + 2))
  BY <1>1, Zenon DEF F, T
<1>8. Span(F, T) = <<>> <=> F \cup T = {}
  OBVIOUS
<1>9. CASE tag \in Main
  <2>1. Froms(n + 2) = {} /\ Tos(n + 2) = {}
    BY <1>3, <1>4, <1>9
  <2> QED BY <1>2, <1>7, <1>9, <2>1
<1>10. CASE tag \notin Main /\ tag = "From"
  <2>1. Froms(n + 2) = F \cup {n + 1} /\ Tos(n + 2) = T
    BY <1>3, <1>4, <1>10
  <2>2. SpanAt(items, n + 2) = <<value, IF F \cup T = {} THEN value ELSE Span(F, T)[2]>>
    <3>1. F \cup {n + 1} # {} /\ (F \cup {n + 1}) \cup T # {}
      OBVIOUS
    <3>2. Span(F \cup {n + 1}, T)
            = <<value, items[IF T # {} THEN Sets!Max(T) ELSE Sets!Min(F \cup {n + 1})].value>>
      BY <1>6, <3>1
    <3> QED BY <1>6, <1>7, <2>1, <3>2
  <2> QED BY <1>2, <1>7, <1>8, <1>10, <2>2
<1>11. CASE tag \notin Main /\ tag = "To"
  <2>1. Froms(n + 2) = F /\ Tos(n + 2) = T \cup {n + 1}
    BY <1>3, <1>4, <1>11
  <2>2. SpanAt(items, n + 2) = <<IF F \cup T = {} THEN value ELSE Span(F, T)[1], value>>
    <3>1. T \cup {n + 1} # {} /\ F \cup (T \cup {n + 1}) # {}
      OBVIOUS
    <3>2. Span(F, T \cup {n + 1})
            = <<items[IF F # {} THEN Sets!Max(F) ELSE Sets!Min(T \cup {n + 1})].value, value>>
      BY <1>6, <3>1
    <3> QED BY <1>6, <1>7, <2>1, <3>2
  <2> QED BY <1>2, <1>7, <1>8, <1>11, <2>2
<1>12. CASE tag \notin Main /\ tag \notin {"From", "To"}
  <2>1. Froms(n + 2) = F /\ Tos(n + 2) = T
    BY <1>3, <1>4, <1>12
  <2> QED BY <1>2, <1>7, <1>12, <2>1
<1> QED BY <1>9, <1>10, <1>11, <1>12

\* A usage of four bytes is a page and a usage.
LEMMA WordsOf ==
  /\ WORD \in Nat /\ WORD > 63
  /\ \A u \in AxisUsages : \A n \in Int :
       /\ (n \div WORD = 0 /\ n % WORD = u) <=> n = u
       /\ (n \div WORD = USAGE_PAGE /\ n % WORD = u) <=> n = USAGE_PAGE * WORD + u
<1> DEFINE w == WORD
<1>1. w \in Nat /\ w > 63
  <2>1. \A b \in Nat : b >= 8 => b * b \in Nat /\ b * b >= 8 * b
    OBVIOUS
  <2> QED BY <2>1, DescriptorAssumption DEF WORD
<1> HIDE DEF w
<1>2. ASSUME NEW u \in 48 .. 53, NEW n \in Int
      PROVE  /\ (n \div w = 0 /\ n % w = u) <=> n = u
             /\ (n \div w = 1 /\ n % w = u) <=> n = w + u
  BY <1>1
<1>3. AxisUsages = 48 .. 53 /\ USAGE_PAGE = 1 /\ USAGE_PAGE * w = w
  BY <1>1 DEF AxisUsages, FirstAxis, USAGE_PAGE
<1> QED BY <1>1, <1>2, <1>3 DEF w

\* A usage is an axis's if it names it under the page of its time or with its page.
LEMMA UsageForAxis ==
  ASSUME NEW items, NEW j, items[j] \in AnyItem, NEW u \in AxisUsages
  PROVE  UsageAt(items, j) = <<USAGE_PAGE, u>> <=>
           \/ items[j].size < 4 /\ items[j].value = u /\ PageAt(items, j) = USAGE_PAGE
           \/ items[j].size = 4 /\ items[j].value = USAGE_PAGE * WORD + u
<1>1. items[j].size \in {0, 1, 2, 4} /\ items[j].value \in Nat
  BY DEF AnyItem
<1>2. CASE items[j].size = 4
  <2>1. UsageAt(items, j) = <<items[j].value \div WORD, items[j].value % WORD>>
    BY <1>2 DEF UsageAt
  <2>2. (items[j].value \div WORD = USAGE_PAGE /\ items[j].value % WORD = u)
          <=> items[j].value = USAGE_PAGE * WORD + u
    BY <1>1, WordsOf
  <2> QED BY <1>2, <2>1, <2>2
<1>3. CASE items[j].size # 4
  <2>1. UsageAt(items, j) = <<PageAt(items, j), items[j].value>>
    BY <1>3 DEF UsageAt
  <2> QED BY <1>1, <1>3, <2>1
<1> QED BY <1>2, <1>3

\* A span is for an axis if that is in it, under the page of the input or with its page.
LEMMA SpanForAxis ==
  ASSUME NEW p, NEW u \in AxisUsages
  PROVE  InSpan(p, u) <=>
           /\ p.span # <<>> /\ p.page \in {0, USAGE_PAGE}
           /\ \/ p.page = USAGE_PAGE /\ u \in p.span[1] .. p.span[2]
              \/ USAGE_PAGE * WORD + u \in p.span[1] .. p.span[2]
<1> DEFINE q == p.page
           S == p.span[1] .. p.span[2]
<1>1. ASSUME NEW n \in Int
      PROVE  (n % WORD = u /\ {q, n \div WORD} \in {{0, USAGE_PAGE}, {USAGE_PAGE}})
               <=> q \in {0, USAGE_PAGE}
                   /\ ((q = USAGE_PAGE /\ n = u) \/ n = USAGE_PAGE * WORD + u)
  <2> DEFINE h == n \div WORD
  <2>1. {q, h} \in {{0, 1}, {1}} <=> (q = 1 /\ h = 0) \/ (q \in {0, 1} /\ h = 1)
    <3>1. {q, h} = {0, 1} <=> (q = 0 /\ h = 1) \/ (q = 1 /\ h = 0)
      OBVIOUS
    <3>2. {q, h} = {1} <=> q = 1 /\ h = 1
      OBVIOUS
    <3> QED BY <3>1, <3>2
  <2>2. /\ (h = 0 /\ n % WORD = u) <=> n = u
        /\ (h = 1 /\ n % WORD = u) <=> n = USAGE_PAGE * WORD + u
    BY <1>1, WordsOf DEF USAGE_PAGE
  <2> HIDE DEF h
  <2>3. (n % WORD = u /\ {q, h} \in {{0, 1}, {1}})
          <=> q \in {0, 1} /\ ((q = 1 /\ n = u) \/ n = USAGE_PAGE * WORD + u)
    BY <2>1, <2>2
  <2> QED BY <2>3 DEF h, USAGE_PAGE
<1>2. S \in SUBSET Int
  OBVIOUS
<1>3. InSpan(p, u) <=>
        p.span # <<>> /\ \E n \in S :
          n % WORD = u /\ {q, n \div WORD} \in {{0, USAGE_PAGE}, {USAGE_PAGE}}
  BY DEF InSpan
<1> HIDE DEF q, S
<1>4. (\E n \in S : n % WORD = u /\ {q, n \div WORD} \in {{0, USAGE_PAGE}, {USAGE_PAGE}})
        <=> q \in {0, USAGE_PAGE}
            /\ ((q = USAGE_PAGE /\ u \in S) \/ USAGE_PAGE * WORD + u \in S)
  BY <1>1, <1>2
<1> QED BY <1>3, <1>4 DEF q, S

\* An input is for the axes that ForAxis says.
LEMMA InputForAxis ==
  ASSUME NEW items \in Seq(AnyItem), NEW n \in Nat, n < Len(items),
         items[n + 1].tag = "Input", NEW u \in AxisUsages
  PROVE  (<<USAGE_PAGE, u>> \in ReadAt(items, n).usages \/ InSpan(ReadAt(items, n), u))
           <=> ForAxis(items, n + 1, u)
<1> DEFINE p == ReadAt(items, n)
           here == Tagged(items, "Usage", LocalTo(items, n + 1))
<1>1. /\ p.usages = UsagesAt(items, n + 1) /\ p.span = SpanAt(items, n + 1)
      /\ p.page = PageAt(items, n)
  BY DEF ReadAt
<1>2. PageAt(items, n + 1) = PageAt(items, n)
  BY InForceNext
<1>3. \A j \in here : items[j] \in AnyItem
  <2>1. LocalTo(items, n + 1) \in SUBSET (1 .. n)
    BY LocalNext
  <2>2. \A j \in 1 .. n : items[j] \in AnyItem
    BY ElementOfSeq
  <2> QED BY <2>1, <2>2 DEF Tagged
<1> HIDE DEF p
<1>4. <<USAGE_PAGE, u>> \in p.usages <=>
        \E j \in here :
          \/ items[j].size < 4 /\ items[j].value = u /\ PageAt(items, j) = USAGE_PAGE
          \/ items[j].size = 4 /\ items[j].value = USAGE_PAGE * WORD + u
  <2>1. <<USAGE_PAGE, u>> \in p.usages <=> \E j \in here : UsageAt(items, j) = <<USAGE_PAGE, u>>
    BY <1>1 DEF UsagesAt
  <2> HIDE DEF here
  <2> QED BY <1>3, <2>1, UsageForAxis
<1>5. InSpan(p, u) <=>
        /\ p.span # <<>> /\ p.page \in {0, USAGE_PAGE}
        /\ \/ p.page = USAGE_PAGE /\ u \in p.span[1] .. p.span[2]
           \/ USAGE_PAGE * WORD + u \in p.span[1] .. p.span[2]
  BY SpanForAxis
<1>6. ForAxis(items, n + 1, u) <=>
        \/ \E j \in here :
             \/ items[j].size < 4 /\ items[j].value = u /\ PageAt(items, j) = USAGE_PAGE
             \/ items[j].size = 4 /\ items[j].value = USAGE_PAGE * WORD + u
        \/ /\ p.span # <<>> /\ p.page \in {0, USAGE_PAGE}
           /\ \/ p.page = USAGE_PAGE /\ u \in p.span[1] .. p.span[2]
              \/ USAGE_PAGE * WORD + u \in p.span[1] .. p.span[2]
  BY <1>1, <1>2, Zenon DEF ForAxis
<1> HIDE DEF here
<1> QED BY <1>4, <1>5, <1>6 DEF p

\* The ranges after one item more.
LEMMA RangesNext ==
  ASSUME NEW items \in Seq(AnyItem), NEW n \in Nat, n < Len(items), NEW u \in AxisUsages
  PROVE  RangeAt(items, n + 1, u) =
           IF items[n + 1].tag = "Input" THEN Ranged(ReadAt(items, n))[u]
           ELSE RangeAt(items, n, u)
<1> DEFINE p == ReadAt(items, n)
<1>1. InputsFor(items, n, u) \in SUBSET (1 .. n)
  BY DEF InputsFor, Tagged
<1>2. Tagged(items, "Input", 1 .. n + 1)
        = Tagged(items, "Input", 1 .. n) \cup (IF items[n + 1].tag = "Input" THEN {n + 1} ELSE {})
  BY TaggedNext
<1>3. CASE items[n + 1].tag # "Input"
  <2>1. InputsFor(items, n + 1, u) = InputsFor(items, n, u)
    BY <1>2, <1>3 DEF InputsFor
  <2>2. RangeAt(items, n + 1, u) = RangeAt(items, n, u)
    BY <2>1, Zenon DEF RangeAt
  <2> QED BY <1>3, <2>2
<1>4. CASE items[n + 1].tag = "Input"
  <2> DEFINE takes == ForAxis(items, n + 1, u) /\ MinAt(items, n + 1) < MaxAt(items, n + 1)
  <2>1. MinAt(items, n + 1) = MinAt(items, n) /\ MaxAt(items, n + 1) = MaxAt(items, n)
    BY <1>4, InForceNext
  <2>2. InputsFor(items, n + 1, u) = InputsFor(items, n, u) \cup (IF takes THEN {n + 1} ELSE {})
    BY <1>2, <1>4 DEF InputsFor
  <2>3. p.min = MinAt(items, n) /\ p.max = MaxAt(items, n) /\ p.ranges[u] = RangeAt(items, n, u)
    BY DEF ReadAt
  <2>4. Ranged(p)[u] = IF p.min < p.max /\ (<<USAGE_PAGE, u>> \in p.usages \/ InSpan(p, u))
                       THEN <<p.min, p.max>> ELSE p.ranges[u]
    BY DEF Ranged
  <2>5. (<<USAGE_PAGE, u>> \in p.usages \/ InSpan(p, u)) <=> ForAxis(items, n + 1, u)
    BY <1>4, InputForAxis
  <2> HIDE DEF p
  <2>6. Ranged(p)[u] = IF takes THEN <<MinAt(items, n + 1), MaxAt(items, n + 1)>>
                       ELSE RangeAt(items, n, u)
    BY <2>1, <2>3, <2>4, <2>5
  <2> HIDE DEF takes
  <2>7. CASE takes
    <3> DEFINE S == {0} \cup InputsFor(items, n, u)
    <3>1. S \in SUBSET Nat /\ \A x \in S : x < n + 1
      <4>1. \A x \in {0} \cup (1 .. n) : x \in Nat /\ x < n + 1
        OBVIOUS
      <4> QED BY <1>1, <4>1
    <3>2. {0} \cup InputsFor(items, n + 1, u) = S \cup {n + 1}
      BY <2>2, <2>7
    <3> HIDE DEF S
    <3>3. Sets!Max({0} \cup InputsFor(items, n + 1, u)) = n + 1
      BY <3>1, <3>2, MoreAbove
    <3>4. n + 1 # 0
      OBVIOUS
    <3>5. RangeAt(items, n + 1, u) = <<MinAt(items, n + 1), MaxAt(items, n + 1)>>
      BY <3>3, <3>4 DEF RangeAt
    <3> QED BY <1>4, <2>6, <2>7, <3>5 DEF p
  <2>8. CASE ~takes
    <3>1. InputsFor(items, n + 1, u) = InputsFor(items, n, u)
      BY <2>2, <2>8
    <3>2. RangeAt(items, n + 1, u) = RangeAt(items, n, u)
      BY <3>1, Zenon DEF RangeAt
    <3> QED BY <1>4, <2>6, <2>8, <3>2 DEF p
  <2> QED BY <2>7, <2>8
<1> QED BY <1>3, <1>4

\* What an item changes, and what it leaves.
LEMMA ParsedIs ==
  ASSUME NEW p, NEW item,
         p = [page |-> p.page, min |-> p.min, max |-> p.max, usages |-> p.usages,
              span |-> p.span, ranges |-> p.ranges]
  PROVE  Parsed(p, item) =
           [page |-> IF item.tag = "Page" THEN item.value % WORD ELSE p.page,
            min |-> IF item.tag = "Minimum" THEN Signed(item) ELSE p.min,
            max |-> IF item.tag = "Maximum" THEN Maximum(p, item) ELSE p.max,
            usages |-> IF item.tag \in Main THEN {}
                       ELSE IF item.tag = "Usage" THEN p.usages \cup {Usage(p, item)}
                       ELSE p.usages,
            span |-> IF item.tag \in Main THEN <<>>
                     ELSE IF item.tag = "From"
                     THEN <<item.value, IF p.span = <<>> THEN item.value ELSE p.span[2]>>
                     ELSE IF item.tag = "To"
                     THEN <<IF p.span = <<>> THEN item.value ELSE p.span[1], item.value>>
                     ELSE p.span,
            ranges |-> IF item.tag = "Input" THEN Ranged(p) ELSE p.ranges]
<1> DEFINE tag == item.tag
<1>1. CASE tag = "Page"
  <2>1. /\ tag \notin Main
        /\ Parsed(p, item) = [p EXCEPT !.page = item.value % WORD]
    BY <1>1 DEF Parsed, Main
  <2> QED BY <1>1, <2>1
<1>2. CASE tag = "Minimum"
  <2>1. /\ tag \notin Main
        /\ Parsed(p, item) = [p EXCEPT !.min = Signed(item)]
    BY <1>2 DEF Parsed, Main
  <2> QED BY <1>2, <2>1
<1>3. CASE tag = "Maximum"
  <2>1. /\ tag \notin Main
        /\ Parsed(p, item) = [p EXCEPT !.max = Maximum(p, item)]
    BY <1>3 DEF Parsed, Main
  <2> QED BY <1>3, <2>1
<1>4. CASE tag = "Usage"
  <2>1. /\ tag \notin Main
        /\ Parsed(p, item) = [p EXCEPT !.usages = @ \cup {Usage(p, item)}]
    BY <1>4 DEF Parsed, Main
  <2> QED BY <1>4, <2>1
<1>5. CASE tag = "From"
  <2>1. /\ tag \notin Main
        /\ Parsed(p, item) = [p EXCEPT !.span = <<item.value, IF @ = <<>> THEN item.value ELSE @[2]>>]
    BY <1>5 DEF Parsed, Main
  <2> QED BY <1>5, <2>1
<1>6. CASE tag = "To"
  <2>1. /\ tag \notin Main
        /\ Parsed(p, item) = [p EXCEPT !.span = <<IF @ = <<>> THEN item.value ELSE @[1], item.value>>]
    BY <1>6 DEF Parsed, Main
  <2> QED BY <1>6, <2>1
<1>7. CASE tag = "Input"
  <2>1. /\ tag \in Main
        /\ Parsed(p, item) = [p EXCEPT !.usages = {}, !.span = <<>>, !.ranges = Ranged(p)]
    BY <1>7 DEF Parsed, Main
  <2> QED BY <1>7, <2>1
<1>8. CASE tag \in Main \ {"Input"}
  <2>1. /\ tag \notin {"Page", "Minimum", "Maximum", "Usage", "From", "To", "Input"}
        /\ Parsed(p, item) = [p EXCEPT !.usages = {}, !.span = <<>>]
    BY <1>8 DEF Parsed, Main
  <2> QED BY <1>8, <2>1
<1>9. CASE tag \notin Main \cup {"Page", "Minimum", "Maximum", "Usage", "From", "To"}
  <2>1. tag # "Input" /\ Parsed(p, item) = p
    BY <1>9 DEF Parsed, Main
  <2> QED BY <1>9, <2>1
<1> QED BY <1>1, <1>2, <1>3, <1>4, <1>5, <1>6, <1>7, <1>8, <1>9

\* Before the first item.
LEMMA NothingRead ==
  ASSUME NEW items
  PROVE  ReadAt(items, 0) = Nothing
<1>1. ASSUME NEW u \in AxisUsages
      PROVE  RangeAt(items, 0, u) = <<>>
  <2>1. {0} \cup InputsFor(items, 0, u) = {0}
    BY DEF InputsFor, Tagged
  <2> QED BY <2>1, MaxOfNought DEF RangeAt
<1>2. PageAt(items, 0) = 0 /\ MinAt(items, 0) = 0 /\ MaxAt(items, 0) = 0
  <2>1. \A tag : LastOf(items, tag, 0) = 0
    BY LastNext
  <2> QED BY <2>1 DEF PageAt, MinAt, MaxAt
<1>3. UsagesAt(items, 1) = {} /\ SpanAt(items, 1) = <<>> /\ 0 + 1 = 1
  <2>1. \A n \in Nat : UsagesAt(items, 1) = {}
    BY UsagesNext
  <2>2. \A n \in Nat : SpanAt(items, 1) = <<>>
    BY SpanNext
  <2> QED BY <2>1, <2>2
<1>4. [u \in AxisUsages |-> RangeAt(items, 0, u)] = [u \in AxisUsages |-> <<>>]
  BY <1>1
<1> QED BY <1>2, <1>3, <1>4 DEF ReadAt, Nothing

\* What has been read by then is what one item more is read after.
LEMMA ReadNext ==
  ASSUME NEW items \in Seq(AnyItem), NEW n \in Nat, n < Len(items)
  PROVE  ReadAt(items, n + 1) = Parsed(ReadAt(items, n), items[n + 1])
<1> DEFINE p == ReadAt(items, n)
           q == ReadAt(items, n + 1)
           item == items[n + 1]
           told == [u \in AxisUsages |-> RangeAt(items, n, u)]
           after == [u \in AxisUsages |-> RangeAt(items, n + 1, u)]
<1>1. \A u \in AxisUsages : RangeAt(items, n + 1, u) =
        IF item.tag = "Input" THEN Ranged(p)[u] ELSE RangeAt(items, n, u)
  BY RangesNext
<1>2. item.tag = "Input" => after = Ranged(p)
  <2>1. Ranged(p) = [u \in AxisUsages |-> Ranged(p)[u]]
    BY DEF Ranged
  <2> QED BY <1>1, <2>1
<1>3. item.tag # "Input" => after = told
  BY <1>1
<1>4. (n + 1) + 1 = n + 2
  OBVIOUS
<1> DEFINE Read(i, usages, span, ranges) ==
             [page |-> PageAt(items, i), min |-> MinAt(items, i), max |-> MaxAt(items, i),
              usages |-> usages, span |-> span, ranges |-> ranges]
<1>5. /\ p = Read(n, UsagesAt(items, n + 1), SpanAt(items, n + 1), told)
      /\ q = Read(n + 1, UsagesAt(items, n + 2), SpanAt(items, n + 2), after)
  BY <1>4 DEF ReadAt
<1>6. /\ PageAt(items, n + 1) = IF item.tag = "Page" THEN item.value % WORD ELSE PageAt(items, n)
      /\ MinAt(items, n + 1) = IF item.tag = "Minimum" THEN Signed(item) ELSE MinAt(items, n)
      /\ MaxAt(items, n + 1) = IF item.tag # "Maximum" THEN MaxAt(items, n)
                               ELSE IF MinAt(items, n) < 0 \/ item.size = 4 THEN Signed(item)
                               ELSE item.value
  BY InForceNext
<1>7. UsagesAt(items, n + 2) =
        IF item.tag \in Main THEN {}
        ELSE IF item.tag = "Usage" THEN UsagesAt(items, n + 1) \cup {UsageAt(items, n + 1)}
        ELSE UsagesAt(items, n + 1)
  BY UsagesNext
<1> DEFINE span == SpanAt(items, n + 1)
           value == item.value
<1>8. SpanAt(items, n + 2) =
        IF item.tag \in Main THEN <<>>
        ELSE IF item.tag = "From" THEN <<value, IF span = <<>> THEN value ELSE span[2]>>
        ELSE IF item.tag = "To" THEN <<IF span = <<>> THEN value ELSE span[1], value>>
        ELSE span
  BY SpanNext
<1>9. item.tag = "Usage" => UsageAt(items, n + 1) = Usage(p, item)
  <2>1. p.page = PageAt(items, n)
    BY <1>5
  <2> QED BY <1>6, <2>1 DEF UsageAt, Usage
<1>10. Maximum(p, item) = IF MinAt(items, n) < 0 \/ item.size = 4 THEN Signed(item) ELSE item.value
  <2>1. p.min = MinAt(items, n)
    BY <1>5
  <2> QED BY <2>1 DEF Maximum
<1> HIDE DEF q, item, after
<1>11. Parsed(p, item) = q
  <2>1. /\ p.page = PageAt(items, n) /\ p.min = MinAt(items, n) /\ p.max = MaxAt(items, n)
        /\ p.usages = UsagesAt(items, n + 1) /\ p.span = span /\ p.ranges = told
    BY <1>5
  <2>2. p = [page |-> p.page, min |-> p.min, max |-> p.max, usages |-> p.usages,
             span |-> p.span, ranges |-> p.ranges]
    BY <1>5, <2>1
  <2> HIDE DEF p, told, span
  <2>3. after = IF item.tag = "Input" THEN Ranged(p) ELSE p.ranges
    BY <1>2, <1>3, <2>1
  <2>4. UsagesAt(items, n + 2) = IF item.tag \in Main THEN {}
                                 ELSE IF item.tag = "Usage" THEN p.usages \cup {Usage(p, item)}
                                 ELSE p.usages
    BY <1>7, <1>9, <2>1
  <2>5. SpanAt(items, n + 2) =
          IF item.tag \in Main THEN <<>>
          ELSE IF item.tag = "From"
          THEN <<item.value, IF p.span = <<>> THEN item.value ELSE p.span[2]>>
          ELSE IF item.tag = "To"
          THEN <<IF p.span = <<>> THEN item.value ELSE p.span[1], item.value>>
          ELSE p.span
    BY <1>8, <2>1
  <2>6. MaxAt(items, n + 1) = IF item.tag = "Maximum" THEN Maximum(p, item) ELSE p.max
    BY <1>6, <1>10, <2>1
  <2>7. /\ PageAt(items, n + 1) = IF item.tag = "Page" THEN item.value % WORD ELSE p.page
        /\ MinAt(items, n + 1) = IF item.tag = "Minimum" THEN Signed(item) ELSE p.min
    BY <1>6, <2>1
  <2>8. q = [page |-> PageAt(items, n + 1), min |-> MinAt(items, n + 1),
             max |-> MaxAt(items, n + 1), usages |-> UsagesAt(items, n + 2),
             span |-> SpanAt(items, n + 2), ranges |-> after]
    BY <1>5
  <2> QED BY <2>2, <2>3, <2>4, <2>5, <2>6, <2>7, <2>8, ParsedIs, Zenon
<1> QED BY <1>11 DEF q, item

\* What axis_ranges has read with each item.
LEMMA AsReadIs ==
  ASSUME NEW items \in Seq(AnyItem)
  PROVE  \A n \in 0 .. Len(items) : AsRead(items)[n] = ReadAt(items, n)
<1> DEFINE top == Len(items)
           Step(f, n) == IF n = 0 THEN Nothing ELSE Parsed(f[n - 1], items[n])
           g == [n \in 0 .. top |-> ReadAt(items, n)]
<1>1. top \in Nat
  BY LenProperties
<1>2. /\ ReadAt(items, 0) = Nothing
      /\ \A n \in 0 .. top : n # 0 => ReadAt(items, n) = Parsed(ReadAt(items, n - 1), items[n])
  <2>1. \A n \in Nat : n < top => ReadAt(items, n + 1) = Parsed(ReadAt(items, n), items[n + 1])
    BY ReadNext
  <2>2. ASSUME NEW n \in 0 .. top, n # 0
        PROVE  ReadAt(items, n) = Parsed(ReadAt(items, n - 1), items[n])
    <3>1. n - 1 \in Nat /\ n - 1 < top /\ (n - 1) + 1 = n
      BY <1>1, <2>2
    <3> QED BY <2>1, <3>1
  <2>3. ReadAt(items, 0) = Nothing
    BY NothingRead
  <2> QED BY <2>2, <2>3
<1>3. g = [n \in 0 .. top |-> Step(g, n)]
  <2>1. ASSUME NEW n \in 0 .. top
        PROVE  g[n] = Step(g, n)
    <3>1. n # 0 => n - 1 \in 0 .. top
      BY <1>1
    <3> QED BY <1>2, <3>1
  <2> HIDE DEF Step
  <2> QED BY <2>1
<1> HIDE DEF g
<1>4. AsRead(items) = CHOOSE f : f = [n \in 0 .. top |-> Step(f, n)]
  BY Zenon DEF AsRead
<1>5. AsRead(items) = [n \in 0 .. top |-> Step(AsRead(items), n)]
  BY <1>3, <1>4, Zenon
<1> DEFINE f == AsRead(items)
           T == {n \in 0 .. top : f[n] # ReadAt(items, n)}
<1>6. f = [n \in 0 .. top |-> Step(f, n)]
  BY <1>5
<1> HIDE DEF f
<1>7. f[0] = Nothing /\ \A n \in 0 .. top : n # 0 => f[n] = Parsed(f[n - 1], items[n])
  BY <1>1, <1>6
<1>8. SUFFICES ASSUME T # {} PROVE FALSE
  BY DEF f
<1>9. PICK m \in T : \A k \in T : m <= k
  <2>1. T \in SUBSET Nat
    OBVIOUS
  <2> QED BY <1>8, <2>1, LeastOf
<1>10. m # 0 /\ m - 1 \in 0 .. top /\ m - 1 \notin T
  BY <1>1, <1>2, <1>7, <1>9
<1>11. f[m - 1] = ReadAt(items, m - 1)
  BY <1>10
<1> QED BY <1>2, <1>7, <1>9, <1>10, <1>11

\* Every axis of every descriptor is read as the whole of the items declares.
LEMMA AxesAsDeclared ==
  ASSUME NEW items \in Seq(AnyItem), NEW u \in AxisUsages
  PROVE  LET i == LastInput(items, u)
             used == RangeUsed(axis_ranges(items), u)
         IN  /\ used = IF i = 0 THEN RANGE ELSE <<MinAt(items, i), MaxAt(items, i)>>
             /\ used[1] < used[2]
<1> DEFINE top == Len(items)
           i == LastInput(items, u)
           used == RangeUsed(axis_ranges(items), u)
           S == {0} \cup InputsFor(items, top, u)
<1>1. top \in Nat /\ DOMAIN items = 1 .. top
  BY LenProperties
<1>2. axis_ranges(items)[u] = RangeAt(items, top, u)
  <2>1. AsRead(items)[top] = ReadAt(items, top)
    BY <1>1, AsReadIs
  <2> QED BY <2>1 DEF axis_ranges, ReadAt
<1>3. i = Sets!Max(S)
  BY <1>1, Zenon DEF LastInput, InputsFor
<1>4. i \in S
  <2>1. InputsFor(items, top, u) \in SUBSET (1 .. top)
    BY DEF InputsFor, Tagged
  <2>2. S \in SUBSET (0 .. top) /\ S # {}
    BY <1>1, <2>1
  <2> HIDE DEF S
  <2> QED BY <1>1, <1>3, <2>2, MaxOf
<1>5. axis_ranges(items)[u] = IF i = 0 THEN <<>> ELSE <<MinAt(items, i), MaxAt(items, i)>>
  BY <1>2, <1>3, Zenon DEF RangeAt
<1>6. RANGE # <<>> /\ RANGE[1] < RANGE[2]
  BY DEF RANGE
<1> HIDE DEF i
<1>7. CASE i = 0
  <2>1. used = RANGE
    BY <1>5, <1>7 DEF RangeUsed
  <2> QED BY <1>6, <1>7, <2>1 DEF i
<1>8. CASE i # 0
  <2>1. i \in InputsFor(items, top, u)
    BY <1>4, <1>8
  <2>2. MinAt(items, i) < MaxAt(items, i)
    BY <2>1 DEF InputsFor
  <2>3. used = <<MinAt(items, i), MaxAt(items, i)>>
    BY <1>5, <1>8 DEF RangeUsed
  <2> QED BY <1>8, <2>2, <2>3 DEF i
<1> QED BY <1>7, <1>8

\* A word has room for what the run's items and RANGE need, and an i32 for four times a
\* word.
LEMMA Widths ==
  /\ BYTE \in Nat /\ BYTE >= 16 /\ WORD \in Nat /\ WORD >= 256 /\ WORD >= BYTE
  /\ WORD * WORD \in Nat /\ WORD * WORD >= 65536
  /\ MAX_I32 \in Nat /\ 4 * WORD <= MAX_I32
<1>1. BYTE \in Nat /\ BYTE >= 16
  BY DescriptorAssumption, ConversionsAssumption
<1>2. BYTE * BYTE \in Nat /\ BYTE * BYTE >= 16 * BYTE
  BY <1>1
<1>3. WORD \in Nat /\ WORD >= 256 /\ WORD >= BYTE
  BY <1>1, <1>2 DEF WORD
<1>4. WORD * WORD \in Nat /\ WORD * WORD >= 256 * WORD
  BY <1>3
<1>5. MAX_I32 \in Nat /\ 2 * (MAX_I32 + 1) = WORD * WORD
  BY WidthAssumption, ConversionsAssumption
<1> QED BY <1>1, <1>3, <1>4, <1>5

\* The numbers of an item that has less than four bytes.
LEMMA NarrowItem ==
  ASSUME NEW item \in AnyItem, item.size < 4
  PROVE  Signed(item) \in -WORD .. WORD - 1 /\ item.value \in 0 .. WORD - 1
<1> DEFINE n == NumbersOf(item.size)
<1>1. item.size \in {0, 1, 2, 4} /\ item.value \in Nat /\ item.value < n
  BY DEF AnyItem
<1>2. n \in {1, BYTE, WORD}
  BY <1>1 DEF NumbersOf
<1>3. Signed(item) \in {item.value, item.value - n}
  BY DEF Signed
<1> HIDE DEF n
<1> QED BY <1>1, <1>2, <1>3, Widths

\* The last item of a kind is one of that kind, if there is any.
LEMMA LastIs ==
  ASSUME NEW items, NEW tag, NEW n \in Nat
  PROVE  LastOf(items, tag, n) \in {0} \cup Tagged(items, tag, 1 .. n)
<1> DEFINE S == {0} \cup Tagged(items, tag, 1 .. n)
<1>1. S \in SUBSET (0 .. n) /\ S # {}
  <2>1. Tagged(items, tag, 1 .. n) \in SUBSET (1 .. n)
    BY DEF Tagged
  <2> QED BY <2>1
<1> HIDE DEF S
<1>2. Sets!Max(S) \in S
  BY <1>1, MaxOf
<1> QED BY <1>2 DEF S, LastOf

\* The ends in force are no wider than the items they are from.
LEMMA EndsNarrow ==
  ASSUME NEW items \in Seq(AnyItem), NEW i \in 1 .. Len(items),
         \A j \in DOMAIN items : items[j].tag \in {"Minimum", "Maximum"} => items[j].size < 4
  PROVE  MinAt(items, i) \in -WORD .. WORD - 1 /\ MaxAt(items, i) \in -WORD .. WORD - 1
<1>1. /\ Len(items) \in Nat /\ DOMAIN items = 1 .. Len(items)
      /\ \A j \in 1 .. Len(items) : items[j] \in AnyItem
  BY LenProperties, ElementOfSeq
<1>2. 0 \in -WORD .. WORD - 1
  BY Widths
<1>3. ASSUME NEW tag \in {"Minimum", "Maximum"}, LastOf(items, tag, i) # 0
      PROVE  LET item == items[LastOf(items, tag, i)]
             IN  Signed(item) \in -WORD .. WORD - 1 /\ item.value \in -WORD .. WORD - 1
  <2> DEFINE j == LastOf(items, tag, i)
  <2>1. j \in Tagged(items, tag, 1 .. i)
    BY <1>1, <1>3, LastIs
  <2>2. j \in 1 .. Len(items) /\ items[j].tag = tag
    BY <1>1, <2>1 DEF Tagged
  <2>3. items[j] \in AnyItem /\ items[j].size < 4
    BY <1>1, <2>2
  <2> HIDE DEF j
  <2>4. Signed(items[j]) \in -WORD .. WORD - 1 /\ items[j].value \in 0 .. WORD - 1
    BY <2>3, NarrowItem
  <2>5. items[j].value \in -WORD .. WORD - 1
    BY <2>4, Widths
  <2> QED BY <2>4, <2>5 DEF j
<1>4. MinAt(items, i) \in -WORD .. WORD - 1
  BY <1>2, <1>3 DEF MinAt
<1>5. MaxAt(items, i) \in -WORD .. WORD - 1
  BY <1>2, <1>3 DEF MaxAt
<1> QED BY <1>4, <1>5

\* So 32 bits hold what is subtracted, whichever range an axis is read with.
LEMMA AxesExact ==
  ASSUME NEW items \in Seq(AnyItem), NEW u \in AxisUsages,
         \A j \in DOMAIN items : items[j].tag \in {"Minimum", "Maximum"} => items[j].size < 4
  PROVE  LET used == RangeUsed(axis_ranges(items), u)
         IN  /\ \A value \in {-(WORD \div 2), WORD \div 2 - 1} :
                  Difference(value, used[1]) = value - used[1]
             /\ Difference(used[2], used[1]) = used[2] - used[1] /\ used[1] # used[2]
<1> DEFINE used == RangeUsed(axis_ranges(items), u)
           i == LastInput(items, u)
<1>1. /\ used = IF i = 0 THEN RANGE ELSE <<MinAt(items, i), MaxAt(items, i)>>
      /\ used[1] < used[2]
  BY AxesAsDeclared
<1>2. i \in 0 .. Len(items)
  <2>1. Len(items) \in Nat /\ DOMAIN items = 1 .. Len(items)
    BY LenProperties
  <2> DEFINE S == {0} \cup {k \in Tagged(items, "Input", DOMAIN items) :
                     ForAxis(items, k, u) /\ MinAt(items, k) < MaxAt(items, k)}
  <2>2. S \in SUBSET (0 .. Len(items)) /\ S # {}
    BY <2>1 DEF Tagged
  <2>3. i = Sets!Max(S)
    BY DEF LastInput
  <2> HIDE DEF S, i
  <2>4. i \in S
    BY <2>1, <2>2, <2>3, MaxOf
  <2> QED BY <2>2, <2>4
<1> HIDE DEF i, used
<1>3. used[1] \in -2 * WORD .. 2 * WORD /\ used[2] \in -2 * WORD .. 2 * WORD
  <2>1. CASE i = 0
    BY <1>1, <2>1, Widths DEF RANGE
  <2>2. CASE i # 0
    <3>1. i \in 1 .. Len(items)
      BY <1>2, <2>2, LenProperties
    <3>2. MinAt(items, i) \in -WORD .. WORD - 1 /\ MaxAt(items, i) \in -WORD .. WORD - 1
      BY <3>1, EndsNarrow
    <3>3. \A n \in -WORD .. WORD - 1 : n \in -2 * WORD .. 2 * WORD
      BY Widths
    <3> QED BY <1>1, <2>2, <3>2, <3>3
  <2> QED BY <2>1, <2>2
<1>4. \A a, b \in -2 * WORD .. 2 * WORD : a - b \in -(MAX_I32 + 1) .. MAX_I32
  BY Widths
<1>5. \A a, b \in -2 * WORD .. 2 * WORD : Difference(a, b) = a - b
  BY <1>4, WrappedIs DEF Difference
<1>6. /\ -(WORD \div 2) \in -2 * WORD .. 2 * WORD
      /\ WORD \div 2 - 1 \in -2 * WORD .. 2 * WORD
  BY Widths
<1>7. used[1] # used[2]
  BY <1>1, <1>3
<1> QED BY <1>3, <1>5, <1>6, <1>7 DEF used

\* The items of the run are some of them.
LEMMA ItemsAreSome ==
  /\ Items \subseteq AnyItem
  /\ FirstItems \subseteq Seq(AnyItem)
<1> DEFINE Tags == Main \cup {"Page", "Minimum", "Maximum", "Usage", "From", "To", "Other"}
<1>1. ASSUME NEW tag \in Tags, NEW size \in {1, 2, 4}, NEW value \in Nat,
             value < 16 \/ (size = 2 /\ value < 256) \/ (size = 4 /\ value < 65536)
      PROVE  Item(tag, size, value) \in AnyItem
  <2>1. value < NumbersOf(size)
    BY <1>1, Widths DEF NumbersOf
  <2> QED BY <2>1 DEF Item, AnyItem
<1>2. Items \subseteq AnyItem
  <2>1. Item("Minimum", 0, 0) \in AnyItem
    BY DEF Item, AnyItem, NumbersOf
  <2> QED BY <1>1, <2>1 DEF Items, Main
<1>3. FirstItems \subseteq Seq(AnyItem)
  <2> DEFINE a == Item("Page", 1, 1)
             b == Item("Maximum", 1, 7)
             c == Item("Usage", 2, 48)
  <2>1. a \in AnyItem /\ b \in AnyItem /\ c \in AnyItem
    BY <1>1 DEF Main
  <2> HIDE DEF a, b, c
  <2>2. <<a, b, c>> \in Seq(AnyItem) /\ <<>> \in Seq(AnyItem)
    BY <2>1
  <2> QED BY <2>2 DEF FirstItems, a, b, c
<1> QED BY <1>2, <1>3

(***************************************************************************)
(* The inputs, and what holds of each.                                      *)
(***************************************************************************)

AxisIs ==
  /\ input.kind = "axis"
  /\ input = [kind |-> "axis", range |-> input.range, value |-> input.value]
  /\ input.range \in Ranges /\ input.value \in input.range[1] .. input.range[2]

KeysIs ==
  /\ input.kind = "keys"
  /\ input = [kind |-> "keys", model |-> input.model, data |-> input.data, told |-> input.told]
  /\ input.model \in Models /\ KeysTold(input.model, input.data, input.told)

DescriptorIs ==
  /\ input.kind = "descriptor"
  /\ input = [kind |-> "descriptor", items |-> input.items, left |-> input.left]
  /\ input.items \in Seq(AnyItem)

WordIsI32 ==
  /\ input.kind = "word" /\ input = [kind |-> "word", word |-> input.word]
  /\ input.word \in I32

PacketsIs ==
  /\ input.kind = "packets"
  /\ input = [kind |-> "packets", reader |-> input.reader, words |-> input.words,
              last |-> input.last]
  /\ Pushed(input.reader, input.words, input.last)

InputIs == AxisIs \/ KeysIs \/ DescriptorIs \/ WordIsI32 \/ PacketsIs

\* Every input starts as one of these.
LEMMA InputInit == Init => InputIs
<1> SUFFICES ASSUME Init PROVE InputIs
  OBVIOUS
<1>1. ASSUME NEW r \in Ranges, input = [kind |-> "axis", range |-> r, value |-> r[1]]
      PROVE  AxisIs
  <2>1. r[1] \in r[1] .. r[2]
    BY RangesAre DEF IsRange
  <2> QED BY <1>1, <2>1 DEF AxisIs
<1>2. ASSUME NEW m \in SpaceMousePro \cup {Enterprise},
             input = [kind |-> "keys", model |-> m, data |-> <<>>, told |-> <<>>]
      PROVE  KeysIs
  <2>1. <<>> \in Seq(BOOLEAN) /\ <<>> \in Seq(Nat) /\ Len(<<>>) = 0
    BY EmptySeq
  <2>2. DOMAIN button_map(m) \subseteq Nat
    BY ModelNumbersAll DEF NumbersAll, Models
  <2>3. \A e : e \in Seq(BOOLEAN) /\ e \in Seq(Nat) /\ Len(e) = 0 => KeysTold(m, e, e)
    BY <2>2 DEF KeysTold
  <2>4. KeysTold(m, <<>>, <<>>)
    BY <2>1, <2>3
  <2>5. m \in Models
    BY DEF Models
  <2> QED BY <1>2, <2>4, <2>5 DEF KeysIs
<1>3. ASSUME NEW first \in FirstItems,
             input = [kind |-> "descriptor", items |-> first, left |-> MaxItems]
      PROVE  DescriptorIs
  BY <1>3, ItemsAreSome DEF DescriptorIs
<1>4. ASSUME input = [kind |-> "word", word |-> -HALF]
      PROVE  WordIsI32
  <2>1. -HALF \in I32
    BY SettingsAssumption DEF I32
  <2> QED BY <1>4, <2>1 DEF WordIsI32
<1>5. ASSUME input = [kind |-> "packets", reader |-> NewReader, words |-> <<>>,
                      last |-> [result |-> "more", text |-> <<>>]]
      PROVE  PacketsIs
  <2> DEFINE last == [result |-> "more", text |-> <<>>]
  <2>1. <<>> \in Seq(Int) /\ Len(<<>>) = 0 /\ last.result = "more"
    BY EmptySeq
  <2> HIDE DEF last
  <2>2. Pushed(NewReader, <<>>, last)
    BY <2>1 DEF Pushed
  <2> QED BY <1>5, <2>2 DEF PacketsIs, last
<1> QED BY <1>1, <1>2, <1>3, <1>4, <1>5 DEF Init, InputIs

\* No step makes anything else of it.
LEMMA InputNext == InputIs /\ [Next]_input => InputIs'
<1> SUFFICES ASSUME InputIs, [Next]_input PROVE InputIs'
  OBVIOUS
<1>1. CASE PushAxis
  <2>1. AxisIs
    BY <1>1 DEF PushAxis, InputIs, KeysIs, DescriptorIs, WordIsI32, PacketsIs
  <2>2. PICK r, v : input = [kind |-> "axis", range |-> r, value |-> v]
                    /\ r \in Ranges /\ v \in r[1] .. r[2]
    BY <2>1 DEF AxisIs
  <2>3. input' = [kind |-> "axis", range |-> r, value |-> v + 1] /\ v < r[2]
    BY <1>1, <2>2 DEF PushAxis
  <2>4. v + 1 \in r[1] .. r[2]
    BY <2>2, <2>3, RangesAre DEF IsRange
  <2> QED BY <2>2, <2>3, <2>4 DEF InputIs, AxisIs
<1>2. CASE PressKey
  <2>1. KeysIs
    BY <1>2 DEF PressKey, InputIs, AxisIs, DescriptorIs, WordIsI32, PacketsIs
  <2>2. PICK m, data, told :
          /\ input = [kind |-> "keys", model |-> m, data |-> data, told |-> told]
          /\ m \in Models /\ KeysTold(m, data, told)
    BY <2>1 DEF KeysIs
  <2> DEFINE more == Append(data, TRUE)
             events == ButtonEvents(more, data, button_map(m))
             news == [i \in 1 .. Len(events) |-> events[i].index]
  <2>3. input.data = data /\ input.model = m /\ input.told = told
    BY <2>2
  <2>4. input' = [input EXCEPT !.data = more, !.told = @ \o news]
    BY <1>2, <2>3, Zenon DEF PressKey
  <2>5. KeysTold(m, more, told \o news)
    BY <2>2, KeysToldNext
  <2> HIDE DEF more, news
  <2>6. input' = [kind |-> "keys", model |-> m, data |-> more, told |-> told \o news]
    BY <2>2, <2>4
  <2> QED BY <2>2, <2>5, <2>6 DEF InputIs, KeysIs
<1>3. CASE ReadItem
  <2>1. DescriptorIs
    BY <1>3 DEF ReadItem, InputIs, AxisIs, KeysIs, WordIsI32, PacketsIs
  <2>2. PICK items, left :
          /\ input = [kind |-> "descriptor", items |-> items, left |-> left]
          /\ items \in Seq(AnyItem)
    BY <2>1 DEF DescriptorIs
  <2>3. PICK item \in Items : input' = [input EXCEPT !.items = Append(@, item), !.left = @ - 1]
    BY <1>3 DEF ReadItem
  <2>4. input' = [kind |-> "descriptor", items |-> Append(items, item), left |-> left - 1]
    BY <2>2, <2>3
  <2>5. Append(items, item) \in Seq(AnyItem)
    BY <2>2, ItemsAreSome, AppendProperties
  <2> QED BY <2>4, <2>5 DEF InputIs, DescriptorIs
<1>4. CASE NextWord
  <2>1. WordIsI32
    BY <1>4 DEF NextWord, InputIs, AxisIs, KeysIs, DescriptorIs, PacketsIs
  <2>2. PICK w : input = [kind |-> "word", word |-> w] /\ w \in I32
    BY <2>1 DEF WordIsI32
  <2>3. input' = [kind |-> "word", word |-> w + 1] /\ w < HALF - 1
    BY <1>4, <2>2 DEF NextWord
  <2>4. w + 1 \in I32
    BY <2>2, <2>3, SettingsAssumption DEF I32
  <2> QED BY <2>3, <2>4 DEF InputIs, WordIsI32
<1>5. CASE PushPacket
  <2>1. PacketsIs
    BY <1>5 DEF PushPacket, InputIs, AxisIs, KeysIs, DescriptorIs, WordIsI32
  <2>2. PICK reader, words, last :
          /\ input = [kind |-> "packets", reader |-> reader, words |-> words, last |-> last]
          /\ Pushed(reader, words, last)
    BY <2>1 DEF PacketsIs
  <2>3. input.reader = reader /\ input.words = words /\ input.last = last
    BY <2>2
  <2>4. PICK packet \in Packets :
          LET pushed == push(reader, packet)
          IN  input' = [input EXCEPT !.reader = pushed.reader, !.last = pushed,
                          !.words = Append(@, packet.word)]
    BY <1>5, <2>3, Zenon DEF PushPacket
  <2>5. last.result \in {"more", "string"}
    BY <1>5, <2>3 DEF PushPacket
  <2> DEFINE pushed == push(reader, packet)
  <2>6. Pushed(pushed.reader, Append(words, packet.word), pushed)
    BY <2>2, <2>5, PushedNext
  <2> HIDE DEF pushed
  <2>7. input' = [kind |-> "packets", reader |-> pushed.reader,
                  words |-> Append(words, packet.word), last |-> pushed]
    BY <2>2, <2>4 DEF pushed
  <2> QED BY <2>6, <2>7 DEF InputIs, PacketsIs
<1>6. CASE UNCHANGED input
  BY <1>6 DEF InputIs, AxisIs, KeysIs, DescriptorIs, WordIsI32, PacketsIs
<1> QED BY <1>1, <1>2, <1>3, <1>4, <1>5, <1>6 DEF Next

\* The inputs stay so.
LEMMA InputAlways == Spec => []InputIs
BY InputInit, InputNext, PTL DEF Spec

\* Whatever range a device declares, its ends, its middle and its opposites come out
\* as they should (Decoder::motion, Decoder::new).
THEOREM ScalingAlwaysSound == Spec => []ScalingSound
<1>1. InputIs => ScalingSound
  <2> SUFFICES ASSUME InputIs, input.kind = "axis" PROVE ScalingSound
    BY DEF ScalingSound
  <2>1. AxisIs
    BY DEF InputIs, KeysIs, DescriptorIs, WordIsI32, PacketsIs
  <2>2. IsRange(input.range) /\ input.value \in input.range[1] .. input.range[2]
    BY <2>1, RangesAre DEF AxisIs
  <2> QED BY <2>2, TakenSound DEF ScalingSound
<1> QED BY <1>1, InputAlways, PTL

\* A puck pushed further is never told to have come back, at half the sensitivity or
\* at all of it (Decoder::motion).
THEOREM NothingComesBack == Spec => NeverComesBack
<1>1. InputIs /\ [Next]_input =>
        [input.kind = "axis" => \A s \in {1, 2} :
           RoundHalf[Taken(input.value, input.range) * s]
             <= RoundHalf[Taken(input'.value, input.range) * s]]_input
  <2> SUFFICES ASSUME InputIs, Next, input.kind = "axis", NEW s \in {1, 2}
               PROVE  RoundHalf[Taken(input.value, input.range) * s]
                        <= RoundHalf[Taken(input'.value, input.range) * s]
    OBVIOUS
  <2>1. AxisIs
    BY DEF InputIs, KeysIs, DescriptorIs, WordIsI32, PacketsIs
  <2>2. PushAxis
    BY DEF Next, PressKey, ReadItem, NextWord, PushPacket
  <2>3. PICK r, v : input = [kind |-> "axis", range |-> r, value |-> v]
                    /\ r \in Ranges /\ v \in r[1] .. r[2]
    BY <2>1 DEF AxisIs
  <2>4. input' = [kind |-> "axis", range |-> r, value |-> v + 1] /\ v < r[2]
    BY <2>2, <2>3 DEF PushAxis
  <2> DEFINE w == v + 1
  <2>5. IsRange(r) /\ v \in r[1] .. r[2] /\ w \in r[1] .. r[2] /\ v <= w
    BY <2>3, <2>4, RangesAre DEF IsRange
  <2>6. input.value = v /\ input.range = r /\ input'.value = w
    BY <2>3, <2>4
  <2> HIDE DEF w
  <2>7. Taken(v, r) \in Int /\ Taken(w, r) \in Int /\ Taken(v, r) <= Taken(w, r)
    <3>1. Taken(v, r) \in -500 .. 500 /\ Taken(w, r) \in -500 .. 500
      BY <2>5, TakenWithin
    <3>2. Taken(v, r) <= Taken(w, r)
      BY <2>5, TakenGrows
    <3> QED BY <3>1, <3>2
  <2>8. \A a, b \in Int : a <= b => a * s \in Int /\ b * s \in Int /\ a * s <= b * s
    OBVIOUS
  <2>9. RoundHalf[Taken(v, r) * s] <= RoundHalf[Taken(w, r) * s]
    BY <2>7, <2>8, RoundHalfGrows
  <2> QED BY <2>6, <2>9
<1> QED BY <1>1, InputAlways, PTL DEF Spec, NeverComesBack

\* Every key of a sparse model is told under a number of its own, up to its
\* button_count, and none is left out (pro_buttons, enterprise_buttons, button_count).
THEOREM ButtonsAlwaysCounted == Spec => []ButtonsCounted
<1>1. InputIs => ButtonsCounted
  <2> SUFFICES ASSUME InputIs, input.kind = "keys" PROVE ButtonsCounted
    BY DEF ButtonsCounted
  <2>1. KeysIs
    BY DEF InputIs, AxisIs, DescriptorIs, WordIsI32, PacketsIs
  <2>2. input.model \in Models /\ KeysTold(input.model, input.data, input.told)
    BY <2>1 DEF KeysIs
  <2>3. Counted(input.model, input.data, input.told)
    BY <2>2, KeysAreCounted
  <2> QED BY <2>3, Zenon DEF ButtonsCounted, Counted
<1> QED BY <1>1, InputAlways, PTL

\* An axis is read with the range in force at the last input for it that has a
\* range, whatever comes before, between and after; with RANGE if there is none; and
\* never with one that ends where it begins (axis_ranges, with_ranges).
THEOREM RangesAlwaysAsDeclared == Spec => []RangesAsDeclared
<1>1. InputIs => RangesAsDeclared
  <2> SUFFICES ASSUME InputIs, input.kind = "descriptor" PROVE RangesAsDeclared
    BY DEF RangesAsDeclared
  <2>1. input.items \in Seq(AnyItem)
    BY DEF InputIs, AxisIs, KeysIs, DescriptorIs, WordIsI32, PacketsIs
  <2> QED BY <2>1, AxesAsDeclared, Zenon DEF RangesAsDeclared
<1> QED BY <1>1, InputAlways, PTL

\* Whatever a report gives, its difference from the least of the range it is read with
\* and that of the ends of the range fit into 32 bits, and the latter is not 0, for
\* every descriptor with ends of less than four bytes (axis_ranges, Decoder::motion).
THEOREM DifferencesAlwaysExact == Spec => []DifferencesExact
<1>1. InputIs => DifferencesExact
  <2> SUFFICES ASSUME InputIs, input.kind = "descriptor" PROVE DifferencesExact
    BY DEF DifferencesExact
  <2>1. input.items \in Seq(AnyItem)
    BY DEF InputIs, AxisIs, KeysIs, DescriptorIs, WordIsI32, PacketsIs
  <2> QED BY <2>1, AxesExact, Zenon DEF DifferencesExact
<1> QED BY <1>1, InputAlways, PTL

\* What a program reads of a setting it can set again, whatever word another program
\* left there, and which word it leaves (the getters and setters of Config).
LEMMA ReadBackIs == InputIs => SettingsReadBack
<1> SUFFICES ASSUME InputIs, input.kind = "word" PROVE SettingsReadBack
  BY DEF SettingsReadBack
<1>1. input.word \in I32
  BY DEF InputIs, AxisIs, KeysIs, DescriptorIs, WordIsI32, PacketsIs
<1> QED BY <1>1, FlagIs, SensitivityIs, NumberIs, CodeIs, IntervalIs
         DEF SettingsReadBack

\* What a program sets it reads back, in every width of a word (the getters and
\* setters of Config).
LEMMA KeptIs == InputIs => SettingsKept
<1> SUFFICES ASSUME InputIs, input.kind = "word" PROVE SettingsKept
  BY DEF SettingsKept
<1>1. input.word \in I32
  BY DEF InputIs, AxisIs, KeysIs, DescriptorIs, WordIsI32, PacketsIs
<1>2. AsU32(input.word) \in U32
  BY <1>1, SameBits
<1> QED BY <1>2, FlagIs, SensitivityIs, NumberIs, CodeIs, IntervalIs
         DEF SettingsKept

\* A setting survives both ways round, in every width of a word: from the word that
\* was there, of which a negative count is lost, and from what a program sets, of
\* which too long an interval is refused (the getters and setters of Config).
THEOREM SettingsAlwaysSurvive == Spec => []SettingsSurvive
<1>1. InputIs => SettingsSurvive
  BY ReadBackIs, KeptIs DEF SettingsSurvive
<1> QED BY <1>1, InputAlways, PTL

\* A string is put together only of the packets that string_packets makes of one of
\* its length, whatever came before (StringReader::push).
THEOREM TextAlwaysAsAnnounced == Spec => []TextAsAnnounced
<1>1. InputIs => TextAsAnnounced
  <2> SUFFICES ASSUME InputIs, input.kind = "packets", input.words # <<>>,
                      input.last.result = "string"
               PROVE  TextAsAnnounced
    BY DEF TextAsAnnounced
  <2>1. Pushed(input.reader, input.words, input.last)
    BY DEF InputIs, AxisIs, KeysIs, DescriptorIs, WordIsI32, PacketsIs
  <2>2. Announced(input.words, input.last)
    BY <2>1, JoinedIs
  <2> QED BY <2>2, Zenon DEF TextAsAnnounced, Announced
<1> QED BY <1>1, InputAlways, PTL
=============================================================================
