---------------------------- MODULE HidDecoderProofs ----------------------------
(***************************************************************************)
(* Facts about HidDecoder, for every range a device may declare, every       *)
(* sensitivity and button reports of any length.                             *)
(***************************************************************************)
EXTENDS HidDecoder, SequenceTheorems, WellFoundedInduction, TLAPS

(***************************************************************************)
(* Arithmetic.                                                              *)
(***************************************************************************)

\* Natural numbers are divided as the machine and TLA+ both do.
LEMMA QuotientOfNat ==
  ASSUME NEW a \in Nat, NEW b \in Nat \ {0}
  PROVE  Quotient(a, b) = a \div b
BY DEF Quotient

\* What is divided by a number that is not 0 is a number.
LEMMA QuotientType ==
  ASSUME NEW a \in Int, NEW b \in Int \ {0}
  PROVE  Quotient(a, b) \in Int
<1> DEFINE Size(n) == IF n >= 0 THEN n ELSE -n
           size == Size(a) \div Size(b)
<1>1. Quotient(a, b) = IF a >= 0 <=> b > 0 THEN size ELSE -size
  BY DEF Quotient
<1>2. Size(a) \in Int /\ Size(b) \in Nat \ {0}
  OBVIOUS
<1> HIDE DEF Size
<1>3. size \in Int
  BY <1>2
<1> QED BY <1>1, <1>3

\* 32 bits keep what is no more than they hold, and come to a number they hold.
LEMMA WrappedIs ==
  /\ \A n \in Int : Wrapped(n) \in -(MAX_I32 + 1) .. MAX_I32
  /\ \A n \in -(MAX_I32 + 1) .. MAX_I32 : Wrapped(n) = n
  /\ \A n \in Nat \ {0} : n < 2 * (MAX_I32 + 1) => Wrapped(n) # 0
<1> DEFINE w == 2 * (MAX_I32 + 1)
           h == MAX_I32 + 1
<1>1. h \in Nat \ {0} /\ w \in Nat \ {0} /\ w = 2 * h /\ MAX_I32 = h - 1
  BY WidthAssumption
<1>2. ASSUME NEW n \in Int
      PROVE  Wrapped(n) = ((n + h) % w) - h
  <2>1. n + MAX_I32 + 1 = n + h
    BY WidthAssumption
  <2> QED BY <2>1, Zenon DEF Wrapped
<1> HIDE DEF w, h
<1>3. \A n \in Int : n % w \in 0 .. w - 1
  BY <1>1
<1>4. \A n \in 0 .. w - 1 : n % w = n
  BY <1>1
<1>5. \A n \in w .. 2 * w - 1 : n % w = n - w
  <2>1. ASSUME NEW n \in w .. 2 * w - 1
        PROVE  n % w = n - w
    <3>1. n = 1 * w + (n - w) /\ n - w \in 0 .. w - 1
      BY <1>1, <2>1
    <3>2. n \div w = 1
      BY <1>1, <3>1
    <3> QED BY <1>1, <3>1, <3>2
  <2> QED BY <2>1
<1>6. ASSUME NEW n \in Int
      PROVE  Wrapped(n) \in -h .. h - 1
  <2>1. n + h \in Int /\ (n + h) % w \in 0 .. w - 1
    BY <1>1, <1>3
  <2> QED BY <1>1, <1>2, <2>1
<1>7. ASSUME NEW n \in -h .. h - 1
      PROVE  Wrapped(n) = n
  <2>1. n + h \in 0 .. w - 1
    BY <1>1
  <2>2. (n + h) % w = n + h
    BY <1>4, <2>1
  <2> QED BY <1>1, <1>2, <2>2
<1>8. ASSUME NEW n \in Nat \ {0}, n < w
      PROVE  Wrapped(n) # 0
  <2>1. CASE n < h
    BY <1>1, <1>7, <2>1
  <2>2. CASE n >= h
    <3> DEFINE k == n + h
    <3>1. k \in w .. 2 * w - 1
      BY <1>1, <1>8, <2>2
    <3>2. Wrapped(n) = (k % w) - h
      BY <1>2
    <3> HIDE DEF k
    <3>3. k % w = k - w
      BY <1>5, <3>1
    <3> QED BY <1>1, <1>8, <3>1, <3>2, <3>3 DEF k
  <2> QED BY <1>1, <2>1, <2>2
<1>9. -(MAX_I32 + 1) .. MAX_I32 = -h .. h - 1
  BY <1>1
<1> QED BY <1>6, <1>7, <1>8, <1>9 DEF w

\* What a quotient is at most.
LEMMA DivisionBound ==
  ASSUME NEW a \in Nat, NEW b \in Nat \ {0}, NEW c \in Nat, a <= c * b
  PROVE  a \div b \in 0 .. c
<1> DEFINE q == a \div b
<1>1. q \in Nat /\ q * b <= a /\ a < q * b + b
  OBVIOUS
<1> HIDE DEF q
<1>2. ASSUME q > c
      PROVE  FALSE
  <2>1. q * b >= (c + 1) * b
    BY <1>1, <1>2
  <2> QED BY <1>1, <2>1
<1>3. q \in 0 .. c
  BY <1>1, <1>2
<1> QED BY <1>3 DEF q

\* More divided by the same is no less.
LEMMA DivisionGrows ==
  ASSUME NEW a \in Nat, NEW b \in Nat \ {0}, NEW c \in Nat, a <= c
  PROVE  a \div b <= c \div b
<1> DEFINE q == a \div b
           p == c \div b
<1>1. q \in Nat /\ q * b <= a /\ a < q * b + b
  OBVIOUS
<1>2. p \in Nat /\ p * b <= c /\ c < p * b + b
  OBVIOUS
<1> HIDE DEF q, p
<1>3. ASSUME q > p
      PROVE  FALSE
  <2>1. q * b >= (p + 1) * b
    BY <1>1, <1>2, <1>3
  <2> QED BY <1>1, <1>2, <2>1
<1>4. q <= p
  BY <1>1, <1>2, <1>3
<1> QED BY <1>4 DEF q, p

\* Rounding to the nearest: of halves away from nought, the same on both sides.
LEMMA RoundHalfIs ==
  ASSUME NEW n \in Int
  PROVE  /\ RoundHalf[n] = IF n >= 0 THEN (n + 1) \div 2 ELSE -((1 - n) \div 2)
         /\ RoundHalf[n] \in Int
<1>1. CASE n >= 0
  <2>1. RoundHalf[n] = Quotient(n + 1, 2)
    BY <1>1 DEF RoundHalf
  <2> QED BY <1>1, <2>1, QuotientOfNat
<1>2. CASE n < 0
  <2>1. RoundHalf[n] = Quotient(n - 1, 2)
    BY <1>2 DEF RoundHalf
  <2>2. Quotient(n - 1, 2) = -((-(n - 1)) \div 2)
    BY <1>2 DEF Quotient
  <2> QED BY <1>2, <2>1, <2>2
<1> QED BY <1>1, <1>2

\* Rounding keeps an order.
LEMMA RoundHalfGrows ==
  ASSUME NEW m \in Int, NEW n \in Int, m <= n
  PROVE  RoundHalf[m] <= RoundHalf[n]
BY RoundHalfIs

(***************************************************************************)
(* Axes.                                                                    *)
(***************************************************************************)

\* What may be declared for an axis, in numbers of 32 bits.
IsDeclared(r) ==
  r \in Int \X Int /\ r[1] < r[2] /\ r[1] >= -(MAX_I32 + 1) /\ r[2] <= MAX_I32

\* A range whose width they hold.
IsRange(r) == r \in Int \X Int /\ r[1] < r[2] /\ r[2] - r[1] <= MAX_I32

\* An axis within its range is taken onto RANGE, and its ends are the ends.
LEMMA TakenWithin ==
  ASSUME NEW r, IsRange(r), NEW v \in r[1] .. r[2]
  PROVE  /\ Taken(v, r) = ((v - r[1]) * 1000) \div (r[2] - r[1]) - 500
         /\ Taken(v, r) \in -500 .. 500
<1> DEFINE a == (v - r[1]) * 1000
           b == r[2] - r[1]
<1>1. a \in Nat /\ b \in Nat \ {0} /\ a <= 1000 * b
  BY DEF IsRange
<1>2. Difference(v, r[1]) = v - r[1] /\ Difference(r[2], r[1]) = b
  <2>1. v - r[1] \in -(MAX_I32 + 1) .. MAX_I32 /\ b \in -(MAX_I32 + 1) .. MAX_I32
    BY WidthAssumption DEF IsRange
  <2> QED BY <2>1, WrappedIs DEF Difference
<1>3. Taken(v, r) = Wrapped(Quotient(a, b) + -500)
  <2>1. RANGE[1] = -500 /\ RANGE[2] - RANGE[1] = 1000
    BY DEF RANGE
  <2> HIDE DEF b
  <2> QED BY <1>2, <2>1 DEF Taken
<1> HIDE DEF a, b
<1>4. Quotient(a, b) = a \div b
  BY <1>1, QuotientOfNat
<1>5. a \div b \in 0 .. 1000
  BY <1>1, DivisionBound, 1000 \in Nat
<1>6. a \div b + -500 = a \div b - 500 /\ a \div b - 500 \in -500 .. 500
  BY <1>5
<1>7. Wrapped(a \div b - 500) = a \div b - 500
  <2>1. 1000 <= MAX_I32 /\ MAX_I32 \in Nat
    BY WidthAssumption DEF RANGE
  <2>2. a \div b - 500 \in -(MAX_I32 + 1) .. MAX_I32
    BY <1>6, <2>1
  <2> QED BY <2>2, WrappedIs
<1>8. Taken(v, r) = a \div b - 500 /\ Taken(v, r) \in -500 .. 500
  BY <1>3, <1>4, <1>6, <1>7
<1> QED BY <1>8 DEF a, b

\* A puck pushed further is taken no less far.
LEMMA TakenGrows ==
  ASSUME NEW r, IsRange(r), NEW v \in r[1] .. r[2], NEW w \in r[1] .. r[2], v <= w
  PROVE  Taken(v, r) <= Taken(w, r)
<1> DEFINE a == (v - r[1]) * 1000
           c == (w - r[1]) * 1000
           b == r[2] - r[1]
<1>1. a \in Nat /\ c \in Nat /\ b \in Nat \ {0} /\ a <= c
  BY DEF IsRange
<1>2. Taken(v, r) = a \div b - 500 /\ Taken(w, r) = c \div b - 500
  BY TakenWithin
<1> HIDE DEF a, b, c
<1>3. a \div b <= c \div b /\ a \div b \in Int /\ c \div b \in Int
  BY <1>1, DivisionGrows
<1> QED BY <1>2, <1>3

\* The numbers an axis comes out as, at some sensitivity.
Scaled(s) == RoundHalf[RANGE[1] * s] .. RoundHalf[RANGE[2] * s]

\* At that sensitivity no axis comes out beyond them.
LEMMA ScaledWithin ==
  ASSUME NEW x \in -500 .. 500, NEW s \in Nat
  PROVE  RoundHalf[x * s] \in Scaled(s)
<1>1. -500 * s <= x * s /\ x * s <= 500 * s /\ x * s \in Int
  OBVIOUS
<1>2. /\ RoundHalf[-500 * s] <= RoundHalf[x * s]
      /\ RoundHalf[x * s] <= RoundHalf[500 * s]
      /\ RoundHalf[-500 * s] \in Int /\ RoundHalf[500 * s] \in Int
      /\ RoundHalf[x * s] \in Int
  BY <1>1, RoundHalfGrows, RoundHalfIs
<1> QED BY <1>2 DEF Scaled, RANGE

\* Wherever the puck is, within the range declared or not, what is told are numbers.
LEMMA ReadingType ==
  ASSUME NEW r, IsDeclared(r), NEW p \in [1 .. 3 -> Int], NEW swap \in BOOLEAN, NEW s \in Nat
  PROVE  Reading(p, r, swap, s) \in [1 .. 3 -> Int]
<1> DEFINE taken == [i \in 1 .. 3 |-> Taken(p[i], r)]
<1>1. ASSUME NEW v \in Int
      PROVE  Taken(v, r) \in Int
  <2> DEFINE a == Difference(v, r[1]) * (RANGE[2] - RANGE[1])
             b == Difference(r[2], r[1])
  <2>1. Difference(v, r[1]) \in Int
    BY WrappedIs, WidthAssumption DEF IsDeclared, Difference
  <2>2. b \in Int \ {0}
    <3>1. r[2] - r[1] \in Nat \ {0} /\ r[2] - r[1] < 2 * (MAX_I32 + 1)
      BY WidthAssumption DEF IsDeclared
    <3>2. Wrapped(r[2] - r[1]) \in -(MAX_I32 + 1) .. MAX_I32 /\ Wrapped(r[2] - r[1]) # 0
      BY <3>1, WrappedIs
    <3> QED BY <3>2, WidthAssumption DEF Difference
  <2>3. a \in Int /\ RANGE[1] \in Int
    BY <2>1 DEF RANGE
  <2>4. Taken(v, r) = Wrapped(Quotient(a, b) + RANGE[1])
    BY DEF Taken
  <2> HIDE DEF a, b
  <2>5. Quotient(a, b) \in Int
    BY <2>2, <2>3, QuotientType
  <2>6. Quotient(a, b) + RANGE[1] \in Int
    BY <2>3, <2>5
  <2>7. Wrapped(Quotient(a, b) + RANGE[1]) \in -(MAX_I32 + 1) .. MAX_I32
    BY <2>6, WrappedIs
  <2> QED BY <2>4, <2>7, WidthAssumption
<1>2. taken \in [1 .. 3 -> Int]
  BY <1>1
<1>3. Reading(p, r, swap, s) = [i \in 1 .. 3 |-> RoundHalf[Turned(taken, swap)[i] * s]]
  BY DEF Reading
<1> HIDE DEF taken
<1>4. \A i \in 1 .. 3 : Turned(taken, swap)[i] \in Int
  <2>1. \A i \in 1 .. 3 : taken[i] \in Int /\ Wrapped(-taken[i]) \in Int
    BY <1>2, WrappedIs, WidthAssumption
  <2>2. CASE swap
    <3>1. Turned(taken, swap) = <<taken[1], Wrapped(-taken[3]), Wrapped(-taken[2])>>
      BY <2>2 DEF Turned
    <3> QED BY <2>1, <3>1
  <2>3. CASE ~swap
    BY <2>1, <2>3 DEF Turned
  <2> QED BY <2>2, <2>3
<1>5. \A i \in 1 .. 3 : RoundHalf[Turned(taken, swap)[i] * s] \in Int
  BY <1>4, RoundHalfIs
<1> QED BY <1>3, <1>5

\* Within that range they are within RANGE, turned or not.
LEMMA ReadingWithin ==
  ASSUME NEW r, IsRange(r), NEW p \in [1 .. 3 -> r[1] .. r[2]], NEW swap \in BOOLEAN,
         NEW s \in Nat
  PROVE  Reading(p, r, swap, s) \in [1 .. 3 -> Scaled(s)]
<1> DEFINE taken == [i \in 1 .. 3 |-> Taken(p[i], r)]
<1>1. taken \in [1 .. 3 -> -500 .. 500]
  <2>1. ASSUME NEW i \in 1 .. 3
        PROVE  Taken(p[i], r) \in -500 .. 500
    BY TakenWithin
  <2> QED BY <2>1
<1>2. Reading(p, r, swap, s) = [i \in 1 .. 3 |-> RoundHalf[Turned(taken, swap)[i] * s]]
  BY DEF Reading
<1> HIDE DEF taken
<1>3. \A i \in 1 .. 3 : Turned(taken, swap)[i] \in -500 .. 500
  <2>1. ASSUME NEW x \in -500 .. 500
        PROVE  Wrapped(-x) \in -500 .. 500
    <3>1. -x \in -500 .. 500 /\ -x \in -(MAX_I32 + 1) .. MAX_I32
      BY WidthAssumption DEF RANGE
    <3> QED BY <3>1, WrappedIs
  <2>2. \A i \in 1 .. 3 : i = 1 \/ i = 2 \/ i = 3
    OBVIOUS
  <2>3. /\ taken[1] \in -500 .. 500
        /\ taken[2] \in -500 .. 500
        /\ taken[3] \in -500 .. 500
    BY <1>1
  <2>4. /\ Wrapped(-taken[2]) \in -500 .. 500
        /\ Wrapped(-taken[3]) \in -500 .. 500
    BY <2>1, <2>3, Zenon
  <2>5. CASE swap
    <3>1. Turned(taken, swap) = <<taken[1], Wrapped(-taken[3]), Wrapped(-taken[2])>>
      BY <2>5 DEF Turned
    <3>2. /\ Turned(taken, swap)[1] = taken[1]
          /\ Turned(taken, swap)[2] = Wrapped(-taken[3])
          /\ Turned(taken, swap)[3] = Wrapped(-taken[2])
      BY <3>1
    <3>3. Turned(taken, swap)[1] \in -500 .. 500
      BY <2>3, <3>2
    <3>4. Turned(taken, swap)[2] \in -500 .. 500
      BY <2>4, <3>2
    <3>5. Turned(taken, swap)[3] \in -500 .. 500
      BY <2>4, <3>2
    <3> QED BY <2>2, <3>3, <3>4, <3>5, Zenon
  <2>6. CASE ~swap
    <3>1. Turned(taken, swap) = taken
      BY <2>6 DEF Turned
    <3> QED BY <1>1, <3>1
  <2> QED BY <2>5, <2>6
<1>4. \A i \in 1 .. 3 : RoundHalf[Turned(taken, swap)[i] * s] \in Scaled(s)
  BY <1>3, ScaledWithin
<1> QED BY <1>2, <1>4

(***************************************************************************)
(* Buttons.                                                                 *)
(***************************************************************************)

\* Of numbers from 0 up there is a least, which is what induction rests on here.
LEMMA LeastOf ==
  ASSUME NEW T \in SUBSET Nat, T # {}
  PROVE  \E m \in T : \A k \in T : m <= k
<1>1. PICK m \in T : \A k \in T : ~ (<<k, m>> \in OpToRel(<, Nat))
  BY NatLessThanWellFounded, WFMin
<1>2. \A k \in T : ~ (k < m)
  BY <1>1 DEF OpToRel
<1> QED BY <1>2

\* The bits that a report tells of, and what it tells of one.
ToldBits(data, before, map) ==
  {bit \in 0 .. BitsIn(data, before) - 1 :
     Changed(data, before, bit) /\ bit \in DOMAIN map}

ButtonEvent(data, map, bit) ==
  [kind |-> "button", index |-> map[bit], pressed |-> IsDown(data, bit)]

\* The loop of a report over its bits, as far as the n-th.
Loop(f, data, before, map, n) ==
  IF n = 0 THEN <<>>
  ELSE IF n - 1 \in ToldBits(data, before, map)
  THEN Append(f[n - 1], ButtonEvent(data, map, n - 1))
  ELSE f[n - 1]

RunsLoop(f, data, before, map, top) ==
  f = [n \in 0 .. top |-> Loop(f, data, before, map, n)]

\* The loop runs through.
LEMMA LoopRuns ==
  ASSUME NEW data, NEW before, NEW map, NEW top \in Nat
  PROVE  \E f : RunsLoop(f, data, before, map, top)
<1> DEFINE Runs(n) == \E f : f = [i \in 0 .. n |-> Loop(f, data, before, map, i)]
           T == {n \in Nat : ~Runs(n)}
<1>1. SUFFICES T = {}
  BY DEF RunsLoop
<1>2. SUFFICES ASSUME T # {}
               PROVE  FALSE
  OBVIOUS
<1>3. PICK m \in T : \A k \in T : m <= k
  BY <1>2, LeastOf
<1>4. CASE m = 0
  <2> DEFINE f == [i \in 0 .. 0 |-> <<>>]
  <2>1. \A i \in 0 .. 0 : Loop(f, data, before, map, i) = <<>>
    BY DEF Loop
  <2>2. f = [i \in 0 .. 0 |-> Loop(f, data, before, map, i)]
    BY <2>1
  <2> HIDE DEF f
  <2> QED BY <1>3, <1>4, <2>2
<1>5. CASE m # 0
  <2>1. m \in Nat /\ m - 1 \in Nat /\ m - 1 \notin T
    BY <1>3, <1>5
  <2>2. PICK g : g = [i \in 0 .. m - 1 |-> Loop(g, data, before, map, i)]
    BY <2>1
  <2> DEFINE f == [i \in 0 .. m |-> IF i = m THEN Loop(g, data, before, map, m) ELSE g[i]]
  <2>3. ASSUME NEW i \in 0 .. m
        PROVE  f[i] = Loop(f, data, before, map, i)
    <3>1. i # 0 => f[i - 1] = g[i - 1]
      BY <2>1
    <3>2. Loop(f, data, before, map, i) = Loop(g, data, before, map, i)
      BY <3>1 DEF Loop
    <3>3. i # m => i \in 0 .. m - 1
      BY <2>1
    <3>4. i # m => g[i] = Loop(g, data, before, map, i)
      BY <2>2, <3>3
    <3> QED BY <3>2, <3>4
  <2>4. f = [i \in 0 .. m |-> Loop(f, data, before, map, i)]
    BY <2>3
  <2> HIDE DEF f
  <2> QED BY <1>3, <2>4
<1> QED BY <1>4, <1>5

\* How many bits there are to compare.
LEMMA BitsInType ==
  ASSUME NEW data \in Seq(BOOLEAN), NEW before \in Seq(BOOLEAN)
  PROVE  /\ BitsIn(data, before) \in Nat
         /\ Len(data) <= BitsIn(data, before) /\ Len(before) <= BitsIn(data, before)
BY DEF BitsIn

\* The events of a report are what its loop has gathered at its end.
LEMMA EventsGathered ==
  ASSUME NEW data \in Seq(BOOLEAN), NEW before \in Seq(BOOLEAN), NEW map
  PROVE  \E f : /\ f = [n \in 0 .. BitsIn(data, before) |-> Loop(f, data, before, map, n)]
                /\ ButtonEvents(data, before, map) = f[BitsIn(data, before)]
<1> DEFINE top == BitsIn(data, before)
           EventOf(bit) == [kind |-> "button", index |-> Number(map, bit),
                            pressed |-> IsDown(data, bit)]
           Body(f, n) == IF n = 0 THEN <<>>
                         ELSE IF Changed(data, before, n - 1) /\ n - 1 \in DOMAIN map
                         THEN Append(f[n - 1], EventOf(n - 1))
                         ELSE f[n - 1]
<1>1. top \in Nat
  BY BitsInType
<1>2. ASSUME NEW f, NEW n \in 0 .. top
      PROVE  Loop(f, data, before, map, n) = Body(f, n)
  <2>1. n # 0 => (n - 1 \in ToldBits(data, before, map)
                    <=> Changed(data, before, n - 1) /\ n - 1 \in DOMAIN map)
    BY <1>1 DEF ToldBits
  <2>2. CASE n = 0
    BY <2>2 DEF Loop
  <2>3. CASE n # 0
    BY <2>1, <2>3, Zenon DEF Loop, ButtonEvent, Number
  <2> QED BY <2>2, <2>3
<1>3. PICK g : g = [n \in 0 .. top |-> Loop(g, data, before, map, n)]
  <2>1. \E f : RunsLoop(f, data, before, map, top)
    BY <1>1, LoopRuns
  <2> QED BY <2>1, Zenon DEF RunsLoop
<1>4. \A f : [n \in 0 .. top |-> Loop(f, data, before, map, n)]
               = [n \in 0 .. top |-> Body(f, n)]
  BY <1>2, Zenon
<1>5. g = [n \in 0 .. top |-> Body(g, n)]
  BY <1>3, <1>4, Zenon
<1>6. \E f : f = [n \in 0 .. top |-> Body(f, n)]
             /\ ButtonEvents(data, before, map) = f[top]
  BY <1>5, Zenon DEF ButtonEvents
<1> QED BY <1>4, <1>6, Zenon

\* The events of some bits, one after the other.
EventsFor(data, map, bits) ==
  [i \in 1 .. Len(bits) |-> ButtonEvent(data, map, bits[i])]

\* The bits below the n-th that are told, each once and in their order.
InOrder(bits, told, n) ==
  /\ \A i \in 1 .. Len(bits) : bits[i] < n
  /\ \A i, j \in 1 .. Len(bits) : i < j => bits[i] < bits[j]
  /\ \A bit \in told : bit < n => \E i \in 1 .. Len(bits) : bits[i] = bit

\* One bit more is told by one event more.
LEMMA EventsForMore ==
  ASSUME NEW data, NEW map, NEW told, NEW bits \in Seq(told), NEW bit \in told
  PROVE  EventsFor(data, map, Append(bits, bit))
           = Append(EventsFor(data, map, bits), ButtonEvent(data, map, bit))
<1> DEFINE S == {ButtonEvent(data, map, b) : b \in told}
           events == EventsFor(data, map, bits)
           last == ButtonEvent(data, map, bit)
           more == Append(bits, bit)
<1>1. /\ Len(bits) \in Nat /\ \A i \in 1 .. Len(bits) : bits[i] \in told
      /\ Len(more) = Len(bits) + 1
      /\ \A i \in 1 .. Len(bits) : more[i] = bits[i]
      /\ more[Len(bits) + 1] = bit
  BY LenProperties, ElementOfSeq, AppendProperties
<1>2. /\ events = [i \in 1 .. Len(bits) |-> ButtonEvent(data, map, bits[i])]
      /\ EventsFor(data, map, more)
           = [i \in 1 .. Len(more) |-> ButtonEvent(data, map, more[i])]
  BY DEF EventsFor
<1>3. \A i \in 1 .. Len(bits) : ButtonEvent(data, map, bits[i]) \in S
  BY <1>1
<1>4. last \in S
  OBVIOUS
<1> HIDE DEF S, events, last, more
<1>5. events \in Seq(S) /\ Len(events) = Len(bits)
  BY <1>1, <1>2, <1>3
<1>6. /\ Append(events, last) \in Seq(S)
      /\ Len(Append(events, last)) = Len(bits) + 1
      /\ \A i \in 1 .. Len(bits) : Append(events, last)[i] = events[i]
      /\ Append(events, last)[Len(bits) + 1] = last
  BY <1>4, <1>5, AppendProperties
<1>7. Append(events, last) = [i \in 1 .. Len(bits) + 1 |-> Append(events, last)[i]]
  <2> DEFINE longer == Append(events, last)
  <2>1. longer \in [1 .. Len(longer) -> S] /\ Len(longer) = Len(bits) + 1
    BY <1>6, LenProperties
  <2> HIDE DEF longer
  <2>2. longer = [i \in 1 .. Len(bits) + 1 |-> longer[i]]
    BY <2>1
  <2> QED BY <2>2 DEF longer
<1>8. ASSUME NEW i \in 1 .. Len(bits) + 1
      PROVE  Append(events, last)[i] = ButtonEvent(data, map, more[i])
  <2>1. CASE i = Len(bits) + 1
    BY <1>1, <1>6, <2>1, Zenon DEF last
  <2>2. CASE i \in 1 .. Len(bits)
    BY <1>1, <1>2, <1>6, <2>2
  <2>3. i = Len(bits) + 1 \/ i \in 1 .. Len(bits)
    BY <1>1
  <2> QED BY <2>1, <2>2, <2>3, Zenon
<1>9. EventsFor(data, map, more) = Append(events, last)
  BY <1>1, <1>2, <1>7, <1>8, Zenon
<1> QED BY <1>9 DEF events, last, more

\* The next bit comes after those there are, if it is told.
LEMMA NextInOrder ==
  ASSUME NEW told \in SUBSET Nat, NEW bits \in Seq(told), NEW n \in Nat,
         InOrder(bits, told, n)
  PROVE  /\ n \in told => InOrder(Append(bits, n), told, n + 1)
         /\ n \notin told => InOrder(bits, told, n + 1)
<1>1. Len(bits) \in Nat /\ \A i \in 1 .. Len(bits) : bits[i] \in Nat
  BY LenProperties, ElementOfSeq
<1>2. CASE n \in told
  <2> DEFINE more == Append(bits, n)
  <2>1. /\ Len(more) = Len(bits) + 1
        /\ \A i \in 1 .. Len(bits) : more[i] = bits[i]
        /\ more[Len(bits) + 1] = n
    BY <1>2, AppendProperties
  <2> HIDE DEF more
  <2>2. \A i \in 1 .. Len(more) : more[i] < n + 1
    BY <1>1, <2>1 DEF InOrder
  <2>3. ASSUME NEW i \in 1 .. Len(more), NEW j \in 1 .. Len(more), i < j
        PROVE  more[i] < more[j]
    <3>1. CASE j = Len(bits) + 1
      BY <1>1, <2>1, <2>3, <3>1 DEF InOrder
    <3>2. CASE j # Len(bits) + 1
      <4>1. i \in 1 .. Len(bits) /\ j \in 1 .. Len(bits)
        BY <1>1, <2>1, <2>3, <3>2
      <4> QED BY <2>1, <2>3, <4>1 DEF InOrder
    <3> QED BY <3>1, <3>2
  <2>4. ASSUME NEW bit \in told, bit < n + 1
        PROVE  \E i \in 1 .. Len(more) : more[i] = bit
    <3>1. CASE bit = n
      BY <1>1, <2>1, <3>1
    <3>2. CASE bit < n
      BY <1>1, <2>1, <3>2 DEF InOrder
    <3> QED BY <2>4, <3>1, <3>2
  <2>5. InOrder(more, told, n + 1)
    BY <2>2, <2>3, <2>4 DEF InOrder
  <2> QED BY <1>2, <2>5 DEF more
<1>3. CASE n \notin told
  <2>1. \A bit \in told : bit < n + 1 => bit < n
    BY <1>3
  <2> QED BY <1>1, <1>3, <2>1 DEF InOrder
<1> QED BY <1>2, <1>3

\* A report tells of each of its bits once, in their order.
LEMMA ButtonEventsAre ==
  ASSUME NEW data \in Seq(BOOLEAN), NEW before \in Seq(BOOLEAN), NEW map
  PROVE  \E bits \in Seq(ToldBits(data, before, map)) :
           /\ ButtonEvents(data, before, map) = EventsFor(data, map, bits)
           /\ InOrder(bits, ToldBits(data, before, map), BitsIn(data, before))
<1> DEFINE top == BitsIn(data, before)
           told == ToldBits(data, before, map)
           Gathered(events, n) ==
             \E bits \in Seq(told) : /\ events = EventsFor(data, map, bits)
                                     /\ InOrder(bits, told, n)
<1>1. top \in Nat
  BY BitsInType
<1>2. told \in SUBSET Nat
  BY <1>1 DEF ToldBits
<1>3. PICK f : /\ f = [n \in 0 .. top |-> Loop(f, data, before, map, n)]
               /\ ButtonEvents(data, before, map) = f[top]
  BY EventsGathered
<1>4. \A n \in 0 .. top : f[n] = Loop(f, data, before, map, n)
  BY <1>3
<1> HIDE DEF top
<1>5. Gathered(f[0], 0)
  <2>1. f[0] = <<>>
    BY <1>1, <1>4 DEF Loop
  <2>2. <<>> \in Seq(told) /\ Len(<<>>) = 0
    BY EmptySeq
  <2>3. EventsFor(data, map, <<>>) = <<>>
    BY <2>2 DEF EventsFor
  <2>4. InOrder(<<>>, told, 0)
    BY <1>2, <2>2 DEF InOrder
  <2> QED BY <2>1, <2>2, <2>3, <2>4
<1>6. ASSUME NEW n \in 0 .. top, n # top, Gathered(f[n], n)
      PROVE  Gathered(f[n + 1], n + 1)
  <2>1. n \in Nat /\ n + 1 \in 0 .. top /\ n + 1 # 0 /\ (n + 1) - 1 = n
    BY <1>1, <1>6
  <2>2. PICK bits \in Seq(told) : /\ f[n] = EventsFor(data, map, bits)
                                  /\ InOrder(bits, told, n)
    BY <1>6
  <2>3. f[n + 1] = IF n \in told THEN Append(f[n], ButtonEvent(data, map, n)) ELSE f[n]
    BY <1>4, <2>1, Zenon DEF Loop
  <2> HIDE DEF told
  <2>4. CASE n \in told
    <3>1. /\ Append(bits, n) \in Seq(told)
          /\ f[n + 1] = EventsFor(data, map, Append(bits, n))
      BY <2>2, <2>3, <2>4, EventsForMore, AppendProperties
    <3>2. InOrder(Append(bits, n), told, n + 1)
      BY <1>2, <2>1, <2>2, <2>4, NextInOrder
    <3> QED BY <3>1, <3>2
  <2>5. CASE n \notin told
    <3>1. InOrder(bits, told, n + 1)
      BY <1>2, <2>1, <2>2, <2>5, NextInOrder
    <3> QED BY <2>2, <2>3, <2>5, <3>1
  <2> QED BY <2>4, <2>5
<1>7. Gathered(f[top], top)
  <2> DEFINE T == {n \in 0 .. top : ~Gathered(f[n], n)}
  <2> HIDE DEF Gathered
  <2>1. ASSUME T # {}
        PROVE  FALSE
    <3>1. T \in SUBSET Nat
      BY <1>1
    <3>2. PICK m \in T : \A k \in T : m <= k
      BY <2>1, <3>1, LeastOf
    <3>3. m \in 0 .. top /\ m # 0
      BY <1>5, <3>2
    <3>4. m - 1 \in 0 .. top /\ m - 1 # top /\ (m - 1) + 1 = m /\ ~(m <= m - 1)
      BY <1>1, <3>3
    <3>5. Gathered(f[m - 1], m - 1)
      BY <3>2, <3>4
    <3>6. Gathered(f[(m - 1) + 1], (m - 1) + 1)
      BY <1>6, <3>4, <3>5
    <3> QED BY <3>2, <3>4, <3>6
  <2> QED BY <1>1, <2>1
<1> QED BY <1>3, <1>7 DEF top

=============================================================================
