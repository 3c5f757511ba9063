------------------------------- MODULE HidDecoder -------------------------------
(***************************************************************************)
(* What sixdof::hid computes from a report (src/src/hid.rs): an axis taken   *)
(* from the range the device declares onto RANGE, y and z swapped and        *)
(* turned, the sensitivity applied; and the buttons a report changes, under   *)
(* the number the model gives them.  A sensitivity is counted in halves.     *)
(***************************************************************************)
EXTENDS Integers, Sequences, FiniteSets

CONSTANT MAX_I32  \* the greatest i32 (2^31 - 1 in the code)

RANGE == <<-500, 500>>

ASSUME WidthAssumption == MAX_I32 \in Nat /\ RANGE[2] - RANGE[1] <= MAX_I32

\* What 32 bits keep of a number: a release build goes on with it, where a debug
\* build panics.
Wrapped(n) == ((n + MAX_I32 + 1) % (2 * (MAX_I32 + 1))) - (MAX_I32 + 1)

\* (Mutated: a difference has no sign.)
DifferenceUnsigned(a, b) == (a - b) % (2 * (MAX_I32 + 1))

\* Two numbers are subtracted in 32 bits, before they are widened.
Difference(a, b) == Wrapped(a - b)

\* Division as the machine does it, towards zero.
Quotient(a, b) ==
  LET Size(n) == IF n >= 0 THEN n ELSE -n
      size == Size(a) \div Size(b)
  IN  IF a >= 0 <=> b > 0 THEN size ELSE -size

\* f32::round: to the nearest, and halves away from zero.
RoundHalf[n \in Int] == Quotient(IF n >= 0 THEN n + 1 ELSE n - 1, 2)

\* (Mutated: the range is taken to begin at zero.)
TakenFromZero(value, range) ==
  Quotient(value * (RANGE[2] - RANGE[1]), Difference(range[2], range[1])) + RANGE[1]

\* (Mutated: the product is kept in as many bits as a number of the device has.)
TakenNarrow(value, range) ==
  Quotient(((value - range[1]) * (RANGE[2] - RANGE[1])) % 2^16, range[2] - range[1]) + RANGE[1]

\* One axis, from its declared range onto RANGE.
Taken(value, range) ==
  Wrapped(Quotient(Difference(value, range[1]) * (RANGE[2] - RANGE[1]),
                   Difference(range[2], range[1])) + RANGE[1])

\* The models whose y and z run the other way round swap and turn them.
Turned(p, swap_yz) == IF swap_yz THEN <<p[1], Wrapped(-p[3]), Wrapped(-p[2])>> ELSE p

\* Three axes as the application is told them, at a sensitivity.
Reading(p, range, swap_yz, scale) ==
  LET taken == [i \in 1 .. 3 |-> Taken(p[i], range)]
  IN  [i \in 1 .. 3 |-> RoundHalf[Turned(taken, swap_yz)[i] * scale]]

-----------------------------------------------------------------------------
(* Buttons: a report's bits, counted from 0, as a sequence of Booleans.      *)

\* A bit the report does not have is up.
IsDown(data, bit) == bit < Len(data) /\ data[bit + 1]

\* (Mutated: the bits of the new report alone are looked at.)
BitsInNew(data, before) == Len(data)

\* The bits to compare: a shorter report releases what it leaves out.
BitsIn(data, before) == IF Len(data) > Len(before) THEN Len(data) ELSE Len(before)

\* (Mutated: a button that stays down is told again.)
DownAgain(data, before, bit) == IsDown(data, bit) \/ IsDown(before, bit)

Changed(data, before, bit) == IsDown(data, bit) # IsDown(before, bit)

\* (Mutated: a button has the number of its bit.)
NumberOfBit(button_map, bit) == bit

Number(button_map, bit) == button_map[bit]

\* The events of a button report, lowest bit first; a bit outside the domain of
\* the button map stands for nothing.
ButtonEvents(data, before, button_map) ==
  LET EventOf(bit) == [kind |-> "button", index |-> Number(button_map, bit),
                       pressed |-> IsDown(data, bit)]
      Below[n \in 0 .. BitsIn(data, before)] ==
        IF n = 0 THEN <<>>
        ELSE IF Changed(data, before, n - 1) /\ n - 1 \in DOMAIN button_map
        THEN Append(Below[n - 1], EventOf(n - 1))
        ELSE Below[n - 1]
  IN  Below[BitsIn(data, before)]

-----------------------------------------------------------------------------
(* The models with sparse buttons. *)

LOGITECH == 1133
CONNEXION == 9583
SpaceMousePro == {<<LOGITECH, 50731>>, <<CONNEXION, 50737>>, <<CONNEXION, 50738>>}
Enterprise == <<CONNEXION, 50739>>

\* Stretches of bits that keep their order, as <<first, last, first index>>.
Spread(stretches) ==
  [bit \in UNION {s[1] .. s[2] : s \in stretches} |->
     LET s == CHOOSE s \in stretches : bit \in s[1] .. s[2]
     IN  bit - s[1] + s[3]]

\* (Mutated: the right view key has the number of the one before it.)
pro_buttons_off_by_one ==
  Spread({<<12, 15, 0>>, <<0, 2, 4>>, <<4, 5, 6>>, <<8, 8, 9>>, <<26, 26, 10>>, <<22, 25, 11>>})

pro_buttons ==
  Spread({<<12, 15, 0>>, <<0, 2, 4>>, <<4, 5, 7>>, <<8, 8, 9>>, <<26, 26, 10>>, <<22, 25, 11>>})

enterprise_buttons ==
  Spread({<<12, 21, 0>>, <<76, 77, 10>>, <<0, 2, 12>>, <<4, 5, 15>>, <<8, 8, 17>>,
          <<22, 26, 18>>, <<35, 36, 23>>, <<174, 175, 25>>, <<102, 104, 27>>, <<10, 10, 30>>})

button_map(model) == IF model = Enterprise THEN enterprise_buttons ELSE pro_buttons

\* Of these models.
button_count(model) == IF model = Enterprise THEN 31 ELSE 15
================================================================================
