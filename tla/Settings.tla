-------------------------------- MODULE Settings --------------------------------
(***************************************************************************)
(* The daemon's settings on the wire (src/src/config.rs): what a setter puts *)
(* into a word, and what a getter makes of the word the daemon has, which    *)
(* another program may have put there.  A setting is a pair of functions; a  *)
(* scale is its bits, an interval is counted in halves of a millisecond.     *)
(***************************************************************************)
EXTENDS Integers

CONSTANTS
  HALF,      \* numbers of a word from 0 up, of which it has as many below
  Longest,   \* bound: the intervals
  Protocol,  \* Error::Protocol
  None

ASSUME SettingsAssumption ==
  /\ HALF \in Nat /\ HALF > 6
  /\ Longest \in Nat
  /\ None \notin Int /\ Protocol \notin Int

U32 == 0 .. 2 * HALF - 1
I32 == -HALF .. HALF - 1

\* `as i32', `as u32': the same bits.
AsI32(n) == IF n < HALF THEN n ELSE n - 2 * HALF
AsU32(w) == IF w >= 0 THEN w ELSE w + 2 * HALF

\* A number is given as it is, and no word below 0 is one.
AtLeastZero(w) == IF w > 0 THEN w ELSE 0

sensitivity == [set |-> [bits \in U32 |-> AsI32(bits)], get |-> [w \in I32 |-> AsU32(w)]]

\* Each of its axes, and the two settings that are a flag.
inverted == [set |-> [b \in BOOLEAN |-> IF b THEN 1 ELSE 0], get |-> [w \in I32 |-> w # 0]]
swap_yz == inverted
grab_device == inverted

mapped_button == [set |-> [n \in U32 |-> AsI32(n)], get |-> [w \in I32 |-> AtLeastZero(w)]]
key_map == mapped_button

\* code and from_code.
Codes(codes) ==
  [set |-> [c \in codes |-> c], get |-> [w \in I32 |-> IF w \in codes THEN w ELSE Protocol]]

button_action == Codes(0 .. 6)
led == Codes(0 .. 2)

\* (Mutated: an interval too long for a word is cut to the bits that fit.)
MillisCut(interval) ==
  IF interval = None THEN -1 ELSE AsI32((interval \div 2) % (2 * HALF))

\* The word of an interval, if it has one.
Millis(interval) ==
  CASE interval = None -> -1
    [] interval # None /\ interval \div 2 >= HALF -> Protocol
    [] OTHER -> interval \div 2

repeat_interval ==
  [set |-> [i \in {None} \cup 0 .. Longest |-> Millis(i)],
   get |-> [w \in I32 |-> IF w < 0 THEN None ELSE 2 * w]]

Flags == {inverted, swap_yz, grab_device}
================================================================================
