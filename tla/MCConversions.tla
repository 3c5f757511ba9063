------------------------------ MODULE MCConversions ------------------------------
(***************************************************************************)
(* What the library computes without keeping a state, over bounded inputs    *)
(* that grow step by step: an axis pushed from one end of its range to the   *)
(* other, the bits of a sparse model's report set one after the other, a     *)
(* report descriptor read item by item, every word a setting may be, and     *)
(* packets of strings as no daemon should send them.                         *)
(***************************************************************************)
EXTENDS HidDecoder, ReportDescriptor, Settings, StringTransfer
Sets == INSTANCE FiniteSetsExt

CONSTANTS
  MaxValue,   \* bound: the ends of the ranges
  MaxBit,     \* bound: the bits of a report
  MaxItems,   \* bound: the items after the first ones
  MaxPackets  \* bound: the packets of strings

\* No button has a bit above that of the last one of the Enterprise; an i32 has
\* four bytes, and the items below are some of those there are.
ASSUME ConversionsAssumption ==
  /\ MaxValue \in Nat /\ 2 * MaxValue <= MAX_I32
  /\ MaxBit \in Nat /\ MaxBit >= 175
  /\ 2 * (MAX_I32 + 1) = WORD * WORD /\ BYTE >= 16
  /\ MaxItems \in Nat /\ MaxPackets \in Nat

VARIABLE input

Item(tag, size, value) == [tag |-> tag, size |-> size, value |-> value]

\* Two pages, axes named by themselves, by a span and with their page, minima
\* and maxima on either side of 0 and of every size, and main items of two kinds.
Items == {Item("Page", 1, 1), Item("Page", 1, 9), Item("Usage", 2, 48), Item("Usage", 4, 305),
          Item("From", 2, 49), Item("To", 2, 50), Item("Minimum", 1, 8), Item("Minimum", 0, 0),
          Item("Maximum", 1, 7), Item("Maximum", 1, 15), Item("Input", 1, 2),
          Item("Feature", 1, 2), Item("From", 4, 305), Item("Maximum", 4, 65535),
          Item("Minimum", 4, 32768)}

FirstItems == {<<>>, <<Item("Page", 1, 1), Item("Maximum", 1, 7), Item("Usage", 2, 48)>>}

\* Every word a string packet may end in, below 0 too.
Packets == [word : -1 .. 2 * CONT_BIT - 1, data : {[i \in 1 .. CHUNK |-> i]}]

Ranges ==
  {r \in (-MaxValue .. MaxValue) \X (-MaxValue .. MaxValue) : r[1] < r[2]}
  \cup {<<-350, 350>>, RANGE}

Init == input \in
  {[kind |-> "axis", range |-> r, value |-> r[1]] : r \in Ranges}
  \cup {[kind |-> "keys", model |-> m, data |-> <<>>, told |-> <<>>] :
          m \in SpaceMousePro \cup {Enterprise}}
  \cup {[kind |-> "descriptor", items |-> first, left |-> MaxItems] : first \in FirstItems}
  \cup {[kind |-> "word", word |-> -HALF]}
  \cup {[kind |-> "packets", reader |-> NewReader, words |-> <<>>,
         last |-> [result |-> "more", text |-> <<>>]]}

PushAxis ==
  /\ input.kind = "axis" /\ input.value < input.range[2]
  /\ input' = [input EXCEPT !.value = @ + 1]

PressKey ==
  /\ input.kind = "keys" /\ Len(input.data) <= MaxBit
  /\ LET data == Append(input.data, TRUE)
         events == ButtonEvents(data, input.data, button_map(input.model))
     IN  input' = [input EXCEPT !.data = data,
                     !.told = @ \o [i \in 1 .. Len(events) |-> events[i].index]]

ReadItem ==
  /\ input.kind = "descriptor" /\ input.left > 0
  /\ \E item \in Items :
       input' = [input EXCEPT !.items = Append(@, item), !.left = @ - 1]

NextWord ==
  /\ input.kind = "word" /\ input.word < HALF - 1
  /\ input' = [input EXCEPT !.word = @ + 1]

\* A request for a string ends with the first packet that is refused.
PushPacket ==
  /\ input.kind = "packets" /\ Len(input.words) < MaxPackets
  /\ input.last.result \in {"more", "string"}
  /\ \E packet \in Packets :
       LET pushed == push(input.reader, packet)
       IN  input' = [input EXCEPT !.reader = pushed.reader, !.last = pushed,
                       !.words = Append(@, packet.word)]

Next == PushAxis \/ PressKey \/ ReadItem \/ NextWord \/ PushPacket

Spec == Init /\ [][Next]_input

-----------------------------------------------------------------------------

\* Whatever range a device declares, its ends come out as the ends of RANGE, a
\* number and its opposite within one of opposites when the range is even, and
\* a device that has RANGE already has its numbers passed on as they come
\* (Decoder::motion, Decoder::new).
ScalingSound ==
  input.kind = "axis" =>
    LET r == input.range
        v == input.value
    IN  /\ Taken(r[1], r) = RANGE[1] /\ Taken(r[2], r) = RANGE[2]
        /\ r[1] = -r[2] => /\ Taken(0, r) = 0
                           /\ Taken(v, r) + Taken(-v, r) \in {-1, 0}
        /\ r = RANGE => Taken(v, r) = v

\* A puck pushed further is never told to have come back, at half the
\* sensitivity or at all of it (Decoder::motion).
NeverComesBack ==
  [][input.kind = "axis" => \A s \in {1, 2} :
       RoundHalf[Taken(input.value, input.range) * s]
         <= RoundHalf[Taken(input'.value, input.range) * s]]_input

\* The keys of a sparse model are told under the numbers from 0 up to its
\* button_count, no two of them under the same, and none is left out
\* (pro_buttons, enterprise_buttons, button_count).
ButtonsCounted ==
  input.kind = "keys" =>
    LET told == {input.told[i] : i \in DOMAIN input.told}
        all == 0 .. button_count(input.model) - 1
    IN  /\ told \subseteq all /\ Cardinality(told) = Len(input.told)
        /\ Len(input.data) > MaxBit => told = all

-----------------------------------------------------------------------------
(* What a descriptor declares, told from the whole of it.                     *)

Tagged(items, tag, among) == {j \in among : items[j].tag = tag}

\* The last item of a kind up to the i-th, 0 if there is none.
LastOf(items, tag, i) == Sets!Max({0} \cup Tagged(items, tag, 1 .. i))

PageAt(items, i) ==
  LET j == LastOf(items, "Page", i) IN IF j = 0 THEN 0 ELSE items[j].value % WORD
MinAt(items, i) ==
  LET j == LastOf(items, "Minimum", i) IN IF j = 0 THEN 0 ELSE Signed(items[j])
MaxAt(items, i) ==
  LET j == LastOf(items, "Maximum", i)
  IN  IF j = 0 THEN 0
      ELSE IF MinAt(items, j) < 0 \/ items[j].size = 4 THEN Signed(items[j])
      ELSE items[j].value

\* The items between the main item before the i-th and it.
LocalTo(items, i) == {j \in 1 .. i - 1 : \A k \in j .. i - 1 : items[k].tag \notin Main}

\* The ends of the span for the i-th item, if it has one: the last that were set, and
\* for want of one the first of the others.
SpanAt(items, i) ==
  LET froms == Tagged(items, "From", LocalTo(items, i))
      tos == Tagged(items, "To", LocalTo(items, i))
      first == IF froms # {} THEN Sets!Max(froms) ELSE Sets!Min(tos)
      last == IF tos # {} THEN Sets!Max(tos) ELSE Sets!Min(froms)
  IN  IF froms \cup tos = {} THEN <<>> ELSE <<items[first].value, items[last].value>>

\* The axis is one of those that the i-th item, an input, is for.
ForAxis(items, i, u) ==
  LET span == SpanAt(items, i)
      page == PageAt(items, i)
  IN  \/ \E j \in Tagged(items, "Usage", LocalTo(items, i)) :
           \/ items[j].size < 4 /\ items[j].value = u /\ PageAt(items, j) = USAGE_PAGE
           \/ items[j].size = 4 /\ items[j].value = USAGE_PAGE * WORD + u
      \/ /\ span # <<>> /\ page \in {0, USAGE_PAGE}
         /\ \/ page = USAGE_PAGE /\ u \in span[1] .. span[2]
            \/ USAGE_PAGE * WORD + u \in span[1] .. span[2]

\* The last input for an axis that has a range, 0 if there is none.
LastInput(items, u) ==
  Sets!Max({0} \cup {i \in Tagged(items, "Input", DOMAIN items) :
                       ForAxis(items, i, u) /\ MinAt(items, i) < MaxAt(items, i)})

\* An axis is read with the range in force at the last input for it that has a
\* range, whatever comes before, between and after; with RANGE if there is none;
\* and never with one that ends where it begins (axis_ranges, with_ranges).
RangesAsDeclared ==
  input.kind = "descriptor" =>
    \A u \in AxisUsages :
      LET i == LastInput(input.items, u)
          used == RangeUsed(axis_ranges(input.items), u)
      IN  /\ used = IF i = 0 THEN RANGE ELSE <<MinAt(input.items, i), MaxAt(input.items, i)>>
          /\ used[1] < used[2]

\* Whatever number a report gives, 32 bits hold its difference from the least of the
\* range it is read with, and that of the ends of the range, which is not 0, unless
\* the descriptor has ends of four bytes (axis_ranges, with_ranges, Decoder::motion).
DifferencesExact ==
  input.kind = "descriptor"
    /\ (\A j \in DOMAIN input.items :
          input.items[j].tag \in {"Minimum", "Maximum"} => input.items[j].size < 4)
  => \A u \in AxisUsages :
       LET used == RangeUsed(axis_ranges(input.items), u)
       IN  /\ \A value \in {-(WORD \div 2), WORD \div 2 - 1} :
                Difference(value, used[1]) = value - used[1]
           /\ Difference(used[2], used[1]) = used[2] - used[1] /\ used[1] # used[2]

-----------------------------------------------------------------------------

\* A program that sets what it read of a word leaves another one there, of which
\* it reads the same.
ReadsBack(s, word, another) ==
  LET got == s.get[word]
  IN  got # Protocol /\ got \in DOMAIN s.set => s.set[got] = another /\ s.get[another] = got

\* What a program reads of a setting it can set again, whatever word another program
\* left there. It then reads the same; and the word is the one that was there, but
\* that any flag becomes 0 or 1, and that a negative number, which is told as 0 or as
\* no interval, is lost: 0 or -1 is put in its place (the getters and setters of
\* Config).
SettingsReadBack ==
  input.kind = "word" =>
    LET word == input.word
    IN  /\ \A s \in Flags : ReadsBack(s, word, IF word = 0 THEN 0 ELSE 1)
        /\ \A s \in {sensitivity, button_action, led} : ReadsBack(s, word, word)
        /\ \A s \in {mapped_button, key_map} : ReadsBack(s, word, IF word < 0 THEN 0 ELSE word)
        /\ ReadsBack(repeat_interval, word, IF word < 0 THEN -1 ELSE word)

\* What a program sets it reads back: a flag, a code and every number, but that one
\* past the half of the words is read as 0 where numbers are counted from 0; an
\* interval less what is not a whole millisecond, and of those just the ones that are
\* too long for a word are refused.
SettingsKept ==
  input.kind = "word" =>
    LET n == AsU32(input.word)
    IN  /\ \A s \in Flags : \A b \in BOOLEAN : s.get[s.set[b]] = b
        /\ \A s \in {sensitivity, button_action, led} :
             n \in DOMAIN s.set => s.get[s.set[n]] = n
        /\ \A s \in {mapped_button, key_map} : s.get[s.set[n]] = IF n < HALF THEN n ELSE 0
        /\ \A halves \in {2 * n, 2 * n + 1} :
             halves \in DOMAIN repeat_interval.set =>
               LET kept == repeat_interval.set[halves]
               IN  IF n < HALF THEN kept # Protocol /\ repeat_interval.get[kept] = 2 * n
                   ELSE kept = Protocol
        /\ repeat_interval.get[repeat_interval.set[None]] = None

\* A setting survives both ways round, from the word that was there and from what
\* a program sets (the getters and setters of Config).
SettingsSurvive == SettingsReadBack /\ SettingsKept

\* A string is put together only of the packets that string_packets makes of one
\* of its length, all of them and in their order, whatever came before: the rest of
\* another string, a packet left out or there twice (StringReader::push).
TextAsAnnounced ==
  input.kind = "packets" /\ input.words # <<>> /\ input.last.result = "string" =>
    LET first == Sets!Max({i \in DOMAIN input.words : input.words[i] \in 0 .. MAX_STRING})
        packets == string_packets([i \in 1 .. input.words[first] |-> NoByte])
    IN  /\ Len(input.last.text) = input.words[first]
        /\ SubSeq(input.words, first, Len(input.words)) = [i \in DOMAIN packets |-> packets[i].word]
================================================================================
