----------------------------- MODULE HidRouteProofs -----------------------------
(***************************************************************************)
(* Theorems about HidRoute, for any places of the puck, any declared range,   *)
(* any sensitivities, button reports of any length and any button map.       *)
(***************************************************************************)
EXTENDS HidRoute, HidDecoderProofs, FiniteSetTheorems

(***************************************************************************)
(* The inductive invariant.                                                 *)
(***************************************************************************)

ButtonNews == [kind : {"button"}, index : Buttons, pressed : BOOLEAN]

\* The buttons a report has down.
DownIn(data) == {ButtonMap[bit] : bit \in {b \in DOMAIN ButtonMap : IsDown(data, b)}}

\* Some button events that take an application that has some buttons down to those
\* of a report: one of a button at most, and each of them news.
TakesTo(events, down, data) ==
  /\ events \in Seq(ButtonNews)
  /\ \A k, l \in 1 .. Len(events) : events[k].index = events[l].index => k = l
  /\ \A k \in 1 .. Len(events) : events[k].pressed <=> events[k].index \notin down
  /\ \A i \in Buttons :
       i \in DownIn(data)
         <=> \/ \E k \in 1 .. Len(events) : events[k].index = i /\ events[k].pressed
             \/ i \in down /\ \A k \in 1 .. Len(events) : events[k].index # i

\* What waits are button events, or the device of a connection just made; and none
\* do while a read is in progress.
Waiting ==
  /\ \/ pending = <<DeviceEvent>> /\ TakesTo(<<>>, held, buttons)
     \/ TakesTo(pending, held, buttons)
  /\ op # "idle" => pending = <<>>

\* The application is where the last motion told, and that is where the last axes
\* read put the puck.
Placed ==
  /\ place = told
  /\ applied # 0 => told = [g \in Groups |-> ReadingOf[raw[g]][applied]]

DecoderTypes ==
  /\ line \in Seq(Report) /\ Len(line) <= MaxLine /\ gone \in BOOLEAN
  /\ raw \in [Groups -> Places] /\ buttons \in BitReports
  /\ told \in Position
  /\ sensitivity \in Sensitivities /\ applied \in Sensitivities \cup {0}

ReadTypes ==
  /\ op \in {"idle", "read_blocking", "read_timeout", "poll"}
  /\ late \in BOOLEAN /\ (late => op = "read_timeout")
  /\ result \in {"none", "event", "nothing", "Disconnected"}
  /\ held \subseteq Buttons /\ repeated = FALSE

RouteInv == DecoderTypes /\ ReadTypes /\ Waiting /\ Placed

(***************************************************************************)
(* Readings.                                                                *)
(***************************************************************************)

\* However the puck is read, what is told are numbers, and it begins at nought.
LEMMA ReadingsAreNumbers ==
  /\ \A p \in Places, s \in Sensitivities : ReadingOf[p][s] \in [1 .. 3 -> Int]
  /\ <<0, 0, 0>> \in [1 .. 3 -> Int]
<1>1. IsDeclared(Declared)
  BY PlacesAssumption DEF IsDeclared
<1>2. ASSUME NEW p \in Places, NEW s \in Sensitivities
      PROVE  ReadingOf[p][s] \in [1 .. 3 -> Int]
  <2>1. Reading(p, Declared, SwapYZ, s) \in [1 .. 3 -> Int]
    BY <1>1, ReadingType, PlacesAssumption, SensitivitiesAssumption
  <2>2. ReadingOf[p][s] = Reading(p, Declared, SwapYZ, s)
    BY Zenon DEF ReadingOf
  <2> QED BY <2>1, <2>2
<1> QED BY <1>2

\* Within the range declared they are within RANGE at that sensitivity.
LEMMA ReadingsWithin ==
  ASSUME Declared[2] - Declared[1] <= MAX_I32, NEW p \in Places, p \in [1 .. 3 -> Declared[1] .. Declared[2]],
         NEW s \in Sensitivities
  PROVE  ReadingOf[p][s] \in [1 .. 3 -> Scaled(s)]
<1>1. IsRange(Declared) /\ s \in Nat
  BY PlacesAssumption, SensitivitiesAssumption DEF IsRange
<1>2. Reading(p, Declared, SwapYZ, s) \in [1 .. 3 -> Scaled(s)]
  BY <1>1, ReadingWithin, PlacesAssumption
<1>3. ReadingOf[p][s] = Reading(p, Declared, SwapYZ, s)
  BY Zenon DEF ReadingOf
<1> QED BY <1>2, <1>3

(***************************************************************************)
(* Buttons.                                                                 *)
(***************************************************************************)

\* The events of a report take the application from the report before to it.
LEMMA ReportTakes ==
  ASSUME NEW data \in BitReports, NEW before \in BitReports, NEW down \in SUBSET Buttons,
         TakesTo(<<>>, down, before)
  PROVE  TakesTo(ButtonEvents(data, before, ButtonMap), down, data)
<1> DEFINE changed == ToldBits(data, before, ButtonMap)
           top == BitsIn(data, before)
<1>1. data \in Seq(BOOLEAN) /\ before \in Seq(BOOLEAN)
  BY BitReportsAssumption
<1>2. PICK bits \in Seq(changed) :
        /\ ButtonEvents(data, before, ButtonMap) = EventsFor(data, ButtonMap, bits)
        /\ InOrder(bits, changed, top)
  BY <1>1, ButtonEventsAre
<1>3. /\ top \in Nat /\ Len(data) \in Nat /\ Len(before) \in Nat
      /\ Len(data) <= top /\ Len(before) <= top
  BY <1>1, BitsInType, LenProperties
<1>4. \A bit \in DOMAIN ButtonMap :
        /\ bit \in Nat /\ ButtonMap[bit] \in Buttons
        /\ IsDown(data, bit) \in BOOLEAN /\ IsDown(before, bit) \in BOOLEAN
  <2>1. ASSUME NEW bit \in DOMAIN ButtonMap, NEW d \in Seq(BOOLEAN)
        PROVE  IsDown(d, bit) \in BOOLEAN
    BY DEF IsDown
  <2> QED BY <1>1, <2>1, ButtonMapAssumption DEF Buttons
<1>5. \A bit \in DOMAIN ButtonMap : bit \in changed <=> IsDown(data, bit) # IsDown(before, bit)
  <2>1. ASSUME NEW bit \in DOMAIN ButtonMap, ~(bit < top)
        PROVE  ~IsDown(data, bit) /\ ~IsDown(before, bit)
    BY <1>3, <1>4, <2>1 DEF IsDown
  <2>2. \A bit \in DOMAIN ButtonMap : bit < top => bit \in 0 .. top - 1
    BY <1>3, <1>4
  <2>3. \A bit \in 0 .. top - 1 : bit < top
    BY <1>3
  <2> HIDE DEF top
  <2> QED BY <1>4, <2>1, <2>2, <2>3 DEF ToldBits, Changed, top
<1>6. changed \subseteq DOMAIN ButtonMap
  BY DEF ToldBits
<1>7. Len(bits) \in Nat /\ \A k \in 1 .. Len(bits) : bits[k] \in changed
  BY LenProperties, ElementOfSeq
<1> DEFINE events == EventsFor(data, ButtonMap, bits)
<1> HIDE DEF changed, top
<1>8. /\ events = [k \in 1 .. Len(bits) |-> ButtonEvent(data, ButtonMap, bits[k])]
      /\ Len(events) = Len(bits)
      /\ \A k \in 1 .. Len(bits) :
           /\ events[k] \in ButtonNews
           /\ events[k].index = ButtonMap[bits[k]]
           /\ events[k].pressed = IsDown(data, bits[k])
  <2>1. events = [k \in 1 .. Len(bits) |-> ButtonEvent(data, ButtonMap, bits[k])]
    BY DEF EventsFor
  <2>2. ASSUME NEW k \in 1 .. Len(bits)
        PROVE  /\ events[k] \in ButtonNews
               /\ events[k].index = ButtonMap[bits[k]]
               /\ events[k].pressed = IsDown(data, bits[k])
    <3>1. events[k] = [kind |-> "button", index |-> ButtonMap[bits[k]],
                       pressed |-> IsDown(data, bits[k])]
      BY <2>1 DEF ButtonEvent
    <3>2. ButtonMap[bits[k]] \in Buttons /\ IsDown(data, bits[k]) \in BOOLEAN
      BY <1>4, <1>6, <1>7
    <3> QED BY <3>1, <3>2 DEF ButtonNews
  <2> HIDE DEF events
  <2>3. Len(events) = Len(bits)
    BY <1>7, <2>1
  <2> QED BY <2>1, <2>2, <2>3
<1> HIDE DEF events
<1>9. events \in Seq(ButtonNews)
  BY <1>7, <1>8
<1>10. \A b, c \in DOMAIN ButtonMap : ButtonMap[b] = ButtonMap[c] => b = c
  BY ButtonMapAssumption
<1>11. \A bit \in DOMAIN ButtonMap :
         /\ ButtonMap[bit] \in DownIn(data) <=> IsDown(data, bit)
         /\ ButtonMap[bit] \in DownIn(before) <=> IsDown(before, bit)
  BY <1>10 DEF DownIn
<1>12. \A i \in Buttons : i \in DownIn(before) <=> i \in down
  <2>1. Len(<<>>) = 0
    BY EmptySeq
  <2> QED BY <2>1 DEF TakesTo
<1>13. \A bit \in DOMAIN ButtonMap : ButtonMap[bit] \in down <=> IsDown(before, bit)
  BY <1>4, <1>11, <1>12
<1>14. \A k, l \in 1 .. Len(events) : events[k].index = events[l].index => k = l
  <2>1. ASSUME NEW k \in 1 .. Len(bits), NEW l \in 1 .. Len(bits),
               ButtonMap[bits[k]] = ButtonMap[bits[l]]
        PROVE  k = l
    <3>1. bits[k] = bits[l] /\ bits[k] \in Nat
      BY <1>4, <1>6, <1>7, <1>10, <2>1
    <3>2. ~(k < l) /\ ~(l < k)
      BY <1>2, <3>1 DEF InOrder
    <3> QED BY <1>7, <3>2
  <2> QED BY <1>8, <2>1
<1>15. \A k \in 1 .. Len(events) : events[k].pressed <=> events[k].index \notin down
  <2>1. ASSUME NEW k \in 1 .. Len(bits)
        PROVE  IsDown(data, bits[k]) <=> ButtonMap[bits[k]] \notin down
    BY <1>4, <1>5, <1>6, <1>7, <1>13
  <2> QED BY <1>8, <2>1
<1>16. ASSUME NEW i \in Buttons
       PROVE  i \in DownIn(data)
                <=> \/ \E k \in 1 .. Len(events) : events[k].index = i /\ events[k].pressed
                    \/ i \in down /\ \A k \in 1 .. Len(events) : events[k].index # i
  <2>1. PICK bit \in DOMAIN ButtonMap : i = ButtonMap[bit]
    BY DEF Buttons
  <2>2. CASE bit \in changed
    <3>1. bit \in Nat /\ bit < top
      BY <1>3, <1>4, <2>1, <2>2 DEF changed, ToldBits, top
    <3>2. PICK k \in 1 .. Len(bits) : bits[k] = bit
      BY <1>2, <2>2, <3>1 DEF InOrder
    <3>3. events[k].index = i /\ (events[k].pressed <=> i \in DownIn(data))
      BY <1>8, <1>11, <2>1, <3>2
    <3>4. \A l \in 1 .. Len(events) : events[l].index = i => l = k
      BY <1>8, <1>14, <3>2, <3>3
    <3> QED BY <1>8, <3>2, <3>3, <3>4
  <2>3. CASE bit \notin changed
    <3>1. IsDown(data, bit) = IsDown(before, bit)
      BY <1>5, <2>1, <2>3
    <3>2. \A k \in 1 .. Len(events) : events[k].index # i
      BY <1>6, <1>7, <1>8, <1>10, <2>1, <2>3
    <3>3. i \in DownIn(data) <=> i \in down
      BY <1>11, <1>13, <2>1, <3>1
    <3> QED BY <3>2, <3>3
  <2> QED BY <2>2, <2>3
<1>17. TakesTo(events, down, data)
  BY <1>9, <1>14, <1>15, <1>16 DEF TakesTo
<1> QED BY <1>2, <1>17 DEF events

\* The first of the events that wait is news, and those after it are still so.
LEMMA DeliverTakes ==
  ASSUME NEW events, NEW data, TakesTo(events, held, data), events # <<>>,
         held \subseteq Buttons, repeated = FALSE, Deliver(events)
  PROVE  /\ pending' = Tail(events) /\ TakesTo(Tail(events), held', data)
         /\ held' \subseteq Buttons /\ repeated' = FALSE
         /\ place' = place /\ Return("event")
<1> DEFINE rest == Tail(events)
           event == Head(events)
<1>1. /\ events \in Seq(ButtonNews) /\ Len(events) \in Nat
      /\ rest \in Seq(ButtonNews) /\ Len(events) = Len(rest) + 1 /\ Len(rest) \in Nat
      /\ \A k \in 1 .. Len(rest) : rest[k] = events[k + 1]
      /\ event = events[1]
  <2>1. events \in Seq(ButtonNews) /\ rest \in Seq(ButtonNews) /\ Len(rest) = Len(events) - 1
        /\ \A k \in 1 .. Len(rest) : rest[k] = events[k + 1]
    BY HeadTailProperties DEF TakesTo
  <2>2. Len(events) \in Nat /\ Len(events) # 0 /\ Len(rest) \in Nat
    BY <2>1, EmptySeq, LenProperties
  <2> QED BY <2>1, <2>2
<1>2. /\ 1 \in 1 .. Len(events) /\ event \in ButtonNews
      /\ \A k \in 1 .. Len(rest) : k + 1 \in 1 .. Len(events) /\ k + 1 # 1
  BY <1>1, ElementOfSeq
<1>3. event.kind = "button" /\ event.index \in Buttons /\ event.pressed \in BOOLEAN
  BY <1>2 DEF ButtonNews
<1>4. /\ held' = IF event.pressed THEN held \cup {event.index} ELSE held \ {event.index}
      /\ repeated' = (repeated \/ (event.pressed <=> event.index \in held))
      /\ pending' = rest /\ Return("event")
      /\ place' = place
  BY <1>3, Zenon DEF Deliver
<1>5. event.pressed <=> event.index \notin held
  BY <1>1, <1>2 DEF TakesTo
<1>6. repeated' = FALSE
  BY <1>4, <1>5
<1>7. \A k \in 1 .. Len(rest) : rest[k].index # event.index
  BY <1>1, <1>2 DEF TakesTo
<1> HIDE DEF rest, event
<1>8. \A k, l \in 1 .. Len(rest) : rest[k].index = rest[l].index => k = l
  <2>1. ASSUME NEW k \in 1 .. Len(rest), NEW l \in 1 .. Len(rest), rest[k].index = rest[l].index
        PROVE  k = l
    <3>1. k + 1 = l + 1
      BY <1>1, <1>2, <2>1 DEF TakesTo
    <3> QED BY <1>1, <3>1
  <2> QED BY <2>1
<1>9. \A i : i # event.index => (i \in held' <=> i \in held)
  BY <1>4
<1>10. \A k \in 1 .. Len(rest) : rest[k].pressed <=> rest[k].index \notin held'
  BY <1>1, <1>2, <1>7, <1>9 DEF TakesTo
<1>11. ASSUME NEW i \in Buttons
       PROVE  i \in DownIn(data)
                <=> \/ \E k \in 1 .. Len(rest) : rest[k].index = i /\ rest[k].pressed
                    \/ i \in held' /\ \A k \in 1 .. Len(rest) : rest[k].index # i
  <2>1. i \in DownIn(data)
          <=> \/ \E k \in 1 .. Len(events) : events[k].index = i /\ events[k].pressed
              \/ i \in held /\ \A k \in 1 .. Len(events) : events[k].index # i
    BY DEF TakesTo
  <2>2. CASE i = event.index
    <3>1. i \in DownIn(data) <=> event.pressed
      BY <1>1, <1>2, <2>1, <2>2 DEF TakesTo
    <3>2. i \in held' <=> event.pressed
      BY <1>4, <2>2
    <3> QED BY <1>7, <2>2, <3>1, <3>2
  <2>3. CASE i # event.index
    <3>1. \A k \in 1 .. Len(events) : k = 1 \/ k - 1 \in 1 .. Len(rest)
      BY <1>1
    <3>2. \A k \in 1 .. Len(events) : k # 1 => rest[k - 1] = events[k]
      BY <1>1, <3>1
    <3>3. (\E k \in 1 .. Len(events) : events[k].index = i /\ events[k].pressed)
            <=> \E k \in 1 .. Len(rest) : rest[k].index = i /\ rest[k].pressed
      BY <1>1, <1>2, <2>3, <3>1, <3>2
    <3>4. (\A k \in 1 .. Len(events) : events[k].index # i)
            <=> \A k \in 1 .. Len(rest) : rest[k].index # i
      BY <1>1, <1>2, <2>3, <3>1, <3>2
    <3> QED BY <1>9, <2>1, <2>3, <3>3, <3>4
  <2> QED BY <2>2, <2>3
<1>12. TakesTo(rest, held', data)
  BY <1>1, <1>8, <1>10, <1>11 DEF TakesTo
<1>13. held' \subseteq Buttons
  BY <1>3, <1>4
<1> QED BY <1>4, <1>6, <1>12, <1>13 DEF rest

\* There is never more than one event of a button.
LEMMA FewWait ==
  ASSUME NEW events, NEW down, NEW data, TakesTo(events, down, data)
  PROVE  Len(events) <= Cardinality(Buttons)
<1>1. /\ Len(events) \in Nat
      /\ \A k \in 1 .. Len(events) : events[k].index \in Buttons
  <2>1. events \in Seq(ButtonNews)
    BY DEF TakesTo
  <2>2. Len(events) \in Nat /\ \A k \in 1 .. Len(events) : events[k] \in ButtonNews
    BY <2>1, LenProperties, ElementOfSeq
  <2>3. \A e \in ButtonNews : e.index \in Buttons
    BY DEF ButtonNews
  <2> QED BY <2>2, <2>3
<1>2. IsFiniteSet(Buttons)
  <2> DEFINE f == [bit \in DOMAIN ButtonMap |-> ButtonMap[bit]]
  <2>1. f \in Surjection(DOMAIN ButtonMap, Buttons)
    BY DEF Surjection, Buttons
  <2> HIDE DEF f
  <2> QED BY <2>1, FS_Surjection, ButtonMapAssumption
<1> DEFINE g == [k \in 1 .. Len(events) |-> events[k].index]
<1>3. g \in Injection(1 .. Len(events), Buttons)
  BY <1>1 DEF Injection, IsInjective, TakesTo
<1> HIDE DEF g
<1>4. Cardinality(1 .. Len(events)) <= Cardinality(Buttons)
  BY <1>2, <1>3, FS_Injection
<1>5. Cardinality(1 .. Len(events)) = Len(events)
  <2>1. Cardinality(1 .. Len(events)) = IF 1 > Len(events) THEN 0 ELSE Len(events) - 1 + 1
    <3>1. \A n \in Int : Cardinality(1 .. n) = IF 1 > n THEN 0 ELSE n - 1 + 1
      BY FS_Interval
    <3> QED BY <1>1, <3>1
  <2> QED BY <1>1, <2>1
<1> QED BY <1>4, <1>5

(***************************************************************************)
(* The invariant is inductive, and says what the connection promises.       *)
(***************************************************************************)

\* A connection begins with nothing held, nothing on its way and the puck at nought.
LEMMA RouteInvInit == Init => RouteInv
<1> SUFFICES ASSUME Init
             PROVE  RouteInv
  OBVIOUS
<1>1. TakesTo(<<>>, {}, <<>>)
  <2>1. <<>> \in Seq(ButtonNews) /\ Len(<<>>) = 0
    BY EmptySeq
  <2>2. \A bit \in DOMAIN ButtonMap : ~IsDown(<<>>, bit)
    BY <2>1, ButtonMapAssumption DEF IsDown
  <2>3. \A i \in Buttons : i \notin DownIn(<<>>)
    BY <2>2 DEF DownIn
  <2> QED BY <2>1, <2>3 DEF TakesTo
<1>2. Waiting
  BY <1>1 DEF Init, Waiting
<1>3. Placed
  BY DEF Init, Placed
<1>4. ReadTypes
  BY DEF Init, ReadTypes
<1>5. line \in Seq(Report) /\ Len(line) <= MaxLine
  BY EmptySeq, LineAssumption DEF Init
<1>6. raw \in [Groups -> Places] /\ told \in Position
  BY PlacesAssumption, ReadingsAreNumbers DEF Init, AtRest, Position
<1>7. buttons \in BitReports /\ sensitivity \in Sensitivities
  BY BitReportsAssumption, SensitivitiesAssumption DEF Init
<1>8. gone \in BOOLEAN /\ applied \in Sensitivities \cup {0}
  BY DEF Init
<1>9. DecoderTypes
  BY <1>5, <1>6, <1>7, <1>8 DEF DecoderTypes
<1> QED BY <1>2, <1>3, <1>4, <1>9 DEF RouteInv

\* The system goes on keeping the newest reports, and no more than it has room for.
LEMMA DeviceKeeps ==
  ASSUME RouteInv, Device
  PROVE  RouteInv'
<1>1. UNCHANGED <<raw, buttons, told, applied, sensitivity, pending, op, late, result,
                  held, repeated, place>>
  BY DEF Device, decoderVars, knownVars
<1>2. line \in Seq(Report) /\ Len(line) \in Nat /\ Len(line) <= MaxLine /\ MaxLine \in Nat \ {0}
  BY LenProperties, LineAssumption DEF RouteInv, DecoderTypes
<1>3. line' \in Seq(Report) /\ Len(line') <= MaxLine /\ gone' \in BOOLEAN
  <2>1. CASE SendReport
    <3>1. PICK report \in Report :
            line' = IF Len(line) < MaxLine THEN Append(line, report)
                    ELSE Append(Tail(line), report)
      BY <2>1 DEF SendReport
    <3>2. gone' \in BOOLEAN
      BY <2>1 DEF SendReport, RouteInv, DecoderTypes
    <3>3. CASE Len(line) < MaxLine
      BY <1>2, <3>1, <3>2, <3>3, AppendProperties
    <3>4. CASE ~(Len(line) < MaxLine)
      <4>1. Len(line) # 0
        BY <1>2, <3>4
      <4>2. line # <<>>
        BY <4>1, EmptySeq
      <4>3. Tail(line) \in Seq(Report) /\ Len(Tail(line)) = Len(line) - 1
        BY <1>2, <4>2, HeadTailProperties
      <4> QED BY <1>2, <3>1, <3>2, <3>4, <4>3, AppendProperties
    <3> QED BY <3>3, <3>4
  <2>2. CASE Unplug
    <3>1. <<>> \in Seq(Report) /\ Len(<<>>) = 0
      BY EmptySeq
    <3>2. (line' = line \/ line' = <<>>) /\ gone' = TRUE
      BY <2>2 DEF Unplug
    <3>3. CASE line' = line
      BY <1>2, <3>2, <3>3
    <3>4. CASE line' = <<>>
      <4>1. line' \in Seq(Report) /\ Len(line') = 0
        BY <3>1, <3>4, Zenon
      <4> QED BY <1>2, <3>2, <4>1
    <3> QED BY <3>2, <3>3, <3>4
  <2> QED BY <2>1, <2>2 DEF Device
<1>4. DecoderTypes'
  BY <1>1, <1>3 DEF RouteInv, DecoderTypes
<1>5. ReadTypes' /\ Waiting' /\ Placed'
  BY <1>1 DEF RouteInv, ReadTypes, Waiting, Placed
<1> QED BY <1>4, <1>5 DEF RouteInv

\* What a report has of each kind.
LEMMA ReportIs ==
  ASSUME NEW report \in Report
  PROVE  /\ report.kind \in {"axes", "buttons", "other"}
         /\ report.kind = "axes" =>
              \A g \in Groups : g \in DOMAIN report.axes => report.axes[g] \in Places
         /\ report.kind = "buttons" => report.bits \in BitReports
<1>1. CASE report \in [kind : {"axes"},
                       axes : UNION {[gs -> Places] : gs \in {{"push"}, {"twist"}, Groups}}]
  <2>1. report.kind = "axes"
        /\ report.axes \in UNION {[gs -> Places] : gs \in {{"push"}, {"twist"}, Groups}}
    BY <1>1
  <2>2. PICK gs \in {{"push"}, {"twist"}, Groups} : report.axes \in [gs -> Places]
    BY <2>1
  <2> QED BY <2>1, <2>2
<1>2. CASE report \in [kind : {"buttons"}, bits : BitReports]
  BY <1>2
<1>3. CASE report \in [kind : {"other"}]
  BY <1>3
<1> QED BY <1>1, <1>2, <1>3 DEF Report

\* A read that came to no event leaves what the application knows.
LEMMA NoEventKeeps ==
  ASSUME ReadTypes, op # "idle", NoEvent
  PROVE  /\ ReadTypes' /\ UNCHANGED <<pending, held, repeated, place>>
         /\ op' \in {"idle", op}
<1>1. UNCHANGED <<pending, held, repeated, place>>
  BY DEF NoEvent, knownVars
<1>2. \/ op' = "idle" /\ late' = FALSE /\ result' = "nothing"
      \/ UNCHANGED <<op, late, result>>
  BY Zenon DEF NoEvent, Return, KeepReading
<1>3. ReadTypes'
  <2>1. CASE op' = "idle" /\ late' = FALSE /\ result' = "nothing"
    BY <1>1, <2>1 DEF ReadTypes
  <2>2. CASE UNCHANGED <<op, late, result>>
    BY <1>1, <2>2 DEF ReadTypes
  <2> QED BY <1>2, <2>1, <2>2
<1> QED BY <1>1, <1>2, <1>3

\* An axes report moves the application along, or leaves it where it is already.
LEMMA AxesKeep ==
  ASSUME RouteInv, ReadReport, Head(line) \in Report, Head(line).kind = "axes"
  PROVE  ReadTypes' /\ Waiting' /\ Placed' /\ raw' \in [Groups -> Places]
         /\ buttons' = buttons /\ told' \in Position
         /\ applied' \in Sensitivities \cup {0}
<1> DEFINE report == Head(line)
<1>1. /\ op # "idle" /\ pending = <<>> /\ TakesTo(<<>>, held, buttons)
      /\ place = told /\ sensitivity \in Sensitivities
  BY DEF ReadReport, RouteInv, Waiting, Placed, DecoderTypes
<1>2. /\ raw' = RawAfter(report) /\ told' = ToldAfter(report)
      /\ buttons' = buttons /\ applied' = sensitivity
  BY Zenon DEF ReadReport, Feed
<1>3. RawAfter(report)
        = [g \in Groups |-> IF g \in DOMAIN report.axes THEN report.axes[g] ELSE raw[g]]
  BY Zenon DEF RawAfter
<1>4. ToldAfter(report) = [g \in Groups |-> ReadingOf[RawAfter(report)[g]][sensitivity]]
  BY Zenon DEF ToldAfter
<1>5. \A g \in Groups : g \in DOMAIN report.axes => report.axes[g] \in Places
  BY ReportIs
<1>6. raw' \in [Groups -> Places]
  <2>1. raw \in [Groups -> Places]
    BY DEF RouteInv, DecoderTypes
  <2> HIDE DEF report
  <2> QED BY <1>2, <1>3, <1>5, <2>1
<1>7. told' = [g \in Groups |-> ReadingOf[raw'[g]][sensitivity]]
  BY <1>2, <1>4, Zenon
<1>8. told' \in Position
  BY <1>1, <1>6, <1>7, ReadingsAreNumbers DEF Position
<1>9. \/ /\ EventsOf(report) = <<[kind |-> "motion", place |-> ToldAfter(report)]>>
         /\ ToldAfter(report) # told
      \/ /\ EventsOf(report) = <<>> /\ ToldAfter(report) = told
  BY DEF EventsOf, Moved
<1>10. /\ place' = told' /\ pending' = <<>> /\ held' = held
       /\ ReadTypes'
  <2>1. CASE EventsOf(report) = <<>> /\ ToldAfter(report) = told
    <3>1. NoEvent
      BY <2>1, Zenon DEF ReadReport
    <3>2. ReadTypes
      BY DEF RouteInv
    <3> QED BY <1>1, <1>2, <2>1, <3>1, <3>2, NoEventKeeps
  <2>2. CASE EventsOf(report) = <<[kind |-> "motion", place |-> ToldAfter(report)]>>
    <3> DEFINE motion == [kind |-> "motion", place |-> ToldAfter(report)]
    <3>1. <<motion>> # <<>> /\ Head(<<motion>>) = motion /\ Tail(<<motion>>) = <<>>
      <4> HIDE DEF motion
      <4> QED OBVIOUS
    <3>2. Deliver(<<motion>>)
      BY <2>2, <3>1, Zenon DEF ReadReport
    <3>3. motion.kind = "motion" /\ motion.place = ToldAfter(report) /\ motion.kind # "button"
      OBVIOUS
    <3> HIDE DEF motion, report
    <3>4. /\ Return("event") /\ pending' = <<>> /\ UNCHANGED <<held, repeated>>
          /\ place' = ToldAfter(report)
      BY <3>1, <3>2, <3>3, Zenon DEF Deliver
    <3>5. ReadTypes'
      BY <3>4 DEF Return, RouteInv, ReadTypes
    <3> QED BY <1>2, <3>4, <3>5
  <2> QED BY <1>9, <2>1, <2>2
<1>11. Waiting'
  BY <1>1, <1>2, <1>10 DEF Waiting
<1>12. Placed'
  BY <1>2, <1>7, <1>10, Zenon DEF Placed
<1> QED BY <1>1, <1>2, <1>6, <1>8, <1>10, <1>11, <1>12

\* A button report tells what it changes, the first of it at once.
LEMMA ButtonsKeep ==
  ASSUME RouteInv, ReadReport, Head(line) \in Report, Head(line).kind = "buttons"
  PROVE  ReadTypes' /\ Waiting' /\ Placed' /\ raw' = raw /\ told' = told
         /\ applied' = applied /\ buttons' \in BitReports
<1> DEFINE data == Head(line).bits
           events == ButtonEvents(data, buttons, ButtonMap)
<1>1. /\ op # "idle" /\ pending = <<>> /\ TakesTo(<<>>, held, buttons)
      /\ held \subseteq Buttons /\ repeated = FALSE /\ buttons \in BitReports
  BY DEF ReadReport, RouteInv, Waiting, ReadTypes, DecoderTypes
<1>2. data \in BitReports
  BY ReportIs
<1>3. Head(line).kind # "axes"
  OBVIOUS
<1>4. raw' = raw /\ told' = told /\ buttons' = data /\ applied' = applied
  BY <1>3, Zenon DEF ReadReport, Feed, RawAfter, ToldAfter
<1>5. EventsOf(Head(line)) = events
  BY DEF EventsOf
<1>6. TakesTo(events, held, data)
  BY <1>1, <1>2, ReportTakes
<1> HIDE DEF events, data
<1>7. IF events = <<>> THEN NoEvent ELSE Deliver(events)
  BY <1>5, Zenon DEF ReadReport
<1>8. ReadTypes' /\ Waiting' /\ place' = place
  <2>1. CASE events = <<>>
    <3>1. ReadTypes' /\ UNCHANGED <<pending, held, place>>
      BY <1>1, <1>7, <2>1, NoEventKeeps DEF RouteInv
    <3> QED BY <1>1, <1>4, <1>6, <2>1, <3>1 DEF Waiting
  <2>2. CASE events # <<>>
    <3>1. /\ pending' = Tail(events) /\ TakesTo(Tail(events), held', data)
          /\ held' \subseteq Buttons /\ repeated' = FALSE
          /\ place' = place /\ Return("event")
      BY <1>1, <1>6, <1>7, <2>2, DeliverTakes
    <3>2. ReadTypes'
      BY <3>1 DEF Return, ReadTypes
    <3>3. Waiting'
      BY <1>4, <3>1 DEF Return, Waiting
    <3> QED BY <3>1, <3>2, <3>3
  <2> QED BY <2>1, <2>2
<1>9. Placed'
  BY <1>4, <1>8 DEF RouteInv, Placed
<1> QED BY <1>2, <1>4, <1>8, <1>9

\* Any other report changes nothing.
LEMMA OtherKeeps ==
  ASSUME RouteInv, ReadReport, Head(line).kind = "other"
  PROVE  ReadTypes' /\ Waiting' /\ Placed' /\ raw' = raw /\ told' = told
         /\ applied' = applied /\ buttons' = buttons
<1>1. Head(line).kind # "axes" /\ Head(line).kind # "buttons"
  OBVIOUS
<1>2. raw' = raw /\ told' = told /\ buttons' = buttons /\ applied' = applied
  BY <1>1, Zenon DEF ReadReport, Feed, RawAfter, ToldAfter
<1>3. EventsOf(Head(line)) = <<>>
  BY <1>1 DEF EventsOf
<1>4. NoEvent
  BY <1>3, Zenon DEF ReadReport
<1>5. ReadTypes' /\ UNCHANGED <<pending, held, place>> /\ op # "idle"
  BY <1>4, NoEventKeeps DEF RouteInv, ReadReport
<1>6. pending = <<>>
  BY <1>5 DEF RouteInv, Waiting
<1>7. Waiting' /\ Placed'
  BY <1>2, <1>5, <1>6 DEF RouteInv, Waiting, Placed
<1> QED BY <1>2, <1>5, <1>7

\* A turn of read_for that finds a report, whatever its kind.
LEMMA ReadReportKeeps ==
  ASSUME RouteInv, ReadReport
  PROVE  RouteInv'
<1>1. line \in Seq(Report) /\ line # <<>> /\ line' = Tail(line)
  BY DEF RouteInv, DecoderTypes, ReadReport
<1>2. Head(line) \in Report /\ line' \in Seq(Report) /\ Len(line') = Len(line) - 1
      /\ Len(line) \in Nat
  BY <1>1, HeadTailProperties, LenProperties
<1>3. line' \in Seq(Report) /\ Len(line') <= MaxLine /\ gone' \in BOOLEAN
      /\ sensitivity' \in Sensitivities
  BY <1>2, LineAssumption DEF RouteInv, DecoderTypes, ReadReport
<1>4. ReadTypes' /\ Waiting' /\ Placed' /\ raw' \in [Groups -> Places]
      /\ told' \in Position /\ applied' \in Sensitivities \cup {0}
      /\ buttons' \in BitReports
  <2>1. /\ raw \in [Groups -> Places] /\ told \in Position
        /\ applied \in Sensitivities \cup {0} /\ buttons \in BitReports
    BY DEF RouteInv, DecoderTypes
  <2>2. Head(line).kind \in {"axes", "buttons", "other"}
    BY <1>2, ReportIs
  <2>3. CASE Head(line).kind = "axes"
    BY <1>2, <2>1, <2>3, AxesKeep
  <2>4. CASE Head(line).kind = "buttons"
    BY <1>2, <2>1, <2>4, ButtonsKeep
  <2>5. CASE Head(line).kind = "other"
    BY <2>1, <2>5, OtherKeeps
  <2> QED BY <2>2, <2>3, <2>4, <2>5
<1>5. DecoderTypes'
  BY <1>3, <1>4 DEF DecoderTypes
<1> QED BY <1>4, <1>5 DEF RouteInv

\* What waits is handed on, one event at a time.
LEMMA PopPendingKeeps ==
  ASSUME RouteInv, PopPending
  PROVE  RouteInv'
<1>1. /\ op = "idle" /\ pending # <<>> /\ Deliver(pending)
      /\ UNCHANGED <<line, gone, raw, buttons, told, applied, sensitivity>>
  BY DEF PopPending, deviceVars, decoderVars
<1>2. DecoderTypes'
  BY <1>1 DEF RouteInv, DecoderTypes
<1>3. held \subseteq Buttons /\ repeated = FALSE
  BY DEF RouteInv, ReadTypes
<1>4. ReadTypes' /\ Waiting' /\ place' = place
  <2>1. CASE TakesTo(pending, held, buttons)
    <3>1. /\ pending' = Tail(pending) /\ TakesTo(Tail(pending), held', buttons)
          /\ held' \subseteq Buttons /\ repeated' = FALSE
          /\ place' = place /\ Return("event")
      BY <1>1, <1>3, <2>1, DeliverTakes
    <3> QED BY <1>1, <3>1 DEF Return, ReadTypes, Waiting
  <2>2. CASE pending = <<DeviceEvent>> /\ TakesTo(<<>>, held, buttons)
    <3>1. Head(pending) = DeviceEvent /\ Tail(pending) = <<>>
      BY <2>2
    <3>2. DeviceEvent.kind # "button" /\ DeviceEvent.kind # "motion"
      BY DEF DeviceEvent
    <3>3. Return("event") /\ pending' = <<>> /\ UNCHANGED <<held, repeated, place>>
      BY <1>1, <3>1, <3>2, Zenon DEF Deliver
    <3> QED BY <1>1, <1>3, <2>2, <3>3 DEF Return, ReadTypes, Waiting
  <2> QED BY <2>1, <2>2 DEF RouteInv, Waiting
<1>5. Placed'
  BY <1>1, <1>4 DEF RouteInv, Placed
<1> QED BY <1>2, <1>4, <1>5 DEF RouteInv

\* No step of the device, the decoder or the reads breaks it.
LEMMA RouteInvNext == RouteInv /\ [Next]_vars => RouteInv'
<1> SUFFICES ASSUME RouteInv, [Next]_vars
             PROVE  RouteInv'
  OBVIOUS
<1>1. CASE Device
  BY <1>1, DeviceKeeps
<1>2. CASE ReadReport
  BY <1>2, ReadReportKeeps
<1>3. CASE ReadNothing
  <2>1. op # "idle" /\ NoEvent
        /\ UNCHANGED <<line, gone, raw, buttons, told, applied, sensitivity>>
    BY <1>3 DEF ReadNothing, deviceVars, decoderVars
  <2>2. ReadTypes' /\ UNCHANGED <<pending, held, repeated, place>> /\ op' \in {"idle", op}
    BY <2>1, NoEventKeeps DEF RouteInv
  <2> QED BY <2>1, <2>2 DEF RouteInv, DecoderTypes, Waiting, Placed
<1>4. CASE ReadFails
  BY <1>4 DEF ReadFails, Return, deviceVars, decoderVars, knownVars,
              RouteInv, DecoderTypes, ReadTypes, Waiting, Placed
<1>5. CASE DeadlinePasses
  BY <1>5 DEF DeadlinePasses, deviceVars, decoderVars, knownVars,
              RouteInv, DecoderTypes, ReadTypes, Waiting, Placed
<1>6. CASE PopPending
  BY <1>6, PopPendingKeeps
<1>7. CASE BeginRead
  BY <1>7 DEF BeginRead, deviceVars, decoderVars, knownVars,
              RouteInv, DecoderTypes, ReadTypes, Waiting, Placed
<1>8. CASE SetSensitivity
  BY <1>8 DEF SetSensitivity, deviceVars, decoderVars, knownVars,
              RouteInv, DecoderTypes, ReadTypes, Waiting, Placed
<1>9. CASE UNCHANGED vars
  BY <1>9 DEF vars, deviceVars, decoderVars, knownVars,
              RouteInv, DecoderTypes, ReadTypes, Waiting, Placed
<1> QED BY <1>1, <1>2, <1>3, <1>4, <1>5, <1>6, <1>7, <1>8, <1>9 DEF Next, ReadStep

\* The types: each part of TypeOK is one of the invariant's, the queue's among them.
LEMMA RouteInvTypes == RouteInv => TypeOK
<1> SUFFICES ASSUME RouteInv
             PROVE  TypeOK
  OBVIOUS
<1>1. DecoderTypes /\ ReadTypes /\ place = told
  BY DEF RouteInv, Placed
<1>2. /\ \A i \in 1 .. Len(pending) : pending[i] \in Event
      /\ Len(pending) <= Cardinality(Buttons) \/ pending = <<DeviceEvent>>
  <2>1. CASE pending = <<DeviceEvent>>
    <3>1. Len(pending) = 1 /\ pending[1] = DeviceEvent
      BY <2>1
    <3> QED BY <2>1, <3>1 DEF Event
  <2>2. CASE TakesTo(pending, held, buttons)
    <3>1. \A i \in 1 .. Len(pending) : pending[i] \in ButtonNews
      BY <2>2, ElementOfSeq DEF TakesTo
    <3>2. ButtonNews \subseteq Event
      BY DEF ButtonNews, Event
    <3> QED BY <2>2, <3>1, <3>2, FewWait
  <2> QED BY <2>1, <2>2 DEF RouteInv, Waiting
<1> QED BY <1>1, <1>2 DEF DecoderTypes, ReadTypes, TypeOK

\* The buttons: of one event of a button at most, the last is the only one.
LEMMA RouteInvButtons == RouteInv => ButtonsTold
<1> SUFFICES ASSUME RouteInv
             PROVE  ButtonsTold
  OBVIOUS
<1>1. held \subseteq Buttons /\ DownIn(buttons) \subseteq Buttons
  BY DEF RouteInv, ReadTypes, DownIn, Buttons
<1>2. ASSUME NEW i \in Buttons
      PROVE  i \in HeldAfter(pending) <=> i \in DownIn(buttons)
  <2>1. CASE pending = <<DeviceEvent>> /\ TakesTo(<<>>, held, buttons)
    <3>1. \A k \in 1 .. Len(pending) : pending[k].kind # "button"
      BY <2>1 DEF DeviceEvent
    <3>2. i \in HeldAfter(pending) <=> i \in held
      BY <3>1 DEF HeldAfter
    <3>3. Len(<<>>) = 0
      BY EmptySeq
    <3> QED BY <2>1, <3>2, <3>3 DEF TakesTo
  <2>2. CASE TakesTo(pending, held, buttons)
    <3>1. pending \in Seq(ButtonNews) /\ Len(pending) \in Nat
      BY <2>2, LenProperties DEF TakesTo
    <3>2. \A k \in 1 .. Len(pending) : pending[k].kind = "button"
      <4>1. \A k \in 1 .. Len(pending) : pending[k] \in ButtonNews
        BY <3>1, ElementOfSeq
      <4>2. \A e \in ButtonNews : e.kind = "button"
        BY DEF ButtonNews
      <4> QED BY <4>1, <4>2
    <3>3. \A k, l \in 1 .. Len(pending) : pending[k].index = pending[l].index => k = l
      BY <2>2 DEF TakesTo
    <3>4. \A k \in 1 .. Len(pending) : pending[k].index = i =>
            \A l \in k + 1 .. Len(pending) : pending[l].index # i
      BY <3>1, <3>3
    <3>5. i \in HeldAfter(pending)
            <=> IF \E k \in 1 .. Len(pending) : pending[k].index = i
                THEN \E k \in 1 .. Len(pending) : pending[k].index = i /\ pending[k].pressed
                ELSE i \in held
      BY <3>2, <3>4 DEF HeldAfter
    <3> QED BY <2>2, <3>5 DEF TakesTo
  <2> QED BY <2>1, <2>2 DEF RouteInv, Waiting
<1>3. HeldAfter(pending) \subseteq Buttons
  BY DEF HeldAfter
<1>4. HeldAfter(pending) = DownIn(buttons)
  BY <1>1, <1>2, <1>3
<1> QED BY <1>4 DEF ButtonsTold, DownIn

\* The readings: of each group, at the sensitivity last applied.
LEMMA RouteInvReadings == RouteInv => ReadingsInRange
<1> SUFFICES ASSUME RouteInv, applied # 0, Declared[2] - Declared[1] <= MAX_I32,
                    NEW g \in Groups,
                    raw[g] \in [1 .. 3 -> Declared[1] .. Declared[2]]
             PROVE  place[g] \in [1 .. 3 -> Scaled(applied)]
  BY DEF ReadingsInRange, Scaled
<1>1. raw[g] \in Places /\ applied \in Sensitivities
  BY DEF RouteInv, DecoderTypes
<1>2. place[g] = ReadingOf[raw[g]][applied]
  BY DEF RouteInv, Placed
<1> QED BY <1>1, <1>2, ReadingsWithin

(***************************************************************************)
(* The theorems.                                                            *)
(***************************************************************************)

\* Every variable keeps its type: for any places of the puck and any sensitivities,
\* and for any button map no more events wait than there are buttons (Decoder::feed).
THEOREM TypeCorrect == Spec => []TypeOK
<1>1. Init => RouteInv
  BY RouteInvInit
<1>2. RouteInv /\ [Next]_vars => RouteInv'
  BY RouteInvNext
<1>3. RouteInv => TypeOK
  BY RouteInvTypes
<1> QED BY <1>1, <1>2, <1>3, PTL DEF Spec

\* The application has the buttons of the last report read, once it has what waits:
\* however many buttons a report changes and however few bits it has, no button
\* sticks (Decoder::feed, Client::read_for).
THEOREM ButtonsAlwaysTold == Spec => []ButtonsTold
<1>1. Init => RouteInv
  BY RouteInvInit
<1>2. RouteInv /\ [Next]_vars => RouteInv'
  BY RouteInvNext
<1>3. RouteInv => ButtonsTold
  BY RouteInvButtons
<1> QED BY <1>1, <1>2, <1>3, PTL DEF Spec

\* Of each button it is told a press and a release in turn, never the same twice
\* (Decoder::feed).
THEOREM ButtonsAlwaysAlternate == Spec => []ButtonsAlternate
<1>1. Init => RouteInv
  BY RouteInvInit
<1>2. RouteInv /\ [Next]_vars => RouteInv'
  BY RouteInvNext
<1>3. RouteInv => ButtonsAlternate
  BY DEF RouteInv, ReadTypes, ButtonsAlternate
<1> QED BY <1>1, <1>2, <1>3, PTL DEF Spec

\* It has the puck where the last axes read put it: a motion that is left out, since
\* it would tell what the last one told, is never missed (Decoder::motion).
THEOREM PlaceAlwaysTold == Spec => []PlaceTold
<1>1. Init => RouteInv
  BY RouteInvInit
<1>2. RouteInv /\ [Next]_vars => RouteInv'
  BY RouteInvNext
<1>3. RouteInv => PlaceTold
  BY DEF RouteInv, Placed, PlaceTold
<1> QED BY <1>1, <1>2, <1>3, PTL DEF Spec

\* No number it is told is beyond RANGE at the sensitivity applied, for any range a
\* device may declare of a width 32 bits hold, and any puck that keeps to it; nothing is said of one that does
\* not, and nothing is assumed of it (Decoder::motion).
THEOREM ReadingsStayInRange == Spec => []ReadingsInRange
<1>1. Init => RouteInv
  BY RouteInvInit
<1>2. RouteInv /\ [Next]_vars => RouteInv'
  BY RouteInvNext
<1>3. RouteInv => ReadingsInRange
  BY RouteInvReadings
<1> QED BY <1>1, <1>2, <1>3, PTL DEF Spec

=============================================================================
