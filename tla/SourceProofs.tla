------------------------------- MODULE SourceProofs -------------------------------
(***************************************************************************)
(* Theorems about Source, for every build there is, every time limit and     *)
(* length of a step, and however often the daemon, the driver and the device *)
(* come and go.                                                              *)
(***************************************************************************)
EXTENDS Source, MagellanProofs

\* A display server that has gone holds nothing; and a driver that has its window
\* named has interned its names, and is the one the root's property points at only
\* once it is up.
DisplayKnows ==
  /\ gone => driver = "off" /\ advertised = 0 /\ ~hears /\ commands = <<>>
  /\ driver \in {"named", "up"} => DriverNames \subseteq interned
  /\ driver = "up" => advertised = starts
  /\ driver # "off" => starts > 0
  /\ starts > 0 /\ advertised = starts => driver \in {"up", "off"}

\* One route is asked, or has been taken; a client of the display's belongs to it.
Chosen ==
  /\ routes \in Builds /\ daemon \in BOOLEAN /\ device \in BOOLEAN /\ link \in BOOLEAN
  /\ turns \in 0 .. MaxTurns /\ trying \in 0 .. Len(routes)
  /\ route \in {"none"} \cup {routes[i] : i \in 1 .. Len(routes)}
  /\ route # "none" => trying = 0
  /\ op = "connect" => trying > 0 /\ routes[trying] = "magellan"
  /\ stage # 0 => route = "magellan" \/ (trying > 0 /\ routes[trying] = "magellan")
  /\ op \in Reads => route = "magellan"
  /\ stage = Connected /\ failed => gone

\* As long as a driver answers, connect finds the names it has asked for, and the
\* window it has found is the driver's.
OnItsWay ==
  \/ /\ op = "connect"
     /\ \A i \in 1 .. 5 : i <= stage /\ Names[i] \in DriverNames => Names[i] \in atoms
     /\ stage = ReadsName => window = starts
  \/ op = "idle" /\ stage = Connected

\* What the history says of the routes, while one is asked.
Asked ==
  trying > 0 =>
    /\ \A r \in {routes[i] : i \in 1 .. Len(routes)} :
         (r \in steady => Answers(r)) /\ (Answers(r) => r \in seen)
    /\ \A i \in 1 .. Len(routes) : i < trying => routes[i] \notin steady
    /\ routes[trying] = "magellan" /\ "magellan" \in steady => OnItsWay
    /\ stage = ReadsName /\ window = starts => driver \in {"up", "off"}
    /\ stage = Connected => "magellan" \in seen

SourceInv == TypeInv /\ DisplayKnows /\ Chosen /\ Asked

-----------------------------------------------------------------------------

\* A build has up to three routes, and each of them once.
LEMMA RoutesAre ==
  ASSUME NEW b \in Builds
  PROVE  /\ Len(b) \in 1 .. 3
         /\ \A i \in 1 .. Len(b) : b[i] \in {"daemon", "magellan", "hid"}
         /\ \A i, j \in 1 .. Len(b) : b[i] = b[j] => i = j
<1>1. \/ b = <<"daemon", "magellan", "hid">> \/ b = <<"daemon", "magellan">>
      \/ b = <<"daemon", "hid">> \/ b = <<"daemon">> \/ b = <<"hid">>
  BY SourceAssumption
<1>2. CASE b = <<"daemon", "magellan", "hid">>
  BY <1>2
<1>3. CASE b = <<"daemon", "magellan">>
  BY <1>3
<1>4. CASE b = <<"daemon", "hid">>
  BY <1>4
<1>5. CASE b = <<"daemon">>
  BY <1>5
<1>6. CASE b = <<"hid">>
  BY <1>6
<1> QED BY <1>1, <1>2, <1>3, <1>4, <1>5, <1>6

\* What the assumptions and the types say of the numbers.
LEMMA SourceNumbers ==
  ASSUME SourceInv
  PROVE  /\ starts \in Nat /\ advertised \in Nat /\ advertised <= starts
         /\ window \in Nat /\ window <= starts /\ stage \in 0 .. 7
         /\ trying \in 0 .. Len(routes) /\ Len(routes) \in 1 .. 3
<1>1. Len(routes) \in 1 .. 3
  BY RoutesAre DEF SourceInv, Chosen
<1>2. starts \in Nat /\ MaxStarts \in Nat
  BY TypeInvNumbers DEF SourceInv
<1>3. stage \in 0 .. 7
  BY NamesAre DEF SourceInv, TypeInv, Connection
<1> QED BY <1>1, <1>2, <1>3 DEF SourceInv, Chosen, TypeInv, DisplayTypes, Connection

\* The histories of the routes that answer, while one is asked.
LEMMA HistoryIs ==
  ASSUME Steady, UNCHANGED routes, trying' > 0, trying \in Nat
  PROVE  /\ \A r \in {routes[i] : i \in 1 .. Len(routes)} :
              /\ r \in steady' => Answers(r)' /\ (trying > 0 => r \in steady)
              /\ Answers(r)' => r \in seen'
         /\ trying > 0 => seen \subseteq seen'
BY DEF Steady

-----------------------------------------------------------------------------
(* The display. *)

\* The display keeps its own order.
LEMMA KnowsNext ==
  ASSUME TypeInv, DisplayKnows, [Next]_magellanVars
  PROVE  DisplayKnows'
<1>1. starts \in Nat /\ advertised \in Nat /\ advertised <= starts
  BY TypeInvNumbers DEF TypeInv, DisplayTypes
<1>2. CASE DriverStep
  <2>1. ~gone /\ gone' = gone
    BY <1>2 DEF DriverStep
  <2>2. CASE DriverStarts
    BY <1>1, <2>1, <2>2 DEF DriverStarts, DisplayKnows
  <2>3. CASE DriverInterns
    BY <1>1, <2>1, <2>3 DEF DriverInterns, DisplayKnows
  <2>4. CASE DriverNamesWindow
    BY <1>1, <2>1, <2>4 DEF DriverNamesWindow, DisplayKnows
  <2>5. CASE DriverAdvertises
    BY <1>1, <2>1, <2>5 DEF DriverAdvertises, DisplayKnows
  <2>6. CASE DriverEnds
    BY <2>1, <2>6 DEF DriverEnds, DisplayKnows
  <2> QED BY <1>2, <2>2, <2>3, <2>4, <2>5, <2>6 DEF DriverStep
<1>3. CASE ServerGoes
  BY <1>1, <1>3 DEF ServerGoes, DisplayKnows
<1>4. ASSUME UNCHANGED driverVars, gone' = gone,
             gone => hears' = hears /\ commands' = commands
      PROVE  DisplayKnows'
  BY <1>4 DEF DisplayKnows, driverVars
<1>5. CASE DeviceMoves
  BY <1>4, <1>5 DEF DeviceMoves
<1>6. CASE CommandArrives
  BY <1>4, <1>6 DEF CommandArrives
<1>7. CASE ConnectStep
  BY <1>4, <1>7 DEF ConnectStep
<1>8. CASE StartConnect \/ Look \/ Tick \/ Call
  BY <1>4, <1>8 DEF StartConnect, Look, Tick, Call
<1>9. CASE set_sensitivity
  BY <1>4, <1>9 DEF set_sensitivity
<1>10. CASE UNCHANGED magellanVars
  BY <1>4, <1>10 DEF magellanVars
<1> QED BY <1>2, <1>3, <1>5, <1>6, <1>7, <1>8, <1>9, <1>10
           DEF Next, DisplayNext, ClientRuns

\* What the display does leaves a client where it is; and a driver that answers
\* before and after has not been started in between.
LEMMA DisplayLeaves ==
  ASSUME TypeInv, DisplayKnows, DisplayNext
  PROVE  /\ UNCHANGED <<connectVars, op, failed>>
         /\ gone => gone'
         /\ starts' = starts \/ (starts' = starts + 1 /\ driver = "off")
         /\ driver \in {"up", "off"} /\ starts' = starts => driver' \in {"up", "off"}
<1>1. CASE DriverStep
  <2>1. UNCHANGED <<connectVars, op, failed, gone>>
    BY <1>1 DEF DriverStep
  <2> QED BY <1>1, <2>1, TypeInvNumbers
          DEF DriverStep, DriverStarts, DriverInterns, DriverNamesWindow, DriverAdvertises,
              DriverEnds
<1>2. CASE DeviceMoves \/ CommandArrives \/ ServerGoes
  BY <1>2 DEF DeviceMoves, CommandArrives, ServerGoes, driverVars
<1> QED BY <1>1, <1>2 DEF DisplayNext


-----------------------------------------------------------------------------
(* Connect. *)

\* A connection over the display is one whose driver answered meanwhile; and one
\* that has been making its way while a driver answered all along does not fail.
LEMMA ConnectGoesOn ==
  ASSUME SourceInv, ConnectStep
  PROVE  /\ trying > 0 /\ routes[trying] = "magellan" /\ UNCHANGED driverVars /\ gone' = gone
         /\ op' \in {"connect", "idle"}
         /\ stage' = Connected => Answers("magellan") /\ failed' = FALSE
         /\ stage' = ReadsName => advertised = window' /\ starts > 0
         /\ Answers("magellan") /\ OnItsWay => OnItsWay'
<1>1. /\ op = "connect" /\ trying > 0 /\ routes[trying] = "magellan"
      /\ UNCHANGED driverVars /\ gone' = gone /\ starts' = starts
  BY DEF ConnectStep, SourceInv, Chosen, driverVars
<1>2. /\ starts \in Nat /\ advertised \in Nat /\ advertised <= starts /\ stage \in 0 .. 7
  BY SourceNumbers
<1>3. Answers("magellan") <=> ~gone /\ driver = "up"
  BY DEF Answers
<1>4. FindsWindow = 5 /\ ReadsName = 6 /\ Connected = 7
  BY NamesAre
<1>5. Answers("magellan") => DriverNames \subseteq interned /\ advertised = starts /\ starts > 0
  BY <1>3 DEF SourceInv, DisplayKnows
<1>6. CASE ConnectFails /\ ~Answers("magellan")
  BY <1>1, <1>4, <1>6 DEF ConnectFails, Return
<1>7. CASE ~gone /\ InternOne
  <2> DEFINE known == atoms \cup ({Names[stage + 1]} \cap interned)
  <2>1. stage < 5 /\ stage + 1 \in 1 .. 5
    BY <1>2, <1>4, <1>7 DEF InternOne
  <2>2. ASSUME Answers("magellan"), OnItsWay
        PROVE  \A i \in 1 .. 5 : i <= stage + 1 /\ Names[i] \in DriverNames => Names[i] \in known
    <3>1. \A i \in 1 .. 5 : i <= stage /\ Names[i] \in DriverNames => Names[i] \in known
      BY <1>1, <2>2 DEF OnItsWay
    <3>2. Names[stage + 1] \in DriverNames => Names[stage + 1] \in known
      BY <1>5, <2>2
    <3>3. \A i \in 1 .. 5 : i <= stage + 1 => i <= stage \/ i = stage + 1
      BY <1>2
    <3> HIDE DEF known
    <3> QED BY <3>1, <3>2, <3>3
  <2>3. ASSUME Answers("magellan"), OnItsWay, stage + 1 = 5
        PROVE  Needed \subseteq known
    <3>1. /\ \A i \in 1 .. 5 : i <= 5
          /\ \A i \in 1 .. 5 : Names[i] \in DriverNames => Names[i] \in known
      BY <2>2, <2>3
    <3>2. Names[1] = "MotionEvent" /\ Names[2] = "ButtonPressEvent" /\ Names[5] = "CommandEvent"
      BY DEF Names
    <3>3. /\ "MotionEvent" \in DriverNames /\ "ButtonPressEvent" \in DriverNames
          /\ "CommandEvent" \in DriverNames
      BY NamesAre DEF DriverNames
    <3>4. 1 \in 1 .. 5 /\ 2 \in 1 .. 5 /\ 5 \in 1 .. 5
      OBVIOUS
    <3>5. "MotionEvent" \in known /\ "ButtonPressEvent" \in known /\ "CommandEvent" \in known
      BY <3>1, <3>2, <3>3, <3>4
    <3> HIDE DEF known
    <3> QED BY <3>5 DEF Needed
  <2>4. CASE stage + 1 = FindsWindow /\ ~(Needed \subseteq known) /\ ConnectFails
    <3>1. ~(Answers("magellan") /\ OnItsWay)
      BY <1>4, <2>3, <2>4
    <3>2. stage' = 0 /\ op' = "idle"
      BY <2>4 DEF ConnectFails, Return
    <3> QED BY <1>1, <1>4, <3>1, <3>2
  <2>5. CASE stage' = stage + 1 /\ atoms' = known /\ UNCHANGED <<window, op, failed, timeVars>>
    <3>1. stage' # 6 /\ stage' # 7 /\ op' = "connect"
      BY <1>1, <2>1, <2>5
    <3>2. ASSUME Answers("magellan"), OnItsWay
          PROVE  OnItsWay'
      <4>1. /\ \A i \in 1 .. 5 : i <= stage' /\ Names[i] \in DriverNames => Names[i] \in atoms'
        BY <2>2, <2>5, <3>2
      <4> QED BY <1>4, <3>1, <4>1 DEF OnItsWay, Names, DriverNames, NameSet
    <3> QED BY <1>1, <1>4, <3>1, <3>2
  <2> QED BY <1>7, <2>4, <2>5 DEF InternOne
<1>8. CASE ~gone /\ FindWindow
  <2>1. CASE advertised = 0
    <3>1. ~Answers("magellan")
      BY <1>5, <2>1
    <3>2. ConnectFails
      BY <1>8, <2>1 DEF FindWindow
    <3> QED BY <1>6, <3>1, <3>2
  <2>2. CASE advertised # 0
    <3>1. stage' = 6 /\ window' = advertised /\ atoms' = atoms /\ op' = "connect" /\ stage = 5
      BY <1>1, <1>4, <1>8, <2>2 DEF FindWindow
    <3>2. starts > 0
      BY <1>2, <2>2
    <3>3. ASSUME Answers("magellan"), OnItsWay
          PROVE  OnItsWay'
      <4>1. \A i \in 1 .. 5 : Names[i] \in DriverNames => Names[i] \in atoms'
        BY <1>1, <3>1, <3>3 DEF OnItsWay
      <4>2. window' = starts'
        BY <1>1, <1>5, <3>1, <3>3
      <4> QED BY <3>1, <4>1, <4>2 DEF OnItsWay, Names, DriverNames, NameSet
    <3> QED BY <1>1, <1>4, <3>1, <3>2, <3>3
  <2> QED BY <2>1, <2>2
<1>9. CASE ~gone /\ ReadName
  <2>1. stage = 6
    BY <1>4, <1>9 DEF ReadName
  <2>2. CASE IsDrivers(window)
    <3>1. stage' = 7 /\ op' = "idle" /\ failed' = FALSE
      BY <1>4, <1>9, <2>2 DEF ReadName, Return
    <3>2. driver \in {"named", "up"} /\ window = starts
      BY <2>2 DEF IsDrivers
    <3>3. driver \in {"up", "off"}
      BY <1>1, <1>4, <2>1, <3>2 DEF SourceInv, Asked
    <3>4. Answers("magellan")
      BY <1>3, <1>9, <3>2, <3>3
    <3>5. OnItsWay'
      BY <1>4, <3>1, NamesAre DEF OnItsWay
    <3> QED BY <1>1, <1>4, <3>1, <3>4, <3>5
  <2>3. CASE ~IsDrivers(window) /\ ConnectFails
    <3>1. ~(Answers("magellan") /\ OnItsWay)
      BY <1>1, <1>3, <1>4, <2>1, <2>3 DEF OnItsWay, IsDrivers
    <3>2. stage' = 0 /\ op' = "idle"
      BY <2>3 DEF ConnectFails, Return
    <3> QED BY <1>1, <1>4, <3>1, <3>2
  <2> QED BY <1>9, <2>2, <2>3 DEF ReadName
<1>10. CASE gone /\ ConnectFails
  BY <1>3, <1>6, <1>10
<1> QED BY <1>7, <1>8, <1>9, <1>10 DEF ConnectStep

-----------------------------------------------------------------------------
(* Every step keeps the invariant. *)

\* The same connect, at the same route: what the history said of it still holds
\* when the route goes on answering.
LEMMA AskedOn ==
  ASSUME SourceInv, Steady, UNCHANGED <<routes, trying>>,
         trying > 0 => /\ stage' = Connected => "magellan" \in seen
                       /\ stage' = ReadsName /\ window' = starts' => driver' \in {"up", "off"}
                       /\ Answers("magellan") /\ Answers("magellan")' /\ OnItsWay => OnItsWay'
  PROVE  Asked'
<1> SUFFICES ASSUME trying > 0 PROVE Asked'
  BY DEF Asked
<1>1. trying \in 1 .. Len(routes) /\ trying \in Nat
  BY SourceNumbers
<1>2. /\ \A r \in {routes[i] : i \in 1 .. Len(routes)} :
           /\ r \in steady' => Answers(r)' /\ r \in steady
           /\ Answers(r)' => r \in seen'
      /\ seen \subseteq seen'
  BY <1>1, HistoryIs
<1>3. \A i \in 1 .. Len(routes) : i < trying => routes[i] \notin steady'
  BY <1>1, <1>2 DEF SourceInv, Asked
<1>4. ASSUME routes[trying] = "magellan", "magellan" \in steady'
      PROVE  OnItsWay'
  <2>1. "magellan" \in {routes[i] : i \in 1 .. Len(routes)}
    BY <1>1, <1>4
  <2>2. Answers("magellan")' /\ "magellan" \in steady
    BY <1>2, <1>4, <2>1
  <2>3. Answers("magellan") /\ OnItsWay
    BY <1>4, <2>1, <2>2 DEF SourceInv, Asked
  <2> QED BY <2>2, <2>3
<1>5. \A r \in {routes'[i] : i \in 1 .. Len(routes')} :
        (r \in steady' => Answers(r)') /\ (Answers(r)' => r \in seen')
  BY <1>2
<1>6. stage' = Connected => "magellan" \in seen'
  BY <1>2
<1> QED BY <1>3, <1>4, <1>5, <1>6, Zenon DEF Asked

\* Without a connection, the next route is asked: the one before has not answered
\* all along.
LEMMA TryKeeps ==
  ASSUME SourceInv, Steady, UNCHANGED <<routes, worldVars>>,
         stage = 0, op = "idle", route = "none", Try(trying + 1),
         trying > 0 => routes[trying] \notin steady'
  PROVE  SourceInv'
<1>1. /\ Len(routes) \in 1 .. 3 /\ trying \in 0 .. Len(routes) /\ trying \in Nat
      /\ UNCHANGED <<route, link>> /\ trying' = IF trying + 1 <= Len(routes) THEN trying + 1 ELSE 0
      /\ IF OverDisplay(trying + 1) THEN StartConnect ELSE UNCHANGED magellanVars
  BY SourceNumbers DEF Try, Has
<1>2. [Next]_magellanVars
  BY <1>1 DEF Next
<1>3. TypeInv' /\ DisplayKnows'
  BY <1>2, KnowsNext, TypeInvNext DEF SourceInv
<1>4. /\ stage' = 0 /\ op' \in {"idle", "connect"}
      /\ OverDisplay(trying + 1) => op' = "connect"
      /\ op' = "connect" => OverDisplay(trying + 1)
  <2>1. CASE OverDisplay(trying + 1) /\ StartConnect
    BY <2>1 DEF StartConnect, Connect, connectVars
  <2>2. CASE ~OverDisplay(trying + 1) /\ UNCHANGED magellanVars
    BY <2>2 DEF magellanVars, connectVars
  <2> QED BY <1>1, <2>1, <2>2
<1>5. trying' \in 0 .. Len(routes')
  BY <1>1
<1>6. Connected = 7 /\ ReadsName = 6
  BY NamesAre
<1>7. Chosen'
  <2>1. /\ op' = "connect" => trying' > 0 /\ routes'[trying'] = "magellan"
        /\ op' \notin Reads
    BY <1>1, <1>4 DEF OverDisplay, Has, Reads
  <2>2. /\ routes' \in Builds /\ daemon' \in BOOLEAN /\ device' \in BOOLEAN /\ link' \in BOOLEAN
        /\ turns' \in 0 .. MaxTurns
        /\ route' \in {"none"} \cup {routes'[i] : i \in 1 .. Len(routes')}
        /\ route' = "none"
    BY <1>1 DEF SourceInv, Chosen, worldVars
  <2> QED BY <1>4, <1>5, <1>6, <2>1, <2>2 DEF Chosen
<1>8. Asked'
  <2> SUFFICES ASSUME trying' > 0 PROVE Asked'
    BY DEF Asked
  <2>1. trying' = trying + 1 /\ trying' \in 1 .. Len(routes)
    BY <1>1
  <2>2. \A r \in {routes[i] : i \in 1 .. Len(routes)} :
          /\ r \in steady' => Answers(r)' /\ (trying > 0 => r \in steady)
          /\ Answers(r)' => r \in seen'
    BY <1>1, HistoryIs
  <2>3. \A i \in 1 .. Len(routes) : i < trying' => routes[i] \notin steady'
    <3> SUFFICES ASSUME NEW i \in 1 .. Len(routes), i < trying' PROVE routes[i] \notin steady'
      OBVIOUS
    <3>1. (i < trying \/ i = trying) /\ trying > 0
      BY <1>1, <2>1
    <3> QED BY <2>2, <3>1 DEF SourceInv, Asked
  <2>4. routes'[trying'] = "magellan" => OnItsWay'
    BY <1>4, <1>6, <2>1 DEF OnItsWay, OverDisplay, Has
  <2>5. \A r \in {routes'[i] : i \in 1 .. Len(routes')} :
          (r \in steady' => Answers(r)') /\ (Answers(r)' => r \in seen')
    BY <2>2
  <2>6. stage' # Connected /\ stage' # ReadsName
    BY <1>4, <1>6
  <2> QED BY <2>3, <2>4, <2>5, <2>6, Zenon DEF Asked
<1> QED BY <1>3, <1>7, <1>8 DEF SourceInv

\* The daemon or the device comes or goes.
LEMMA WorldTurns ==
  ASSUME SourceInv, Steady, DaemonTurns \/ DeviceTurns
  PROVE  SourceInv'
<1>1. /\ UNCHANGED <<magellanVars, routes, trying, route>>
      /\ turns < MaxTurns /\ turns' = turns + 1 /\ link' \in BOOLEAN
      /\ daemon' \in BOOLEAN /\ device' \in BOOLEAN
  BY DEF DaemonTurns, DeviceTurns, Turns, SourceInv, Chosen
<1>2. TypeInv' /\ DisplayKnows'
  BY <1>1, KnowsNext, TypeInvNext DEF SourceInv
<1>3. /\ UNCHANGED <<op, stage, failed, gone, driver, starts, atoms, window>>
  BY <1>1 DEF magellanVars, connectVars, driverVars
<1>4. turns' \in 0 .. MaxTurns
  BY <1>1, SourceAssumption DEF SourceInv, Chosen
<1>5. Chosen'
  BY <1>1, <1>3, <1>4 DEF SourceInv, Chosen
<1>6. OnItsWay => OnItsWay'
  BY <1>3 DEF OnItsWay
<1>7. Asked'
  BY <1>1, <1>3, <1>6, AskedOn DEF SourceInv, Asked
<1> QED BY <1>2, <1>5, <1>7 DEF SourceInv

\* The display server, or a driver on it.
LEMMA DisplayTurnsKeeps ==
  ASSUME SourceInv, Steady, DisplayTurns
  PROVE  SourceInv'
<1>1. DisplayNext /\ UNCHANGED <<routes, worldVars, trying, route, link>>
  BY DEF DisplayTurns, sourceVars
<1>2. [Next]_magellanVars
  BY <1>1 DEF Next
<1>3. TypeInv' /\ DisplayKnows'
  BY <1>2, KnowsNext, TypeInvNext DEF SourceInv
<1>4. /\ UNCHANGED <<stage, atoms, window, op, failed>> /\ (gone => gone')
      /\ starts' = starts \/ (starts' = starts + 1 /\ driver = "off")
      /\ driver \in {"up", "off"} /\ starts' = starts => driver' \in {"up", "off"}
  BY <1>1, DisplayLeaves DEF SourceInv, connectVars
<1>5. Chosen'
  BY <1>1, <1>4 DEF SourceInv, Chosen, worldVars
<1>6. window \in Nat /\ starts \in Nat /\ window <= starts
  BY SourceNumbers
<1>7. stage' = ReadsName /\ window' = starts' /\ trying > 0 => driver' \in {"up", "off"}
  BY <1>4, <1>6 DEF SourceInv, Asked
<1>8. ASSUME Answers("magellan"), OnItsWay
      PROVE  OnItsWay'
  <2>1. starts' = starts
    BY <1>4, <1>8 DEF Answers
  <2> QED BY <1>4, <1>8, <2>1 DEF OnItsWay
<1>9. trying > 0 /\ stage' = Connected => "magellan" \in seen
  BY <1>4 DEF SourceInv, Asked
<1>10. Asked'
  BY <1>1, <1>7, <1>8, <1>9, AskedOn
<1> QED BY <1>3, <1>5, <1>10 DEF SourceInv

\* The client of the display runs: it connects, or reads.
LEMMA MagellanRunsKeeps ==
  ASSUME SourceInv, Steady, MagellanRuns
  PROVE  SourceInv'
<1>1. ClientRuns /\ UNCHANGED <<routes, worldVars, trying, route, link>>
  BY DEF MagellanRuns, sourceVars
<1>2. [Next]_magellanVars
  BY <1>1 DEF Next
<1>3. TypeInv' /\ DisplayKnows'
  BY <1>2, KnowsNext, TypeInvNext DEF SourceInv
<1>4. FindsWindow = 5 /\ ReadsName = 6 /\ Connected = 7
  BY NamesAre
<1>5. Connection'
  BY <1>3 DEF TypeInv
<1>6. CASE ConnectStep
  <2>1. /\ trying > 0 /\ routes[trying] = "magellan" /\ UNCHANGED driverVars /\ gone' = gone
        /\ op' \in {"connect", "idle"}
        /\ stage' = Connected => Answers("magellan") /\ failed' = FALSE
        /\ stage' = ReadsName => advertised = window' /\ starts > 0
        /\ Answers("magellan") /\ OnItsWay => OnItsWay'
    BY <1>6, ConnectGoesOn
  <2>2. Chosen'
    <3>1. op' \notin Reads
      BY <2>1 DEF Reads
    <3> QED BY <1>1, <2>1, <3>1 DEF SourceInv, Chosen, worldVars
  <2>3. trying \in 1 .. Len(routes)
    BY <2>1, SourceNumbers
  <2>4. stage' = Connected => "magellan" \in seen
    BY <2>1, <2>3 DEF SourceInv, Asked
  <2>5. stage' = ReadsName /\ window' = starts' => driver' \in {"up", "off"}
    BY <2>1 DEF SourceInv, DisplayKnows, driverVars
  <2>6. Asked'
    BY <1>1, <2>1, <2>4, <2>5, AskedOn
  <2> QED BY <1>3, <2>2, <2>6 DEF SourceInv
<1>7. CASE Look \/ Tick
  <2>1. /\ op \in Reads /\ op' \in {op, "idle"}
        /\ UNCHANGED <<driverVars, gone, connectVars>>
        /\ failed' => failed \/ gone
    <3>1. CASE Tick
      <4>1. op = "read_timeout"
        <5>1. asleep > 0
          BY <3>1 DEF Tick
        <5>2. limit \in Nat
          BY TypeInvNumbers DEF SourceInv
        <5> QED BY <5>1, <5>2 DEF SourceInv, TypeInv, Times
      <4> QED BY <3>1, <4>1 DEF Tick, Reads
    <3>2. CASE Look
      BY <3>2 DEF Look, HandOut, Absorb, NothingFound, ReadFails, Return, Looks
    <3> QED BY <1>7, <3>1, <3>2
  <2>2. route = "magellan" /\ trying = 0 /\ stage = Connected
    BY <2>1 DEF SourceInv, Chosen, TypeInv, Connection
  <2>3. stage' = Connected /\ (failed' => gone')
    BY <2>1, <2>2 DEF connectVars, SourceInv, Chosen
  <2>4. Chosen'
    <3>1. op' # "connect"
      BY <2>1 DEF Reads
    <3> QED BY <1>1, <2>2, <2>3, <3>1 DEF SourceInv, Chosen, worldVars
  <2>5. Asked'
    BY <1>1, <2>2 DEF Asked
  <2> QED BY <1>3, <2>4, <2>5 DEF SourceInv
<1> QED BY <1>1, <1>6, <1>7 DEF ClientRuns

\* The application calls the client of the display that it has.
LEMMA MagellanCallsKeeps ==
  ASSUME SourceInv, Steady, MagellanCalls
  PROVE  SourceInv'
<1>1. /\ route = "magellan" /\ trying = 0 /\ (Call \/ set_sensitivity)
      /\ UNCHANGED <<routes, worldVars, trying, route, link>>
  BY DEF MagellanCalls, sourceVars, SourceInv, Chosen
<1>2. [Next]_magellanVars
  BY <1>1 DEF Next
<1>3. TypeInv' /\ DisplayKnows'
  BY <1>2, KnowsNext, TypeInvNext DEF SourceInv
<1>4. /\ op' # "connect" /\ stage' = stage
      /\ failed' => gone'
  BY <1>1 DEF Call, Read, Reads, set_sensitivity, connectVars
<1>5. Chosen'
  BY <1>1, <1>4 DEF SourceInv, Chosen, worldVars
<1>6. Asked'
  BY <1>1 DEF Asked
<1> QED BY <1>3, <1>5, <1>6 DEF SourceInv

\* The connection goes, with all there was of it.
LEMMA GiveUpKeeps ==
  ASSUME SourceInv, Steady, GiveUp
  PROVE  SourceInv'
<1>1. /\ route' = "none" /\ link' = FALSE /\ UNCHANGED <<routes, worldVars, trying>>
      /\ trying = 0 /\ route # "none"
  BY DEF GiveUp, SourceInv, Chosen
<1>2. Asked'
  BY <1>1 DEF Asked
<1>3. CASE route \in {"daemon", "hid"} /\ UNCHANGED magellanVars
  <2>1. TypeInv' /\ DisplayKnows'
    BY <1>3, KnowsNext, TypeInvNext DEF SourceInv
  <2>2. UNCHANGED <<op, stage, failed, gone>>
    BY <1>3 DEF magellanVars, connectVars
  <2>3. Chosen'
    BY <1>1, <1>3, <2>2 DEF SourceInv, Chosen, worldVars
  <2> QED BY <1>2, <2>1, <2>3 DEF SourceInv
<1>4. CASE /\ route = "magellan" /\ op = "idle" /\ failed
           /\ stage' = 0 /\ atoms' = {} /\ window' = 0
           /\ queued' = <<>> /\ sent' = <<>> /\ taken' = 0 /\ told' = <<>>
           /\ UNCHANGED <<driverVars, hears, button, commands, gone, op, timeVars, failed>>
  <2>1. ~hears /\ commands = <<>>
    BY <1>4 DEF SourceInv, Chosen, DisplayKnows, TypeInv, Connection
  <2>2. /\ sent' \in Seq(XEvent) /\ queued' \in Seq(Nat) /\ told' \in Seq(Nat)
        /\ Len(sent') = 0 /\ Len(queued') = 0
    BY <1>4, EmptySeq
  <2>3. DisplayTypes'
    BY <1>4, <2>2 DEF SourceInv, TypeInv, DisplayTypes, driverVars
  <2>4. LineTypes'
    BY <1>4, <2>2 DEF LineTypes
  <2>5. Times'
    BY <1>4 DEF SourceInv, TypeInv, Times, timeVars
  <2>6. starts' \in Nat /\ starts' = starts
    BY <1>4, SourceNumbers DEF driverVars
  <2>7. /\ op' = "idle" /\ op' \notin Reads /\ failed' \in BOOLEAN /\ sent' = <<>>
        /\ commands' = <<>> /\ ~hears'
    BY <1>4, <2>1 DEF Reads, SourceInv, TypeInv, Connection
  <2>8. /\ stage' \in 0 .. Connected /\ window' \in 0 .. starts' /\ atoms' \subseteq NameSet
        /\ ~(stage' > FindsWindow) /\ ~(stage' >= FindsWindow) /\ stage' # Connected
    BY <1>4, <2>6, NamesAre
  <2>9. Connection'
    BY <1>4, <2>7, <2>8, Zenon DEF Connection
  <2>10. DisplayKnows'
    BY <1>4 DEF SourceInv, DisplayKnows, driverVars
  <2>11. Chosen'
    <3>1. /\ routes' \in Builds /\ daemon' \in BOOLEAN /\ device' \in BOOLEAN /\ link' \in BOOLEAN
          /\ turns' \in 0 .. MaxTurns /\ trying' \in 0 .. Len(routes')
      BY <1>1 DEF SourceInv, Chosen, worldVars
    <3>2. stage' = 0
      BY <1>4
    <3> QED BY <1>1, <2>7, <2>8, <3>1, <3>2, Zenon DEF Chosen
  <2> QED BY <1>2, <2>3, <2>4, <2>5, <2>9, <2>10, <2>11 DEF SourceInv, TypeInv
<1> QED BY <1>3, <1>4 DEF GiveUp

\* connect asks the next route, or takes the one that answered.
LEMMA TryRouteKeeps ==
  ASSUME SourceInv, Steady, NEW r \in {"daemon", "magellan", "hid"}, NEW found \in BOOLEAN,
         TryRoute(r, found), op = "idle",
         r = "magellan" => found = (stage = Connected),
         ~found => r \notin steady'
  PROVE  SourceInv'
<1>1. /\ trying > 0 /\ routes[trying] = r /\ UNCHANGED <<routes, worldVars>>
      /\ IF found THEN Take(r) ELSE Try(trying + 1)
  BY DEF TryRoute
<1>2. route = "none"
  BY <1>1 DEF SourceInv, Chosen
<1>3. CASE found
  <2>1. trying' = 0 /\ route' = r /\ link' = TRUE /\ UNCHANGED magellanVars
    BY <1>1, <1>3 DEF Take
  <2>2. TypeInv' /\ DisplayKnows'
    BY <2>1, KnowsNext, TypeInvNext DEF SourceInv
  <2>3. UNCHANGED <<op, stage, failed, gone>>
    BY <2>1 DEF magellanVars, connectVars
  <2>4. trying \in 1 .. Len(routes) /\ 0 \in 0 .. Len(routes)
    BY <1>1, SourceNumbers
  <2>5. r \in {routes[i] : i \in 1 .. Len(routes)}
    BY <1>1, <2>4
  <2>6. op \notin Reads /\ op # "connect"
    BY DEF Reads
  <2>7. /\ routes' \in Builds /\ daemon' \in BOOLEAN /\ device' \in BOOLEAN /\ link' \in BOOLEAN
        /\ turns' \in 0 .. MaxTurns
    BY <1>1, <2>1 DEF SourceInv, Chosen, worldVars
  <2>8. stage # 0 => route' = "magellan"
    BY <1>1, <1>2, <2>1 DEF SourceInv, Chosen
  <2>9. Chosen'
    BY <1>1, <2>1, <2>3, <2>4, <2>5, <2>6, <2>7, <2>8 DEF SourceInv, Chosen
  <2>10. Asked'
    BY <2>1 DEF Asked
  <2> QED BY <2>2, <2>9, <2>10 DEF SourceInv
<1>4. CASE ~found
  <2>1. stage = 0
    BY <1>1, <1>2, <1>4 DEF SourceInv, Chosen, TypeInv, Connection
  <2> QED BY <1>1, <1>2, <1>4, <2>1, TryKeeps
<1> QED BY <1>3, <1>4

\* A route that does not answer has not answered all along; and a driver that has
\* is connected to.
LEMMA RefusedIs ==
  ASSUME SourceInv, Steady, UNCHANGED <<routes, daemon, device>>, trying > 0, trying' > 0
  PROVE  /\ routes[trying] = "daemon" /\ ~daemon => "daemon" \notin steady'
         /\ routes[trying] = "hid" /\ ~device => "hid" \notin steady'
         /\ routes[trying] = "magellan" /\ op = "idle" /\ stage # Connected =>
              "magellan" \notin steady'
<1>1. trying \in 1 .. Len(routes) /\ trying \in Nat
  BY SourceNumbers
<1>2. \A r \in {routes[i] : i \in 1 .. Len(routes)} : r \in steady' => Answers(r)' /\ r \in steady
  BY <1>1, HistoryIs
<1>3. routes[trying] \in {routes[i] : i \in 1 .. Len(routes)}
  BY <1>1
<1>4. CASE routes[trying] = "daemon"
  <2>1. "daemon" \in steady' => Answers("daemon")'
    BY <1>2, <1>3, <1>4
  <2> QED BY <1>4, <2>1 DEF Answers
<1>5. CASE routes[trying] = "hid"
  <2>1. "hid" \in steady' => Answers("hid")'
    BY <1>2, <1>3, <1>5
  <2> QED BY <1>5, <2>1 DEF Answers
<1>6. CASE routes[trying] = "magellan"
  <2>1. "magellan" \in steady' => OnItsWay
    BY <1>2, <1>3, <1>6 DEF SourceInv, Asked
  <2> QED BY <1>6, <2>1 DEF OnItsWay
<1> QED BY <1>4, <1>5, <1>6

\* connect begins, or asks a route.
LEMMA ConnectingKeeps ==
  ASSUME SourceInv, Steady, SourceConnect \/ Connecting
  PROVE  SourceInv'
<1>1. CASE SourceConnect
  <2>1. /\ route = "none" /\ trying = 0 /\ Try(trying + 1) /\ UNCHANGED <<routes, worldVars>>
    BY <1>1 DEF SourceConnect
  <2>2. stage = 0 /\ op = "idle"
    BY <2>1, NamesAre DEF SourceInv, Chosen, TypeInv, Connection
  <2> QED BY <2>1, <2>2, TryKeeps
<1>2. ASSUME NEW r, NEW found, TryRoute(r, found)
      PROVE  UNCHANGED <<routes, daemon, device>> /\ trying > 0 /\ routes[trying] = r
  BY <1>2 DEF TryRoute, worldVars
<1>3. trying' = 0 => steady' = {}
  BY DEF Steady
<1>4. ASSUME trying > 0, routes[trying] # "magellan"
      PROVE  op = "idle"
  BY <1>4 DEF SourceInv, Chosen, TypeInv, Connection
<1>5. trying' \in Nat
  BY SourceNumbers DEF SourceConnect, Connecting, TryDaemon, TryMagellan, TryDevice, TryRoute, Try,
                       Take
<1>6. CASE TryDaemon
  <2>1. ~daemon => "daemon" \notin steady'
    BY <1>2, <1>3, <1>5, <1>6, RefusedIs DEF TryDaemon
  <2>2. daemon \in BOOLEAN
    BY DEF SourceInv, Chosen
  <2> QED BY <1>2, <1>4, <1>6, <2>1, <2>2, TryRouteKeeps DEF TryDaemon
<1>7. CASE TryDevice
  <2>1. ~device => "hid" \notin steady'
    BY <1>2, <1>3, <1>5, <1>7, RefusedIs DEF TryDevice
  <2>2. device \in BOOLEAN
    BY DEF SourceInv, Chosen
  <2> QED BY <1>2, <1>4, <1>7, <2>1, <2>2, TryRouteKeeps DEF TryDevice
<1>8. CASE TryMagellan
  <2>1. op = "idle" /\ TryRoute("magellan", stage = Connected)
    BY <1>8 DEF TryMagellan
  <2>2. stage # Connected => "magellan" \notin steady'
    BY <1>2, <1>3, <1>5, <2>1, RefusedIs
  <2>3. (stage = Connected) \in BOOLEAN
    OBVIOUS
  <2> QED BY <2>1, <2>2, <2>3, TryRouteKeeps
<1> QED BY <1>1, <1>6, <1>7, <1>8 DEF Connecting

\* No connection, and none in the making.
LEMMA SourceInvInit == SourceInit => SourceInv
<1> SUFFICES ASSUME SourceInit PROVE SourceInv
  OBVIOUS
<1>1. TypeInv
  BY TypeInvInit DEF SourceInit
<1>2. /\ routes \in Builds /\ daemon \in BOOLEAN /\ device \in BOOLEAN
      /\ turns = 0 /\ trying = 0 /\ route = "none" /\ link = FALSE
      /\ driver = "off" /\ gone = FALSE /\ starts = 0 /\ op = "idle" /\ stage = 0
      /\ failed = FALSE
  BY DEF SourceInit, Init
<1>3. DisplayKnows
  BY <1>2 DEF DisplayKnows
<1>4. Chosen
  <2>1. turns \in 0 .. MaxTurns /\ trying \in 0 .. Len(routes)
    BY <1>2, SourceAssumption, RoutesAre
  <2>2. op \notin Reads /\ op # "connect" /\ link \in BOOLEAN
    BY <1>2 DEF Reads
  <2>3. stage # Connected
    BY <1>2, NamesAre
  <2>4. route \in {"none"} \cup {routes[i] : i \in 1 .. Len(routes)}
    BY <1>2
  <2> QED BY <1>2, <2>1, <2>2, <2>3, <2>4, Zenon DEF Chosen
<1>5. Asked
  BY <1>2 DEF Asked
<1> QED BY <1>1, <1>3, <1>4, <1>5 DEF SourceInv

\* The invariant is inductive.
LEMMA SourceInvNext == SourceInv /\ [SourceNext]_vars => SourceInv'
<1> SUFFICES ASSUME SourceInv, [SourceNext]_vars PROVE SourceInv'
  OBVIOUS
<1>1. CASE SourceNext
  <2>1. Steady
    BY <1>1 DEF SourceNext
  <2>2. CASE DaemonTurns \/ DeviceTurns
    BY <2>1, <2>2, WorldTurns
  <2>3. CASE DisplayTurns
    BY <2>1, <2>3, DisplayTurnsKeeps
  <2>4. CASE SourceConnect \/ Connecting
    BY <2>1, <2>4, ConnectingKeeps
  <2>5. CASE MagellanCalls
    BY <2>1, <2>5, MagellanCallsKeeps
  <2>6. CASE GiveUp
    BY <2>1, <2>6, GiveUpKeeps
  <2>7. CASE MagellanRuns
    BY <2>1, <2>7, MagellanRunsKeeps
  <2> QED BY <1>1, <2>2, <2>3, <2>4, <2>5, <2>6, <2>7 DEF SourceNext, Application
<1>2. CASE UNCHANGED vars
  <2>1. TypeInv' /\ DisplayKnows'
    <3>1. UNCHANGED magellanVars
      BY <1>2 DEF vars
    <3> QED BY <3>1, KnowsNext, TypeInvNext DEF SourceInv
  <2>2. UNCHANGED <<routes, daemon, device, turns, trying, route, link, steady, seen, op, stage, failed,
                    gone, driver, starts, window, atoms>>
    BY <1>2 DEF vars, magellanVars, sourceVars, worldVars, driverVars, connectVars
  <2>3. Chosen'
    BY <2>2 DEF SourceInv, Chosen
  <2>4. Asked'
    BY <2>2 DEF SourceInv, Asked, Answers, OnItsWay, Names, DriverNames, NameSet
  <2> QED BY <2>1, <2>3, <2>4 DEF SourceInv
<1> QED BY <1>1, <1>2

-----------------------------------------------------------------------------
(* The theorems. *)

\* The variables keep their types, and there is one connection at most: no
\* Magellan client is left behind by a connect that took another route.
THEOREM SourceTypeCorrect == SourceSpec => []SourceTypeOK
<1>1. SourceInit => SourceInv
  BY SourceInvInit
<1>2. SourceInv /\ [SourceNext]_vars => SourceInv'
  BY SourceInvNext
<1>3. SourceInv => SourceTypeOK
  BY TypeInvSound DEF SourceInv, Chosen, SourceTypeOK
<1> QED BY <1>1, <1>2, <1>3, PTL DEF SourceSpec

\* What a connect that ends has taken: the route it was at, when that answered.
LEMMA EndsWithBest ==
  ASSUME SourceInv, NEW r \in {"daemon", "magellan", "hid"}, NEW found \in BOOLEAN,
         TryRoute(r, found), trying' = 0,
         found => r \in seen, ~found => r \notin steady
  PROVE  /\ route' \in {"none"} \cup seen
         /\ \A i \in 1 .. Len(routes) :
              routes[i] \in steady => \E j \in 1 .. i : route' = routes[j]
<1>1. /\ trying > 0 /\ routes[trying] = r /\ IF found THEN Take(r) ELSE Try(trying + 1)
  BY DEF TryRoute
<1>2. trying \in 1 .. Len(routes) /\ Len(routes) \in Nat
  BY <1>1, SourceNumbers
<1>3. \A i \in 1 .. Len(routes) : i < trying => routes[i] \notin steady
  BY <1>1 DEF SourceInv, Asked
<1>4. CASE found
  <2>1. route' = r
    BY <1>1, <1>4 DEF Take
  <2>2. ASSUME NEW i \in 1 .. Len(routes), routes[i] \in steady
        PROVE  \E j \in 1 .. i : route' = routes[j]
    <3>1. trying \in 1 .. i
      BY <1>2, <1>3, <2>2
    <3> QED BY <1>1, <2>1, <3>1
  <2> QED BY <1>4, <2>1, <2>2
<1>5. CASE ~found
  <2>1. trying = Len(routes) /\ route' = route
    BY <1>1, <1>2, <1>5 DEF Try, Has
  <2>2. route = "none"
    BY <1>1 DEF SourceInv, Chosen
  <2>3. ASSUME NEW i \in 1 .. Len(routes)
        PROVE  routes[i] \notin steady
    <3>1. i < trying \/ i = trying
      BY <1>2, <2>1
    <3> QED BY <1>1, <1>3, <1>5, <3>1
  <2> QED BY <2>1, <2>2, <2>3
<1> QED BY <1>4, <1>5

\* connect takes no route when one tried before it has answered all along, and
\* fails only when none did; and the one it takes has answered.
THEOREM TakesTheBestRoute == SourceSpec => BestRouteTaken
<1> DEFINE Best == trying > 0 /\ trying' = 0 =>
                     /\ route' \in {"none"} \cup seen
                     /\ \A i \in 1 .. Len(routes) :
                          routes[i] \in steady => \E j \in 1 .. i : route' = routes[j]
<1>1. SourceInit => SourceInv
  BY SourceInvInit
<1>2. SourceInv /\ [SourceNext]_vars => SourceInv'
  BY SourceInvNext
<1>3. SourceInv /\ [SourceNext]_vars => [Best]_vars
  <2> SUFFICES ASSUME SourceInv, SourceNext, trying > 0, trying' = 0 PROVE Best
    BY DEF vars
  <2>1. trying \in 1 .. Len(routes)
    BY SourceNumbers
  <2>2. \A r \in {routes[i] : i \in 1 .. Len(routes)} :
          (r \in steady => Answers(r)) /\ (Answers(r) => r \in seen)
    BY DEF SourceInv, Asked
  <2>3. /\ routes[trying] \in {routes[i] : i \in 1 .. Len(routes)}
        /\ stage = Connected => "magellan" \in seen
        /\ routes[trying] = "magellan" /\ "magellan" \in steady => OnItsWay
    BY <2>1 DEF SourceInv, Asked
  <2>4. CASE TryDaemon
    <3>1. routes[trying] = "daemon" /\ TryRoute("daemon", daemon)
      BY <2>4 DEF TryDaemon, TryRoute
    <3>2. ("daemon" \in steady => daemon) /\ (daemon => "daemon" \in seen)
      BY <2>2, <2>3, <3>1 DEF Answers
    <3>3. daemon \in BOOLEAN
      BY DEF SourceInv, Chosen
    <3> QED BY <3>1, <3>2, <3>3, EndsWithBest
  <2>5. CASE TryDevice
    <3>1. routes[trying] = "hid" /\ TryRoute("hid", device)
      BY <2>5 DEF TryDevice, TryRoute
    <3>2. ("hid" \in steady => device) /\ (device => "hid" \in seen)
      BY <2>2, <2>3, <3>1 DEF Answers
    <3>3. device \in BOOLEAN
      BY DEF SourceInv, Chosen
    <3> QED BY <3>1, <3>2, <3>3, EndsWithBest
  <2>6. CASE TryMagellan
    <3>1. routes[trying] = "magellan" /\ TryRoute("magellan", stage = Connected) /\ op = "idle"
      BY <2>6 DEF TryMagellan, TryRoute
    <3>2. "magellan" \in steady => stage = Connected
      BY <2>3, <3>1 DEF OnItsWay
    <3>3. (stage = Connected) \in BOOLEAN
      OBVIOUS
    <3> QED BY <2>3, <3>1, <3>2, <3>3, EndsWithBest
  <2>7. TryDaemon \/ TryDevice \/ TryMagellan
    <3>1. ~(DaemonTurns \/ DeviceTurns \/ DisplayTurns \/ MagellanRuns \/ MagellanCalls \/ GiveUp)
      BY DEF DaemonTurns, DeviceTurns, DisplayTurns, MagellanRuns, MagellanCalls, GiveUp, sourceVars
    <3>2. ~SourceConnect
      BY DEF SourceConnect
    <3> QED BY <3>1, <3>2 DEF SourceNext, Application, Connecting
  <2> QED BY <2>4, <2>5, <2>6, <2>7
<1> QED BY <1>1, <1>2, <1>3, PTL DEF SourceSpec, BestRouteTaken
=============================================================================
