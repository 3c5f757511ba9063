----------------------------- MODULE MagellanProofs -----------------------------
(***************************************************************************)
(* Theorems about Magellan, for every time limit and every length of a step, *)
(* and any number of drivers, events and commands.                           *)
(***************************************************************************)
EXTENDS Magellan, SequenceTheorems, TLAPS

\* Just the empty sequence has no elements.
LEMMA EmptyIffNone ==
  ASSUME NEW S, NEW s \in Seq(S)
  PROVE  s = <<>> <=> Len(s) = 0
BY EmptySeq, LenProperties

\* One more element.
LEMMA OneMore ==
  ASSUME NEW S, NEW s \in Seq(S), NEW e \in S
  PROVE  /\ Append(s, e) \in Seq(S) /\ Len(s) \in Nat /\ Len(Append(s, e)) = Len(s) + 1
         /\ \A i \in 1 .. Len(s) : Append(s, e)[i] = s[i]
         /\ Append(s, e)[Len(s) + 1] = e
         /\ \A i \in 1 .. Len(s) + 1 : Append(s, e)[i] = IF i = Len(s) + 1 THEN e ELSE s[i]
<1>1. /\ Append(s, e) \in Seq(S) /\ Len(s) \in Nat /\ Len(Append(s, e)) = Len(s) + 1
      /\ \A i \in 1 .. Len(s) : Append(s, e)[i] = s[i]
      /\ Append(s, e)[Len(s) + 1] = e
  BY AppendProperties, LenProperties
<1> QED BY <1>1

\* The first element, and the rest.
LEMMA OneLess ==
  ASSUME NEW S, NEW s \in Seq(S), s # <<>>
  PROVE  /\ Head(s) = s[1] /\ s[1] \in S /\ Len(s) \in Nat /\ Len(s) >= 1
         /\ Tail(s) \in Seq(S) /\ Len(Tail(s)) = Len(s) - 1
         /\ \A i \in 1 .. Len(s) - 1 : Tail(s)[i] = s[i + 1]
<1>1. Len(s) \in Nat /\ Len(s) # 0
  BY EmptyIffNone, LenProperties
<1>2. s[1] \in S
  BY <1>1, ElementOfSeq
<1> QED BY <1>1, <1>2, HeadTailProperties

\* The names of the protocol, and the steps of connect.
LEMMA NamesAre ==
  /\ FindsWindow = 5 /\ ReadsName = 6 /\ Connected = 7
  /\ NameSet = {"MotionEvent", "ButtonPressEvent", "ButtonReleaseEvent",
                "DeviceDisconnectEvent", "CommandEvent"}
  /\ \A i \in 1 .. 5 : Names[i] \in NameSet
<1>1. Len(Names) = 5
  BY DEF Names
<1>2. \A i \in 1 .. 5 : i = 1 \/ i = 2 \/ i = 3 \/ i = 4 \/ i = 5
  OBVIOUS
<1>3. NameSet = {Names[1], Names[2], Names[3], Names[4], Names[5]}
  BY <1>1, <1>2 DEF NameSet
<1> QED BY <1>1, <1>3 DEF Names, NameSet, FindsWindow, ReadsName, Connected

-----------------------------------------------------------------------------
(* Types, the steps of connect, and time. *)

XEvent == {"motion", "press", "release", "removal", "noise"}
CommandTo(n) == [to : 1 .. n, what : {"window", "sensitivity"}]

DisplayTypes ==
  /\ interned \subseteq NameSet /\ driver \in {"off", "starting", "named", "up"}
  /\ starts \in 0 .. MaxStarts /\ advertised \in 0 .. starts
  /\ hears \in BOOLEAN /\ gone \in BOOLEAN /\ button \in {"up", "down", "unseen"}
  /\ commands \in Seq(CommandTo(starts)) /\ sent \in Seq(XEvent)

\* Nothing is asked of a driver, or heard from one, before the connection is made.
Connection ==
  /\ op \in {"idle", "connect"} \cup Reads /\ failed \in BOOLEAN
  /\ stage \in 0 .. Connected /\ atoms \subseteq NameSet /\ window \in 0 .. starts
  /\ op = "connect" => stage # Connected
  /\ op = "idle" => stage = Connected \/ (stage = 0 /\ atoms = {} /\ window = 0)
  /\ op \in Reads => stage = Connected
  /\ stage > FindsWindow => window \in 1 .. starts
  /\ stage >= FindsWindow => Needed \subseteq atoms
  /\ stage # Connected => sent = <<>> /\ commands = <<>> /\ ~hears

\* A timed read sleeps within its limit, and no more than a step while something
\* waits for it.
Times ==
  /\ limit \in {0} \cup Timeouts /\ lasted \in Nat /\ asleep \in Nat /\ waited \in Nat
  /\ op # "read_timeout" => limit = 0 /\ waited = 0
  /\ lasted + asleep <= limit /\ asleep + waited <= POLL_STEP

LineTypes ==
  /\ taken \in 0 .. Len(sent) /\ queued \in Seq(Nat) /\ Len(queued) <= 1
  /\ told \in Seq(Nat)

TypeInv == DisplayTypes /\ Connection /\ Times /\ LineTypes

\* The numbers TypeInv is about.
LEMMA TypeInvNumbers ==
  ASSUME TypeInv
  PROVE  /\ Len(sent) \in Nat /\ taken \in Nat /\ taken <= Len(sent) /\ Len(queued) \in Nat
         /\ Len(told) \in Nat /\ limit \in Nat /\ POLL_STEP \in Nat /\ POLL_STEP >= 1
         /\ starts \in Nat /\ MaxStarts \in Nat /\ Timeouts \subseteq Nat
<1>1. POLL_STEP \in Nat /\ POLL_STEP >= 1 /\ MaxStarts \in Nat /\ Timeouts \subseteq Nat
  BY MagellanAssumption
<1>2. Len(sent) \in Nat /\ Len(queued) \in Nat /\ Len(told) \in Nat
  BY LenProperties DEF TypeInv, DisplayTypes, LineTypes
<1> QED BY <1>1, <1>2 DEF TypeInv, DisplayTypes, LineTypes, Times

\* The types are those of the model, and no event waits longer than a step of the sleep.
LEMMA TypeInvSound == TypeInv => TypeOK /\ TakenSoon
<1> SUFFICES ASSUME TypeInv PROVE TypeOK /\ TakenSoon
  OBVIOUS
<1>1. /\ Len(sent) \in Nat /\ limit \in Nat /\ POLL_STEP \in Nat /\ Timeouts \subseteq Nat
  BY TypeInvNumbers
<1>2. lasted \in 0 .. limit /\ asleep \in 0 .. POLL_STEP /\ waited <= POLL_STEP
  BY <1>1 DEF TypeInv, Times
<1>3. stage = Connected => {"MotionEvent", "ButtonPressEvent", "CommandEvent"} \subseteq atoms
  BY NamesAre DEF TypeInv, Connection, Needed
<1>4. op # "connect" => op = "idle" \/ op \in Reads
  BY DEF TypeInv, Connection
<1> QED BY <1>2, <1>3, <1>4 DEF TypeInv, DisplayTypes, Connection, Times, LineTypes,
                                 TypeOK, TakenSoon, XEvent, CommandTo

\* An application that has not connected has nothing.
LEMMA TypeInvInit == Init => TypeInv
<1> SUFFICES ASSUME Init PROVE TypeInv
  OBVIOUS
<1>1. POLL_STEP \in Nat /\ MaxStarts \in Nat
  BY MagellanAssumption
<1>2. /\ commands \in Seq(CommandTo(starts)) /\ sent \in Seq(XEvent) /\ queued \in Seq(Nat)
      /\ told \in Seq(Nat) /\ Len(sent) = 0 /\ Len(queued) = 0
  BY EmptySeq DEF Init
<1>3. DisplayTypes
  <2>1. /\ interned = {} /\ driver = "off" /\ starts = 0 /\ advertised = 0
        /\ hears = FALSE /\ gone = FALSE /\ button = "up"
    BY DEF Init
  <2>2. starts \in 0 .. MaxStarts /\ advertised \in 0 .. starts
    BY <1>1, <2>1
  <2>3. interned \subseteq NameSet
    BY <2>1
  <2>4. hears \in BOOLEAN /\ gone \in BOOLEAN
    BY <2>1
  <2>5. driver \in {"off", "starting", "named", "up"} /\ button \in {"up", "down", "unseen"}
    BY <2>1
  <2> QED BY <1>2, <2>2, <2>3, <2>4, <2>5, Zenon DEF DisplayTypes
<1>4. Connection
  <2>1. /\ op = "idle" /\ failed = FALSE /\ stage = 0 /\ atoms = {} /\ window = 0
        /\ starts = 0 /\ hears = FALSE
    BY DEF Init
  <2>2. sent = <<>> /\ commands = <<>>
    BY DEF Init
  <2>3. op \in {"idle", "connect"} \cup Reads /\ op # "connect" /\ op \notin Reads
    BY <2>1 DEF Reads
  <2>4. /\ stage \in 0 .. Connected /\ atoms \subseteq NameSet /\ window \in 0 .. starts
        /\ ~(stage > FindsWindow) /\ ~(stage >= FindsWindow)
    BY <2>1, NamesAre
  <2>5. failed \in BOOLEAN
    BY <2>1
  <2> QED BY <2>1, <2>2, <2>3, <2>4, <2>5, Zenon DEF Connection
<1>5. Times
  BY <1>1 DEF Init, Times
<1>6. LineTypes
  BY <1>2 DEF Init, LineTypes
<1> QED BY <1>3, <1>4, <1>5, <1>6 DEF TypeInv

\* What the display does is the display's: a client that has not connected hears
\* nothing of it.
LEMMA DisplayStepTypes ==
  ASSUME TypeInv, DisplayTypes',
         UNCHANGED <<connectVars, lineVars, op, timeVars, failed>>,
         starts <= starts', Len(sent) <= Len(sent'),
         stage # Connected => sent' = <<>> /\ commands' = <<>> /\ ~hears'
  PROVE  TypeInv'
<1>1. starts \in Nat /\ starts' \in Nat /\ Len(sent) \in Nat /\ Len(sent') \in Nat
  BY TypeInvNumbers, LenProperties DEF DisplayTypes
<1>2. Connection'
  <2>1. window \in 0 .. starts' /\ (stage > FindsWindow => window \in 1 .. starts')
    BY <1>1 DEF TypeInv, Connection
  <2> QED BY <2>1 DEF TypeInv, Connection, connectVars
<1>3. Times'
  BY DEF TypeInv, Times, timeVars
<1>4. LineTypes'
  BY <1>1 DEF TypeInv, LineTypes, lineVars
<1> QED BY <1>2, <1>3, <1>4 DEF TypeInv

\* What the driver does keeps the types.
LEMMA DriverStepTypes ==
  ASSUME TypeInv, DriverStep
  PROVE  TypeInv'
<1>1. /\ UNCHANGED <<commands, sent, gone, connectVars, lineVars, op, timeVars, failed>>
      /\ ~gone
  BY DEF DriverStep
<1>2. starts \in Nat /\ MaxStarts \in Nat
  BY TypeInvNumbers
<1>3. /\ interned' \subseteq NameSet /\ driver' \in {"off", "starting", "named", "up"}
      /\ starts' \in 0 .. MaxStarts /\ starts <= starts' /\ advertised' \in 0 .. starts'
      /\ hears' \in {hears, FALSE} /\ button' \in {"up", "down", "unseen"}
  <2>1. CASE DriverStarts /\ UNCHANGED <<hears, button>>
    BY <1>2, <2>1 DEF DriverStarts, TypeInv, DisplayTypes
  <2>2. CASE DriverInterns /\ UNCHANGED <<hears, button>>
    BY <1>2, <2>2 DEF DriverInterns, TypeInv, DisplayTypes
  <2>3. CASE DriverNamesWindow /\ UNCHANGED <<hears, button>>
    BY <1>2, <2>3 DEF DriverNamesWindow, TypeInv, DisplayTypes
  <2>4. CASE DriverAdvertises /\ UNCHANGED <<hears, button>>
    BY <1>2, <2>4 DEF DriverAdvertises, TypeInv, DisplayTypes
  <2>5. CASE DriverEnds
    <3>1. /\ driver' = "off" /\ hears' = FALSE /\ interned' = interned /\ starts' = starts
          /\ advertised' = 0 \/ advertised' = advertised
      BY <2>5 DEF DriverEnds
    <3>2. button' \in {"up", "down", "unseen"}
      BY <2>5 DEF DriverEnds, TypeInv, DisplayTypes
    <3>3. starts' \in 0 .. MaxStarts /\ starts <= starts' /\ advertised' \in 0 .. starts'
      BY <1>2, <3>1 DEF TypeInv, DisplayTypes
    <3> QED BY <3>1, <3>2, <3>3 DEF TypeInv, DisplayTypes
  <2> QED BY <2>1, <2>2, <2>3, <2>4, <2>5 DEF DriverStep
<1>4. commands \in Seq(CommandTo(starts'))
  <2>1. CommandTo(starts) \subseteq CommandTo(starts')
    BY <1>2, <1>3 DEF CommandTo
  <2> QED BY <2>1, SeqMonotonic DEF TypeInv, DisplayTypes
<1>5. DisplayTypes'
  BY <1>1, <1>3, <1>4 DEF TypeInv, DisplayTypes
<1>6. stage # Connected => sent' = <<>> /\ commands' = <<>> /\ ~hears'
  BY <1>1, <1>3 DEF TypeInv, Connection
<1>7. Len(sent) <= Len(sent')
  BY <1>1, TypeInvNumbers
<1> QED BY <1>1, <1>3, <1>5, <1>6, <1>7, DisplayStepTypes

\* What a step of the device or of a command adds to what the server has sent.
LEMMA SendXIs ==
  ASSUME TypeInv, NEW kind \in XEvent, SendX(kind)
  PROVE  /\ sent' \in Seq(XEvent) /\ Len(sent') = Len(sent) + 1 /\ sent' = Append(sent, kind)
         /\ Len(sent) \in Nat
         /\ \A i \in 1 .. Len(sent) + 1 : sent'[i] = IF i = Len(sent) + 1 THEN kind ELSE sent[i]
BY OneMore DEF SendX, TypeInv, DisplayTypes

\* The device adds one event at the most, and a button that is down is one the
\* client heard go down.
LEMMA DeviceMovesIs ==
  ASSUME TypeInv, DeviceMoves
  PROVE  /\ UNCHANGED <<driverVars, hears, commands, gone, connectVars, lineVars, op, timeVars,
                        failed>>
         /\ \/ UNCHANGED sent /\ ~hears /\ button' \in {"up", "unseen"}
            \/ \E kind \in XEvent :
                 /\ SendX(kind) /\ stage = Connected
                 /\ \/ button = "up" /\ button' = "down" /\ kind = "press" /\ hears
                    \/ button # "up" /\ button' = "up" /\ kind = "release" /\ hears
                    \/ UNCHANGED button /\ kind \in {"motion", "removal"} /\ hears
                    \/ UNCHANGED button /\ kind = "noise"
<1>1. UNCHANGED <<driverVars, hears, commands, gone, connectVars, lineVars, op, timeVars, failed>>
  BY DEF DeviceMoves
<1>2. hears => stage = Connected
  BY DEF TypeInv, Connection
<1>3. CASE ButtonMoves
  <2>1. CASE hears /\ button = "up"
    BY <1>1, <1>2, <1>3, <2>1 DEF ButtonMoves, XEvent
  <2>2. CASE hears /\ button # "up"
    BY <1>1, <1>2, <1>3, <2>2 DEF ButtonMoves, XEvent
  <2>3. CASE ~hears
    BY <1>1, <1>3, <2>3 DEF ButtonMoves
  <2> QED BY <2>1, <2>2, <2>3
<1>4. CASE hears /\ SendX("motion") /\ UNCHANGED button
  BY <1>1, <1>2, <1>4 DEF XEvent
<1>5. CASE hears /\ SendX("removal") /\ UNCHANGED button
  BY <1>1, <1>2, <1>5 DEF XEvent
<1>6. CASE stage = Connected /\ SendX("noise") /\ UNCHANGED button
  BY <1>1, <1>6 DEF XEvent
<1> QED BY <1>3, <1>4, <1>5, <1>6 DEF DeviceMoves

\* So does what the device sends, to a client that is connected.
LEMMA DeviceMovesTypes ==
  ASSUME TypeInv, DeviceMoves
  PROVE  TypeInv'
<1>1. UNCHANGED <<driverVars, hears, commands, gone, connectVars, lineVars, op, timeVars, failed>>
  BY DEF DeviceMoves
<1>2. button' \in {"up", "down", "unseen"}
  BY DeviceMovesIs DEF TypeInv, DisplayTypes
<1>3. /\ sent' \in Seq(XEvent) /\ Len(sent) <= Len(sent')
      /\ stage # Connected => sent' = <<>>
  <2>1. CASE UNCHANGED sent
    BY <2>1, TypeInvNumbers DEF TypeInv, DisplayTypes, Connection
  <2>2. ASSUME NEW kind \in XEvent, SendX(kind), stage = Connected
        PROVE  /\ sent' \in Seq(XEvent) /\ Len(sent) <= Len(sent')
               /\ stage # Connected => sent' = <<>>
    BY <2>2, SendXIs
  <2> QED BY <2>1, <2>2, DeviceMovesIs
<1>4. DisplayTypes'
  BY <1>1, <1>2, <1>3 DEF TypeInv, DisplayTypes, driverVars
<1>5. stage # Connected => sent' = <<>> /\ commands' = <<>> /\ ~hears'
  BY <1>1, <1>3 DEF TypeInv, Connection
<1>6. starts <= starts'
  BY <1>1, TypeInvNumbers DEF driverVars
<1> QED BY <1>1, <1>3, <1>4, <1>5, <1>6, DisplayStepTypes

\* So does a command that arrives, or comes back as an error.
LEMMA CommandArrivesTypes ==
  ASSUME TypeInv, CommandArrives
  PROVE  TypeInv' /\ stage = Connected
<1>1. /\ UNCHANGED <<driverVars, button, gone, connectVars, lineVars, op, timeVars, failed>>
      /\ commands # <<>> /\ commands' = Tail(commands) /\ hears' \in BOOLEAN
      /\ sent' = sent \/ SendX("noise")
  BY DEF CommandArrives, TypeInv, DisplayTypes
<1>2. stage = Connected
  BY <1>1 DEF TypeInv, Connection
<1>3. commands' \in Seq(CommandTo(starts))
  BY <1>1, OneLess DEF TypeInv, DisplayTypes
<1>4. sent' \in Seq(XEvent) /\ Len(sent) <= Len(sent')
  <2>1. CASE sent' = sent
    BY <2>1, TypeInvNumbers DEF TypeInv, DisplayTypes
  <2>2. CASE SendX("noise")
    <3>1. "noise" \in XEvent
      BY DEF XEvent
    <3> QED BY <2>2, <3>1, SendXIs
  <2> QED BY <1>1, <2>1, <2>2
<1>5. DisplayTypes'
  BY <1>1, <1>3, <1>4 DEF TypeInv, DisplayTypes, driverVars
<1>6. starts <= starts'
  BY <1>1, TypeInvNumbers DEF driverVars
<1>7. TypeInv'
  BY <1>1, <1>2, <1>4, <1>5, <1>6, DisplayStepTypes
<1> QED BY <1>2, <1>7

\* So does the end of the server.
LEMMA ServerGoesTypes ==
  ASSUME TypeInv, ServerGoes
  PROVE  TypeInv'
<1>1. /\ UNCHANGED <<starts, connectVars, lineVars, op, timeVars, failed, sent>>
      /\ gone' = TRUE /\ interned' = {} /\ driver' = "off" /\ advertised' = 0 /\ hears' = FALSE
      /\ button' \in {button, "unseen"}
  BY DEF ServerGoes
<1>2. commands' = <<>> /\ commands' \in Seq(CommandTo(starts'))
  BY EmptySeq DEF ServerGoes
<1>3. starts \in Nat /\ Len(sent) \in Nat
  BY TypeInvNumbers
<1>4. DisplayTypes'
  <2>1. interned' \subseteq NameSet /\ advertised' \in 0 .. starts'
    BY <1>1, <1>3
  <2> QED BY <1>1, <1>2, <2>1 DEF TypeInv, DisplayTypes
<1>5. stage # Connected => sent' = <<>> /\ commands' = <<>> /\ ~hears'
  BY <1>1, <1>2 DEF TypeInv, Connection
<1> QED BY <1>1, <1>3, <1>4, <1>5, DisplayStepTypes

\* Leaving a call: nothing of a timed read is left.
LEMMA ReturnTimes ==
  ASSUME NEW fails \in BOOLEAN, Return(fails)
  PROVE  Times' /\ op' = "idle" /\ failed' \in BOOLEAN
<1>1. /\ op' = "idle" /\ failed' = fails
      /\ limit' = 0 /\ lasted' = 0 /\ asleep' = 0 /\ waited' = 0
  BY DEF Return
<1>2. POLL_STEP \in Nat
  BY MagellanAssumption
<1> QED BY <1>1, <1>2 DEF Times

\* So does each request of connect_on.
LEMMA ConnectStepTypes ==
  ASSUME TypeInv, ConnectStep
  PROVE  TypeInv'
<1>1. /\ op = "connect" /\ stage # Connected /\ stage \in Nat /\ sent = <<>> /\ commands = <<>>
      /\ ~hears
      /\ UNCHANGED <<driverVars, hears, button, gone, lineVars, sent>>
  BY NamesAre DEF ConnectStep, TypeInv, Connection
<1>2. LineTypes'
  BY <1>1 DEF TypeInv, LineTypes, lineVars
<1>3. ASSUME UNCHANGED commands
      PROVE  DisplayTypes'
  BY <1>1, <1>3 DEF TypeInv, DisplayTypes, driverVars
<1>4. CASE ConnectFails /\ UNCHANGED commands
  <2>1. Times' /\ op' = "idle" /\ failed' \in BOOLEAN
    BY <1>4, ReturnTimes DEF ConnectFails
  <2>2. stage' = 0 /\ atoms' = {} /\ window' = 0
    BY <1>4 DEF ConnectFails
  <2>3. starts' \in Nat
    BY <1>1, TypeInvNumbers DEF driverVars
  <2>4. /\ stage' \in 0 .. Connected /\ atoms' \subseteq NameSet /\ window' \in 0 .. starts'
        /\ ~(stage' > FindsWindow) /\ ~(stage' >= FindsWindow)
    BY <2>2, <2>3, NamesAre
  <2>5. sent' = <<>> /\ commands' = <<>> /\ ~hears'
    BY <1>1, <1>4
  <2>6. op' \notin Reads /\ op' # "connect"
    BY <2>1 DEF Reads
  <2>7. Connection'
    BY <2>1, <2>2, <2>4, <2>5, <2>6 DEF Connection
  <2> QED BY <1>2, <1>3, <1>4, <2>1, <2>7 DEF TypeInv
<1>5. CASE UNCHANGED <<op, failed, timeVars, commands>> /\ (InternOne \/ FindWindow)
  <2>1. Times'
    BY <1>5 DEF TypeInv, Times, timeVars
  <2>2. /\ sent' = <<>> /\ commands' = <<>> /\ ~hears' /\ op' = "connect" /\ op' \notin Reads
        /\ failed' \in BOOLEAN /\ starts' = starts
    BY <1>1, <1>5 DEF Reads, TypeInv, Connection, driverVars
  <2>3. CASE InternOne
    <3> DEFINE known == atoms \cup ({Names[stage + 1]} \cap interned)
    <3>1. /\ stage < 5 /\ stage' = stage + 1 /\ atoms' = known /\ window' = window
          /\ (stage + 1 = 5 => Needed \subseteq known)
      BY <1>1, <1>5, <2>2, <2>3, NamesAre DEF InternOne, ConnectFails, Return
    <3>2. stage + 1 \in 1 .. 5 /\ Names[stage + 1] \in NameSet
      BY <1>1, <3>1, NamesAre
    <3>3. known \subseteq NameSet
      BY <3>2 DEF TypeInv, Connection
    <3> HIDE DEF known
    <3>4. /\ stage' \in 0 .. Connected /\ stage' # Connected /\ ~(stage' > FindsWindow)
          /\ (stage' >= FindsWindow => Needed \subseteq atoms')
      BY <1>1, <3>1, NamesAre
    <3>5. Connection'
      BY <2>2, <3>1, <3>3, <3>4 DEF TypeInv, Connection
    <3> QED BY <1>2, <1>3, <1>5, <2>1, <3>5 DEF TypeInv
  <2>4. CASE FindWindow
    <3>1. /\ stage = 5 /\ stage' = 6 /\ window' = advertised /\ advertised # 0 /\ atoms' = atoms
      BY <1>1, <1>5, <2>2, <2>4, NamesAre DEF FindWindow, ConnectFails, Return
    <3>2. window' \in 1 .. starts' /\ window' \in 0 .. starts'
      BY <2>2, <3>1, TypeInvNumbers DEF TypeInv, DisplayTypes
    <3>3. /\ stage' \in 0 .. Connected /\ stage' # Connected /\ Needed \subseteq atoms'
      BY <3>1, NamesAre DEF TypeInv, Connection
    <3>4. Connection'
      BY <2>2, <3>1, <3>2, <3>3 DEF TypeInv, Connection
    <3> QED BY <1>2, <1>3, <1>5, <2>1, <3>4 DEF TypeInv
  <2> QED BY <1>5, <2>3, <2>4
<1>6. CASE ReadName /\ ~(ConnectFails /\ UNCHANGED commands)
  <2>1. /\ stage = 6 /\ Return(FALSE) /\ stage' = 7 /\ commands' = Command("window")
        /\ UNCHANGED <<atoms, window>>
    BY <1>6, NamesAre DEF ReadName
  <2>2. Times' /\ op' = "idle" /\ failed' \in BOOLEAN
    BY <2>1, ReturnTimes
  <2>3. window \in 1 .. starts /\ Needed \subseteq atoms /\ starts' = starts
        /\ window \in 0 .. starts
    BY <1>1, <2>1, NamesAre DEF TypeInv, Connection, driverVars
  <2>4. commands' \in Seq(CommandTo(starts))
    <3>1. [to |-> window, what |-> "window"] \in CommandTo(starts)
      BY <2>3 DEF CommandTo
    <3> QED BY <2>1, <3>1, OneMore DEF Command, TypeInv, DisplayTypes
  <2>5. DisplayTypes'
    BY <1>1, <2>4 DEF TypeInv, DisplayTypes, driverVars
  <2>6. Connection'
    BY <2>1, <2>2, <2>3, NamesAre DEF TypeInv, Connection, Reads
  <2> QED BY <1>2, <2>2, <2>5, <2>6 DEF TypeInv
<1> QED BY <1>1, <1>4, <1>5, <1>6 DEF ConnectStep, InternOne, FindWindow

\* The calls an application makes.
LEMMA CallTypes ==
  ASSUME TypeInv, StartConnect \/ Call \/ set_sensitivity
  PROVE  TypeInv'
<1>1. /\ op = "idle" /\ UNCHANGED <<driverVars, hears, button, gone, lineVars, sent>>
  BY DEF StartConnect, Connect, Call, Read, set_sensitivity
<1>2. LineTypes'
  BY <1>1 DEF TypeInv, LineTypes, lineVars
<1>3. ASSUME commands' \in Seq(CommandTo(starts))
      PROVE  DisplayTypes'
  BY <1>1, <1>3 DEF TypeInv, DisplayTypes, driverVars
<1>4. /\ commands \in Seq(CommandTo(starts)) /\ starts' = starts /\ hears' = hears
      /\ sent' = sent /\ op \notin Reads /\ op # "connect"
  BY <1>1 DEF TypeInv, DisplayTypes, driverVars, Reads
<1>5. limit = 0 /\ waited = 0 /\ lasted = 0 /\ asleep = 0
  BY <1>1 DEF TypeInv, Times
<1>6. CASE StartConnect
  <2>1. /\ op' = "connect" /\ failed' = FALSE /\ stage = 0
        /\ UNCHANGED <<connectVars, commands, timeVars>>
    BY <1>6 DEF StartConnect, Connect
  <2>2. Times'
    BY <1>5, <2>1 DEF TypeInv, Times, timeVars
  <2>3. Connection'
    <3>1. /\ stage' = 0 /\ atoms' = atoms /\ window' = window /\ op' \notin Reads
          /\ failed' \in BOOLEAN /\ commands' = commands
      BY <2>1 DEF connectVars, Reads
    <3>2. /\ sent = <<>> /\ commands = <<>> /\ ~hears /\ atoms \subseteq NameSet
          /\ window \in 0 .. starts
      BY <2>1, NamesAre DEF TypeInv, Connection
    <3>3. 0 \in 0 .. Connected /\ 0 # Connected /\ ~(0 > FindsWindow) /\ ~(0 >= FindsWindow)
      BY NamesAre
    <3> QED BY <1>4, <2>1, <3>1, <3>2, <3>3 DEF Connection
  <2> QED BY <1>2, <1>3, <1>4, <2>1, <2>2, <2>3 DEF TypeInv
<1>7. CASE Call
  <2>1. /\ op' \in Reads /\ failed' = FALSE /\ stage = Connected
        /\ UNCHANGED <<connectVars, commands, lasted, asleep, waited>>
        /\ limit' \in {0} \cup Timeouts /\ (op' # "read_timeout" => limit' = 0)
    BY <1>5, <1>7 DEF Call, Read, Reads
  <2>2. Times'
    <3>1. limit' \in Nat /\ POLL_STEP \in Nat
      BY <2>1, MagellanAssumption
    <3> QED BY <1>5, <2>1, <3>1 DEF Times
  <2>3. Connection'
    BY <1>1, <1>4, <2>1, NamesAre DEF TypeInv, Connection, connectVars, Reads
  <2> QED BY <1>2, <1>3, <1>4, <2>1, <2>2, <2>3 DEF TypeInv
<1>8. CASE set_sensitivity
  <2>1. /\ stage = Connected /\ failed' = gone /\ UNCHANGED <<connectVars, op, timeVars>>
        /\ commands' = IF gone THEN commands ELSE Command("sensitivity")
    BY <1>8 DEF set_sensitivity
  <2>2. Times'
    BY <2>1 DEF TypeInv, Times, timeVars
  <2>3. Connection'
    <3>1. failed' \in BOOLEAN
      BY <2>1 DEF TypeInv, DisplayTypes
    <3>2. stage' = Connected /\ op' = op /\ atoms' = atoms /\ window' = window
      BY <2>1 DEF connectVars
    <3> QED BY <1>1, <1>4, <2>1, <3>1, <3>2, NamesAre DEF TypeInv, Connection
  <2>4. commands' \in Seq(CommandTo(starts))
    <3>1. window \in 1 .. starts
      BY <2>1, NamesAre DEF TypeInv, Connection
    <3>2. [to |-> window, what |-> "sensitivity"] \in CommandTo(starts)
      BY <3>1 DEF CommandTo
    <3> QED BY <1>4, <2>1, <3>2, OneMore DEF Command
  <2> QED BY <1>2, <1>3, <2>2, <2>3, <2>4 DEF TypeInv
<1> QED BY <1>6, <1>7, <1>8

\* What a read does with the line: it hands out the event that waits, or takes the
\* next thing the server sent, or leaves all as it is.
LEMMA LookIs ==
  ASSUME TypeInv, Look
  PROVE  /\ UNCHANGED <<driverVars, hears, button, commands, gone, connectVars, sent>>
         /\ op \in Reads /\ asleep = 0
         /\ \/ /\ queued # <<>> /\ told' = Append(told, Head(queued)) /\ queued' = Tail(queued)
               /\ taken' = taken /\ Return(FALSE)
            \/ /\ queued = <<>> /\ taken < Len(sent) /\ taken' = taken + 1
               /\ queued' = IF Carried(sent[taken + 1]) THEN Append(queued, taken + 1) ELSE queued
               /\ UNCHANGED <<told, op, failed, timeVars>>
            \/ /\ UNCHANGED lineVars
               /\ \/ NothingThere /\ (op = "poll" \/ (op = "read_timeout" /\ Over))
                     /\ Return(FALSE)
                  \/ /\ op = "read_timeout" /\ ~Over /\ asleep' = Step /\ waited' = 0
                     /\ UNCHANGED <<op, failed, limit, lasted>>
                  \/ Return(TRUE)
BY DEF Look, HandOut, Absorb, NothingFound, ReadFails, Looks, File

\* So does each turn of a read.
LEMMA LookTypes ==
  ASSUME TypeInv, Look
  PROVE  TypeInv'
<1>1. /\ UNCHANGED <<driverVars, hears, button, commands, gone, connectVars, sent>>
      /\ op \in Reads /\ asleep = 0 /\ stage = Connected
  BY LookIs DEF TypeInv, Connection
<1>2. DisplayTypes'
  BY <1>1 DEF TypeInv, DisplayTypes, driverVars
<1>3. Connected = 7 /\ starts' = starts /\ stage' = Connected /\ window' = window
      /\ atoms' = atoms
  BY <1>1, NamesAre DEF driverVars, connectVars
<1>4. ASSUME op' \in {"idle", op}, failed' \in BOOLEAN
      PROVE  Connection'
  <2>1. op' # "connect" /\ op' \in {"idle", "connect"} \cup Reads
    BY <1>1, <1>4 DEF Reads
  <2> QED BY <1>1, <1>3, <1>4, <2>1 DEF TypeInv, Connection
<1>5. /\ Len(sent) \in Nat /\ taken \in Nat /\ taken <= Len(sent) /\ Len(queued) \in Nat
      /\ queued \in Seq(Nat) /\ told \in Seq(Nat) /\ failed \in BOOLEAN /\ Len(queued) <= 1
      /\ limit \in Nat /\ POLL_STEP \in Nat
  BY TypeInvNumbers DEF TypeInv, LineTypes, Connection
<1>6. CASE /\ queued # <<>> /\ told' = Append(told, Head(queued)) /\ queued' = Tail(queued)
           /\ taken' = taken /\ Return(FALSE)
  <2>1. Times' /\ op' = "idle" /\ failed' \in BOOLEAN
    BY <1>6, ReturnTimes
  <2>2. queued' \in Seq(Nat) /\ Len(queued') <= 1 /\ told' \in Seq(Nat)
    <3>1. /\ Head(queued) \in Nat /\ Tail(queued) \in Seq(Nat)
          /\ Len(Tail(queued)) = Len(queued) - 1
      BY <1>5, <1>6, OneLess
    <3> QED BY <1>5, <1>6, <3>1, OneMore
  <2>3. LineTypes'
    BY <1>1, <1>5, <1>6, <2>2 DEF LineTypes
  <2> QED BY <1>2, <1>4, <2>1, <2>3 DEF TypeInv
<1>7. CASE /\ queued = <<>> /\ taken < Len(sent) /\ taken' = taken + 1
           /\ queued' = IF Carried(sent[taken + 1]) THEN Append(queued, taken + 1) ELSE queued
           /\ UNCHANGED <<told, op, failed, timeVars>>
  <2>1. Len(queued) = 0
    BY <1>5, <1>7, EmptyIffNone
  <2>2. queued' \in Seq(Nat) /\ Len(queued') <= 1
    <3>1. taken + 1 \in Nat
      BY <1>5
    <3>2. Append(queued, taken + 1) \in Seq(Nat) /\ Len(Append(queued, taken + 1)) = 1
      BY <1>5, <2>1, <3>1, OneMore
    <3> QED BY <1>5, <1>7, <3>2
  <2>3. LineTypes'
    BY <1>1, <1>5, <1>7, <2>2 DEF LineTypes
  <2>4. Times'
    BY <1>7 DEF TypeInv, Times, timeVars
  <2> QED BY <1>2, <1>4, <1>5, <1>7, <2>3, <2>4 DEF TypeInv
<1>8. CASE UNCHANGED lineVars
  <2>1. LineTypes'
    BY <1>1, <1>8 DEF TypeInv, LineTypes, lineVars
  <2>2. ASSUME NEW fails \in BOOLEAN, Return(fails)
        PROVE  TypeInv'
    BY <1>2, <1>4, <2>1, <2>2, ReturnTimes DEF TypeInv
  <2>3. CASE /\ op = "read_timeout" /\ ~Over /\ asleep' = Step /\ waited' = 0
             /\ UNCHANGED <<op, failed, limit, lasted>>
    <3>1. lasted \in Nat /\ lasted < limit
      BY <1>5, <2>3 DEF Over, TypeInv, Times
    <3>2. asleep' \in Nat /\ asleep' <= POLL_STEP /\ lasted + asleep' <= limit
      BY <1>5, <2>3, <3>1 DEF Step
    <3>3. Times'
      BY <1>5, <2>3, <3>1, <3>2 DEF TypeInv, Times
    <3> QED BY <1>2, <1>4, <1>5, <2>1, <2>3, <3>3 DEF TypeInv
  <2> QED BY <1>6, <1>7, <2>2, <2>3, LookIs
<1> QED BY <1>6, <1>7, <1>8, LookIs

\* So does the clock while a read sleeps.
LEMMA TickTypes ==
  ASSUME TypeInv, Tick
  PROVE  TypeInv'
<1>1. /\ asleep > 0 /\ asleep' = asleep - 1 /\ lasted' = lasted + 1
      /\ waited' = (IF Waits THEN waited + 1 ELSE 0)
      /\ UNCHANGED <<limit, driverVars, hears, button, commands, gone, connectVars, lineVars,
                     op, failed, sent>>
  BY DEF Tick
<1>2. limit \in Nat /\ POLL_STEP \in Nat
  BY TypeInvNumbers
<1>3. op = "read_timeout"
  BY <1>1, <1>2 DEF TypeInv, Times
<1>4. Times'
  BY <1>1, <1>2, <1>3 DEF TypeInv, Times
<1>5. DisplayTypes' /\ LineTypes'
  BY <1>1 DEF TypeInv, DisplayTypes, LineTypes, driverVars, lineVars
<1>6. Connection'
  BY <1>1 DEF TypeInv, Connection, driverVars, connectVars
<1> QED BY <1>4, <1>5, <1>6 DEF TypeInv

\* So does every step.
LEMMA TypeInvNext == TypeInv /\ [Next]_magellanVars => TypeInv'
<1> SUFFICES ASSUME TypeInv, [Next]_magellanVars PROVE TypeInv'
  OBVIOUS
<1>1. CASE DisplayNext
  BY <1>1, DriverStepTypes, DeviceMovesTypes, CommandArrivesTypes, ServerGoesTypes
     DEF DisplayNext
<1>2. CASE StartConnect \/ Call \/ set_sensitivity
  BY <1>2, CallTypes
<1>3. CASE ClientRuns
  BY <1>3, ConnectStepTypes, LookTypes, TickTypes DEF ClientRuns
<1>4. CASE UNCHANGED magellanVars
  <2>1. UNCHANGED <<driverVars, hears, button, commands, gone, sent>> /\ DisplayTypes'
    BY <1>4 DEF magellanVars, driverVars, TypeInv, DisplayTypes
  <2>2. Connection'
    BY <1>4 DEF magellanVars, driverVars, connectVars, TypeInv, Connection
  <2>3. Times' /\ LineTypes'
    BY <1>4 DEF magellanVars, timeVars, lineVars, TypeInv, Times, LineTypes
  <2> QED BY <2>1, <2>2, <2>3 DEF TypeInv
<1> QED BY <1>1, <1>2, <1>3, <1>4 DEF Next

\* Every variable keeps its type: in particular a connection that is not made, or
\* that failed, leaves nothing behind, and one that is made knows the names it
\* needs (connect, intern).
THEOREM TypeCorrect == Spec => []TypeOK
<1>1. Init => TypeInv
  BY TypeInvInit
<1>2. TypeInv /\ [Next]_magellanVars => TypeInv'
  BY TypeInvNext
<1>3. TypeInv => TypeOK
  BY TypeInvSound
<1> QED BY <1>1, <1>2, <1>3, PTL DEF Spec

\* A timed read leaves nothing waiting for longer than a step, whatever its limit
\* and whenever the event comes (read_timeout).
THEOREM AlwaysTakenSoon == Spec => []TakenSoon
<1>1. Init => TypeInv
  BY TypeInvInit
<1>2. TypeInv /\ [Next]_magellanVars => TypeInv'
  BY TypeInvNext
<1>3. TypeInv => TakenSoon
  BY TypeInvSound
<1> QED BY <1>1, <1>2, <1>3, PTL DEF Spec

\* A timed read that found nothing lasted just as long as it was given, and nothing
\* was waiting when it returned (read_timeout).
THEOREM ReadsAreTimely == Spec => TimelyReads
<1> DEFINE timely == op = "read_timeout" /\ op' = "idle" /\ ~failed' /\ told' = told
                       => lasted = limit /\ ~Waits
<1>1. Init => TypeInv
  BY TypeInvInit
<1>2. TypeInv /\ [Next]_magellanVars => TypeInv'
  BY TypeInvNext
<1>3. TypeInv /\ [Next]_magellanVars => [timely]_magellanVars
  <2> SUFFICES ASSUME TypeInv, [Next]_magellanVars, op = "read_timeout", op' = "idle",
                      ~failed', told' = told
               PROVE  lasted = limit /\ ~Waits
    BY DEF timely
  <2>1. Look
    BY DEF Next, DisplayNext, DriverStep, DeviceMoves, CommandArrives, ServerGoes, StartConnect,
           Connect, ConnectStep, Call, Read, set_sensitivity, ClientRuns, Tick, magellanVars
  <2>2. /\ told \in Seq(Nat) /\ queued \in Seq(Nat) /\ Len(told) \in Nat
        /\ lasted \in Nat /\ limit \in Nat /\ lasted <= limit /\ taken \in Nat
        /\ Len(sent) \in Nat
    BY TypeInvNumbers DEF TypeInv, LineTypes, Times
  <2>3. ASSUME queued # <<>>, told' = Append(told, Head(queued))
        PROVE  FALSE
    <3>1. Head(queued) \in Nat
      BY <2>2, <2>3, OneLess
    <3>2. Len(told') = Len(told) + 1
      BY <2>2, <2>3, <3>1, OneMore
    <3> QED BY <2>2, <3>2
  <2>4. NothingThere /\ Over
    BY <2>1, <2>3, LookIs DEF Return
  <2>5. taken + 1 .. Len(sent) = {}
    BY <2>2, <2>4 DEF NothingThere
  <2> QED BY <2>2, <2>4, <2>5 DEF Over, NothingThere, Waits
<1> QED BY <1>1, <1>2, <1>3, PTL DEF Spec, TimelyReads

-----------------------------------------------------------------------------
(* Events in order. *)

\* What the application was handed; and what is handed out or waits in the queue is
\* just what was carried of what was taken, each once.
Had(n) == \E k \in 1 .. Len(told) : told[k] = n

Lines ==
  /\ \A k \in 1 .. Len(told) : told[k] \in 1 .. taken
  /\ queued # <<>> => /\ Head(queued) \in 1 .. taken
                      /\ Carried(sent[Head(queued)]) /\ ~Had(Head(queued))
  /\ \A n \in 1 .. taken :
       Carried(sent[n]) => Had(n) \/ (queued # <<>> /\ n = Head(queued))

LineInv == TypeInv /\ Lines

\* But for a look of a read, a step leaves the lines alone and adds one thing to what
\* the server sent at the most; and the names are settled once it sends.
LEMMA OtherStep ==
  ASSUME TypeInv, [Next]_magellanVars, ~Look
  PROVE  /\ UNCHANGED lineVars
         /\ \/ sent = <<>> /\ sent' = <<>>
            \/ atoms' = atoms /\ (sent' = sent \/ \E kind \in XEvent : SendX(kind))
<1>1. CASE DriverStep \/ ServerGoes \/ Call \/ StartConnect \/ set_sensitivity \/ Tick
           \/ UNCHANGED magellanVars
  BY <1>1 DEF DriverStep, ServerGoes, Call, StartConnect, Connect, set_sensitivity, Tick,
              magellanVars, connectVars
<1>2. CASE DeviceMoves
  <2>1. UNCHANGED <<lineVars, connectVars>>
    BY <1>2 DEF DeviceMoves
  <2> QED BY <1>2, <2>1, DeviceMovesIs DEF connectVars
<1>3. CASE CommandArrives
  <2>1. UNCHANGED <<lineVars, connectVars>> /\ (sent' = sent \/ SendX("noise"))
    BY <1>3 DEF CommandArrives
  <2> QED BY <2>1 DEF connectVars, XEvent
<1>4. CASE ConnectStep
  <2>1. UNCHANGED <<lineVars, sent>> /\ op = "connect"
    BY <1>4 DEF ConnectStep
  <2> QED BY <2>1 DEF TypeInv, Connection
<1> QED BY <1>1, <1>2, <1>3, <1>4 DEF Next, DisplayNext, ClientRuns

\* What was sent stays as it was.
LEMMA OtherStepKeeps ==
  ASSUME TypeInv, [Next]_magellanVars, ~Look
  PROVE  /\ Len(sent) <= Len(sent') /\ Len(sent') \in Nat
         /\ \A n \in 1 .. Len(sent) : sent'[n] = sent[n] /\ atoms' = atoms
<1>1. Len(sent) \in Nat
  BY TypeInvNumbers
<1>2. CASE sent = <<>> /\ sent' = <<>>
  <2>1. Len(sent) = 0 /\ Len(sent') = 0
    BY <1>2, EmptySeq
  <2> QED BY <2>1
<1>3. CASE atoms' = atoms /\ sent' = sent
  BY <1>1, <1>3
<1>4. ASSUME atoms' = atoms, NEW kind \in XEvent, SendX(kind)
      PROVE  /\ Len(sent) <= Len(sent') /\ Len(sent') \in Nat
             /\ \A n \in 1 .. Len(sent) : sent'[n] = sent[n] /\ atoms' = atoms
  BY <1>1, <1>4, SendXIs
<1> QED BY <1>2, <1>3, <1>4, OtherStep

\* Nothing but a turn of a read takes what the server sent or hands it out.
LEMMA OtherStepLines ==
  ASSUME LineInv, [Next]_magellanVars, ~Look
  PROVE  Lines'
<1>1. /\ taken \in Nat /\ taken <= Len(sent) /\ Len(sent) \in Nat
      /\ taken' = taken /\ queued' = queued /\ told' = told
  BY TypeInvNumbers, OtherStep DEF LineInv, lineVars
<1>2. ASSUME NEW n \in 1 .. taken
      PROVE  Carried(sent[n])' <=> Carried(sent[n])
  <2>1. n \in 1 .. Len(sent)
    BY <1>1
  <2>2. sent'[n] = sent[n] /\ atoms' = atoms
    BY <2>1, OtherStepKeeps DEF LineInv
  <2> QED BY <2>2 DEF Carried
<1>3. \A n : Had(n)' <=> Had(n)
  BY <1>1 DEF Had
<1>4. queued # <<>> => Carried(sent[Head(queued)])'
  <2>1. SUFFICES ASSUME queued # <<>> PROVE Carried(sent[Head(queued)])'
    OBVIOUS
  <2>2. Head(queued) \in 1 .. taken /\ Carried(sent[Head(queued)])
    BY <2>1 DEF LineInv, Lines
  <2>3. Head(queued) \in 1 .. Len(sent)
    BY <1>1, <2>2
  <2>4. sent'[Head(queued)] = sent[Head(queued)] /\ atoms' = atoms
    BY <2>3, OtherStepKeeps DEF LineInv
  <2> QED BY <1>1, <2>2, <2>4 DEF Carried
<1> QED BY <1>1, <1>2, <1>3, <1>4 DEF LineInv, Lines

\* A read that hands out the event in the queue.
LEMMA HandOutLines ==
  ASSUME LineInv, Look, queued # <<>>, told' = Append(told, Head(queued)),
         queued' = Tail(queued), taken' = taken
  PROVE  /\ Lines'
         /\ \A n : Had(n)' <=> Had(n) \/ n = Head(queued)
         /\ queued' = <<>>
<1>1. /\ told \in Seq(Nat) /\ queued \in Seq(Nat) /\ Len(queued) <= 1 /\ Len(told) \in Nat
      /\ UNCHANGED <<sent, connectVars>>
  BY TypeInvNumbers, LookIs DEF LineInv, TypeInv, LineTypes
<1>2. /\ Head(queued) \in Nat /\ Tail(queued) \in Seq(Nat) /\ Len(Tail(queued)) = Len(queued) - 1
      /\ Len(queued) \in Nat /\ Len(queued) >= 1
  BY <1>1, OneLess
<1>3. queued' = <<>>
  <2>1. Len(Tail(queued)) = 0
    BY <1>1, <1>2
  <2> QED BY <1>2, <2>1, EmptyIffNone
<1>4. /\ Len(told') = Len(told) + 1
      /\ \A k \in 1 .. Len(told) + 1 :
           told'[k] = IF k = Len(told) + 1 THEN Head(queued) ELSE told[k]
  BY <1>1, <1>2, OneMore
<1>5. ASSUME NEW n
      PROVE  Had(n)' <=> Had(n) \/ n = Head(queued)
  <2>1. ASSUME Had(n)' PROVE Had(n) \/ n = Head(queued)
    BY <1>1, <1>4, <2>1 DEF Had
  <2>2. ASSUME Had(n) PROVE Had(n)'
    <3>1. PICK k \in 1 .. Len(told) : told[k] = n
      BY <2>2 DEF Had
    <3>2. k \in 1 .. Len(told) + 1 /\ k # Len(told) + 1
      BY <1>1
    <3>3. k \in 1 .. Len(told') /\ told'[k] = n
      BY <1>4, <3>1, <3>2
    <3> QED BY <3>3 DEF Had
  <2>3. ASSUME n = Head(queued) PROVE Had(n)'
    <3>1. Len(told) + 1 \in 1 .. Len(told')
      BY <1>1, <1>4
    <3>2. told'[Len(told) + 1] = n
      BY <1>1, <1>4, <2>3
    <3> QED BY <3>1, <3>2 DEF Had
  <2> QED BY <2>1, <2>2, <2>3
<1>6. \A k \in 1 .. Len(told') : told'[k] \in 1 .. taken'
  BY <1>1, <1>4 DEF LineInv, Lines
<1>7. ASSUME NEW n \in 1 .. taken', Carried(sent[n])'
      PROVE  Had(n)'
  <2>1. Carried(sent[n])
    BY <1>1, <1>7 DEF Carried, connectVars
  <2> QED BY <1>5, <2>1 DEF LineInv, Lines
<1> QED BY <1>3, <1>5, <1>6, <1>7 DEF Lines

\* One that takes the next thing sent.
LEMMA AbsorbLines ==
  ASSUME LineInv, Look, queued = <<>>, taken < Len(sent), taken' = taken + 1,
         queued' = IF Carried(sent[taken + 1]) THEN Append(queued, taken + 1) ELSE queued,
         told' = told
  PROVE  Lines'
<1>1. /\ taken \in Nat /\ UNCHANGED <<sent, connectVars>> /\ queued \in Seq(Nat)
      /\ Len(queued) = 0
  BY TypeInvNumbers, LookIs, EmptyIffNone DEF LineInv, TypeInv, LineTypes
<1>2. \A n : (Had(n)' <=> Had(n)) /\ (Carried(sent[n])' <=> Carried(sent[n]))
  BY <1>1 DEF Had, Carried, connectVars
<1>3. \A n : Had(n) => n \in 1 .. taken
  BY DEF LineInv, Lines, Had
<1>4. ASSUME Carried(sent[taken + 1])
      PROVE  queued' # <<>> /\ Head(queued') = taken + 1
  <2>1. taken + 1 \in Nat
    BY <1>1
  <2>2. queued' \in Seq(Nat) /\ Len(queued') = 1 /\ queued'[1] = taken + 1
    BY <1>1, <1>4, <2>1, OneMore
  <2>3. queued' # <<>>
    BY <2>2, EmptyIffNone
  <2> QED BY <2>2, <2>3, OneLess
<1>5. ~Carried(sent[taken + 1]) => queued' = <<>>
  OBVIOUS
<1>6. \A k \in 1 .. Len(told') : told'[k] \in 1 .. taken'
  <2>1. \A n : n \in 1 .. taken => n \in 1 .. taken'
    BY <1>1
  <2> QED BY <2>1 DEF LineInv, Lines
<1>7. queued' # <<>> => /\ Head(queued') \in 1 .. taken'
                        /\ Carried(sent[Head(queued)])' /\ ~Had(Head(queued))'
  <2>1. SUFFICES ASSUME queued' # <<>>
                 PROVE  /\ Head(queued') \in 1 .. taken'
                        /\ Carried(sent[Head(queued)])' /\ ~Had(Head(queued))'
    OBVIOUS
  <2>2. Carried(sent[taken + 1]) /\ Head(queued') = taken + 1
    BY <1>4, <1>5, <2>1
  <2>3. taken + 1 \in 1 .. taken' /\ taken + 1 \notin 1 .. taken
    BY <1>1
  <2>4. ~Had(taken + 1)
    BY <1>3, <2>3
  <2>5. Carried(sent[Head(queued)])'
    BY <1>1, <2>2 DEF Carried, connectVars
  <2>6. ~Had(Head(queued))'
    BY <2>2, <2>4 DEF Had
  <2> QED BY <2>2, <2>3, <2>5, <2>6
<1>8. ASSUME NEW n \in 1 .. taken', Carried(sent[n])'
      PROVE  Had(n)' \/ (queued' # <<>> /\ n = Head(queued'))
  <2>1. Carried(sent[n])
    BY <1>2, <1>8
  <2>2. CASE n = taken + 1
    BY <1>4, <2>1, <2>2
  <2>3. CASE n # taken + 1
    <3>1. n \in 1 .. taken
      BY <1>1, <2>3
    <3>2. Had(n)
      BY <2>1, <3>1 DEF LineInv, Lines
    <3> QED BY <1>2, <3>2
  <2> QED BY <2>2, <2>3
<1> QED BY <1>6, <1>7, <1>8 DEF Lines

\* At first nothing is taken and nothing handed out.
LEMMA LineInvInit == Init => LineInv
<1> SUFFICES ASSUME Init PROVE LineInv
  OBVIOUS
<1>1. TypeInv /\ queued = <<>> /\ Len(told) = 0 /\ taken = 0
  BY TypeInvInit, EmptySeq DEF Init
<1> QED BY <1>1 DEF LineInv, Lines

\* The queue and what was handed out go on being the events among what was taken.
LEMMA LineInvNext == LineInv /\ [Next]_magellanVars => LineInv'
<1> SUFFICES ASSUME LineInv, [Next]_magellanVars PROVE LineInv'
  OBVIOUS
<1>1. TypeInv /\ TypeInv'
  BY TypeInvNext DEF LineInv
<1>2. CASE ~Look
  BY <1>1, <1>2, OtherStepLines DEF LineInv
<1>3. CASE Look /\ UNCHANGED lineVars
  <2>1. UNCHANGED <<sent, connectVars>>
    BY <1>1, <1>3, LookIs
  <2> QED BY <1>1, <1>3, <2>1 DEF LineInv, Lines, Had, Carried, lineVars, connectVars
<1>4. CASE Look /\ ~UNCHANGED lineVars
  BY <1>1, <1>4, LookIs, HandOutLines, AbsorbLines DEF LineInv
<1> QED BY <1>2, <1>3, <1>4

\* What the mapping gives for `sent'.
SentKinds == [i \in 1 .. Len(sent) |-> IF Carried(sent[i]) THEN "event" ELSE "bad"]

KindsOf(s, names) == [i \in 1 .. Len(s) |-> IF Name(s[i]) \in names THEN "event" ELSE "bad"]

\* Kinds are kinds of the channel, one for each thing sent.
LEMMA KindsType ==
  ASSUME NEW s \in Seq(XEvent), NEW names
  PROVE  KindsOf(s, names) \in Seq(Channel!Kind) /\ Len(KindsOf(s, names)) = Len(s)
<1>1. Len(s) \in Nat
  BY LenProperties
<1>2. KindsOf(s, names) \in [1 .. Len(s) -> Channel!Kind]
  BY DEF KindsOf, Channel!Kind
<1>3. KindsOf(s, names) \in Seq(Channel!Kind)
  BY <1>1, <1>2, SeqDef
<1>4. DOMAIN KindsOf(s, names) = 1 .. Len(s)
  BY DEF KindsOf
<1> QED BY <1>1, <1>3, <1>4, LenProperties

\* The kinds of what is sent, with one thing more.
LEMMA KindsMore ==
  ASSUME NEW s \in Seq(XEvent), NEW names, NEW kind \in XEvent
  PROVE  \E k \in Channel!Kind : KindsOf(Append(s, kind), names) = Append(KindsOf(s, names), k)
<1> DEFINE k == IF Name(kind) \in names THEN "event" ELSE "bad"
           more == KindsOf(Append(s, kind), names)
           kinds == KindsOf(s, names)
<1>1. k \in Channel!Kind
  BY DEF Channel!Kind
<1>2. /\ Append(s, kind) \in Seq(XEvent) /\ Len(s) \in Nat
      /\ Len(Append(s, kind)) = Len(s) + 1
      /\ \A i \in 1 .. Len(s) + 1 : Append(s, kind)[i] = IF i = Len(s) + 1 THEN kind ELSE s[i]
  BY OneMore
<1>3. kinds \in Seq(Channel!Kind) /\ Len(kinds) = Len(s)
  BY KindsType
<1>4. more \in Seq(Channel!Kind) /\ Len(more) = Len(s) + 1
  BY <1>2, KindsType
<1>5. \A i \in 1 .. Len(s) : kinds[i] = IF Name(s[i]) \in names THEN "event" ELSE "bad"
  BY DEF KindsOf
<1>6. \A i \in 1 .. Len(s) + 1 :
        more[i] = IF Name(Append(s, kind)[i]) \in names THEN "event" ELSE "bad"
  BY <1>2 DEF KindsOf
<1> HIDE DEF k, more, kinds
<1>7. /\ Append(kinds, k) \in Seq(Channel!Kind) /\ Len(Append(kinds, k)) = Len(s) + 1
      /\ \A i \in 1 .. Len(s) + 1 :
           Append(kinds, k)[i] = IF i = Len(s) + 1 THEN k ELSE kinds[i]
  BY <1>1, <1>3, OneMore
<1>8. ASSUME NEW i \in 1 .. Len(s) + 1
      PROVE  more[i] = Append(kinds, k)[i]
  <2>1. CASE i = Len(s) + 1
    BY <1>2, <1>6, <1>7, <2>1 DEF k
  <2>2. CASE i # Len(s) + 1
    <3>1. i \in 1 .. Len(s)
      BY <1>2, <2>2
    <3> QED BY <1>2, <1>5, <1>6, <1>7, <2>2, <3>1
  <2> QED BY <2>1, <2>2
<1>9. more = Append(kinds, k)
  BY <1>4, <1>7, <1>8, SeqEqual
<1> QED BY <1>1, <1>9 DEF more, kinds

\* What the mapping gives is the kinds of what was sent, under the atoms the client has.
LEMMA SentKindsIs ==
  ASSUME TypeInv
  PROVE  /\ SentKinds = KindsOf(sent, atoms)
         /\ Len(SentKinds) = Len(sent) /\ SentKinds \in Seq(Channel!Kind)
         /\ \A n \in 1 .. Len(sent) : SentKinds[n] = "event" <=> Carried(sent[n])
<1>1. SentKinds = KindsOf(sent, atoms)
  BY DEF SentKinds, KindsOf, Carried
<1>2. Len(SentKinds) = Len(sent) /\ SentKinds \in Seq(Channel!Kind)
  BY <1>1, KindsType DEF TypeInv, DisplayTypes
<1>3. \A n \in 1 .. Len(sent) : SentKinds[n] = "event" <=> Carried(sent[n])
  BY DEF SentKinds
<1> QED BY <1>1, <1>2, <1>3

\* What the channel has not handed out of the first packets.
LEMMA UndeliveredAre ==
  ASSUME LineInv, NEW n
  PROVE  n \in Channel!Undelivered(taken) <=> queued # <<>> /\ n = Head(queued)
<1>1. /\ taken \in Nat /\ taken <= Len(sent) /\ Len(sent) \in Nat
      /\ \A m \in 1 .. Len(sent) : SentKinds[m] = "event" <=> Carried(sent[m])
  BY TypeInvNumbers, SentKindsIs DEF LineInv
<1>2. n \in Channel!Undelivered(taken)
        <=> n \in 1 .. taken /\ SentKinds[n] = "event" /\ ~Had(n)
  BY DEF Channel!Undelivered, SentKinds, Had
<1>3. n \in 1 .. taken => n \in 1 .. Len(sent)
  BY <1>1
<1> QED BY <1>1, <1>2, <1>3 DEF LineInv, Lines

\* Every step is one of the channel, or leaves it as it is.
LEMMA ChannelStep ==
  ASSUME LineInv, LineInv', [Next]_magellanVars
  PROVE  [Channel!Next]_(Channel!vars)
<1>1. TypeInv /\ TypeInv'
  BY DEF LineInv
<1>2. CASE ~Look
  <2>1. taken' = taken /\ told' = told
    BY <1>1, <1>2, OtherStep DEF lineVars
  <2>2. SentKinds = KindsOf(sent, atoms) /\ SentKinds' = KindsOf(sent', atoms')
    BY DEF SentKinds, KindsOf, Carried
  <2>3. CASE SentKinds' = SentKinds
    BY <2>1, <2>3 DEF Channel!vars, SentKinds
  <2>4. CASE sent = <<>> /\ sent' = <<>>
    <3>1. SentKinds' = SentKinds
      <4>1. Len(sent) = 0 /\ Len(sent') = 0
        BY <2>4, EmptySeq
      <4>2. SentKinds \in Seq(Channel!Kind) /\ Len(SentKinds) = 0
        BY <1>1, <4>1, SentKindsIs
      <4>3. SentKinds' \in Seq(Channel!Kind) /\ Len(SentKinds') = 0
        BY <1>1, <2>2, <4>1, KindsType DEF TypeInv, DisplayTypes
      <4> QED BY <4>2, <4>3, EmptyIffNone
    <3> QED BY <2>3, <3>1
  <2>5. ASSUME atoms' = atoms, NEW kind \in XEvent, SendX(kind)
        PROVE  Channel!Send
    <3>1. sent' = Append(sent, kind)
      BY <2>5 DEF SendX
    <3>2. PICK k \in Channel!Kind : KindsOf(sent', atoms) = Append(KindsOf(sent, atoms), k)
      BY <1>1, <3>1, KindsMore DEF TypeInv, DisplayTypes
    <3>3. SentKinds' = Append(SentKinds, k)
      BY <2>2, <2>5, <3>2
    <3> QED BY <2>1, <3>3 DEF Channel!Send, SentKinds
  <2>6. CASE atoms' = atoms /\ sent' = sent
    BY <2>2, <2>3, <2>6
  <2> QED BY <1>1, <1>2, <2>4, <2>5, <2>6, OtherStep DEF Channel!Next
<1>3. CASE Look
  <2>1. SentKinds' = SentKinds /\ Len(SentKinds) = Len(sent)
    <3>1. UNCHANGED <<sent, connectVars>>
      BY <1>1, <1>3, LookIs
    <3>2. SentKinds' = SentKinds
      BY <3>1 DEF SentKinds, Carried, connectVars
    <3> QED BY <1>1, <3>2, SentKindsIs
  <2>2. CASE UNCHANGED lineVars
    BY <2>1, <2>2 DEF Channel!vars, SentKinds, lineVars
  <2>3. CASE /\ queued # <<>> /\ told' = Append(told, Head(queued)) /\ queued' = Tail(queued)
             /\ taken' = taken
    <3>1. Head(queued) \in Nat
      BY <1>1, <2>3, OneLess DEF TypeInv, LineTypes
    <3>2. Head(queued) \in Channel!Undelivered(taken)
          /\ \A n \in Channel!Undelivered(taken) : Head(queued) <= n
      BY <2>3, <3>1, UndeliveredAre
    <3>3. Channel!Deliver(taken)
      BY <2>3, <3>2 DEF Channel!Deliver
    <3> QED BY <2>1, <2>3, <3>3 DEF Channel!Next, Channel!Step, SentKinds
  <2>4. CASE /\ queued = <<>> /\ taken < Len(sent) /\ taken' = taken + 1 /\ told' = told
    <3>1. Channel!Take
      BY <2>1, <2>4 DEF Channel!Take, SentKinds
    <3> QED BY <2>1, <2>4, <3>1 DEF Channel!Next, Channel!Step, SentKinds
  <2> QED BY <1>1, <1>3, <2>2, <2>3, <2>4, LookIs
<1> QED BY <1>2, <1>3

\* The client delivers events as EventChannel promises: of what the display server
\* sends, every event once and in order and nothing else, whichever reads the
\* application makes and however they sleep (take_queued, absorb, the three reads).
THEOREM ImplementsChannel == Spec => EventsInOrder
<1>1. Init => LineInv /\ Channel!Init
  <2> SUFFICES ASSUME Init PROVE LineInv /\ Channel!Init
    OBVIOUS
  <2>1. LineInv /\ sent = <<>> /\ Len(sent) = 0 /\ taken = 0 /\ told = <<>>
    BY LineInvInit, EmptySeq DEF Init
  <2>2. SentKinds = <<>>
    BY <2>1, SentKindsIs, EmptyIffNone DEF LineInv
  <2> QED BY <2>1, <2>2 DEF Channel!Init, SentKinds
<1>2. LineInv /\ [Next]_magellanVars => LineInv'
  BY LineInvNext
<1>3. LineInv /\ LineInv' /\ [Next]_magellanVars => [Channel!Next]_(Channel!vars)
  BY ChannelStep
<1> QED BY <1>1, <1>2, <1>3, PTL DEF Spec, EventsInOrder, Channel!Spec

-----------------------------------------------------------------------------
(* The button. *)

\* The last the server sent of the button is that it went down.
LastIsPress(s) ==
  \E n \in 1 .. Len(s) :
    /\ s[n] = "press"
    /\ \A m \in 1 .. Len(s) : s[m] \in {"press", "release"} => m <= n

\* A driver that has not been told the window has sent nothing of the button.
Unheard == ~hears /\ \A n \in 1 .. Len(sent) : sent[n] = "noise"

\* A button that is down is one the client heard go down; and the client asks a
\* driver to tell it once.
ButtonAs ==
  /\ ~hears => button # "down"
  /\ hears => (LastIsPress(sent) <=> button = "down")
  /\ \A i \in 1 .. Len(commands) :
       commands[i].what = "window" =>
         /\ Unheard
         /\ \A j \in 1 .. Len(commands) : commands[j].what = "window" => j = i

ButtonInv == LineInv /\ ButtonAs

\* What one thing more makes of the last of the button.
LEMMA LastIsPressMore ==
  ASSUME TypeInv, NEW kind \in XEvent, SendX(kind)
  PROVE  LastIsPress(sent') <=> kind = "press" \/ (kind # "release" /\ LastIsPress(sent))
<1>1. /\ Len(sent) \in Nat /\ Len(sent') = Len(sent) + 1
      /\ \A i \in 1 .. Len(sent) + 1 : sent'[i] = IF i = Len(sent) + 1 THEN kind ELSE sent[i]
  BY SendXIs
<1>2. /\ Len(sent) + 1 \in 1 .. Len(sent') /\ sent'[Len(sent) + 1] = kind
      /\ \A i \in 1 .. Len(sent) : i \in 1 .. Len(sent') /\ sent'[i] = sent[i]
      /\ \A i \in 1 .. Len(sent') : i = Len(sent) + 1 \/ i \in 1 .. Len(sent)
  BY <1>1
<1>3. ASSUME kind = "press"
      PROVE  LastIsPress(sent')
  <2>1. \A m \in 1 .. Len(sent') : m <= Len(sent) + 1
    BY <1>1
  <2> QED BY <1>2, <1>3, <2>1 DEF LastIsPress
<1>4. ASSUME kind = "release"
      PROVE  ~LastIsPress(sent')
  <2>1. SUFFICES ASSUME NEW n \in 1 .. Len(sent'), sent'[n] = "press",
                        Len(sent) + 1 <= n
                 PROVE  FALSE
    BY <1>2, <1>4 DEF LastIsPress
  <2>2. n = Len(sent) + 1
    BY <1>1, <2>1
  <2> QED BY <1>2, <1>4, <2>1, <2>2
<1>5. ASSUME kind # "press", kind # "release"
      PROVE  LastIsPress(sent') <=> LastIsPress(sent)
  <2>1. ASSUME LastIsPress(sent)
        PROVE  LastIsPress(sent')
    <3>1. PICK n \in 1 .. Len(sent) :
            /\ sent[n] = "press"
            /\ \A m \in 1 .. Len(sent) : sent[m] \in {"press", "release"} => m <= n
      BY <2>1 DEF LastIsPress
    <3>2. n \in 1 .. Len(sent') /\ sent'[n] = "press"
      BY <1>2, <3>1
    <3>3. \A m \in 1 .. Len(sent') : sent'[m] \in {"press", "release"} => m <= n
      BY <1>2, <1>5, <3>1
    <3> QED BY <3>2, <3>3 DEF LastIsPress
  <2>2. ASSUME LastIsPress(sent')
        PROVE  LastIsPress(sent)
    <3>1. PICK n \in 1 .. Len(sent') :
            /\ sent'[n] = "press"
            /\ \A m \in 1 .. Len(sent') : sent'[m] \in {"press", "release"} => m <= n
      BY <2>2 DEF LastIsPress
    <3>2. n \in 1 .. Len(sent) /\ sent[n] = "press"
      BY <1>2, <1>5, <3>1
    <3>3. \A m \in 1 .. Len(sent) : sent[m] \in {"press", "release"} => m <= n
      BY <1>2, <3>1
    <3> QED BY <3>2, <3>3 DEF LastIsPress
  <2> QED BY <2>1, <2>2
<1> QED BY <1>3, <1>4, <1>5

\* Something more that is not the driver's.
LEMMA UnheardMore ==
  ASSUME TypeInv, Unheard, SendX("noise")
  PROVE  \A n \in 1 .. Len(sent') : sent'[n] = "noise"
<1>1. "noise" \in XEvent
  BY DEF XEvent
<1>2. /\ Len(sent) \in Nat /\ Len(sent') = Len(sent) + 1
      /\ \A i \in 1 .. Len(sent) + 1 :
           sent'[i] = IF i = Len(sent) + 1 THEN "noise" ELSE sent[i]
  BY <1>1, SendXIs
<1>3. \A i \in 1 .. Len(sent') : i = Len(sent) + 1 \/ i \in 1 .. Len(sent)
  BY <1>2
<1> QED BY <1>2, <1>3 DEF Unheard

\* What the display does tells of the button to a client that is heard.
LEMMA DisplayButton ==
  ASSUME TypeInv, ButtonAs, DriverStep \/ ServerGoes \/ DeviceMoves
  PROVE  ButtonAs'
<1>1. CASE DriverStep \/ ServerGoes
  <2>1. /\ sent' = sent /\ commands' \in {commands, <<>>}
        /\ \/ hears' = hears /\ button' = button
           \/ hears' = FALSE /\ button' # "down"
    BY <1>1 DEF DriverStep, ServerGoes, DriverEnds
  <2>2. \A i \in 1 .. Len(commands') :
          i \in 1 .. Len(commands) /\ commands' = commands
    BY <2>1, EmptySeq
  <2>3. Unheard => Unheard'
    BY <2>1 DEF Unheard
  <2> QED BY <2>1, <2>2, <2>3 DEF ButtonAs
<1>2. CASE DeviceMoves
  <2>1. UNCHANGED <<hears, commands>>
    BY <1>2 DEF DeviceMoves
  <2>2. CASE UNCHANGED sent /\ ~hears /\ button' \in {"up", "unseen"}
    BY <2>1, <2>2 DEF ButtonAs, Unheard
  <2>3. ASSUME NEW kind \in XEvent, SendX(kind), hears, 
               \/ button = "up" /\ button' = "down" /\ kind = "press"
               \/ button # "up" /\ button' = "up" /\ kind = "release"
               \/ UNCHANGED button /\ kind \in {"motion", "removal"}
        PROVE  ButtonAs'
    <3>1. LastIsPress(sent') <=> button' = "down"
      BY <2>3, LastIsPressMore DEF ButtonAs
    <3> QED BY <2>1, <2>3, <3>1 DEF ButtonAs, Unheard
  <2>4. CASE SendX("noise") /\ UNCHANGED button
    <3>1. "noise" \in XEvent
      BY DEF XEvent
    <3>2. LastIsPress(sent') <=> LastIsPress(sent)
      BY <2>4, <3>1, LastIsPressMore
    <3>3. Unheard => Unheard'
      BY <2>1, <2>4, UnheardMore DEF Unheard
    <3> QED BY <2>1, <2>4, <3>2, <3>3 DEF ButtonAs
  <2> QED BY <1>2, <2>2, <2>3, <2>4, DeviceMovesIs
<1> QED BY <1>1, <1>2

\* The driver is told the window: nothing of the button is on its way by then.
LEMMA CommandButton ==
  ASSUME TypeInv, ButtonAs, CommandArrives
  PROVE  ButtonAs'
<1>1. /\ commands # <<>> /\ commands' = Tail(commands) /\ button' = button
      /\ sent' = sent \/ SendX("noise")
      /\ hears' = (hears \/ (/\ driver # "off" /\ Head(commands).to = starts
                             /\ Head(commands).what = "window"))
  BY DEF CommandArrives
<1>2. /\ Head(commands) = commands[1] /\ Len(commands) \in Nat /\ Len(commands) >= 1
      /\ Len(commands') = Len(commands) - 1
      /\ \A i \in 1 .. Len(commands) - 1 : commands'[i] = commands[i + 1]
  BY <1>1, OneLess DEF TypeInv, DisplayTypes
<1>3. 1 \in 1 .. Len(commands)
  BY <1>2
<1>4. LastIsPress(sent') <=> LastIsPress(sent)
  <2>1. "noise" \in XEvent
    BY DEF XEvent
  <2> QED BY <1>1, <2>1, LastIsPressMore
<1>5. Unheard => (~LastIsPress(sent) /\ \A n \in 1 .. Len(sent') : sent'[n] = "noise")
  BY <1>1, UnheardMore DEF Unheard, LastIsPress
<1>6. ASSUME NEW i \in 1 .. Len(commands'), commands'[i].what = "window"
      PROVE  /\ Unheard'
             /\ \A j \in 1 .. Len(commands') : commands'[j].what = "window" => j = i
  <2>1. i + 1 \in 1 .. Len(commands) /\ commands[i + 1].what = "window" /\ i + 1 # 1
    BY <1>2, <1>6
  <2>2. /\ Unheard
        /\ \A j \in 1 .. Len(commands) : commands[j].what = "window" => j = i + 1
    BY <2>1 DEF ButtonAs
  <2>3. ~hears'
    BY <1>1, <1>2, <1>3, <2>1, <2>2 DEF Unheard
  <2>4. ASSUME NEW j \in 1 .. Len(commands'), commands'[j].what = "window"
        PROVE  j = i
    <3>1. j + 1 \in 1 .. Len(commands) /\ commands[j + 1].what = "window"
      BY <1>2, <2>4
    <3>2. j + 1 = i + 1
      BY <2>2, <3>1
    <3> QED BY <1>2, <3>2
  <2> QED BY <1>5, <2>2, <2>3, <2>4 DEF Unheard
<1>7. hears' => (LastIsPress(sent') <=> button' = "down")
  <2>1. CASE hears
    BY <1>1, <1>4, <2>1 DEF ButtonAs
  <2>2. CASE ~hears /\ hears'
    <3>1. commands[1].what = "window"
      BY <1>1, <1>2, <2>2
    <3>2. Unheard
      BY <1>3, <3>1 DEF ButtonAs
    <3> QED BY <1>1, <1>4, <1>5, <2>2, <3>2 DEF ButtonAs
  <2> QED BY <2>1, <2>2
<1>8. ~hears' => button' # "down"
  BY <1>1 DEF ButtonAs
<1> QED BY <1>6, <1>7, <1>8 DEF ButtonAs

\* The client asks once, as it connects.
LEMMA ClientButton ==
  ASSUME TypeInv, ButtonAs, StartConnect \/ Call \/ set_sensitivity \/ ClientRuns
                            \/ UNCHANGED magellanVars
  PROVE  ButtonAs'
<1>1. UNCHANGED <<hears, button, sent>>
  <2>1. Look => UNCHANGED <<hears, button, sent>>
    BY LookIs
  <2> QED BY <2>1 DEF StartConnect, Call, set_sensitivity, ClientRuns, ConnectStep, Tick,
                      magellanVars
<1>2. CASE UNCHANGED commands
  BY <1>1, <1>2 DEF ButtonAs, Unheard
<1>3. ASSUME NEW what, what = "window" => commands = <<>> /\ sent = <<>> /\ ~hears,
             commands' = Command(what), what \in {"window", "sensitivity"},
             window \in 1 .. starts
      PROVE  ButtonAs'
  <2>1. [to |-> window, what |-> what] \in CommandTo(starts)
    BY <1>3 DEF CommandTo
  <2>2. /\ Len(commands') = Len(commands) + 1 /\ Len(commands) \in Nat
        /\ \A i \in 1 .. Len(commands) : commands'[i] = commands[i]
        /\ commands'[Len(commands) + 1].what = what
    BY <1>3, <2>1, OneMore DEF Command, TypeInv, DisplayTypes
  <2>3. CASE what = "window"
    <3>1. Len(commands) = 0 /\ Len(sent) = 0
      BY <1>3, <2>3, EmptySeq
    <3>2. Unheard'
      BY <1>1, <1>3, <2>3, <3>1 DEF Unheard
    <3>3. \A i \in 1 .. Len(commands') : i = 1
      BY <2>2, <3>1
    <3> QED BY <1>1, <3>2, <3>3 DEF ButtonAs
  <2>4. CASE what # "window"
    <3>1. ASSUME NEW i \in 1 .. Len(commands'), commands'[i].what = "window"
          PROVE  i \in 1 .. Len(commands) /\ commands[i].what = "window"
      <4>1. i # Len(commands) + 1
        BY <2>2, <2>4, <3>1
      <4>2. i \in 1 .. Len(commands)
        BY <2>2, <4>1
      <4> QED BY <2>2, <3>1, <4>2
    <3>2. Unheard => Unheard'
      BY <1>1 DEF Unheard
    <3> QED BY <1>1, <3>1, <3>2 DEF ButtonAs
  <2> QED BY <2>3, <2>4
<1>4. CASE ConnectStep /\ ~UNCHANGED commands
  <2>1. /\ op = "connect" /\ stage = 6 /\ commands' = Command("window")
    BY <1>4, NamesAre DEF ConnectStep, ReadName
  <2>2. sent = <<>> /\ commands = <<>> /\ ~hears /\ window \in 1 .. starts
    BY <2>1, NamesAre DEF TypeInv, Connection
  <2> QED BY <1>3, <2>1, <2>2
<1>5. CASE set_sensitivity /\ ~UNCHANGED commands
  <2>1. stage = 7 /\ commands' = Command("sensitivity")
    BY <1>5, NamesAre DEF set_sensitivity
  <2>2. window \in 1 .. starts
    BY <2>1, NamesAre DEF TypeInv, Connection
  <2> QED BY <1>3, <2>1, <2>2
<1>6. Look \/ Tick \/ StartConnect \/ Call \/ UNCHANGED magellanVars => UNCHANGED commands
  BY LookIs DEF Tick, StartConnect, Call, magellanVars
<1> QED BY <1>2, <1>4, <1>5, <1>6 DEF ClientRuns

\* No step loses the last of the button.
LEMMA ButtonInvNext == ButtonInv /\ [Next]_magellanVars => ButtonInv'
<1> SUFFICES ASSUME ButtonInv, [Next]_magellanVars PROVE ButtonInv'
  OBVIOUS
<1>1. LineInv'
  BY LineInvNext DEF ButtonInv
<1>2. ButtonAs'
  BY DisplayButton, CommandButton, ClientButton DEF ButtonInv, LineInv, Next, DisplayNext
<1> QED BY <1>1, <1>2 DEF ButtonInv

\* At first the button is up and nobody is heard.
LEMMA ButtonInvInit == Init => ButtonInv
<1> SUFFICES ASSUME Init PROVE ButtonInv
  OBVIOUS
<1>1. LineInv /\ ~hears /\ button = "up" /\ Len(commands) = 0
  BY LineInvInit, EmptySeq DEF Init
<1> QED BY <1>1 DEF ButtonInv, ButtonAs

\* All of the button that was sent the application was told of, or will be.
LEMMA ButtonInvSound == ButtonInv => ButtonTold
<1> SUFFICES ASSUME ButtonInv, hears, "ButtonReleaseEvent" \in atoms
             PROVE  Believed <=> button = "down"
  BY DEF ButtonTold
<1>1. TypeInv /\ LineInv /\ ButtonAs
  BY DEF ButtonInv, LineInv
<1>2. "ButtonPressEvent" \in atoms
  BY <1>1, NamesAre DEF TypeInv, Connection, Needed
<1>3. \A kind : kind \in {"press", "release"} => Carried(kind)
  BY <1>2 DEF Carried, Name
<1>4. \A n : Moved(n) <=> sent[n] \in {"press", "release"}
  BY <1>3 DEF Moved
<1> DEFINE known == {told[i] : i \in 1 .. Len(told)} \cup {queued[i] : i \in 1 .. Len(queued)}
                      \cup (taken + 1 .. Len(sent))
<1>5. /\ taken \in Nat /\ taken <= Len(sent) /\ Len(sent) \in Nat /\ Len(queued) \in Nat
      /\ queued \in Seq(Nat) /\ Len(queued) <= 1
  BY <1>1, TypeInvNumbers DEF TypeInv, LineTypes
<1>6. \A n : n \in known <=> \/ Had(n) \/ (queued # <<>> /\ n = Head(queued))
                             \/ n \in taken + 1 .. Len(sent)
  <2>1. ASSUME NEW n
        PROVE  n \in {queued[i] : i \in 1 .. Len(queued)} <=> queued # <<>> /\ n = Head(queued)
    <3>1. CASE Len(queued) = 0
      <4>1. queued = <<>>
        BY <1>5, <3>1, EmptyIffNone
      <4> QED BY <3>1, <4>1
    <3>2. CASE Len(queued) = 1
      <4>1. queued = <<>> <=> Len(queued) = 0
        BY <1>5, EmptyIffNone
      <4>2. queued # <<>>
        BY <3>2, <4>1
      <4>3. Head(queued) = queued[1]
        BY <1>5, <4>2, OneLess
      <4> QED BY <3>2, <4>2, <4>3
    <3> QED BY <1>5, <3>1, <3>2
  <2> QED BY <2>1 DEF Had
<1>7. \A n \in known : n \in 1 .. Len(sent)
  <2>1. \A n \in 1 .. taken : n \in 1 .. Len(sent)
    BY <1>5
  <2>2. \A n \in taken + 1 .. Len(sent) : n \in 1 .. Len(sent)
    BY <1>5
  <2> HIDE DEF known
  <2> QED BY <1>1, <1>6, <2>1, <2>2 DEF LineInv, Lines, Had
<1>8. ASSUME NEW n \in 1 .. Len(sent), Moved(n)
      PROVE  n \in known
  <2>1. n \in 1 .. taken \/ n \in taken + 1 .. Len(sent)
    BY <1>5
  <2>2. Carried(sent[n])
    BY <1>8 DEF Moved
  <2> HIDE DEF known
  <2> QED BY <1>1, <1>6, <2>1, <2>2 DEF LineInv, Lines
<1>9. Believed <=> \E n \in known : Moved(n) /\ sent[n] = "press"
                                    /\ \A m \in known : Moved(m) => m <= n
  BY DEF Believed
<1> HIDE DEF known
<1>10. Believed <=> LastIsPress(sent)
  BY <1>4, <1>7, <1>8, <1>9 DEF LastIsPress
<1> QED BY <1>1, <1>10 DEF ButtonAs

\* What the application was told of the button, with what still waits, is how the
\* button is, as long as the driver it asked runs and had all its names when the
\* client asked for them: however drivers end and start, and commands come too late
\* (set_client_window, decode).
THEOREM ButtonAlwaysTold == Spec => []ButtonTold
<1>1. Init => ButtonInv
  BY ButtonInvInit
<1>2. ButtonInv /\ [Next]_magellanVars => ButtonInv'
  BY ButtonInvNext
<1>3. ButtonInv => ButtonTold
  BY ButtonInvSound
<1> QED BY <1>1, <1>2, <1>3, PTL DEF Spec
================================================================================
