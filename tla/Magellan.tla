--------------------------------- MODULE Magellan ---------------------------------
(***************************************************************************)
(* The Magellan connection (src/src/magellan.rs): how a client finds the     *)
(* driver's window on the display and asks it for events, how its reads take *)
(* them out of everything the display server sends, and a driver that        *)
(* starts, ends and starts again meanwhile.                                  *)
(*                                                                         *)
(* An event is a motion, a removal or that of the device's one button; what  *)
(* else the server sends is noise.  A window is known by the number of the   *)
(* driver's start that made it; a request to the server is one step.  Time   *)
(* passes only while a read sleeps.                                          *)
(***************************************************************************)
EXTENDS Naturals, Sequences, FiniteSets

CONSTANTS
  Timeouts,    \* what an application gives read_timeout
  POLL_STEP,   \* how often a timed read looks
  MaxStarts,   \* bound: times a driver starts
  MaxEvents,   \* bound: X events the server sends the client
  MaxCommands  \* bound: commands on the way to the driver at once

ASSUME MagellanAssumption ==
  /\ Timeouts \subseteq Nat /\ Timeouts # {} /\ POLL_STEP \in Nat \ {0}
  /\ MaxStarts \in Nat /\ MaxEvents \in Nat /\ MaxCommands \in Nat

VARIABLES
  interned,    \* the names the display has atoms for
  driver,      \* "off", "starting", "named" (its window has its name), "up"
  starts,      \* times a driver has started
  advertised,  \* the window the root's property points at, 0 for none
  hears,       \* the driver has been told the client's window
  button,      \* "up", "down", or "unseen": down since before that
  commands,    \* commands on the way to a driver: its window, and what
  gone,        \* the display server has closed the connection, and all others
  stage,       \* the steps of connect done, Connected when it has succeeded
  atoms,       \* Client::atoms, those that are not 0
  window,      \* Client::driver_window
  queued,      \* Client::queued
  op,          \* the call in progress
  limit,       \* the time limit of a timed read,
  lasted,      \* what part of it is over,
  asleep,      \* and how long until it looks again
  failed,      \* the last call returned an error
  sent,        \* history: what the server has sent the client, in order
  taken,       \* history: how many of them the client has taken
  told,        \* history: which of them the application was handed
  waited       \* history: how long a timed read has left an event waiting

driverVars == <<interned, driver, starts, advertised>>
connectVars == <<stage, atoms, window>>
timeVars == <<limit, lasted, asleep, waited>>
lineVars == <<queued, taken, told>>
magellanVars == <<driverVars, hears, button, commands, gone, connectVars, lineVars, op,
                  timeVars, failed, sent>>

\* The names in the order Atoms::intern asks for them, and the first steps of
\* connect.
Names == <<"MotionEvent", "ButtonPressEvent", "ButtonReleaseEvent", "DeviceDisconnectEvent",
           "CommandEvent">>
FindsWindow == Len(Names)
ReadsName == Len(Names) + 1
Connected == Len(Names) + 2

NameSet == {Names[i] : i \in 1 .. Len(Names)}

\* What a driver interns at the least: the older ones never say that a device has
\* gone.
DriverNames == NameSet \ {"DeviceDisconnectEvent"}

Init ==
  /\ interned = {} /\ driver = "off" /\ starts = 0 /\ advertised = 0
  /\ hears = FALSE /\ button = "up" /\ commands = <<>> /\ gone = FALSE
  /\ stage = 0 /\ atoms = {} /\ window = 0 /\ queued = <<>>
  /\ op = "idle" /\ failed = FALSE /\ limit = 0 /\ lasted = 0 /\ asleep = 0 /\ waited = 0
  /\ sent = <<>> /\ taken = 0 /\ told = <<>>

-----------------------------------------------------------------------------
(* The driver, and the display server. *)

DriverStarts ==
  /\ driver = "off" /\ starts < MaxStarts
  /\ driver' = "starting" /\ starts' = starts + 1
  /\ UNCHANGED <<interned, advertised>>

DriverInterns ==
  /\ driver = "starting"
  /\ \E name \in NameSet \ interned : interned' = interned \cup {name}
  /\ UNCHANGED <<driver, starts, advertised>>

DriverNamesWindow ==
  /\ driver = "starting" /\ DriverNames \subseteq interned
  /\ driver' = "named"
  /\ UNCHANGED <<interned, starts, advertised>>

DriverAdvertises ==
  /\ driver = "named"
  /\ driver' = "up" /\ advertised' = starts
  /\ UNCHANGED <<interned, starts>>

\* Its window goes with it; a driver that is killed leaves the property behind.
DriverEnds ==
  /\ driver # "off"
  /\ driver' = "off"
  /\ advertised' \in {0, advertised}
  /\ hears' = FALSE
  /\ button' = IF button = "down" THEN "unseen" ELSE button
  /\ UNCHANGED <<interned, starts>>

DriverStep ==
  /\ \/ (DriverStarts \/ DriverInterns \/ DriverNamesWindow \/ DriverAdvertises)
        /\ UNCHANGED <<hears, button>>
     \/ DriverEnds
  /\ ~gone
  /\ UNCHANGED <<commands, gone, connectVars, lineVars, op, timeVars, failed, sent>>

SendX(kind) == Len(sent) < MaxEvents /\ sent' = Append(sent, kind)

\* The button moves whether or not a driver has anyone to tell.
ButtonMoves ==
  /\ IF button = "up" THEN button' = IF hears THEN "down" ELSE "unseen" ELSE button' = "up"
  /\ IF hears THEN SendX(IF button = "up" THEN "press" ELSE "release") ELSE UNCHANGED sent

\* Noise comes to any window there is.
DeviceMoves ==
  /\ \/ ButtonMoves
     \/ /\ hears
        /\ \/ SendX("motion")
           \/ "DeviceDisconnectEvent" \in interned /\ SendX("removal")
        /\ UNCHANGED button
     \/ stage = Connected /\ SendX("noise") /\ UNCHANGED button
  /\ ~gone
  /\ UNCHANGED <<driverVars, hears, commands, gone, connectVars, lineVars, op, timeVars, failed>>

\* A command to a window that is no more comes to nothing, but for an error among
\* the events.
CommandArrives ==
  /\ commands # <<>> /\ ~gone
  /\ commands' = Tail(commands)
  /\ LET there == driver # "off" /\ Head(commands).to = starts
     IN  /\ hears' = (hears \/ (there /\ Head(commands).what = "window"))
         /\ UNCHANGED sent \/ (~there /\ SendX("noise"))
  /\ UNCHANGED <<driverVars, button, gone, connectVars, lineVars, op, timeVars, failed>>

\* The display server ends, with all it held and every connection to it.
ServerGoes ==
  /\ ~gone
  /\ gone' = TRUE /\ interned' = {} /\ driver' = "off" /\ advertised' = 0
  /\ hears' = FALSE /\ commands' = <<>>
  /\ button' = IF button = "down" THEN "unseen" ELSE button
  /\ UNCHANGED <<starts, connectVars, lineVars, op, timeVars, failed, sent>>

DisplayNext == DriverStep \/ DeviceMoves \/ CommandArrives \/ ServerGoes

-----------------------------------------------------------------------------
(* The client's connect. *)

Return(fails) ==
  /\ op' = "idle" /\ failed' = fails
  /\ limit' = 0 /\ lasted' = 0 /\ asleep' = 0 /\ waited' = 0

ConnectFails ==
  /\ Return(TRUE)
  /\ stage' = 0 /\ atoms' = {} /\ window' = 0

Connect ==
  /\ op = "idle" /\ stage = 0
  /\ op' = "connect" /\ failed' = FALSE
  /\ UNCHANGED connectVars

\* (Mutated: only the name that finds the window is needed.)
NeededCommand == {"CommandEvent"}

\* Without these there is no driver on the display.
Needed == {"MotionEvent", "ButtonPressEvent", "CommandEvent"}

\* The display has an atom for a name from its first use on.
InternOne ==
  /\ stage < FindsWindow
  /\ LET known == atoms \cup ({Names[stage + 1]} \cap interned)
     IN  IF stage + 1 = FindsWindow /\ ~(Needed \subseteq known) THEN ConnectFails
         ELSE stage' = stage + 1 /\ atoms' = known /\ UNCHANGED <<window, op, failed, timeVars>>

FindWindow ==
  /\ stage = FindsWindow
  /\ IF advertised = 0 THEN ConnectFails
     ELSE stage' = ReadsName /\ window' = advertised /\ UNCHANGED <<atoms, op, failed, timeVars>>

\* (Mutated: the window's name is not asked for.)
IsAnyones(w) == TRUE

\* The window is that of a driver that runs.
IsDrivers(w) == driver \in {"named", "up"} /\ w = starts

Command(what) == Append(commands, [to |-> window, what |-> what])

\* A window that is no more has no name, or is someone else's by now.
ReadName ==
  /\ stage = ReadsName
  /\ IF IsDrivers(window)
     THEN /\ Return(FALSE) /\ stage' = Connected
          /\ commands' = Command("window")
          /\ UNCHANGED <<atoms, window>>
     ELSE ConnectFails /\ UNCHANGED commands

ConnectStep ==
  /\ op = "connect"
  /\ \/ ~gone /\ (InternOne \/ FindWindow) /\ UNCHANGED commands
     \/ ~gone /\ ReadName
     \/ gone /\ ConnectFails /\ UNCHANGED commands
  /\ UNCHANGED <<driverVars, hears, button, gone, lineVars, sent>>

-----------------------------------------------------------------------------
(* Its reads. *)

Reads == {"read_blocking", "read_timeout", "poll"}

Read(call) ==
  /\ op = "idle" /\ stage = Connected
  /\ op' = call /\ failed' = FALSE

Call ==
  /\ \/ (Read("read_blocking") \/ Read("poll")) /\ UNCHANGED limit
     \/ Read("read_timeout") /\ limit' \in Timeouts
  /\ UNCHANGED <<driverVars, hears, button, commands, gone, connectVars, lineVars, lasted,
                 asleep, waited, sent>>

\* decode: the name a client knows an event by.
Name(kind) ==
  CASE kind = "motion" -> "MotionEvent"
    [] kind = "press" -> "ButtonPressEvent"
    [] kind = "release" -> "ButtonReleaseEvent"
    [] kind = "removal" -> "DeviceDisconnectEvent"
    [] OTHER -> "none"

\* (Mutated: a release is not told from a press.)
CarriedPress(kind) == kind # "release" /\ Name(kind) \in atoms

Carried(kind) == Name(kind) \in atoms

\* (Mutated: all that comes is kept.)
FileAll(n) == Append(queued, n)

\* absorb keeps the events and drops the rest.
File(n) == IF Carried(sent[n]) THEN Append(queued, n) ELSE queued

Waits == queued # <<>> \/ \E i \in taken + 1 .. Len(sent) : Carried(sent[i])

Looks == op \in Reads /\ asleep = 0

HandOut ==
  /\ Looks /\ queued # <<>>
  /\ Return(FALSE)
  /\ told' = Append(told, Head(queued)) /\ queued' = Tail(queued)
  /\ UNCHANGED taken

Absorb ==
  /\ Looks /\ queued = <<>> /\ taken < Len(sent)
  /\ taken' = taken + 1
  /\ queued' = File(taken + 1)
  /\ UNCHANGED <<told, op, failed, timeVars>>

NothingThere == queued = <<>> /\ taken = Len(sent)

\* (Mutated: at the deadline there is still nothing left to wait for.)
OverAfter == lasted > limit

Over == lasted >= limit

\* (Mutated: a timed read sleeps for a whole step, or for all that is left.)
WholeStep == POLL_STEP
OneStep == limit - lasted

\* How long a timed read sleeps.
Step == IF limit - lasted < POLL_STEP THEN limit - lasted ELSE POLL_STEP

NothingFound ==
  /\ Looks /\ NothingThere /\ ~gone
  /\ \/ (op = "poll" \/ (op = "read_timeout" /\ Over)) /\ Return(FALSE)
     \/ /\ op = "read_timeout" /\ ~Over
        /\ asleep' = Step /\ waited' = 0
        /\ UNCHANGED <<op, failed, limit, lasted>>
  /\ UNCHANGED lineVars

\* What the server sent last may be lost with it.
ReadFails ==
  /\ Looks /\ queued = <<>> /\ gone
  /\ Return(TRUE)
  /\ UNCHANGED lineVars

Look ==
  /\ HandOut \/ Absorb \/ NothingFound \/ ReadFails
  /\ UNCHANGED <<driverVars, hears, button, commands, gone, connectVars, sent>>

Tick ==
  /\ asleep > 0
  /\ asleep' = asleep - 1 /\ lasted' = lasted + 1
  /\ waited' = IF Waits THEN waited + 1 ELSE 0
  /\ UNCHANGED <<limit, driverVars, hears, button, commands, gone, connectVars, lineVars, op,
                 failed, sent>>

\* A command goes to the window found at first, whoever's it is now.
set_sensitivity ==
  /\ op = "idle" /\ stage = Connected /\ Len(commands) < MaxCommands
  /\ failed' = gone
  /\ commands' = IF gone THEN commands ELSE Command("sensitivity")
  /\ UNCHANGED <<driverVars, hears, button, gone, connectVars, lineVars, op, timeVars, sent>>

StartConnect ==
  Connect /\ UNCHANGED <<driverVars, hears, button, commands, gone, lineVars, timeVars, sent>>

ClientRuns == ConnectStep \/ Look \/ Tick

Next == DisplayNext \/ StartConnect \/ ClientRuns \/ Call \/ set_sensitivity

Spec == Init /\ [][Next]_magellanVars

\* The client runs on, and time with it.
FairSpec == Spec /\ WF_magellanVars(ClientRuns)

-----------------------------------------------------------------------------
(* What the client promises. *)

\* The variables keep their types; a client without a connection has nothing of
\* one.
TypeOK ==
  /\ interned \subseteq NameSet /\ driver \in {"off", "starting", "named", "up"}
  /\ starts \in 0 .. MaxStarts /\ advertised \in 0 .. starts
  /\ hears \in BOOLEAN /\ gone \in BOOLEAN /\ button \in {"up", "down", "unseen"}
  /\ commands \in Seq([to : 1 .. starts, what : {"window", "sensitivity"}])
  /\ stage \in 0 .. Connected /\ atoms \subseteq NameSet /\ window \in 0 .. starts
  /\ op \in {"idle", "connect"} \cup Reads
  /\ failed \in BOOLEAN
  /\ limit \in {0} \cup Timeouts /\ lasted \in 0 .. limit /\ asleep \in 0 .. POLL_STEP
  /\ sent \in Seq({"motion", "press", "release", "removal", "noise"})
  /\ taken \in 0 .. Len(sent) /\ Len(queued) <= 1
  /\ stage # Connected => sent = <<>> /\ (op # "connect" => atoms = {} /\ window = 0)
  /\ stage = Connected => {"MotionEvent", "ButtonPressEvent", "CommandEvent"} \subseteq atoms

\* Of what the server sent, the application is handed every event once and in
\* order, and nothing else (EventChannel, without requests): whichever reads it
\* makes, and however they sleep.
Channel ==
  INSTANCE EventChannel WITH
    sent <- [i \in 1 .. Len(sent) |-> IF Carried(sent[i]) THEN "event" ELSE "bad"],
    delivered <- told, clean <- TRUE

EventsInOrder == Channel!Spec

\* What the application was told of the button, with what still waits, is how the
\* button is, as long as the driver it asked runs and had all its names when the
\* client asked for them: without that of a release a press is never taken back.
Moved(n) == sent[n] \in {"press", "release"} /\ Carried(sent[n])
Believed ==
  LET known == {told[i] : i \in 1 .. Len(told)} \cup {queued[i] : i \in 1 .. Len(queued)}
               \cup (taken + 1 .. Len(sent))
  IN  \E n \in known : Moved(n) /\ sent[n] = "press" /\ \A m \in known : Moved(m) => m <= n

ButtonTold == hears /\ "ButtonReleaseEvent" \in atoms => (Believed <=> button = "down")

\* A timed read that found nothing lasted as long as it was given, no more and no
\* less, and nothing was waiting when it returned.
TimelyReads ==
  [][op = "read_timeout" /\ op' = "idle" /\ ~failed' /\ told' = told => lasted = limit /\ ~Waits]_magellanVars

\* And it leaves nothing waiting for longer than a step.
TakenSoon == waited <= POLL_STEP

\* A timed read and a poll return, unless the server sends more for ever, since poll
\* goes on as long as there is anything there; and a read that blocks does once an
\* event waits for it.
ReadsReturn ==
  /\ \/ op \in {"read_timeout", "poll"} ~> op = "idle"
     \/ []<><<sent' # sent>>_magellanVars
  /\ op = "read_blocking" /\ Waits ~> op = "idle"
=============================================================================
