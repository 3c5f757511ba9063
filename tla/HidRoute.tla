-------------------------------- MODULE HidRoute --------------------------------
(***************************************************************************)
(* A device read over USB HID (src/src/hid_device.rs): the reports the       *)
(* system keeps for the application, the decoder they go through             *)
(* (HidDecoder), the events of a report that wait their turn, and the three  *)
(* reads.                                                                    *)
(*                                                                         *)
(* A puck is pushed and twisted to one of a few places.  The device repeats  *)
(* its reports for as long as it is there, so nothing bounds their number;   *)
(* of those the application does not read the system keeps the newest.       *)
(* When a motion was, its period, is left out.                               *)
(***************************************************************************)
EXTENDS HidDecoder

CONSTANTS
  Places,         \* where the puck may be: triples of the device's numbers
  Declared,       \* the range the device declares for each axis
  SwapYZ,         \* whether the model's y and z run the other way round
  ButtonMap,      \* from the bits that stand for a button to its number
  Sensitivities,  \* in halves
  BitReports,     \* bound: the button reports, as sequences of Booleans
  MaxLine         \* bound: reports the system keeps

ASSUME PlacesAssumption ==
  /\ <<0, 0, 0>> \in Places /\ Places \subseteq [1 .. 3 -> Int]
  /\ Declared \in Int \X Int /\ Declared[1] < Declared[2]
  /\ Declared[1] >= -(MAX_I32 + 1) /\ Declared[2] <= MAX_I32
  /\ SwapYZ \in BOOLEAN

\* Decoder::new begins with 1.0.
ASSUME SensitivitiesAssumption == 2 \in Sensitivities /\ Sensitivities \subseteq Nat

ASSUME BitReportsAssumption == BitReports \subseteq Seq(BOOLEAN) /\ <<>> \in BitReports

\* As in the code's own maps (ButtonsCounted).
ASSUME ButtonMapAssumption ==
  /\ DOMAIN ButtonMap \subseteq Nat /\ IsFiniteSet(DOMAIN ButtonMap)
  /\ \A b, c \in DOMAIN ButtonMap : ButtonMap[b] = ButtonMap[c] => b = c

ASSUME LineAssumption == MaxLine \in Nat \ {0}

VARIABLES
  line,         \* reports the system keeps
  gone,         \* the device was unplugged
  raw,          \* Decoder::raw, in two groups of three axes
  buttons,      \* Decoder::buttons
  told,         \* Decoder::told
  sensitivity,  \* Decoder::sensitivity
  pending,      \* Client::pending
  op,           \* the read in progress
  late,         \* its deadline has passed
  result,       \* what the last one returned
  held,         \* history: the buttons the application takes to be down
  repeated,     \* history: it was told of a press or release it knew of
  place,        \* history: where it takes the puck to be
  applied       \* history: the sensitivity when axes were last read, or 0

deviceVars == <<line, gone>>
decoderVars == <<raw, buttons, told, applied>>
knownVars == <<held, repeated, place>>
vars == <<deviceVars, decoderVars, sensitivity, pending, op, late, result, knownVars>>

Groups == {"push", "twist"}
Buttons == {ButtonMap[bit] : bit \in DOMAIN ButtonMap}

\* Reports 1 and 2 give the push, the twist or both, report 3 the buttons; any
\* other, or one too short, gives nothing.
Report ==
  [kind : {"axes"}, axes : UNION {[gs -> Places] : gs \in {{"push"}, {"twist"}, Groups}}]
  \cup [kind : {"buttons"}, bits : BitReports]
  \cup [kind : {"other"}]

DeviceEvent == [kind |-> "device"]

\* What the application is told of three axes.
ReadingOf ==
  [p \in Places |-> [s \in Sensitivities |-> Reading(p, Declared, SwapYZ, s)]]

AtRest == [g \in Groups |-> <<0, 0, 0>>]

-----------------------------------------------------------------------------
(* The device, and the reports kept for the application. *)

SendReport ==
  /\ ~gone
  /\ \E report \in Report :
       line' = IF Len(line) < MaxLine THEN Append(line, report)
               ELSE Append(Tail(line), report)
  /\ UNCHANGED gone

\* What waits may be lost with the device.
Unplug ==
  /\ ~gone
  /\ gone' = TRUE /\ line' \in {line, <<>>}

Device ==
  /\ SendReport \/ Unplug
  /\ UNCHANGED <<decoderVars, sensitivity, pending, op, late, result, knownVars>>

-----------------------------------------------------------------------------
(* The decoder: feed and motion. *)

\* The puck as a report leaves it, in the device's numbers.
RawAfter(report) ==
  IF report.kind = "axes"
  THEN [g \in Groups |-> IF g \in DOMAIN report.axes THEN report.axes[g] ELSE raw[g]]
  ELSE raw

\* And in the application's.
ToldAfter(report) ==
  IF report.kind = "axes"
  THEN [g \in Groups |-> ReadingOf[RawAfter(report)[g]][sensitivity]]
  ELSE told

\* (Mutated: only the push is compared with what was told.)
MovedPush(now) == now["push"] # told["push"]

\* A motion is told when it is not what was told last.
Moved(now) == now # told

EventsOf(report) ==
  CASE report.kind = "axes" /\ Moved(ToldAfter(report)) ->
         <<[kind |-> "motion", place |-> ToldAfter(report)]>>
    [] report.kind = "buttons" -> ButtonEvents(report.bits, buttons, ButtonMap)
    [] OTHER -> <<>>

Feed(report) ==
  /\ raw' = RawAfter(report)
  /\ told' = ToldAfter(report)
  /\ buttons' = IF report.kind = "buttons" THEN report.bits ELSE buttons
  /\ applied' = IF report.kind = "axes" THEN sensitivity ELSE applied

-----------------------------------------------------------------------------
(* The connection: read_for, and the reads around it. *)

\* connect has opened the device, which is announced before anything else.
Init ==
  /\ line = <<>> /\ gone = FALSE
  /\ raw = AtRest /\ buttons = <<>> /\ told = AtRest
  /\ sensitivity = 2
  /\ pending = <<DeviceEvent>>
  /\ op = "idle" /\ late = FALSE /\ result = "none"
  /\ held = {} /\ repeated = FALSE /\ place = AtRest /\ applied = 0

SetSensitivity ==
  /\ op = "idle"
  /\ sensitivity' \in Sensitivities
  /\ UNCHANGED <<deviceVars, decoderVars, pending, op, late, result, knownVars>>

Return(r) == op' = "idle" /\ late' = FALSE /\ result' = r

KeepReading == UNCHANGED <<op, late, result>>

\* The first event there is goes to the application, the rest wait.
Deliver(events) ==
  LET event == Head(events)
  IN  /\ Return("event")
      /\ pending' = Tail(events)
      /\ IF event.kind = "button"
         THEN /\ held' = IF event.pressed THEN held \cup {event.index}
                         ELSE held \ {event.index}
              /\ repeated' = (repeated \/ (event.pressed <=> event.index \in held))
         ELSE UNCHANGED <<held, repeated>>
      /\ place' = IF event.kind = "motion" THEN event.place ELSE place

PopPending ==
  /\ op = "idle" /\ pending # <<>>
  /\ Deliver(pending)
  /\ UNCHANGED <<deviceVars, decoderVars, sensitivity>>

BeginRead ==
  /\ op = "idle" /\ pending = <<>>
  /\ op' \in {"read_blocking", "read_timeout", "poll"}
  /\ UNCHANGED <<deviceVars, decoderVars, sensitivity, pending, late, result, knownVars>>

\* (Mutated: a report, of whatever kind, puts off the deadline.)
GivesUpIdle == op = "poll" \/ (late /\ line = <<>>)

\* A read that saw no event goes on, but for a poll, or after its deadline.
GivesUp == op = "poll" \/ late

NoEvent ==
  /\ IF GivesUp THEN Return("nothing") ELSE KeepReading
  /\ UNCHANGED <<pending, knownVars>>

ReadReport ==
  /\ op # "idle" /\ line # <<>>
  /\ line' = Tail(line)
  /\ Feed(Head(line))
  /\ LET events == EventsOf(Head(line))
     IN  IF events = <<>> THEN NoEvent ELSE Deliver(events)
  /\ UNCHANGED <<gone, sensitivity>>

ReadNothing ==
  /\ op \in {"read_timeout", "poll"} /\ line = <<>> /\ ~gone
  /\ NoEvent
  /\ UNCHANGED <<deviceVars, decoderVars, sensitivity>>

ReadFails ==
  /\ op # "idle" /\ line = <<>> /\ gone
  /\ Return("Disconnected")
  /\ UNCHANGED <<deviceVars, decoderVars, sensitivity, pending, knownVars>>

DeadlinePasses ==
  /\ op = "read_timeout" /\ ~late
  /\ late' = TRUE
  /\ UNCHANGED <<deviceVars, decoderVars, sensitivity, pending, op, result, knownVars>>

ReadStep == ReadReport \/ ReadNothing \/ ReadFails

Next ==
  \/ Device \/ ReadStep \/ DeadlinePasses
  \/ PopPending \/ BeginRead \/ SetSensitivity

Spec == Init /\ [][Next]_vars

\* A read in progress runs on, and time passes; the device may go on sending
\* reports for ever, or send none.
FairSpec == Spec /\ WF_vars(ReadStep) /\ WF_vars(DeadlinePasses)

-----------------------------------------------------------------------------
(* What the connection promises. *)

Position == [Groups -> [1 .. 3 -> Int]]

Event ==
  {DeviceEvent} \cup [kind : {"motion"}, place : Position]
  \cup [kind : {"button"}, index : Buttons, pressed : BOOLEAN]

\* The variables keep their types; in particular what waits is of buttons the
\* model has, and no more of it than they are: the events of one report.
TypeOK ==
  /\ line \in Seq(Report) /\ Len(line) <= MaxLine /\ gone \in BOOLEAN
  /\ raw \in [Groups -> Places]
  /\ buttons \in BitReports
  /\ told \in Position /\ place \in Position
  /\ sensitivity \in Sensitivities /\ applied \in Sensitivities \cup {0}
  /\ \A i \in 1 .. Len(pending) : pending[i] \in Event
  /\ Len(pending) <= Cardinality(Buttons) \/ pending = <<DeviceEvent>>
  /\ op \in {"idle", "read_blocking", "read_timeout", "poll"}
  /\ late \in BOOLEAN /\ (late => op = "read_timeout")
  /\ held \subseteq Buttons /\ repeated \in BOOLEAN
  /\ result \in {"none", "event", "nothing", "Disconnected"}

\* What the application will take to be down once it has what waits.
HeldAfter(events) ==
  {i \in Buttons :
     IF \E k \in 1 .. Len(events) : events[k].kind = "button" /\ events[k].index = i
     THEN \E k \in 1 .. Len(events) :
            /\ events[k].kind = "button" /\ events[k].index = i /\ events[k].pressed
            /\ \A l \in k + 1 .. Len(events) : events[l].index # i
     ELSE i \in held}

\* The application that follows the events has the buttons of the last report
\* read, whatever reports were lost, longer or shorter than the one before: no
\* button sticks (Decoder::feed).
ButtonsTold ==
  HeldAfter(pending)
    = {ButtonMap[bit] : bit \in {b \in DOMAIN ButtonMap : IsDown(buttons, b)}}

\* And of each button it is told a press and a release in turn.
ButtonsAlternate == ~repeated

\* The application has the puck where the last axes read put it, the push and
\* the twist, at the sensitivity they were read with: leaving out what did not
\* change loses nothing (Decoder::motion).
PlaceTold ==
  applied # 0 => place = [g \in Groups |-> ReadingOf[raw[g]][applied]]

\* Of a puck that keeps to the range the device declares the application has no
\* number beyond RANGE at the sensitivity it was read with, whichever group was
\* reported last, and whatever the other group does, if an i32 holds the width of
\* the range (Decoder::motion, src/README.md:70-71).
ReadingsInRange ==
  applied # 0 /\ Declared[2] - Declared[1] <= MAX_I32 =>
    \A g \in Groups :
      raw[g] \in [1 .. 3 -> Declared[1] .. Declared[2]] =>
        place[g] \in [1 .. 3 -> RoundHalf[RANGE[1] * applied] .. RoundHalf[RANGE[2] * applied]]

\* A timed read returns though the device repeats its reports for ever, and
\* every read returns once the device is gone.
ReadsReturn ==
  /\ op = "read_timeout" ~> op = "idle"
  /\ op # "idle" /\ gone ~> op = "idle"
================================================================================
