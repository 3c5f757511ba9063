---------------------------------- MODULE Source ----------------------------------
(***************************************************************************)
(* The choice of a route (src/src/source.rs): connect asks the daemon, the   *)
(* display and the device in turn, as far as the build has them, while each  *)
(* of them comes and goes; and an application that reads until a read fails  *)
(* and connects again.                                                       *)
(*                                                                         *)
(* Magellan's connection is whole in this; the other two are links that are  *)
(* broken when the other side goes, which their reads then say (SpnavStream, *)
(* HidRoute).  The error a failed connect returns is left out.               *)
(***************************************************************************)
EXTENDS Magellan

CONSTANTS
  Builds,   \* the routes that a build has, in the order it tries them
  MaxTurns  \* bound: times the daemon and the device come or go

ASSUME SourceAssumption ==
  /\ Builds \subseteq {<<"daemon", "magellan", "hid">>, <<"daemon", "magellan">>,
                       <<"daemon", "hid">>, <<"daemon">>, <<"hid">>}
  /\ MaxTurns \in Nat

VARIABLES
  routes,  \* the build's
  daemon,  \* a daemon runs
  device,  \* a device is plugged in that can be opened
  turns,   \* times either has changed
  trying,  \* which route connect is at, 0 when none is in progress
  route,   \* the Source the application has: its Backend, or "none"
  link,    \* the daemon, or the device, it was opened on is still there
  steady,  \* history: the routes that have answered ever since connect began,
  seen     \* and those that have at some time

worldVars == <<daemon, device, turns>>
sourceVars == <<routes, worldVars, trying, route, link>>
vars == <<magellanVars, sourceVars, steady, seen>>

Answers(r) ==
  CASE r = "daemon" -> daemon
    [] r = "hid" -> device
    [] OTHER -> ~gone /\ driver = "up"

SourceInit ==
  /\ Init
  /\ routes \in Builds /\ daemon \in BOOLEAN /\ device \in BOOLEAN
  /\ turns = 0 /\ trying = 0 /\ route = "none" /\ link = FALSE /\ steady = {}
  /\ seen = {}

-----------------------------------------------------------------------------

Turns == turns < MaxTurns /\ turns' = turns + 1

DaemonTurns ==
  /\ Turns
  /\ daemon' = ~daemon
  /\ link' = (link /\ ~(route = "daemon" /\ daemon))
  /\ UNCHANGED <<magellanVars, routes, device, trying, route>>

DeviceTurns ==
  /\ Turns
  /\ device' = ~device
  /\ link' = (link /\ ~(route = "hid" /\ device))
  /\ UNCHANGED <<magellanVars, routes, daemon, trying, route>>

DisplayTurns == DisplayNext /\ UNCHANGED sourceVars

-----------------------------------------------------------------------------

\* (Mutated: the last one is never reached.)
HasMore(i) == i < Len(routes)

Has(i) == i <= Len(routes)

\* (Mutated: a display connection is made with whatever route is next.)
OverAny(i) == Has(i)

OverDisplay(i) == Has(i) /\ routes[i] = "magellan"

\* The next route, as far as there is one.
Try(i) ==
  /\ trying' = IF Has(i) THEN i ELSE 0
  /\ IF OverDisplay(i) THEN StartConnect ELSE UNCHANGED magellanVars
  /\ UNCHANGED <<route, link>>

Take(r) ==
  /\ trying' = 0 /\ route' = r /\ link' = TRUE
  /\ UNCHANGED magellanVars

SourceConnect ==
  /\ route = "none" /\ trying = 0
  /\ Try(1)
  /\ UNCHANGED <<routes, worldVars>>

\* One route is asked: what it answers, or on to the next.
TryRoute(r, found) ==
  /\ trying > 0 /\ routes[trying] = r
  /\ IF found THEN Take(r) ELSE Try(trying + 1)
  /\ UNCHANGED <<routes, worldVars>>

TryDaemon == TryRoute("daemon", daemon)
TryDevice == TryRoute("hid", device)
TryMagellan == op = "idle" /\ TryRoute("magellan", stage = Connected)

MagellanRuns == ClientRuns /\ UNCHANGED sourceVars

MagellanCalls ==
  /\ route = "magellan" /\ ~failed
  /\ Call \/ set_sensitivity
  /\ UNCHANGED sourceVars

\* A call has failed, and the application lets the connection go, and with it
\* what came over it.
GiveUp ==
  /\ \/ /\ route \in {"daemon", "hid"} /\ ~link
        /\ UNCHANGED magellanVars
     \/ /\ route = "magellan" /\ op = "idle" /\ failed
        /\ stage' = 0 /\ atoms' = {} /\ window' = 0
        /\ queued' = <<>> /\ sent' = <<>> /\ taken' = 0 /\ told' = <<>>
        /\ UNCHANGED <<driverVars, hears, button, commands, gone, op, timeVars, failed>>
  /\ route' = "none" /\ link' = FALSE
  /\ UNCHANGED <<routes, worldVars, trying>>

Application == SourceConnect \/ MagellanCalls \/ GiveUp
Connecting == TryDaemon \/ TryMagellan \/ TryDevice

\* The routes that answer, during connect.
Steady ==
  LET now == {r \in {routes[i] : i \in 1 .. Len(routes)} : Answers(r)'}
  IN  IF trying' = 0 THEN steady' = {} /\ seen' = {}
      ELSE /\ steady' = now \cap (IF trying = 0 THEN now ELSE steady)
           /\ seen' = seen \cup now

SourceNext ==
  /\ DaemonTurns \/ DeviceTurns \/ DisplayTurns \/ Application \/ Connecting \/ MagellanRuns
  /\ Steady

SourceSpec == SourceInit /\ [][SourceNext]_vars

\* A program that has no connection tries again, and one that has reads on.
FairSourceSpec ==
  /\ SourceSpec
  /\ WF_vars((Connecting \/ MagellanRuns) /\ Steady)
  /\ WF_vars((SourceConnect \/ GiveUp) /\ Steady)
  /\ WF_vars(MagellanCalls /\ Steady)

-----------------------------------------------------------------------------

\* The variables keep their types, and there is one connection at most: no
\* Magellan client is left behind by a connect that took another route.
SourceTypeOK ==
  /\ TypeOK
  /\ routes \in Builds /\ daemon \in BOOLEAN /\ device \in BOOLEAN /\ link \in BOOLEAN
  /\ turns \in 0 .. MaxTurns /\ trying \in 0 .. Len(routes)
  /\ route \in {"none"} \cup {routes[i] : i \in 1 .. Len(routes)}
  /\ op = "connect" => trying > 0 /\ routes[trying] = "magellan"
  /\ stage # 0 => route = "magellan" \/ (trying > 0 /\ routes[trying] = "magellan")

\* connect takes no route when one tried before it has answered all along, and
\* fails only when none did ("Connects by the best route available"); and the
\* one it takes has answered, whatever is left on the display of a driver.
BestRouteTaken ==
  [][trying > 0 /\ trying' = 0 =>
       /\ route' \in {"none"} \cup seen
       /\ \A i \in 1 .. Len(routes) :
            routes[i] \in steady => \E j \in 1 .. i : route' = routes[j]]_vars

\* There is a connection whose other side is there; or, over a display, one
\* whose driver has ended, which nothing tells the client.
Linked ==
  \/ route \in {"daemon", "hid"} /\ link
  \/ route = "magellan" /\ ~gone

\* As long as something stays there to connect to, an application that connects
\* again whenever a read fails is connected in the end.
Reconnects == \A r \in {"daemon", "magellan", "hid"} :
  <>[](r \in {routes[i] : i \in 1 .. Len(routes)} /\ Answers(r)) => <>[]Linked
=============================================================================
