------------------------------ MODULE SpnavSession ------------------------------
(***************************************************************************)
(* Requests and their answers on a version 1 connection                    *)
(* (src/src/client.rs, src/src/request.rs): which reply a request takes for *)
(* its own, strings that come in pieces, the six queries of refresh_device  *)
(* and the DeviceInfo they leave behind while devices come and go, and what *)
(* a timeout does to every call after it.                                   *)
(*                                                                         *)
(* Packets are whole here, and nothing is lost between daemon and client:   *)
(* SpnavStream is about that.  Of the many requests with an argument one    *)
(* stands for all, a dead zone's by axis (config.rs); device queries are    *)
(* the six refresh_device makes.  A time limit may run out whenever nothing *)
(* is there to read.  What a string says is the device it is about, and its *)
(* length is counted in packets.                                            *)
(***************************************************************************)
EXTENDS Naturals, Sequences

CONSTANTS
  Devices,   \* the devices that may be plugged in
  NoDevice,  \* no device: Client::device is None, or nothing plugged in
  None,      \* a field of DeviceInfo that was not learnt: None or 0
  Axes,      \* the axes an application asks the dead zone of
  Packets,   \* how many packets a device's name, or its path, takes
  MaxPlugs,  \* bound: times a device comes or goes
  MaxCalls,  \* bound: calls that make requests, the one of connect_at included
  MaxMisses  \* bound: requests that time out

ASSUME DevicesAssumption ==
  /\ NoDevice \notin Devices /\ None \notin Devices
  /\ Packets \in [Devices -> Nat \ {0}]

ASSUME BoundsAssumption ==
  MaxPlugs \in Nat /\ MaxCalls \in Nat \ {0} /\ MaxMisses \in Nat

VARIABLES
  plugged,   \* the device the daemon drives
  up,        \* requests the daemon has not taken
  sending,   \* the packets of an answer it is still writing
  down,      \* packets on the way to the client
  closed,    \* the daemon has closed the connection
  plugs,     \* times a device has come or gone
  op,        \* the call in progress
  stage,     \* which of the Queries refresh_device is at
  asked,     \* the request last sent
  reader,    \* the StringReader of the request in progress
  info,      \* the locals of refresh_device
  device,    \* Client::device
  queued,    \* Client::queued: how many device events wait there
  calls,     \* requests calls made
  result,    \* what the last call returned, "none" while one is in progress
  heard,     \* history: the application had a device event since it refreshed
  sound,     \* history: the last refresh asked in step and had every answer
  misses,    \* requests that have timed out
  accepted   \* history: the last answer taken for a request's own

daemonVars == <<plugged, sending, closed, plugs>>
cacheVars == <<stage, info, device, sound>>
requestVars == <<up, asked, reader>>
vars == <<daemonVars, down, op, cacheVars, requestVars, queued, calls, result,
          heard, misses, accepted>>

Queries == <<"NAME", "PATH", "NAXES", "NBUTTONS", "USBID", "TYPE">>
Strings == {"NAME", "PATH"}
QueryIds == {"NAME", "PATH", "NAXES", "NBUTTONS", "USBID", "TYPE"}
Ids == QueryIds \cup {"DEADZONE"}

\* A request, numbered so that its answers can be told from another's: the
\* number is not in the packet.
RequestSet == [id : Ids, arg : Axes \cup {None}, serial : Nat]

\* One packet of an answer.  Of a string, `left' packets are to come, this one
\* included, and only the first lacks the continuation bit.
ReplySet ==
  {r \in [kind : {"reply"}, id : Ids, serial : Nat, ok : BOOLEAN,
          value : Devices \cup Axes \cup {None}, left : Nat, first : BOOLEAN] :
     r.ok /\ r.id \in QueryIds => r.value \in Devices}
DeviceEvent == [kind |-> "device"]

\* Its name is the one field that is never missing.
DeviceInfo == {i \in [QueryIds -> Devices \cup {None}] : i["NAME"] \in Devices}

\* Everything about d, and nothing of another device.
InfoOf(d) == IF d = NoDevice THEN NoDevice ELSE [q \in QueryIds |-> d]

NoInfo == [q \in QueryIds |-> None]

\* StringReader::default(); `parts' are the packets its text was built from.
NewReader == [expect |-> 0, started |-> FALSE, parts |-> <<>>]

Waiting == op \in {"get", "refresh"}
Reading == op \in {"read", "read_blocking"}

-----------------------------------------------------------------------------
(* The daemon. *)

\* Plugging in and out is announced to the client, even between the packets of
\* a string.
Hotplug ==
  /\ ~closed /\ plugs < MaxPlugs
  /\ plugs' = plugs + 1
  /\ IF plugged = NoDevice THEN plugged' \in Devices ELSE plugged' = NoDevice
  /\ down' = Append(down, DeviceEvent)
  /\ UNCHANGED <<up, sending, closed>>

Reply(r, ok, value, left, first) ==
  [kind |-> "reply", id |-> r.id, serial |-> r.serial, ok |-> ok,
   value |-> value, left |-> left, first |-> first]

\* What the daemon says to request r: a setting, a refusal when there is no
\* device to ask about, a count, or a string in as many packets as it takes.
Answer(r) ==
  IF r.id = "DEADZONE" THEN <<Reply(r, TRUE, r.arg, 1, TRUE)>>
  ELSE IF plugged = NoDevice THEN <<Reply(r, FALSE, None, 1, TRUE)>>
  ELSE LET n == IF r.id \in Strings THEN Packets[plugged] ELSE 1
       IN  [i \in 1 .. n |-> Reply(r, TRUE, plugged, n + 1 - i, i = 1)]

\* Requests are answered one at a time, in the order they came.
TakeRequest ==
  /\ ~closed /\ up # <<>> /\ sending = <<>>
  /\ LET answer == Answer(Head(up))
     IN  /\ down' = Append(down, Head(answer))
         /\ sending' = Tail(answer)
  /\ up' = Tail(up)
  /\ UNCHANGED <<plugged, closed, plugs>>

SendRest ==
  /\ ~closed /\ sending # <<>>
  /\ down' = Append(down, Head(sending))
  /\ sending' = Tail(sending)
  /\ UNCHANGED <<plugged, up, closed, plugs>>

DaemonCloses ==
  /\ ~closed
  /\ closed' = TRUE
  /\ UNCHANGED <<plugged, up, sending, down, plugs>>

Daemon ==
  /\ Hotplug \/ TakeRequest \/ SendRest \/ DaemonCloses
  /\ UNCHANGED <<op, asked, reader, cacheVars, queued, calls, result, heard,
                 misses, accepted>>

-----------------------------------------------------------------------------
(* Sending a request, and what its answer or its failure leads to.  `rest'   *)
(* is what the packet just taken leaves on the way.                          *)

\* Nobody's answer is under way.
InStepWith(rest) ==
  /\ up = <<>> /\ sending = <<>>
  /\ \A i \in 1 .. Len(rest) : rest[i].kind = "device"

Send(id, arg) ==
  /\ asked' = [id |-> id, arg |-> arg, serial |-> asked.serial + 1]
  /\ up' = Append(up, asked')
  /\ reader' = NewReader

Return(r) == op' = "idle" /\ result' = r

\* The end of refresh_device: what was learnt is the device.
Finish ==
  /\ Return("ok")
  /\ stage' = 0
  /\ device' = info'
  /\ UNCHANGED requestVars

\* One query of refresh_device is over, and the next is sent; on a connection
\* that is closed none of them can be, and their fields stay empty.
Settle(value, rest, good) ==
  /\ info' = [info EXCEPT ![Queries[stage]] = value]
  /\ IF stage < Len(Queries) /\ ~closed
     THEN /\ stage' = stage + 1
          /\ Send(Queries[stage + 1], None)
          /\ UNCHANGED <<op, result, device>>
     ELSE Finish
  /\ sound' = (sound /\ good /\ (closed => stage = Len(Queries)))
  /\ down' = rest

\* The request's answer was taken.
Succeed(value, rest) ==
  \/ /\ op = "get"
     /\ Return("ok")
     /\ down' = rest
     /\ UNCHANGED <<cacheVars, requestVars>>
  \/ /\ op = "refresh"
     /\ Settle(value, rest, TRUE)

\* (Mutated: the name may be missing like any other field.)
NothingEssential == FALSE

\* The query refresh_device cannot do without is the first, the name.
Essential == stage = 1

\* It was refused, mismatched, late or cut off; the refusal of a name means no
\* device.
Fail(err, rest) ==
  \/ /\ op = "get"
     /\ Return(err)
     /\ down' = rest
     /\ UNCHANGED <<cacheVars, requestVars>>
  \/ /\ op = "refresh" /\ Essential
     /\ Return(IF err = "Refused" THEN "ok" ELSE err)
     /\ device' = IF err = "Refused" THEN NoDevice ELSE device
     /\ sound' = (sound /\ err = "Refused")
     /\ stage' = 0 /\ down' = rest
     /\ UNCHANGED <<info, requestVars>>
  \/ /\ op = "refresh" /\ ~Essential
     /\ Settle(None, rest, err = "Refused")

-----------------------------------------------------------------------------
(* The calls that make requests. *)

\* connect_at has shaken hands and asks for the device.
Init ==
  /\ plugged \in Devices \cup {NoDevice}
  /\ sending = <<>> /\ down = <<>> /\ closed = FALSE /\ plugs = 0
  /\ op = "refresh" /\ stage = 1
  /\ asked = [id |-> "NAME", arg |-> None, serial |-> 1]
  /\ up = <<asked>>
  /\ reader = NewReader /\ info = NoInfo
  /\ device = NoDevice /\ queued = 0 /\ calls = 1 /\ result = "none"
  /\ heard = FALSE /\ sound = TRUE /\ misses = 0
  /\ accepted = [asked |-> 0, answered |-> {}, whole |-> TRUE]

RefreshDevice ==
  /\ op = "idle" /\ ~closed /\ calls < MaxCalls
  /\ calls' = calls + 1
  /\ op' = "refresh" /\ stage' = 1 /\ info' = NoInfo
  /\ Send("NAME", None)
  /\ heard' = FALSE
  /\ sound' = InStepWith(down)
  /\ result' = "none"
  /\ UNCHANGED <<daemonVars, down, device, queued, misses, accepted>>

DeadZone ==
  /\ op = "idle" /\ ~closed /\ calls < MaxCalls
  /\ calls' = calls + 1
  /\ op' = "get"
  /\ \E axis \in Axes : Send("DEADZONE", axis)
  /\ result' = "none"
  /\ UNCHANGED <<daemonVars, down, cacheVars, queued, heard, misses, accepted>>

\* Either of them, when the daemon is gone: the write fails.
RequestFails ==
  /\ op = "idle" /\ closed
  /\ Return("Io")
  /\ UNCHANGED <<daemonVars, down, cacheVars, requestVars, queued, calls, heard,
                 misses, accepted>>

-----------------------------------------------------------------------------
(* Waiting for the answer: await_reply, check_reply, reply_status and        *)
(* StringReader::push.                                                       *)

\* (Mutated: an event that lands while a request waits is dropped.)
EventDropped == queued

\* An event that lands while a request waits is queued.
EventQueued == queued + 1

QueueEvent ==
  /\ Waiting /\ down # <<>> /\ Head(down).kind = "device"
  /\ queued' = EventQueued
  /\ down' = Tail(down)
  /\ UNCHANGED <<daemonVars, op, cacheVars, requestVars, calls, result, heard,
                 misses, accepted>>

ReplyIsNext == Waiting /\ down # <<>> /\ Head(down).kind = "reply"
Mine == Head(down).id = asked.id

\* The answer is accepted: which requests its packets answered, and whether
\* they are one answer from its first packet to its last.
Accept(parts) ==
  accepted' =
    [asked |-> asked.serial,
     answered |-> {parts[i].serial : i \in 1 .. Len(parts)},
     whole |-> /\ parts[1].first /\ parts[Len(parts)].left = 1
               /\ \A i \in 2 .. Len(parts) : /\ parts[i].serial = parts[1].serial
                                             /\ parts[i].left + 1 = parts[i - 1].left]

replyUnchanged == <<daemonVars, queued, calls, heard, misses>>

ReplyToAnother ==
  /\ ReplyIsNext /\ ~Mine
  /\ Fail("Protocol", Tail(down))
  /\ UNCHANGED <<replyUnchanged, accepted>>

ReplyRefused ==
  /\ ReplyIsNext /\ Mine /\ ~Head(down).ok
  /\ Fail("Refused", Tail(down))
  /\ Accept(<<Head(down)>>)
  /\ UNCHANGED replyUnchanged

ReplyValue ==
  /\ ReplyIsNext /\ Mine /\ Head(down).ok /\ asked.id \notin Strings
  /\ Succeed(Head(down).value, Tail(down))
  /\ Accept(<<Head(down)>>)
  /\ UNCHANGED replyUnchanged

\* (Mutated: a packet out of the middle starts a string too.)
ReaderForAny(packet) ==
  IF packet.first \/ ~reader.started
  THEN [expect |-> packet.left, started |-> TRUE, parts |-> <<>>]
  ELSE reader

\* The reader as the packet finds it: a first packet starts it over.
ReaderFor(packet) ==
  IF packet.first THEN [expect |-> packet.left, started |-> TRUE, parts |-> <<>>]
  ELSE reader

\* A string chunk whose place is not the one the reader is at.
OutOfPlace(r, packet) == ~r.started \/ packet.left # r.expect

\* (Mutated: the first packet of a string is taken for all of it.)
CompleteAtOnce(r) == r.started

\* The packet that is next is the last of the string.
Complete(r) == r.expect = 1

ReplyChunk ==
  /\ ReplyIsNext /\ Mine /\ Head(down).ok /\ asked.id \in Strings
  /\ LET packet == Head(down)
         r == ReaderFor(packet)
         parts == Append(r.parts, packet)
     IN  \/ /\ OutOfPlace(r, packet)
            /\ Fail("Protocol", Tail(down))
            /\ UNCHANGED accepted
         \/ /\ ~OutOfPlace(r, packet) /\ Complete(r)
            /\ Succeed(packet.value, Tail(down))
            /\ Accept(parts)
         \/ /\ ~OutOfPlace(r, packet) /\ ~Complete(r)
            /\ reader' = [expect |-> r.expect - 1, started |-> TRUE, parts |-> parts]
            /\ down' = Tail(down)
            /\ UNCHANGED <<op, cacheVars, up, asked, result, accepted>>
  /\ UNCHANGED replyUnchanged

\* (Mutated: await_reply reads without a deadline.)
NeverGivesUp == FALSE

\* Nothing came for REQUEST_TIMEOUT.
GivesUp == down = <<>> /\ ~closed /\ misses < MaxMisses

Timeout ==
  /\ Waiting /\ GivesUp
  /\ misses' = misses + 1
  /\ Fail("Timeout", down)
  /\ UNCHANGED <<daemonVars, queued, calls, heard, accepted>>

Disconnected ==
  /\ Waiting /\ down = <<>> /\ closed
  /\ Fail("Disconnected", down)
  /\ UNCHANGED <<replyUnchanged, accepted>>

-----------------------------------------------------------------------------
(* The reads.  "read" stands for read_timeout and poll, which may come back   *)
(* with nothing. *)

readUnchanged == <<daemonVars, cacheVars, requestVars, calls, misses, accepted>>

PopQueued ==
  /\ op = "idle" /\ queued > 0
  /\ queued' = queued - 1
  /\ heard' = TRUE
  /\ Return("event")
  /\ UNCHANGED <<readUnchanged, down>>

BeginRead ==
  /\ op = "idle" /\ queued = 0
  /\ op' \in {"read", "read_blocking"}
  /\ result' = "none"
  /\ UNCHANGED <<readUnchanged, down, queued, heard>>

ReadEvent ==
  /\ Reading /\ down # <<>> /\ Head(down).kind = "device"
  /\ down' = Tail(down)
  /\ heard' = TRUE
  /\ Return("event")
  /\ UNCHANGED <<readUnchanged, queued>>

\* A reply nobody waits for any more is passed over.
ReadStaleReply ==
  /\ Reading /\ down # <<>> /\ Head(down).kind = "reply"
  /\ down' = Tail(down)
  /\ UNCHANGED <<readUnchanged, op, queued, result, heard>>

ReadNothing ==
  /\ op = "read" /\ down = <<>> /\ ~closed
  /\ Return("empty")
  /\ UNCHANGED <<readUnchanged, down, queued, heard>>

ReadDisconnected ==
  /\ Reading /\ down = <<>> /\ closed
  /\ Return("Disconnected")
  /\ UNCHANGED <<readUnchanged, down, queued, heard>>

AwaitAnswer ==
  \/ QueueEvent
  \/ ReplyToAnother \/ ReplyRefused \/ ReplyValue \/ ReplyChunk
  \/ Timeout \/ Disconnected

ReadStep ==
  ReadEvent \/ ReadStaleReply \/ ReadNothing \/ ReadDisconnected

Call ==
  RefreshDevice \/ DeadZone \/ RequestFails \/ PopQueued \/ BeginRead

Next == Daemon \/ AwaitAnswer \/ ReadStep \/ Call

Spec == Init /\ [][Next]_vars

\* A call in progress runs on, and its time limit runs out at last.  The daemon
\* need not answer, nor the application call.
FairSpec == Spec /\ WF_vars(AwaitAnswer) /\ WF_vars(ReadStep)

-----------------------------------------------------------------------------
(* What the client promises. *)

TypeOKDaemon ==
  /\ plugged \in Devices \cup {NoDevice}
  /\ up \in Seq(RequestSet)
  /\ sending \in Seq(ReplySet)
  /\ down \in Seq(ReplySet \cup {DeviceEvent})
  /\ closed \in BOOLEAN /\ plugs \in 0 .. MaxPlugs

TypeOKRequest ==
  /\ op \in {"idle", "get", "refresh", "read", "read_blocking"}
  /\ asked \in RequestSet
  /\ reader \in [expect : Nat, started : BOOLEAN, parts : Seq(ReplySet)]
  /\ IF op = "refresh"
     THEN /\ stage \in 1 .. Len(Queries) /\ asked.id = Queries[stage]
     ELSE stage = 0
  /\ op = "get" => asked.id = "DEADZONE"

TypeOKCache ==
  /\ info \in [QueryIds -> Devices \cup {None}]
  /\ op = "refresh" /\ stage > 1 => info["NAME"] \in Devices
  /\ device \in DeviceInfo \cup {NoDevice}
  /\ queued \in Nat /\ calls \in 1 .. MaxCalls
  /\ misses \in 0 .. MaxMisses
  /\ heard \in BOOLEAN /\ sound \in BOOLEAN
  /\ result \in {"none", "ok", "Refused", "Protocol", "Timeout", "Disconnected",
                 "Io", "event", "empty"}

\* The variables keep their types; in particular a cached DeviceInfo always has
\* a name, as its field in src/src/lib.rs is no Option.
TypeOK == TypeOKDaemon /\ TypeOKRequest /\ TypeOKCache

\* As long as no request has timed out, a reply on the way to the client is to
\* the very request it waits for: every call consumes its whole answer, be it a
\* string in pieces, a refusal or the six answers of refresh_device, and no
\* failure leaves one behind to be taken for a later call's.
InStep ==
  misses = 0 =>
    /\ accepted.answered \subseteq {accepted.asked}
    /\ \A i \in 1 .. Len(down) :
         down[i].kind = "reply" => Waiting /\ down[i].serial = asked.serial

\* A string the reader returns is one answer, from its first packet to its
\* last, though answers to earlier requests for it that came too late stand
\* before it in the stream, or are cut in two by a time limit.
StringWhole == accepted.whole

\* A device came or went, and the application has yet to be told.
Announced ==
  \/ heard \/ queued > 0
  \/ \E i \in 1 .. Len(down) : down[i].kind = "device"

\* Between calls the cached device is the one plugged in, all six fields of it,
\* unless a device event is still on its way or the application had one since
\* it last refreshed: no hotplug in the middle of a refresh goes unnoticed, and
\* a refresh with nothing late before it makes good all that went wrong.
CacheConverges ==
  op = "idle" /\ sound /\ ~Announced => device = InfoOf(plugged)

\* A call returns, however late the daemon is, and whenever it goes away; but for a
\* blocking read, and for a request during which devices come and go for ever, as
\* every event gives it its whole time again (await_reply).  The daemon is one that
\* answers a request once: packets of a string that begin it again and again would
\* hold up its request in the same way (StringReader::push).
CallsReturn ==
  \/ op \in {"get", "refresh", "read"} ~> op = "idle"
  \/ []<><<plugs' # plugs>>_vars
================================================================================
