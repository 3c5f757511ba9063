------------------------------ MODULE SpnavStream ------------------------------
(***************************************************************************)
(* The byte stream under sixdof::Client (src/src/client.rs): the protocol   *)
(* handshake, the reads that fill one packet across calls and timeouts, the *)
(* cached socket mode, the queue of events that land while a request waits, *)
(* and the three ways an application asks for an event.                     *)
(*                                                                         *)
(* A byte is known by its position in the stream, so the packet a read      *)
(* completes is told by where it begins: at the first byte of a packet the  *)
(* daemon wrote, or somewhere else, and then its words are a splice of two  *)
(* packets and may pass for anything.  Time is counted in ticks and passes  *)
(* only while a read waits.  Which request a reply answers is the matter of *)
(* SpnavSession; here a reply is just a packet that is not an event.        *)
(***************************************************************************)
EXTENDS Integers, Sequences

CONSTANTS
  PACKET_BYTES,       \* the bytes of a packet (32 in the code)
  REPLY_BYTES,        \* the bytes of the handshake's answer (4 in the code)
  HANDSHAKE_TIMEOUT,  \* in ticks, as every duration here
  REQUEST_TIMEOUT,
  Timeouts,           \* the durations applications pass to read_timeout
  EventTypes,         \* the types of event the daemon sends
  MaxPackets,         \* bound: packets the daemon writes
  MaxOwed,            \* bound: requests awaiting an answer at once
  MaxSignals,         \* bound: signals that interrupt a read
  MaxElapsed          \* bound: where the count of a call's ticks saturates

ASSUME SizesAssumption ==
  /\ PACKET_BYTES \in Nat /\ REPLY_BYTES \in Nat
  /\ 0 < REPLY_BYTES /\ REPLY_BYTES < PACKET_BYTES

ASSUME DurationsAssumption ==
  /\ HANDSHAKE_TIMEOUT \in Nat \ {0} /\ REQUEST_TIMEOUT \in Nat \ {0}
  /\ Timeouts \subseteq Nat
  /\ MaxElapsed \in Nat
  /\ \A t \in Timeouts \cup {HANDSHAKE_TIMEOUT, REQUEST_TIMEOUT} : t < MaxElapsed

ASSUME BoundsAssumption ==
  /\ EventTypes \subseteq 0 .. 6
  /\ MaxPackets \in Nat /\ MaxOwed \in Nat /\ MaxSignals \in Nat

VARIABLES
  daemon,    \* "v0" or "v1": the newest protocol the daemon speaks
  hello,     \* a v1 daemon has written its answer to the offer
  packets,   \* every packet the daemon has begun to write
  written,   \* how many bytes of all that have reached the socket
  closed,    \* the daemon has closed the connection
  owed,      \* requests it has taken and not answered
  op,        \* the client call in progress
  proto,     \* Client::proto
  mode,      \* Client::mode, what the client believes of its socket
  sock,      \* the options the socket really has
  rd,        \* bytes the client has read
  filled,    \* Client::filled, the bytes of the packet under construction
  queued,    \* Client::queued, as the numbers of the packets
  waited,    \* ticks the read in progress has waited
  elapsed,   \* ticks the call in progress has taken
  signals,   \* signals that have interrupted a read
  halfway,   \* history: the last set_mode took the socket out of the
             \* non-blocking mode, and then failed
  base,      \* history: bytes the handshake took
  log,       \* history: the packets decoded, by number, 0 for a splice
  told,      \* history: the events handed to the application, likewise
  result     \* what the last call returned

wireVars == <<daemon, hello, packets, written, closed>>
modeVars == <<mode, sock, halfway>>
vars == <<wireVars, owed, op, proto, modeVars, rd, filled, queued,
          waited, elapsed, signals, base, log, told, result>>

Packet == [kind : {"event", "bad", "reply"}, type : 0 .. 6, start : Nat]

Blocking == [kind |-> "Blocking", wait |-> 0]
Nonblocking == [kind |-> "Nonblocking", wait |-> 0]
Deadline(timeout) == [kind |-> "Deadline", wait |-> timeout]

Mode == [kind : {"Blocking", "Nonblocking", "Deadline"}, wait : Nat]
Socket == [nonblocking : BOOLEAN, timeout : Nat]  \* no timeout is 0

ReadOps == {"read_blocking", "read_timeout", "poll", "request"}
Results == {"none", "event", "reply", "empty", "Timeout", "Disconnected",
            "Protocol", "Io", "Unsupported"}

-----------------------------------------------------------------------------
(* The daemon and the kernel's socket. *)

\* Where the packets begin: after the handshake's answer, if there is one.
Lead == IF daemon = "v1" THEN REPLY_BYTES ELSE 0

\* One past the last byte of everything the daemon has begun to write.
Total == IF packets # <<>> THEN packets[Len(packets)].start + PACKET_BYTES
         ELSE IF hello THEN REPLY_BYTES ELSE 0

\* What a read finds waiting.
Available == written - rd

Quiescent == ~closed /\ written = Total

\* A daemon that knows the offer answers it before anything else.
DaemonHello ==
  /\ daemon = "v1" /\ ~hello /\ Quiescent
  /\ hello' = TRUE
  /\ written' \in 1 .. REPLY_BYTES
  /\ UNCHANGED <<daemon, packets, closed>>

WritePacket(kind, type) ==
  /\ Quiescent
  /\ daemon = "v1" => hello
  /\ Len(packets) < MaxPackets
  /\ packets' = Append(packets, [kind |-> kind, type |-> type, start |-> Total])
  /\ written' \in written + 1 .. written + PACKET_BYTES
  /\ UNCHANGED <<daemon, hello, closed>>

\* The events decode_event rejects when the index they carry is negative:
\* press, release, raw axis and raw button.
IndexedTypes == {1, 2, 5, 6}

\* An event, "bad" when its index is negative.
DaemonEvent ==
  /\ \/ \E type \in EventTypes : WritePacket("event", type)
     \/ \E type \in EventTypes \cap IndexedTypes : WritePacket("bad", type)
  /\ UNCHANGED owed

\* The answer to a request; an old daemon has none to give.
DaemonReply ==
  /\ daemon = "v1" /\ owed > 0
  /\ WritePacket("reply", 0)
  /\ owed' = owed - 1

\* The rest of a packet follows in pieces: the socket is a byte stream.
DaemonContinues ==
  /\ ~closed /\ written < Total
  /\ written' \in written + 1 .. Total
  /\ UNCHANGED <<daemon, hello, packets, closed>>

DaemonCloses ==
  /\ ~closed
  /\ closed' = TRUE
  /\ UNCHANGED <<daemon, hello, packets, written>>

Daemon ==
  /\ \/ DaemonEvent
     \/ DaemonReply
     \/ (DaemonHello \/ DaemonContinues \/ DaemonCloses) /\ UNCHANGED owed
  /\ UNCHANGED <<op, proto, modeVars, rd, filled, queued, waited, elapsed,
                 signals, base, log, told, result>>

-----------------------------------------------------------------------------
(* The handshake: negotiate_protocol, after its offer was written. *)

Init ==
  /\ daemon \in {"v0", "v1"}
  /\ hello = FALSE /\ packets = <<>> /\ written = 0 /\ closed = FALSE /\ owed = 0
  /\ op = "handshake" /\ proto = 0
  /\ mode = Blocking
  /\ sock = [nonblocking |-> FALSE, timeout |-> HANDSHAKE_TIMEOUT]
  /\ rd = 0 /\ filled = 0 /\ queued = <<>>
  /\ waited = 0 /\ elapsed = 0 /\ signals = 0 /\ halfway = FALSE
  /\ base = 0 /\ log = <<>> /\ told = <<>> /\ result = "none"

\* Both ends of a wait: a call that returns, and one that keeps reading.
Return(r) ==
  /\ op' = "idle" /\ result' = r
  /\ waited' = 0 /\ elapsed' = 0

KeepReading ==
  /\ waited' = 0
  /\ UNCHANGED <<op, result, elapsed>>

\* The connection stands at version v: the read timeout is taken off again.
Open(v) ==
  /\ Return("none")
  /\ proto' = v /\ mode' = Blocking
  /\ sock' = [sock EXCEPT !.timeout = 0] /\ halfway' = FALSE
  /\ base' = rd'

\* The first word of the stream, of which negotiate_protocol keeps the low
\* byte without asking whether it is an answer: an event's is its type.
FirstWord == IF daemon = "v1" THEN 1 ELSE packets[1].type

HandshakeRead ==
  /\ op = "handshake" /\ Available > 0
  /\ IF Available < REPLY_BYTES - rd
     THEN /\ rd' = written
          /\ KeepReading
          /\ UNCHANGED <<proto, modeVars, base>>
     ELSE /\ rd' = REPLY_BYTES
          /\ Open(FirstWord)
  /\ UNCHANGED <<wireVars, owed, filled, queued, signals, log, told>>

\* Nothing came for the whole timeout: version 0, or an answer cut short.
HandshakeTimeout ==
  /\ op = "handshake" /\ Available = 0 /\ ~closed /\ waited >= sock.timeout
  /\ rd' = rd
  /\ IF rd = 0
     THEN Open(0)
     ELSE /\ op' = "dropped" /\ result' = "Protocol"
          /\ waited' = 0 /\ elapsed' = 0
          /\ UNCHANGED <<proto, modeVars, base>>
  /\ UNCHANGED <<wireVars, owed, filled, queued, signals, log, told>>

HandshakeEof ==
  /\ op = "handshake" /\ Available = 0 /\ closed
  /\ op' = "dropped" /\ result' = "Disconnected"
  /\ waited' = 0 /\ elapsed' = 0
  /\ UNCHANGED <<wireVars, owed, proto, modeVars, rd, filled, queued, signals,
                 base, log, told>>

-----------------------------------------------------------------------------
(* Starting a call: the queue first, then set_mode. *)

\* (Mutated: the deadline is never given to the socket.)
SocketForNever(m) == [nonblocking |-> m.kind = "Nonblocking", timeout |-> 0]

\* What set_mode asks of the socket, of whom no timeout asks for ever.
SocketFor(m) == [nonblocking |-> m.kind = "Nonblocking", timeout |-> m.wait]

\* (Mutated: two deadlines count as the same mode.)
SameKind(m) == mode.kind = m.kind

\* The early return: the options already set stand.
SameMode(m) == mode = m

\* The standard library refuses a read timeout of zero.
SetMode(m) ==
  \/ /\ SameMode(m)
     /\ UNCHANGED modeVars
  \/ /\ ~SameMode(m) /\ m # Deadline(0)
     /\ mode' = m /\ sock' = SocketFor(m) /\ halfway' = FALSE

\* (Mutated: the mode is remembered before the socket agrees to it.)
ModeRemembered(m) == m

\* The mode after a set_mode that failed.
ModeAfterFailure(m) == mode

\* set_read_timeout fails, on a duration of zero or, on some systems, on a
\* connection the daemon has closed; set_nonblocking does not.  What that did
\* before it stays done, and the mode remembered is the old one.
SetModeFails(m) ==
  /\ ~SameMode(m)
  /\ m = Deadline(0) \/ closed
  /\ sock' = IF m = Nonblocking THEN sock ELSE [sock EXCEPT !.nonblocking = FALSE]
  /\ mode' = ModeAfterFailure(m)
  /\ halfway' = (mode = Nonblocking)

\* (Mutated: the socket is read whether or not events are queued.)
NothingAsked == TRUE

\* Every read hands out what requests queued before it looks at the socket.
NothingQueued == queued = <<>>

PopQueued ==
  /\ op = "idle" /\ queued # <<>>
  /\ told' = Append(told, Head(queued))
  /\ queued' = Tail(queued)
  /\ Return("event")
  /\ UNCHANGED <<wireVars, owed, proto, modeVars, rd, filled, signals, base, log>>

BeginRead(o, m) ==
  /\ op = "idle" /\ NothingQueued
  /\ \/ SetMode(m) /\ op' = o /\ UNCHANGED <<waited, elapsed, result>>
     \/ SetModeFails(m) /\ Return("Disconnected")
  /\ UNCHANGED <<wireVars, owed, proto, rd, filled, queued, signals, base, log, told>>

ReadBlocking == BeginRead("read_blocking", Blocking)
ReadTimeout == \E timeout \in Timeouts : BeginRead("read_timeout", Deadline(timeout))
Poll == BeginRead("poll", Nonblocking)

\* Any request: it is sent whole, then await_reply sets the deadline.
Request ==
  /\ op = "idle" /\ proto >= 1 /\ ~closed /\ owed < MaxOwed
  /\ owed' = owed + 1
  /\ SetMode(Deadline(REQUEST_TIMEOUT))
  /\ op' = "request"
  /\ UNCHANGED <<wireVars, proto, rd, filled, queued, waited, elapsed, signals,
                 base, log, told, result>>

\* A request that is never sent: version 0, or nobody at the other end.
RequestFails ==
  /\ op = "idle"
  /\ proto < 1 \/ closed
  /\ Return(IF proto < 1 THEN "Unsupported" ELSE "Io")
  /\ UNCHANGED <<wireVars, owed, proto, modeVars, rd, filled, queued, signals,
                 base, log, told>>

\* A request the daemon did not live to answer, on a system that by the time of
\* await_reply refuses the socket its options.
RequestCutOff ==
  /\ op = "idle" /\ proto >= 1 /\ closed
  /\ SetModeFails(Deadline(REQUEST_TIMEOUT))
  /\ Return("Disconnected")
  /\ UNCHANGED <<wireVars, owed, proto, rd, filled, queued, signals, base, log, told>>

-----------------------------------------------------------------------------
(* Reading: fill_packet, and what each call does with the packet. *)

\* The packet that begins where the client takes one to begin, 0 if none does.
PacketAt(pos) ==
  IF \E i \in 1 .. Len(packets) : packets[i].start = pos
  THEN CHOOSE i \in 1 .. Len(packets) : packets[i].start = pos
  ELSE 0

\* The first word of a splice is a word of data: it may pass for anything.
KindsOf(n) == IF n = 0 THEN {"event", "bad", "reply"} ELSE {packets[n].kind}

\* (Mutated: the loop runs while filled <= PACKET_BYTES.)
WantsMoreThanAll(bytes) == bytes <= PACKET_BYTES

\* The loop of fill_packet goes on at so many bytes of a packet.
WantsMore(bytes) == bytes < PACKET_BYTES

\* (Mutated: a read that gives up forgets the part it had.)
NothingKept == 0

\* What a read that gives up leaves of a packet, for the next one to complete.
PartKept == filled

ReadPart ==
  /\ op \in ReadOps
  /\ Available > 0 /\ WantsMore(filled + Available)
  /\ filled' = filled + Available
  /\ rd' = written
  /\ KeepReading
  /\ UNCHANGED <<wireVars, owed, proto, modeVars, queued, signals, base, log, told>>

\* (Mutated: an event that lands while a request waits is dropped.)
QueuedWithout(n, kind) == queued

\* An event that lands while a request waits is queued if it decodes.
QueuedWith(n, kind) == IF kind = "event" THEN Append(queued, n) ELSE queued

\* await_reply ends with a reply.
AwaitReply(n, kind) ==
  /\ IF kind = "reply" THEN Return("reply") ELSE KeepReading
  /\ queued' = QueuedWith(n, kind)
  /\ UNCHANGED told

\* The loop of the three reads: an event ends it, a reply is passed over.
TakeEvent(n, kind) ==
  /\ CASE kind = "event" -> Return("event")
       [] kind = "bad" -> Return("Protocol")
       [] OTHER -> KeepReading
  /\ told' = IF kind = "event" THEN Append(told, n) ELSE told
  /\ UNCHANGED queued

ReadPacket ==
  /\ op \in ReadOps
  /\ Available > 0 /\ ~WantsMore(filled + Available)
  /\ rd' = rd + (PACKET_BYTES - filled)
  /\ filled' = 0
  /\ LET n == PacketAt(rd - filled)
     IN  /\ log' = Append(log, n)
         /\ \E kind \in KindsOf(n) :
              IF op = "request" THEN AwaitReply(n, kind) ELSE TakeEvent(n, kind)
  /\ UNCHANGED <<wireVars, owed, proto, modeVars, signals, base>>

\* The read has nothing to give, at once or after its timeout; the part of a
\* packet that came is kept.  (A blocking read would go round again, but its
\* socket never says so: ModeAgrees.)
ReadQuiet ==
  /\ op \in ReadOps /\ Available = 0 /\ ~closed
  /\ sock.nonblocking \/ (sock.timeout > 0 /\ waited >= sock.timeout)
  /\ Return(IF op = "request" THEN "Timeout" ELSE "empty")
  /\ filled' = PartKept
  /\ UNCHANGED <<wireVars, owed, proto, modeVars, rd, queued, signals, base, log, told>>

ReadEof ==
  /\ op \in ReadOps /\ Available = 0 /\ closed
  /\ Return("Disconnected")
  /\ UNCHANGED <<wireVars, owed, proto, modeVars, rd, filled, queued, signals,
                 base, log, told>>

-----------------------------------------------------------------------------
(* Time, and signals: each read waits its own whole timeout. *)

Waiting == op \in ReadOps \cup {"handshake"} /\ Available = 0 /\ ~closed
           /\ ~sock.nonblocking /\ sock.timeout > 0

Tick ==
  /\ Waiting /\ waited < sock.timeout
  /\ waited' = waited + 1
  /\ elapsed' = IF elapsed < MaxElapsed THEN elapsed + 1 ELSE elapsed
  /\ UNCHANGED <<wireVars, owed, op, proto, modeVars, rd, filled, queued,
                 signals, base, log, told, result>>

\* An interrupted read is made again.
Interrupted ==
  /\ Waiting /\ waited > 0 /\ signals < MaxSignals
  /\ signals' = signals + 1
  /\ KeepReading
  /\ UNCHANGED <<wireVars, owed, proto, modeVars, rd, filled, queued, base, log, told>>

\* A connection that failed is gone.
Dropped == op = "dropped" /\ UNCHANGED vars

ClientStep ==
  \/ HandshakeRead \/ HandshakeTimeout \/ HandshakeEof
  \/ ReadPart \/ ReadPacket \/ ReadQuiet \/ ReadEof
  \/ Tick

Call ==
  \/ PopQueued \/ ReadBlocking \/ ReadTimeout \/ Poll
  \/ Request \/ RequestFails \/ RequestCutOff

Next == Daemon \/ ClientStep \/ Call \/ Interrupted \/ Dropped

Spec == Init /\ [][Next]_vars

\* A call in progress is a thread that runs and a clock that goes on; no call
\* has to be made, and the daemon owes nothing.
FairSpec == Spec /\ WF_vars(ClientStep)

-----------------------------------------------------------------------------
(* What the client promises. *)

TypeOKWire ==
  /\ daemon \in {"v0", "v1"} /\ hello \in BOOLEAN /\ closed \in BOOLEAN
  /\ packets \in Seq(Packet) /\ Len(packets) <= MaxPackets
  /\ written \in 0 .. Total /\ rd \in 0 .. written
  /\ owed \in 0 .. MaxOwed

TypeOKClient ==
  /\ op \in ReadOps \cup {"idle", "handshake", "dropped"}
  /\ proto \in 0 .. 6
  /\ mode \in Mode /\ sock \in Socket /\ halfway \in BOOLEAN
  /\ filled \in 0 .. PACKET_BYTES - 1
  /\ queued \in Seq(0 .. MaxPackets)
  /\ waited \in Nat /\ elapsed \in 0 .. MaxElapsed
  /\ signals \in 0 .. MaxSignals
  /\ result \in Results

TypeOKHistory ==
  /\ base \in 0 .. REPLY_BYTES
  /\ log \in Seq(0 .. MaxPackets) /\ told \in Seq(0 .. MaxPackets)

\* The variables keep their types; in particular a packet under construction
\* is never whole, and the client never reads what was not written.
TypeOK == TypeOKWire /\ TypeOKClient /\ TypeOKHistory

Handshaken == op \notin {"handshake", "dropped"}

\* The handshake took the daemon's answer, all of it and nothing else.
Clean == IF daemon = "v1" THEN base = REPLY_BYTES ELSE base = 0

\* Reads that begin and end anywhere, across timeouts, signals, modes and
\* requests, still cut the stream where the daemon wrote its packets: once the
\* handshake took exactly its answer, the k-th packet the client decodes is
\* the k-th the daemon wrote (fill_packet, buf and filled).
FramesWhole ==
  Handshaken /\ Clean => \A k \in 1 .. Len(log) : log[k] = k

\* Every well-formed event among the packets taken is either with the
\* application or in the queue, once, and in the order the daemon sent it,
\* however requests and reads alternate (await_reply and the three reads).
EventsInOrder ==
  Handshaken /\ Clean =>
    LET known == told \o queued
    IN  /\ \A j, k \in 1 .. Len(known) : j < k => known[j] < known[k]
        /\ {known[k] : k \in 1 .. Len(known)}
             = {n \in 1 .. Len(log) : packets[n].kind = "event"}

\* The socket has the options Client::mode says, to the last one, through every
\* change of mode and every failure of it but one: a set_mode that fails on its way
\* out of the non-blocking mode leaves a socket that blocks without a time limit
\* under that mode, until a set_mode succeeds.  So the early return of set_mode is
\* safe in the other two modes, and in that one as long as none has failed.
ModeAgrees ==
  Handshaken =>
    /\ sock = SocketFor(IF halfway THEN Blocking ELSE mode)
    /\ halfway => mode = Nonblocking

\* A call with a time limit that comes back without an answer waited at least
\* that long, though its wait was interrupted, restarted or spread over reads.
NeverGivesUpEarly ==
  [][/\ op = "read_timeout" /\ op' = "idle" /\ result' = "empty"
       => elapsed >= mode.wait
     /\ op = "request" /\ op' = "idle" /\ result' = "Timeout"
       => elapsed >= REQUEST_TIMEOUT]_vars

\* The client delivers events as EventChannel says.
Channel == INSTANCE EventChannel WITH
  sent <- [i \in 1 .. Len(packets) |-> packets[i].kind],
  taken <- Len(log),
  delivered <- told,
  clean <- (Handshaken => Clean)

\* Every step of the client and the daemon is one of the channel's: each packet
\* is taken once and in order, each event handed out once and in order.
DeliversInOrder == Channel!Spec

\* A call with a time limit returns, unless packets or signals come for ever, each
\* of which gives it its whole time again (await_reply, fill_packet): the daemon
\* going quiet, or away, or stopping in the middle of a packet, holds up no
\* application.
TimedCallsReturn ==
  \/ op \in {"handshake", "read_timeout", "request"} ~> op \in {"idle", "dropped"}
  \/ []<><<packets' # packets \/ signals' # signals>>_vars

\* The next packet is an event and all of it has reached the socket.
EventWaits ==
  /\ Clean
  /\ Len(log) < Len(packets) /\ packets[Len(log) + 1].kind = "event"
  /\ written >= packets[Len(log) + 1].start + PACKET_BYTES

\* An application blocked in read_blocking is woken by an event, though part of
\* it came in an earlier call.
BlockedReadWakes ==
  op = "read_blocking" /\ EventWaits ~> op = "idle"
================================================================================
