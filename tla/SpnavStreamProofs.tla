---------------------------- MODULE SpnavStreamProofs ----------------------------
(***************************************************************************)
(* Theorems about SpnavStream, for every size of packet and answer, every   *)
(* duration and every bound.                                               *)
(***************************************************************************)
EXTENDS SpnavStream, SequenceTheorems, TLAPS

USE DEF ReadOps, Results

(***************************************************************************)
(* How the daemon lays its packets out: one after the other, the first      *)
(* after the answer to the offer if there is one.                           *)
(***************************************************************************)
Layout ==
  /\ hello => daemon = "v1"
  /\ daemon = "v1" /\ ~hello => packets = <<>>
  /\ packets # <<>> => packets[1].start = Lead
  /\ \A i \in 1 .. Len(packets) - 1 :
       packets[i + 1].start = packets[i].start + PACKET_BYTES
  /\ \A i, j \in 1 .. Len(packets) :
       i < j => packets[i].start + PACKET_BYTES <= packets[j].start

(***************************************************************************)
(* Until the handshake is over, nothing has been taken but its own bytes.   *)
(***************************************************************************)
Opening ==
  /\ base <= rd
  /\ op = "handshake" =>
       /\ rd < REPLY_BYTES /\ base = 0 /\ proto = 0
       /\ filled = 0 /\ log = <<>> /\ told = <<>> /\ queued = <<>>
       /\ mode = Blocking
       /\ sock = [nonblocking |-> FALSE, timeout |-> HANDSHAKE_TIMEOUT]

clientVars == <<op, proto, modeVars, rd, filled, queued, waited, elapsed,
                signals, base, log, told, result>>

\* The invariant of the types.
TypeInv == TypeOK /\ Layout /\ Opening

-----------------------------------------------------------------------------
(* The daemon's side of the types. *)

\* Packets are numbered from 1, and all they take is a number of bytes.
LEMMA TotalType ==
  ASSUME TypeOKWire
  PROVE  /\ packets = <<>> <=> Len(packets) = 0
         /\ Len(packets) \in Nat
         /\ \A i \in 1 .. Len(packets) :
              packets[i] \in Packet /\ packets[i].start \in Nat
         /\ Total \in Nat
         /\ written \in Nat /\ rd \in Nat
<1>1. /\ packets = <<>> <=> Len(packets) = 0
      /\ Len(packets) \in Nat
  BY EmptySeq, LenProperties DEF TypeOKWire
<1>2. ASSUME NEW i \in 1 .. Len(packets)
      PROVE  packets[i] \in Packet /\ packets[i].start \in Nat
  <2>1. packets \in Seq(Packet)
    BY DEF TypeOKWire
  <2>2. packets[i] \in Packet
    BY <2>1, ElementOfSeq
  <2> QED BY <2>2 DEF Packet
<1>3. Total \in Nat
  <2>1. CASE packets = <<>>
    BY <2>1, SizesAssumption DEF Total
  <2>2. CASE packets # <<>>
    <3>1. Len(packets) \in 1 .. Len(packets)
      BY <2>2, <1>1
    <3> QED BY <3>1, <2>2, <1>2, SizesAssumption DEF Total
  <2> QED BY <2>1, <2>2
<1>4. written \in Nat /\ rd \in Nat
  BY <1>3 DEF TypeOKWire
<1> QED BY <1>1, <1>2, <1>3, <1>4

\* Writing a packet keeps the layout and the types of the wire.
LEMMA WritePacketLayout ==
  ASSUME TypeOKWire, Layout,
         NEW kind \in {"event", "bad", "reply"}, NEW type \in 0 .. 6,
         WritePacket(kind, type), rd' = rd
  PROVE  /\ packets' \in Seq(Packet) /\ Len(packets') = Len(packets) + 1
         /\ Len(packets') <= MaxPackets
         /\ written' \in 0 .. Total' /\ rd' \in 0 .. written'
         /\ daemon' = daemon /\ hello' = hello /\ closed' = closed
         /\ packets'[Len(packets) + 1].start = Total
         /\ packets'[Len(packets) + 1].kind = kind
         /\ \A i \in 1 .. Len(packets) : packets'[i] = packets[i]
         /\ Total' = Total + PACKET_BYTES
         /\ Layout'
<1> DEFINE new == [kind |-> kind, type |-> type, start |-> Total]
<1>1. /\ packets = <<>> <=> Len(packets) = 0
      /\ Len(packets) \in Nat
      /\ \A i \in 1 .. Len(packets) : packets[i] \in Packet /\ packets[i].start \in Nat
      /\ Total \in Nat /\ PACKET_BYTES \in Nat
  BY TotalType, SizesAssumption
<1>2. new \in Packet
  BY <1>1 DEF Packet
<1>3. packets' = Append(packets, new)
  BY DEF WritePacket
<1>4. /\ packets' \in Seq(Packet) /\ Len(packets') = Len(packets) + 1
      /\ packets'[Len(packets) + 1] = new
      /\ packets'[Len(packets) + 1].start = Total
      /\ packets'[Len(packets) + 1].kind = kind
      /\ \A i \in 1 .. Len(packets) : packets'[i] = packets[i]
      /\ packets' # <<>>
  BY <1>2, <1>3, AppendProperties DEF TypeOKWire
<1> HIDE DEF new
<1>5. Total' = Total + PACKET_BYTES
  BY <1>4 DEF Total
<1>6. written' \in 0 .. Total' /\ rd' \in 0 .. written'
  BY <1>1, <1>5, SizesAssumption DEF WritePacket, Quiescent, TypeOKWire
<1>7. daemon' = daemon /\ hello' = hello /\ closed' = closed
  BY DEF WritePacket
<1>8. Len(packets') <= MaxPackets
  BY <1>1, <1>4, BoundsAssumption DEF WritePacket
<1>9. ASSUME NEW i \in 1 .. Len(packets)
      PROVE  packets[i].start + PACKET_BYTES <= Total
  <2>1. packets # <<>> /\ Len(packets) \in 1 .. Len(packets)
    BY <1>1
  <2>2. CASE i = Len(packets)
    BY <2>1, <2>2, <1>1 DEF Total
  <2>3. CASE i < Len(packets)
    <3>1. packets[i].start + PACKET_BYTES <= packets[Len(packets)].start
      BY <2>1, <2>3 DEF Layout
    <3> QED BY <2>1, <3>1, <1>1 DEF Total
  <2> QED BY <2>2, <2>3, <1>1
<1>10. packets'[1].start = Lead'
  <2>1. CASE packets = <<>>
    BY <2>1, <1>1, <1>4, <1>7 DEF Layout, Lead, Total, WritePacket, TypeOKWire
  <2>2. CASE packets # <<>>
    BY <2>2, <1>1, <1>4, <1>7 DEF Layout, Lead
  <2> QED BY <2>1, <2>2
<1>11. ASSUME NEW i \in 1 .. Len(packets') - 1
       PROVE  packets'[i + 1].start = packets'[i].start + PACKET_BYTES
  <2>1. CASE i < Len(packets)
    BY <2>1, <1>1, <1>4 DEF Layout
  <2>2. CASE i = Len(packets)
    BY <2>2, <1>1, <1>4 DEF Total
  <2> QED BY <2>1, <2>2, <1>1, <1>4
<1>12. ASSUME NEW i \in 1 .. Len(packets'), NEW j \in 1 .. Len(packets'), i < j
       PROVE  packets'[i].start + PACKET_BYTES <= packets'[j].start
  <2>1. CASE j \in 1 .. Len(packets)
    BY <2>1, <1>12, <1>1, <1>4 DEF Layout
  <2>2. CASE j = Len(packets) + 1
    BY <2>2, <1>12, <1>1, <1>4, <1>9
  <2> QED BY <2>1, <2>2, <1>1, <1>4
<1>13. Layout'
  BY <1>4, <1>7, <1>10, <1>11, <1>12 DEF Layout, WritePacket
<1> QED BY <1>4, <1>5, <1>6, <1>7, <1>8, <1>13

\* Every step of the daemon, and of the socket under it.
LEMMA DaemonTypes ==
  ASSUME TypeInv, Daemon
  PROVE  TypeInv'
<1> USE DEF TypeInv
<1>1. UNCHANGED clientVars
  BY DEF Daemon, clientVars
<1>2. TypeOKClient' /\ TypeOKHistory' /\ Opening'
  BY <1>1 DEF clientVars, modeVars, TypeOK, TypeOKClient, TypeOKHistory, Opening
<1>3. rd' = rd /\ owed \in 0 .. MaxOwed
  BY <1>1 DEF clientVars, TypeOK, TypeOKWire
<1>4. /\ packets = <<>> <=> Len(packets) = 0
      /\ Total \in Nat /\ written \in Nat /\ rd \in Nat
  BY TotalType DEF TypeOK
<1>5. ASSUME NEW kind \in {"event", "bad", "reply"}, NEW type \in 0 .. 6,
             WritePacket(kind, type), owed' \in 0 .. MaxOwed
      PROVE  TypeOKWire' /\ Layout'
  BY <1>3, <1>5, WritePacketLayout DEF TypeOK, TypeOKWire
<1>6. CASE DaemonEvent
  <2>1. owed' \in 0 .. MaxOwed
    BY <1>3, <1>6 DEF DaemonEvent
  <2>2. PICK kind \in {"event", "bad"}, type \in EventTypes : WritePacket(kind, type)
    BY <1>6 DEF DaemonEvent
  <2>3. kind \in {"event", "bad", "reply"} /\ type \in 0 .. 6
    BY BoundsAssumption
  <2> QED BY <1>2, <1>5, <2>1, <2>2, <2>3 DEF TypeOK
<1>7. CASE DaemonReply
  <2>1. owed' \in 0 .. MaxOwed
    BY <1>3, <1>7, BoundsAssumption DEF DaemonReply
  <2> QED BY <1>2, <1>5, <1>7, <2>1 DEF TypeOK, DaemonReply
<1>8. CASE DaemonHello /\ UNCHANGED owed
  <2>1. packets = <<>> /\ written = 0 /\ Total' = REPLY_BYTES
    BY <1>8 DEF DaemonHello, Quiescent, Layout, Total
  <2>2. TypeOKWire'
    BY <1>8, <1>3, <1>4, <2>1, SizesAssumption DEF DaemonHello, TypeOK, TypeOKWire
  <2>3. Layout'
    BY <1>8, <1>4, <2>1 DEF DaemonHello, Layout
  <2> QED BY <1>2, <2>2, <2>3 DEF TypeOK
<1>9. CASE DaemonContinues /\ UNCHANGED owed
  <2>1. Total' = Total
    BY <1>9 DEF DaemonContinues, Total
  <2>2. TypeOKWire'
    BY <1>9, <1>3, <1>4, <2>1 DEF DaemonContinues, TypeOK, TypeOKWire
  <2>3. Layout'
    BY <1>9 DEF DaemonContinues, Layout, Lead
  <2> QED BY <1>2, <2>2, <2>3 DEF TypeOK
<1>10. CASE DaemonCloses /\ UNCHANGED owed
  <2>1. Total' = Total
    BY <1>10 DEF DaemonCloses, Total
  <2>2. TypeOKWire'
    BY <1>10, <1>3, <2>1 DEF DaemonCloses, TypeOK, TypeOKWire
  <2>3. Layout'
    BY <1>10 DEF DaemonCloses, Layout, Lead
  <2> QED BY <1>2, <2>2, <2>3 DEF TypeOK
<1> QED BY <1>6, <1>7, <1>8, <1>9, <1>10 DEF Daemon

-----------------------------------------------------------------------------
(* The client's side of the types. *)

\* The daemon's part is as it was when the client takes a step, but for what it
\* has read and the requests it has made.
LEMMA WireTypes ==
  ASSUME TypeInv, UNCHANGED wireVars, rd' \in 0 .. written, owed' \in 0 .. MaxOwed
  PROVE  TypeOKWire' /\ Layout'
<1>1. Total' = Total
  BY DEF wireVars, Total
<1>2. TypeOKWire'
  BY <1>1 DEF wireVars, TypeInv, TypeOK, TypeOKWire
<1>3. Layout'
  BY DEF wireVars, TypeInv, Layout, Lead
<1> QED BY <1>2, <1>3

\* The number PacketAt gives is that of a packet that begins there, or 0.
LEMMA PacketAtType ==
  ASSUME TypeInv, NEW pos
  PROVE  PacketAt(pos) \in 0 .. MaxPackets /\ PacketAt(pos) \in 0 .. Len(packets)
<1>1. Len(packets) \in Nat /\ Len(packets) <= MaxPackets
  BY TotalType DEF TypeInv, TypeOK, TypeOKWire
<1>2. CASE \E i \in 1 .. Len(packets) : packets[i].start = pos
  <2>1. PacketAt(pos) \in 1 .. Len(packets)
    BY <1>2 DEF PacketAt
  <2> QED BY <2>1, <1>1, BoundsAssumption
<1>3. CASE ~ \E i \in 1 .. Len(packets) : packets[i].start = pos
  BY <1>1, <1>3, BoundsAssumption DEF PacketAt
<1> QED BY <1>2, <1>3

\* Durations are naturals, and so are the options of any socket they set.
LEMMA ModeTypes ==
  ASSUME TypeInv,
         NEW m \in {Blocking, Nonblocking} \cup
                   {Deadline(t) : t \in Timeouts \cup {REQUEST_TIMEOUT}},
         SetMode(m) \/ SetModeFails(m)
  PROVE  mode' \in Mode /\ sock' \in Socket /\ halfway' \in BOOLEAN
<1>1. m \in Mode
  BY DurationsAssumption DEF Mode, Blocking, Nonblocking, Deadline
<1>2. SocketFor(m) \in Socket
  BY <1>1 DEF SocketFor, Socket, Mode
<1>3. mode \in Mode /\ sock \in Socket /\ halfway \in BOOLEAN
  BY DEF TypeInv, TypeOK, TypeOKClient
<1>4. CASE SetMode(m)
  BY <1>1, <1>2, <1>3, <1>4 DEF SetMode, modeVars
<1>5. CASE SetModeFails(m)
  BY <1>3, <1>5 DEF SetModeFails, ModeAfterFailure, Socket
<1> QED BY <1>4, <1>5

\* The handshake, however it ends.
LEMMA HandshakeTypes ==
  ASSUME TypeInv, HandshakeRead \/ HandshakeTimeout \/ HandshakeEof
  PROVE  TypeInv'
<1> USE DEF TypeInv
<1>1. /\ packets = <<>> <=> Len(packets) = 0
      /\ \A i \in 1 .. Len(packets) : packets[i] \in Packet
      /\ Total \in Nat /\ written \in Nat /\ rd \in Nat /\ rd <= written
      /\ written <= Total
  BY TotalType DEF TypeOK, TypeOKWire
<1>2. UNCHANGED wireVars /\ owed' = owed
  BY DEF HandshakeRead, HandshakeTimeout, HandshakeEof
<1>3. UNCHANGED <<filled, queued, signals, log, told>> /\ op = "handshake"
  BY DEF HandshakeRead, HandshakeTimeout, HandshakeEof
<1>4. /\ rd < REPLY_BYTES /\ base = 0 /\ proto = 0
      /\ filled = 0 /\ log = <<>> /\ told = <<>> /\ queued = <<>>
      /\ mode = Blocking
      /\ sock = [nonblocking |-> FALSE, timeout |-> HANDSHAKE_TIMEOUT]
  BY <1>3 DEF Opening
<1>5. owed' \in 0 .. MaxOwed
  BY <1>2 DEF TypeOK, TypeOKWire
<1>6. waited \in Nat /\ elapsed \in 0 .. MaxElapsed /\ 0 \in 0 .. MaxElapsed
      /\ result \in Results
  BY DurationsAssumption DEF TypeOK, TypeOKClient
<1>7. ASSUME NEW v \in 0 .. 6, Open(v), rd' \in 0 .. REPLY_BYTES, rd' \in 0 .. written
      PROVE  TypeInv'
  <2>1. TypeOKWire' /\ Layout'
    BY <1>2, <1>5, <1>7, WireTypes
  <2>2. TypeOKClient'
    BY <1>3, <1>4, <1>6, <1>7, SizesAssumption
    DEF Open, Return, TypeOK, TypeOKClient, Blocking, Mode, Socket
  <2>3. TypeOKHistory'
    BY <1>3, <1>7 DEF Open, TypeOK, TypeOKHistory
  <2>4. Opening'
    BY <1>7 DEF Open, Return, Opening
  <2> QED BY <2>1, <2>2, <2>3, <2>4 DEF TypeOK
<1>8. ASSUME op' = "dropped", result' \in Results, waited' = 0, elapsed' = 0,
             UNCHANGED <<proto, modeVars, base>>, rd' = rd
      PROVE  TypeInv'
  <2>1. TypeOKWire' /\ Layout'
    BY <1>1, <1>2, <1>5, <1>8, WireTypes
  <2>2. TypeOKClient'
    BY <1>3, <1>6, <1>8 DEF TypeOK, TypeOKClient, modeVars
  <2>3. TypeOKHistory' /\ Opening'
    BY <1>3, <1>8 DEF TypeOK, TypeOKHistory, Opening
  <2> QED BY <2>1, <2>2, <2>3 DEF TypeOK
<1>9. CASE HandshakeRead
  <2>1. CASE Available < REPLY_BYTES - rd
    <3>1. /\ rd' = written /\ written < REPLY_BYTES
          /\ waited' = 0 /\ UNCHANGED <<op, result, elapsed, proto, modeVars, base>>
      BY <1>1, <1>9, <2>1, SizesAssumption DEF HandshakeRead, Available, KeepReading
    <3>2. TypeOKWire' /\ Layout'
      BY <1>1, <1>2, <1>5, <3>1, WireTypes
    <3>3. TypeOKClient'
      BY <1>3, <1>6, <3>1 DEF TypeOK, TypeOKClient, modeVars
    <3>4. TypeOKHistory' /\ Opening'
      BY <1>1, <1>3, <1>4, <3>1 DEF TypeOK, TypeOKHistory, Opening, modeVars
    <3> QED BY <3>2, <3>3, <3>4 DEF TypeOK
  <2>2. CASE ~(Available < REPLY_BYTES - rd)
    <3>1. Open(FirstWord) /\ rd' = REPLY_BYTES
      BY <1>9, <2>2 DEF HandshakeRead
    <3>2. rd' \in 0 .. REPLY_BYTES /\ rd' \in 0 .. written /\ written > 0
      BY <1>1, <2>2, <3>1, SizesAssumption DEF Available
    <3>3. FirstWord \in 0 .. 6
      <4>1. CASE daemon = "v1"
        BY <4>1 DEF FirstWord
      <4>2. CASE daemon # "v1"
        <5>1. packets # <<>>
          BY <1>1, <3>2, <4>2 DEF Total, Layout
        <5>2. packets[1] \in Packet
          BY <5>1, <1>1, TotalType DEF TypeOK
        <5> QED BY <5>2, <4>2 DEF FirstWord, Packet
      <4> QED BY <4>1, <4>2
    <3> QED BY <1>7, <3>1, <3>2, <3>3
  <2> QED BY <2>1, <2>2
<1>10. CASE HandshakeTimeout
  <2>1. rd' = rd /\ rd' \in 0 .. REPLY_BYTES /\ rd' \in 0 .. written
    BY <1>1, <1>4, <1>10, SizesAssumption DEF HandshakeTimeout
  <2>2. CASE rd = 0
    BY <1>7, <1>10, <2>1, <2>2 DEF HandshakeTimeout
  <2>3. CASE rd # 0
    BY <1>8, <1>10, <2>1, <2>3 DEF HandshakeTimeout
  <2> QED BY <2>2, <2>3
<1>11. CASE HandshakeEof
  BY <1>8, <1>11 DEF HandshakeEof
<1> QED BY <1>9, <1>10, <1>11

\* A call that starts, or that is over before it starts.
LEMMA CallTypes ==
  ASSUME TypeInv, Call
  PROVE  TypeInv'
<1> USE DEF TypeInv
<1>1. /\ written \in Nat /\ rd \in 0 .. written
      /\ owed \in 0 .. MaxOwed /\ 0 \in 0 .. MaxElapsed
      /\ queued \in Seq(0 .. MaxPackets) /\ told \in Seq(0 .. MaxPackets)
  BY TotalType, DurationsAssumption DEF TypeOK, TypeOKWire, TypeOKClient, TypeOKHistory
<1>2. UNCHANGED <<wireVars, proto, rd, filled, signals, base, log>> /\ op = "idle"
  BY DEF Call, PopQueued, ReadBlocking, ReadTimeout, Poll, BeginRead, Request,
         RequestFails, RequestCutOff
<1>3. ASSUME owed' \in 0 .. MaxOwed, op' \in ReadOps \cup {"idle"},
             mode' \in Mode, sock' \in Socket, halfway' \in BOOLEAN,
             queued' \in Seq(0 .. MaxPackets), told' \in Seq(0 .. MaxPackets),
             waited' \in Nat, elapsed' \in 0 .. MaxElapsed, result' \in Results
      PROVE  TypeInv'
  <2>1. TypeOKWire' /\ Layout'
    BY <1>1, <1>2, <1>3, WireTypes
  <2>2. TypeOKClient' /\ TypeOKHistory' /\ Opening'
    BY <1>2, <1>3 DEF TypeOK, TypeOKClient, TypeOKHistory, Opening
  <2> QED BY <2>1, <2>2 DEF TypeOK
<1>4. waited \in Nat /\ elapsed \in 0 .. MaxElapsed /\ result \in Results
      /\ mode \in Mode /\ sock \in Socket /\ halfway \in BOOLEAN
  BY DEF TypeOK, TypeOKClient
<1>5. CASE PopQueued
  <2>1. Head(queued) \in 0 .. MaxPackets /\ Tail(queued) \in Seq(0 .. MaxPackets)
    BY <1>1, <1>5, HeadTailProperties DEF PopQueued
  <2>2. told' \in Seq(0 .. MaxPackets)
    BY <1>1, <1>5, <2>1, AppendProperties DEF PopQueued
  <2> QED BY <1>1, <1>3, <1>4, <1>5, <2>1, <2>2 DEF PopQueued, Return, modeVars
<1>6. ASSUME NEW o \in ReadOps,
             NEW m \in {Blocking, Nonblocking} \cup
                       {Deadline(t) : t \in Timeouts \cup {REQUEST_TIMEOUT}},
             BeginRead(o, m)
      PROVE  TypeInv'
  <2>1. mode' \in Mode /\ sock' \in Socket /\ halfway' \in BOOLEAN
    BY <1>6, ModeTypes DEF BeginRead
  <2> QED BY <1>1, <1>3, <1>4, <1>6, <2>1 DEF BeginRead, Return
<1>7. CASE ReadBlocking
  BY <1>6, <1>7 DEF ReadBlocking
<1>8. CASE ReadTimeout
  BY <1>6, <1>8 DEF ReadTimeout
<1>9. CASE Poll
  BY <1>6, <1>9 DEF Poll
<1>10. CASE Request
  <2>1. mode' \in Mode /\ sock' \in Socket /\ halfway' \in BOOLEAN
    BY <1>10, ModeTypes DEF Request
  <2>2. owed' \in 0 .. MaxOwed
    BY <1>1, <1>10, BoundsAssumption DEF Request
  <2> QED BY <1>1, <1>3, <1>4, <1>10, <2>1, <2>2 DEF Request
<1>11. CASE RequestFails
  BY <1>1, <1>3, <1>4, <1>11 DEF RequestFails, Return, modeVars
<1>12. CASE RequestCutOff
  <2>1. mode' \in Mode /\ sock' \in Socket /\ halfway' \in BOOLEAN
    BY <1>12, ModeTypes DEF RequestCutOff
  <2> QED BY <1>1, <1>3, <1>4, <1>12, <2>1 DEF RequestCutOff, Return
<1> QED BY <1>5, <1>7, <1>8, <1>9, <1>10, <1>11, <1>12 DEF Call

\* A packet taken is numbered in the history, and in the queue or in what the
\* application has if it is an event.
LEMMA ReadPacketTypes ==
  ASSUME TypeInv, ReadPacket
  PROVE  TypeInv'
<1> USE DEF TypeInv
<1> DEFINE n == PacketAt(rd - filled)
<1>1. /\ written \in Nat /\ rd \in 0 .. written /\ owed \in 0 .. MaxOwed
      /\ filled \in 0 .. PACKET_BYTES - 1
      /\ queued \in Seq(0 .. MaxPackets) /\ told \in Seq(0 .. MaxPackets)
      /\ log \in Seq(0 .. MaxPackets)
      /\ elapsed \in 0 .. MaxElapsed /\ 0 \in 0 .. MaxElapsed /\ result \in Results
  BY TotalType, DurationsAssumption DEF TypeOK, TypeOKWire, TypeOKClient, TypeOKHistory
<1>2. n \in 0 .. MaxPackets
  BY PacketAtType
<1> HIDE DEF n
<1>3. /\ UNCHANGED <<wireVars, owed, proto, modeVars, signals, base>>
      /\ rd' = rd + (PACKET_BYTES - filled) /\ filled' = 0
      /\ log' = Append(log, n) /\ op \in ReadOps
  BY DEF ReadPacket, n
<1>4. rd' \in 0 .. written /\ rd <= rd'
  BY <1>1, <1>3, SizesAssumption DEF ReadPacket, Available, WantsMore
<1>5. PICK kind \in KindsOf(n) :
        IF op = "request" THEN AwaitReply(n, kind) ELSE TakeEvent(n, kind)
  BY DEF ReadPacket, n
<1>6. /\ op' \in ReadOps \cup {"idle"} /\ result' \in Results
      /\ waited' = 0 /\ elapsed' \in 0 .. MaxElapsed
      /\ queued' \in {queued, Append(queued, n)} /\ told' \in {told, Append(told, n)}
  <2>1. CASE op = "request"
    BY <1>1, <1>3, <1>5, <2>1 DEF AwaitReply, Return, KeepReading, QueuedWith
  <2>2. CASE op # "request"
    <3>1. TakeEvent(n, kind)
      BY <1>5, <2>2
    <3>2. CASE kind = "event"
      BY <1>1, <3>1, <3>2 DEF TakeEvent, Return
    <3>3. CASE kind = "bad"
      BY <1>1, <3>1, <3>3 DEF TakeEvent, Return
    <3>4. CASE kind \notin {"event", "bad"}
      BY <1>1, <1>3, <3>1, <3>4 DEF TakeEvent, KeepReading
    <3> QED BY <3>2, <3>3, <3>4
  <2> QED BY <2>1, <2>2
<1>7. /\ queued' \in Seq(0 .. MaxPackets) /\ told' \in Seq(0 .. MaxPackets)
      /\ log' \in Seq(0 .. MaxPackets)
  <2>1. ASSUME NEW q \in Seq(0 .. MaxPackets)
        PROVE  Append(q, n) \in Seq(0 .. MaxPackets)
    BY <1>2, AppendProperties
  <2> QED BY <1>1, <1>3, <1>6, <2>1
<1>8. TypeOKWire' /\ Layout'
  BY <1>1, <1>3, <1>4, WireTypes
<1>9. TypeOKClient'
  BY <1>3, <1>6, <1>7, SizesAssumption DEF TypeOK, TypeOKClient, modeVars
<1>10. TypeOKHistory' /\ Opening'
  BY <1>1, <1>3, <1>4, <1>6, <1>7, SizesAssumption DEF TypeOK, TypeOKHistory, Opening
<1> QED BY <1>8, <1>9, <1>10 DEF TypeOK

\* A read that takes no packet, time passing and signals.
LEMMA WaitTypes ==
  ASSUME TypeInv, ReadPart \/ ReadQuiet \/ ReadEof \/ Tick \/ Interrupted
  PROVE  TypeInv'
<1> USE DEF TypeInv
<1>1. /\ written \in Nat /\ rd \in Nat /\ rd \in 0 .. written /\ owed \in 0 .. MaxOwed
      /\ filled \in 0 .. PACKET_BYTES - 1
      /\ waited \in Nat /\ elapsed \in 0 .. MaxElapsed /\ 0 \in 0 .. MaxElapsed
      /\ signals \in 0 .. MaxSignals /\ result \in Results /\ base <= rd /\ base \in Nat
  BY TotalType, DurationsAssumption, SizesAssumption
  DEF TypeOK, TypeOKWire, TypeOKClient, TypeOKHistory, Opening
<1>2. /\ UNCHANGED <<wireVars, owed, proto, modeVars, queued, base, log, told>>
      /\ op' \in {op, "idle"}
  BY DEF ReadPart, ReadQuiet, ReadEof, Tick, Interrupted, Return, KeepReading
<1>3. /\ rd' \in 0 .. written /\ rd <= rd' /\ filled' \in 0 .. PACKET_BYTES - 1
      /\ op = "handshake" => rd' = rd /\ filled' = filled
  <2>1. CASE ReadPart
    BY <1>1, <2>1, SizesAssumption DEF ReadPart, Available, WantsMore
  <2>2. CASE ReadQuiet \/ ReadEof \/ Tick \/ Interrupted
    BY <1>1, <2>2 DEF ReadQuiet, ReadEof, Tick, Interrupted, PartKept
  <2> QED BY <2>1, <2>2
<1>4. /\ waited' \in Nat /\ elapsed' \in 0 .. MaxElapsed
      /\ signals' \in 0 .. MaxSignals /\ result' \in Results
  <2>1. CASE ReadPart \/ ReadQuiet \/ ReadEof
    BY <1>1, <2>1 DEF ReadPart, ReadQuiet, ReadEof, Return, KeepReading
  <2>2. CASE Tick
    BY <1>1, <2>2, DurationsAssumption DEF Tick
  <2>3. CASE Interrupted
    BY <1>1, <2>3, BoundsAssumption DEF Interrupted, KeepReading
  <2> QED BY <2>1, <2>2, <2>3
<1>5. TypeOKWire' /\ Layout'
  BY <1>1, <1>2, <1>3, WireTypes
<1>6. TypeOKClient'
  BY <1>2, <1>3, <1>4 DEF TypeOK, TypeOKClient, modeVars
<1>7. TypeOKHistory' /\ Opening'
  BY <1>1, <1>2, <1>3 DEF TypeOK, TypeOKHistory, Opening, modeVars
<1> QED BY <1>5, <1>6, <1>7 DEF TypeOK

\* The program starts in the invariant of the types, and no step leaves it.
LEMMA TypeInvInit == Init => TypeInv
<1> SUFFICES ASSUME Init PROVE TypeInv
  OBVIOUS
<1>1. Total = 0 /\ Len(packets) = 0
  BY EmptySeq DEF Init, Total
<1>2. TypeOKWire
  <2>1. packets \in Seq(Packet)
    BY EmptySeq DEF Init
  <2>2. Len(packets) <= MaxPackets /\ 0 \in 0 .. MaxOwed
    BY <1>1, BoundsAssumption
  <2>3. written \in 0 .. Total /\ rd \in 0 .. written
    BY <1>1 DEF Init
  <2>4. daemon \in {"v0", "v1"} /\ hello \in BOOLEAN /\ closed \in BOOLEAN /\ owed = 0
    BY DEF Init
  <2> QED BY <2>1, <2>2, <2>3, <2>4 DEF TypeOKWire
<1>3. TypeOKClient
  <2>1. mode \in Mode /\ sock \in Socket /\ halfway \in BOOLEAN
    BY DurationsAssumption DEF Init, Mode, Socket, Blocking
  <2> QED BY <2>1, EmptySeq, SizesAssumption, DurationsAssumption, BoundsAssumption
          DEF Init, TypeOKClient
<1>4. TypeOKHistory
  BY EmptySeq, SizesAssumption DEF Init, TypeOKHistory
<1>5. Layout /\ Opening
  BY <1>1, SizesAssumption DEF Init, Layout, Opening
<1> QED BY <1>2, <1>3, <1>4, <1>5 DEF TypeInv, TypeOK

\* Every step keeps the types.
LEMMA TypeInvNext == TypeInv /\ [Next]_vars => TypeInv'
<1> SUFFICES ASSUME TypeInv, [Next]_vars PROVE TypeInv'
  OBVIOUS
<1>1. CASE Daemon
  BY <1>1, DaemonTypes
<1>2. CASE HandshakeRead \/ HandshakeTimeout \/ HandshakeEof
  BY <1>2, HandshakeTypes
<1>3. CASE ReadPacket
  BY <1>3, ReadPacketTypes
<1>4. CASE ReadPart \/ ReadQuiet \/ ReadEof \/ Tick \/ Interrupted
  BY <1>4, WaitTypes
<1>5. CASE Call
  BY <1>5, CallTypes
<1>6. CASE UNCHANGED vars
  BY <1>6 DEF TypeInv, TypeOK, TypeOKWire, TypeOKClient, TypeOKHistory, Layout,
              Lead, Total, Opening, vars, wireVars, modeVars
<1> QED BY <1>1, <1>2, <1>3, <1>4, <1>5, <1>6 DEF Next, ClientStep, Dropped

\* Every variable keeps its type, for every size of packet, every duration and
\* every bound: no packet under construction reaches PACKET_BYTES bytes, and the
\* client takes no byte that is not in the socket (fill_packet).
THEOREM TypeCorrect == Spec => []TypeOK
<1>1. Init => TypeInv
  BY TypeInvInit
<1>2. TypeInv /\ [Next]_vars => TypeInv'
  BY TypeInvNext
<1>3. TypeInv => TypeOK
  BY DEF TypeInv
<1> QED BY <1>1, <1>2, <1>3, PTL DEF Spec

-----------------------------------------------------------------------------
(* The cached mode. *)

\* Only a deadline has a duration.
ModeWait == mode.kind # "Deadline" => mode.wait = 0

ModeInv == TypeInv /\ ModeWait /\ ModeAgrees

\* Between the system calls of set_mode, which is half way just if it fails out of
\* the non-blocking mode: there set_nonblocking has made the socket one that blocks,
\* and in the other modes it had nothing to do.
LEMMA SetModeAgrees ==
  ASSUME ModeInv, Handshaken,
         NEW m \in {Blocking, Nonblocking} \cup
                   {Deadline(t) : t \in Timeouts \cup {REQUEST_TIMEOUT}},
         SetMode(m) \/ SetModeFails(m)
  PROVE  /\ ModeWait'
         /\ sock' = SocketFor(IF halfway' THEN Blocking ELSE mode')
         /\ halfway' => mode' = Nonblocking
<1>1. mode \in Mode /\ sock \in Socket /\ halfway \in BOOLEAN
  BY DEF ModeInv, TypeInv, TypeOK, TypeOKClient
<1>2. m.kind # "Deadline" => m.wait = 0
  BY DEF Blocking, Nonblocking, Deadline
<1>3. /\ sock = SocketFor(IF halfway THEN Blocking ELSE mode)
      /\ halfway => mode = Nonblocking
  BY DEF ModeInv, ModeAgrees
<1>4. CASE SetMode(m)
  <2>1. CASE SameMode(m)
    BY <1>3, <1>4, <2>1 DEF SetMode, ModeInv, ModeWait, modeVars
  <2>2. CASE ~SameMode(m)
    BY <1>2, <1>4, <2>2 DEF SetMode, ModeWait
  <2> QED BY <2>1, <2>2
<1>5. CASE SetModeFails(m)
  <2>1. mode' = mode /\ ModeWait' /\ halfway' = (mode = Nonblocking)
    BY <1>5 DEF SetModeFails, ModeAfterFailure, ModeInv, ModeWait
  <2>2. SocketFor(Blocking) = [nonblocking |-> FALSE, timeout |-> 0]
    BY DEF SocketFor, Blocking
  <2>3. CASE m = Nonblocking
    <3>1. mode # Nonblocking /\ sock' = sock
      BY <1>5, <2>3 DEF SetModeFails, SameMode
    <3> QED BY <1>3, <2>1, <3>1
  <2>4. CASE m # Nonblocking
    <3>1. sock' = [sock EXCEPT !.nonblocking = FALSE]
      BY <1>5, <2>4 DEF SetModeFails
    <3>2. CASE mode = Nonblocking
      <4>1. SocketFor(Nonblocking) = [nonblocking |-> TRUE, timeout |-> 0]
        BY DEF SocketFor, Nonblocking
      <4>2. sock.timeout = 0
        BY <1>3, <2>2, <3>2, <4>1
      <4>3. sock' = [nonblocking |-> FALSE, timeout |-> 0]
        BY <1>1, <3>1, <4>2 DEF Socket
      <4> QED BY <2>1, <2>2, <3>2, <4>3
    <3>3. CASE mode # Nonblocking
      <4>1. mode.kind # "Nonblocking"
        BY <1>1, <3>3 DEF ModeInv, ModeWait, Mode, Nonblocking
      <4>2. SocketFor(mode) = [nonblocking |-> FALSE, timeout |-> mode.wait]
        BY <4>1, Zenon DEF SocketFor
      <4>3. sock = [nonblocking |-> FALSE, timeout |-> mode.wait]
        BY <1>3, <3>3, <4>2, Zenon
      <4>4. sock' = [nonblocking |-> FALSE, timeout |-> mode.wait]
        BY <3>1, <4>3
      <4>5. sock' = SocketFor(mode)
        BY <4>2, <4>4, Zenon
      <4> QED BY <2>1, <3>3, <4>5
    <3> QED BY <3>2, <3>3
  <2> QED BY <2>3, <2>4
<1> QED BY <1>4, <1>5

\* A step that sets no mode leaves the handshake only through Open or drops the
\* connection.
LEMMA ModeInvNext == ModeInv /\ [Next]_vars => ModeInv'
<1> SUFFICES ASSUME ModeInv, [Next]_vars PROVE ModeInv'
  OBVIOUS
<1>1. TypeInv'
  BY TypeInvNext DEF ModeInv
<1>2. ASSUME UNCHANGED modeVars, Handshaken' => Handshaken
      PROVE  ModeInv'
  BY <1>1, <1>2 DEF ModeInv, ModeWait, ModeAgrees, modeVars, SocketFor
<1>3. ASSUME NEW v, Open(v), op = "handshake"
      PROVE  ModeInv'
  <2>1. sock = [nonblocking |-> FALSE, timeout |-> HANDSHAKE_TIMEOUT]
    BY <1>3 DEF ModeInv, TypeInv, Opening
  <2>2. sock' = [sock EXCEPT !.timeout = 0] /\ mode' = Blocking /\ halfway' = FALSE
    BY <1>3 DEF Open
  <2>3. sock' = [nonblocking |-> FALSE, timeout |-> 0]
    BY <2>1, <2>2
  <2> QED BY <1>1, <2>2, <2>3 DEF ModeInv, ModeWait, ModeAgrees, Blocking, Nonblocking, SocketFor
<1>4. CASE Daemon
  BY <1>2, <1>4 DEF Daemon, Handshaken
<1>5. CASE HandshakeRead
  BY <1>2, <1>3, <1>5 DEF HandshakeRead, KeepReading, modeVars, Handshaken
<1>6. CASE HandshakeTimeout
  BY <1>2, <1>3, <1>6 DEF HandshakeTimeout, modeVars, Handshaken
<1>7. CASE HandshakeEof
  BY <1>2, <1>7 DEF HandshakeEof, modeVars, Handshaken
<1>8. CASE ReadPart \/ ReadPacket \/ ReadQuiet \/ ReadEof
  BY <1>2, <1>8 DEF ReadPart, ReadPacket, ReadQuiet, ReadEof, Handshaken
<1>9. CASE Tick \/ Interrupted
  BY <1>2, <1>9 DEF Tick, Interrupted, KeepReading, Handshaken
<1>10. CASE PopQueued \/ RequestFails
  BY <1>2, <1>10 DEF PopQueued, RequestFails, Handshaken
<1>11. ASSUME NEW m \in {Blocking, Nonblocking} \cup
                        {Deadline(t) : t \in Timeouts \cup {REQUEST_TIMEOUT}},
              SetMode(m) \/ SetModeFails(m), op = "idle"
       PROVE  ModeInv'
  <2>1. Handshaken
    BY <1>11 DEF Handshaken
  <2> QED BY <1>1, <1>11, <2>1, SetModeAgrees DEF ModeInv, ModeAgrees, SocketFor
<1>12. CASE ReadBlocking \/ ReadTimeout \/ Poll
  BY <1>11, <1>12 DEF ReadBlocking, ReadTimeout, Poll, BeginRead
<1>13. CASE Request \/ RequestCutOff
  BY <1>11, <1>13 DEF Request, RequestCutOff
<1>14. CASE UNCHANGED vars
  BY <1>2, <1>14 DEF vars, modeVars, Handshaken
<1> QED BY <1>4, <1>5, <1>6, <1>7, <1>8, <1>9, <1>10, <1>12, <1>13, <1>14
        DEF Next, ClientStep, Call, Dropped

\* The options of the socket are those of the cached mode, for every duration an
\* application may pass, but after a set_mode that failed on its way out of the
\* non-blocking mode: then they are those of the blocking one.
THEOREM ModeAlwaysAgrees == Spec => []ModeAgrees
<1>1. Init => ModeInv
  BY TypeInvInit DEF Init, ModeInv, ModeWait, ModeAgrees, Handshaken, Blocking
<1>2. ModeInv /\ [Next]_vars => ModeInv'
  BY ModeInvNext
<1>3. ModeInv => ModeAgrees
  BY DEF ModeInv
<1> QED BY <1>1, <1>2, <1>3, PTL DEF Spec

-----------------------------------------------------------------------------
(* Where packets begin. *)

\* Where the packet after the first n begins, or will begin.
StartAfter(n) == IF n < Len(packets) THEN packets[n + 1].start ELSE Total

\* The packet under construction began where the next one of the daemon does.
Aligned ==
  Handshaken /\ Clean =>
    /\ Len(log) <= Len(packets)
    /\ rd - filled = StartAfter(Len(log))
    /\ \A k \in 1 .. Len(log) : log[k] = k

FrameInv == TypeInv /\ Aligned

\* The numbers FrameInv is about.
LEMMA FrameTypes ==
  ASSUME TypeInv
  PROVE  /\ Len(log) \in Nat /\ Len(packets) \in Nat
         /\ \A i \in 1 .. Len(packets) : packets[i].start \in Nat
         /\ Total \in Nat /\ written \in Nat /\ rd \in Nat /\ filled \in Nat
         /\ rd <= written /\ written <= Total
         /\ filled < PACKET_BYTES
         /\ PACKET_BYTES \in Nat /\ REPLY_BYTES \in Nat
<1>1. Len(log) \in Nat
  BY LenProperties DEF TypeInv, TypeOK, TypeOKHistory
<1>2. /\ Len(packets) \in Nat
      /\ \A i \in 1 .. Len(packets) : packets[i].start \in Nat
      /\ Total \in Nat /\ written \in Nat /\ rd \in Nat
  BY TotalType DEF TypeInv, TypeOK
<1>3. /\ rd <= written /\ written <= Total
      /\ filled \in Nat /\ filled < PACKET_BYTES
  BY <1>2, SizesAssumption DEF TypeInv, TypeOK, TypeOKWire, TypeOKClient
<1> QED BY <1>1, <1>2, <1>3, SizesAssumption

\* A packet the client completes is the next of the daemon's: no other begins
\* where it began, and all of it had been written.
LEMMA NextPacket ==
  ASSUME FrameInv, Handshaken, Clean, ReadPacket
  PROVE  /\ Len(log) < Len(packets)
         /\ PacketAt(rd - filled) = Len(log) + 1
         /\ rd' - filled' = StartAfter(Len(log) + 1)
<1> USE DEF FrameInv
<1>1. /\ Len(log) \in Nat /\ Len(packets) \in Nat
      /\ \A i \in 1 .. Len(packets) : packets[i].start \in Nat
      /\ Total \in Nat /\ written \in Nat /\ rd \in Nat /\ filled \in Nat
      /\ rd <= written /\ written <= Total /\ filled < PACKET_BYTES
      /\ PACKET_BYTES \in Nat
  BY FrameTypes
<1>2. Len(log) <= Len(packets) /\ rd - filled = StartAfter(Len(log))
  BY DEF Aligned
<1>3. /\ rd' = rd + (PACKET_BYTES - filled) /\ filled' = 0
      /\ written >= rd - filled + PACKET_BYTES
  BY <1>1 DEF ReadPacket, WantsMore, Available
<1>4. Len(log) < Len(packets)
  BY <1>1, <1>2, <1>3, SizesAssumption DEF StartAfter
<1>5. /\ Len(log) + 1 \in 1 .. Len(packets)
      /\ packets[Len(log) + 1].start = rd - filled
  BY <1>1, <1>2, <1>4 DEF StartAfter
<1>6. ASSUME NEW i \in 1 .. Len(packets), packets[i].start = rd - filled
      PROVE  i = Len(log) + 1
  <2>1. ASSUME NEW j \in 1 .. Len(packets), NEW k \in 1 .. Len(packets), j < k
        PROVE  packets[j].start # packets[k].start
    <3>1. packets[j].start + PACKET_BYTES <= packets[k].start
      BY <2>1 DEF TypeInv, Layout
    <3> QED BY <3>1, <1>1, SizesAssumption
  <2> QED BY <1>1, <1>5, <1>6, <2>1
<1>7. PacketAt(rd - filled) = Len(log) + 1
  BY <1>5, <1>6 DEF PacketAt
<1>8. rd' - filled' = packets[Len(log) + 1].start + PACKET_BYTES
  BY <1>1, <1>3, <1>5
<1>9. rd' - filled' = StartAfter(Len(log) + 1)
  <2>1. CASE Len(log) + 1 < Len(packets)
    <3>1. Len(log) + 1 \in 1 .. Len(packets) - 1
      BY <1>1, <1>5, <2>1
    <3>2. packets[Len(log) + 1 + 1].start = packets[Len(log) + 1].start + PACKET_BYTES
      BY <3>1 DEF TypeInv, Layout
    <3> QED BY <1>8, <2>1, <3>2 DEF StartAfter
  <2>2. CASE Len(log) + 1 = Len(packets)
    <3>1. packets # <<>>
      BY <1>1, <2>2, EmptySeq
    <3> QED BY <1>8, <2>2, <3>1 DEF StartAfter, Total
  <2> QED BY <1>1, <1>4, <2>1, <2>2
<1> QED BY <1>4, <1>7, <1>9

\* Nothing the daemon does moves the place where the next packet begins.
LEMMA DaemonAligned ==
  ASSUME FrameInv, Daemon
  PROVE  Aligned'
<1> USE DEF FrameInv
<1>1. SUFFICES ASSUME Handshaken, Clean
               PROVE  Len(packets) <= Len(packets')
                      /\ StartAfter(Len(log))' = StartAfter(Len(log))
  <2>1. UNCHANGED <<op, base, daemon, rd, filled, log>>
    BY DEF Daemon, DaemonEvent, DaemonReply, DaemonHello, DaemonContinues,
           DaemonCloses, WritePacket
  <2>2. Len(packets) \in Nat /\ Len(log) \in Nat
    BY FrameTypes
  <2>3. TypeInv'
    BY DaemonTypes
  <2>4. Len(packets') \in Nat
    BY <2>3, FrameTypes
  <2> QED BY <1>1, <2>1, <2>2, <2>4 DEF Aligned, Handshaken, Clean
<1>2. /\ Len(log) \in Nat /\ Len(packets) \in Nat /\ Len(log) <= Len(packets)
      /\ log' = log
  BY <1>1, FrameTypes DEF Aligned, Daemon
<1>3. ASSUME NEW kind \in {"event", "bad", "reply"}, NEW type \in 0 .. 6,
             WritePacket(kind, type)
      PROVE  Len(packets) <= Len(packets')
             /\ StartAfter(Len(log))' = StartAfter(Len(log))
  <2>1. /\ Len(packets') = Len(packets) + 1
        /\ packets'[Len(packets) + 1].start = Total
        /\ \A i \in 1 .. Len(packets) : packets'[i] = packets[i]
    BY <1>3, WritePacketLayout DEF TypeInv, TypeOK, Daemon
  <2> QED BY <1>2, <2>1 DEF StartAfter
<1>4. CASE DaemonEvent
  BY <1>3, <1>4, BoundsAssumption DEF DaemonEvent
<1>5. CASE DaemonReply
  BY <1>3, <1>5 DEF DaemonReply
<1>6. CASE DaemonHello
  <2>1. daemon = "v1" /\ written = 0
    BY <1>6 DEF DaemonHello, Quiescent, TypeInv, Layout, Total
  <2>2. base = REPLY_BYTES /\ base <= 0
    BY <1>1, <2>1, FrameTypes DEF Clean, TypeInv, TypeOK, TypeOKWire, Opening
  <2> QED BY <2>2, SizesAssumption
<1>7. CASE DaemonContinues \/ DaemonCloses
  BY <1>2, <1>7 DEF DaemonContinues, DaemonCloses, StartAfter, Total
<1> QED BY <1>4, <1>5, <1>6, <1>7 DEF Daemon

\* A handshake that took its answer and nothing else ends where the first
\* packet begins.
LEMMA OpenAligned ==
  ASSUME TypeInv, TypeInv', NEW v, Open(v), op = "handshake",
         UNCHANGED wireVars, filled' = filled, log' = log, rd' > 0 => written > 0
  PROVE  Aligned'
<1>1. SUFFICES ASSUME Clean'
               PROVE  /\ Len(log') <= Len(packets')
                      /\ rd' - filled' = StartAfter(Len(log))'
                      /\ \A k \in 1 .. Len(log') : log'[k] = k
  BY DEF Aligned
<1>2. filled' = 0 /\ log' = <<>> /\ base' = rd' /\ Len(log') = 0
  BY EmptySeq DEF TypeInv, Opening, Open
<1>3. /\ Len(packets) \in Nat /\ packets' = packets /\ daemon' = daemon
      /\ hello' = hello /\ daemon \in {"v0", "v1"}
      /\ packets = <<>> <=> Len(packets) = 0
      /\ rd' \in Nat /\ written \in Nat /\ written <= Total
  BY FrameTypes, TotalType DEF wireVars, TypeInv, TypeOK, TypeOKWire
<1>4. rd' = Lead
  BY <1>1, <1>2, <1>3 DEF Clean, Lead
<1>5. StartAfter(Len(log))' = Lead
  <2>1. CASE packets = <<>>
    <3>1. StartAfter(Len(log))' = Total
      BY <1>2, <1>3, <2>1 DEF StartAfter, Total
    <3>2. Total = Lead
      <4>1. CASE daemon = "v1"
        BY <1>3, <1>4, <2>1, <4>1, SizesAssumption DEF Total, Lead
      <4>2. CASE daemon # "v1"
        BY <2>1, <4>2 DEF TypeInv, Layout, Total, Lead
      <4> QED BY <4>1, <4>2
    <3> QED BY <3>1, <3>2
  <2>2. CASE packets # <<>>
    BY <1>2, <1>3, <2>2 DEF StartAfter, TypeInv, Layout
  <2> QED BY <2>1, <2>2
<1> QED BY <1>2, <1>3, <1>4, <1>5

\* Every step keeps the client where a packet begins.
LEMMA FrameInvNext == FrameInv /\ [Next]_vars => FrameInv'
<1> SUFFICES ASSUME FrameInv, [Next]_vars PROVE FrameInv'
  OBVIOUS
<1>1. TypeInv /\ TypeInv'
  BY TypeInvNext DEF FrameInv
<1>2. /\ Len(log) \in Nat /\ Len(packets) \in Nat
      /\ rd \in Nat /\ filled \in Nat /\ written \in Nat /\ rd <= written
  BY <1>1, FrameTypes
<1>3. ASSUME UNCHANGED <<wireVars, base, log>>, Handshaken' => Handshaken,
             rd' - filled' = rd - filled
      PROVE  FrameInv'
  <2>1. StartAfter(Len(log))' = StartAfter(Len(log)) /\ Clean' = Clean
    BY <1>3 DEF StartAfter, Total, Clean, wireVars
  <2> QED BY <1>1, <1>3, <2>1 DEF FrameInv, Aligned, wireVars
<1>4. CASE Daemon
  BY <1>1, <1>4, DaemonAligned DEF FrameInv
<1>5. CASE HandshakeRead
  <2>1. CASE Available < REPLY_BYTES - rd
    BY <1>1, <1>5, <2>1 DEF HandshakeRead, KeepReading, FrameInv, Aligned, Handshaken
  <2>2. CASE ~(Available < REPLY_BYTES - rd)
    <3>1. Open(FirstWord) /\ written > 0
      BY <1>2, <1>5, <2>2 DEF HandshakeRead, Available
    <3> QED BY <1>1, <1>5, <3>1, OpenAligned DEF HandshakeRead, FrameInv
  <2> QED BY <2>1, <2>2
<1>6. CASE HandshakeTimeout
  <2>1. CASE rd = 0
    BY <1>1, <1>6, <2>1, OpenAligned DEF HandshakeTimeout, FrameInv
  <2>2. CASE rd # 0
    BY <1>1, <1>6, <2>2 DEF HandshakeTimeout, FrameInv, Aligned, Handshaken
  <2> QED BY <2>1, <2>2
<1>7. CASE HandshakeEof
  BY <1>1, <1>7 DEF HandshakeEof, FrameInv, Aligned, Handshaken
<1>8. CASE ReadPart
  <2>1. rd' - filled' = rd - filled
    BY <1>2, <1>8 DEF ReadPart, Available
  <2> QED BY <1>3, <1>8, <2>1 DEF ReadPart, Handshaken
<1>9. CASE ReadPacket
  <2>1. SUFFICES ASSUME Handshaken', Clean'
                 PROVE  /\ Len(log') <= Len(packets')
                        /\ rd' - filled' = StartAfter(Len(log))'
                        /\ \A k \in 1 .. Len(log') : log'[k] = k
    BY <1>1 DEF FrameInv, Aligned
  <2>2. UNCHANGED <<wireVars, base>> /\ Handshaken
    BY <1>9 DEF ReadPacket, Handshaken
  <2>3. Clean
    BY <2>1, <2>2 DEF Clean, wireVars
  <2>4. /\ Len(log) < Len(packets) /\ PacketAt(rd - filled) = Len(log) + 1
        /\ rd' - filled' = StartAfter(Len(log) + 1)
    BY <1>9, <2>2, <2>3, NextPacket
  <2>5. log \in Seq(0 .. MaxPackets) /\ Len(log) + 1 \in 0 .. MaxPackets
    BY <1>1, <2>4, PacketAtType DEF TypeInv, TypeOK, TypeOKHistory
  <2>6. log' = Append(log, Len(log) + 1)
    BY <1>9, <2>4 DEF ReadPacket
  <2>7. /\ Len(log') = Len(log) + 1 /\ log'[Len(log) + 1] = Len(log) + 1
        /\ \A k \in 1 .. Len(log) : log'[k] = log[k]
    BY <2>5, <2>6, AppendProperties
  <2>8. \A k \in 1 .. Len(log) : log[k] = k
    BY <2>2, <2>3 DEF FrameInv, Aligned
  <2>9. StartAfter(Len(log))' = StartAfter(Len(log) + 1)
    BY <2>2, <2>7 DEF StartAfter, Total, wireVars
  <2> QED BY <1>2, <2>2, <2>4, <2>7, <2>8, <2>9 DEF wireVars
<1>10. CASE ReadQuiet \/ ReadEof \/ Tick \/ Interrupted
  BY <1>3, <1>10
  DEF ReadQuiet, ReadEof, Tick, Interrupted, Return, KeepReading, PartKept, Handshaken
<1>11. CASE Call
  BY <1>3, <1>11
  DEF Call, PopQueued, ReadBlocking, ReadTimeout, Poll, BeginRead, Request,
      RequestFails, RequestCutOff, Handshaken
<1>12. CASE UNCHANGED vars
  BY <1>3, <1>12 DEF vars, wireVars, Handshaken
<1> QED BY <1>4, <1>5, <1>6, <1>7, <1>8, <1>9, <1>10, <1>11, <1>12
        DEF Next, ClientStep, Dropped

\* A connection that took exactly its answer in the handshake reads the packets
\* the daemon wrote, whole and in order: for packets of any size, and however
\* reads, timeouts, signals and requests cut the stream (fill_packet).
THEOREM FramesAlwaysWhole == Spec => []FramesWhole
<1>1. Init => FrameInv
  BY TypeInvInit DEF Init, FrameInv, Aligned, Handshaken
<1>2. FrameInv /\ [Next]_vars => FrameInv'
  BY FrameInvNext
<1>3. FrameInv => FramesWhole
  BY DEF FrameInv, Aligned, FramesWhole
<1> QED BY <1>1, <1>2, <1>3, PTL DEF Spec

-----------------------------------------------------------------------------
(* The events, and their order. *)

\* s is the events among the first n packets, by number, oldest first.
EventsUpTo(s, n) ==
  /\ \A j, k \in 1 .. Len(s) : j < k => s[j] < s[k]
  /\ {s[k] : k \in 1 .. Len(s)} = {m \in 1 .. n : packets[m].kind = "event"}

\* A read looks at the socket only when the queue is empty.
QueueFirst ==
  op \in {"handshake", "read_blocking", "read_timeout", "poll"} => queued = <<>>

OrderInv ==
  /\ FrameInv
  /\ QueueFirst
  /\ Handshaken /\ Clean => EventsUpTo(told \o queued, Len(log))

\* The next packet joins them if it is an event, at the end.
LEMMA EventJoins ==
  ASSUME NEW s \in Seq(0 .. MaxPackets), NEW n \in Nat, EventsUpTo(s, n),
         n + 1 \in 0 .. MaxPackets
  PROVE  /\ packets[n + 1].kind = "event" => EventsUpTo(Append(s, n + 1), n + 1)
         /\ packets[n + 1].kind # "event" => EventsUpTo(s, n + 1)
<1>1. Len(s) \in Nat /\ \A k \in 1 .. Len(s) : s[k] \in 1 .. n
  <2>1. \A k \in 1 .. Len(s) : s[k] \in {m \in 1 .. n : packets[m].kind = "event"}
    BY DEF EventsUpTo
  <2> QED BY <2>1, LenProperties
<1>2. CASE packets[n + 1].kind = "event"
  <2> DEFINE t == Append(s, n + 1)
  <2>1. /\ Len(t) = Len(s) + 1 /\ t[Len(s) + 1] = n + 1
        /\ \A k \in 1 .. Len(s) : t[k] = s[k]
    BY AppendProperties
  <2> HIDE DEF t
  <2>2. ASSUME NEW j \in 1 .. Len(t), NEW k \in 1 .. Len(t), j < k
        PROVE  t[j] < t[k]
    <3>1. CASE k = Len(s) + 1
      BY <1>1, <2>1, <2>2, <3>1
    <3>2. CASE k # Len(s) + 1
      BY <1>1, <2>1, <2>2, <3>2 DEF EventsUpTo
    <3> QED BY <3>1, <3>2
  <2>3. ASSUME NEW m
        PROVE  (\E k \in 1 .. Len(t) : t[k] = m)
                 <=> m \in 1 .. n + 1 /\ packets[m].kind = "event"
    <3>1. (\E k \in 1 .. Len(s) : s[k] = m) <=> m \in 1 .. n /\ packets[m].kind = "event"
      <4>1. m \in {s[k] : k \in 1 .. Len(s)}
              <=> m \in {i \in 1 .. n : packets[i].kind = "event"}
        BY DEF EventsUpTo
      <4> QED BY <4>1
    <3>2. (\E k \in 1 .. Len(t) : t[k] = m) <=> (\E k \in 1 .. Len(s) : s[k] = m) \/ m = n + 1
      BY <1>1, <2>1
    <3>3. m \in 1 .. n + 1 <=> m \in 1 .. n \/ m = n + 1
      OBVIOUS
    <3> QED BY <1>2, <3>1, <3>2, <3>3
  <2>4. {t[k] : k \in 1 .. Len(t)} = {m \in 1 .. n + 1 : packets[m].kind = "event"}
    BY <2>3
  <2> QED BY <1>2, <2>2, <2>4 DEF EventsUpTo, t
<1>3. CASE packets[n + 1].kind # "event"
  <2>1. {m \in 1 .. n + 1 : packets[m].kind = "event"}
          = {m \in 1 .. n : packets[m].kind = "event"}
    BY <1>3
  <2> QED BY <1>3, <2>1 DEF EventsUpTo
<1> QED BY <1>2, <1>3

\* Queueing an event puts it behind all that are known, and handing one out of
\* the queue to the application changes nothing of their order.
LEMMA QueueOrder ==
  ASSUME NEW S, NEW t \in Seq(S), NEW q \in Seq(S), NEW e \in S
  PROVE  /\ t \o Append(q, e) = Append(t \o q, e)
         /\ q # <<>> => Append(t, Head(q)) \o Tail(q) = t \o q
<1>1. Len(t) \in Nat /\ Len(q) \in Nat
  BY LenProperties
<1>2. t \o q \in Seq(S) /\ Len(t \o q) = Len(t) + Len(q)
      /\ \A i \in 1 .. Len(t) + Len(q) :
           (t \o q)[i] = IF i <= Len(t) THEN t[i] ELSE q[i - Len(t)]
  BY ConcatProperties
<1>3. t \o Append(q, e) = Append(t \o q, e)
  <2> DEFINE a == Append(q, e)  b == Append(t \o q, e)
  <2>1. /\ a \in Seq(S) /\ Len(a) = Len(q) + 1 /\ a[Len(q) + 1] = e
        /\ \A i \in 1 .. Len(q) : a[i] = q[i]
    BY AppendProperties
  <2>2. /\ b \in Seq(S) /\ Len(b) = Len(t \o q) + 1 /\ b[Len(t \o q) + 1] = e
        /\ \A i \in 1 .. Len(t \o q) : b[i] = (t \o q)[i]
    BY <1>2, AppendProperties
  <2> HIDE DEF a, b
  <2>3. /\ t \o a \in Seq(S) /\ Len(t \o a) = Len(t) + Len(a)
        /\ \A i \in 1 .. Len(t) + Len(a) :
             (t \o a)[i] = IF i <= Len(t) THEN t[i] ELSE a[i - Len(t)]
    BY <2>1, ConcatProperties
  <2>4. ASSUME NEW i \in 1 .. Len(t \o a)
        PROVE  (t \o a)[i] = b[i]
    <3>1. CASE i <= Len(t)
      <4>1. i \in 1 .. Len(t \o q) /\ i \in 1 .. Len(t) + Len(q)
            /\ i \in 1 .. Len(t) + Len(a)
        BY <1>1, <1>2, <2>1, <2>3, <3>1
      <4>2. (t \o a)[i] = t[i] /\ (t \o q)[i] = t[i]
        BY <1>2, <2>3, <3>1, <4>1
      <4>3. b[i] = (t \o q)[i]
        BY <2>2, <4>1
      <4> QED BY <4>2, <4>3
    <3>2. CASE i > Len(t) /\ i < Len(t \o a)
      <4>1. i - Len(t) \in 1 .. Len(q) /\ i \in 1 .. Len(t) + Len(q)
        BY <1>1, <2>1, <2>3, <3>2
      <4> QED BY <1>1, <1>2, <2>1, <2>2, <2>3, <3>2, <4>1
    <3>3. CASE i = Len(t \o a) /\ i > Len(t)
      BY <1>1, <1>2, <2>1, <2>2, <2>3, <3>3
    <3> QED BY <1>1, <2>1, <2>3, <3>1, <3>2, <3>3
  <2>5. Len(t \o a) = Len(b)
    BY <1>1, <1>2, <2>1, <2>2, <2>3
  <2>6. t \o a = b
    BY <2>2, <2>3, <2>4, <2>5, SeqEqual
  <2> QED BY <2>6 DEF a, b
<1>4. ASSUME q # <<>>
      PROVE  Append(t, Head(q)) \o Tail(q) = t \o q
  <2> DEFINE a == Append(t, Head(q))  c == Tail(q)
  <2>1. /\ Head(q) \in S /\ c \in Seq(S) /\ Len(c) = Len(q) - 1
        /\ \A i \in 1 .. Len(c) : c[i] = q[i + 1]
    BY <1>4, HeadTailProperties
  <2>2. Head(q) = q[1] /\ Len(q) >= 1
    BY <1>4, EmptySeq
  <2>3. /\ a \in Seq(S) /\ Len(a) = Len(t) + 1 /\ a[Len(t) + 1] = Head(q)
        /\ \A i \in 1 .. Len(t) : a[i] = t[i]
    BY <2>1, AppendProperties
  <2> HIDE DEF a, c
  <2>4. /\ a \o c \in Seq(S) /\ Len(a \o c) = Len(a) + Len(c)
        /\ \A i \in 1 .. Len(a) + Len(c) :
             (a \o c)[i] = IF i <= Len(a) THEN a[i] ELSE c[i - Len(a)]
    BY <2>1, <2>3, ConcatProperties
  <2>5. ASSUME NEW i \in 1 .. Len(a \o c)
        PROVE  (a \o c)[i] = (t \o q)[i]
    <3>1. i \in 1 .. Len(t) + Len(q)
      BY <1>1, <2>1, <2>3, <2>4
    <3>2. CASE i <= Len(t)
      BY <1>1, <1>2, <2>3, <2>4, <3>1, <3>2
    <3>3. CASE i = Len(t) + 1
      BY <1>1, <1>2, <2>2, <2>3, <2>4, <3>1, <3>3
    <3>4. CASE i > Len(t) + 1
      <4>1. i - Len(a) \in 1 .. Len(c) /\ i - Len(a) + 1 = i - Len(t)
        BY <1>1, <2>1, <2>3, <3>1, <3>4
      <4>2. (a \o c)[i] = c[i - Len(a)]
        BY <1>1, <2>1, <2>3, <2>4, <3>4
      <4>3. c[i - Len(a)] = q[i - Len(t)]
        BY <2>1, <4>1
      <4>4. (t \o q)[i] = q[i - Len(t)]
        BY <1>1, <1>2, <3>1, <3>4
      <4> QED BY <4>2, <4>3, <4>4
    <3> QED BY <1>1, <3>1, <3>2, <3>3, <3>4
  <2>6. Len(a \o c) = Len(t \o q)
    BY <1>1, <1>2, <2>1, <2>3, <2>4
  <2>7. a \o c = t \o q
    BY <1>2, <2>4, <2>5, <2>6, SeqEqual
  <2> QED BY <2>7 DEF a, c
<1> QED BY <1>3, <1>4

\* What a packet completed in step does to the events that are known.
LEMMA PacketOrder ==
  ASSUME OrderInv, Handshaken, Clean, ReadPacket
  PROVE  EventsUpTo(told \o queued, Len(log))'
<1> DEFINE n == Len(log) + 1
<1>1. TypeInv /\ FrameInv
  BY DEF OrderInv, FrameInv
<1>2. Len(log) < Len(packets) /\ PacketAt(rd - filled) = n
  BY <1>1, NextPacket
<1>3. n \in 0 .. MaxPackets /\ n # 0 /\ Len(log) \in Nat
  BY <1>1, <1>2, PacketAtType, FrameTypes
<1>4. /\ log \in Seq(0 .. MaxPackets)
      /\ told \in Seq(0 .. MaxPackets) /\ queued \in Seq(0 .. MaxPackets)
  BY <1>1 DEF TypeInv, TypeOK, TypeOKHistory, TypeOKClient
<1>5. told \o queued \in Seq(0 .. MaxPackets)
  BY <1>4, ConcatProperties
<1>6. Len(log') = n /\ packets' = packets
  BY <1>2, <1>3, <1>4, AppendProperties DEF ReadPacket, wireVars
<1>7. PICK kind \in KindsOf(n) :
        IF op = "request" THEN AwaitReply(n, kind) ELSE TakeEvent(n, kind)
  BY <1>2 DEF ReadPacket
<1>8. kind = packets[n].kind
  BY <1>3, <1>7 DEF KindsOf
<1>9. /\ kind = "event" => EventsUpTo(Append(told \o queued, n), n)
      /\ kind # "event" => EventsUpTo(told \o queued, n)
  BY <1>3, <1>5, <1>8, EventJoins DEF OrderInv
<1> HIDE DEF n
<1>10. /\ kind = "event" => told' \o queued' = Append(told \o queued, n)
       /\ kind # "event" => told' \o queued' = told \o queued
  <2>1. CASE op = "request"
    <3>1. told' = told
          /\ queued' = IF kind = "event" THEN Append(queued, n) ELSE queued
      BY <1>7, <2>1 DEF AwaitReply, QueuedWith
    <3> QED BY <1>3, <1>4, <3>1, QueueOrder
  <2>2. CASE op # "request"
    <3>1. queued = <<>>
      BY <2>2 DEF OrderInv, QueueFirst, ReadPacket
    <3>2. queued' = <<>> /\ told' = IF kind = "event" THEN Append(told, n) ELSE told
      BY <1>7, <2>2, <3>1 DEF TakeEvent
    <3>3. Append(told, n) \in Seq(0 .. MaxPackets)
      BY <1>3, <1>4, AppendProperties
    <3>4. /\ told \o <<>> = told /\ Append(told, n) \o <<>> = Append(told, n)
      BY <1>4, <3>3, ConcatEmptySeq
    <3> QED BY <3>1, <3>2, <3>4
  <2> QED BY <2>1, <2>2
<1>11. EventsUpTo(told' \o queued', n)
  BY <1>9, <1>10, Zenon
<1> QED BY <1>6, <1>11, Zenon DEF EventsUpTo

\* The queue is empty whenever a read, and not a request, is under way.
LEMMA QueueFirstNext ==
  ASSUME OrderInv, Next
  PROVE  QueueFirst'
<1> USE DEF QueueFirst
<1>1. QueueFirst
  BY DEF OrderInv
<1>2. CASE Daemon
  BY <1>1, <1>2 DEF Daemon
<1>3. CASE HandshakeRead \/ HandshakeTimeout \/ HandshakeEof
  BY <1>1, <1>3
  DEF HandshakeRead, HandshakeTimeout, HandshakeEof, Open, Return, KeepReading
<1>4. CASE ReadPart \/ ReadQuiet \/ ReadEof \/ Tick \/ Interrupted
  BY <1>1, <1>4 DEF ReadPart, ReadQuiet, ReadEof, Tick, Interrupted, Return, KeepReading
<1>5. CASE ReadPacket
  <2>1. PICK n, kind : IF op = "request" THEN AwaitReply(n, kind) ELSE TakeEvent(n, kind)
    BY <1>5 DEF ReadPacket
  <2>2. CASE op = "request"
    BY <2>1, <2>2 DEF AwaitReply, Return, KeepReading
  <2>3. CASE op # "request"
    BY <1>1, <1>5, <2>1, <2>3 DEF TakeEvent, Return, KeepReading, ReadPacket
  <2> QED BY <2>2, <2>3
<1>6. CASE PopQueued \/ RequestFails \/ RequestCutOff \/ Request
  BY <1>6 DEF PopQueued, RequestFails, RequestCutOff, Request, Return
<1>7. CASE ReadBlocking \/ ReadTimeout \/ Poll
  BY <1>7 DEF ReadBlocking, ReadTimeout, Poll, BeginRead, NothingQueued
<1>8. CASE Dropped
  BY <1>1, <1>8 DEF Dropped, vars
<1> QED BY <1>2, <1>3, <1>4, <1>5, <1>6, <1>7, <1>8 DEF Next, ClientStep, Call

\* Every step keeps the events in their order.
LEMMA OrderInvNext == OrderInv /\ [Next]_vars => OrderInv'
<1> SUFFICES ASSUME OrderInv, [Next]_vars PROVE OrderInv'
  OBVIOUS
<1>1. TypeInv /\ FrameInv /\ FrameInv'
  BY FrameInvNext DEF OrderInv, FrameInv
<1>2. QueueFirst'
  BY QueueFirstNext DEF OrderInv, QueueFirst, vars
<1>3. Len(log) \in Nat /\ Len(packets) \in Nat
  BY <1>1, FrameTypes
<1>4. ASSUME Handshaken' => Handshaken, UNCHANGED <<daemon, base, log>>,
             told' \o queued' = told \o queued,
             Handshaken /\ Clean =>
               \A i \in 1 .. Len(log) : packets'[i].kind = packets[i].kind
      PROVE  OrderInv'
  <2>1. Clean' = Clean
    BY <1>4 DEF Clean
  <2>2. SUFFICES ASSUME Handshaken', Clean'
                 PROVE  EventsUpTo(told \o queued, Len(log))'
    BY <1>1, <1>2 DEF OrderInv
  <2>3. /\ EventsUpTo(told \o queued, Len(log))
        /\ \A i \in 1 .. Len(log) : packets'[i].kind = packets[i].kind
    BY <1>4, <2>1, <2>2 DEF OrderInv
  <2>4. {m \in 1 .. Len(log) : packets'[m].kind = "event"}
          = {m \in 1 .. Len(log) : packets[m].kind = "event"}
    BY <2>3
  <2> DEFINE events == told \o queued
             n == Len(log)
  <2>5. events' = events /\ n' = n
    BY <1>4
  <2>6. /\ \A j, k \in 1 .. Len(events) : j < k => events[j] < events[k]
        /\ {events[k] : k \in 1 .. Len(events)}
             = {m \in 1 .. n : packets'[m].kind = "event"}
    BY <2>3, <2>4 DEF EventsUpTo
  <2> HIDE DEF events, n
  <2>7. EventsUpTo(events, n)'
    BY <2>5, <2>6 DEF EventsUpTo
  <2> QED BY <2>7 DEF events, n
<1>5. CASE Daemon
  <2>1. UNCHANGED <<op, daemon, base, log, told, queued>>
    BY <1>5 DEF Daemon, DaemonEvent, DaemonReply, DaemonHello, DaemonContinues,
                DaemonCloses, WritePacket
  <2>2. Handshaken /\ Clean => Len(log) <= Len(packets)
    BY <1>1 DEF FrameInv, Aligned
  <2>3. ASSUME NEW kind, NEW type, WritePacket(kind, type)
        PROVE  \A i \in 1 .. Len(packets) : packets'[i] = packets[i]
    <3>1. packets' = Append(packets, [kind |-> kind, type |-> type, start |-> Total])
      BY <2>3 DEF WritePacket
    <3>2. packets \in Seq(Packet)
      BY <1>1 DEF TypeInv, TypeOK, TypeOKWire
    <3> QED BY <3>1, <3>2
  <2>4. \A i \in 1 .. Len(packets) : packets'[i] = packets[i]
    BY <1>5, <2>3 DEF Daemon, DaemonEvent, DaemonReply, DaemonHello, DaemonContinues,
                      DaemonCloses
  <2>5. Handshaken /\ Clean => \A i \in 1 .. Len(log) : packets'[i].kind = packets[i].kind
    BY <1>3, <2>2, <2>4
  <2> QED BY <1>4, <2>1, <2>5 DEF Handshaken
<1>6. ASSUME NEW v, Open(v), op = "handshake", UNCHANGED <<told, queued, log>>
      PROVE  OrderInv'
  <2>1. told = <<>> /\ queued = <<>> /\ log = <<>>
    BY <1>1, <1>6 DEF TypeInv, Opening
  <2>2. told \o queued = <<>> /\ Len(log) = 0 /\ Len(<<>>) = 0
    BY <2>1, EmptySeq, ConcatEmptySeq
  <2>3. EventsUpTo(told \o queued, Len(log))'
    BY <1>6, <2>2 DEF EventsUpTo
  <2> QED BY <1>1, <1>2, <2>3 DEF OrderInv
<1>7. CASE HandshakeRead \/ HandshakeTimeout \/ HandshakeEof
  <2>1. UNCHANGED <<told, queued, log>> /\ op = "handshake"
    BY <1>7 DEF HandshakeRead, HandshakeTimeout, HandshakeEof
  <2>2. CASE \E v : Open(v)
    BY <1>6, <2>1, <2>2
  <2>3. CASE ~ \E v : Open(v)
    <3>1. op' \in {"handshake", "dropped"}
      BY <1>7, <2>3 DEF HandshakeRead, HandshakeTimeout, HandshakeEof, KeepReading
    <3> QED BY <1>1, <1>2, <3>1 DEF OrderInv, Handshaken
  <2> QED BY <2>2, <2>3
<1>8. CASE ReadPacket
  <2>1. Handshaken /\ Clean' = Clean
    BY <1>8 DEF ReadPacket, Handshaken, Clean, wireVars
  <2> QED BY <1>1, <1>2, <1>8, <2>1, PacketOrder DEF OrderInv
<1>9. CASE ReadPart \/ ReadQuiet \/ ReadEof \/ Tick \/ Interrupted
  <2>1. UNCHANGED <<wireVars, base, log, told, queued>> /\ op' \in {op, "idle"}
        /\ op # "dropped" /\ (op = "handshake" => op' = op)
    BY <1>9 DEF ReadPart, ReadQuiet, ReadEof, Tick, Interrupted, Return, KeepReading, Waiting
  <2> QED BY <1>4, <2>1 DEF wireVars, Handshaken
<1>10. CASE PopQueued
  <2>1. told' \o queued' = told \o queued
    <3>1. told \in Seq(0 .. MaxPackets) /\ queued \in Seq(0 .. MaxPackets)
          /\ queued # <<>>
      BY <1>1, <1>10 DEF TypeInv, TypeOK, TypeOKHistory, TypeOKClient, PopQueued
    <3>2. Head(queued) \in 0 .. MaxPackets
      BY <3>1, HeadTailProperties
    <3> QED BY <1>10, <3>1, <3>2, QueueOrder DEF PopQueued
  <2> QED BY <1>4, <1>10, <2>1 DEF PopQueued, wireVars, Handshaken
<1>11. CASE ReadBlocking \/ ReadTimeout \/ Poll \/ Request \/ RequestFails
            \/ RequestCutOff
  <2>1. UNCHANGED <<wireVars, base, log, told, queued>> /\ op = "idle"
    BY <1>11 DEF ReadBlocking, ReadTimeout, Poll, BeginRead, Request, RequestFails,
                 RequestCutOff
  <2> QED BY <1>4, <2>1 DEF wireVars, Handshaken
<1>12. CASE UNCHANGED vars
  BY <1>4, <1>12 DEF vars, wireVars, Handshaken
<1> QED BY <1>5, <1>7, <1>8, <1>9, <1>10, <1>11, <1>12
        DEF Next, ClientStep, Call, Dropped

\* Every well-formed event of the packets taken is with the application or in
\* the queue, once and in order, whatever requests came between: await_reply
\* loses none and the reads overtake none.
THEOREM EventsStayInOrder == Spec => []EventsInOrder
<1>1. Init => OrderInv
  <2> SUFFICES ASSUME Init PROVE OrderInv
    OBVIOUS
  <2>1. FrameInv
    BY TypeInvInit DEF Init, FrameInv, Aligned, Handshaken
  <2> QED BY <2>1 DEF Init, OrderInv, QueueFirst, Handshaken
<1>2. OrderInv /\ [Next]_vars => OrderInv'
  BY OrderInvNext
<1>3. OrderInv => EventsInOrder
  BY DEF OrderInv, EventsUpTo, EventsInOrder
<1> QED BY <1>1, <1>2, <1>3, PTL DEF Spec

-----------------------------------------------------------------------------
(* Time. *)

\* A call in progress counts at least the ticks of its last read, and its mode
\* holds its limit.
WaitInv ==
  /\ ModeInv
  /\ waited <= elapsed \/ elapsed = MaxElapsed
  /\ op = "read_timeout" => mode.kind = "Deadline" /\ mode.wait \in Timeouts
  /\ op = "request" => mode = Deadline(REQUEST_TIMEOUT)

\* Every step keeps the clocks in step with each other.
LEMMA WaitInvNext == WaitInv /\ [Next]_vars => WaitInv'
<1> SUFFICES ASSUME WaitInv, [Next]_vars PROVE WaitInv'
  OBVIOUS
<1>1. ModeInv'
  BY ModeInvNext DEF WaitInv
<1>2. /\ waited \in Nat /\ elapsed \in 0 .. MaxElapsed /\ MaxElapsed \in Nat
      /\ waited <= elapsed \/ elapsed = MaxElapsed
      /\ op \in ReadOps \cup {"idle", "handshake", "dropped"}
  BY DurationsAssumption DEF WaitInv, ModeInv, TypeInv, TypeOK, TypeOKClient
<1>3. ASSUME UNCHANGED mode, op' \in {op, "idle"},
             (waited' = 0 /\ elapsed' \in Nat) \/ UNCHANGED <<waited, elapsed>>
      PROVE  WaitInv'
  BY <1>1, <1>2, <1>3 DEF WaitInv
<1>4. CASE Daemon
  BY <1>3, <1>4 DEF Daemon, modeVars
<1>5. CASE HandshakeRead \/ HandshakeTimeout \/ HandshakeEof
  <2>1. waited' = 0 /\ elapsed' \in Nat /\ op' \in {"handshake", "idle", "dropped"}
    BY <1>2, <1>5
    DEF HandshakeRead, HandshakeTimeout, HandshakeEof, Open, Return, KeepReading
  <2> QED BY <1>1, <2>1 DEF WaitInv
<1>6. CASE ReadPart \/ ReadQuiet \/ ReadEof \/ Interrupted
  BY <1>2, <1>3, <1>6
  DEF ReadPart, ReadQuiet, ReadEof, Interrupted, Return, KeepReading, modeVars
<1>7. CASE ReadPacket
  <2>1. PICK n, kind : IF op = "request" THEN AwaitReply(n, kind) ELSE TakeEvent(n, kind)
    BY <1>7 DEF ReadPacket
  <2>2. CASE op = "request"
    BY <1>2, <1>3, <1>7, <2>1, <2>2 DEF AwaitReply, Return, KeepReading, ReadPacket, modeVars
  <2>3. CASE op # "request"
    <3>1. Return("event") \/ Return("Protocol") \/ KeepReading
      BY <2>1, <2>3 DEF TakeEvent
    <3> QED BY <1>2, <1>3, <1>7, <3>1 DEF Return, KeepReading, ReadPacket, modeVars
  <2> QED BY <2>2, <2>3
<1>8. CASE Tick
  <2>1. /\ waited' = waited + 1
        /\ elapsed' = IF elapsed < MaxElapsed THEN elapsed + 1 ELSE elapsed
        /\ UNCHANGED <<mode, op>>
    BY <1>8 DEF Tick, modeVars
  <2> QED BY <1>1, <1>2, <2>1 DEF WaitInv
<1>9. CASE PopQueued \/ RequestFails
  BY <1>2, <1>3, <1>9 DEF PopQueued, RequestFails, Return, modeVars
<1>10. ASSUME NEW o \in ReadOps, NEW m, BeginRead(o, m),
              o = "read_timeout" => m.kind = "Deadline" /\ m.wait \in Timeouts,
              o # "request"
       PROVE  WaitInv'
  <2>1. CASE SetMode(m) /\ op' = o /\ UNCHANGED <<waited, elapsed, result>>
    <3>1. mode' = m
      BY <2>1 DEF SetMode, SameMode, modeVars
    <3> QED BY <1>1, <1>2, <1>10, <2>1, <3>1 DEF WaitInv
  <2>2. CASE SetModeFails(m) /\ Return("Disconnected")
    BY <1>2, <1>3, <2>2 DEF SetModeFails, ModeAfterFailure, Return
  <2> QED BY <1>10, <2>1, <2>2 DEF BeginRead
<1>11. CASE ReadBlocking
  BY <1>10, <1>11 DEF ReadBlocking
<1>12. CASE ReadTimeout
  BY <1>10, <1>12 DEF ReadTimeout, Deadline
<1>13. CASE Poll
  BY <1>10, <1>13 DEF Poll
<1>14. CASE Request
  BY <1>1, <1>2, <1>14 DEF Request, SetMode, SameMode, modeVars, WaitInv
<1>15. CASE RequestCutOff
  BY <1>2, <1>3, <1>15 DEF RequestCutOff, SetModeFails, ModeAfterFailure, Return
<1>16. CASE UNCHANGED vars
  BY <1>2, <1>3, <1>16 DEF vars, modeVars
<1> QED BY <1>4, <1>5, <1>6, <1>7, <1>8, <1>9, <1>11, <1>12, <1>13, <1>14, <1>15, <1>16
        DEF Next, ClientStep, Call, Dropped

\* A read that comes back with nothing had waited its whole timeout.
LEMMA QuietWaited ==
  ASSUME WaitInv, ReadQuiet, op \in {"read_timeout", "request"}
  PROVE  elapsed >= mode.wait /\ (op = "request" => mode.wait = REQUEST_TIMEOUT)
<1>1. mode.kind = "Deadline"
      /\ mode.wait \in Timeouts \cup {HANDSHAKE_TIMEOUT, REQUEST_TIMEOUT}
      /\ (op = "request" => mode.wait = REQUEST_TIMEOUT)
  BY DEF WaitInv, Deadline
<1>2. Handshaken /\ mode # Nonblocking
  BY <1>1 DEF Handshaken, Nonblocking
<1>3. sock = SocketFor(mode)
  BY <1>2 DEF WaitInv, ModeInv, ModeAgrees
<1>4. sock.nonblocking = FALSE /\ sock.timeout = mode.wait
  BY <1>1, <1>3 DEF SocketFor
<1>5. waited >= mode.wait
  BY <1>4 DEF ReadQuiet
<1>6. mode.wait \in Nat /\ mode.wait < MaxElapsed /\ MaxElapsed \in Nat
  BY <1>1, DurationsAssumption
<1>7. waited \in Nat /\ elapsed \in Nat
  BY DEF WaitInv, ModeInv, TypeInv, TypeOK, TypeOKClient
<1> QED BY <1>1, <1>5, <1>6, <1>7 DEF WaitInv

\* What a step of a call with a time limit may come back with.
LEMMA QuietReturns ==
  ASSUME [Next]_vars, op \in {"read_timeout", "request"}, op' = "idle",
         result' \in {"empty", "Timeout"}
  PROVE  ReadQuiet
<1>1. CASE Daemon
  BY <1>1 DEF Daemon
<1>2. CASE HandshakeRead \/ HandshakeTimeout \/ HandshakeEof
  BY <1>2 DEF HandshakeRead, HandshakeTimeout, HandshakeEof
<1>3. CASE ReadPart \/ ReadEof \/ Tick \/ Interrupted
  BY <1>3 DEF ReadPart, ReadEof, Tick, Interrupted, Return, KeepReading
<1>4. CASE ReadPacket
  <2>1. PICK n, kind : IF op = "request" THEN AwaitReply(n, kind) ELSE TakeEvent(n, kind)
    BY <1>4 DEF ReadPacket
  <2>2. CASE op = "request"
    BY <2>1, <2>2 DEF AwaitReply, Return, KeepReading
  <2>3. CASE op # "request"
    <3>1. Return("event") \/ Return("Protocol") \/ KeepReading
      BY <2>1, <2>3 DEF TakeEvent
    <3> QED BY <3>1 DEF Return, KeepReading
  <2> QED BY <2>2, <2>3
<1>5. CASE Call
  BY <1>5 DEF Call, PopQueued, ReadBlocking, ReadTimeout, Poll, BeginRead, Request,
              RequestFails, RequestCutOff
<1>6. CASE UNCHANGED vars
  BY <1>6 DEF vars
<1> QED BY <1>1, <1>2, <1>3, <1>4, <1>5, <1>6 DEF Next, ClientStep, Dropped

\* No call with a time limit gives up before its limit, for all durations: not
\* by the timeout an earlier call left on the socket, and not by a signal.
THEOREM GivesUpNoEarlier == Spec => NeverGivesUpEarly
<1>1. Init => WaitInv
  BY TypeInvInit
  DEF Init, WaitInv, ModeInv, ModeWait, ModeAgrees, Handshaken, Blocking
<1>2. WaitInv /\ [Next]_vars => WaitInv'
  BY WaitInvNext
<1>3. WaitInv /\ [Next]_vars =>
        [/\ op = "read_timeout" /\ op' = "idle" /\ result' = "empty"
              => elapsed >= mode.wait
         /\ op = "request" /\ op' = "idle" /\ result' = "Timeout"
              => elapsed >= REQUEST_TIMEOUT]_vars
  BY QuietReturns, QuietWaited
<1> QED BY <1>1, <1>2, <1>3, PTL DEF Spec, NeverGivesUpEarly

-----------------------------------------------------------------------------
(***************************************************************************)
(* SpnavStream implements EventChannel: under the mapping Channel, every     *)
(* step of the daemon and the client is a step of the channel or none.       *)
(***************************************************************************)

\* What the mapping gives for `sent' and `clean'.
SentKinds == [i \in 1 .. Len(packets) |-> packets[i].kind]
Promised == Handshaken => Clean

-----------------------------------------------------------------------------
(* Sending. *)

\* The kinds of packets are as many as the packets.
LEMMA KindsType ==
  ASSUME NEW ps \in Seq(Packet)
  PROVE  LET kinds == [i \in 1 .. Len(ps) |-> ps[i].kind]
         IN  kinds \in Seq(Channel!Kind) /\ Len(kinds) = Len(ps)
<1> DEFINE kinds == [i \in 1 .. Len(ps) |-> ps[i].kind]
<1>1. Len(ps) \in Nat /\ \A i \in 1 .. Len(ps) : ps[i] \in Packet
  BY LenProperties, ElementOfSeq
<1>2. kinds \in [1 .. Len(ps) -> Channel!Kind]
  BY <1>1 DEF Packet, Channel!Kind
<1>3. kinds \in Seq(Channel!Kind)
  BY <1>1, <1>2, SeqDef
<1>4. DOMAIN kinds = 1 .. Len(ps)
  OBVIOUS
<1> QED BY <1>1, <1>3, <1>4, LenProperties

\* What the mapping gives is a sequence of kinds, one for each packet.
LEMMA SentType ==
  ASSUME TypeInv
  PROVE  SentKinds \in Seq(Channel!Kind) /\ Len(SentKinds) = Len(packets)
BY KindsType DEF SentKinds, TypeInv, TypeOK, TypeOKWire

\* A packet the daemon begins is one more, of its kind.
LEMMA PacketSent ==
  ASSUME TypeInv, TypeInv', NEW kind \in {"event", "bad", "reply"}, NEW type \in 0 .. 6,
         WritePacket(kind, type), rd' = rd
  PROVE  SentKinds' = Append(SentKinds, kind)
<1> DEFINE next == Append(SentKinds, kind)
<1>1. /\ Len(packets') = Len(packets) + 1
      /\ packets'[Len(packets) + 1].kind = kind
      /\ \A i \in 1 .. Len(packets) : packets'[i] = packets[i]
  BY WritePacketLayout DEF TypeInv, TypeOK
<1>2. /\ SentKinds \in Seq(Channel!Kind) /\ Len(SentKinds) = Len(packets)
      /\ SentKinds' \in Seq(Channel!Kind) /\ Len(SentKinds') = Len(packets')
      /\ Len(packets) \in Nat
  <2>1. SentKinds \in Seq(Channel!Kind) /\ Len(SentKinds) = Len(packets)
    BY SentType
  <2>2. SentKinds' \in Seq(Channel!Kind) /\ Len(SentKinds') = Len(packets')
    BY KindsType DEF SentKinds, TypeInv, TypeOK, TypeOKWire
  <2> QED BY <2>1, <2>2, TotalType DEF TypeInv, TypeOK
<1>3. kind \in Channel!Kind
  BY DEF Channel!Kind
<1>4. /\ next \in Seq(Channel!Kind) /\ Len(next) = Len(SentKinds) + 1
      /\ next[Len(SentKinds) + 1] = kind
      /\ \A i \in 1 .. Len(SentKinds) : next[i] = SentKinds[i]
  BY <1>2, <1>3, AppendProperties
<1>5. ASSUME NEW i \in 1 .. Len(SentKinds')
      PROVE  SentKinds'[i] = next[i]
  <2>1. SentKinds'[i] = packets'[i].kind
    BY <1>2, <1>5 DEF SentKinds
  <2>2. CASE i = Len(packets) + 1
    BY <1>1, <1>2, <1>4, <2>1, <2>2
  <2>3. CASE i # Len(packets) + 1
    <3>1. i \in 1 .. Len(packets)
      BY <1>1, <1>2, <1>5, <2>3
    <3>2. next[i] = packets[i].kind
      BY <1>2, <1>4, <3>1 DEF SentKinds
    <3> QED BY <1>1, <2>1, <3>1, <3>2
  <2> QED BY <2>2, <2>3
<1> HIDE DEF next
<1>6. SentKinds' = next
  BY <1>1, <1>2, <1>4, <1>5, SeqEqual
<1> QED BY <1>6 DEF next

-----------------------------------------------------------------------------
(* Delivering. *)

\* The events among the first n packets that are not in t.
Missing(t, n) ==
  {m \in 1 .. n : packets[m].kind = "event" /\ \A k \in 1 .. Len(t) : t[k] # m}

\* Of the events not handed out, the queue's first is the oldest.
LEMMA QueueHeadOldest ==
  ASSUME NEW t \in Seq(0 .. MaxPackets), NEW q \in Seq(0 .. MaxPackets), q # <<>>,
         NEW n \in Nat, EventsUpTo(t \o q, n)
  PROVE  Head(q) \in Missing(t, n) /\ \A m \in Missing(t, n) : Head(q) <= m
<1> DEFINE s == t \o q
<1>1. /\ Len(t) \in Nat /\ Len(q) \in Nat /\ Len(q) >= 1 /\ Head(q) = q[1]
      /\ Len(s) = Len(t) + Len(q)
      /\ \A i \in 1 .. Len(t) + Len(q) : s[i] = IF i <= Len(t) THEN t[i] ELSE q[i - Len(t)]
  BY EmptySeq, LenProperties, ConcatProperties
<1> HIDE DEF s
<1>2. /\ \A j, k \in 1 .. Len(s) : j < k => s[j] < s[k]
      /\ \A m : m \in {s[k] : k \in 1 .. Len(s)}
                  <=> m \in {i \in 1 .. n : packets[i].kind = "event"}
  BY Zenon DEF EventsUpTo, s
<1>3. \A k \in 1 .. Len(s) : s[k] \in 1 .. n /\ packets[s[k]].kind = "event"
  BY <1>2
<1>4. s[Len(t) + 1] = Head(q) /\ Len(t) + 1 \in 1 .. Len(s)
  BY <1>1
<1>5. \A k \in 1 .. Len(t) : s[k] = t[k] /\ k \in 1 .. Len(s)
  BY <1>1
<1>6. ASSUME NEW k \in 1 .. Len(t)
      PROVE  t[k] # Head(q)
  <2>1. s[k] < s[Len(t) + 1] /\ s[k] \in 1 .. n /\ s[Len(t) + 1] \in 1 .. n
    BY <1>1, <1>2, <1>3, <1>4, <1>5
  <2> QED BY <2>1, <1>4, <1>5
<1>7. ASSUME NEW m \in Missing(t, n)
      PROVE  Head(q) <= m
  <2>1. m \in 1 .. n /\ packets[m].kind = "event" /\ \A k \in 1 .. Len(t) : t[k] # m
    BY <1>7 DEF Missing
  <2>2. PICK k \in 1 .. Len(s) : s[k] = m
    BY <1>2, <2>1
  <2>3. k >= Len(t) + 1
    BY <1>1, <1>5, <2>1, <2>2
  <2>4. k = Len(t) + 1 \/ s[Len(t) + 1] < s[k]
    BY <1>1, <1>2, <1>4, <2>3
  <2> QED BY <1>3, <1>4, <2>2, <2>4
<1> QED BY <1>3, <1>4, <1>6, <1>7 DEF Missing

\* With every event before it handed out, the next one is the oldest that is not.
LEMMA NextEventOldest ==
  ASSUME NEW t \in Seq(0 .. MaxPackets), NEW n \in Nat, EventsUpTo(t, n),
         packets[n + 1].kind = "event"
  PROVE  n + 1 \in Missing(t, n + 1) /\ \A m \in Missing(t, n + 1) : n + 1 <= m
<1>1. \A m : m \in {t[k] : k \in 1 .. Len(t)}
               <=> m \in {i \in 1 .. n : packets[i].kind = "event"}
  BY Zenon DEF EventsUpTo
<1>2. n + 1 \in Missing(t, n + 1)
  <2>1. \A k \in 1 .. Len(t) : t[k] \in 1 .. n
    BY <1>1
  <2> QED BY <2>1 DEF Missing
<1>3. ASSUME NEW m \in Missing(t, n + 1)
      PROVE  m = n + 1
  BY <1>1, <1>3 DEF Missing
<1> QED BY <1>2, <1>3

\* The channel delivers what is oldest of what is missing.
LEMMA Delivered ==
  ASSUME TypeInv, NEW n \in Nat, n <= Len(packets), NEW e \in Missing(told, n),
         \A m \in Missing(told, n) : e <= m, told' = Append(told, e)
  PROVE  Channel!Deliver(n)
<1>1. Len(packets) \in Nat
  BY TotalType DEF TypeInv, TypeOK
<1>2. \A m \in 1 .. n : SentKinds[m] = packets[m].kind
  BY <1>1 DEF SentKinds
<1>3. Channel!Undelivered(n) = Missing(told, n)
  BY <1>2 DEF Channel!Undelivered, Missing, SentKinds
<1> QED BY <1>3 DEF Channel!Deliver

-----------------------------------------------------------------------------
(* The steps. *)

\* A step in which neither side of the channel does anything.
LEMMA ChannelStutters ==
  ASSUME UNCHANGED <<packets, log, told>>, Promised' = Promised
  PROVE  UNCHANGED Channel!vars
BY DEF Channel!vars, Promised

\* What a client whose handshake went out of step does is the channel's affair no
\* longer.
LEMMA ChannelSpoilt ==
  ASSUME ~Promised, UNCHANGED packets, Promised' = Promised
  PROVE  Channel!Spoilt
BY DEF Channel!Spoilt, Promised

\* The promise depends on the handshake alone.
LEMMA PromiseKept ==
  ASSUME UNCHANGED <<daemon, base>>, Handshaken' = Handshaken
  PROVE  Promised' = Promised
BY DEF Promised, Clean

\* A step of the daemon sends a packet, or concerns the socket only.
LEMMA DaemonRefines ==
  ASSUME TypeInv, TypeInv', Daemon
  PROVE  Channel!Send \/ UNCHANGED Channel!vars
<1>1. UNCHANGED <<op, base, rd, log, told, daemon>>
  BY DEF Daemon, DaemonEvent, DaemonReply, DaemonHello, DaemonContinues, DaemonCloses,
         WritePacket
<1>2. Promised' = Promised
  BY <1>1, PromiseKept DEF Handshaken
<1>3. ASSUME NEW kind \in {"event", "bad", "reply"}, NEW type \in 0 .. 6,
             WritePacket(kind, type)
      PROVE  Channel!Send
  <2>1. SentKinds' = Append(SentKinds, kind)
    BY <1>1, <1>3, PacketSent
  <2>2. kind \in Channel!Kind
    BY DEF Channel!Kind
  <2> QED BY <1>1, <1>2, <2>1, <2>2 DEF Channel!Send, SentKinds, Promised
<1>4. CASE DaemonEvent
  BY <1>3, <1>4, BoundsAssumption DEF DaemonEvent
<1>5. CASE DaemonReply
  BY <1>3, <1>5 DEF DaemonReply
<1>6. CASE DaemonHello \/ DaemonContinues \/ DaemonCloses
  <2>1. UNCHANGED packets
    BY <1>6 DEF DaemonHello, DaemonContinues, DaemonCloses
  <2> QED BY <1>1, <1>2, <2>1, ChannelStutters
<1> QED BY <1>4, <1>5, <1>6 DEF Daemon

\* A handshake opens the connection in step or out of it, or fails.
LEMMA HandshakeRefines ==
  ASSUME TypeInv, HandshakeRead \/ HandshakeTimeout \/ HandshakeEof
  PROVE  Channel!Spoil \/ UNCHANGED Channel!vars
<1>1. UNCHANGED <<packets, log, told>> /\ Promised
  BY DEF HandshakeRead, HandshakeTimeout, HandshakeEof, wireVars, Promised, Handshaken
<1>2. Len(log) = 0
  BY EmptySeq DEF TypeInv, Opening, HandshakeRead, HandshakeTimeout, HandshakeEof
<1>3. CASE Promised'
  BY <1>1, <1>3, ChannelStutters
<1>4. CASE ~Promised'
  BY <1>1, <1>2, <1>4 DEF Channel!Spoil, Promised
<1> QED BY <1>3, <1>4

\* A packet completed is taken, and handed out at once if a read completed it and
\* it is an event.
LEMMA ReadPacketRefines ==
  ASSUME OrderInv, ReadPacket
  PROVE  Channel!Step \/ Channel!Spoilt
<1> DEFINE n == Len(log) + 1
<1>1. TypeInv /\ FrameInv
  BY DEF OrderInv, FrameInv
<1>2. Handshaken /\ UNCHANGED <<packets, base, daemon>>
  BY DEF ReadPacket, Handshaken, wireVars
<1>3. Handshaken'
  <2>1. PICK i, kind : IF op = "request" THEN AwaitReply(i, kind) ELSE TakeEvent(i, kind)
    BY DEF ReadPacket
  <2> QED BY <1>2, <2>1 DEF AwaitReply, TakeEvent, Return, KeepReading, Handshaken
<1>4. Promised' = Promised
  BY <1>2, <1>3, PromiseKept
<1>5. CASE ~Promised
  BY <1>2, <1>4, <1>5, ChannelSpoilt
<1>6. CASE Promised
  <2>1. Clean
    BY <1>2, <1>6 DEF Promised
  <2>2. Len(log) < Len(packets) /\ PacketAt(rd - filled) = n
    BY <1>1, <1>2, <2>1, NextPacket
  <2>3. /\ Len(log) \in Nat /\ Len(packets) \in Nat /\ n \in 0 .. MaxPackets /\ n # 0
        /\ n \in Nat /\ n <= Len(packets)
    BY <1>1, <2>2, PacketAtType, FrameTypes
  <2>4. Len(log') = n
    <3>1. log \in Seq(0 .. MaxPackets)
      BY <1>1 DEF TypeInv, TypeOK, TypeOKHistory
    <3> QED BY <2>2, <2>3, <3>1, AppendProperties DEF ReadPacket
  <2>5. PICK kind \in KindsOf(n) :
          IF op = "request" THEN AwaitReply(n, kind) ELSE TakeEvent(n, kind)
    BY <2>2 DEF ReadPacket
  <2>6. kind = packets[n].kind
    BY <2>3, <2>5 DEF KindsOf
  <2> HIDE DEF n
  <2>7. told' = told \/ Channel!Deliver(n)
    <3>1. CASE op = "request" \/ kind # "event"
      BY <2>5, <3>1 DEF AwaitReply, TakeEvent
    <3>2. CASE op # "request" /\ kind = "event"
      <4>1. told' = Append(told, n)
        BY <2>5, <3>2 DEF TakeEvent
      <4>2. queued = <<>> /\ told \in Seq(0 .. MaxPackets)
        BY <1>1, <3>2
        DEF OrderInv, QueueFirst, ReadPacket, TypeInv, TypeOK, TypeOKHistory
      <4>3. told \o queued = told
        BY <4>2, ConcatEmptySeq
      <4>4. EventsUpTo(told, Len(log))
        BY <1>2, <2>1, <4>3 DEF OrderInv
      <4>5. n \in Missing(told, n) /\ \A m \in Missing(told, n) : n <= m
        BY <2>3, <2>6, <3>2, <4>2, <4>4, NextEventOldest DEF n
      <4> QED BY <1>1, <2>3, <4>1, <4>5, Delivered
    <3> QED BY <3>1, <3>2
  <2>8. Channel!Take
    <3>1. Len(SentKinds) = Len(packets)
      BY <1>1, SentType
    <3> QED BY <2>2, <2>4, <3>1 DEF Channel!Take, SentKinds, n
  <2>9. UNCHANGED <<SentKinds, Promised>>
    BY <1>2, <1>4 DEF SentKinds
  <2>10. Channel!Step
    BY <1>6, <2>7, <2>8, <2>9 DEF Channel!Step, SentKinds, Promised, n
  <2> QED BY <2>10
<1> QED BY <1>5, <1>6

\* An event out of the queue is handed out, the oldest there is.
LEMMA PopQueuedRefines ==
  ASSUME OrderInv, PopQueued
  PROVE  Channel!Step \/ Channel!Spoilt
<1>1. TypeInv /\ FrameInv
  BY DEF OrderInv, FrameInv
<1>2. /\ Handshaken /\ Handshaken' /\ UNCHANGED <<packets, base, daemon, log>>
      /\ queued # <<>> /\ told' = Append(told, Head(queued))
  BY DEF PopQueued, Return, Handshaken, wireVars
<1>3. Promised' = Promised
  BY <1>2, PromiseKept
<1>4. CASE ~Promised
  BY <1>2, <1>3, <1>4, ChannelSpoilt
<1>5. CASE Promised
  <2>1. Clean
    BY <1>2, <1>5 DEF Promised
  <2>2. EventsUpTo(told \o queued, Len(log)) /\ Len(log) <= Len(packets)
    BY <1>2, <2>1 DEF OrderInv, FrameInv, Aligned
  <2>3. Len(log) \in Nat /\ told \in Seq(0 .. MaxPackets) /\ queued \in Seq(0 .. MaxPackets)
    BY <1>1, FrameTypes DEF TypeInv, TypeOK, TypeOKHistory, TypeOKClient
  <2>4. /\ Head(queued) \in Missing(told, Len(log))
        /\ \A m \in Missing(told, Len(log)) : Head(queued) <= m
    BY <1>2, <2>2, <2>3, QueueHeadOldest
  <2>5. Channel!Deliver(Len(log))
    BY <1>1, <1>2, <2>2, <2>3, <2>4, Delivered
  <2>6. Channel!Step
    BY <1>2, <1>3, <1>5, <2>5 DEF Channel!Step, Promised
  <2> QED BY <2>6
<1> QED BY <1>4, <1>5

\* Every step is one of the channel, or leaves it as it is.
LEMMA NextRefines ==
  ASSUME OrderInv, OrderInv', [Next]_vars
  PROVE  [Channel!Next]_(Channel!vars)
<1>1. TypeInv /\ TypeInv'
  BY DEF OrderInv, FrameInv
<1>2. CASE Daemon
  BY <1>1, <1>2, DaemonRefines DEF Channel!Next
<1>3. CASE HandshakeRead \/ HandshakeTimeout \/ HandshakeEof
  BY <1>1, <1>3, HandshakeRefines DEF Channel!Next
<1>4. CASE ReadPacket
  BY <1>4, ReadPacketRefines DEF Channel!Next
<1>5. CASE PopQueued
  BY <1>5, PopQueuedRefines DEF Channel!Next
<1>6. CASE ReadPart \/ ReadQuiet \/ ReadEof \/ Tick \/ Interrupted
  <2>1. /\ UNCHANGED <<packets, log, told, daemon, base>> /\ op' \in {op, "idle"}
        /\ op # "dropped" /\ (op = "handshake" => op' = op)
    BY <1>6 DEF ReadPart, ReadQuiet, ReadEof, Tick, Interrupted, Return, KeepReading,
                Waiting, wireVars
  <2>2. Handshaken' = Handshaken
    BY <2>1 DEF Handshaken
  <2> QED BY <2>1, <2>2, PromiseKept, ChannelStutters
<1>7. CASE ReadBlocking \/ ReadTimeout \/ Poll \/ Request \/ RequestFails \/ RequestCutOff
  <2>1. /\ UNCHANGED <<packets, log, told, daemon, base>> /\ op = "idle"
        /\ op' \in ReadOps \cup {"idle"}
    BY <1>7 DEF ReadBlocking, ReadTimeout, Poll, BeginRead, Request, RequestFails,
                RequestCutOff, Return, wireVars
  <2>2. Handshaken' = Handshaken
    BY <2>1 DEF Handshaken
  <2> QED BY <2>1, <2>2, PromiseKept, ChannelStutters
<1>8. CASE UNCHANGED vars
  BY <1>8, PromiseKept, ChannelStutters DEF vars, wireVars, Handshaken
<1> QED BY <1>2, <1>3, <1>4, <1>5, <1>6, <1>7, <1>8 DEF Next, ClientStep, Call, Dropped

\* The client delivers events as EventChannel promises: each packet of the daemon
\* is taken once and in order, each well-formed event handed out once and oldest
\* first, however timeouts, requests and the queue come in between (await_reply,
\* fill_packet and the three reads).
THEOREM ImplementsChannel == Spec => DeliversInOrder
<1>1. Init => OrderInv /\ Channel!Init
  <2> SUFFICES ASSUME Init PROVE OrderInv /\ Channel!Init
    OBVIOUS
  <2>1. FrameInv
    BY TypeInvInit DEF Init, FrameInv, Aligned, Handshaken
  <2>2. OrderInv
    BY <2>1 DEF Init, OrderInv, QueueFirst, Handshaken
  <2>3. packets = <<>> /\ log = <<>> /\ told = <<>> /\ ~Handshaken
    BY DEF Init, Handshaken
  <2>4. SentKinds = <<>>
    BY <2>1, <2>3, SentType, EmptySeq DEF FrameInv
  <2>5. Channel!Init
    BY <2>3, <2>4, EmptySeq DEF Channel!Init, SentKinds
  <2> QED BY <2>2, <2>5
<1>2. OrderInv /\ [Next]_vars => OrderInv'
  BY OrderInvNext
<1>3. OrderInv /\ OrderInv' /\ [Next]_vars => [Channel!Next]_(Channel!vars)
  BY NextRefines
<1> QED BY <1>1, <1>2, <1>3, PTL DEF Spec, DeliversInOrder, Channel!Spec
================================================================================
