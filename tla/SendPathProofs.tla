------------------------------ MODULE SendPathProofs ------------------------------
(***************************************************************************)
(* Theorems about SendPath, for strings and packets of any size, any room in *)
(* the socket and any number of settings.                                    *)
(***************************************************************************)
EXTENDS SendPath, SequenceTheorems, TLAPS

\* Just the empty sequence has no elements.
LEMMA EmptyIffNone ==
  ASSUME NEW S, NEW s \in Seq(S)
  PROVE  s = <<>> <=> Len(s) = 0
BY EmptySeq, LenProperties

(***************************************************************************)
(* Strings.                                                                 *)
(***************************************************************************)

\* What a packet of a string carries, and a reader that never holds more than
\* the longest string.
StringPacket == [id : Settings, word : Nat, data : [1 .. CHUNK -> Nat]]

Reader ==
  {r \in [text : Seq(Nat), expect : 0 .. MAX_STRING] :
     Len(r.text) + r.expect <= MAX_STRING}

\* A string is cut to what fits.
LEMMA CutShortType ==
  ASSUME NEW text \in Seq(Nat)
  PROVE  /\ CutShort(text) \in Seq(Nat)
         /\ Len(CutShort(text)) \in 0 .. MAX_STRING
<1>1. Len(text) \in Nat /\ \A i \in 1 .. Len(text) : text[i] \in Nat
  BY LenProperties, ElementOfSeq
<1>2. AtMost(Len(text), MAX_STRING) \in Nat
      /\ AtMost(Len(text), MAX_STRING) <= Len(text)
      /\ AtMost(Len(text), MAX_STRING) <= MAX_STRING
  BY <1>1, StringAssumption DEF AtMost
<1> QED BY <1>1, <1>2, SubSeqProperties DEF CutShort

\* A string takes a packet for every full chunk and one for what is over.
LEMMA PacketCountBounds ==
  ASSUME NEW n \in Nat
  PROVE  /\ PacketCount(n) \in Nat /\ 1 <= PacketCount(n)
         /\ n <= PacketCount(n) * CHUNK
         /\ \A i \in 1 .. PacketCount(n) :
              (i - 1) * CHUNK \in Nat /\ (i - 1) * CHUNK <= n
         /\ \A i \in 1 .. PacketCount(n) - 1 : i * CHUNK \in Nat /\ i * CHUNK < n
<1> DEFINE q == (n + CHUNK - 1) \div CHUNK
<1>0. CHUNK \in Nat /\ CHUNK >= 1
  BY StringAssumption
<1>1. CASE n = 0
  BY <1>0, <1>1 DEF PacketCount
<1>2. CASE n # 0
  <2>1. q \in Nat /\ q * CHUNK <= n + CHUNK - 1 /\ n + CHUNK - 1 < q * CHUNK + CHUNK
    BY <1>0, <1>2
  <2>2. PacketCount(n) = q
    BY <1>2 DEF PacketCount
  <2> HIDE DEF q
  <2>3. 1 <= q /\ n <= q * CHUNK
    BY <1>0, <1>2, <2>1
  <2>4. ASSUME NEW i \in 1 .. q
        PROVE  (i - 1) * CHUNK \in Nat /\ (i - 1) * CHUNK < n
    <3>1. (i - 1) * CHUNK <= (q - 1) * CHUNK /\ (i - 1) * CHUNK \in Nat
      BY <1>0, <2>1
    <3>2. (q - 1) * CHUNK = q * CHUNK - CHUNK
      BY <1>0, <2>1
    <3> QED BY <1>0, <2>1, <3>1, <3>2
  <2>5. ASSUME NEW i \in 1 .. q - 1
        PROVE  i * CHUNK \in Nat /\ i * CHUNK < n
    <3>1. i + 1 \in 1 .. q /\ (i + 1) - 1 = i
      BY <2>1
    <3> QED BY <2>4, <3>1
  <2> QED BY <2>1, <2>2, <2>3, <2>4, <2>5
<1> QED BY <1>1, <1>2

\* The word of a packet says what remains, and whether the packet is the first.
LEMMA RemainingReadBack ==
  ASSUME NEW n \in 0 .. MAX_STRING, NEW cont \in BOOLEAN
  PROVE  /\ Remaining(n, cont) \in Nat
         /\ Remaining(n, cont) % CONT_BIT = n
         /\ (Remaining(n, cont) \div CONT_BIT) % 2 = 1 <=> cont
<1>1. CONT_BIT \in Nat /\ n < CONT_BIT /\ n \in Nat
  BY StringAssumption DEF CONT_BIT
<1> DEFINE c == CONT_BIT
<1>2. n \div c = 0 /\ n % c = n
  BY <1>1
<1>3. (n + c) \div c = 1 /\ (n + c) % c = n
  BY <1>1
<1> HIDE DEF c
<1>4. Remaining(n, cont) = IF cont THEN n + c ELSE n
  BY <1>2 DEF Remaining, c
<1> QED BY <1>1, <1>2, <1>3, <1>4 DEF c

\* How far into a string its i-th packet begins, what that packet carries of it, and
\* how many there are.
Before(i) == (i - 1) * CHUNK

PieceData(text, i) ==
  [j \in 1 .. CHUNK |->
     IF Before(i) + j <= Len(CutShort(text)) THEN CutShort(text)[Before(i) + j] ELSE NoByte]

Count(text) == PacketCount(Len(CutShort(text)))

\* The packets of a string: how many, and what each carries.
LEMMA StringPacketsAre ==
  ASSUME NEW s \in Settings, NEW text \in Texts
  PROVE  /\ Count(text) \in Nat /\ 1 <= Count(text)
         /\ StringPackets(s, text) \in Seq(StringPacket)
         /\ Len(StringPackets(s, text)) = Count(text)
         /\ Len(string_packets(text)) = Count(text)
         /\ \A i \in 1 .. Count(text) :
              /\ Before(i) \in Nat /\ Before(i) <= Len(CutShort(text))
              /\ StringPackets(s, text)[i].id = s
              /\ StringPackets(s, text)[i].word
                   = Remaining(Len(CutShort(text)) - Before(i), i > 1)
              /\ StringPackets(s, text)[i].data = PieceData(text, i)
<1> DEFINE bytes == CutShort(text)
           count == PacketCount(Len(bytes))
           ps == StringPackets(s, text)
           datum(i) == [j \in 1 .. CHUNK |->
                          IF Before(i) + j <= Len(bytes) THEN bytes[Before(i) + j]
                          ELSE NoByte]
           piece(i) == [word |-> Remaining(Len(bytes) - Before(i), i > 1),
                        data |-> datum(i)]
<1>1. /\ bytes \in Seq(Nat) /\ Len(bytes) \in 0 .. MAX_STRING /\ Len(bytes) \in Nat
      /\ MAX_STRING \in Nat
  BY CutShortType, SendAssumption, StringAssumption
<1>2. /\ count \in Nat /\ 1 <= count
      /\ \A i \in 1 .. count : Before(i) \in Nat /\ Before(i) <= Len(bytes)
  BY <1>1, PacketCountBounds DEF Before
<1>3. string_packets(text) = [i \in 1 .. count |-> piece(i)]
  BY DEF string_packets, Before
<1> HIDE DEF bytes, count, datum
<1>4. ps = [i \in 1 .. count |->
              [id |-> s, word |-> Remaining(Len(bytes) - Before(i), i > 1),
               data |-> datum(i)]]
  BY <1>3 DEF StringPackets
<1>5. ASSUME NEW i \in 1 .. count
      PROVE  Remaining(Len(bytes) - Before(i), i > 1) \in Nat /\ datum(i) \in [1 .. CHUNK -> Nat]
  <2>1. Remaining(Len(bytes) - Before(i), i > 1) \in Nat
    <3>1. Len(bytes) - Before(i) \in 0 .. MAX_STRING /\ (i > 1) \in BOOLEAN
      BY <1>1, <1>2
    <3> QED BY <3>1, RemainingReadBack
  <2>2. \A j \in 1 .. CHUNK :
          (IF Before(i) + j <= Len(bytes) THEN bytes[Before(i) + j] ELSE NoByte) \in Nat
    BY <1>1, <1>2, StringAssumption, ElementOfSeq
  <2> QED BY <2>1, <2>2 DEF datum
<1> HIDE DEF ps
<1>6. ps \in [1 .. count -> StringPacket]
  BY <1>4, <1>5 DEF StringPacket
<1>7. ps \in Seq(StringPacket) /\ Len(ps) = count
  <2>1. ps \in Seq(StringPacket)
    BY <1>2, <1>6, SeqDef
  <2>2. DOMAIN ps = 1 .. count
    BY <1>6
  <2> QED BY <1>2, <2>1, <2>2, LenProperties
<1>8. Len(string_packets(text)) = count
  <2>1. string_packets(text) \in Seq({piece(i) : i \in 1 .. count})
    <3>1. string_packets(text) \in [1 .. count -> {piece(i) : i \in 1 .. count}]
      BY <1>3
    <3> QED BY <1>2, <3>1, SeqDef
  <2>2. DOMAIN string_packets(text) = 1 .. count
    BY <1>3
  <2> QED BY <1>2, <2>1, <2>2, LenProperties
<1>9. \A i \in 1 .. count :
        /\ ps[i].id = s
        /\ ps[i].word = Remaining(Len(bytes) - Before(i), i > 1)
        /\ ps[i].data = datum(i)
  BY <1>4
<1>10. Count(text) = count /\ \A i : PieceData(text, i) = datum(i)
  BY DEF Count, PieceData, count, datum, bytes
<1> QED BY <1>2, <1>7, <1>8, <1>9, <1>10 DEF bytes, ps

\* The packets there are: a request, and the pieces of the strings.
LEMMA PacketIs ==
  /\ Request \in Packet
  /\ \A s \in Settings, text \in Texts :
       StringPackets(s, text) \in Seq(Packet) /\ StringPackets(s, text) # <<>>
  /\ \A p \in Packet : p # Request => p \in StringPacket
<1>1. Request \in Packet
  BY DEF Packet
<1>2. ASSUME NEW s \in Settings, NEW text \in Texts
      PROVE  StringPackets(s, text) \in Seq(Packet) /\ StringPackets(s, text) # <<>>
  <2> DEFINE ps == StringPackets(s, text)
  <2>1. ps \in Seq(StringPacket) /\ Len(ps) \in Nat /\ 1 <= Len(ps)
        /\ Len(string_packets(text)) = Len(ps)
    BY StringPacketsAre
  <2>2. ASSUME NEW i \in 1 .. Len(ps)
        PROVE  ps[i] \in Packet
    <3> DEFINE all(r, t) == {StringPackets(r, t)[j] : j \in 1 .. Len(string_packets(t))}
    <3>1. ps[i] \in all(s, text)
      BY <2>1
    <3>2. Packet = {Request} \cup UNION {all(r, t) : r \in Settings, t \in Texts}
      BY DEF Packet
    <3> HIDE DEF all
    <3> QED BY <3>1, <3>2
  <2>3. ps \in Seq({ps[i] : i \in 1 .. Len(ps)})
    <3>1. DOMAIN ps = 1 .. Len(ps) /\ ps \in [1 .. Len(ps) -> StringPacket]
      BY <2>1, LenProperties
    <3>2. ps \in [1 .. Len(ps) -> {ps[i] : i \in 1 .. Len(ps)}]
      BY <3>1
    <3> QED BY <2>1, <3>2, SeqDef
  <2>4. {ps[i] : i \in 1 .. Len(ps)} \subseteq Packet
    BY <2>2
  <2> HIDE DEF ps
  <2>5. ps \in Seq(Packet) /\ ps # <<>>
    BY <2>1, <2>3, <2>4, SeqMonotonic, EmptySeq
  <2> QED BY <2>5 DEF ps
<1>3. ASSUME NEW p \in Packet, p # Request
      PROVE  p \in StringPacket
  <2>1. PICK s \in Settings, text \in Texts :
          p \in {StringPackets(s, text)[i] : i \in 1 .. Len(string_packets(text))}
    BY <1>3 DEF Packet
  <2>2. PICK i \in 1 .. Len(string_packets(text)) : p = StringPackets(s, text)[i]
    BY <2>1
  <2>3. StringPackets(s, text) \in Seq(StringPacket)
        /\ Len(string_packets(text)) = Len(StringPackets(s, text))
    BY StringPacketsAre
  <2> QED BY <2>2, <2>3, ElementOfSeq
<1> QED BY <1>1, <1>2, <1>3

\* What a reader has to come is a number.
LEMMA GatheredCount ==
  ASSUME NEW reader \in Reader, NEW packet \in StringPacket
  PROVE  Gathered(reader, packet).expect \in Int
<1>1. CONT_BIT \in Nat /\ CONT_BIT >= 1 /\ CHUNK \in Nat /\ packet.word \in Nat
      /\ reader.expect \in Nat
  BY StringAssumption DEF CONT_BIT, StringPacket, Reader
<1>2. packet.word % CONT_BIT \in Nat
  BY <1>1
<1>3. Take(packet.word % CONT_BIT) \in Nat
  BY <1>1, <1>2 DEF Take, AtMost
<1> QED BY <1>1, <1>2, <1>3 DEF Gathered

\* However packets come, a reader holds no more than the longest string, or would
\* have less than nothing to come.
LEMMA GatheredType ==
  ASSUME NEW reader \in Reader, NEW packet \in StringPacket,
         Gathered(reader, packet).expect >= 0
  PROVE  Gathered(reader, packet) \in Reader
<1> DEFINE left == packet.word % CONT_BIT
           now == IF IsContinuation(packet) THEN reader ELSE [text |-> <<>>, expect |-> left]
           take == Take(left)
           text == now.text \o SubSeq(packet.data, 1, take)
<1>1. CONT_BIT \in Nat /\ CONT_BIT = MAX_STRING + 1 /\ MAX_STRING \in Nat /\ CHUNK \in Nat
      /\ CHUNK >= 1
  BY StringAssumption DEF CONT_BIT
<1>2. packet.word \in Nat /\ packet.data \in [1 .. CHUNK -> Nat]
  BY DEF StringPacket
<1>3. Gathered(reader, packet) = [text |-> text, expect |-> now.expect - take]
  BY DEF Gathered
<1>4. left \in 0 .. MAX_STRING
  BY <1>1, <1>2
<1>5. take \in 0 .. CHUNK
  BY <1>1, <1>4 DEF Take, AtMost
<1> HIDE DEF left, take
<1>6. <<>> \in Seq(Nat) /\ Len(<<>>) = 0
  BY EmptySeq
<1>7. now \in Reader
  BY <1>1, <1>4, <1>6 DEF Reader
<1>8. now.text \in Seq(Nat) /\ now.expect \in 0 .. MAX_STRING
      /\ Len(now.text) + now.expect <= MAX_STRING /\ Len(now.text) \in Nat
  BY <1>7, LenProperties DEF Reader
<1> HIDE DEF now
<1>9. SubSeq(packet.data, 1, take) \in Seq(Nat) /\ Len(SubSeq(packet.data, 1, take)) = take
  <2>1. \A i \in 1 .. take : packet.data[i] \in Nat
    BY <1>1, <1>2, <1>5
  <2> QED BY <1>1, <1>5, <2>1, SubSeqProperties
<1>10. text \in Seq(Nat) /\ Len(text) = Len(now.text) + take
  BY <1>8, <1>9, ConcatProperties
<1> HIDE DEF text
<1>11. now.expect - take >= 0
  BY <1>3
<1> QED BY <1>1, <1>3, <1>5, <1>8, <1>10, <1>11 DEF Reader

-----------------------------------------------------------------------------
(* Types. *)

\* The packets of which a byte was written.
Started == IF Sending /\ written = 0 THEN begun - 1 ELSE begun

\* A byte of the first n packets, and one of a packet at all.
ByteOf(n) == [packet : Packet, n : 1 .. n, at : 1 .. PACKET_BYTES]
ByteOfAny == [packet : Packet, n : Nat, at : 1 .. PACKET_BYTES]

ClientTypes ==
  /\ nonblocking \in BOOLEAN /\ cut \in BOOLEAN
  /\ op \in {"idle", "string", "request", "await"}
  /\ result \in {"none", "ok", "Io", "Timeout", "Disconnected"}
  /\ packets \in Seq(Packet) /\ begun \in Nat
  /\ written \in 0 .. PACKET_BYTES
  /\ IF Sending THEN packets # <<>> /\ begun > 0 /\ begun + Len(packets) - 1 <= MaxSends
     ELSE packets = <<>> /\ written = 0 /\ begun <= MaxSends

\* Nothing the daemon has is of a packet of which no byte was written.
DaemonTypes ==
  /\ closed \in BOOLEAN
  /\ socket \in Seq(ByteOf(Started)) /\ part \in Seq(ByteOf(Started))
  /\ Len(socket) <= Room /\ Len(part) <= PACKET_BYTES
  /\ got \in Seq(0 .. Started)
  /\ readers \in [Settings -> Reader]

TypeInv == ClientTypes /\ DaemonTypes

\* The numbers TypeInv is about.
LEMMA TypeInvNumbers ==
  ASSUME TypeInv
  PROVE  /\ PACKET_BYTES \in Nat /\ PACKET_BYTES >= 1 /\ Room \in Nat /\ MaxSends \in Nat
         /\ written \in Nat /\ begun \in Nat /\ begun <= MaxSends
         /\ Started \in Nat /\ Started <= begun
         /\ Len(packets) \in Nat /\ (packets # <<>> => Len(packets) >= 1)
         /\ Len(socket) \in Nat /\ Len(part) \in Nat /\ Len(got) \in Nat
<1>1. /\ PACKET_BYTES \in Nat /\ PACKET_BYTES >= 1 /\ Room \in Nat /\ MaxSends \in Nat
  BY SendAssumption
<1>2. /\ Len(packets) \in Nat /\ (packets # <<>> => Len(packets) >= 1)
      /\ Len(socket) \in Nat /\ Len(part) \in Nat /\ Len(got) \in Nat
  BY EmptySeq, LenProperties DEF TypeInv, ClientTypes, DaemonTypes
<1> QED BY <1>1, <1>2 DEF TypeInv, ClientTypes, Started

\* What was begun and is still in the client's hands is a packet begun all the same.
LEMMA TypeInvSound == TypeInv => TypeOK
<1> SUFFICES ASSUME TypeInv PROVE TypeOK
  OBVIOUS
<1>1. /\ begun \in 0 .. MaxSends /\ Started \in Nat /\ Started <= begun
  BY TypeInvNumbers
<1>2. ByteOf(Started) \subseteq [packet : Packet, n : 1 .. begun, at : 1 .. PACKET_BYTES]
      /\ 0 .. Started \subseteq 0 .. begun
  BY <1>1 DEF ByteOf
<1>3. /\ socket \in Seq([packet : Packet, n : 1 .. begun, at : 1 .. PACKET_BYTES])
      /\ part \in Seq([packet : Packet, n : 1 .. begun, at : 1 .. PACKET_BYTES])
      /\ got \in Seq(0 .. begun)
  BY <1>2, SeqMonotonic DEF TypeInv, DaemonTypes
<1>4. ASSUME NEW s \in Settings
      PROVE  readers[s].expect \in Nat /\ Len(readers[s].text) + readers[s].expect <= MAX_STRING
  <2>1. readers[s] \in Reader
    BY DEF TypeInv, DaemonTypes
  <2>2. Len(readers[s].text) \in Nat
    BY <2>1, LenProperties DEF Reader
  <2> QED BY <2>1, <2>2, StringAssumption DEF Reader
<1> QED BY <1>1, <1>3, <1>4 DEF TypeInv, ClientTypes, DaemonTypes, TypeOK

\* At first nothing is begun.
LEMMA TypeInvInit == Init => TypeInv
<1> SUFFICES ASSUME Init PROVE TypeInv
  OBVIOUS
<1>1. /\ PACKET_BYTES \in Nat /\ Room \in Nat /\ MaxSends \in Nat
  BY SendAssumption
<1>2. Unbegun \in Reader
  BY EmptySeq, StringAssumption DEF Unbegun, Reader
<1>3. ClientTypes
  <2>1. packets \in Seq(Packet)
    BY EmptySeq DEF Init
  <2>2. ~Sending /\ packets = <<>>
    BY DEF Init, Sending
  <2>3. /\ written = 0 /\ begun = 0 /\ op = "idle" /\ result = "none"
        /\ nonblocking \in BOOLEAN /\ cut \in BOOLEAN
    BY DEF Init
  <2> QED BY <1>1, <2>1, <2>2, <2>3 DEF ClientTypes
<1>4. DaemonTypes
  <2>1. socket \in Seq(ByteOf(Started)) /\ Len(socket) = 0
    BY EmptySeq DEF Init
  <2>2. part \in Seq(ByteOf(Started)) /\ Len(part) = 0
    BY EmptySeq DEF Init
  <2>3. got \in Seq(0 .. Started)
    BY EmptySeq DEF Init
  <2>4. readers \in [Settings -> Reader] /\ closed \in BOOLEAN
    BY <1>2 DEF Init
  <2> QED BY <1>1, <2>1, <2>2, <2>3, <2>4 DEF DaemonTypes
<1> QED BY <1>3, <1>4 DEF TypeInv

\* What the daemon has stays typed while packets are only added.
LEMMA DaemonKeepsTypes ==
  ASSUME TypeInv, NEW n \in Nat, Started <= n
  PROVE  /\ socket \in Seq(ByteOf(n)) /\ part \in Seq(ByteOf(n)) /\ got \in Seq(0 .. n)
<1>1. ByteOf(Started) \subseteq ByteOf(n) /\ 0 .. Started \subseteq 0 .. n
  BY TypeInvNumbers DEF ByteOf
<1> QED BY <1>1, SeqMonotonic DEF TypeInv, DaemonTypes

\* A step in which no byte moves has to keep the client's types only.
LEMMA ClientStepTypes ==
  ASSUME TypeInv, ClientTypes', UNCHANGED <<socket, daemonVars>>,
         Started' \in Nat, Started <= Started'
  PROVE  TypeInv'
<1>1. /\ socket \in Seq(ByteOf(Started')) /\ part \in Seq(ByteOf(Started'))
      /\ got \in Seq(0 .. Started')
  BY DaemonKeepsTypes
<1> QED BY <1>1 DEF TypeInv, DaemonTypes, daemonVars

\* A call begins with the first of its packets.
LEMMA SendTypes ==
  ASSUME TypeInv, NEW call \in {"string", "request"}, NEW ps \in Seq(Packet), ps # <<>>,
         Send(call, ps)
  PROVE  TypeInv'
<1>1. /\ begun \in Nat /\ Started = begun
  BY TypeInvNumbers DEF Send, Started, Sending
<1>2. Len(ps) \in Nat /\ Len(ps) >= 1
  BY EmptySeq, LenProperties
<1>3. /\ op' = call /\ packets' = ps /\ written' = 0 /\ begun' = begun + 1
      /\ begun + Len(ps) <= MaxSends /\ result' = "none"
      /\ UNCHANGED <<nonblocking, cut, socket, daemonVars>>
  BY DEF Send
<1>4. Sending' /\ Started' = begun
  BY <1>1, <1>3 DEF Sending, Started
<1>5. ClientTypes'
  BY <1>1, <1>2, <1>3, <1>4, TypeInvNumbers DEF TypeInv, ClientTypes
<1> QED BY <1>1, <1>3, <1>4, <1>5, ClientStepTypes

\* A turn of write_all keeps the types: no more goes in than there is room for.
LEMMA WriteSomeTypes ==
  ASSUME TypeInv, WriteSome
  PROVE  TypeInv'
<1>1. /\ PACKET_BYTES \in Nat /\ written \in Nat /\ begun \in Nat /\ begun > 0
      /\ Started \in Nat /\ Started <= begun /\ packets # <<>> /\ written < PACKET_BYTES
      /\ Len(socket) \in Nat /\ Len(socket) <= Room /\ Room \in Nat
      /\ packets \in Seq(Packet)
  BY TypeInvNumbers DEF TypeInv, ClientTypes, DaemonTypes, WriteSome, Whole
<1>2. PICK n \in 1 .. AtMost(PACKET_BYTES - written, Free) :
        /\ socket' = socket \o [i \in 1 .. n |-> Byte(Head(packets), begun, written + i)]
        /\ written' = written + n
  BY DEF WriteSome
<1>3. n \in Nat /\ n >= 1 /\ n <= PACKET_BYTES - written /\ n <= Room - Len(socket)
  BY <1>1, <1>2 DEF AtMost, Free
<1>4. UNCHANGED <<nonblocking, op, result, packets, begun, last, cut, daemonVars>>
      /\ Sending /\ Sending'
  BY DEF WriteSome, Sending
<1>5. Started' = begun
  BY <1>1, <1>2, <1>3, <1>4 DEF Started
<1> DEFINE bytes == [i \in 1 .. n |-> Byte(Head(packets), begun, written + i)]
<1>6. bytes \in Seq(ByteOf(begun)) /\ Len(bytes) = n
  <2>1. Head(packets) \in Packet
    BY <1>1, HeadTailProperties
  <2>2. bytes \in [1 .. n -> ByteOf(begun)]
    BY <1>1, <1>3, <2>1 DEF Byte, ByteOf
  <2>3. bytes \in Seq(ByteOf(begun))
    BY <1>3, <2>2, SeqDef
  <2>4. DOMAIN bytes = 1 .. n
    OBVIOUS
  <2> QED BY <1>3, <2>3, <2>4, LenProperties
<1> HIDE DEF bytes
<1>7. /\ socket \in Seq(ByteOf(begun)) /\ part \in Seq(ByteOf(begun)) /\ got \in Seq(0 .. begun)
  BY <1>1, DaemonKeepsTypes
<1>8. socket' \in Seq(ByteOf(begun)) /\ Len(socket') = Len(socket) + n
  BY <1>2, <1>6, <1>7, ConcatProperties DEF bytes
<1>9. DaemonTypes'
  BY <1>1, <1>3, <1>4, <1>5, <1>7, <1>8 DEF TypeInv, DaemonTypes, daemonVars
<1>10. ClientTypes'
  BY <1>1, <1>2, <1>3, <1>4 DEF TypeInv, ClientTypes
<1> QED BY <1>9, <1>10 DEF TypeInv

\* A packet that ends, or is given up.
LEMMA PacketEndTypes ==
  ASSUME TypeInv, NextPacket \/ Sent \/ SendFails
  PROVE  TypeInv'
<1>1. /\ PACKET_BYTES \in Nat /\ PACKET_BYTES >= 1 /\ written \in Nat /\ begun \in Nat
      /\ begun > 0 /\ packets # <<>> /\ packets \in Seq(Packet)
      /\ Len(packets) \in Nat /\ Len(packets) >= 1 /\ begun + Len(packets) - 1 <= MaxSends
      /\ MaxSends \in Nat /\ Started \in Nat
      /\ UNCHANGED <<socket, daemonVars>>
  BY TypeInvNumbers DEF TypeInv, ClientTypes, NextPacket, Sent, SendFails
<1>2. CASE NextPacket
  <2>1. /\ packets' = Tail(packets) /\ written' = 0 /\ begun' = begun + 1
        /\ Len(packets) > 1 /\ Sending' /\ written = PACKET_BYTES
        /\ UNCHANGED <<nonblocking, op, result, cut>>
    BY <1>2 DEF NextPacket, Sending, Whole
  <2>2. packets' \in Seq(Packet) /\ Len(packets') = Len(packets) - 1
    BY <1>1, <2>1, HeadTailProperties
  <2>3. packets' # <<>>
    <3>1. packets' = <<>> <=> Len(packets') = 0
      BY <2>2, EmptyIffNone
    <3>2. Len(packets') # 0
      BY <1>1, <2>1, <2>2
    <3> QED BY <3>1, <3>2
  <2>4. ClientTypes'
    BY <1>1, <2>1, <2>2, <2>3 DEF TypeInv, ClientTypes
  <2>5. Started = begun /\ Started' = begun
    BY <1>1, <2>1 DEF Started
  <2> QED BY <1>1, <2>4, <2>5, ClientStepTypes
<1>3. CASE Sent
  <2>1. /\ packets' = <<>> /\ written' = 0 /\ begun' = begun /\ ~Sending'
        /\ written = PACKET_BYTES /\ cut' = cut /\ nonblocking' \in BOOLEAN
        /\ op' \in {"idle", "await"}
        /\ result' \in {"none", "ok", "Io", "Timeout", "Disconnected"}
    BY <1>3 DEF Sent, Sending, Whole, Return, TypeInv, ClientTypes
  <2>2. ClientTypes'
    <3>1. packets' \in Seq(Packet) /\ packets' = <<>>
      BY <2>1, EmptySeq
    <3>2. written' \in 0 .. PACKET_BYTES /\ begun' \in Nat /\ begun' <= MaxSends
      BY <1>1, <2>1
    <3> QED BY <2>1, <3>1, <3>2 DEF ClientTypes, TypeInv
  <2>3. Started = begun /\ Started' = begun
    BY <1>1, <2>1 DEF Started
  <2> QED BY <1>1, <2>2, <2>3, ClientStepTypes, TypeInv DEF TypeInv, ClientTypes
<1>4. CASE SendFails
  <2>1. /\ packets' = <<>> /\ written' = 0 /\ ~Sending' /\ op' = "idle" /\ result' = "Io"
        /\ begun' = (IF written > 0 THEN begun ELSE begun - 1)
        /\ cut' = (cut \/ written > 0) /\ nonblocking' = nonblocking
        /\ Sending
    BY <1>4 DEF SendFails, Sending, Return
  <2>2. cut' \in BOOLEAN
    BY <2>1
  <2>3. ClientTypes'
    BY <1>1, <2>1, <2>2, EmptySeq DEF TypeInv, ClientTypes
  <2>4. Started' = Started
    BY <1>1, <2>1 DEF Started
  <2> QED BY <1>1, <2>3, <2>4, ClientStepTypes
<1> QED BY <1>2, <1>3, <1>4

\* What the daemon does moves bytes on, and fills readers.
LEMMA DaemonStepTypes ==
  ASSUME TypeInv, ReadByte \/ TakePacket \/ DaemonCloses
  PROVE  TypeInv'
<1>1. /\ Started \in Nat /\ PACKET_BYTES \in Nat /\ PACKET_BYTES >= 1
      /\ Len(socket) \in Nat /\ Len(part) \in Nat
      /\ Len(socket) <= Room /\ Len(part) <= PACKET_BYTES /\ Room \in Nat
      /\ socket \in Seq(ByteOf(Started)) /\ part \in Seq(ByteOf(Started))
      /\ got \in Seq(0 .. Started) /\ readers \in [Settings -> Reader] /\ closed \in BOOLEAN
  BY TypeInvNumbers DEF TypeInv, DaemonTypes
<1>2. UNCHANGED <<nonblocking, op, result, writeVars, last, cut>>
  BY DEF ReadByte, TakePacket, DaemonCloses
<1>3. ClientTypes' /\ Started' = Started
  BY <1>2 DEF TypeInv, ClientTypes, Started, Sending, writeVars
<1>4. CASE ReadByte
  <2>1. Head(socket) \in ByteOf(Started) /\ Tail(socket) \in Seq(ByteOf(Started))
        /\ Len(Tail(socket)) = Len(socket) - 1
    BY <1>1, <1>4, HeadTailProperties DEF ReadByte
  <2>2. part' \in Seq(ByteOf(Started)) /\ Len(part') = Len(part) + 1
    BY <1>1, <1>4, <2>1, AppendProperties DEF ReadByte
  <2>3. DaemonTypes'
    BY <1>1, <1>3, <1>4, <2>1, <2>2 DEF ReadByte, DaemonTypes
  <2> QED BY <1>3, <2>3 DEF TypeInv
<1>5. CASE TakePacket
  <2>1. /\ part' = <<>> /\ UNCHANGED socket /\ Len(part) = PACKET_BYTES
    BY <1>5 DEF TakePacket
  <2>2. part[1] \in ByteOf(Started)
    BY <1>1, <2>1, ElementOfSeq
  <2>3. part[1].n \in 0 .. Started /\ part[1].packet \in Packet /\ 0 \in 0 .. Started
    BY <1>1, <2>2 DEF ByteOf
  <2>4. got' \in Seq(0 .. Started)
    <3>1. PICK n \in 0 .. Started : got' = Append(got, n)
      BY <1>5, <2>3 DEF TakePacket
    <3> QED BY <1>1, <3>1, AppendProperties
  <2>5. readers' \in [Settings -> Reader]
    <3>1. CASE UNCHANGED readers
      BY <1>1, <3>1
    <3>2. CASE part[1].packet # Request /\ TakePiece(part[1].packet)
      <4> DEFINE packet == part[1].packet
      <4>1. packet \in StringPacket
        BY <2>3, <3>2, PacketIs
      <4>2. packet.id \in Settings
        BY <4>1 DEF StringPacket
      <4> HIDE DEF packet
      <4>3. readers[packet.id] \in Reader
        BY <1>1, <4>2
      <4>4. PICK reader : reader = Gathered(readers[packet.id], packet)
        OBVIOUS
      <4>5. readers' = IF reader.expect < 0 THEN readers
                       ELSE [readers EXCEPT ![packet.id] = reader]
        BY <3>2, <4>4 DEF TakePiece, packet
      <4>6. reader.expect >= 0 => reader \in Reader
        BY <4>1, <4>3, <4>4, GatheredType
      <4>7. reader.expect \in Int
        BY <4>1, <4>3, <4>4, GatheredCount
      <4> QED BY <1>1, <4>2, <4>5, <4>6, <4>7
    <3> QED BY <1>5, <3>1, <3>2 DEF TakePacket
  <2>6. <<>> \in Seq(ByteOf(Started)) /\ Len(<<>>) = 0
    BY EmptySeq
  <2>7. closed' \in BOOLEAN
    <3>1. UNCHANGED closed \/ TakePiece(part[1].packet)
      BY <1>5 DEF TakePacket
    <3>2. ASSUME TakePiece(part[1].packet)
          PROVE  closed' \in BOOLEAN
      <4>1. PICK reader : closed' = (reader.expect < 0)
        BY <3>2 DEF TakePiece
      <4>2. CASE reader.expect < 0
        BY <4>1, <4>2
      <4>3. CASE ~(reader.expect < 0)
        BY <4>1, <4>3
      <4> QED BY <4>2, <4>3
    <3> QED BY <1>1, <3>1, <3>2
  <2>8. DaemonTypes'
    BY <1>1, <1>3, <2>1, <2>4, <2>5, <2>6, <2>7 DEF DaemonTypes
  <2> QED BY <1>3, <2>8 DEF TypeInv
<1>6. CASE DaemonCloses
  BY <1>1, <1>3, <1>6 DEF DaemonCloses, TypeInv, DaemonTypes
<1> QED BY <1>4, <1>5, <1>6

\* So does every step.
LEMMA TypeInvNext == TypeInv /\ [Next]_vars => TypeInv'
<1> SUFFICES ASSUME TypeInv, [Next]_vars PROVE TypeInv'
  OBVIOUS
<1>1. ASSUME NEW call \in {"string", "request"}, NEW ps \in Seq(Packet), ps # <<>>,
             Send(call, ps)
      PROVE  TypeInv'
  BY <1>1, SendTypes
<1>2. CASE SendString
  BY <1>1, <1>2, PacketIs DEF SendString
<1>3. CASE SendRequest
  <2>1. <<Request>> \in Seq(Packet) /\ <<Request>> # <<>>
    BY PacketIs
  <2> QED BY <1>1, <1>3, <2>1 DEF SendRequest
<1>4. CASE WriteSome
  BY <1>4, WriteSomeTypes
<1>5. CASE NextPacket \/ Sent \/ SendFails
  BY <1>5, PacketEndTypes
<1>6. CASE ReadByte \/ TakePacket \/ DaemonCloses
  BY <1>6, DaemonStepTypes
<1>7. CASE Read \/ Awaited \/ UNCHANGED vars
  <2>1. UNCHANGED <<writeVars, cut, socket, daemonVars>>
    BY <1>7 DEF Read, Awaited, vars
  <2>2. /\ nonblocking' \in BOOLEAN /\ Sending' = Sending
        /\ op' \in {"idle", "string", "request", "await"}
        /\ result' \in {"none", "ok", "Io", "Timeout", "Disconnected"}
    BY <1>7 DEF Read, Awaited, Return, vars, Sending, TypeInv, ClientTypes
  <2>3. ClientTypes'
    BY <2>1, <2>2 DEF TypeInv, ClientTypes, writeVars
  <2>4. Started' = Started
    BY <2>1, <2>2 DEF Started, writeVars
  <2> QED BY <2>1, <2>3, <2>4, ClientStepTypes, TypeInvNumbers
<1> QED BY <1>2, <1>3, <1>4, <1>5, <1>6, <1>7 DEF Next, Client, DaemonReads

\* Every variable keeps its type: in particular a call has packets left just while
\* it sends, the socket holds no more than it has room for, and no reader ever
\* holds more than the longest string, whatever pieces reach it (send, write_all, and
\* the StringReader of the tests' daemon).
THEOREM TypeCorrect == Spec => []TypeOK
<1>1. Init => TypeInv
  BY TypeInvInit
<1>2. TypeInv /\ [Next]_vars => TypeInv'
  BY TypeInvNext
<1>3. TypeInv => TypeOK
  BY TypeInvSound
<1> QED BY <1>1, <1>2, <1>3, PTL DEF Spec

-----------------------------------------------------------------------------
(* Packets. *)

\* What may come after a byte: the next of its packet, or the first of the next.
Follows(a, b) ==
  IF a.at < PACKET_BYTES THEN b = Byte(a.packet, a.n, a.at + 1)
  ELSE b.at = 1 /\ b.n = a.n + 1

\* The last byte the daemon read, which it may have taken with its packet, and
\* the last the client wrote.
LastRead == IF part # <<>> THEN part[Len(part)] ELSE Byte(Request, Len(got), PACKET_BYTES)
LastWritten == IF socket # <<>> THEN socket[Len(socket)] ELSE LastRead

\* Where the client is in its packets.
LastAt == IF Sending /\ written > 0 THEN written ELSE PACKET_BYTES
Midway == Sending /\ written > 0 /\ written < PACKET_BYTES

\* From the packets taken to where the client writes, one byte follows another.
Chained ==
  /\ \A i \in 1 .. Len(got) : got[i] = i
  /\ \A i \in 1 .. Len(part) : part[i] = Byte(part[1].packet, Len(got) + 1, i)
  /\ socket # <<>> => Follows(LastRead, socket[1])
  /\ \A i \in 1 .. Len(socket) - 1 : Follows(socket[i], socket[i + 1])
  /\ LastWritten.n = Started /\ LastWritten.at = LastAt
  /\ Midway => LastWritten.packet = Head(packets)

WireInv == TypeInv /\ (~cut => Chained)

\* A step in which no byte moves.
LEMMA NothingMoves ==
  ASSUME Chained, UNCHANGED <<socket, part, got>>, Started' = Started, LastAt' = LastAt,
         Midway' => Midway /\ packets' = packets
  PROVE  Chained'
<1>1. LastRead' = LastRead
  BY DEF LastRead
<1>2. LastWritten' = LastWritten
  BY <1>1 DEF LastWritten
<1> QED BY <1>1, <1>2 DEF Chained

\* The bytes of a write follow those written before.
LEMMA WriteSomeChained ==
  ASSUME TypeInv, Chained, WriteSome
  PROVE  Chained'
<1>1. /\ PACKET_BYTES \in Nat /\ written \in Nat /\ begun \in Nat /\ begun > 0
      /\ packets # <<>> /\ written < PACKET_BYTES
      /\ Len(socket) \in Nat /\ Room \in Nat /\ Len(socket) <= Room
      /\ socket \in Seq(ByteOfAny)
  <2>1. ByteOf(Started) \subseteq ByteOfAny
    BY TypeInvNumbers DEF ByteOf, ByteOfAny
  <2>2. socket \in Seq(ByteOfAny)
    BY <2>1, SeqMonotonic DEF TypeInv, DaemonTypes
  <2> QED BY <2>2, TypeInvNumbers DEF TypeInv, ClientTypes, DaemonTypes, WriteSome, Whole
<1>2. PICK n \in 1 .. AtMost(PACKET_BYTES - written, Free) :
        /\ socket' = socket \o [i \in 1 .. n |-> Byte(Head(packets), begun, written + i)]
        /\ written' = written + n
  BY DEF WriteSome
<1>3. n \in Nat /\ n >= 1 /\ n <= PACKET_BYTES - written
  BY <1>1, <1>2 DEF AtMost, Free
<1>4. UNCHANGED <<op, packets, begun, part, got>> /\ Sending /\ Sending'
  BY DEF WriteSome, Sending, daemonVars
<1> DEFINE bytes == [i \in 1 .. n |-> Byte(Head(packets), begun, written + i)]
<1>5. bytes \in Seq(ByteOfAny) /\ Len(bytes) = n
  <2>1. Head(packets) \in Packet
    BY <1>1, HeadTailProperties DEF TypeInv, ClientTypes
  <2>2. bytes \in [1 .. n -> ByteOfAny]
    BY <1>1, <1>3, <2>1 DEF Byte, ByteOfAny
  <2>3. bytes \in Seq(ByteOfAny)
    BY <1>3, <2>2, SeqDef
  <2>4. DOMAIN bytes = 1 .. n
    OBVIOUS
  <2> QED BY <1>3, <2>3, <2>4, LenProperties
<1>6. \A i \in 1 .. n : bytes[i] = Byte(Head(packets), begun, written + i)
  OBVIOUS
<1>7. socket' = socket \o bytes
  BY <1>2
<1> HIDE DEF bytes
<1>8. /\ Len(socket') = Len(socket) + n
      /\ \A i \in 1 .. Len(socket) + n :
           socket'[i] = IF i <= Len(socket) THEN socket[i] ELSE bytes[i - Len(socket)]
      /\ socket' \in Seq(ByteOfAny)
  BY <1>1, <1>5, <1>7, ConcatProperties
<1>9. LastRead' = LastRead
  BY <1>4 DEF LastRead
<1>10. Started' = begun /\ LastAt' = written + n
  BY <1>1, <1>2, <1>3, <1>4 DEF Started, LastAt
<1>11. socket' # <<>> /\ (socket = <<>> <=> Len(socket) = 0)
  <2>1. (socket = <<>> <=> Len(socket) = 0) /\ (socket' = <<>> <=> Len(socket') = 0)
    BY <1>1, <1>8, EmptyIffNone
  <2> QED BY <1>1, <1>3, <1>8, <2>1
<1>12. LastWritten' = Byte(Head(packets), begun, written + n)
  <2>1. LastWritten' = socket'[Len(socket) + n]
    BY <1>8, <1>11 DEF LastWritten
  <2>2. socket'[Len(socket) + n] = bytes[n]
    BY <1>1, <1>3, <1>8
  <2> QED BY <1>3, <1>6, <2>1, <2>2
<1>13. Follows(LastWritten, bytes[1])
  <2>1. bytes[1] = Byte(Head(packets), begun, written + 1)
    BY <1>3, <1>6
  <2>2. CASE written = 0
    <3>1. LastWritten.n = begun - 1 /\ LastWritten.at = PACKET_BYTES
      BY <1>4, <2>2 DEF Chained, Started, LastAt
    <3> QED BY <1>1, <2>1, <2>2, <3>1 DEF Follows, Byte
  <2>3. CASE written > 0
    <3>1. /\ LastWritten.n = begun /\ LastWritten.at = written
          /\ LastWritten.packet = Head(packets)
      BY <1>1, <1>4, <2>3 DEF Chained, Started, LastAt, Midway
    <3> QED BY <1>1, <2>1, <3>1 DEF Follows, Byte
  <2> QED BY <1>1, <2>2, <2>3
<1>14. Follows(LastRead', socket'[1])
  <2>1. CASE socket = <<>>
    <3>1. socket'[1] = bytes[1]
      BY <1>3, <1>8, <1>11, <2>1
    <3> QED BY <1>9, <1>13, <2>1, <3>1 DEF LastWritten
  <2>2. CASE socket # <<>>
    <3>1. socket'[1] = socket[1]
      BY <1>1, <1>3, <1>8, <1>11, <2>2
    <3> QED BY <1>9, <2>2, <3>1 DEF Chained
  <2> QED BY <2>1, <2>2
<1>15. ASSUME NEW i \in 1 .. Len(socket') - 1
       PROVE  Follows(socket'[i], socket'[i + 1])
  <2>1. CASE i < Len(socket)
    <3>1. i \in 1 .. Len(socket) - 1 /\ socket'[i] = socket[i] /\ socket'[i + 1] = socket[i + 1]
      BY <1>1, <1>3, <1>8, <2>1
    <3> QED BY <3>1 DEF Chained
  <2>2. CASE i = Len(socket)
    <3>1. socket'[i] = socket[Len(socket)] /\ socket'[i + 1] = bytes[1] /\ socket # <<>>
      BY <1>1, <1>3, <1>8, <1>11, <2>2
    <3> QED BY <1>13, <3>1 DEF LastWritten
  <2>3. CASE i > Len(socket)
    <3> DEFINE j == i - Len(socket)
    <3>1. j \in 1 .. n - 1 /\ socket'[i] = bytes[j] /\ socket'[i + 1] = bytes[j + 1]
      BY <1>1, <1>3, <1>8, <2>3
    <3>2. /\ bytes[j] = Byte(Head(packets), begun, written + j)
          /\ bytes[j + 1] = Byte(Head(packets), begun, written + j + 1)
      BY <1>1, <1>3, <1>6, <3>1
    <3>3. written + j < PACKET_BYTES
      BY <1>1, <1>3, <3>1
    <3> HIDE DEF j
    <3> QED BY <3>1, <3>2, <3>3 DEF Follows, Byte
  <2> QED BY <1>1, <1>8, <2>1, <2>2, <2>3
<1>16. Midway' => LastWritten'.packet = Head(packets')
  BY <1>4, <1>12 DEF Byte
<1>17. LastWritten'.n = Started' /\ LastWritten'.at = LastAt'
  BY <1>10, <1>12 DEF Byte
<1> QED BY <1>4, <1>14, <1>15, <1>16, <1>17 DEF Chained

\* The byte the daemon reads is the next of the packet it has begun to read, or
\* the first of the next.
LEMMA ReadByteChained ==
  ASSUME TypeInv, Chained, ReadByte
  PROVE  Chained'
<1>1. /\ PACKET_BYTES \in Nat /\ PACKET_BYTES >= 1 /\ Len(got) \in Nat
      /\ socket \in Seq(ByteOf(Started)) /\ part \in Seq(ByteOf(Started))
      /\ Len(socket) \in Nat /\ Len(part) \in Nat
  BY TypeInvNumbers DEF TypeInv, DaemonTypes
<1>2. /\ socket # <<>> /\ Len(part) < PACKET_BYTES
      /\ part' = Append(part, Head(socket)) /\ socket' = Tail(socket)
      /\ UNCHANGED <<op, packets, written, begun, got>>
  BY DEF ReadByte, writeVars
<1>3. /\ (part = <<>> <=> Len(part) = 0) /\ (socket = <<>> <=> Len(socket) = 0)
  BY <1>1, EmptyIffNone
<1>4. /\ Head(socket) = socket[1] /\ socket[1] \in ByteOf(Started)
      /\ socket' \in Seq(ByteOf(Started)) /\ Len(socket') = Len(socket) - 1
      /\ \A i \in 1 .. Len(socket') : socket'[i] = socket[i + 1]
  BY <1>1, <1>2, <1>3, HeadTailProperties, ElementOfSeq
<1>5. /\ part' \in Seq(ByteOf(Started)) /\ Len(part') = Len(part) + 1
      /\ \A i \in 1 .. Len(part) : part'[i] = part[i]
      /\ part'[Len(part) + 1] = socket[1]
      /\ part' # <<>>
  BY <1>1, <1>2, <1>4, AppendProperties
<1>6. socket' = <<>> <=> Len(socket') = 0
  BY <1>4, EmptyIffNone
<1>7. LastRead' = socket[1]
  BY <1>5 DEF LastRead
<1>8. LastWritten' = LastWritten
  <2>1. CASE Len(socket) = 1
    BY <1>2, <1>4, <1>6, <1>7, <2>1 DEF LastWritten
  <2>2. CASE Len(socket) # 1
    <3>1. socket' # <<>> /\ Len(socket') \in 1 .. Len(socket')
      BY <1>1, <1>2, <1>3, <1>4, <1>6, <2>2
    <3>2. socket'[Len(socket')] = socket[Len(socket)]
      BY <1>1, <1>4, <3>1
    <3> QED BY <1>2, <3>1, <3>2 DEF LastWritten
  <2> QED BY <2>1, <2>2
<1>9. Follows(LastRead, socket[1])
  BY <1>2 DEF Chained
<1>10. ASSUME NEW i \in 1 .. Len(part')
       PROVE  part'[i] = Byte(part'[1].packet, Len(got) + 1, i)
  <2>1. CASE part = <<>>
    <3>1. LastRead.at = PACKET_BYTES /\ LastRead.n = Len(got)
      BY <2>1 DEF LastRead, Byte
    <3>2. socket[1].at = 1 /\ socket[1].n = Len(got) + 1
      BY <1>1, <1>9, <3>1 DEF Follows
    <3>3. socket[1] = Byte(socket[1].packet, Len(got) + 1, 1)
      BY <1>4, <3>2 DEF ByteOf, Byte
    <3>4. i = 1 /\ part'[1] = socket[1]
      BY <1>3, <1>5, <2>1
    <3> QED BY <3>3, <3>4
  <2>2. CASE part # <<>>
    <3>1. Len(part) >= 1 /\ part'[1] = part[1]
      BY <1>1, <1>3, <1>5, <2>2
    <3>2. CASE i <= Len(part)
      BY <1>1, <1>5, <3>1, <3>2 DEF Chained
    <3>3. CASE i = Len(part) + 1
      <4>1. LastRead = Byte(part[1].packet, Len(got) + 1, Len(part))
        BY <1>1, <2>2, <3>1 DEF Chained, LastRead
      <4>2. socket[1] = Byte(part[1].packet, Len(got) + 1, Len(part) + 1)
        BY <1>1, <1>2, <1>9, <4>1 DEF Follows, Byte
      <4> QED BY <1>5, <3>1, <3>3, <4>2
    <3> QED BY <1>1, <1>5, <3>2, <3>3
  <2> QED BY <2>1, <2>2
<1>11. socket' # <<>> => Follows(LastRead', socket'[1])
  <2>1. SUFFICES ASSUME socket' # <<>> PROVE Follows(LastRead', socket'[1])
    OBVIOUS
  <2>2. 1 \in 1 .. Len(socket) - 1 /\ socket'[1] = socket[1 + 1]
    BY <1>1, <1>4, <1>6, <2>1
  <2>3. Follows(socket[1], socket[1 + 1])
    BY <2>2 DEF Chained
  <2> QED BY <1>7, <2>2, <2>3
<1>12. ASSUME NEW i \in 1 .. Len(socket') - 1
       PROVE  Follows(socket'[i], socket'[i + 1])
  <2>1. /\ i + 1 \in 1 .. Len(socket) - 1
        /\ socket'[i] = socket[i + 1] /\ socket'[i + 1] = socket[i + 1 + 1]
    BY <1>1, <1>4
  <2> QED BY <2>1 DEF Chained
<1>13. Started' = Started /\ LastAt' = LastAt /\ Midway' = Midway
  BY <1>2 DEF Started, LastAt, Midway, Sending
<1> QED BY <1>2, <1>8, <1>10, <1>11, <1>12, <1>13 DEF Chained

\* While no packet was cut, the daemon's is one packet, and the next.
LEMMA NotSpliced ==
  ASSUME TypeInv, Chained, Len(part) = PACKET_BYTES
  PROVE  ~Spliced /\ part[1].n = Len(got) + 1 /\ part[PACKET_BYTES].at = PACKET_BYTES
         /\ part[PACKET_BYTES].n = Len(got) + 1 /\ part # <<>>
<1>1. PACKET_BYTES \in Nat /\ PACKET_BYTES >= 1 /\ Len(part) \in Nat
  BY TypeInvNumbers
<1>2. part # <<>>
  BY <1>1, EmptyIffNone DEF TypeInv, DaemonTypes
<1>3. \A i \in 1 .. PACKET_BYTES : part[i] = Byte(part[1].packet, Len(got) + 1, i)
  BY DEF Chained
<1>4. part[1].n = Len(got) + 1 /\ part[PACKET_BYTES].at = PACKET_BYTES
      /\ part[PACKET_BYTES].n = Len(got) + 1
  <2>1. part[1] = Byte(part[1].packet, Len(got) + 1, 1)
    BY <1>1, <1>3
  <2>2. part[PACKET_BYTES] = Byte(part[1].packet, Len(got) + 1, PACKET_BYTES)
    BY <1>1, <1>3
  <2> QED BY <2>1, <2>2 DEF Byte
<1> QED BY <1>2, <1>3, <1>4 DEF Spliced

\* A packet the daemon takes is the one after the last it took.
LEMMA TakePacketChained ==
  ASSUME TypeInv, Chained, TakePacket
  PROVE  Chained'
<1>1. /\ PACKET_BYTES \in Nat /\ PACKET_BYTES >= 1 /\ Len(got) \in Nat
      /\ got \in Seq(0 .. Started) /\ Started \in Nat
  BY TypeInvNumbers DEF TypeInv, DaemonTypes
<1>2. Len(part) = PACKET_BYTES /\ part' = <<>> /\ UNCHANGED <<socket, op, packets, written, begun>>
  BY DEF TakePacket, writeVars
<1>3. /\ ~Spliced /\ part[1].n = Len(got) + 1 /\ part # <<>>
      /\ part[PACKET_BYTES].at = PACKET_BYTES /\ part[PACKET_BYTES].n = Len(got) + 1
  BY <1>2, NotSpliced
<1>4. got' = Append(got, Len(got) + 1)
  BY <1>3 DEF TakePacket
<1>5. /\ Len(got') = Len(got) + 1 /\ got'[Len(got) + 1] = Len(got) + 1
      /\ \A i \in 1 .. Len(got) : got'[i] = got[i]
  <2>1. got \in Seq(Nat)
    BY <1>1, SeqMonotonic
  <2> QED BY <1>1, <1>4, <2>1, AppendProperties
<1>6. \A i \in 1 .. Len(got') : got'[i] = i
  BY <1>1, <1>5 DEF Chained
<1>7. /\ LastRead' = Byte(Request, Len(got) + 1, PACKET_BYTES)
      /\ LastRead = part[PACKET_BYTES]
  BY <1>2, <1>3, <1>5 DEF LastRead
<1>8. LastRead'.n = LastRead.n /\ LastRead'.at = LastRead.at /\ LastRead.at = PACKET_BYTES
  BY <1>3, <1>7 DEF Byte
<1>9. socket # <<>> => Follows(LastRead', socket[1])
  BY <1>1, <1>8 DEF Chained, Follows
<1>10. LastWritten'.n = LastWritten.n /\ LastWritten'.at = LastWritten.at
  BY <1>2, <1>8 DEF LastWritten
<1>11. Started' = Started /\ LastAt' = LastAt /\ Midway' = Midway
  BY <1>2 DEF Started, LastAt, Midway, Sending
<1>12. Midway => LastWritten' = LastWritten
  <2>1. CASE socket = <<>>
    <3>1. LastAt = PACKET_BYTES
      BY <1>8, <2>1 DEF Chained, LastWritten
    <3> QED BY <1>1, <3>1 DEF LastAt, Midway
  <2>2. CASE socket # <<>>
    BY <1>2, <2>2 DEF LastWritten
  <2> QED BY <2>1, <2>2
<1>13. \A i \in 1 .. Len(part') : part'[i] = Byte(part'[1].packet, Len(got') + 1, i)
  BY <1>2
<1> QED BY <1>2, <1>6, <1>9, <1>10, <1>11, <1>12, <1>13 DEF Chained

\* The bytes stay one after the other until a write is given up half way.
LEMMA WireInvNext == WireInv /\ [Next]_vars => WireInv'
<1> SUFFICES ASSUME WireInv, [Next]_vars PROVE WireInv'
  OBVIOUS
<1>1. TypeInv /\ TypeInv'
  BY TypeInvNext DEF WireInv
<1>2. SUFFICES ASSUME ~cut' PROVE Chained'
  BY <1>1 DEF WireInv
<1>3. ~cut
  BY <1>2 DEF Next, Client, Read, SendString, SendRequest, Send, WriteSome, NextPacket, Sent,
              SendFails, Awaited, DaemonReads, ReadByte, TakePacket, DaemonCloses, vars
<1>4. Chained
  BY <1>3 DEF WireInv
<1>5. /\ PACKET_BYTES \in Nat /\ PACKET_BYTES >= 1 /\ written \in Nat /\ begun \in Nat
      /\ written <= PACKET_BYTES
  BY <1>1, TypeInvNumbers DEF TypeInv, ClientTypes
<1>6. CASE SendString \/ SendRequest
  <2>1. UNCHANGED <<socket, part, got>> /\ ~Sending /\ Sending'
        /\ written' = 0 /\ begun' = begun + 1
    BY <1>6 DEF SendString, SendRequest, Send, daemonVars, Sending
  <2>2. Started' = Started /\ LastAt' = LastAt /\ ~Midway'
    BY <1>5, <2>1 DEF Started, LastAt, Midway
  <2> QED BY <1>4, <2>1, <2>2, NothingMoves
<1>7. CASE WriteSome
  BY <1>1, <1>4, <1>7, WriteSomeChained
<1>8. CASE NextPacket \/ Sent
  <2>1. /\ UNCHANGED <<socket, part, got>> /\ Sending /\ written = PACKET_BYTES
        /\ written' = 0 /\ begun' = IF Sending' THEN begun + 1 ELSE begun
    BY <1>8 DEF NextPacket, Sent, Whole, daemonVars, Sending, Return
  <2>2. Started' = Started /\ LastAt' = LastAt /\ ~Midway'
    BY <1>5, <2>1 DEF Started, LastAt, Midway
  <2> QED BY <1>4, <2>1, <2>2, NothingMoves
<1>9. CASE SendFails
  <2>1. /\ UNCHANGED <<socket, part, got>> /\ Sending /\ ~Sending' /\ written = 0
        /\ written' = 0 /\ begun' = begun - 1
    <3>1. ~(written > 0)
      BY <1>2, <1>9, Zenon DEF SendFails
    <3> QED BY <1>5, <1>9, <3>1 DEF SendFails, daemonVars, Sending, Return
  <2>2. Started' = Started /\ LastAt' = LastAt /\ ~Midway'
    BY <1>5, <2>1 DEF Started, LastAt, Midway
  <2> QED BY <1>4, <2>1, <2>2, NothingMoves
<1>10. CASE ReadByte
  BY <1>1, <1>4, <1>10, ReadByteChained
<1>11. CASE TakePacket
  BY <1>1, <1>4, <1>11, TakePacketChained
<1>12. CASE Read \/ Awaited \/ DaemonCloses \/ UNCHANGED vars
  <2>1. UNCHANGED <<socket, part, got, packets, written, begun>> /\ Sending' = Sending
    BY <1>12 DEF Read, Awaited, DaemonCloses, vars, daemonVars, writeVars, Sending, Return
  <2>2. Started' = Started /\ LastAt' = LastAt /\ Midway' = Midway
    BY <2>1 DEF Started, LastAt, Midway
  <2> QED BY <1>4, <2>1, <2>2, NothingMoves
<1> QED BY <1>6, <1>7, <1>8, <1>9, <1>10, <1>11, <1>12 DEF Next, Client, DaemonReads

\* At first there are none.
LEMMA WireInvInit == Init => WireInv
<1> SUFFICES ASSUME Init PROVE WireInv
  OBVIOUS
<1>1. /\ socket = <<>> /\ part = <<>> /\ got = <<>> /\ ~Sending /\ begun = 0
      /\ Len(got) = 0 /\ Len(socket) = 0 /\ Len(part) = 0
  BY EmptySeq DEF Init, Sending
<1>2. LastWritten = Byte(Request, 0, PACKET_BYTES)
  BY <1>1 DEF LastWritten, LastRead
<1>3. LastWritten.n = Started /\ LastWritten.at = LastAt /\ ~Midway
  BY <1>1, <1>2 DEF Byte, Started, LastAt, Midway
<1> QED BY <1>1, <1>3, TypeInvInit DEF WireInv, Chained

\* The daemon takes the packets the client began, each once and in order, for
\* packets and sockets of any size and however writes and reads cut them: until one
\* is given up half written (send, write_all).
THEOREM PacketsAlwaysWhole == Spec => []PacketsWhole
<1>1. Init => WireInv
  BY WireInvInit
<1>2. WireInv /\ [Next]_vars => WireInv'
  BY WireInvNext
<1>3. WireInv => PacketsWhole
  BY DEF WireInv, Chained, PacketsWhole
<1> QED BY <1>1, <1>2, <1>3, PTL DEF Spec

-----------------------------------------------------------------------------
(* Strings, piece by piece. *)

\* A reader that has the first k pieces of a string, of which there are more.
After(text, k) ==
  [text |-> SubSeq(CutShort(text), 1, k * CHUNK),
   expect |-> Len(CutShort(text)) - k * CHUNK]

\* The bytes up to a place, and those of a piece that begins there.
LEMMA JoinPiece ==
  ASSUME NEW bytes \in Seq(Nat), NEW p \in Nat, NEW take \in Nat, p + take <= Len(bytes),
         NEW data, \A j \in 1 .. take : data[j] = bytes[p + j]
  PROVE  SubSeq(bytes, 1, p) \o SubSeq(data, 1, take) = SubSeq(bytes, 1, p + take)
<1>1. Len(bytes) \in Nat /\ \A j \in 1 .. Len(bytes) : bytes[j] \in Nat
  BY LenProperties, ElementOfSeq
<1>2. ASSUME NEW q \in Nat, NEW s, \A j \in 1 .. q : s[j] \in Nat
      PROVE  /\ SubSeq(s, 1, q) \in Seq(Nat) /\ Len(SubSeq(s, 1, q)) = q
             /\ \A j \in 1 .. q : SubSeq(s, 1, q)[j] = s[j]
  <2>1. /\ SubSeq(s, 1, q) \in Seq(Nat)
        /\ Len(SubSeq(s, 1, q)) = IF 1 <= q THEN q - 1 + 1 ELSE 0
        /\ \A j \in 1 .. q - 1 + 1 : SubSeq(s, 1, q)[j] = s[1 + j - 1]
    BY <1>2, SubSeqProperties
  <2>2. Len(SubSeq(s, 1, q)) = q
    BY <2>1
  <2>3. ASSUME NEW j \in 1 .. q
        PROVE  SubSeq(s, 1, q)[j] = s[j]
    <3>1. j \in 1 .. q - 1 + 1 /\ 1 + j - 1 = j
      OBVIOUS
    <3> QED BY <2>1, <3>1
  <2> QED BY <2>1, <2>2, <2>3
<1> DEFINE a == SubSeq(bytes, 1, p)
           b == SubSeq(data, 1, take)
           c == SubSeq(bytes, 1, p + take)
<1>3. /\ a \in Seq(Nat) /\ Len(a) = p /\ \A j \in 1 .. p : a[j] = bytes[j]
  <2>1. \A j \in 1 .. p : bytes[j] \in Nat
    BY <1>1
  <2> QED BY <1>2, <2>1
<1>4. /\ c \in Seq(Nat) /\ Len(c) = p + take /\ \A j \in 1 .. p + take : c[j] = bytes[j]
  <2>1. \A j \in 1 .. p + take : bytes[j] \in Nat
    BY <1>1
  <2>2. p + take \in Nat
    OBVIOUS
  <2> QED BY <1>2, <2>1, <2>2
<1>5. /\ b \in Seq(Nat) /\ Len(b) = take /\ \A j \in 1 .. take : b[j] = bytes[p + j]
  <2>1. ASSUME NEW j \in 1 .. take
        PROVE  data[j] \in Nat /\ data[j] = bytes[p + j]
    <3>1. p + j \in 1 .. Len(bytes)
      BY <1>1
    <3>2. bytes[p + j] \in Nat
      BY <1>1, <3>1
    <3> QED BY <3>2
  <2> QED BY <1>2, <2>1
<1> HIDE DEF a, b, c
<1> DEFINE ab == a \o b
<1>6. /\ ab \in Seq(Nat) /\ Len(ab) = p + take
      /\ \A j \in 1 .. p + take : ab[j] = IF j <= p THEN a[j] ELSE b[j - p]
  BY <1>3, <1>5, ConcatProperties
<1> HIDE DEF ab
<1>7. ASSUME NEW j \in 1 .. p + take
      PROVE  ab[j] = c[j]
  <2>1. CASE j <= p
    <3>1. j \in 1 .. p
      BY <2>1
    <3> QED BY <1>3, <1>4, <1>6, <2>1, <3>1
  <2>2. CASE j > p
    <3>1. j - p \in 1 .. take /\ p + (j - p) = j /\ ~(j <= p)
      BY <2>2
    <3>2. b[j - p] = bytes[p + (j - p)]
      BY <1>5, <3>1
    <3>3. ab[j] = b[j - p]
      BY <1>6, <3>1
    <3> QED BY <1>4, <3>1, <3>2, <3>3
  <2> QED BY <2>1, <2>2
<1> QED BY <1>4, <1>6, <1>7, SeqEqual DEF a, b, c, ab

\* The i-th piece of a string, gathered by any reader if it is the first, and by one
\* that has those before it if it is not, joins them; after the last one the text is
\* there and nothing is to come.
LEMMA GatherPiece ==
  ASSUME NEW s \in Settings, NEW text \in Texts, NEW i \in 1 .. Count(text),
         NEW reader \in Reader, i > 1 => reader = After(text, i - 1)
  PROVE  LET gathered == Gathered(reader, StringPackets(s, text)[i])
         IN  /\ i < Count(text) => gathered.expect \in Nat \ {0} /\ gathered = After(text, i)
             /\ i = Count(text) => gathered.expect = 0 /\ gathered.text = CutShort(text)
<1> DEFINE bytes == CutShort(text)
           packet == StringPackets(s, text)[i]
           left == Len(bytes) - Before(i)
           now == IF IsContinuation(packet) THEN reader ELSE [text |-> <<>>, expect |-> left]
           take == Take(left)
           whole == now.text \o SubSeq(packet.data, 1, take)
<1>0. SUFFICES /\ i < Count(text) => /\ Gathered(reader, packet).expect \in Nat \ {0}
                                     /\ Gathered(reader, packet) = After(text, i)
               /\ i = Count(text) => /\ Gathered(reader, packet).expect = 0
                                     /\ Gathered(reader, packet).text = bytes
  OBVIOUS
<1>1. bytes \in Seq(Nat) /\ Len(bytes) \in 0 .. MAX_STRING /\ Len(bytes) \in Nat
      /\ MAX_STRING \in Nat /\ CHUNK \in Nat /\ CHUNK >= 1
  BY CutShortType, SendAssumption, StringAssumption
<1>2. Count(text) \in Nat /\ i \in Nat /\ i >= 1 /\ i <= Count(text)
  <2>1. Count(text) \in Nat
    BY <1>1, PacketCountBounds DEF Count
  <2> QED BY <2>1
<1>3. /\ Before(i) \in Nat /\ Before(i) <= Len(bytes)
      /\ packet.word = Remaining(left, i > 1)
      /\ packet.data = [j \in 1 .. CHUNK |-> IF Before(i) + j <= Len(bytes)
                                              THEN bytes[Before(i) + j] ELSE NoByte]
  <2>1. i \in 1 .. Count(text)
    OBVIOUS
  <2>2. /\ Before(i) \in Nat /\ Before(i) <= Len(bytes)
        /\ packet.word = Remaining(left, i > 1)
        /\ packet.data = PieceData(text, i)
    BY <2>1, StringPacketsAre
  <2> HIDE DEF packet, left
  <2> QED BY <2>2, Zenon DEF PieceData
<1>4. i * CHUNK = Before(i) + CHUNK
  BY <1>1, <1>2 DEF Before
<1>5. /\ i < Count(text) => Before(i) + CHUNK < Len(bytes)
      /\ i = Count(text) => Len(bytes) <= Before(i) + CHUNK
  <2>1. /\ Len(bytes) <= Count(text) * CHUNK
        /\ \A j \in 1 .. Count(text) - 1 : j * CHUNK < Len(bytes)
    BY <1>1, PacketCountBounds DEF Count
  <2> HIDE DEF bytes
  <2>2. ASSUME i < Count(text)
        PROVE  i * CHUNK < Len(bytes)
    <3>1. i \in 1 .. Count(text) - 1
      BY <1>2, <2>2
    <3> QED BY <2>1, <3>1
  <2> QED BY <1>1, <1>2, <1>4, <2>1, <2>2
<1> HIDE DEF bytes, packet
<1>6. left \in 0 .. MAX_STRING /\ left \in Nat
  BY <1>1, <1>3
<1> HIDE DEF left
<1>7. /\ packet.word \in Nat /\ packet.word % CONT_BIT = left
      /\ IsContinuation(packet) <=> i > 1
  <2> DEFINE cont == i > 1
  <2>1. cont \in BOOLEAN /\ packet.word = Remaining(left, cont)
    BY <1>3
  <2> HIDE DEF cont
  <2>2. /\ Remaining(left, cont) \in Nat /\ Remaining(left, cont) % CONT_BIT = left
        /\ (Remaining(left, cont) \div CONT_BIT) % 2 = 1 <=> cont
    BY <1>6, <2>1, RemainingReadBack
  <2> QED BY <2>1, <2>2 DEF IsContinuation, cont
<1>8. take \in Nat /\ take <= CHUNK /\ take <= left
      /\ (i < Count(text) => take = CHUNK /\ take < left) /\ (i = Count(text) => take = left)
  <2>1. take = IF left <= CHUNK THEN left ELSE CHUNK
    BY DEF Take, AtMost
  <2>2. (i < Count(text) => CHUNK < left) /\ (i = Count(text) => left <= CHUNK)
    BY <1>1, <1>3, <1>5 DEF left
  <2> HIDE DEF take
  <2> QED BY <1>1, <1>6, <2>1, <2>2
<1> HIDE DEF take
<1>9. now = [text |-> SubSeq(bytes, 1, Before(i)), expect |-> left]
  <2>1. CASE i > 1
    <3>1. now = reader
      BY <1>7, <2>1
    <3>2. (i - 1) * CHUNK = Before(i)
      BY DEF Before
    <3> QED BY <2>1, <3>1, <3>2 DEF After, bytes, left
  <2>2. CASE ~(i > 1)
    <3>1. now = [text |-> <<>>, expect |-> left]
      BY <1>7, <2>2
    <3>2. Before(i) = 0
      BY <1>1, <1>2, <2>2 DEF Before
    <3>3. SubSeq(bytes, 1, 0) = <<>>
      BY SubSeqEmpty
    <3> QED BY <3>1, <3>2, <3>3, Zenon
  <2> QED BY <2>1, <2>2
<1>10. Gathered(reader, packet) = [text |-> whole, expect |-> now.expect - take]
  BY <1>7 DEF Gathered, take
<1> HIDE DEF now
<1>11. whole = SubSeq(bytes, 1, Before(i) + take)
  <2>1. Before(i) + take <= Len(bytes)
    BY <1>1, <1>3, <1>8 DEF left
  <2>2. ASSUME NEW j \in 1 .. take
        PROVE  packet.data[j] = bytes[Before(i) + j]
    <3>1. j \in 1 .. CHUNK /\ Before(i) + j <= Len(bytes)
      BY <1>1, <1>3, <1>8, <2>1
    <3> QED BY <1>3, <3>1
  <2>3. SubSeq(bytes, 1, Before(i)) \o SubSeq(packet.data, 1, take)
          = SubSeq(bytes, 1, Before(i) + take)
    BY <1>1, <1>3, <1>8, <2>1, <2>2, JoinPiece
  <2>4. now.text = SubSeq(bytes, 1, Before(i))
    BY <1>9
  <2> QED BY <2>3, <2>4, Zenon
<1> HIDE DEF whole
<1>12. Gathered(reader, packet) = [text |-> whole, expect |-> left - take]
  BY <1>9, <1>10
<1>13. CASE i < Count(text)
  <2>1. left - take \in Nat \ {0}
    BY <1>6, <1>8, <1>13
  <2>2. left - take = Len(bytes) - i * CHUNK /\ Before(i) + take = i * CHUNK
    BY <1>1, <1>3, <1>4, <1>6, <1>8, <1>13 DEF left
  <2>3. After(text, i) = [text |-> whole, expect |-> left - take]
    BY <1>11, <2>2, Zenon DEF After, bytes
  <2> QED BY <1>2, <1>12, <1>13, <2>1, <2>3
<1>14. CASE i = Count(text)
  <2>1. left - take = 0 /\ Before(i) + take = Len(bytes)
    BY <1>1, <1>3, <1>8, <1>14 DEF left
  <2>2. SubSeq(bytes, 1, Len(bytes)) = bytes
    BY <1>1, SubSeqFull
  <2>3. whole = bytes
    BY <1>11, <2>1, <2>2, Zenon
  <2> QED BY <1>2, <1>12, <1>14, <2>1, <2>3
<1> QED BY <1>2, <1>13, <1>14

(***************************************************************************)
(* Where each packet comes from: the setting, the text and the piece of it.  *)
(* Of a request, the one piece of no text.                                   *)
(***************************************************************************)
Pieces(o) == IF o.setting = "request" THEN 1 ELSE Count(o.text)

Origin ==
  {o \in [setting : Settings \cup {"request"}, text : Seq(Nat), piece : Nat] :
     /\ o.setting # "request" => o.text \in Texts
     /\ 1 <= o.piece /\ o.piece <= Pieces(o)}

PacketFrom(o) ==
  IF o.setting = "request" THEN Request ELSE StringPackets(o.setting, o.text)[o.piece]

PieceOf(o, i) == [setting |-> o.setting, text |-> o.text, piece |-> i]

\* The packets begun have an origin each; a piece that is not the first comes right
\* after the one before it.
Origins(from) ==
  /\ from \in Seq(Origin) /\ Len(from) = begun
  /\ \A n \in 1 .. begun :
       from[n].piece > 1 => n > 1 /\ from[n - 1] = PieceOf(from[n], from[n].piece - 1)

\* What is on the way is of its packet's origin.
BytesFrom(from) ==
  /\ \A i \in 1 .. Len(socket) : socket[i].packet = PacketFrom(from[socket[i].n])
  /\ \A i \in 1 .. Len(part) : part[i].packet = PacketFrom(from[part[i].n])

\* A call has the rest of its string left, which is the last of its setting.
CallFrom(from) ==
  Sending =>
    /\ Len(packets) = Pieces(from[begun]) - from[begun].piece + 1
    /\ \A k \in 1 .. Len(packets) :
         packets[k] = PacketFrom(PieceOf(from[begun], from[begun].piece + k - 1))
    /\ op = "string" <=> from[begun].setting # "request"
    /\ op = "string" => /\ ~last[from[begun].setting].sent
                        /\ last[from[begun].setting].text = CutShort(from[begun].text)

\* The reader of the packet taken last has the pieces of its string up to there.
ReaderFrom(from) ==
  Len(got) > 0 /\ from[Len(got)].setting # "request" =>
    IF from[Len(got)].piece < Pieces(from[Len(got)])
    THEN readers[from[Len(got)].setting] = After(from[Len(got)].text, from[Len(got)].piece)
    ELSE held[from[Len(got)].setting] = CutShort(from[Len(got)].text)

\* The last string of a setting is held and nothing of the setting is on the way, or
\* its last piece is the last thing of the setting that is.
Settled(from, s) ==
  held[s] = last[s].text /\ \A n \in Len(got) + 1 .. begun : from[n].setting # s

EndsWith(from, s, n) ==
  /\ n \in Len(got) + 1 .. begun
  /\ from[n].setting = s /\ CutShort(from[n].text) = last[s].text
  /\ from[n].piece = Pieces(from[n])
  /\ \A m \in n + 1 .. begun : from[m].setting # s

LastFrom(from) ==
  \A s \in Settings : last[s].sent => Settled(from, s) \/ \E n \in Nat : EndsWith(from, s, n)

Good(from) ==
  Origins(from) /\ BytesFrom(from) /\ CallFrom(from) /\ ReaderFrom(from) /\ LastFrom(from)

HeldTypes ==
  /\ held \in [Settings -> Seq(Nat)]
  /\ last \in [Settings -> [text : Seq(Nat), sent : BOOLEAN]]
  /\ \A s \in Settings : held[s] \in {<<>>} \cup {CutShort(text) : text \in Texts}

StringInv == WireInv /\ (~cut => HeldTypes /\ \E from \in Seq(Origin) : Good(from))

\* The packet of an origin.
LEMMA PacketFromIs ==
  ASSUME NEW o \in Origin
  PROVE  /\ PacketFrom(o) = Request <=> o.setting = "request"
         /\ o.setting # "request" => /\ o.setting \in Settings /\ o.text \in Texts
                                     /\ Pieces(o) = Count(o.text)
                                     /\ PacketFrom(o) = StringPackets(o.setting, o.text)[o.piece]
                                     /\ PacketFrom(o).id = o.setting
         /\ o.piece \in Nat /\ o.piece >= 1 /\ o.piece <= Pieces(o) /\ Pieces(o) \in Nat
         /\ PieceOf(o, o.piece) = o
<1>1. /\ o.piece \in Nat /\ 1 <= o.piece /\ o.piece <= Pieces(o)
      /\ o.setting # "request" => o.setting \in Settings /\ o.text \in Texts
      /\ PieceOf(o, o.piece) = o
  BY DEF Origin, PieceOf
<1>2. CASE o.setting = "request"
  BY <1>1, <1>2 DEF PacketFrom, Pieces
<1>3. CASE o.setting # "request"
  <2>1. o.setting \in Settings /\ o.text \in Texts /\ Pieces(o) = Count(o.text)
    BY <1>1, <1>3 DEF Pieces
  <2>2. Count(o.text) \in Nat /\ o.piece \in 1 .. Count(o.text)
    BY <1>1, <2>1, StringPacketsAre
  <2>3. StringPackets(o.setting, o.text)[o.piece].id = o.setting
    BY <2>1, <2>2, StringPacketsAre
  <2>4. PacketFrom(o) = StringPackets(o.setting, o.text)[o.piece]
    BY <1>3 DEF PacketFrom
  <2>5. Request.id = "request"
    BY DEF Request
  <2>6. PacketFrom(o) # Request
    BY <1>3, <2>3, <2>4, <2>5
  <2> QED BY <1>1, <1>3, <2>1, <2>2, <2>3, <2>4, <2>6
<1> QED BY <1>2, <1>3

\* One more packet, with its origin.
LEMMA OneMore ==
  ASSUME NEW from \in Seq(Origin), NEW o \in Origin
  PROVE  /\ Append(from, o) \in Seq(Origin)
         /\ Len(from) \in Nat /\ Len(Append(from, o)) = Len(from) + 1
         /\ \A n \in 1 .. Len(from) : Append(from, o)[n] = from[n]
         /\ Append(from, o)[Len(from) + 1] = o
BY AppendProperties, LenProperties

\* What Good speaks of, with its numbers.
LEMMA GoodNumbers ==
  ASSUME TypeInv, Chained, NEW from, Origins(from)
  PROVE  /\ begun \in Nat /\ Len(got) \in Nat /\ Len(got) <= Started /\ Started <= begun
         /\ Started \in Nat
         /\ Len(from) = begun /\ from \in Seq(Origin)
         /\ \A n \in 1 .. begun : from[n] \in Origin
         /\ \A i \in 1 .. Len(socket) : socket[i].n \in 1 .. Started
         /\ \A i \in 1 .. Len(part) : part[i].n \in 1 .. Started
<1>1. /\ begun \in Nat /\ Len(got) \in Nat /\ Started \in Nat /\ Started <= begun
      /\ got \in Seq(0 .. Started)
  BY TypeInvNumbers DEF TypeInv, DaemonTypes
<1>2. Len(got) <= Started
  <2>1. CASE Len(got) = 0
    BY <1>1, <2>1
  <2>2. CASE Len(got) # 0
    <3>1. Len(got) \in 1 .. Len(got)
      BY <1>1, <2>2
    <3>2. got[Len(got)] = Len(got) /\ got[Len(got)] \in 0 .. Started
      BY <1>1, <3>1, ElementOfSeq DEF Chained
    <3> QED BY <1>1, <3>2
  <2> QED BY <2>1, <2>2
<1>3. \A n \in 1 .. begun : from[n] \in Origin
  BY ElementOfSeq DEF Origins
<1>4. /\ \A i \in 1 .. Len(socket) : socket[i] \in ByteOf(Started)
      /\ \A i \in 1 .. Len(part) : part[i] \in ByteOf(Started)
  BY ElementOfSeq DEF TypeInv, DaemonTypes
<1> QED BY <1>1, <1>2, <1>3, <1>4 DEF ByteOf, Origins

\* A packet more is begun, of a setting whose last string is not sent yet.
LEMMA BeginsGood ==
  ASSUME TypeInv, Chained, NEW from, Good(from), NEW o \in Origin,
         UNCHANGED <<socket, daemonVars>>, begun' = begun + 1,
         o.piece > 1 => begun > 0 /\ from[begun] = PieceOf(o, o.piece - 1),
         \A s \in Settings : last'[s].sent => last'[s] = last[s] /\ o.setting # s,
         CallFrom(Append(from, o))'
  PROVE  Good(Append(from, o))'
<1> DEFINE to == Append(from, o)
<1>1. /\ begun \in Nat /\ Len(got) \in Nat /\ Len(got) <= Started /\ Started <= begun
      /\ Started \in Nat
      /\ Len(from) = begun /\ from \in Seq(Origin)
      /\ \A i \in 1 .. Len(socket) : socket[i].n \in 1 .. Started
      /\ \A i \in 1 .. Len(part) : part[i].n \in 1 .. Started
  BY GoodNumbers DEF Good
<1>2. /\ to \in Seq(Origin) /\ Len(to) = begun + 1 /\ to[begun + 1] = o
      /\ \A n \in 1 .. begun : to[n] = from[n]
  BY <1>1, OneMore
<1> HIDE DEF to
<1>3. UNCHANGED <<socket, part, got, held, readers>>
  BY DEF daemonVars
<1>4. Origins(to)'
  <2>1. ASSUME NEW n \in 1 .. begun + 1, to[n].piece > 1
        PROVE  n > 1 /\ to[n - 1] = PieceOf(to[n], to[n].piece - 1)
    <3>1. CASE n = begun + 1
      BY <1>1, <1>2, <2>1, <3>1
    <3>2. CASE n # begun + 1
      <4>1. n \in 1 .. begun /\ to[n] = from[n]
        BY <1>1, <1>2, <3>2
      <4>2. n > 1 /\ from[n - 1] = PieceOf(from[n], from[n].piece - 1)
        BY <2>1, <4>1 DEF Good, Origins
      <4> QED BY <1>1, <1>2, <4>1, <4>2
    <3> QED BY <3>1, <3>2
  <2> QED BY <1>2, <2>1 DEF Origins
<1>5. BytesFrom(to)'
  <2>1. ASSUME NEW i \in 1 .. Len(socket)
        PROVE  socket[i].packet = PacketFrom(to[socket[i].n])
    <3>1. socket[i].n \in 1 .. begun
      BY <1>1
    <3> QED BY <1>2, <3>1 DEF Good, BytesFrom
  <2>2. ASSUME NEW i \in 1 .. Len(part)
        PROVE  part[i].packet = PacketFrom(to[part[i].n])
    <3>1. part[i].n \in 1 .. begun
      BY <1>1
    <3> QED BY <1>2, <3>1 DEF Good, BytesFrom
  <2> QED BY <1>3, <2>1, <2>2 DEF BytesFrom
<1>6. ReaderFrom(to)'
  <2>1. Len(got) > 0 => to[Len(got)] = from[Len(got)]
    BY <1>1, <1>2
  <2> QED BY <1>3, <2>1 DEF Good, ReaderFrom
<1>7. ASSUME NEW s \in Settings, last'[s].sent
      PROVE  Settled(to, s)' \/ \E n \in Nat : EndsWith(to, s, n)'
  <2>1. last'[s] = last[s] /\ o.setting # s
    BY <1>7
  <2>2. CASE Settled(from, s)
    <3>1. ASSUME NEW n \in Len(got) + 1 .. begun + 1
          PROVE  to[n].setting # s
      <4>1. n = begun + 1 \/ (n \in Len(got) + 1 .. begun /\ n \in 1 .. begun)
        BY <1>1
      <4> QED BY <1>2, <2>1, <2>2, <4>1 DEF Settled
    <3> QED BY <1>3, <2>1, <2>2, <3>1 DEF Settled
  <2>3. ASSUME NEW n \in Nat, EndsWith(from, s, n)
        PROVE  EndsWith(to, s, n)'
    <3>1. n \in Len(got) + 1 .. begun /\ n \in 1 .. begun
      BY <1>1, <2>3 DEF EndsWith
    <3>2. to[n] = from[n]
      BY <1>2, <3>1
    <3>3. ASSUME NEW m \in n + 1 .. begun + 1
          PROVE  to[m].setting # s
      <4>1. m = begun + 1 \/ (m \in n + 1 .. begun /\ m \in 1 .. begun)
        BY <1>1, <3>1
      <4> QED BY <1>2, <2>1, <2>3, <4>1 DEF EndsWith
    <3>4. n \in Len(got) + 1 .. begun + 1
      BY <1>1, <3>1
    <3> QED BY <1>3, <2>1, <2>3, <3>2, <3>3, <3>4 DEF EndsWith
  <2> QED BY <1>7, <2>1, <2>2, <2>3 DEF Good, LastFrom
<1>8. LastFrom(to)'
  BY <1>7 DEF LastFrom
<1> QED BY <1>4, <1>5, <1>6, <1>8 DEF Good, to

\* A step that begins and gives up no packet, and takes none.
LEMMA CallStepGood ==
  ASSUME TypeInv, Chained, NEW from, Good(from), UNCHANGED <<begun, got, held, readers>>,
         BytesFrom(from)', CallFrom(from)',
         \A s \in Settings : last'[s].sent => last'[s] = last[s] \/ Settled(from, s)'
                                               \/ EndsWith(from, s, begun)'
  PROVE  Good(from)'
<1>1. Origins(from)' /\ ReaderFrom(from)'
  BY DEF Good, Origins, ReaderFrom
<1>2. ASSUME NEW s \in Settings, last'[s].sent
      PROVE  Settled(from, s)' \/ \E n \in Nat : EndsWith(from, s, n)'
  <2>1. CASE last'[s] = last[s]
    <3>1. Settled(from, s) => Settled(from, s)'
      BY <2>1 DEF Settled
    <3>2. \A n \in Nat : EndsWith(from, s, n) => EndsWith(from, s, n)'
      BY <2>1 DEF EndsWith
    <3> QED BY <1>2, <2>1, <3>1, <3>2 DEF Good, LastFrom
  <2>2. begun \in Nat
    BY TypeInvNumbers
  <2> QED BY <1>2, <2>1, <2>2
<1>3. LastFrom(from)'
  BY <1>2 DEF LastFrom
<1> QED BY <1>1, <1>3 DEF Good

\* A string begins with its first piece, and a request with all of it.
LEMMA SendGood ==
  ASSUME TypeInv, Chained, HeldTypes, NEW from, Good(from), SendString \/ SendRequest
  PROVE  HeldTypes' /\ \E to \in Seq(Origin) : Good(to)'
<1>1. begun \in Nat /\ Len(from) = begun /\ from \in Seq(Origin)
  BY GoodNumbers DEF Good
<1>2. CASE SendRequest
  <2> DEFINE o == [setting |-> "request", text |-> <<>>, piece |-> 1]
             to == Append(from, o)
  <2>1. o \in Origin
    <3>1. <<>> \in Seq(Nat)
      BY EmptySeq
    <3> QED BY <3>1 DEF Origin, Pieces
  <2>2. /\ o.setting = "request" /\ o.piece = 1 /\ Pieces(o) = 1 /\ PieceOf(o, 1) = o
        /\ PacketFrom(o) = Request
    BY DEF Pieces, PieceOf, PacketFrom
  <2> HIDE DEF o
  <2>3. /\ packets' = <<Request>> /\ op' = "request" /\ last' = last /\ begun' = begun + 1
        /\ UNCHANGED <<socket, daemonVars>>
    BY <1>2 DEF SendRequest, Send
  <2>4. to \in Seq(Origin) /\ to[begun + 1] = o
    BY <1>1, <2>1, OneMore
  <2>5. CallFrom(to)'
    <3>1. Len(packets') = 1 /\ packets'[1] = Request
      BY <2>3
    <3>2. ASSUME NEW k \in 1 .. Len(packets')
          PROVE  packets'[k] = PacketFrom(PieceOf(o, o.piece + k - 1))
      <4>1. k = 1 /\ o.piece + k - 1 = 1
        BY <2>2, <3>1
      <4> QED BY <2>2, <3>1, <4>1
    <3> HIDE DEF to
    <3> QED BY <2>2, <2>3, <2>4, <3>1, <3>2 DEF CallFrom
  <2>6. \A s \in Settings : last'[s] = last[s] /\ o.setting # s
    BY <2>2, <2>3, SendAssumption
  <2>7. Good(to)'
    BY <2>1, <2>2, <2>3, <2>5, <2>6, BeginsGood
  <2>8. HeldTypes'
    BY <2>3 DEF HeldTypes, daemonVars
  <2> QED BY <2>4, <2>7, <2>8
<1>3. CASE SendString
  <2>1. PICK s \in Settings, text \in Texts :
          /\ Send("string", StringPackets(s, text))
          /\ last' = [last EXCEPT ![s] = [text |-> CutShort(text), sent |-> FALSE]]
    BY <1>3 DEF SendString
  <2> DEFINE o == [setting |-> s, text |-> text, piece |-> 1]
             to == Append(from, o)
             ps == StringPackets(s, text)
  <2>2. Count(text) \in Nat /\ 1 <= Count(text) /\ Len(ps) = Count(text) /\ s # "request"
    BY StringPacketsAre, SendAssumption
  <2>3. o \in Origin
    BY <2>2, SendAssumption DEF Origin, Pieces
  <2>4. o.setting = s /\ o.text = text /\ o.piece = 1 /\ Pieces(o) = Count(text)
    BY <2>2 DEF Pieces
  <2>5. ASSUME NEW k
        PROVE  PacketFrom(PieceOf(o, k)) = ps[k]
    BY <2>2 DEF PacketFrom, PieceOf
  <2> HIDE DEF o, ps
  <2>6. /\ packets' = ps /\ op' = "string" /\ begun' = begun + 1
        /\ UNCHANGED <<socket, daemonVars>>
    BY <2>1 DEF Send, ps
  <2>7. to \in Seq(Origin) /\ to[begun + 1] = o
    BY <1>1, <2>3, OneMore
  <2>8. /\ last'[s] = [text |-> CutShort(text), sent |-> FALSE]
        /\ \A r \in Settings : r # s => last'[r] = last[r]
        /\ last' \in [Settings -> [text : Seq(Nat), sent : BOOLEAN]]
    <3>1. CutShort(text) \in Seq(Nat)
      BY CutShortType, SendAssumption
    <3> QED BY <2>1, <3>1 DEF HeldTypes
  <2>9. CallFrom(to)'
    <3>1. ASSUME NEW k \in 1 .. Len(ps)
          PROVE  ps[k] = PacketFrom(PieceOf(o, o.piece + k - 1))
      <4>1. o.piece + k - 1 = k
        BY <2>2, <2>4
      <4> QED BY <2>5, <4>1
    <3> HIDE DEF to
    <3> QED BY <2>2, <2>4, <2>6, <2>7, <2>8, <3>1 DEF CallFrom
  <2>10. \A r \in Settings : last'[r].sent => last'[r] = last[r] /\ o.setting # r
    BY <2>4, <2>8
  <2>11. Good(to)'
    BY <2>3, <2>4, <2>6, <2>9, <2>10, BeginsGood
  <2>12. HeldTypes'
    BY <2>6, <2>8 DEF HeldTypes, daemonVars
  <2> QED BY <2>7, <2>11, <2>12
<1> QED BY <1>2, <1>3

\* The next piece of the string follows.
LEMMA NextPacketGood ==
  ASSUME TypeInv, Chained, HeldTypes, NEW from, Good(from), NextPacket
  PROVE  HeldTypes' /\ \E to \in Seq(Origin) : Good(to)'
<1>1. /\ begun \in Nat /\ Len(from) = begun /\ from \in Seq(Origin)
      /\ \A n \in 1 .. begun : from[n] \in Origin
  BY GoodNumbers DEF Good
<1>2. /\ Len(packets) \in Nat /\ packets \in Seq(Packet) /\ packets # <<>> /\ begun > 0
      /\ Sending /\ Len(packets) > 1
  BY TypeInvNumbers DEF TypeInv, ClientTypes, NextPacket
<1>3. /\ packets' = Tail(packets) /\ begun' = begun + 1
      /\ UNCHANGED <<op, last, socket, daemonVars>> /\ Sending'
  BY DEF NextPacket, Sending
<1>4. /\ Len(packets') = Len(packets) - 1
      /\ \A k \in 1 .. Len(packets') : packets'[k] = packets[k + 1]
  BY <1>2, <1>3, HeadTailProperties
<1>0. PICK p : p = from[begun]
  OBVIOUS
<1> DEFINE o == PieceOf(p, p.piece + 1)
           to == Append(from, o)
<1>5. /\ p \in Origin /\ p.piece \in Nat /\ p.piece >= 1 /\ Pieces(p) \in Nat
      /\ Len(packets) = Pieces(p) - p.piece + 1
      /\ \A k \in 1 .. Len(packets) : packets[k] = PacketFrom(PieceOf(p, p.piece + k - 1))
      /\ op = "string" <=> p.setting # "request"
      /\ op = "string" => ~last[p.setting].sent /\ last[p.setting].text = CutShort(p.text)
  <2>1. p \in Origin
    BY <1>0, <1>1, <1>2
  <2>2. p.piece \in Nat /\ p.piece >= 1 /\ Pieces(p) \in Nat
    BY <2>1, PacketFromIs
  <2> QED BY <1>0, <1>2, <2>1, <2>2 DEF Good, CallFrom
<1>6. /\ o.setting = p.setting /\ o.text = p.text /\ o.piece = p.piece + 1
      /\ Pieces(o) = Pieces(p) /\ PieceOf(o, o.piece - 1) = p
      /\ \A k : PieceOf(o, k) = PieceOf(p, k)
  <2>1. /\ o.setting = p.setting /\ o.text = p.text /\ o.piece = p.piece + 1
        /\ Pieces(o) = Pieces(p) /\ \A k : PieceOf(o, k) = PieceOf(p, k)
    BY DEF PieceOf, Pieces
  <2>2. o.piece - 1 = p.piece /\ PieceOf(p, p.piece) = p
    BY <1>5, <2>1, PacketFromIs
  <2> QED BY <2>1, <2>2
<1>7. o \in Origin
  <2>1. /\ p.setting \in Settings \cup {"request"} /\ p.text \in Seq(Nat)
        /\ p.setting # "request" => p.text \in Texts
    BY <1>5 DEF Origin
  <2>2. p.piece + 1 \in Nat /\ 1 <= p.piece + 1 /\ p.piece + 1 <= Pieces(p)
    BY <1>2, <1>5
  <2>3. o \in [setting : Settings \cup {"request"}, text : Seq(Nat), piece : Nat]
    BY <2>1, <2>2 DEF PieceOf
  <2> HIDE DEF o
  <2> QED BY <1>6, <2>1, <2>2, <2>3 DEF Origin
<1> HIDE DEF o
<1>8. to \in Seq(Origin) /\ to[begun + 1] = o
  BY <1>1, <1>7, OneMore
<1>9. CallFrom(to)'
  <2>1. ASSUME NEW k \in 1 .. Len(packets')
        PROVE  packets'[k] = PacketFrom(PieceOf(o, o.piece + k - 1))
    <3>1. k + 1 \in 1 .. Len(packets) /\ o.piece + k - 1 = p.piece + (k + 1) - 1
      <4>1. k \in Nat /\ k <= Len(packets) - 1 /\ k >= 1
        BY <1>2, <1>4
      <4>2. k + 1 \in 1 .. Len(packets)
        BY <1>2, <4>1
      <4>3. o.piece = p.piece + 1 /\ p.piece \in Nat
        BY <1>5, <1>6
      <4> HIDE DEF o
      <4> QED BY <4>1, <4>2, <4>3
    <3> QED BY <1>4, <1>5, <1>6, <3>1
  <2>2. Len(packets') = Pieces(o) - o.piece + 1
    BY <1>2, <1>4, <1>5, <1>6
  <2> HIDE DEF to
  <2> QED BY <1>3, <1>5, <1>6, <1>8, <2>1, <2>2 DEF CallFrom
<1>10. ASSUME NEW s \in Settings, last'[s].sent
       PROVE  last'[s] = last[s] /\ o.setting # s
  <2>1. last'[s] = last[s] /\ s # "request"
    BY <1>3, SendAssumption
  <2>2. op \in {"string", "request"}
    BY <1>2 DEF Sending
  <2> QED BY <1>5, <1>6, <1>10, <2>1, <2>2
<1>11. o.piece > 1 => begun > 0 /\ from[begun] = PieceOf(o, o.piece - 1)
  BY <1>0, <1>2, <1>6
<1>12. Good(to)'
  BY <1>3, <1>7, <1>9, <1>10, <1>11, BeginsGood
<1>13. HeldTypes'
  BY <1>3 DEF HeldTypes, daemonVars
<1> QED BY <1>8, <1>12, <1>13

\* The last packet of a call is written: of a string its last piece, which the
\* daemon may have taken by then.
LEMMA SentGood ==
  ASSUME TypeInv, Chained, HeldTypes, NEW from, Good(from), Sent
  PROVE  HeldTypes' /\ Good(from)'
<1>1. /\ begun \in Nat /\ Len(got) \in Nat /\ Len(got) <= begun
      /\ \A n \in 1 .. begun : from[n] \in Origin
  BY GoodNumbers DEF Good
<1>2. begun > 0 /\ Sending /\ Len(packets) = 1 /\ packets \in Seq(Packet) /\ packets # <<>>
  BY DEF Sent, TypeInv, ClientTypes
<1>3. UNCHANGED <<begun, got, held, readers, socket, part>> /\ ~Sending'
  BY DEF Sent, Return, Sending, daemonVars
<1>0. PICK p : p = from[begun]
  OBVIOUS
<1>4. /\ p \in Origin /\ p.piece \in Nat /\ p.piece >= 1 /\ Pieces(p) \in Nat
      /\ 1 = Pieces(p) - p.piece + 1
      /\ packets[1] = PacketFrom(PieceOf(p, p.piece + 1 - 1))
      /\ op = "string" <=> p.setting # "request"
      /\ op = "string" => ~last[p.setting].sent /\ last[p.setting].text = CutShort(p.text)
  <2>1. p \in Origin
    BY <1>0, <1>1, <1>2
  <2>2. p.piece \in Nat /\ p.piece >= 1 /\ Pieces(p) \in Nat
    BY <2>1, PacketFromIs
  <2>3. 1 \in 1 .. Len(packets)
    BY <1>2
  <2> QED BY <1>0, <1>2, <2>1, <2>2, <2>3 DEF Good, CallFrom
<1>5. p.piece = Pieces(p) /\ p.piece + 1 - 1 = p.piece
  BY <1>4
<1>6. op = "string" => p.setting \in Settings /\ Head(packets).id = p.setting
  <2>1. Head(packets) = packets[1]
    BY <1>2, HeadTailProperties
  <2>2. Head(packets) = PacketFrom(p)
    BY <1>4, <1>5, <2>1, PacketFromIs
  <2> QED BY <1>4, <2>2, PacketFromIs
<1>7. BytesFrom(from)' /\ CallFrom(from)'
  BY <1>3 DEF Good, BytesFrom, CallFrom
<1>8. CASE op = "request"
  <2>1. last' = last
    BY <1>8 DEF Sent
  <2>2. Good(from)'
    BY <1>3, <1>7, <2>1, CallStepGood
  <2> QED BY <1>3, <2>1, <2>2 DEF HeldTypes
<1>9. CASE op = "string"
  <2>1. last' = [last EXCEPT ![p.setting].sent = TRUE]
    BY <1>6, <1>9 DEF Sent
  <2>2. /\ last'[p.setting].text = last[p.setting].text
        /\ \A s \in Settings : s # p.setting => last'[s] = last[s]
        /\ last' \in [Settings -> [text : Seq(Nat), sent : BOOLEAN]]
    BY <1>6, <1>9, <2>1 DEF HeldTypes
  <2>3. Settled(from, p.setting)' \/ EndsWith(from, p.setting, begun)'
    <3>1. last'[p.setting].text = CutShort(p.text)
      BY <1>4, <1>9, <2>2
    <3>2. CASE Len(got) < begun
      <4>1. begun \in Len(got) + 1 .. begun /\ begun + 1 .. begun = {}
        BY <1>1, <3>2
      <4> QED BY <1>0, <1>3, <1>5, <3>1, <4>1 DEF EndsWith
    <3>3. CASE Len(got) = begun
      <4>1. held[p.setting] = CutShort(p.text)
        BY <1>0, <1>1, <1>2, <1>4, <1>5, <1>9, <3>3 DEF Good, ReaderFrom
      <4>2. Len(got) + 1 .. begun = {}
        BY <1>1, <3>3
      <4> QED BY <1>3, <3>1, <4>1, <4>2 DEF Settled
    <3> QED BY <1>1, <3>2, <3>3
  <2>4. Good(from)'
    BY <1>3, <1>7, <2>2, <2>3, CallStepGood
  <2> QED BY <1>3, <2>2, <2>4 DEF HeldTypes
<1> QED BY <1>2, <1>8, <1>9 DEF Sending

\* A call fails.  If nothing of its packet was written, the packet was never begun.
LEMMA SendFailsGood ==
  ASSUME TypeInv, Chained, HeldTypes, NEW from, Good(from), SendFails, ~cut'
  PROVE  HeldTypes' /\ \E to \in Seq(Origin) : Good(to)'
<1>1. /\ begun \in Nat /\ Len(got) \in Nat /\ Len(got) <= Started /\ Started <= begun
      /\ Started \in Nat
      /\ Len(from) = begun /\ from \in Seq(Origin)
      /\ \A n \in 1 .. begun : from[n] \in Origin
      /\ \A i \in 1 .. Len(socket) : socket[i].n \in 1 .. Started
      /\ \A i \in 1 .. Len(part) : part[i].n \in 1 .. Started
  BY GoodNumbers DEF Good
<1>2. /\ UNCHANGED <<socket, part, got, held, readers, last>> /\ ~Sending' /\ written = 0
      /\ begun' = begun - 1 /\ begun > 0 /\ Started = begun - 1 /\ Sending
  <2>1. ~(written > 0)
    BY Zenon DEF SendFails
  <2>2. written \in Nat
    BY TypeInvNumbers
  <2> QED BY <2>1, <2>2 DEF SendFails, daemonVars, Sending, Return, Started, TypeInv, ClientTypes
<1>3. PICK k \in Nat : k = begun - 1
  BY <1>1, <1>2
<1> DEFINE to == SubSeq(from, 1, k)
<1>4. to \in Seq(Origin) /\ Len(to) = k /\ \A n \in 1 .. k : to[n] = from[n]
  <2>1. \A n \in 1 .. k : from[n] \in Origin
    BY <1>1, <1>3
  <2>2. /\ to \in Seq(Origin) /\ Len(to) = IF 1 <= k THEN k - 1 + 1 ELSE 0
        /\ \A n \in 1 .. k - 1 + 1 : to[n] = from[1 + n - 1]
    BY <2>1, SubSeqProperties
  <2> HIDE DEF to
  <2>3. Len(to) = k
    BY <2>2
  <2>4. ASSUME NEW n \in 1 .. k
        PROVE  to[n] = from[n]
    <3>1. n \in 1 .. k - 1 + 1 /\ 1 + n - 1 = n
      OBVIOUS
    <3> QED BY <2>2, <3>1
  <2> QED BY <2>2, <2>3, <2>4
<1> HIDE DEF to
<1>5. Origins(to)'
  <2>1. ASSUME NEW n \in 1 .. k, to[n].piece > 1
        PROVE  n > 1 /\ to[n - 1] = PieceOf(to[n], to[n].piece - 1)
    <3>1. n \in 1 .. begun
      BY <1>1, <1>3
    <3>2. n > 1 /\ from[n - 1] = PieceOf(from[n], from[n].piece - 1)
      BY <1>4, <2>1, <3>1 DEF Good, Origins
    <3>3. n - 1 \in 1 .. k
      BY <3>2
    <3> QED BY <1>4, <3>2, <3>3
  <2> QED BY <1>2, <1>3, <1>4, <2>1 DEF Origins
<1>6. BytesFrom(to)'
  <2>1. ASSUME NEW i \in 1 .. Len(socket)
        PROVE  socket[i].packet = PacketFrom(to[socket[i].n])
    <3>1. socket[i].n \in 1 .. k
      BY <1>1, <1>2, <1>3
    <3> QED BY <1>4, <3>1 DEF Good, BytesFrom
  <2>2. ASSUME NEW i \in 1 .. Len(part)
        PROVE  part[i].packet = PacketFrom(to[part[i].n])
    <3>1. part[i].n \in 1 .. k
      BY <1>1, <1>2, <1>3
    <3> QED BY <1>4, <3>1 DEF Good, BytesFrom
  <2> QED BY <1>2, <2>1, <2>2 DEF BytesFrom
<1>7. CallFrom(to)'
  BY <1>2 DEF CallFrom
<1>8. ReaderFrom(to)'
  <2>1. Len(got) > 0 => to[Len(got)] = from[Len(got)]
    BY <1>1, <1>2, <1>3, <1>4
  <2> QED BY <1>2, <2>1 DEF Good, ReaderFrom
<1>9. ASSUME NEW s \in Settings, last'[s].sent
      PROVE  Settled(to, s)' \/ \E n \in Nat : EndsWith(to, s, n)'
  <2>1. from[begun].setting # s
    <3>1. op \in {"string", "request"} /\ s # "request" /\ last[s].sent
      BY <1>2, <1>9, SendAssumption DEF Sending
    <3>2. /\ op = "string" <=> from[begun].setting # "request"
          /\ op = "string" => ~last[from[begun].setting].sent
      BY <1>2 DEF Good, CallFrom
    <3> QED BY <3>1, <3>2
  <2>2. CASE Settled(from, s)
    <3>1. ASSUME NEW n \in Len(got) + 1 .. begun - 1
          PROVE  to[n].setting # s
      <4>1. n \in Len(got) + 1 .. begun /\ n \in 1 .. k
        BY <1>1, <1>3
      <4> QED BY <1>4, <2>2, <4>1 DEF Settled
    <3> QED BY <1>2, <2>2, <3>1 DEF Settled
  <2>3. ASSUME NEW n \in Nat, EndsWith(from, s, n)
        PROVE  EndsWith(to, s, n)'
    <3>1. n \in Len(got) + 1 .. begun /\ n # begun
      BY <2>1, <2>3 DEF EndsWith
    <3>2. n \in Len(got) + 1 .. begun - 1 /\ n \in 1 .. k
      BY <1>1, <1>3, <3>1
    <3>3. to[n] = from[n]
      BY <1>4, <3>2
    <3>4. ASSUME NEW m \in n + 1 .. begun - 1
          PROVE  to[m].setting # s
      <4>1. m \in n + 1 .. begun /\ m \in 1 .. k
        BY <1>1, <1>3, <3>2
      <4> QED BY <1>4, <2>3, <4>1 DEF EndsWith
    <3> QED BY <1>2, <2>3, <3>2, <3>3, <3>4 DEF EndsWith
  <2> QED BY <1>2, <1>9, <2>2, <2>3 DEF Good, LastFrom
<1>10. LastFrom(to)'
  BY <1>9 DEF LastFrom
<1>11. HeldTypes'
  BY <1>2 DEF HeldTypes
<1> QED BY <1>4, <1>5, <1>6, <1>7, <1>8, <1>10, <1>11 DEF Good

\* The bytes of a write are of the packet begun last, and a byte that is read is of
\* the packet it was of.
LEMMA BytesMoveGood ==
  ASSUME TypeInv, Chained, HeldTypes, NEW from, Good(from), WriteSome \/ ReadByte
  PROVE  HeldTypes' /\ Good(from)'
<1>1. /\ begun \in Nat /\ Len(packets) \in Nat /\ Len(socket) \in Nat /\ Len(part) \in Nat
      /\ \A n \in 1 .. begun : from[n] \in Origin
      /\ socket \in Seq(ByteOf(Started)) /\ part \in Seq(ByteOf(Started))
  BY GoodNumbers, TypeInvNumbers DEF Good, TypeInv, DaemonTypes
<1>2. UNCHANGED <<op, packets, begun, last, got, held, readers>> /\ Sending' = Sending
  BY DEF WriteSome, ReadByte, Sending, writeVars, daemonVars
<1>3. CallFrom(from)' /\ HeldTypes'
  BY <1>2 DEF Good, CallFrom, HeldTypes
<1>4. /\ \A i \in 1 .. Len(socket) : socket[i].packet = PacketFrom(from[socket[i].n])
      /\ \A i \in 1 .. Len(part) : part[i].packet = PacketFrom(from[part[i].n])
  BY DEF Good, BytesFrom
<1>5. CASE WriteSome
  <2>1. PICK n \in 1 .. AtMost(PACKET_BYTES - written, Free) :
          socket' = socket \o [i \in 1 .. n |-> Byte(Head(packets), begun, written + i)]
    BY <1>5 DEF WriteSome
  <2>2. /\ Sending /\ part' = part /\ begun > 0 /\ packets # <<>> /\ packets \in Seq(Packet)
        /\ PACKET_BYTES \in Nat /\ written \in Nat /\ Room \in Nat /\ n \in Nat
        /\ Len(packets) >= 1 /\ written + n <= PACKET_BYTES
    <3>1. /\ Sending /\ part' = part /\ begun > 0 /\ packets # <<>> /\ packets \in Seq(Packet)
          /\ PACKET_BYTES \in Nat /\ written \in Nat /\ Room \in Nat /\ Len(packets) >= 1
          /\ written <= PACKET_BYTES
      BY <1>5, TypeInvNumbers DEF WriteSome, daemonVars, TypeInv, ClientTypes
    <3>2. n \in Nat /\ n <= PACKET_BYTES - written
      BY <1>1, <2>1, <3>1 DEF AtMost, Free
    <3> QED BY <3>1, <3>2
  <2>3. Head(packets) = PacketFrom(from[begun])
    <3>1. Head(packets) = packets[1] /\ 1 \in 1 .. Len(packets)
      BY <1>1, <2>2, HeadTailProperties
    <3>2. from[begun] \in Origin
      BY <1>1, <2>2
    <3>3. /\ from[begun].piece \in Nat
          /\ PieceOf(from[begun], from[begun].piece) = from[begun]
      BY <3>2, PacketFromIs
    <3>4. packets[1] = PacketFrom(PieceOf(from[begun], from[begun].piece + 1 - 1))
      BY <2>2, <3>1 DEF Good, CallFrom
    <3>5. from[begun].piece + 1 - 1 = from[begun].piece
      BY <3>3
    <3> QED BY <3>1, <3>3, <3>4, <3>5
  <2> DEFINE bytes == [i \in 1 .. n |-> Byte(Head(packets), begun, written + i)]
  <2>4. bytes \in Seq(ByteOfAny) /\ Len(bytes) = n
    <3>1. Head(packets) \in Packet
      BY <2>2, HeadTailProperties
    <3>2. bytes \in [1 .. n -> ByteOfAny]
      BY <1>1, <2>2, <3>1 DEF Byte, ByteOfAny
    <3>3. bytes \in Seq(ByteOfAny)
      BY <2>2, <3>2, SeqDef
    <3>4. DOMAIN bytes = 1 .. n
      OBVIOUS
    <3> QED BY <2>2, <3>3, <3>4, LenProperties
  <2>5. \A i \in 1 .. n : bytes[i].packet = Head(packets) /\ bytes[i].n = begun
    BY DEF Byte
  <2>6. socket' = socket \o bytes
    BY <2>1
  <2> HIDE DEF bytes
  <2>7. /\ Len(socket') = Len(socket) + n
        /\ \A i \in 1 .. Len(socket) + n :
             socket'[i] = IF i <= Len(socket) THEN socket[i] ELSE bytes[i - Len(socket)]
    <3>1. ByteOf(Started) \subseteq ByteOfAny
      BY TypeInvNumbers DEF ByteOf, ByteOfAny
    <3>2. socket \in Seq(ByteOfAny)
      BY <1>1, <3>1, SeqMonotonic
    <3> QED BY <2>4, <2>6, <3>2, ConcatProperties
  <2>8. ASSUME NEW i \in 1 .. Len(socket')
        PROVE  socket'[i].packet = PacketFrom(from[socket'[i].n])
    <3>1. CASE i <= Len(socket)
      <4>1. i \in 1 .. Len(socket) /\ socket'[i] = socket[i]
        BY <1>1, <2>2, <2>7, <3>1
      <4> QED BY <1>4, <4>1
    <3>2. CASE i > Len(socket)
      <4>1. i - Len(socket) \in 1 .. n /\ socket'[i] = bytes[i - Len(socket)]
        BY <1>1, <2>2, <2>7, <3>2
      <4> QED BY <2>3, <2>5, <4>1
    <3> QED BY <1>1, <2>2, <2>7, <3>1, <3>2
  <2>9. BytesFrom(from)'
    BY <1>4, <2>2, <2>8 DEF BytesFrom
  <2> QED BY <1>2, <1>3, <2>9, CallStepGood
<1>6. CASE ReadByte
  <2>1. /\ socket # <<>> /\ part' = Append(part, Head(socket)) /\ socket' = Tail(socket)
    BY <1>6 DEF ReadByte
  <2>2. /\ Head(socket) = socket[1] /\ socket[1] \in ByteOf(Started)
        /\ Len(socket) >= 1 /\ Len(socket') = Len(socket) - 1
        /\ \A i \in 1 .. Len(socket') : socket'[i] = socket[i + 1]
    BY <1>1, <2>1, EmptySeq, HeadTailProperties, ElementOfSeq
  <2>3. /\ Len(part') = Len(part) + 1 /\ part'[Len(part) + 1] = socket[1]
        /\ \A i \in 1 .. Len(part) : part'[i] = part[i]
    BY <1>1, <2>1, <2>2, AppendProperties
  <2>4. ASSUME NEW i \in 1 .. Len(socket')
        PROVE  socket'[i].packet = PacketFrom(from[socket'[i].n])
    <3>1. i + 1 \in 1 .. Len(socket)
      BY <1>1, <2>2
    <3> QED BY <1>4, <2>2, <3>1
  <2>5. ASSUME NEW i \in 1 .. Len(part')
        PROVE  part'[i].packet = PacketFrom(from[part'[i].n])
    <3>1. CASE i = Len(part) + 1
      <4>1. 1 \in 1 .. Len(socket)
        BY <1>1, <2>2
      <4> QED BY <1>4, <2>3, <3>1, <4>1
    <3>2. CASE i # Len(part) + 1
      <4>1. i \in 1 .. Len(part)
        BY <1>1, <2>3, <3>2
      <4> QED BY <1>4, <2>3, <4>1
    <3> QED BY <3>1, <3>2
  <2>6. BytesFrom(from)'
    BY <2>4, <2>5 DEF BytesFrom
  <2> QED BY <1>2, <1>3, <2>6, CallStepGood
<1> QED BY <1>5, <1>6

\* A piece is taken: its reader has those before it, and the string is held once it
\* is the last.
LEMMA TakePacketGood ==
  ASSUME TypeInv, Chained, HeldTypes, NEW from, Good(from), TakePacket
  PROVE  HeldTypes' /\ Good(from)'
<1>1. /\ begun \in Nat /\ Len(got) \in Nat /\ Len(got) <= Started /\ Started <= begun
      /\ Started \in Nat /\ Len(from) = begun /\ from \in Seq(Origin)
      /\ \A n \in 1 .. begun : from[n] \in Origin
      /\ \A i \in 1 .. Len(part) : part[i].n \in 1 .. Started
      /\ PACKET_BYTES \in Nat /\ PACKET_BYTES >= 1
      /\ readers \in [Settings -> Reader] /\ got \in Seq(0 .. Started)
  BY GoodNumbers, TypeInvNumbers DEF Good, TypeInv, DaemonTypes
<1>2. Len(part) = PACKET_BYTES /\ part' = <<>>
      /\ UNCHANGED <<socket, op, packets, begun, last>> /\ Sending' = Sending
  BY DEF TakePacket, writeVars, Sending
<1>3. ~Spliced /\ part[1].n = Len(got) + 1
  BY <1>2, NotSpliced
<1>4. PICK t \in Nat : t = Len(got) + 1
  BY <1>1
<1>5. PICK o : o = from[t]
  OBVIOUS
<1>6. /\ 1 \in 1 .. Len(part) /\ t \in 1 .. begun /\ o \in Origin
      /\ part[1].packet = PacketFrom(o)
  <2>1. 1 \in 1 .. Len(part) /\ t \in 1 .. Started
    BY <1>1, <1>2, <1>3, <1>4
  <2>2. t \in 1 .. begun
    BY <1>1, <2>1
  <2> QED BY <1>1, <1>3, <1>4, <1>5, <2>1, <2>2 DEF Good, BytesFrom
<1>7. Len(got') = t
  <2>1. got' = Append(got, t)
    BY <1>3, <1>4 DEF TakePacket
  <2>2. got \in Seq(Nat)
    BY <1>1, SeqMonotonic
  <2> QED BY <1>4, <2>1, <2>2, AppendProperties
<1>8. /\ o.setting # "request" => o.setting \in Settings /\ o.text \in Texts
                                   /\ Pieces(o) = Count(o.text)
                                   /\ PacketFrom(o) = StringPackets(o.setting, o.text)[o.piece]
                                   /\ PacketFrom(o).id = o.setting
      /\ PacketFrom(o) = Request <=> o.setting = "request"
      /\ o.piece \in Nat /\ o.piece >= 1 /\ o.piece <= Pieces(o) /\ Pieces(o) \in Nat
  BY <1>6, PacketFromIs
<1>9. /\ HeldTypes' /\ ReaderFrom(from)'
      /\ \A s \in Settings : s # o.setting => held'[s] = held[s]
      /\ o.setting # "request" /\ o.piece = Pieces(o) => held'[o.setting] = CutShort(o.text)
  <2>1. CASE o.setting = "request"
    <3>1. UNCHANGED <<readers, held>>
      BY <1>3, <1>6, <1>8, <2>1 DEF TakePacket
    <3>2. ReaderFrom(from)'
      BY <1>5, <1>7, <2>1 DEF ReaderFrom
    <3>3. HeldTypes'
      BY <1>2, <3>1 DEF HeldTypes
    <3> QED BY <2>1, <3>1, <3>2, <3>3
  <2>2. CASE o.setting # "request"
    <3> DEFINE packet == StringPackets(o.setting, o.text)[o.piece]
               reader == readers[o.setting]
               gathered == Gathered(reader, packet)
    <3>1. /\ o.setting \in Settings /\ o.text \in Texts /\ o.piece \in 1 .. Count(o.text)
          /\ Pieces(o) = Count(o.text) /\ reader \in Reader
      BY <1>1, <1>8, <2>2
    <3>2. o.piece > 1 => reader = After(o.text, o.piece - 1)
      <4>1. SUFFICES ASSUME o.piece > 1 PROVE reader = After(o.text, o.piece - 1)
        OBVIOUS
      <4>2. t > 1 /\ from[t - 1] = PieceOf(o, o.piece - 1)
        BY <1>5, <1>6, <4>1 DEF Good, Origins
      <4>3. t - 1 = Len(got) /\ Len(got) > 0
        BY <1>1, <1>4, <4>2
      <4>4. /\ from[Len(got)].setting = o.setting /\ from[Len(got)].text = o.text
            /\ from[Len(got)].piece = o.piece - 1 /\ Pieces(from[Len(got)]) = Pieces(o)
        BY <4>2, <4>3 DEF PieceOf, Pieces
      <4>5. from[Len(got)].piece < Pieces(from[Len(got)])
        BY <1>8, <4>4
      <4> QED BY <2>2, <4>3, <4>4, <4>5 DEF Good, ReaderFrom
    <3>3. /\ o.piece < Count(o.text) => gathered.expect \in Nat \ {0}
                                        /\ gathered = After(o.text, o.piece)
          /\ o.piece = Count(o.text) => gathered.expect = 0
                                        /\ gathered.text = CutShort(o.text)
      <4> HIDE DEF reader
      <4> QED BY <3>1, <3>2, GatherPiece
    <3>4. /\ readers' = IF gathered.expect < 0 THEN readers
                       ELSE [readers EXCEPT ![o.setting] = gathered]
          /\ held' = IF gathered.expect = 0 THEN [held EXCEPT ![o.setting] = gathered.text]
                     ELSE held
      <4>1. PacketFrom(o) # Request /\ PacketFrom(o).id = o.setting /\ PacketFrom(o) = packet
        BY <1>8, <2>2
      <4>2. TakePiece(PacketFrom(o))
        BY <1>3, <1>6, <4>1 DEF TakePacket
      <4> HIDE DEF packet
      <4> QED BY <4>1, <4>2 DEF TakePiece
    <3> HIDE DEF packet, reader, gathered
    <3>5. held \in [Settings -> Seq(Nat)] /\ CutShort(o.text) \in Seq(Nat)
      BY <3>1, CutShortType, SendAssumption DEF HeldTypes
    <3>6. /\ o.piece < Count(o.text) => held' = held
          /\ o.piece = Count(o.text) => held' = [held EXCEPT ![o.setting] = CutShort(o.text)]
      BY <3>3, <3>4
    <3>7. o.piece < Count(o.text) \/ o.piece = Count(o.text)
      BY <3>1, StringPacketsAre
    <3>8. ReaderFrom(from)'
      <4>1. o.piece < Count(o.text) => readers'[o.setting] = After(o.text, o.piece)
        BY <1>1, <3>1, <3>3, <3>4
      <4>2. ~(o.piece < Count(o.text)) => held'[o.setting] = CutShort(o.text)
        BY <3>1, <3>5, <3>6, <3>7
      <4> QED BY <1>5, <1>7, <3>1, <4>1, <4>2 DEF ReaderFrom
    <3>9. HeldTypes'
      <4>1. held' \in [Settings -> Seq(Nat)]
        BY <3>1, <3>5, <3>6, <3>7
      <4>2. ASSUME NEW s \in Settings
            PROVE  held'[s] \in {<<>>} \cup {CutShort(text) : text \in Texts}
        <5>1. held'[s] = held[s] \/ held'[s] = CutShort(o.text)
          BY <3>1, <3>5, <3>6, <3>7
        <5>2. held[s] \in {<<>>} \cup {CutShort(text) : text \in Texts}
          BY DEF HeldTypes
        <5> HIDE DEF CutShort
        <5> QED BY <3>1, <5>1, <5>2
      <4> QED BY <1>2, <4>1, <4>2 DEF HeldTypes
    <3>10. /\ \A s \in Settings : s # o.setting => held'[s] = held[s]
           /\ o.piece = Count(o.text) => held'[o.setting] = CutShort(o.text)
      BY <3>1, <3>5, <3>6, <3>7
    <3> QED BY <3>1, <3>8, <3>9, <3>10
  <2> QED BY <2>1, <2>2
<1>10. Origins(from)' /\ CallFrom(from)'
  BY <1>2 DEF Good, Origins, CallFrom
<1>11. BytesFrom(from)'
  <2>1. Len(part') = 0
    BY <1>2, EmptySeq
  <2> QED BY <1>2, <2>1 DEF Good, BytesFrom
<1>12. ASSUME NEW s \in Settings, last'[s].sent
       PROVE  Settled(from, s)' \/ \E n \in Nat : EndsWith(from, s, n)'
  <2>1. last'[s] = last[s] /\ s # "request"
    BY <1>2, SendAssumption
  <2>2. CASE Settled(from, s)
    <3>1. o.setting # s
      BY <1>1, <1>4, <1>5, <1>6, <2>2 DEF Settled
    <3>2. ASSUME NEW n \in t + 1 .. begun
          PROVE  from[n].setting # s
      <4>1. n \in Len(got) + 1 .. begun
        BY <1>1, <1>4
      <4> QED BY <2>2, <4>1 DEF Settled
    <3>3. held'[s] = last'[s].text
      BY <1>9, <2>1, <2>2, <3>1 DEF Settled
    <3> QED BY <1>2, <1>7, <3>2, <3>3 DEF Settled
  <2>3. ASSUME NEW n \in Nat, EndsWith(from, s, n), n = t
        PROVE  Settled(from, s)'
    <3>1. /\ o.setting = s /\ CutShort(o.text) = last[s].text /\ o.piece = Pieces(o)
          /\ \A m \in t + 1 .. begun : from[m].setting # s
      BY <1>5, <2>3 DEF EndsWith
    <3>2. held'[s] = last'[s].text
      BY <1>9, <2>1, <3>1
    <3> QED BY <1>2, <1>7, <3>1, <3>2 DEF Settled
  <2>4. ASSUME NEW n \in Nat, EndsWith(from, s, n), n # t
        PROVE  EndsWith(from, s, n)'
    <3>1. n \in Len(got) + 1 .. begun
      BY <2>4 DEF EndsWith
    <3>2. n \in t + 1 .. begun
      BY <1>1, <1>4, <2>4, <3>1
    <3> QED BY <1>2, <1>7, <2>1, <2>4, <3>2 DEF EndsWith
  <2> QED BY <1>12, <2>1, <2>2, <2>3, <2>4 DEF Good, LastFrom
<1>13. LastFrom(from)'
  BY <1>12 DEF LastFrom
<1> QED BY <1>9, <1>10, <1>11, <1>13 DEF Good

\* At first no string is on its way, and no reader has a part of one.
LEMMA StringInvInit == Init => StringInv
<1> SUFFICES ASSUME Init PROVE StringInv
  OBVIOUS
<1> DEFINE none == <<>>
<1>1. /\ begun = 0 /\ Len(socket) = 0 /\ Len(part) = 0 /\ Len(got) = 0 /\ ~Sending
  BY EmptySeq DEF Init, Sending
<1>2. none \in Seq(Origin) /\ Len(none) = 0 /\ none \in Seq(Nat)
  BY EmptySeq
<1>3. HeldTypes
  <2>1. <<>> \in Seq(Nat)
    BY <1>2
  <2> QED BY <2>1 DEF Init, HeldTypes
<1> HIDE DEF none
<1>4. Origins(none) /\ BytesFrom(none) /\ CallFrom(none) /\ ReaderFrom(none)
  BY <1>1, <1>2 DEF Origins, BytesFrom, CallFrom, ReaderFrom
<1>5. LastFrom(none)
  <2>1. ASSUME NEW s \in Settings
        PROVE  Settled(none, s)
    <3>1. held[s] = last[s].text
      BY DEF Init
    <3>2. Len(got) + 1 .. begun = {}
      BY <1>1
    <3> QED BY <3>1, <3>2 DEF Settled
  <2> QED BY <2>1 DEF LastFrom
<1> QED BY <1>2, <1>3, <1>4, <1>5, WireInvInit DEF StringInv, Good

\* No step mixes up the strings that are on their way.
LEMMA StringInvNext == StringInv /\ [Next]_vars => StringInv'
<1> SUFFICES ASSUME StringInv, [Next]_vars PROVE StringInv'
  OBVIOUS
<1>1. WireInv /\ WireInv'
  BY WireInvNext DEF StringInv
<1>2. SUFFICES ASSUME ~cut' PROVE HeldTypes' /\ \E from \in Seq(Origin) : Good(from)'
  BY <1>1 DEF StringInv
<1>3. ~cut
  BY <1>2 DEF Next, Client, Read, SendString, SendRequest, Send, WriteSome, NextPacket, Sent,
              SendFails, Awaited, DaemonReads, ReadByte, TakePacket, DaemonCloses, vars
<1>4. TypeInv /\ Chained /\ HeldTypes
  BY <1>1, <1>3 DEF WireInv, StringInv
<1>5. PICK from \in Seq(Origin) : Good(from)
  BY <1>3 DEF StringInv
<1>6. CASE SendString \/ SendRequest
  BY <1>4, <1>5, <1>6, SendGood
<1>7. CASE WriteSome \/ ReadByte
  BY <1>4, <1>5, <1>7, BytesMoveGood
<1>8. CASE NextPacket
  BY <1>4, <1>5, <1>8, NextPacketGood
<1>9. CASE Sent
  BY <1>4, <1>5, <1>9, SentGood
<1>10. CASE SendFails
  BY <1>2, <1>4, <1>5, <1>10, SendFailsGood
<1>11. CASE TakePacket
  BY <1>4, <1>5, <1>11, TakePacketGood
<1>12. CASE Read \/ Awaited \/ DaemonCloses \/ UNCHANGED vars
  <2>1. /\ UNCHANGED <<socket, part, got, held, readers, packets, begun, last>>
        /\ Sending' = Sending /\ (Sending => op' = op)
    BY <1>12 DEF Read, Awaited, DaemonCloses, vars, daemonVars, writeVars, Sending, Return
  <2>2. HeldTypes'
    BY <1>4, <2>1 DEF HeldTypes
  <2>3. BytesFrom(from)' /\ CallFrom(from)'
    BY <1>5, <2>1 DEF Good, BytesFrom, CallFrom
  <2>4. Good(from)'
    BY <1>4, <1>5, <2>1, <2>3, CallStepGood
  <2> QED BY <2>2, <2>4
<1> QED BY <1>6, <1>7, <1>8, <1>9, <1>10, <1>11, <1>12 DEF Next, Client, DaemonReads

\* Once the daemon has read what there is, only a call still sending has anything to
\* come.
LEMMA DrainedHeld == StringInv => LastStringHeld
<1> SUFFICES ASSUME StringInv, ~cut, socket = <<>>, Len(part) < PACKET_BYTES,
                    NEW s \in Settings, last[s].sent
             PROVE  held[s] = last[s].text
  BY DEF LastStringHeld
<1>1. TypeInv /\ Chained
  BY DEF StringInv, WireInv
<1>2. PICK from \in Seq(Origin) : Good(from)
  BY DEF StringInv
<1>3. /\ begun \in Nat /\ Len(got) \in Nat /\ Len(got) <= Started /\ Started <= begun
      /\ Started \in Nat /\ PACKET_BYTES \in Nat /\ PACKET_BYTES >= 1 /\ Len(part) \in Nat
      /\ part \in Seq(ByteOf(Started)) /\ written \in Nat
  BY <1>1, <1>2, GoodNumbers, TypeInvNumbers DEF Good, TypeInv, DaemonTypes
<1>4. LastRead.n = Started /\ LastRead.at = LastAt
  BY <1>1 DEF Chained, LastWritten
<1>5. Len(got) = Started \/ (Len(got) + 1 = begun /\ Sending)
  <2>1. CASE part = <<>>
    <3>1. LastRead.n = Len(got)
      BY <2>1 DEF LastRead, Byte
    <3> QED BY <1>4, <3>1
  <2>2. CASE part # <<>>
    <3>1. Len(part) \in 1 .. Len(part)
      BY <1>3, <2>2, EmptyIffNone
    <3>2. part[Len(part)] = Byte(part[1].packet, Len(got) + 1, Len(part))
      BY <1>1, <3>1 DEF Chained
    <3>3. LastRead.n = Len(got) + 1 /\ LastRead.at = Len(part)
      BY <2>2, <3>2 DEF LastRead, Byte
    <3>4. Sending /\ written > 0
      BY <1>3, <1>4, <3>3 DEF LastAt
    <3>5. Started = begun
      BY <1>3, <3>4 DEF Started
    <3> QED BY <1>4, <3>3, <3>4, <3>5
  <2> QED BY <2>1, <2>2
<1>6. ASSUME NEW n \in Len(got) + 1 .. begun
      PROVE  n = begun /\ Sending
  <2>1. CASE Len(got) = Started
    <3>1. Started # begun
      BY <1>3, <2>1
    <3>2. Sending /\ Started = begun - 1
      BY <3>1 DEF Started
    <3> QED BY <1>3, <2>1, <3>2
  <2>2. CASE (Len(got) + 1 = begun) /\ Sending
    BY <1>3, <2>2
  <2> QED BY <1>5, <2>1, <2>2
<1>7. Sending => from[begun].setting # s
  <2>1. SUFFICES ASSUME Sending PROVE from[begun].setting # s
    OBVIOUS
  <2>2. op \in {"string", "request"} /\ s # "request"
    BY <2>1, SendAssumption DEF Sending
  <2>3. /\ op = "string" <=> from[begun].setting # "request"
        /\ op = "string" => ~last[from[begun].setting].sent
    BY <1>2, <2>1 DEF Good, CallFrom
  <2> QED BY <2>2, <2>3
<1>8. \A n : ~EndsWith(from, s, n)
  BY <1>7, <1>6 DEF EndsWith
<1>9. Settled(from, s)
  BY <1>2, <1>8 DEF Good, LastFrom
<1> QED BY <1>9 DEF Settled

\* Of each setting the daemon holds one string as an application gave it, a longer
\* one cut short, for strings of any length in pieces of any size: never a piece of
\* one or pieces of two, whatever failed or came in between (string_packets,
\* send_string, and the StringReader of the tests' daemon).
THEOREM StringsAlwaysWhole == Spec => []StringsWhole
<1>1. Init => StringInv
  BY StringInvInit
<1>2. StringInv /\ [Next]_vars => StringInv'
  BY StringInvNext
<1>3. StringInv => StringsWhole
  BY DEF StringInv, HeldTypes, StringsWhole
<1> QED BY <1>1, <1>2, <1>3, PTL DEF Spec

\* And it is the last one, once that was sent and the daemon has read it: a string
\* that failed before leaves nothing behind that could end up in it (send_string,
\* and the StringReader of the tests' daemon).
THEOREM LastStringAlwaysHeld == Spec => []LastStringHeld
<1>1. Init => StringInv
  BY StringInvInit
<1>2. StringInv /\ [Next]_vars => StringInv'
  BY StringInvNext
<1>3. StringInv => LastStringHeld
  BY DrainedHeld
<1> QED BY <1>1, <1>2, <1>3, PTL DEF Spec
================================================================================
