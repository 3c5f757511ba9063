--------------------------- MODULE SpnavSessionProofs ---------------------------
(***************************************************************************)
(* Theorems about SpnavSession, for any devices, strings of any number of    *)
(* packets, and any number of calls, hotplugs and requests that time out.    *)
(***************************************************************************)
EXTENDS SpnavSession, SequenceTheorems, TLAPS

(***************************************************************************)
(* The inductive invariant.                                                 *)
(***************************************************************************)

\* A packet as the daemon makes them: one of a string, or an answer in itself.
WellMade(p) ==
  /\ p.left >= 1
  /\ p.id \notin Strings \/ ~p.ok => p.left = 1 /\ p.first

Replies(d) == {i \in 1 .. Len(d) : d[i].kind = "reply"}

\* The packets that may come after one that is not the last of its answer.
After(p) ==
  {q \in ReplySet : q.serial = p.serial /\ q.left + 1 = p.left /\ ~q.first}

Firsts == {q \in ReplySet : q.first}

\* The first reply from the k-th packet on, or else the first the daemon is still to
\* write, is there and is one of some packets.
NextIn(packets, k, d, s) ==
  \/ \E j \in k .. Len(d) : /\ d[j].kind = "reply" /\ d[j] \in packets
                            /\ \A l \in k .. j - 1 : d[l].kind = "device"
  \/ /\ \A l \in k .. Len(d) : d[l].kind = "device"
     /\ s # <<>> /\ s[1] \in packets

\* What the daemon is still to write is the rest of one string.
RestOfString(s) ==
  \A i \in 1 .. Len(s) : /\ s[i].left = Len(s) + 1 - i
                         /\ ~s[i].first /\ WellMade(s[i])
                         /\ s[i].serial = s[1].serial
                         /\ s[i].id = s[1].id

\* And whatever of a string is on the way, the rest of it comes next.
StreamOf(d, s) ==
  /\ \A i \in Replies(d) : WellMade(d[i])
  /\ RestOfString(s)
  /\ \A i \in Replies(d) : d[i].left > 1 => NextIn(After(d[i]), i + 1, d, s)

Stream == StreamOf(down, sending)

\* The beginning of one answer.
Chain(parts) ==
  /\ parts # <<>> /\ parts[1].first
  /\ \A i \in 2 .. Len(parts) : /\ parts[i].serial = parts[1].serial
                                /\ parts[i].left + 1 = parts[i - 1].left

\* What a reader has is the beginning of one string, whose rest comes next.
ReaderOf(r, d, s) ==
  /\ Chain(r.parts)
  /\ r.parts[Len(r.parts)].left > 1
  /\ r.expect + 1 = r.parts[Len(r.parts)].left
  /\ NextIn(After(r.parts[Len(r.parts)]), 1, d, s)

\* The one of the request in progress does.
ReaderIs == Waiting /\ reader.started => ReaderOf(reader, down, sending)

\* The request is on its way, and nothing else is.
Unanswered ==
  /\ up = <<asked>> /\ sending = <<>> /\ Replies(down) = {}
  /\ ~reader.started

\* Its answer is, from the packet on that the reader is at.
Answering ==
  /\ up = <<>>
  /\ \A i \in Replies(down) : /\ down[i].serial = asked.serial /\ down[i].id = asked.id
                              /\ down[i].left > Len(sending)
  /\ \A i, j \in Replies(down) : i < j => down[i].left > down[j].left
  /\ \A i \in 1 .. Len(sending) : /\ sending[i].serial = asked.serial
                                  /\ sending[i].id = asked.id
  /\ reader.started =>
       \A i \in 1 .. Len(reader.parts) : reader.parts[i].serial = asked.serial
  /\ ~reader.started => NextIn(Firsts, 1, down, sending)

\* Between the calls nothing is, unless the daemon has left something unwritten.
Quiet ==
  /\ Replies(down) = {}
  /\ closed \/ (up = <<>> /\ sending = <<>>)

\* A request is in step as long as none has timed out, and so is a sound refresh,
\* whatever was before it.
InTune == Waiting /\ (misses = 0 \/ (op = "refresh" /\ sound))

Steps ==
  /\ InTune => Unanswered \/ Answering
  /\ ~Waiting /\ misses = 0 => Quiet
  /\ misses = 0 => accepted.answered \subseteq {accepted.asked}

\* What a reply says is what is the case now.
TellsOf(p, d) == (p.ok <=> d # NoDevice) /\ (p.ok => p.value = d)

\* A sound refresh that no device event was announced in is about one device from its
\* beginning on, and so is what it leaves in the cache.
Fresh ==
  sound /\ ~Announced =>
    IF op = "refresh"
    THEN /\ \A i \in Replies(down) : TellsOf(down[i], plugged)
         /\ \A i \in 1 .. Len(sending) : TellsOf(sending[i], plugged)
         /\ \A n \in 1 .. stage - 1 : info[Queries[n]] = plugged
         /\ stage > 1 => plugged # NoDevice
    ELSE device = InfoOf(plugged)

SessionInv == TypeOK /\ Stream /\ ReaderIs /\ StringWhole /\ Steps /\ Fresh

(***************************************************************************)
(* The reply that comes next.                                               *)
(***************************************************************************)

Packet == ReplySet \cup {DeviceEvent}

\* A packet is a reply or tells of a device, and not both.
LEMMA PacketKinds ==
  /\ \A p \in ReplySet : p.kind = "reply"
  /\ DeviceEvent.kind = "device"
  /\ \A p \in Packet : p.kind = "reply" \/ p.kind = "device"
  /\ \A p \in Packet : p.kind = "reply" => p \in ReplySet
BY DEF ReplySet, DeviceEvent, Packet

\* A sequence with one more element.
LEMMA OneMore ==
  ASSUME NEW S, NEW d \in Seq(S), NEW p \in S
  PROVE  /\ Append(d, p) \in Seq(S) /\ Len(d) \in Nat
         /\ Len(Append(d, p)) = Len(d) + 1
         /\ Append(d, p)[Len(d) + 1] = p
         /\ \A i \in 1 .. Len(d) : Append(d, p)[i] = d[i] /\ d[i] \in S
BY AppendProperties, LenProperties, ElementOfSeq

\* And with one less.
LEMMA OneLess ==
  ASSUME NEW S, NEW d \in Seq(S), d # <<>>
  PROVE  /\ Tail(d) \in Seq(S) /\ Len(Tail(d)) \in Nat /\ Len(d) = Len(Tail(d)) + 1
         /\ Head(d) \in S /\ Head(d) = d[1]
         /\ \A i \in 1 .. Len(Tail(d)) : Tail(d)[i] = d[i + 1] /\ d[i + 1] \in S
<1>1. /\ Head(d) \in S /\ Tail(d) \in Seq(S) /\ Len(Tail(d)) = Len(d) - 1
      /\ \A i \in 1 .. Len(Tail(d)) : Tail(d)[i] = d[i + 1]
  BY HeadTailProperties
<1>2. Len(d) \in Nat /\ Len(d) # 0 /\ Head(d) = d[1]
  BY LenProperties, EmptySeq
<1>3. \A i \in 1 .. Len(d) : d[i] \in S
  BY ElementOfSeq
<1> QED BY <1>1, <1>2, <1>3

\* Just the empty sequence has no elements.
LEMMA EmptyIffNone ==
  ASSUME NEW S, NEW d \in Seq(S)
  PROVE  d = <<>> <=> Len(d) = 0
BY EmptySeq, LenProperties

\* A device event at the end changes nothing.
LEMMA NextInEvent ==
  ASSUME NEW packets, NEW d \in Seq(Packet), NEW s, NEW k \in Nat, k >= 1,
         NextIn(packets, k, d, s)
  PROVE  NextIn(packets, k, Append(d, DeviceEvent), s)
<1> DEFINE more == Append(d, DeviceEvent)
<1>1. /\ Len(d) \in Nat /\ Len(more) = Len(d) + 1 /\ more[Len(d) + 1] = DeviceEvent
      /\ \A i \in 1 .. Len(d) : more[i] = d[i]
  BY OneMore DEF Packet
<1>2. DeviceEvent.kind = "device"
  BY PacketKinds
<1> HIDE DEF more
<1>3. CASE \E j \in k .. Len(d) : /\ d[j].kind = "reply" /\ d[j] \in packets
                                  /\ \A l \in k .. j - 1 : d[l].kind = "device"
  <2>1. PICK j \in k .. Len(d) : /\ d[j].kind = "reply" /\ d[j] \in packets
                                 /\ \A l \in k .. j - 1 : d[l].kind = "device"
    BY <1>3
  <2>2. j \in k .. Len(more) /\ j \in 1 .. Len(d) /\ \A l \in k .. j - 1 : l \in 1 .. Len(d)
    BY <1>1
  <2>3. /\ more[j].kind = "reply" /\ more[j] \in packets
        /\ \A l \in k .. j - 1 : more[l].kind = "device"
    BY <1>1, <2>1, <2>2
  <2> QED BY <2>2, <2>3 DEF NextIn, more
<1>4. CASE (\A l \in k .. Len(d) : d[l].kind = "device") /\ s # <<>> /\ s[1] \in packets
  <2>1. \A l \in k .. Len(more) : more[l].kind = "device"
    <3>1. \A l \in k .. Len(more) : (l \in k .. Len(d) /\ l \in 1 .. Len(d)) \/ l = Len(d) + 1
      BY <1>1
    <3> QED BY <1>1, <1>2, <1>4, <3>1
  <2> QED BY <1>4, <2>1 DEF NextIn, more
<1> QED BY <1>3, <1>4 DEF NextIn

\* The daemon writes what it is to write next.
LEMMA NextInWritten ==
  ASSUME NEW packets, NEW d \in Seq(Packet), NEW s, NEW k \in Nat, 1 <= k, k <= Len(d) + 1,
         NEW p \in ReplySet, NEW rest, s = <<>> \/ p = s[1],
         NextIn(packets, k, d, s)
  PROVE  NextIn(packets, k, Append(d, p), rest)
<1> DEFINE more == Append(d, p)
<1>1. /\ Len(d) \in Nat /\ Len(more) = Len(d) + 1 /\ more[Len(d) + 1] = p
      /\ \A i \in 1 .. Len(d) : more[i] = d[i]
  BY OneMore DEF Packet
<1>2. p.kind = "reply"
  BY PacketKinds
<1> HIDE DEF more
<1>3. CASE \E j \in k .. Len(d) : /\ d[j].kind = "reply" /\ d[j] \in packets
                                  /\ \A l \in k .. j - 1 : d[l].kind = "device"
  <2>1. PICK j \in k .. Len(d) : /\ d[j].kind = "reply" /\ d[j] \in packets
                                 /\ \A l \in k .. j - 1 : d[l].kind = "device"
    BY <1>3
  <2>2. j \in k .. Len(more) /\ j \in 1 .. Len(d) /\ \A l \in k .. j - 1 : l \in 1 .. Len(d)
    BY <1>1
  <2>3. /\ more[j].kind = "reply" /\ more[j] \in packets
        /\ \A l \in k .. j - 1 : more[l].kind = "device"
    BY <1>1, <2>1, <2>2
  <2> QED BY <2>2, <2>3 DEF NextIn, more
<1>4. CASE (\A l \in k .. Len(d) : d[l].kind = "device") /\ s # <<>> /\ s[1] \in packets
  <2>1. Len(d) + 1 \in k .. Len(more) /\ \A l \in k .. (Len(d) + 1) - 1 : l \in k .. Len(d) /\ l \in 1 .. Len(d)
    BY <1>1
  <2>2. \A l \in k .. (Len(d) + 1) - 1 : more[l].kind = "device"
    BY <1>1, <1>4, <2>1
  <2> QED BY <1>1, <1>2, <1>4, <2>1, <2>2 DEF NextIn, more
<1> QED BY <1>3, <1>4 DEF NextIn

\* One packet less at the front, and the others move up.
LEMMA NextInMoves ==
  ASSUME NEW packets, NEW d \in Seq(Packet), d # <<>>, NEW s, NEW k \in Nat, k >= 1,
         NextIn(packets, k + 1, d, s)
  PROVE  NextIn(packets, k, Tail(d), s)
<1> DEFINE less == Tail(d)
<1>1. /\ Len(less) \in Nat /\ Len(d) = Len(less) + 1
      /\ \A i \in 1 .. Len(less) : less[i] = d[i + 1]
  BY OneLess
<1> HIDE DEF less
<1>2. CASE \E j \in k + 1 .. Len(d) : /\ d[j].kind = "reply" /\ d[j] \in packets
                                      /\ \A l \in k + 1 .. j - 1 : d[l].kind = "device"
  <2>1. PICK j \in k + 1 .. Len(d) : /\ d[j].kind = "reply" /\ d[j] \in packets
                                     /\ \A l \in k + 1 .. j - 1 : d[l].kind = "device"
    BY <1>2
  <2>2. /\ j - 1 \in k .. Len(less) /\ j - 1 \in 1 .. Len(less) /\ (j - 1) + 1 = j
        /\ \A l \in k .. (j - 1) - 1 : l + 1 \in k + 1 .. j - 1 /\ l \in 1 .. Len(less)
    BY <1>1
  <2>3. /\ less[j - 1].kind = "reply" /\ less[j - 1] \in packets
        /\ \A l \in k .. (j - 1) - 1 : less[l].kind = "device"
    BY <1>1, <2>1, <2>2
  <2> QED BY <2>2, <2>3 DEF NextIn, less
<1>3. CASE (\A l \in k + 1 .. Len(d) : d[l].kind = "device") /\ s # <<>> /\ s[1] \in packets
  <2>1. \A l \in k .. Len(less) : l + 1 \in k + 1 .. Len(d) /\ l \in 1 .. Len(less)
    BY <1>1
  <2>2. \A l \in k .. Len(less) : less[l].kind = "device"
    BY <1>1, <1>3, <2>1
  <2> QED BY <1>3, <2>2 DEF NextIn, less
<1> QED BY <1>2, <1>3 DEF NextIn

\* A device event at the front is not what comes next, and a reply there is.
LEMMA NextInFront ==
  ASSUME NEW packets, NEW d \in Seq(Packet), d # <<>>, NEW s, NextIn(packets, 1, d, s)
  PROVE  /\ Head(d).kind = "device" => NextIn(packets, 1, Tail(d), s)
         /\ Head(d).kind = "reply" => Head(d) \in packets
<1>1. Len(d) \in Nat /\ 1 \in 1 .. Len(d) /\ Head(d) = d[1]
  BY OneLess, LenProperties, EmptySeq
<1>2. CASE \E j \in 1 .. Len(d) : /\ d[j].kind = "reply" /\ d[j] \in packets
                                  /\ \A l \in 1 .. j - 1 : d[l].kind = "device"
  <2>1. PICK j \in 1 .. Len(d) : /\ d[j].kind = "reply" /\ d[j] \in packets
                                 /\ \A l \in 1 .. j - 1 : d[l].kind = "device"
    BY <1>2
  <2>2. CASE Head(d).kind = "reply"
    <3>1. j = 1
      BY <1>1, <2>1, <2>2
    <3> QED BY <1>1, <2>1, <2>2, <3>1
  <2>3. CASE Head(d).kind = "device"
    <3>1. j \in 1 + 1 .. Len(d) /\ \A l \in 1 + 1 .. j - 1 : l \in 1 .. j - 1
      BY <1>1, <2>1, <2>3
    <3>2. NextIn(packets, 1 + 1, d, s)
      BY <2>1, <3>1 DEF NextIn
    <3>3. NextIn(packets, 1, Tail(d), s)
      BY <3>2, NextInMoves, 1 \in Nat
    <3> QED BY <2>3, <3>3
  <2> QED BY <2>2, <2>3
<1>3. CASE (\A l \in 1 .. Len(d) : d[l].kind = "device") /\ s # <<>> /\ s[1] \in packets
  <2>1. \A l \in 1 + 1 .. Len(d) : l \in 1 .. Len(d)
    BY <1>1
  <2>2. NextIn(packets, 1 + 1, d, s)
    BY <1>3, <2>1 DEF NextIn
  <2>3. NextIn(packets, 1, Tail(d), s)
    BY <2>2, NextInMoves, 1 \in Nat
  <2>4. Head(d).kind = "device"
    BY <1>1, <1>3
  <2> QED BY <2>3, <2>4
<1> QED BY <1>2, <1>3 DEF NextIn

(***************************************************************************)
(* What the daemon answers, and the queries of refresh_device.              *)
(***************************************************************************)

\* The queries are six, the name first and only there.
LEMMA QueriesAre ==
  /\ Len(Queries) = 6
  /\ \A n \in 1 .. 6 : Queries[n] \in QueryIds /\ (Queries[n] = "NAME" <=> n = 1)
  /\ \A m, n \in 1 .. 6 : Queries[m] = Queries[n] => m = n
  /\ \A q \in QueryIds : \E n \in 1 .. 6 : q = Queries[n]
  /\ Strings \subseteq QueryIds /\ "DEADZONE" \notin QueryIds
BY DEF Queries, QueryIds, Strings

\* The daemon's answer: all its packets are the request's, as many to come as there
\* are, the first of them marked; and they tell of the device that is plugged in.
AnswerTo(r, answer) ==
  /\ answer \in Seq(ReplySet) /\ Len(answer) >= 1
  /\ \A i \in 1 .. Len(answer) :
       /\ answer[i].serial = r.serial /\ answer[i].id = r.id
       /\ answer[i].left = Len(answer) + 1 - i
       /\ answer[i].first <=> i = 1
       /\ WellMade(answer[i])
       /\ r.id \in QueryIds => /\ answer[i].ok <=> plugged # NoDevice
                               /\ answer[i].ok => answer[i].value = plugged

\* It does, whatever is asked.
LEMMA AnswerIs ==
  ASSUME NEW r \in RequestSet, plugged \in Devices \cup {NoDevice}
  PROVE  AnswerTo(r, Answer(r))
<1>1. r.id \in Ids /\ r.arg \in Axes \cup {None} /\ r.serial \in Nat
  BY DEF RequestSet
<1>2. ASSUME NEW p \in ReplySet, p.serial = r.serial, p.id = r.id, p.left = 1, p.first = TRUE,
             r.id \in QueryIds => (p.ok <=> plugged # NoDevice) /\ (p.ok => p.value = plugged)
      PROVE  AnswerTo(r, <<p>>)
  <2>1. /\ <<p>> \in Seq(ReplySet) /\ Len(<<p>>) = 1 /\ <<p>>[1] = p
    OBVIOUS
  <2>2. WellMade(p)
    BY <1>2 DEF WellMade
  <2> DEFINE answer == <<p>>
  <2>3. answer \in Seq(ReplySet) /\ Len(answer) = 1 /\ answer[1] = p
    BY <2>1
  <2> HIDE DEF answer
  <2>4. ASSUME NEW i \in 1 .. Len(answer)
        PROVE  /\ answer[i].serial = r.serial /\ answer[i].id = r.id
               /\ answer[i].left = Len(answer) + 1 - i
               /\ answer[i].first <=> i = 1
               /\ WellMade(answer[i])
               /\ r.id \in QueryIds => /\ answer[i].ok <=> plugged # NoDevice
                                       /\ answer[i].ok => answer[i].value = plugged
    <3>1. i = 1 /\ answer[i] = p
      BY <2>3
    <3> QED BY <1>2, <2>2, <2>3, <3>1
  <2>5. AnswerTo(r, answer)
    <3>1. Len(answer) >= 1
      BY <2>3
    <3> QED BY <2>3, <2>4, <3>1 DEF AnswerTo
  <2> QED BY <2>5 DEF answer
<1>3. CASE r.id = "DEADZONE"
  <2> DEFINE p == Reply(r, TRUE, r.arg, 1, TRUE)
  <2>1. Answer(r) = <<p>> /\ r.id \notin QueryIds
    BY <1>3 DEF Answer, QueryIds
  <2>2. p \in ReplySet /\ p.serial = r.serial /\ p.id = r.id /\ p.left = 1 /\ p.first = TRUE
    BY <1>1, <1>3, <2>1 DEF Reply, ReplySet
  <2> HIDE DEF p
  <2> QED BY <1>2, <2>1, <2>2
<1>4. CASE r.id # "DEADZONE" /\ plugged = NoDevice
  <2> DEFINE p == Reply(r, FALSE, None, 1, TRUE)
  <2>1. Answer(r) = <<p>>
    BY <1>4 DEF Answer
  <2>2. /\ p \in ReplySet /\ p.serial = r.serial /\ p.id = r.id /\ p.left = 1 /\ p.first = TRUE
        /\ p.ok = FALSE
    BY <1>1 DEF Reply, ReplySet
  <2> HIDE DEF p
  <2> QED BY <1>2, <1>4, <2>1, <2>2
<1>5. CASE r.id # "DEADZONE" /\ plugged # NoDevice
  <2> DEFINE n == IF r.id \in Strings THEN Packets[plugged] ELSE 1
             answer == [i \in 1 .. n |-> Reply(r, TRUE, plugged, n + 1 - i, i = 1)]
  <2>1. Answer(r) = answer /\ plugged \in Devices
    BY <1>5 DEF Answer
  <2>2. n \in Nat \ {0} /\ (r.id \notin Strings => n = 1)
    BY <2>1, DevicesAssumption
  <2> HIDE DEF n
  <2>3. ASSUME NEW i \in 1 .. n
        PROVE  /\ answer[i] \in ReplySet
               /\ answer[i].serial = r.serial /\ answer[i].id = r.id
               /\ answer[i].left = n + 1 - i /\ (answer[i].first <=> i = 1)
               /\ answer[i].ok = TRUE /\ answer[i].value = plugged
    <3>1. answer[i] = Reply(r, TRUE, plugged, n + 1 - i, i = 1)
      OBVIOUS
    <3>2. n + 1 - i \in Nat /\ (i = 1) \in BOOLEAN
      BY <2>2
    <3>3. plugged \in Devices \cup Axes \cup {None}
      BY <2>1
    <3> HIDE DEF answer
    <3>4. /\ Reply(r, TRUE, plugged, n + 1 - i, i = 1) \in ReplySet
          /\ Reply(r, TRUE, plugged, n + 1 - i, i = 1).serial = r.serial
          /\ Reply(r, TRUE, plugged, n + 1 - i, i = 1).id = r.id
          /\ Reply(r, TRUE, plugged, n + 1 - i, i = 1).left = n + 1 - i
          /\ Reply(r, TRUE, plugged, n + 1 - i, i = 1).first = (i = 1)
          /\ Reply(r, TRUE, plugged, n + 1 - i, i = 1).ok = TRUE
          /\ Reply(r, TRUE, plugged, n + 1 - i, i = 1).value = plugged
      BY <1>1, <2>1, <3>2, <3>3 DEF Reply, ReplySet
    <3> QED BY <3>1, <3>4, Zenon
  <2>4. answer \in [1 .. n -> ReplySet]
    BY <2>3
  <2>5. answer \in Seq(ReplySet) /\ Len(answer) = n
    <3>1. DOMAIN answer = 1 .. n
      OBVIOUS
    <3> HIDE DEF answer
    <3> QED BY <2>2, <2>4, <3>1
  <2> HIDE DEF answer
  <2>6. ASSUME NEW i \in 1 .. n
        PROVE  WellMade(answer[i])
    <3>1. answer[i].left = n + 1 - i /\ answer[i].id = r.id /\ answer[i].ok = TRUE
          /\ (answer[i].first <=> i = 1)
      BY <2>3
    <3> QED BY <2>2, <3>1 DEF WellMade
  <2>7. AnswerTo(r, answer)
    <3>1. Len(answer) >= 1
      BY <2>2, <2>5
    <3> QED BY <1>5, <2>3, <2>5, <2>6, <3>1 DEF AnswerTo
  <2> QED BY <2>1, <2>7
<1> QED BY <1>3, <1>4, <1>5

\* Its first packet is written at once, the others are still to write.
LEMMA AnswerParts ==
  ASSUME NEW r, NEW answer, AnswerTo(r, answer)
  PROVE  /\ Head(answer) \in ReplySet /\ Tail(answer) \in Seq(ReplySet)
         /\ Head(answer).serial = r.serial /\ Head(answer).id = r.id
         /\ Head(answer).first /\ WellMade(Head(answer))
         /\ Head(answer).left = Len(Tail(answer)) + 1
         /\ Len(Tail(answer)) \in Nat
         /\ r.id \in QueryIds => /\ Head(answer).ok <=> plugged # NoDevice
                                 /\ Head(answer).ok => Head(answer).value = plugged
         /\ \A i \in 1 .. Len(Tail(answer)) :
              /\ Tail(answer)[i].serial = r.serial /\ Tail(answer)[i].id = r.id
              /\ Tail(answer)[i].left = Len(Tail(answer)) + 1 - i
              /\ ~Tail(answer)[i].first /\ WellMade(Tail(answer)[i])
              /\ r.id \in QueryIds =>
                   /\ Tail(answer)[i].ok <=> plugged # NoDevice
                   /\ Tail(answer)[i].ok => Tail(answer)[i].value = plugged
<1>1. answer \in Seq(ReplySet) /\ Len(answer) \in Nat /\ Len(answer) >= 1
  BY LenProperties DEF AnswerTo
<1>2. answer # <<>>
  BY <1>1, EmptyIffNone
<1> DEFINE rest == Tail(answer)
           first == Head(answer)
<1>3. /\ rest \in Seq(ReplySet) /\ Len(rest) \in Nat /\ Len(answer) = Len(rest) + 1
      /\ first \in ReplySet /\ first = answer[1]
      /\ \A i \in 1 .. Len(rest) : rest[i] = answer[i + 1]
  BY <1>1, <1>2, OneLess
<1> HIDE DEF rest, first
<1>4. 1 \in 1 .. Len(answer) /\ \A i \in 1 .. Len(rest) : i + 1 \in 1 .. Len(answer) /\ i + 1 # 1
  BY <1>1, <1>3
<1>5. /\ first.serial = r.serial /\ first.id = r.id /\ first.first /\ WellMade(first)
      /\ first.left = Len(rest) + 1
      /\ r.id \in QueryIds => /\ first.ok <=> plugged # NoDevice
                              /\ first.ok => first.value = plugged
  BY <1>3, <1>4 DEF AnswerTo
<1>6. ASSUME NEW i \in 1 .. Len(rest)
      PROVE  /\ rest[i].serial = r.serial /\ rest[i].id = r.id
             /\ rest[i].left = Len(rest) + 1 - i
             /\ ~rest[i].first /\ WellMade(rest[i])
             /\ r.id \in QueryIds => /\ rest[i].ok <=> plugged # NoDevice
                                     /\ rest[i].ok => rest[i].value = plugged
  BY <1>3, <1>4 DEF AnswerTo
<1> QED BY <1>3, <1>5, <1>6 DEF rest, first

(***************************************************************************)
(* One packet more on the way, or one less.                                 *)
(***************************************************************************)

\* The replies among the packets when one comes.
LEMMA RepliesMore ==
  ASSUME NEW d \in Seq(Packet), NEW p \in Packet
  PROVE  /\ \A i \in Replies(d) : i \in Nat /\ i >= 1 /\ i <= Len(d)
         /\ \A i \in Replies(d) : i \in Replies(Append(d, p)) /\ Append(d, p)[i] = d[i]
         /\ \A i \in Replies(Append(d, p)) :
              \/ i \in Replies(d)
              \/ i = Len(d) + 1 /\ p.kind = "reply"
         /\ Len(d) \in Nat /\ Append(d, p)[Len(d) + 1] = p
<1> DEFINE more == Append(d, p)
<1>1. /\ Len(d) \in Nat /\ Len(more) = Len(d) + 1 /\ more[Len(d) + 1] = p
      /\ \A i \in 1 .. Len(d) : more[i] = d[i]
  BY OneMore
<1> HIDE DEF more
<1>2. \A i \in 1 .. Len(more) : i \in 1 .. Len(d) \/ i = Len(d) + 1
  BY <1>1
<1>3. \A i \in 1 .. Len(d) : i \in 1 .. Len(more)
  BY <1>1
<1>4. \A i \in Replies(d) : i \in Replies(more) /\ more[i] = d[i]
  BY <1>1, <1>3 DEF Replies
<1>5. \A i \in Replies(more) : i \in Replies(d) \/ (i = Len(d) + 1 /\ p.kind = "reply")
  BY <1>1, <1>2 DEF Replies
<1>6. \A i \in Replies(d) : i \in Nat /\ i >= 1 /\ i <= Len(d)
  BY <1>1 DEF Replies
<1> QED BY <1>1, <1>4, <1>5, <1>6 DEF more

\* And when one is taken.
LEMMA RepliesLess ==
  ASSUME NEW d \in Seq(Packet), d # <<>>
  PROVE  /\ \A i \in Replies(Tail(d)) : /\ i \in Nat /\ i >= 1
                                        /\ i + 1 \in Replies(d) /\ Tail(d)[i] = d[i + 1]
         /\ 1 \in Replies(d) <=> Head(d).kind = "reply"
         /\ Head(d) = d[1] /\ Head(d) \in Packet /\ Tail(d) \in Seq(Packet)
<1> DEFINE less == Tail(d)
<1>1. /\ less \in Seq(Packet) /\ Len(less) \in Nat /\ Len(d) = Len(less) + 1
      /\ Head(d) \in Packet /\ Head(d) = d[1]
      /\ \A i \in 1 .. Len(less) : less[i] = d[i + 1]
  BY OneLess
<1> HIDE DEF less
<1>2. /\ \A i \in 1 .. Len(less) : i + 1 \in 1 .. Len(d) /\ i \in Nat /\ i >= 1
      /\ 1 \in 1 .. Len(d)
  BY <1>1
<1>3. \A i \in Replies(less) : /\ i \in Nat /\ i >= 1
                               /\ i + 1 \in Replies(d) /\ less[i] = d[i + 1]
  BY <1>1, <1>2 DEF Replies
<1>4. 1 \in Replies(d) <=> Head(d).kind = "reply"
  BY <1>1, <1>2 DEF Replies
<1> QED BY <1>1, <1>3, <1>4 DEF less

\* A device event is among the packets.
EventIn(d) == \E i \in 1 .. Len(d) : d[i].kind = "device"

\* One that is on the way stays there as packets come, and as replies are taken.
LEMMA EventsStay ==
  ASSUME NEW d \in Seq(Packet)
  PROVE  /\ \A p \in Packet : EventIn(d) => EventIn(Append(d, p))
         /\ EventIn(Append(d, DeviceEvent))
         /\ d # <<>> /\ Head(d).kind = "reply" /\ EventIn(d) => EventIn(Tail(d))
<1>1. ASSUME NEW p \in Packet, EventIn(d) \/ p = DeviceEvent
      PROVE  EventIn(Append(d, p))
  <2> DEFINE more == Append(d, p)
  <2>1. /\ Len(d) \in Nat /\ Len(more) = Len(d) + 1 /\ more[Len(d) + 1] = p
        /\ \A i \in 1 .. Len(d) : more[i] = d[i]
    BY OneMore
  <2> HIDE DEF more
  <2>2. /\ \A i \in 1 .. Len(d) : i \in 1 .. Len(more)
        /\ Len(d) + 1 \in 1 .. Len(more)
    BY <2>1
  <2>3. EventIn(more)
    BY <1>1, <2>1, <2>2, PacketKinds DEF EventIn
  <2> QED BY <2>3 DEF more
<1>2. ASSUME d # <<>>, Head(d).kind = "reply", EventIn(d)
      PROVE  EventIn(Tail(d))
  <2> DEFINE less == Tail(d)
  <2>1. /\ Len(less) \in Nat /\ Len(d) = Len(less) + 1 /\ Head(d) = d[1]
        /\ \A i \in 1 .. Len(less) : less[i] = d[i + 1]
    BY <1>2, OneLess
  <2> HIDE DEF less
  <2>2. PICK i \in 1 .. Len(d) : d[i].kind = "device"
    BY <1>2 DEF EventIn
  <2>3. i # 1
    BY <1>2, <2>1, <2>2
  <2>4. i - 1 \in 1 .. Len(less) /\ (i - 1) + 1 = i
    BY <2>1, <2>3
  <2>5. less[i - 1] = d[i]
    BY <2>1, <2>4
  <2>6. EventIn(less)
    BY <2>2, <2>4, <2>5 DEF EventIn
  <2> QED BY <2>6 DEF less
<1>3. DeviceEvent \in Packet
  BY DEF Packet
<1> QED BY <1>1, <1>2, <1>3

(***************************************************************************)
(* The stream.                                                              *)
(***************************************************************************)

\* A device event comes in between.
LEMMA StreamEvent ==
  ASSUME NEW d \in Seq(Packet), NEW s, StreamOf(d, s)
  PROVE  StreamOf(Append(d, DeviceEvent), s)
<1> DEFINE more == Append(d, DeviceEvent)
<1>1. DeviceEvent \in Packet /\ DeviceEvent.kind = "device"
  BY PacketKinds DEF Packet
<1>2. \A i \in Replies(more) : i \in Replies(d) /\ more[i] = d[i] /\ i \in Nat /\ i >= 1
  BY <1>1, RepliesMore
<1>3. ASSUME NEW i \in Replies(more), more[i].left > 1
      PROVE  NextIn(After(more[i]), i + 1, more, s)
  <2>1. i \in Replies(d) /\ d[i].left > 1 /\ i \in Nat /\ i >= 1
    BY <1>2, <1>3, Zenon
  <2>2. i + 1 \in Nat /\ i + 1 >= 1
    BY <2>1
  <2>3. NextIn(After(d[i]), i + 1, d, s)
    BY <2>1 DEF StreamOf
  <2>4. NextIn(After(d[i]), i + 1, more, s)
    BY <2>2, <2>3, NextInEvent
  <2> QED BY <1>2, <2>4
<1>4. \A i \in Replies(more) : WellMade(more[i])
  BY <1>2 DEF StreamOf
<1> QED BY <1>3, <1>4 DEF StreamOf

\* The daemon writes the packet that is next, and `rest' is what it leaves to write.
LEMMA StreamWritten ==
  ASSUME NEW d \in Seq(Packet), NEW s, StreamOf(d, s),
         NEW p \in ReplySet, WellMade(p), NEW rest, s = <<>> \/ p = s[1],
         RestOfString(rest), p.left > 1 => rest # <<>> /\ rest[1] \in After(p)
  PROVE  StreamOf(Append(d, p), rest)
<1> DEFINE more == Append(d, p)
<1>1. p \in Packet /\ p.kind = "reply"
  BY PacketKinds DEF Packet
<1>2. /\ \A i \in Replies(d) : i \in Nat /\ i >= 1 /\ i <= Len(d)
      /\ \A i \in Replies(d) : i \in Replies(more) /\ more[i] = d[i]
      /\ \A i \in Replies(more) : i \in Replies(d) \/ i = Len(d) + 1
      /\ Len(d) \in Nat /\ more[Len(d) + 1] = p /\ Len(more) = Len(d) + 1
  BY <1>1, RepliesMore, OneMore
<1>3. ASSUME NEW i \in Replies(more), more[i].left > 1
      PROVE  NextIn(After(more[i]), i + 1, more, rest)
  <2>1. CASE i \in Replies(d)
    <3>1. NextIn(After(d[i]), i + 1, d, s) /\ i + 1 \in Nat /\ 1 <= i + 1 /\ i + 1 <= Len(d) + 1
      BY <1>2, <1>3, <2>1 DEF StreamOf
    <3>2. NextIn(After(d[i]), i + 1, more, rest)
      BY <3>1, NextInWritten
    <3> QED BY <1>2, <2>1, <3>2
  <2>2. CASE i = Len(d) + 1
    <3>1. more[i] = p /\ \A l \in i + 1 .. Len(more) : FALSE
      BY <1>2, <2>2
    <3>2. NextIn(After(p), i + 1, more, rest)
      BY <1>3, <3>1 DEF NextIn
    <3> QED BY <3>1, <3>2
  <2> QED BY <1>2, <2>1, <2>2
<1>4. \A i \in Replies(more) : WellMade(more[i])
  BY <1>2 DEF StreamOf
<1> HIDE DEF more
<1>5. StreamOf(more, rest)
  BY <1>3, <1>4 DEF StreamOf
<1> QED BY <1>5 DEF more

\* The client takes a packet.
LEMMA StreamTaken ==
  ASSUME NEW d \in Seq(Packet), d # <<>>, NEW s, StreamOf(d, s)
  PROVE  StreamOf(Tail(d), s)
<1>1. \A i \in Replies(Tail(d)) : /\ i \in Nat /\ i >= 1
                                  /\ i + 1 \in Replies(d) /\ Tail(d)[i] = d[i + 1]
  BY RepliesLess
<1>2. ASSUME NEW i \in Replies(Tail(d)), Tail(d)[i].left > 1
      PROVE  NextIn(After(Tail(d)[i]), i + 1, Tail(d), s)
  <2>1. i + 1 \in Replies(d) /\ d[i + 1].left > 1 /\ i \in Nat /\ i >= 1
    BY <1>1, <1>2, Zenon
  <2>2. i + 1 \in Nat /\ i + 1 >= 1
    BY <2>1
  <2>3. NextIn(After(d[i + 1]), (i + 1) + 1, d, s)
    BY <2>1 DEF StreamOf
  <2>4. NextIn(After(d[i + 1]), i + 1, Tail(d), s)
    BY <2>2, <2>3, NextInMoves
  <2> QED BY <1>1, <2>4
<1>3. \A i \in Replies(Tail(d)) : WellMade(Tail(d)[i])
  BY <1>1 DEF StreamOf
<1> QED BY <1>2, <1>3 DEF StreamOf

\* The first packet taken is a reply: it is well made, and the rest of its string is next.
LEMMA StreamHead ==
  ASSUME NEW d \in Seq(Packet), d # <<>>, NEW s, StreamOf(d, s), Head(d).kind = "reply"
  PROVE  /\ Head(d) \in ReplySet /\ WellMade(Head(d))
         /\ Head(d).left > 1 => NextIn(After(Head(d)), 1, Tail(d), s)
<1>1. 1 \in Replies(d) /\ Head(d) = d[1] /\ Head(d) \in Packet
  BY RepliesLess
<1>2. WellMade(Head(d)) /\ (Head(d).left > 1 => NextIn(After(Head(d)), 1 + 1, d, s))
  BY <1>1 DEF StreamOf
<1>3. Head(d).left > 1 => NextIn(After(Head(d)), 1, Tail(d), s)
  BY <1>2, NextInMoves, 1 \in Nat
<1> QED BY <1>1, <1>2, <1>3, PacketKinds

(***************************************************************************)
(* The parts of one answer.                                                 *)
(***************************************************************************)

\* A first packet is the beginning of an answer.
LEMMA ChainBegins ==
  ASSUME NEW p \in ReplySet, p.first
  PROVE  /\ Chain(<<p>>) /\ <<p>> \in Seq(ReplySet) /\ Len(<<p>>) = 1 /\ <<p>>[1] = p
         /\ Append(<<>>, p) = <<p>>
<1>1. <<p>> \in Seq(ReplySet) /\ Len(<<p>>) = 1 /\ <<p>>[1] = p /\ Append(<<>>, p) = <<p>>
  OBVIOUS
<1> DEFINE parts == <<p>>
<1>2. parts \in Seq(ReplySet) /\ Len(parts) = 1 /\ parts[1] = p
  BY <1>1
<1> HIDE DEF parts
<1>3. parts # <<>> /\ \A i \in 2 .. Len(parts) : FALSE
  BY <1>2, EmptyIffNone
<1>4. Chain(parts)
  BY <1>2, <1>3 DEF Chain
<1> QED BY <1>1, <1>4 DEF parts

\* The parts of an answer all answer the same request.
LEMMA ChainSerials ==
  ASSUME NEW parts \in Seq(ReplySet), Chain(parts)
  PROVE  /\ \A i \in 1 .. Len(parts) : parts[i].serial = parts[1].serial
         /\ Len(parts) \in Nat /\ Len(parts) >= 1
<1>1. Len(parts) \in Nat /\ Len(parts) # 0
  BY EmptyIffNone DEF Chain
<1>2. \A i \in 1 .. Len(parts) : i = 1 \/ i \in 2 .. Len(parts)
  BY <1>1
<1> QED BY <1>1, <1>2 DEF Chain

\* A chain grows by the packet that comes after its last.
LEMMA ChainGrows ==
  ASSUME NEW parts \in Seq(ReplySet), Chain(parts), NEW p \in After(parts[Len(parts)])
  PROVE  /\ Chain(Append(parts, p)) /\ Append(parts, p) \in Seq(ReplySet)
         /\ Len(Append(parts, p)) = Len(parts) + 1 /\ Append(parts, p)[Len(parts) + 1] = p
         /\ Len(parts) \in Nat
<1> DEFINE more == Append(parts, p)
<1>1. p \in ReplySet /\ p.serial = parts[Len(parts)].serial /\ p.left + 1 = parts[Len(parts)].left
  BY DEF After
<1>2. /\ more \in Seq(ReplySet) /\ Len(parts) \in Nat /\ Len(more) = Len(parts) + 1
      /\ more[Len(parts) + 1] = p
      /\ \A i \in 1 .. Len(parts) : more[i] = parts[i]
  BY <1>1, OneMore
<1>3. Len(parts) # 0
  BY EmptyIffNone DEF Chain
<1> HIDE DEF more
<1>4. more # <<>>
  BY <1>2, EmptyIffNone
<1>5. more[1].first /\ more[1] = parts[1]
  BY <1>2, <1>3 DEF Chain
<1>6. ASSUME NEW i \in 2 .. Len(more)
      PROVE  more[i].serial = more[1].serial /\ more[i].left + 1 = more[i - 1].left
  <2>1. CASE i = Len(parts) + 1
    <3>1. more[i] = p /\ more[i - 1] = parts[Len(parts)] /\ i - 1 = Len(parts)
      BY <1>2, <1>3, <2>1
    <3>2. parts[Len(parts)].serial = parts[1].serial
      <4>1. Len(parts) \in Nat /\ Len(parts) >= 1
        BY ChainSerials
      <4>2. Len(parts) \in 1 .. Len(parts)
        BY <4>1
      <4> QED BY <4>2, ChainSerials
    <3> QED BY <1>1, <1>5, <3>1, <3>2
  <2>2. CASE i # Len(parts) + 1
    <3>1. i \in 2 .. Len(parts) /\ i \in 1 .. Len(parts) /\ i - 1 \in 1 .. Len(parts)
      BY <1>2, <2>2
    <3>2. more[i] = parts[i] /\ more[i - 1] = parts[i - 1]
      BY <1>2, <3>1
    <3>3. parts[i].serial = parts[1].serial /\ parts[i].left + 1 = parts[i - 1].left
      BY <3>1 DEF Chain
    <3> QED BY <1>5, <3>2, <3>3
  <2> QED BY <2>1, <2>2
<1>7. Chain(more)
  BY <1>4, <1>5, <1>6 DEF Chain
<1> QED BY <1>2, <1>7 DEF more

\* A chain to the last packet is a whole answer to those it answers.
LEMMA AcceptsWhole ==
  ASSUME NEW parts, Chain(parts), parts[Len(parts)].left = 1, Accept(parts)
  PROVE  /\ StringWhole'
         /\ accepted'.asked = asked.serial
         /\ accepted'.answered = {parts[i].serial : i \in 1 .. Len(parts)}
BY DEF Chain, Accept, StringWhole

(***************************************************************************)
(* What an answer, or the failure of one, leads to.                         *)
(***************************************************************************)

\* The call returns.
Over == op' = "idle" /\ stage' = 0 /\ UNCHANGED requestVars

\* Or refresh_device makes its next query.
GoesOn ==
  /\ op = "refresh" /\ op' = "refresh" /\ ~closed
  /\ stage < 6 /\ stage' = stage + 1
  /\ Send(Queries[stage + 1], None)

Errors == {"Refused", "Protocol", "Timeout", "Disconnected"}

\* One of the two, and the packet is taken off the way.
LEMMA Outcome ==
  ASSUME TypeOK, Waiting, NEW rest,
         \/ \E value : Succeed(value, rest)
         \/ \E err : Fail(err, rest)
  PROVE  (Over \/ GoesOn) /\ down' = rest
<1>1. ASSUME NEW value, NEW good, op = "refresh", Settle(value, rest, good)
      PROVE  (Over \/ GoesOn) /\ down' = rest
  <2>1. CASE stage < Len(Queries) /\ ~closed
    BY <1>1, <2>1, QueriesAre DEF Settle, GoesOn
  <2>2. CASE ~(stage < Len(Queries) /\ ~closed)
    BY <1>1, <2>2 DEF Settle, Finish, Return, Over
  <2> QED BY <2>1, <2>2
<1>2. op = "get" => stage = 0
  BY DEF TypeOK, TypeOKRequest
<1>3. ASSUME NEW value, Succeed(value, rest)
      PROVE  (Over \/ GoesOn) /\ down' = rest
  BY <1>1, <1>2, <1>3 DEF Succeed, Return, Over, cacheVars
<1>4. ASSUME NEW err, Fail(err, rest)
      PROVE  (Over \/ GoesOn) /\ down' = rest
  BY <1>1, <1>2, <1>4 DEF Fail, Return, Over, cacheVars, requestVars
<1> QED BY <1>3, <1>4

\* The next request is numbered one more, and its reader is empty.
LEMMA SendIs ==
  ASSUME NEW id \in Ids, NEW arg \in Axes \cup {None}, TypeOK, Send(id, arg)
  PROVE  /\ asked' \in RequestSet /\ asked'.id = id
         /\ up' \in Seq(RequestSet) /\ up' = Append(up, asked')
         /\ reader' = NewReader /\ ~reader'.started
         /\ reader' \in [expect : Nat, started : BOOLEAN, parts : Seq(ReplySet)]
<1>1. asked.serial \in Nat /\ up \in Seq(RequestSet)
  BY DEF TypeOK, TypeOKRequest, TypeOKDaemon, RequestSet
<1>2. asked' \in RequestSet /\ asked'.id = id
  BY <1>1 DEF Send, RequestSet
<1>3. up' = Append(up, asked') /\ reader' = NewReader
  BY DEF Send
<1>4. up' \in Seq(RequestSet)
  BY <1>1, <1>2, <1>3, OneMore
<1>5. ~NewReader.started /\ NewReader \in [expect : Nat, started : BOOLEAN, parts : Seq(ReplySet)]
  <2>1. <<>> \in Seq(ReplySet)
    OBVIOUS
  <2> QED BY <2>1 DEF NewReader
<1> QED BY <1>2, <1>3, <1>4, <1>5

\* What refresh_device learns keeps its type, and a device has a name.
LEMMA SettleTypes ==
  ASSUME TypeOK, op = "refresh", NEW value \in Devices \cup {None},
         value \in Devices \/ stage # 1,
         NEW rest, NEW good, Settle(value, rest, good)
  PROVE  /\ info' \in [QueryIds -> Devices \cup {None}] /\ info'["NAME"] \in Devices
         /\ device' \in DeviceInfo \cup {NoDevice}
         /\ result' \in {result, "ok"}
         /\ sound' \in BOOLEAN
<1>1. /\ stage \in 1 .. 6 /\ info \in [QueryIds -> Devices \cup {None}]
      /\ stage > 1 => info["NAME"] \in Devices
      /\ device \in DeviceInfo \cup {NoDevice}
  BY QueriesAre DEF TypeOK, TypeOKRequest, TypeOKCache
<1>2. Queries[stage] \in QueryIds /\ (Queries[stage] = "NAME" <=> stage = 1) /\ "NAME" \in QueryIds
  BY <1>1, QueriesAre DEF QueryIds
<1>3. info' = [info EXCEPT ![Queries[stage]] = value]
  BY DEF Settle
<1>4. info' \in [QueryIds -> Devices \cup {None}]
  BY <1>1, <1>2, <1>3
<1>5. info'["NAME"] \in Devices
  <2>1. CASE stage = 1
    BY <1>1, <1>2, <1>3, <2>1
  <2>2. CASE stage # 1
    <3>1. stage > 1 /\ info'["NAME"] = info["NAME"]
      BY <1>1, <1>2, <1>3, <2>2
    <3> QED BY <1>1, <3>1
  <2> QED BY <2>1, <2>2
<1>6. info' \in DeviceInfo
  BY <1>4, <1>5 DEF DeviceInfo
<1>7. sound' \in BOOLEAN
  BY DEF Settle
<1>8. /\ device' = device \/ device' = info'
      /\ result' \in {result, "ok"}
  BY DEF Settle, Finish, Return
<1> QED BY <1>1, <1>4, <1>5, <1>6, <1>7, <1>8

\* Whatever comes of a request, the types are kept.
LEMMA OutcomeTypes ==
  ASSUME TypeOK, Waiting, NEW rest \in Seq(Packet),
         \/ \E value : (op = "refresh" => value \in Devices) /\ Succeed(value, rest)
         \/ \E err \in Errors : Fail(err, rest),
         UNCHANGED <<daemonVars, queued, calls, heard>>, misses' \in 0 .. MaxMisses
  PROVE  TypeOK'
<1>1. /\ Over \/ GoesOn
      /\ down' = rest
  BY Outcome
<1>2. TypeOKDaemon' /\ TypeOKRequest'
  <2>1. CASE Over
    <3>1. TypeOKDaemon'
      BY <1>1, <2>1 DEF Over, TypeOK, TypeOKDaemon, requestVars, daemonVars, Packet
    <3>2. TypeOKRequest'
      BY <2>1 DEF Over, TypeOK, TypeOKRequest, requestVars
    <3> QED BY <3>1, <3>2
  <2>2. CASE GoesOn
    <3>1. stage \in 1 .. 6
      BY <2>2, QueriesAre DEF GoesOn, TypeOK, TypeOKRequest
    <3>2. stage + 1 \in 1 .. 6
      BY <2>2, <3>1 DEF GoesOn
    <3>3. Queries[stage + 1] \in Ids /\ None \in Axes \cup {None}
      BY <3>2, QueriesAre DEF Ids
    <3>4. /\ asked' \in RequestSet /\ asked'.id = Queries[stage + 1]
          /\ up' \in Seq(RequestSet)
          /\ reader' \in [expect : Nat, started : BOOLEAN, parts : Seq(ReplySet)]
      BY <2>2, <3>3, SendIs DEF GoesOn
    <3>5. TypeOKDaemon'
      BY <1>1, <3>4 DEF TypeOK, TypeOKDaemon, daemonVars, Packet
    <3>6. TypeOKRequest'
      BY <2>2, <3>2, <3>4, QueriesAre DEF GoesOn, TypeOKRequest
    <3> QED BY <3>5, <3>6
  <2> QED BY <1>1, <2>1, <2>2
<1>3. /\ info \in [QueryIds -> Devices \cup {None}]
      /\ device \in DeviceInfo \cup {NoDevice} /\ sound \in BOOLEAN
      /\ result \in {"none", "ok", "Refused", "Protocol", "Timeout", "Disconnected",
                     "Io", "event", "empty"}
  BY DEF TypeOK, TypeOKCache
<1>4. /\ info' \in [QueryIds -> Devices \cup {None}]
      /\ op' = "refresh" => info'["NAME"] \in Devices
      /\ device' \in DeviceInfo \cup {NoDevice} /\ sound' \in BOOLEAN
      /\ result' \in {"none", "ok", "Refused", "Protocol", "Timeout", "Disconnected",
                      "Io", "event", "empty"}
  <2>1. ASSUME NEW value, op = "refresh" => value \in Devices, Succeed(value, rest)
        PROVE  /\ info' \in [QueryIds -> Devices \cup {None}]
               /\ op' = "refresh" => info'["NAME"] \in Devices
               /\ device' \in DeviceInfo \cup {NoDevice} /\ sound' \in BOOLEAN
               /\ result' \in {"none", "ok", "Refused", "Protocol", "Timeout",
                               "Disconnected", "Io", "event", "empty"}
    <3>1. CASE op = "get"
      BY <1>3, <2>1, <3>1 DEF Succeed, Return, cacheVars
    <3>2. CASE op = "refresh"
      <4>1. Settle(value, rest, TRUE) /\ value \in Devices
        BY <2>1, <3>2 DEF Succeed
      <4> QED BY <1>3, <3>2, <4>1, SettleTypes
    <3> QED BY <3>1, <3>2 DEF Waiting
  <2>2. ASSUME NEW err \in Errors, Fail(err, rest)
        PROVE  /\ info' \in [QueryIds -> Devices \cup {None}]
               /\ op' = "refresh" => info'["NAME"] \in Devices
               /\ device' \in DeviceInfo \cup {NoDevice} /\ sound' \in BOOLEAN
               /\ result' \in {"none", "ok", "Refused", "Protocol", "Timeout",
                               "Disconnected", "Io", "event", "empty"}
    <3>1. CASE op = "get"
      BY <1>3, <2>2, <3>1 DEF Fail, Return, cacheVars, Errors
    <3>2. CASE op = "refresh" /\ Essential
      BY <1>3, <2>2, <3>2 DEF Fail, Return, Errors
    <3>3. CASE op = "refresh" /\ ~Essential
      <4>1. Settle(None, rest, err = "Refused") /\ stage # 1
        BY <2>2, <3>3 DEF Fail, Essential
      <4> QED BY <1>3, <3>3, <4>1, SettleTypes
    <3> QED BY <3>1, <3>2, <3>3 DEF Waiting
  <2> QED BY <2>1, <2>2
<1>5. TypeOKCache'
  BY <1>4 DEF TypeOK, TypeOKCache
<1> QED BY <1>2, <1>5 DEF TypeOK

(***************************************************************************)
(* Type correctness.                                                        *)
(***************************************************************************)

\* What the types say of a first packet that is a reply.
LEMMA HeadTypes ==
  ASSUME TypeOK, ReplyIsNext
  PROVE  /\ down \in Seq(Packet) /\ down # <<>> /\ Head(down).kind = "reply"
         /\ Head(down) \in ReplySet /\ Tail(down) \in Seq(Packet)
         /\ Head(down).left \in Nat
         /\ Head(down).value \in Devices \cup Axes \cup {None}
         /\ Mine /\ Head(down).ok /\ op = "refresh" => Head(down).value \in Devices
         /\ asked.id \in Strings => op = "refresh"
<1>1. down \in Seq(Packet) /\ down # <<>> /\ Head(down).kind = "reply"
  BY DEF TypeOK, TypeOKDaemon, ReplyIsNext, Packet
<1>2. Head(down) \in ReplySet /\ Tail(down) \in Seq(Packet)
  BY <1>1, OneLess, PacketKinds
<1>3. \A p \in ReplySet : /\ p.left \in Nat /\ p.value \in Devices \cup Axes \cup {None}
                          /\ p.ok /\ p.id \in QueryIds => p.value \in Devices
  BY DEF ReplySet
<1>4. op = "refresh" => asked.id \in QueryIds
  BY QueriesAre DEF TypeOK, TypeOKRequest
<1>5. asked.id \in Strings => op = "refresh"
  BY DEF Strings, ReplyIsNext, Waiting, TypeOK, TypeOKRequest
<1> QED BY <1>1, <1>2, <1>3, <1>4, <1>5 DEF Mine

\* The daemon's steps keep the types.
LEMMA DaemonTypes ==
  ASSUME TypeOK, Daemon
  PROVE  TypeOK'
<1> USE DEF TypeOK
<1>1. TypeOKRequest' /\ TypeOKCache'
  BY DEF Daemon, cacheVars, TypeOKRequest, TypeOKCache
<1>2. /\ plugged \in Devices \cup {NoDevice} /\ up \in Seq(RequestSet)
      /\ sending \in Seq(ReplySet) /\ down \in Seq(Packet)
      /\ closed \in BOOLEAN /\ plugs \in 0 .. MaxPlugs
  BY DEF TypeOKDaemon, Packet
<1>3. CASE Hotplug
  <2>1. DeviceEvent \in Packet
    BY DEF Packet
  <2>2. down' \in Seq(Packet)
    BY <1>2, <1>3, <2>1, OneMore DEF Hotplug
  <2>3. plugged' \in Devices \cup {NoDevice} /\ plugs' \in 0 .. MaxPlugs
    BY <1>2, <1>3, BoundsAssumption DEF Hotplug
  <2>4. TypeOKDaemon'
    BY <1>2, <1>3, <2>2, <2>3 DEF Hotplug, TypeOKDaemon, Packet
  <2> QED BY <1>1, <2>4
<1>4. CASE TakeRequest
  <2> DEFINE answer == Answer(Head(up))
  <2>1. /\ Head(up) \in RequestSet /\ up' \in Seq(RequestSet)
        /\ down' = Append(down, Head(answer)) /\ sending' = Tail(answer)
    BY <1>2, <1>4, OneLess DEF TakeRequest
  <2>2. Head(answer) \in ReplySet /\ Tail(answer) \in Seq(ReplySet)
    BY <1>2, <2>1, AnswerIs, AnswerParts
  <2> HIDE DEF answer
  <2>3. Head(answer) \in Packet
    BY <2>2 DEF Packet
  <2>4. down' \in Seq(Packet) /\ sending' \in Seq(ReplySet)
    BY <1>2, <2>1, <2>2, <2>3, OneMore
  <2>5. TypeOKDaemon'
    BY <1>2, <1>4, <2>1, <2>4 DEF TakeRequest, TypeOKDaemon, Packet
  <2> QED BY <1>1, <2>5
<1>5. CASE SendRest
  <2>1. Head(sending) \in ReplySet /\ Tail(sending) \in Seq(ReplySet)
    BY <1>2, <1>5, OneLess DEF SendRest
  <2>2. Head(sending) \in Packet
    BY <2>1 DEF Packet
  <2>3. down' \in Seq(Packet)
    BY <1>2, <1>5, <2>2, OneMore DEF SendRest
  <2>4. TypeOKDaemon'
    BY <1>2, <1>5, <2>1, <2>3 DEF SendRest, TypeOKDaemon, Packet
  <2> QED BY <1>1, <2>4
<1>6. CASE DaemonCloses
  BY <1>1, <1>6 DEF DaemonCloses, TypeOKDaemon
<1> QED BY <1>3, <1>4, <1>5, <1>6 DEF Daemon

\* A packet taken off the way, or none.
LEMMA RestTypes ==
  ASSUME TypeOK
  PROVE  /\ down \in Seq(Packet)
         /\ down # <<>> => Tail(down) \in Seq(Packet)
BY OneLess DEF TypeOK, TypeOKDaemon, Packet

\* The steps of a request keep the types.
LEMMA AwaitTypes ==
  ASSUME TypeOK, Stream, AwaitAnswer
  PROVE  TypeOK'
<1>1. misses \in 0 .. MaxMisses /\ MaxMisses \in Nat
  BY BoundsAssumption DEF TypeOK, TypeOKCache
<1>2. CASE QueueEvent
  <2>1. down' \in Seq(Packet) /\ queued' \in Nat
    BY <1>2, RestTypes DEF QueueEvent, EventQueued, TypeOK, TypeOKCache
  <2>2. TypeOKDaemon'
    BY <1>2, <2>1 DEF QueueEvent, daemonVars, requestVars, TypeOK, TypeOKDaemon, Packet
  <2>3. TypeOKRequest'
    BY <1>2 DEF QueueEvent, cacheVars, requestVars, TypeOK, TypeOKRequest
  <2>4. TypeOKCache'
    BY <1>2, <2>1 DEF QueueEvent, cacheVars, requestVars, TypeOK, TypeOKCache
  <2> QED BY <2>2, <2>3, <2>4 DEF TypeOK
<1>3. CASE ReplyToAnother
  <2>1. Waiting /\ Fail("Protocol", Tail(down)) /\ Tail(down) \in Seq(Packet) /\ "Protocol" \in Errors
    BY <1>3, HeadTypes DEF ReplyToAnother, ReplyIsNext, Errors
  <2> QED BY <1>1, <1>3, <2>1, OutcomeTypes DEF ReplyToAnother, replyUnchanged
<1>4. CASE ReplyRefused
  <2>1. Waiting /\ Fail("Refused", Tail(down)) /\ Tail(down) \in Seq(Packet) /\ "Refused" \in Errors
    BY <1>4, HeadTypes DEF ReplyRefused, ReplyIsNext, Errors
  <2> QED BY <1>1, <1>4, <2>1, OutcomeTypes DEF ReplyRefused, replyUnchanged
<1>5. CASE ReplyValue
  <2>1. /\ Waiting /\ Succeed(Head(down).value, Tail(down)) /\ Tail(down) \in Seq(Packet)
        /\ op = "refresh" => Head(down).value \in Devices
    BY <1>5, HeadTypes DEF ReplyValue, ReplyIsNext
  <2> QED BY <1>1, <1>5, <2>1, OutcomeTypes DEF ReplyValue, replyUnchanged
<1>6. CASE ReplyChunk
  <2> DEFINE packet == Head(down)
             r == ReaderFor(packet)
             parts == Append(r.parts, packet)
  <2>1. /\ Waiting /\ packet \in ReplySet /\ Tail(down) \in Seq(Packet) /\ "Protocol" \in Errors
        /\ op = "refresh" => packet.value \in Devices
        /\ packet.left \in Nat
    BY <1>6, HeadTypes DEF ReplyChunk, ReplyIsNext, Errors
  <2>2. packet.left >= 1
    BY <1>6, HeadTypes, StreamHead DEF ReplyChunk, Stream, WellMade
  <2>3. UNCHANGED replyUnchanged
    BY <1>6 DEF ReplyChunk
  <2>4. CASE Fail("Protocol", Tail(down))
    BY <1>1, <2>1, <2>3, <2>4, OutcomeTypes DEF replyUnchanged
  <2>5. CASE Succeed(packet.value, Tail(down))
    BY <1>1, <2>1, <2>3, <2>5, OutcomeTypes DEF replyUnchanged
  <2>6. CASE /\ ~OutOfPlace(r, packet) /\ ~Complete(r)
             /\ reader' = [expect |-> r.expect - 1, started |-> TRUE, parts |-> parts]
             /\ down' = Tail(down)
             /\ UNCHANGED <<op, cacheVars, up, asked, result, accepted>>
    <3>1. reader \in [expect : Nat, started : BOOLEAN, parts : Seq(ReplySet)]
      BY DEF TypeOK, TypeOKRequest
    <3>2. r.parts \in Seq(ReplySet) /\ r.expect = packet.left
      <4>1. CASE packet.first
        <5>1. <<>> \in Seq(ReplySet)
          OBVIOUS
        <5> QED BY <4>1, <5>1 DEF ReaderFor
      <4>2. CASE ~packet.first
        BY <2>6, <3>1, <4>2 DEF ReaderFor, OutOfPlace
      <4> QED BY <4>1, <4>2
    <3> HIDE DEF r, packet
    <3>3. parts \in Seq(ReplySet)
      BY <2>1, <3>2, OneMore
    <3>4. r.expect - 1 \in Nat
      BY <2>1, <2>2, <3>2
    <3> HIDE DEF parts
    <3>5. reader' \in [expect : Nat, started : BOOLEAN, parts : Seq(ReplySet)]
      BY <2>6, <3>3, <3>4
    <3>6. TypeOKRequest'
      BY <2>6, <3>5 DEF cacheVars, TypeOK, TypeOKRequest
    <3>7. TypeOKDaemon' /\ TypeOKCache'
      BY <2>1, <2>3, <2>6 DEF replyUnchanged, daemonVars, cacheVars, TypeOK, TypeOKDaemon,
                              TypeOKCache, Packet
    <3> QED BY <3>6, <3>7 DEF TypeOK
  <2> QED BY <1>6, <2>4, <2>5, <2>6 DEF ReplyChunk
<1>7. CASE Timeout
  <2>1. /\ Waiting /\ Fail("Timeout", down) /\ "Timeout" \in Errors
        /\ misses' \in 0 .. MaxMisses
    BY <1>1, <1>7 DEF Timeout, GivesUp, Errors
  <2> QED BY <1>7, <2>1, OutcomeTypes, RestTypes DEF Timeout
<1>8. CASE Disconnected
  <2>1. Waiting /\ Fail("Disconnected", down) /\ "Disconnected" \in Errors
    BY <1>8 DEF Disconnected, Errors
  <2> QED BY <1>1, <1>8, <2>1, OutcomeTypes, RestTypes DEF Disconnected, replyUnchanged
<1> QED BY <1>2, <1>3, <1>4, <1>5, <1>6, <1>7, <1>8 DEF AwaitAnswer

\* And so do the reads and the calls.
LEMMA CallTypes ==
  ASSUME TypeOK, ReadStep \/ Call
  PROVE  TypeOK'
<1> USE DEF TypeOK
<1>1. /\ down \in Seq(Packet) /\ queued \in Nat
      /\ down # <<>> => Tail(down) \in Seq(Packet)
      /\ calls \in 1 .. MaxCalls /\ MaxCalls \in Nat
  BY RestTypes, BoundsAssumption DEF TypeOKCache
<1>2. ASSUME op' \in {"idle", "read", "read_blocking"}, ~Waiting,
             UNCHANGED <<readUnchanged>>, down' \in Seq(Packet), queued' \in Nat,
             heard' \in BOOLEAN,
             result' \in {result, "none", "Disconnected", "Io", "event", "empty"}
      PROVE  TypeOK'
  <2>1. TypeOKDaemon'
    BY <1>2 DEF readUnchanged, daemonVars, requestVars, TypeOKDaemon, Packet
  <2>2. TypeOKRequest'
    BY <1>2 DEF readUnchanged, cacheVars, requestVars, TypeOKRequest, Waiting
  <2>3. TypeOKCache'
    BY <1>2 DEF readUnchanged, cacheVars, TypeOKCache
  <2> QED BY <2>1, <2>2, <2>3
<1>3. heard \in BOOLEAN
  BY DEF TypeOKCache
<1>4. CASE ReadEvent
  BY <1>1, <1>2, <1>4 DEF ReadEvent, Return, Reading, Waiting
<1>5. CASE ReadStaleReply
  BY <1>1, <1>2, <1>3, <1>5 DEF ReadStaleReply, Reading, Waiting
<1>6. CASE ReadNothing \/ ReadDisconnected
  BY <1>1, <1>2, <1>3, <1>6 DEF ReadNothing, ReadDisconnected, Return, Reading, Waiting
<1>7. CASE PopQueued
  <2>1. queued' \in Nat
    BY <1>1, <1>7 DEF PopQueued
  <2> QED BY <1>1, <1>2, <1>7, <2>1 DEF PopQueued, Return, Waiting
<1>8. CASE BeginRead
  BY <1>1, <1>2, <1>3, <1>8 DEF BeginRead, Waiting
<1>9. CASE RequestFails
  BY <1>1, <1>2, <1>3, <1>9 DEF RequestFails, Return, readUnchanged, Waiting
<1>10. CASE RefreshDevice
  <2>1. "NAME" \in Ids /\ None \in Axes \cup {None} /\ calls' \in 1 .. MaxCalls
    BY <1>1, <1>10 DEF RefreshDevice, Ids, QueryIds
  <2>2. /\ asked' \in RequestSet /\ asked'.id = "NAME" /\ up' \in Seq(RequestSet)
        /\ reader' \in [expect : Nat, started : BOOLEAN, parts : Seq(ReplySet)]
    BY <1>10, <2>1, SendIs DEF RefreshDevice
  <2>3. TypeOKDaemon'
    BY <1>10, <2>2 DEF RefreshDevice, daemonVars, TypeOKDaemon
  <2>4. TypeOKRequest'
    <3>1. stage' \in 1 .. Len(Queries) /\ asked'.id = Queries[stage']
      BY <1>10, <2>2, QueriesAre DEF RefreshDevice, Queries
    <3> QED BY <1>10, <2>2, <3>1 DEF RefreshDevice, TypeOKRequest
  <2>5. TypeOKCache'
    <3>1. info' \in [QueryIds -> Devices \cup {None}] /\ ~(stage' > 1) /\ sound' \in BOOLEAN
      BY <1>10 DEF RefreshDevice, NoInfo, InStepWith
    <3> QED BY <1>10, <2>1, <3>1 DEF RefreshDevice, TypeOKCache
  <2> QED BY <2>3, <2>4, <2>5
<1>11. CASE DeadZone
  <2>1. "DEADZONE" \in Ids /\ calls' \in 1 .. MaxCalls
    BY <1>1, <1>11 DEF DeadZone, Ids
  <2>2. PICK axis \in Axes : Send("DEADZONE", axis)
    BY <1>11 DEF DeadZone
  <2>3. /\ asked' \in RequestSet /\ asked'.id = "DEADZONE" /\ up' \in Seq(RequestSet)
        /\ reader' \in [expect : Nat, started : BOOLEAN, parts : Seq(ReplySet)]
    BY <2>1, <2>2, SendIs
  <2>4. TypeOKDaemon'
    BY <1>11, <2>3 DEF DeadZone, daemonVars, TypeOKDaemon
  <2>5. TypeOKRequest'
    BY <1>11, <2>3 DEF DeadZone, cacheVars, TypeOKRequest
  <2>6. TypeOKCache'
    BY <1>11, <2>1 DEF DeadZone, cacheVars, TypeOKCache
  <2> QED BY <2>4, <2>5, <2>6
<1> QED BY <1>4, <1>5, <1>6, <1>7, <1>8, <1>9, <1>10, <1>11 DEF ReadStep, Call

(***************************************************************************)
(* The stream, and the reader's place in it, step by step.                  *)
(***************************************************************************)

\* The daemon puts a packet on the way.  Of a string it goes on with the packet that is
\* next; and it begins an answer when no other is unwritten.
DaemonWrites(p) ==
  /\ down' = Append(down, p) /\ p \in ReplySet /\ WellMade(p)
  /\ sending = <<>> \/ p = sending[1]
  /\ RestOfString(sending') /\ sending' \in Seq(ReplySet)
  /\ p.left = Len(sending') + 1
  /\ p.left > 1 => sending' # <<>> /\ sending'[1] \in After(p)
  /\ \A i \in 1 .. Len(sending') : sending'[i].serial = p.serial /\ sending'[i].id = p.id

\* It does when it takes a request.
LEMMA TakeWrites ==
  ASSUME TypeOK, TakeRequest
  PROVE  DaemonWrites(Head(Answer(Head(up))))
<1> DEFINE answer == Answer(Head(up))
           p == Head(answer)
           rest == Tail(answer)
<1>1. plugged \in Devices \cup {NoDevice} /\ up \in Seq(RequestSet) /\ up # <<>> /\ sending = <<>>
  BY DEF TypeOK, TypeOKDaemon, TakeRequest
<1>2. Head(up) \in RequestSet
  BY <1>1, OneLess
<1>3. AnswerTo(Head(up), answer)
  BY <1>1, <1>2, AnswerIs
<1>4. down' = Append(down, p) /\ sending' = rest
  BY DEF TakeRequest
<1> HIDE DEF answer
<1>5. /\ p \in ReplySet /\ rest \in Seq(ReplySet) /\ WellMade(p) /\ p.first
      /\ p.serial = Head(up).serial /\ p.id = Head(up).id
      /\ p.left = Len(rest) + 1 /\ Len(rest) \in Nat
      /\ \A i \in 1 .. Len(rest) :
           /\ rest[i].serial = Head(up).serial /\ rest[i].id = Head(up).id
           /\ rest[i].left = Len(rest) + 1 - i
           /\ ~rest[i].first /\ WellMade(rest[i])
  BY <1>3, AnswerParts
<1> HIDE DEF p, rest
<1>6. /\ \A i \in 1 .. Len(rest) : rest[i].serial = p.serial /\ rest[i].id = p.id
      /\ \A i \in 1 .. Len(rest) : 1 \in 1 .. Len(rest)
  BY <1>5
<1>7. RestOfString(rest)
  BY <1>5, <1>6 DEF RestOfString
<1>8. p.left > 1 => rest # <<>> /\ rest[1] \in After(p)
  <2>1. SUFFICES ASSUME p.left > 1 PROVE rest # <<>> /\ rest[1] \in After(p)
    OBVIOUS
  <2>2. 1 \in 1 .. Len(rest) /\ Len(rest) # 0
    BY <1>5, <2>1
  <2>3. rest # <<>> /\ rest[1] \in ReplySet
    BY <1>5, <2>2, EmptyIffNone, ElementOfSeq
  <2>4. rest[1].left = Len(rest) + 1 - 1 /\ ~rest[1].first
    BY <1>5, <2>2
  <2>5. rest[1].left + 1 = p.left
    BY <1>5, <2>4
  <2> QED BY <1>6, <2>2, <2>3, <2>4, <2>5 DEF After
<1>9. DaemonWrites(p)
  BY <1>1, <1>4, <1>5, <1>6, <1>7, <1>8 DEF DaemonWrites
<1> QED BY <1>9 DEF p, answer

\* And when it goes on with a string.
LEMMA RestWrites ==
  ASSUME TypeOK, Stream, SendRest
  PROVE  DaemonWrites(sending[1])
<1> DEFINE p == sending[1]
           rest == Tail(sending)
<1>1. sending \in Seq(ReplySet) /\ sending # <<>> /\ RestOfString(sending)
  BY DEF TypeOK, TypeOKDaemon, SendRest, Stream, StreamOf
<1>2. /\ rest \in Seq(ReplySet) /\ Len(rest) \in Nat /\ Len(sending) = Len(rest) + 1
      /\ p \in ReplySet /\ Head(sending) = p
      /\ \A i \in 1 .. Len(rest) : rest[i] = sending[i + 1]
  BY <1>1, OneLess
<1>3. down' = Append(down, p) /\ sending' = rest
  BY <1>2 DEF SendRest
<1> HIDE DEF rest
<1>4. 1 \in 1 .. Len(sending) /\ \A i \in 1 .. Len(rest) : i + 1 \in 1 .. Len(sending)
  BY <1>2
<1>5. WellMade(p) /\ p.left = Len(sending) + 1 - 1
  BY <1>1, <1>4 DEF RestOfString
<1>6. ASSUME NEW i \in 1 .. Len(rest)
      PROVE  /\ rest[i].serial = p.serial /\ rest[i].id = p.id
             /\ rest[i].left = Len(sending) + 1 - (i + 1)
             /\ ~rest[i].first /\ WellMade(rest[i])
  BY <1>1, <1>2, <1>4 DEF RestOfString
<1> HIDE DEF p
<1>7. RestOfString(rest)
  <2>1. ASSUME NEW i \in 1 .. Len(rest)
        PROVE  /\ rest[i].left = Len(rest) + 1 - i
               /\ rest[i].serial = rest[1].serial /\ rest[i].id = rest[1].id
    <3>1. 1 \in 1 .. Len(rest) /\ Len(sending) + 1 - (i + 1) = Len(rest) + 1 - i
      BY <1>2
    <3> QED BY <1>6, <3>1
  <2> QED BY <1>6, <2>1 DEF RestOfString
<1>8. p.left > 1 => rest # <<>> /\ rest[1] \in After(p)
  <2>1. SUFFICES ASSUME p.left > 1 PROVE rest # <<>> /\ rest[1] \in After(p)
    OBVIOUS
  <2>2. 1 \in 1 .. Len(rest) /\ Len(rest) # 0
    BY <1>2, <1>5, <2>1
  <2>3. rest # <<>> /\ rest[1] \in ReplySet
    BY <1>2, <2>2, EmptyIffNone, ElementOfSeq
  <2>4. rest[1].left = Len(sending) + 1 - (1 + 1) /\ ~rest[1].first /\ rest[1].serial = p.serial
    BY <1>6, <2>2
  <2>5. rest[1].left + 1 = p.left
    BY <1>2, <1>5, <2>4
  <2> QED BY <2>3, <2>4, <2>5 DEF After
<1>9. p.left = Len(rest) + 1
  BY <1>2, <1>5
<1>10. DaemonWrites(p)
  <2>1. p = sending[1]
    BY DEF p
  <2> QED BY <1>2, <1>3, <1>5, <1>6, <1>7, <1>8, <1>9, <2>1 DEF DaemonWrites
<1> QED BY <1>10 DEF p

\* The packet to come next comes next whatever the daemon does.
LEMMA NextInDaemon ==
  ASSUME TypeOK, Stream, Daemon, NEW packets, NextIn(packets, 1, down, sending)
  PROVE  NextIn(packets, 1, down', sending')
<1>1. down \in Seq(Packet) /\ 1 \in Nat
  BY RestTypes
<1>2. CASE Hotplug
  BY <1>1, <1>2, NextInEvent DEF Hotplug
<1>3. ASSUME NEW p, DaemonWrites(p)
      PROVE  NextIn(packets, 1, down', sending')
  <2>1. Len(down) \in Nat
    BY <1>1, LenProperties
  <2>2. 1 <= Len(down) + 1 /\ 1 <= 1
    BY <2>1
  <2> QED BY <1>1, <1>3, <2>2, NextInWritten DEF DaemonWrites
<1>4. CASE DaemonCloses
  BY <1>4 DEF DaemonCloses
<1> QED BY <1>2, <1>3, <1>4, TakeWrites, RestWrites DEF Daemon

\* The stream is kept.
LEMMA StreamNext ==
  ASSUME TypeOK, Stream, [Next]_vars
  PROVE  Stream'
<1>1. down \in Seq(Packet)
  BY RestTypes
<1>2. CASE Daemon
  <2>1. CASE Hotplug
    BY <1>1, <2>1, StreamEvent DEF Hotplug, Stream
  <2>2. ASSUME NEW p, DaemonWrites(p)
        PROVE  Stream'
    BY <1>1, <2>2, StreamWritten DEF DaemonWrites, Stream
  <2>3. CASE DaemonCloses
    BY <2>3 DEF DaemonCloses, Stream
  <2> QED BY <1>2, <2>1, <2>2, <2>3, TakeWrites, RestWrites DEF Daemon
<1>3. ASSUME sending' = sending, (down' = Tail(down) /\ down # <<>>) \/ down' = down
      PROVE  Stream'
  BY <1>1, <1>3, StreamTaken DEF Stream
<1>4. CASE AwaitAnswer
  <2>1. CASE QueueEvent
    BY <1>3, <2>1 DEF QueueEvent, daemonVars
  <2>2. CASE ReplyToAnother \/ ReplyRefused \/ ReplyValue
    <3>1. down' = Tail(down)
      BY <2>2, Outcome DEF ReplyToAnother, ReplyRefused, ReplyValue, ReplyIsNext
    <3> QED BY <1>3, <2>2, <3>1 DEF ReplyToAnother, ReplyRefused, ReplyValue, ReplyIsNext,
                                    replyUnchanged, daemonVars
  <2>3. CASE ReplyChunk
    <3>1. down' = Tail(down)
      BY <2>3, Outcome DEF ReplyChunk, ReplyIsNext
    <3> QED BY <1>3, <2>3, <3>1 DEF ReplyChunk, ReplyIsNext, replyUnchanged, daemonVars
  <2>4. CASE Timeout \/ Disconnected
    <3>1. down' = down
      BY <2>4, Outcome DEF Timeout, Disconnected
    <3> QED BY <1>3, <2>4, <3>1 DEF Timeout, Disconnected, replyUnchanged, daemonVars
  <2> QED BY <1>4, <2>1, <2>2, <2>3, <2>4 DEF AwaitAnswer
<1>5. CASE ReadStep
  BY <1>3, <1>5 DEF ReadStep, ReadEvent, ReadStaleReply, ReadNothing, ReadDisconnected,
                    readUnchanged, daemonVars
<1>6. CASE Call
  BY <1>3, <1>6 DEF Call, RefreshDevice, DeadZone, RequestFails, PopQueued, BeginRead,
                    readUnchanged, daemonVars
<1>7. CASE UNCHANGED vars
  BY <1>3, <1>7 DEF vars, daemonVars
<1> QED BY <1>2, <1>4, <1>5, <1>6, <1>7 DEF Next

\* When a request is over no reader is at work, and when another is sent it is new.
LEMMA OutcomeReader ==
  ASSUME TypeOK, Waiting, NEW rest,
         \/ \E value : Succeed(value, rest)
         \/ \E err : Fail(err, rest)
  PROVE  ~(Waiting' /\ reader'.started)
<1>1. CASE Over
  BY <1>1 DEF Over, Waiting
<1>2. CASE GoesOn
  BY <1>2 DEF GoesOn, Send, NewReader
<1> QED BY <1>1, <1>2, Outcome

\* A chunk in its place goes on with the string the reader is at.
LEMMA ChunkIs ==
  ASSUME TypeOK, Stream, ReaderIs, ReplyIsNext,
         NEW r, r = ReaderFor(Head(down)), ~OutOfPlace(r, Head(down)),
         NEW parts, parts = Append(r.parts, Head(down))
  PROVE  /\ Chain(parts) /\ parts \in Seq(ReplySet) /\ parts[Len(parts)] = Head(down)
         /\ r.expect = Head(down).left /\ r.expect \in Nat /\ r.expect >= 1
         /\ Head(down).left > 1 => NextIn(After(Head(down)), 1, Tail(down), sending)
<1> DEFINE packet == Head(down)
<1>1. /\ packet \in ReplySet /\ down \in Seq(Packet) /\ down # <<>> /\ packet.kind = "reply"
      /\ packet.left \in Nat
  BY HeadTypes
<1>2. /\ packet.left >= 1
      /\ packet.left > 1 => NextIn(After(packet), 1, Tail(down), sending)
  BY <1>1, StreamHead DEF Stream, WellMade
<1>3. CASE packet.first
  <2>1. r.parts = <<>> /\ r.expect = packet.left
    BY <1>3 DEF ReaderFor
  <2>2. parts = Append(<<>>, packet)
    BY <2>1
  <2> HIDE DEF packet
  <2>3. parts = <<packet>> /\ Chain(<<packet>>) /\ <<packet>> \in Seq(ReplySet)
        /\ Len(<<packet>>) = 1 /\ <<packet>>[1] = packet
    BY <1>1, <1>3, <2>2, ChainBegins
  <2> QED BY <1>1, <1>2, <2>1, <2>3 DEF packet
<1>4. CASE ~packet.first
  <2>1. r = reader /\ reader.started /\ packet.left = reader.expect /\ reader.parts \in Seq(ReplySet)
    BY <1>4 DEF ReaderFor, OutOfPlace, TypeOK, TypeOKRequest
  <2>2. ReaderOf(reader, down, sending)
    BY <2>1 DEF ReaderIs, ReplyIsNext
  <2>3. packet \in After(reader.parts[Len(reader.parts)]) /\ Chain(reader.parts)
    BY <1>1, <2>2, NextInFront DEF ReaderOf
  <2>4. parts = Append(reader.parts, packet)
    BY <2>1
  <2> HIDE DEF packet
  <2>5. /\ Chain(parts) /\ parts \in Seq(ReplySet) /\ Len(parts) = Len(reader.parts) + 1
        /\ parts[Len(reader.parts) + 1] = packet
    BY <2>1, <2>3, <2>4, ChainGrows
  <2> QED BY <1>1, <1>2, <2>1, <2>5 DEF packet
<1> QED BY <1>3, <1>4

\* The reader's place is kept.
LEMMA ReaderNext ==
  ASSUME TypeOK, Stream, ReaderIs, [Next]_vars
  PROVE  ReaderIs'
<1>1. CASE Daemon
  <2>1. UNCHANGED <<op, reader>>
    BY <1>1 DEF Daemon
  <2>2. ASSUME ReaderOf(reader, down, sending)
        PROVE  ReaderOf(reader, down', sending')
    BY <1>1, <2>2, NextInDaemon DEF ReaderOf
  <2> QED BY <2>1, <2>2 DEF ReaderIs, Waiting
<1>2. CASE AwaitAnswer
  <2>1. CASE QueueEvent
    <3>1. /\ down \in Seq(Packet) /\ down # <<>> /\ Head(down).kind = "device"
          /\ down' = Tail(down) /\ UNCHANGED <<op, reader, sending>>
      BY <2>1, RestTypes DEF QueueEvent, daemonVars, requestVars
    <3>2. ASSUME ReaderOf(reader, down, sending)
          PROVE  ReaderOf(reader, down', sending')
      BY <3>1, <3>2, NextInFront DEF ReaderOf
    <3> QED BY <3>1, <3>2 DEF ReaderIs, Waiting
  <2>2. CASE ReplyToAnother \/ ReplyRefused \/ ReplyValue \/ Timeout \/ Disconnected
    <3>1. ~(Waiting' /\ reader'.started)
      BY <2>2, OutcomeReader
         DEF ReplyToAnother, ReplyRefused, ReplyValue, ReplyIsNext, Timeout, Disconnected
    <3> QED BY <3>1 DEF ReaderIs
  <2>3. CASE ReplyChunk
    <3> DEFINE packet == Head(down)
               r == ReaderFor(packet)
               parts == Append(r.parts, packet)
    <3>1. CASE Fail("Protocol", Tail(down)) \/ Succeed(packet.value, Tail(down))
      <4>1. ~(Waiting' /\ reader'.started)
        BY <2>3, <3>1, OutcomeReader DEF ReplyChunk, ReplyIsNext
      <4> QED BY <4>1 DEF ReaderIs
    <3>2. CASE /\ ~OutOfPlace(r, packet) /\ ~Complete(r)
               /\ reader' = [expect |-> r.expect - 1, started |-> TRUE, parts |-> parts]
               /\ down' = Tail(down)
      <4>1. /\ Chain(parts) /\ parts[Len(parts)] = packet
            /\ r.expect = packet.left /\ r.expect \in Nat /\ r.expect >= 1
            /\ packet.left > 1 => NextIn(After(packet), 1, Tail(down), sending)
        BY <2>3, <3>2, ChunkIs DEF ReplyChunk
      <4>2. r.expect # 1 /\ sending' = sending
        BY <2>3, <3>2 DEF Complete, ReplyChunk, replyUnchanged, daemonVars
      <4> HIDE DEF parts, r, packet
      <4>3. packet.left > 1 /\ r.expect - 1 + 1 = packet.left
        BY <4>1, <4>2
      <4>4. reader'.parts = parts /\ reader'.expect = r.expect - 1
        BY <3>2
      <4>5. ReaderOf(reader', down', sending')
        BY <3>2, <4>1, <4>2, <4>3, <4>4 DEF ReaderOf
      <4> QED BY <4>5 DEF ReaderIs
    <3> QED BY <2>3, <3>1, <3>2 DEF ReplyChunk
  <2> QED BY <1>2, <2>1, <2>2, <2>3 DEF AwaitAnswer
<1>3. CASE ReadStep
  <2>1. ~Waiting'
    BY <1>3 DEF ReadStep, ReadEvent, ReadStaleReply, ReadNothing, ReadDisconnected, Reading,
                Return, Waiting
  <2> QED BY <2>1 DEF ReaderIs
<1>4. CASE Call
  <2>1. ~(Waiting' /\ reader'.started)
    BY <1>4 DEF Call, RefreshDevice, DeadZone, RequestFails, PopQueued, BeginRead, Send,
                NewReader, Return, Waiting
  <2> QED BY <2>1 DEF ReaderIs
<1>5. CASE UNCHANGED vars
  BY <1>5 DEF vars, daemonVars, requestVars, ReaderIs, Waiting
<1> QED BY <1>1, <1>2, <1>3, <1>4, <1>5 DEF Next

\* What is accepted stays one answer.
LEMMA WholeNext ==
  ASSUME TypeOK, Stream, ReaderIs, StringWhole, [Next]_vars
  PROVE  StringWhole'
<1>1. ASSUME accepted' = accepted
      PROVE  StringWhole'
  BY <1>1 DEF StringWhole
<1>2. CASE Daemon
  BY <1>1, <1>2 DEF Daemon
<1>3. CASE AwaitAnswer
  <2>1. CASE QueueEvent \/ ReplyToAnother \/ Timeout \/ Disconnected
    BY <1>1, <2>1 DEF QueueEvent, ReplyToAnother, Timeout, Disconnected
  <2>2. CASE ReplyRefused \/ ReplyValue
    <3> DEFINE p == Head(down)
    <3>1. ReplyIsNext /\ Accept(<<p>>) /\ (~p.ok \/ p.id \notin Strings)
      BY <2>2 DEF ReplyRefused, ReplyValue, Mine
    <3>2. p \in ReplySet /\ p.left = 1 /\ p.first
      BY <3>1, HeadTypes, StreamHead DEF Stream, WellMade
    <3> HIDE DEF p
    <3>3. Chain(<<p>>) /\ Len(<<p>>) = 1 /\ <<p>>[1] = p
      BY <3>2, ChainBegins
    <3>4. <<p>>[Len(<<p>>)].left = 1
      BY <3>2, <3>3
    <3> QED BY <3>1, <3>3, <3>4, AcceptsWhole
  <2>3. CASE ReplyChunk
    <3> DEFINE packet == Head(down)
               r == ReaderFor(packet)
               parts == Append(r.parts, packet)
    <3>1. CASE UNCHANGED accepted
      BY <1>1, <3>1
    <3>2. CASE ~OutOfPlace(r, packet) /\ Complete(r) /\ Accept(parts)
      <4>1. Chain(parts) /\ parts[Len(parts)] = packet /\ r.expect = packet.left
        BY <2>3, <3>2, ChunkIs DEF ReplyChunk
      <4>2. parts[Len(parts)].left = 1
        BY <3>2, <4>1 DEF Complete
      <4> QED BY <3>2, <4>1, <4>2, AcceptsWhole
    <3> QED BY <2>3, <3>1, <3>2 DEF ReplyChunk
  <2> QED BY <1>3, <2>1, <2>2, <2>3 DEF AwaitAnswer
<1>4. CASE ReadStep
  BY <1>1, <1>4 DEF ReadStep, ReadEvent, ReadStaleReply, ReadNothing, ReadDisconnected,
                    readUnchanged
<1>5. CASE Call
  BY <1>1, <1>5 DEF Call, RefreshDevice, DeadZone, RequestFails, PopQueued, BeginRead,
                    readUnchanged
<1>6. CASE UNCHANGED vars
  BY <1>1, <1>6 DEF vars
<1> QED BY <1>2, <1>3, <1>4, <1>5, <1>6 DEF Next

(***************************************************************************)
(* Requests in step with their answers.                                     *)
(***************************************************************************)

\* In step, a reply that is next is the request's own and is in its place, and nothing
\* comes after the last of them.
LEMMA NextIsMine ==
  ASSUME TypeOK, Stream, ReaderIs, Steps, InTune, ReplyIsNext
  PROVE  /\ Answering /\ Head(down).serial = asked.serial /\ Mine
         /\ ~OutOfPlace(ReaderFor(Head(down)), Head(down))
         /\ Head(down).left = 1 =>
              up = <<>> /\ sending = <<>> /\ Replies(Tail(down)) = {}
<1> DEFINE packet == Head(down)
<1>1. /\ packet \in ReplySet /\ down \in Seq(Packet) /\ down # <<>> /\ packet.kind = "reply"
      /\ packet.left \in Nat /\ sending \in Seq(ReplySet)
  BY HeadTypes DEF TypeOK, TypeOKDaemon
<1>2. 1 \in Replies(down) /\ packet = down[1]
  BY <1>1, RepliesLess
<1>3. Answering
  BY <1>2 DEF Steps, Unanswered
<1>4. packet.serial = asked.serial /\ packet.id = asked.id /\ packet.left > Len(sending)
  BY <1>2, <1>3 DEF Answering
<1>5. ~OutOfPlace(ReaderFor(packet), packet)
  <2>1. CASE packet.first
    BY <2>1 DEF ReaderFor, OutOfPlace
  <2>2. CASE ~packet.first
    <3>1. reader.started
      <4>1. SUFFICES ASSUME ~reader.started PROVE FALSE
        OBVIOUS
      <4>2. packet \in Firsts
        BY <1>1, <1>3, <4>1, NextInFront DEF Answering
      <4> QED BY <2>2, <4>2 DEF Firsts
    <3>2. ReaderOf(reader, down, sending) /\ reader.expect \in Nat
      BY <3>1 DEF ReaderIs, InTune, TypeOK, TypeOKRequest
    <3>3. packet \in After(reader.parts[Len(reader.parts)])
      BY <1>1, <3>2, NextInFront DEF ReaderOf
    <3>4. packet.left + 1 = reader.expect + 1
      BY <3>2, <3>3 DEF ReaderOf, After
    <3>5. packet.left = reader.expect
      BY <1>1, <3>2, <3>4
    <3> QED BY <2>2, <3>1, <3>5 DEF ReaderFor, OutOfPlace
  <2> QED BY <2>1, <2>2
<1>6. ASSUME packet.left = 1
      PROVE  up = <<>> /\ sending = <<>> /\ Replies(Tail(down)) = {}
  <2>1. Len(sending) = 0
    BY <1>1, <1>4, <1>6, LenProperties
  <2>2. sending = <<>>
    BY <1>1, <2>1, EmptyIffNone
  <2>3. ASSUME NEW i \in Replies(Tail(down))
        PROVE  FALSE
    <3>1. i + 1 \in Replies(down) /\ i \in Nat /\ i >= 1
      BY <1>1, RepliesLess
    <3>2. down[1].left > down[i + 1].left
      <4>1. 1 < i + 1
        BY <3>1
      <4> QED BY <1>2, <1>3, <3>1, <4>1 DEF Answering
    <3>3. down[i + 1].left >= 1 /\ down[i + 1] \in Packet /\ down[i + 1].kind = "reply"
      <4>1. down[i + 1].left >= 1
        BY <3>1 DEF Stream, StreamOf, WellMade
      <4>2. i + 1 \in 1 .. Len(down) /\ down[i + 1].kind = "reply"
        BY <3>1 DEF Replies
      <4> QED BY <1>1, <4>1, <4>2, ElementOfSeq
    <3>4. down[i + 1].left \in Nat
      <4>1. \A p \in ReplySet : p.left \in Nat
        BY DEF ReplySet
      <4> QED BY <3>3, <4>1, PacketKinds
    <3> QED BY <1>2, <1>6, <3>2, <3>3, <3>4
  <2> QED BY <1>3, <2>2, <2>3 DEF Answering
<1> QED BY <1>3, <1>4, <1>5, <1>6 DEF Mine

\* What is on the way, as a packet is taken that is not to come next, or is of a string
\* that goes on.
LEMMA AnsweringTaken ==
  ASSUME TypeOK, Answering, down # <<>>, down' = Tail(down),
         UNCHANGED <<up, asked, sending>>,
         reader'.started => \A i \in 1 .. Len(reader'.parts) : reader'.parts[i].serial = asked.serial,
         ~reader'.started => Head(down).kind = "device" /\ ~reader.started
  PROVE  Answering'
<1>1. down \in Seq(Packet)
  BY RestTypes
<1>2. \A i \in Replies(down') : /\ i \in Nat /\ i >= 1
                                /\ i + 1 \in Replies(down) /\ down'[i] = down[i + 1]
  BY <1>1, RepliesLess
<1>3. \A i \in Replies(down') : /\ down'[i].serial = asked.serial /\ down'[i].id = asked.id
                                /\ down'[i].left > Len(sending)
  BY <1>2 DEF Answering
<1>4. ASSUME NEW i \in Replies(down'), NEW j \in Replies(down'), i < j
      PROVE  down'[i].left > down'[j].left
  <2>1. i + 1 < j + 1
    BY <1>2, <1>4
  <2>2. down[i + 1].left > down[j + 1].left
    BY <1>2, <2>1 DEF Answering
  <2> QED BY <1>2, <2>2
<1>5. ~reader'.started => NextIn(Firsts, 1, down', sending)
  BY <1>1, NextInFront DEF Answering
<1> QED BY <1>3, <1>4, <1>5 DEF Answering

\* As the daemon writes, a request in step stays in step.
LEMMA DaemonKeepsStep ==
  ASSUME TypeOK, Stream, Steps, Waiting, Unanswered \/ Answering, Daemon
  PROVE  (Unanswered \/ Answering)'
<1>1. /\ down \in Seq(Packet) /\ UNCHANGED <<asked, reader>> /\ Len(down) \in Nat
      /\ asked \in RequestSet
  BY RestTypes, LenProperties DEF Daemon, TypeOK, TypeOKRequest
<1>2. CASE Hotplug
  <2>1. DeviceEvent \in Packet /\ DeviceEvent.kind = "device"
    BY PacketKinds DEF Packet
  <2>2. down' = Append(down, DeviceEvent) /\ UNCHANGED <<up, sending>>
    BY <1>2 DEF Hotplug
  <2>3. \A i \in Replies(down') : i \in Replies(down) /\ down'[i] = down[i]
    BY <1>1, <2>1, <2>2, RepliesMore
  <2>4. CASE Unanswered
    BY <1>1, <2>2, <2>3, <2>4 DEF Unanswered
  <2>5. CASE Answering
    <3>1. ~reader.started => NextIn(Firsts, 1, down', sending)
      BY <1>1, <2>2, <2>5, NextInEvent, 1 \in Nat DEF Answering
    <3>2. \A i, j \in Replies(down') : i < j => down'[i].left > down'[j].left
      BY <2>3, <2>5 DEF Answering
    <3>3. \A i \in Replies(down') : /\ down'[i].serial = asked.serial /\ down'[i].id = asked.id
                                    /\ down'[i].left > Len(sending)
      BY <2>3, <2>5 DEF Answering
    <3>4. Answering'
      BY <1>1, <2>2, <2>5, <3>1, <3>2, <3>3 DEF Answering
    <3> QED BY <3>4
  <2> QED BY <2>4, <2>5
<1>3. CASE TakeRequest
  <2> DEFINE p == Head(Answer(Head(up)))
  <2>1. Unanswered
    BY <1>3 DEF TakeRequest, Answering
  <2>2. Head(up) = asked /\ up' = <<>>
    <3>1. up = <<asked>>
      BY <2>1 DEF Unanswered
    <3>2. Head(<<asked>>) = asked /\ Tail(<<asked>>) = <<>>
      OBVIOUS
    <3> QED BY <1>3, <3>1, <3>2 DEF TakeRequest
  <2>3. DaemonWrites(p)
    BY <1>3, TakeWrites
  <2>4. p.first /\ p.serial = asked.serial /\ p.id = asked.id
    BY <1>1, <2>2, AnswerIs, AnswerParts DEF TypeOK, TypeOKDaemon
  <2> HIDE DEF p
  <2>5. p \in ReplySet /\ p.kind = "reply" /\ p \in Packet /\ p.left = Len(sending') + 1
        /\ Len(sending') \in Nat
    BY <2>3, PacketKinds, LenProperties DEF DaemonWrites, Packet
  <2>6. down' = Append(down, p)
    BY <2>3 DEF DaemonWrites
  <2>7. /\ \A i \in Replies(down') : i = Len(down) + 1
        /\ down'[Len(down) + 1] = p /\ Len(down') = Len(down) + 1
    BY <1>1, <2>1, <2>5, <2>6, RepliesMore, OneMore DEF Unanswered
  <2>8. \A i \in Replies(down') : /\ down'[i].serial = asked.serial /\ down'[i].id = asked.id
                                  /\ down'[i].left > Len(sending')
    BY <2>4, <2>5, <2>7
  <2>9. \A i, j \in Replies(down') : i < j => down'[i].left > down'[j].left
    BY <1>1, <2>7
  <2>10. NextIn(Firsts, 1, down', sending')
    <3>1. p \in Firsts
      BY <2>4, <2>5 DEF Firsts
    <3>2. \A l \in 1 .. (Len(down) + 1) - 1 : down'[l] = down[l] /\ l \in 1 .. Len(down)
      BY <1>1, <2>5, <2>6, OneMore
    <3>3. \A l \in 1 .. Len(down) : down[l] \in Packet /\ down[l].kind # "reply"
      BY <1>1, <2>1, ElementOfSeq DEF Unanswered, Replies
    <3>4. \A l \in 1 .. (Len(down) + 1) - 1 : down'[l].kind = "device"
      BY <3>2, <3>3, PacketKinds
    <3>5. Len(down) + 1 \in 1 .. Len(down')
      BY <1>1, <2>7
    <3> QED BY <2>5, <2>7, <3>1, <3>4, <3>5 DEF NextIn
  <2>11. \A i \in 1 .. Len(sending') : /\ sending'[i].serial = asked.serial
                                       /\ sending'[i].id = asked.id
    BY <2>3, <2>4 DEF DaemonWrites
  <2>12. ~reader.started
    BY <2>1 DEF Unanswered
  <2>13. Answering'
    BY <1>1, <2>2, <2>8, <2>9, <2>10, <2>11, <2>12 DEF Answering
  <2> QED BY <2>13
<1>4. CASE SendRest
  <2> DEFINE p == sending[1]
  <2>1. Answering /\ up' = up
    BY <1>4 DEF SendRest, Unanswered
  <2>2. DaemonWrites(p)
    BY <1>4, RestWrites
  <2>3. sending \in Seq(ReplySet) /\ sending # <<>>
    BY <1>4 DEF SendRest, TypeOK, TypeOKDaemon
  <2>4. Len(sending) = Len(sending') + 1 /\ 1 \in 1 .. Len(sending) /\ Len(sending') \in Nat
    <3>1. sending' = Tail(sending)
      BY <1>4 DEF SendRest
    <3>2. Len(sending') \in Nat /\ Len(sending) = Len(sending') + 1
      BY <2>3, <3>1, OneLess
    <3> QED BY <3>2
  <2>5. p.serial = asked.serial /\ p.id = asked.id
    BY <2>1, <2>4 DEF Answering
  <2>6. NextIn(Firsts, 1, down, sending) => NextIn(Firsts, 1, down', sending')
    BY <1>4, NextInDaemon
  <2> HIDE DEF p
  <2>7. p \in ReplySet /\ p.kind = "reply" /\ p \in Packet /\ p.left = Len(sending') + 1
        /\ down' = Append(down, p)
    BY <2>2, PacketKinds DEF DaemonWrites, Packet
  <2>8. /\ \A i \in Replies(down) : i \in Nat /\ i >= 1 /\ i <= Len(down)
        /\ \A i \in Replies(down) : down'[i] = down[i]
        /\ \A i \in Replies(down') : i \in Replies(down) \/ i = Len(down) + 1
        /\ down'[Len(down) + 1] = p
    BY <1>1, <2>7, RepliesMore
  <2>9. \A q \in ReplySet : q.left \in Nat
    BY DEF ReplySet
  <2>10. \A i \in Replies(down) : down[i].left \in Nat /\ down[i].left > Len(sending)
    <3>1. \A i \in Replies(down) : down[i] \in ReplySet
      BY <1>1, PacketKinds, ElementOfSeq DEF Replies
    <3> QED BY <2>1, <2>9, <3>1 DEF Answering
  <2>11. \A i \in Replies(down') : /\ down'[i].serial = asked.serial /\ down'[i].id = asked.id
    BY <2>1, <2>5, <2>8 DEF Answering
  <2>12. ASSUME NEW i \in Replies(down')
         PROVE  down'[i].left > Len(sending')
    <3>1. CASE i \in Replies(down)
      <4>1. down'[i].left \in Nat /\ down'[i].left > Len(sending)
        BY <2>8, <2>10, <3>1
      <4> QED BY <2>4, <4>1
    <3>2. CASE i = Len(down) + 1
      <4>1. down'[i].left = Len(sending') + 1
        BY <2>7, <2>8, <3>2
      <4> QED BY <2>4, <4>1
    <3> QED BY <2>8, <3>1, <3>2
  <2>13. ASSUME NEW i \in Replies(down'), NEW j \in Replies(down'), i < j
         PROVE  down'[i].left > down'[j].left
    <3>1. i \in Replies(down)
      <4>1. i # Len(down) + 1
        <5>1. j <= Len(down) + 1 /\ j \in Nat
          BY <1>1, <2>8
        <5> QED BY <1>1, <2>13, <5>1
      <4> QED BY <2>8, <4>1
    <3>2. CASE j \in Replies(down)
      <4>1. down[i].left > down[j].left
        BY <2>1, <2>13, <3>1, <3>2 DEF Answering
      <4> QED BY <2>8, <3>1, <3>2, <4>1
    <3>3. CASE j = Len(down) + 1
      <4>1. down'[j].left = Len(sending)
        BY <2>4, <2>7, <2>8, <3>3
      <4> QED BY <2>8, <2>10, <3>1, <4>1
    <3> QED BY <2>8, <3>2, <3>3
  <2>14. \A i \in 1 .. Len(sending') : /\ sending'[i].serial = asked.serial
                                       /\ sending'[i].id = asked.id
    BY <2>2, <2>5 DEF DaemonWrites
  <2>15. Answering'
    BY <1>1, <2>1, <2>6, <2>11, <2>12, <2>13, <2>14 DEF Answering
  <2> QED BY <2>15
<1>5. CASE DaemonCloses
  <2>1. UNCHANGED <<up, sending, down, asked, reader>>
    BY <1>1, <1>5 DEF DaemonCloses
  <2> QED BY <2>1 DEF Unanswered, Answering
<1> QED BY <1>2, <1>3, <1>4, <1>5 DEF Daemon

\* A refresh that fails otherwise than by a refusal is not sound, and none becomes so.
LEMMA OutcomeSound ==
  ASSUME op = "refresh", NEW rest
  PROVE  /\ \A value : Succeed(value, rest) /\ sound' => sound
         /\ \A err : Fail(err, rest) /\ sound' => sound /\ err = "Refused"
<1>1. ASSUME NEW value, NEW good, Settle(value, rest, good), sound'
      PROVE  sound /\ good
  BY <1>1 DEF Settle
<1> QED BY <1>1 DEF Succeed, Fail

\* When an answer was the last thing on the way, the next request is in step, and after
\* the last all is quiet.
LEMMA OutcomeSteps ==
  ASSUME TypeOK, Waiting, NEW rest,
         \/ \E value : Succeed(value, rest)
         \/ \E err : Fail(err, rest),
         UNCHANGED <<sending, closed, misses>>,
         InTune => up = <<>> /\ sending = <<>> /\ Replies(rest) = {}
  PROVE  /\ InTune' => (Unanswered \/ Answering)'
         /\ ~Waiting' /\ misses' = 0 => Quiet'
<1>1. down' = rest
  BY Outcome
<1>2. CASE Over
  <2>1. ~InTune' /\ up' = up
    BY <1>2 DEF Over, InTune, Waiting, requestVars
  <2>2. misses' = 0 => Quiet'
    BY <1>1, <2>1 DEF InTune, Quiet
  <2> QED BY <2>1, <2>2
<1>3. CASE GoesOn
  <2>1. Waiting'
    BY <1>3 DEF GoesOn, Waiting
  <2>2. SUFFICES ASSUME InTune' PROVE Unanswered'
    BY <2>1
  <2>3. InTune
    BY <1>3, <2>2, OutcomeSound DEF InTune, GoesOn
  <2>4. up' = <<asked'>> /\ ~reader'.started
    <3>1. up' = Append(<<>>, asked')
      BY <1>3, <2>3 DEF GoesOn, Send
    <3>2. Append(<<>>, asked') = <<asked'>>
      OBVIOUS
    <3> QED BY <1>3, <3>1, <3>2 DEF GoesOn, Send, NewReader
  <2> QED BY <1>1, <2>3, <2>4 DEF Unanswered
<1> QED BY <1>2, <1>3, Outcome

\* Between calls nothing but device events come, or go.
LEMMA QuietKept ==
  ASSUME TypeOK, Quiet, UNCHANGED <<up, sending>>, closed => closed',
         \/ down' = down
         \/ down # <<>> /\ down' = Tail(down)
         \/ down' = Append(down, DeviceEvent)
  PROVE  Quiet'
<1>1. down \in Seq(Packet) /\ DeviceEvent \in Packet /\ DeviceEvent.kind = "device"
  BY RestTypes, PacketKinds DEF Packet
<1>2. Replies(down') = {}
  <2>1. CASE down' = down
    BY <2>1 DEF Quiet
  <2>2. CASE down # <<>> /\ down' = Tail(down)
    <3>1. \A i \in Replies(down') : i + 1 \in Replies(down)
      BY <1>1, <2>2, RepliesLess
    <3> QED BY <3>1 DEF Quiet
  <2>3. CASE down' = Append(down, DeviceEvent)
    <3>1. \A i \in Replies(down') : i \in Replies(down)
      BY <1>1, <2>3, RepliesMore
    <3> QED BY <3>1 DEF Quiet
  <2> QED BY <2>1, <2>2, <2>3
<1> QED BY <1>2 DEF Quiet

\* Each step keeps requests in step.
LEMMA StepsNext ==
  ASSUME TypeOK, Stream, ReaderIs, Steps, [Next]_vars
  PROVE  Steps'
<1>1. down \in Seq(Packet) /\ misses \in Nat
  BY RestTypes DEF TypeOK, TypeOKCache
<1>2. CASE Daemon
  <2>1. UNCHANGED <<op, sound, misses, accepted>>
    BY <1>2 DEF Daemon, cacheVars
  <2>2. InTune' => (Unanswered \/ Answering)'
    BY <1>2, <2>1, DaemonKeepsStep DEF Steps, InTune, Waiting
  <2>3. ASSUME ~Waiting', misses' = 0
        PROVE  Quiet'
    <3>1. Quiet
      BY <2>1, <2>3 DEF Steps, Waiting
    <3>2. CASE Hotplug
      BY <3>1, <3>2, QuietKept DEF Hotplug
    <3>3. CASE TakeRequest \/ SendRest
      BY <3>1, <3>3 DEF Quiet, TakeRequest, SendRest
    <3>4. CASE DaemonCloses
      BY <3>1, <3>4, QuietKept DEF DaemonCloses
    <3> QED BY <1>2, <3>2, <3>3, <3>4 DEF Daemon
  <2> QED BY <2>1, <2>2, <2>3 DEF Steps
<1>3. CASE AwaitAnswer
  <2>1. CASE QueueEvent
    <3>1. /\ Waiting /\ down # <<>> /\ down' = Tail(down) /\ Head(down).kind = "device"
          /\ UNCHANGED <<op, sound, misses, accepted, up, asked, reader, sending>>
      BY <2>1 DEF QueueEvent, daemonVars, cacheVars, requestVars
    <3>2. ASSUME Unanswered
          PROVE  Unanswered'
      <4>1. \A i \in Replies(down') : i + 1 \in Replies(down)
        BY <1>1, <3>1, RepliesLess
      <4> QED BY <3>1, <3>2, <4>1 DEF Unanswered
    <3>3. ASSUME Answering
          PROVE  Answering'
      BY <3>1, <3>3, AnsweringTaken DEF Answering
    <3> QED BY <3>1, <3>2, <3>3 DEF Steps, InTune, Waiting
  <2>2. CASE ReplyToAnother
    <3>1. ~InTune
      BY <2>2, NextIsMine DEF ReplyToAnother
    <3>2. /\ Waiting /\ Fail("Protocol", Tail(down))
          /\ UNCHANGED <<sending, closed, misses, accepted>>
      BY <2>2 DEF ReplyToAnother, ReplyIsNext, replyUnchanged, daemonVars
    <3> QED BY <3>1, <3>2, OutcomeSteps DEF Steps
  <2>3. CASE ReplyRefused \/ ReplyValue
    <3> DEFINE p == Head(down)
    <3>1. /\ ReplyIsNext /\ Waiting /\ Accept(<<p>>) /\ (~p.ok \/ p.id \notin Strings)
          /\ Fail("Refused", Tail(down)) \/ Succeed(p.value, Tail(down))
          /\ UNCHANGED <<sending, closed, misses>>
      BY <2>3 DEF ReplyRefused, ReplyValue, Mine, ReplyIsNext, replyUnchanged, daemonVars
    <3>2. p \in ReplySet /\ p.left = 1
      BY <3>1, HeadTypes, StreamHead DEF Stream, WellMade
    <3>3. InTune => /\ p.serial = asked.serial
                    /\ up = <<>> /\ sending = <<>> /\ Replies(Tail(down)) = {}
      BY <3>1, <3>2, NextIsMine
    <3>4. /\ InTune' => (Unanswered \/ Answering)'
          /\ ~Waiting' /\ misses' = 0 => Quiet'
      BY <3>1, <3>3, OutcomeSteps
    <3> HIDE DEF p
    <3>5. misses' = 0 => accepted'.answered \subseteq {accepted'.asked}
      <4>1. Len(<<p>>) = 1 /\ <<p>>[1] = p
        OBVIOUS
      <4>2. accepted'.asked = asked.serial /\ accepted'.answered = {p.serial}
        BY <3>1, <4>1 DEF Accept
      <4> QED BY <3>1, <3>3, <4>2 DEF InTune
    <3> QED BY <3>4, <3>5 DEF Steps
  <2>4. CASE ReplyChunk
    <3> DEFINE packet == Head(down)
               r == ReaderFor(packet)
               parts == Append(r.parts, packet)
    <3>1. /\ ReplyIsNext /\ Waiting /\ down # <<>> /\ packet.kind = "reply"
          /\ UNCHANGED <<sending, closed, misses>>
      BY <2>4 DEF ReplyChunk, ReplyIsNext, replyUnchanged, daemonVars
    <3>2. InTune => /\ Answering /\ packet.serial = asked.serial /\ ~OutOfPlace(r, packet)
                    /\ packet.left = 1 => up = <<>> /\ sending = <<>> /\ Replies(Tail(down)) = {}
      BY <3>1, NextIsMine
    <3>3. CASE /\ OutOfPlace(r, packet)
               /\ Fail("Protocol", Tail(down))
               /\ UNCHANGED accepted
      BY <3>1, <3>2, <3>3, OutcomeSteps DEF Steps
    <3>4. ASSUME ~OutOfPlace(r, packet)
          PROVE  /\ Chain(parts) /\ parts \in Seq(ReplySet) /\ parts[Len(parts)] = packet
                 /\ r.expect = packet.left
                 /\ InTune => \A i \in 1 .. Len(parts) : parts[i].serial = asked.serial
      <4>1. /\ Chain(parts) /\ parts \in Seq(ReplySet) /\ parts[Len(parts)] = packet
            /\ r.expect = packet.left
        BY <3>1, <3>4, ChunkIs
      <4> HIDE DEF parts, r, packet
      <4>2. /\ \A i \in 1 .. Len(parts) : parts[i].serial = parts[1].serial
            /\ Len(parts) \in Nat /\ Len(parts) >= 1
        BY <4>1, ChainSerials
      <4>3. Len(parts) \in 1 .. Len(parts)
        BY <4>2
      <4>4. packet.serial = parts[1].serial
        BY <4>1, <4>2, <4>3
      <4> QED BY <3>2, <4>1, <4>2, <4>4
    <3>5. CASE /\ ~OutOfPlace(r, packet) /\ Complete(r)
               /\ Succeed(packet.value, Tail(down))
               /\ Accept(parts)
      <4>1. packet.left = 1
        BY <3>4, <3>5 DEF Complete
      <4>2. /\ InTune' => (Unanswered \/ Answering)'
            /\ ~Waiting' /\ misses' = 0 => Quiet'
        BY <3>1, <3>2, <3>5, <4>1, OutcomeSteps
      <4> HIDE DEF parts, r, packet
      <4>3. misses' = 0 => accepted'.answered \subseteq {accepted'.asked}
        <5>1. /\ accepted'.asked = asked.serial
              /\ accepted'.answered = {parts[i].serial : i \in 1 .. Len(parts)}
          BY <3>5 DEF Accept
        <5>2. misses' = 0 => InTune
          BY <3>1 DEF InTune
        <5> QED BY <3>4, <3>5, <5>1, <5>2
      <4> QED BY <4>2, <4>3 DEF Steps
    <3>6. CASE /\ ~OutOfPlace(r, packet) /\ ~Complete(r)
               /\ reader' = [expect |-> r.expect - 1, started |-> TRUE, parts |-> parts]
               /\ down' = Tail(down)
               /\ UNCHANGED <<op, cacheVars, up, asked, result, accepted>>
      <4>1. UNCHANGED <<op, sound, up, asked, accepted>> /\ down' = Tail(down)
        BY <3>6 DEF cacheVars
      <4> HIDE DEF parts, r, packet
      <4>2. reader'.started /\ reader'.parts = parts
        BY <3>6
      <4>3. InTune => Answering'
        BY <3>1, <3>2, <3>4, <3>6, <4>1, <4>2, AnsweringTaken
      <4> QED BY <3>1, <4>1, <4>3 DEF Steps, InTune, Waiting
    <3> QED BY <2>4, <3>3, <3>5, <3>6 DEF ReplyChunk
  <2>5. CASE Timeout
    <3>1. misses' # 0 /\ Fail("Timeout", down) /\ Waiting
      BY <1>1, <2>5 DEF Timeout
    <3>2. op = "refresh" => ~sound'
      BY <3>1, OutcomeSound
    <3>3. op' = "refresh" => op = "refresh"
      BY <3>1, Outcome DEF Over, GoesOn
    <3> QED BY <3>1, <3>2, <3>3 DEF Steps, InTune
  <2>6. CASE Disconnected
    <3>1. /\ Waiting /\ down = <<>> /\ closed /\ Fail("Disconnected", down)
          /\ UNCHANGED <<closed, misses, accepted>>
      BY <2>6 DEF Disconnected, replyUnchanged, daemonVars
    <3>2. Over /\ down' = <<>>
      BY <3>1, Outcome DEF GoesOn
    <3>3. Replies(<<>>) = {}
      <4>1. Len(<<>>) = 0
        OBVIOUS
      <4> QED BY <4>1 DEF Replies
    <3>4. Quiet' /\ ~Waiting'
      BY <3>1, <3>2, <3>3 DEF Quiet, Over, Waiting
    <3> QED BY <3>1, <3>4 DEF Steps, InTune
  <2> QED BY <1>3, <2>1, <2>2, <2>3, <2>4, <2>5, <2>6 DEF AwaitAnswer
<1>4. ASSUME ~Waiting, ~Waiting', UNCHANGED <<up, sending, closed, misses, accepted>>,
             down' = down \/ (down # <<>> /\ down' = Tail(down))
      PROVE  Steps'
  <2>1. Quiet /\ misses = 0 => Quiet'
    BY <1>4, QuietKept
  <2> QED BY <1>4, <2>1 DEF Steps, InTune
<1>5. CASE ReadStep
  BY <1>4, <1>5 DEF ReadStep, ReadEvent, ReadStaleReply, ReadNothing, ReadDisconnected, Return,
                    Reading, Waiting, readUnchanged, daemonVars, requestVars
<1>6. CASE RequestFails \/ PopQueued \/ BeginRead
  BY <1>4, <1>6 DEF RequestFails, PopQueued, BeginRead, Return, Waiting, readUnchanged,
                    daemonVars, requestVars
<1>7. ASSUME NEW id, NEW arg, Send(id, arg), op = "idle", ~closed, Waiting',
             UNCHANGED <<down, sending, misses, accepted>>,
             op' = "refresh" => sound' = InStepWith(down)
      PROVE  Steps'
  <2>1. misses = 0 => InStepWith(down)
    <3>1. misses = 0 => Quiet
      BY <1>7 DEF Steps, Waiting
    <3>2. \A i \in 1 .. Len(down) : down[i].kind = "reply" \/ down[i].kind = "device"
      BY <1>1, ElementOfSeq, PacketKinds
    <3> QED BY <1>7, <3>1, <3>2 DEF Quiet, InStepWith, Replies
  <2>2. InTune' => InStepWith(down)
    BY <1>7, <2>1 DEF InTune
  <2>3. ASSUME InStepWith(down)
        PROVE  Unanswered'
    <3>1. up' = Append(<<>>, asked') /\ sending' = <<>> /\ ~reader'.started
      BY <1>7, <2>3 DEF Send, InStepWith, NewReader
    <3>2. Append(<<>>, asked') = <<asked'>>
      OBVIOUS
    <3>3. Replies(down') = {}
      BY <1>7, <2>3 DEF InStepWith, Replies
    <3> QED BY <3>1, <3>2, <3>3 DEF Unanswered
  <2> QED BY <1>7, <2>2, <2>3 DEF Steps
<1>8. CASE RefreshDevice
  BY <1>7, <1>8 DEF RefreshDevice, daemonVars, Waiting
<1>9. CASE DeadZone
  BY <1>7, <1>9 DEF DeadZone, daemonVars, Waiting
<1>10. CASE UNCHANGED vars
  BY <1>10 DEF vars, daemonVars, cacheVars, requestVars, Steps, InTune, Waiting, Unanswered,
               Answering, Quiet
<1> QED BY <1>2, <1>3, <1>5, <1>6, <1>8, <1>9, <1>10 DEF Next, Call

(***************************************************************************)
(* What the cache says of the device.                                       *)
(***************************************************************************)

\* What was announced stays so, until it is heard of in a refresh.
LEMMA AnnouncedStays ==
  ASSUME TypeOK, UNCHANGED <<heard, queued>>,
         \/ down' = down
         \/ down # <<>> /\ Head(down).kind = "reply" /\ down' = Tail(down)
         \/ \E p \in Packet : down' = Append(down, p)
  PROVE  Announced => Announced'
<1>1. EventIn(down) => EventIn(down')
  BY RestTypes, EventsStay
<1>2. /\ Announced <=> heard \/ queued > 0 \/ EventIn(down)
      /\ Announced' <=> heard' \/ queued' > 0 \/ EventIn(down')
  BY DEF Announced, EventIn
<1> QED BY <1>1, <1>2

\* A device that comes or goes is announced.
LEMMA HotplugAnnounces ==
  ASSUME TypeOK, Hotplug
  PROVE  Announced'
<1>1. EventIn(Append(down, DeviceEvent)) /\ down' = Append(down, DeviceEvent)
  BY RestTypes, EventsStay DEF Hotplug
<1> QED BY <1>1 DEF EventIn, Announced

\* A sound refresh that learns the field it asked for of the device plugged in, after
\* the others, stays sound, and leaves that device in the cache when it is over.
LEMMA SettlesFresh ==
  ASSUME TypeOK, op = "refresh", NEW rest, Settle(plugged, rest, TRUE), sound',
         plugged \in Devices, \A n \in 1 .. stage - 1 : info[Queries[n]] = plugged,
         sending = <<>>, Replies(rest) = {}, UNCHANGED <<plugged, sending>>
  PROVE  Fresh'
<1>1. /\ stage \in 1 .. 6 /\ info \in [QueryIds -> Devices \cup {None}]
      /\ down' = rest
      /\ info' = [info EXCEPT ![Queries[stage]] = plugged]
  BY QueriesAre DEF TypeOK, TypeOKRequest, TypeOKCache, Settle
<1>2. plugged # NoDevice
  BY DevicesAssumption
<1>3. ASSUME NEW n \in 1 .. stage
      PROVE  info'[Queries[n]] = plugged
  <2>1. n \in 1 .. 6 /\ Queries[n] \in QueryIds /\ Queries[stage] \in QueryIds
    BY <1>1, QueriesAre
  <2>2. CASE n = stage
    BY <1>1, <2>1, <2>2
  <2>3. CASE n # stage
    <3>1. n \in 1 .. stage - 1 /\ Queries[n] # Queries[stage]
      BY <1>1, <2>1, <2>3, QueriesAre
    <3> QED BY <1>1, <2>1, <3>1
  <2> QED BY <2>2, <2>3
<1>4. CASE stage < Len(Queries) /\ ~closed
  <2>1. op' = "refresh" /\ stage' = stage + 1
    BY <1>4 DEF Settle
  <2>2. \A n \in 1 .. stage' - 1 : info'[Queries[n]] = plugged
    BY <1>1, <1>3, <2>1
  <2>3. \A i \in 1 .. Len(sending') : FALSE
    <3>1. Len(<<>>) = 0
      OBVIOUS
    <3> QED BY <3>1
  <2> QED BY <1>1, <1>2, <2>1, <2>2, <2>3 DEF Fresh
<1>5. CASE ~(stage < Len(Queries) /\ ~closed)
  <2>1. op' = "idle" /\ device' = info'
    BY <1>5 DEF Settle, Finish, Return
  <2>2. stage = 6
    <3>1. closed => stage = Len(Queries)
      BY DEF Settle
    <3>2. stage = Len(Queries) \/ ~(stage < Len(Queries))
      BY <1>5, <3>1
    <3> QED BY <1>1, <3>2, QueriesAre
  <2>3. \A q \in QueryIds : info'[q] = plugged
    BY <1>3, <2>2, QueriesAre
  <2>4. info' \in [QueryIds -> Devices \cup {None}]
    BY <1>1, QueriesAre
  <2>5. info' = [q \in QueryIds |-> plugged]
    BY <2>3, <2>4
  <2> QED BY <1>2, <2>1, <2>5 DEF Fresh, InfoOf
<1> QED BY <1>4, <1>5

\* A setting asked for, or a request that fails otherwise than by a refusal, leaves a
\* sound cache alone.
LEMMA OthersFresh ==
  ASSUME TypeOK, Waiting, Fresh, Announced => Announced', plugged' = plugged, NEW rest,
         \/ op = "get" /\ \E value : Succeed(value, rest)
         \/ \E err : Fail(err, rest) /\ (op = "get" \/ err # "Refused")
  PROVE  Fresh'
<1>1. CASE op = "get"
  <2>1. op' = "idle" /\ UNCHANGED <<device, sound>>
    BY <1>1 DEF Succeed, Fail, Return, cacheVars
  <2> QED BY <1>1, <2>1 DEF Fresh
<1>2. CASE op = "refresh"
  <2>1. ~sound'
    BY <1>2, OutcomeSound
  <2> QED BY <2>1 DEF Fresh
<1> QED BY <1>1, <1>2 DEF Waiting

\* The daemon answers with what is the case.
LEMMA DaemonFresh ==
  ASSUME TypeOK, Stream, Steps, Fresh, Daemon
  PROVE  Fresh'
<1>1. /\ down \in Seq(Packet) /\ sending \in Seq(ReplySet)
      /\ UNCHANGED <<op, device, sound, stage, info, heard, queued, asked>>
  BY RestTypes DEF Daemon, cacheVars, TypeOK, TypeOKDaemon
<1>2. CASE Hotplug
  BY <1>2, HotplugAnnounces DEF Fresh
<1>3. CASE DaemonCloses
  <2>1. UNCHANGED <<down, sending, plugged>>
    BY <1>3 DEF DaemonCloses
  <2> QED BY <1>1, <2>1 DEF Fresh, Announced
<1>4. CASE TakeRequest \/ SendRest
  <2>1. PICK p : /\ DaemonWrites(p)
                 /\ \/ TakeRequest /\ p = Head(Answer(Head(up)))
                    \/ SendRest /\ p = sending[1]
    BY <1>4, TakeWrites, RestWrites
  <2>2. p \in Packet /\ down' = Append(down, p) /\ plugged' = plugged
    BY <1>4, <2>1 DEF DaemonWrites, Packet, TakeRequest, SendRest
  <2>3. Announced => Announced'
    BY <1>1, <2>2, AnnouncedStays
  <2>4. SUFFICES ASSUME op = "refresh", sound, ~Announced
                 PROVE  /\ \A i \in Replies(down') : TellsOf(down'[i], plugged)
                        /\ \A i \in 1 .. Len(sending') : TellsOf(sending'[i], plugged)
    BY <1>1, <2>2, <2>3 DEF Fresh
  <2>5. TellsOf(p, plugged) /\ \A i \in 1 .. Len(sending') : TellsOf(sending'[i], plugged)
    <3>1. CASE TakeRequest /\ p = Head(Answer(Head(up)))
      <4>1. Unanswered
        BY <2>4, <3>1 DEF Steps, InTune, Waiting, Answering, TakeRequest
      <4>2. Head(up) = asked
        <5>1. up = <<asked>> /\ Head(<<asked>>) = asked
          BY <4>1 DEF Unanswered
        <5> QED BY <5>1
      <4>3. asked \in RequestSet /\ asked.id \in QueryIds /\ plugged \in Devices \cup {NoDevice}
        BY <2>4, QueriesAre DEF TypeOK, TypeOKRequest, TypeOKDaemon
      <4> DEFINE answer == Answer(asked)
      <4>4. sending' = Tail(answer) /\ p = Head(answer)
        BY <3>1, <4>2 DEF TakeRequest
      <4>5. AnswerTo(asked, answer)
        BY <4>3, AnswerIs
      <4> HIDE DEF answer
      <4> QED BY <4>3, <4>4, <4>5, AnswerParts DEF TellsOf
    <3>2. CASE SendRest /\ p = sending[1]
      <4>1. sending # <<>> /\ sending' = Tail(sending)
        BY <3>2 DEF SendRest
      <4>2. /\ Len(sending') \in Nat /\ Len(sending) = Len(sending') + 1
            /\ \A i \in 1 .. Len(sending') : sending'[i] = sending[i + 1]
        BY <1>1, <4>1, OneLess
      <4>3. 1 \in 1 .. Len(sending) /\ \A i \in 1 .. Len(sending') : i + 1 \in 1 .. Len(sending)
        BY <4>2
      <4>4. \A i \in 1 .. Len(sending) : TellsOf(sending[i], plugged)
        BY <2>4 DEF Fresh
      <4> QED BY <3>2, <4>2, <4>3, <4>4
    <3> QED BY <2>1, <3>1, <3>2
  <2>6. \A i \in Replies(down') : TellsOf(down'[i], plugged)
    <3>1. /\ \A i \in Replies(down) : down'[i] = down[i]
          /\ \A i \in Replies(down') : i \in Replies(down) \/ i = Len(down) + 1
          /\ down'[Len(down) + 1] = p
      BY <1>1, <2>2, RepliesMore
    <3>2. \A i \in Replies(down) : TellsOf(down[i], plugged)
      BY <2>4 DEF Fresh
    <3> QED BY <2>5, <3>1, <3>2
  <2> QED BY <2>5, <2>6
<1> QED BY <1>2, <1>3, <1>4 DEF Daemon

\* And the client believes it.
LEMMA AwaitFresh ==
  ASSUME TypeOK, Stream, ReaderIs, Steps, Fresh, AwaitAnswer
  PROVE  Fresh'
<1>1. down \in Seq(Packet)
  BY RestTypes
<1>2. CASE QueueEvent
  <2>1. queued' > 0
    BY <1>2 DEF QueueEvent, EventQueued, TypeOK, TypeOKCache
  <2> QED BY <2>1 DEF Fresh, Announced
<1>3. ASSUME UNCHANGED <<heard, queued>>,
             (ReplyIsNext /\ down' = Tail(down)) \/ down' = down
      PROVE  Announced => Announced'
  BY <1>3, AnnouncedStays DEF ReplyIsNext
<1>4. CASE ReplyToAnother
  <2>1. /\ ReplyIsNext /\ Waiting /\ Fail("Protocol", Tail(down))
        /\ UNCHANGED <<heard, queued, plugged>>
    BY <1>4 DEF ReplyToAnother, ReplyIsNext, replyUnchanged, daemonVars
  <2>2. Announced => Announced'
    BY <1>3, <2>1, Outcome
  <2> QED BY <2>1, <2>2, OthersFresh
<1>5. CASE Timeout \/ Disconnected
  <2>1. /\ Waiting /\ (Fail("Timeout", down) \/ Fail("Disconnected", down))
        /\ UNCHANGED <<heard, queued, plugged>>
    BY <1>5 DEF Timeout, Disconnected, replyUnchanged, daemonVars
  <2>2. Announced => Announced'
    BY <1>3, <2>1, Outcome
  <2> QED BY <2>1, <2>2, OthersFresh
<1>6. CASE ReplyRefused
  <2>1. /\ ReplyIsNext /\ Waiting /\ Fail("Refused", Tail(down)) /\ ~Head(down).ok
        /\ UNCHANGED <<heard, queued, plugged>>
    BY <1>6 DEF ReplyRefused, ReplyIsNext, replyUnchanged, daemonVars
  <2>2. Announced => Announced'
    BY <1>3, <2>1, Outcome
  <2>3. CASE op = "get"
    BY <2>1, <2>2, <2>3, OthersFresh
  <2>4. CASE op = "refresh"
    <3>1. SUFFICES ASSUME sound', ~Announced' PROVE Fresh'
      BY DEF Fresh
    <3>2. sound /\ ~Announced
      BY <2>1, <2>2, <2>4, <3>1, OutcomeSound
    <3>3. 1 \in Replies(down) /\ Head(down) = down[1]
      BY <1>1, <2>1, RepliesLess DEF ReplyIsNext
    <3>4. plugged = NoDevice
      BY <2>1, <2>4, <3>2, <3>3 DEF Fresh, TellsOf
    <3>5. Essential
      <4>1. stage \in 1 .. 6 /\ ~(stage > 1)
        BY <2>4, <3>2, <3>4, QueriesAre DEF Fresh, TypeOK, TypeOKRequest
      <4> QED BY <4>1 DEF Essential
    <3>6. op' = "idle" /\ device' = NoDevice
      BY <2>1, <2>4, <3>5 DEF Fail, Return
    <3> QED BY <2>1, <3>4, <3>6 DEF Fresh, InfoOf
  <2> QED BY <2>1, <2>3, <2>4 DEF Waiting
<1>7. ASSUME ReplyIsNext, Head(down).ok, Succeed(Head(down).value, Tail(down)), Head(down).left = 1,
             UNCHANGED <<heard, queued, plugged, sending>>
      PROVE  Fresh'
  <2>1. Waiting /\ down # <<>> /\ Head(down).kind = "reply"
    BY <1>7 DEF ReplyIsNext
  <2>2. Announced => Announced'
    BY <1>3, <1>7, <2>1, Outcome
  <2>3. CASE op = "get"
    BY <1>7, <2>1, <2>2, <2>3, OthersFresh
  <2>4. CASE op = "refresh"
    <3>1. SUFFICES ASSUME sound', ~Announced' PROVE Fresh'
      BY DEF Fresh
    <3>2. sound /\ ~Announced
      BY <1>7, <2>2, <2>4, <3>1, OutcomeSound
    <3>3. 1 \in Replies(down) /\ Head(down) = down[1]
      BY <1>1, <2>1, RepliesLess
    <3>4. plugged # NoDevice /\ Head(down).value = plugged
      BY <1>7, <2>4, <3>2, <3>3 DEF Fresh, TellsOf
    <3>5. plugged \in Devices
      BY <3>4 DEF TypeOK, TypeOKDaemon
    <3>6. sending = <<>> /\ Replies(Tail(down)) = {}
      <4>1. InTune
        BY <2>1, <2>4, <3>2 DEF InTune
      <4> QED BY <1>7, <4>1, NextIsMine
    <3>7. \A n \in 1 .. stage - 1 : info[Queries[n]] = plugged
      BY <2>4, <3>2 DEF Fresh
    <3>8. Settle(plugged, Tail(down), TRUE)
      BY <1>7, <2>4, <3>4 DEF Succeed
    <3> QED BY <1>7, <2>4, <3>1, <3>5, <3>6, <3>7, <3>8, SettlesFresh
  <2> QED BY <2>1, <2>3, <2>4 DEF Waiting
<1>8. CASE ReplyValue
  <2>1. Head(down).left = 1
    BY <1>8, HeadTypes, StreamHead DEF ReplyValue, Mine, Stream, WellMade
  <2> QED BY <1>7, <1>8, <2>1 DEF ReplyValue, replyUnchanged, daemonVars
<1>9. CASE ReplyChunk
  <2> DEFINE packet == Head(down)
             r == ReaderFor(packet)
             parts == Append(r.parts, packet)
  <2>1. /\ ReplyIsNext /\ Waiting /\ packet.ok
        /\ UNCHANGED <<heard, queued, plugged, sending>>
    BY <1>9 DEF ReplyChunk, ReplyIsNext, replyUnchanged, daemonVars
  <2>2. CASE Fail("Protocol", Tail(down))
    <3>1. Announced => Announced'
      BY <1>3, <2>1, <2>2, Outcome
    <3> QED BY <2>1, <2>2, <3>1, OthersFresh
  <2>3. CASE ~OutOfPlace(r, packet) /\ Complete(r) /\ Succeed(packet.value, Tail(down))
    <3>1. packet.left = 1
      BY <2>1, <2>3, ChunkIs DEF Complete
    <3> QED BY <1>7, <2>1, <2>3, <3>1
  <2>4. CASE down' = Tail(down) /\ UNCHANGED <<op, cacheVars>>
    <3>1. Announced => Announced'
      BY <1>3, <2>1, <2>4
    <3>2. UNCHANGED <<op, device, sound, stage, info, plugged, sending>>
      BY <2>1, <2>4 DEF cacheVars
    <3>3. \A i \in Replies(down') : i + 1 \in Replies(down) /\ down'[i] = down[i + 1]
      BY <1>1, <2>1, <2>4, RepliesLess DEF ReplyIsNext
    <3> QED BY <3>1, <3>2, <3>3 DEF Fresh
  <2> QED BY <1>9, <2>2, <2>3, <2>4 DEF ReplyChunk
<1> QED BY <1>2, <1>4, <1>5, <1>6, <1>8, <1>9 DEF AwaitAnswer

\* Each step keeps what a sound refresh says of the device true.
LEMMA FreshNext ==
  ASSUME TypeOK, Stream, ReaderIs, Steps, Fresh, [Next]_vars
  PROVE  Fresh'
<1>1. down \in Seq(Packet)
  BY RestTypes
<1>2. ASSUME op # "refresh", op' # "refresh", UNCHANGED <<plugged, device, sound>>,
             Announced => Announced'
      PROVE  Fresh'
  BY <1>2 DEF Fresh
<1>3. CASE ReadEvent \/ PopQueued
  <2>1. Announced'
    BY <1>3 DEF ReadEvent, PopQueued, Announced
  <2> QED BY <2>1 DEF Fresh
<1>4. CASE ReadStaleReply
  <2>1. Announced => Announced'
    BY <1>4, AnnouncedStays DEF ReadStaleReply
  <2> QED BY <1>2, <1>4, <2>1 DEF ReadStaleReply, Reading, readUnchanged, daemonVars, cacheVars
<1>5. CASE ReadNothing \/ ReadDisconnected \/ BeginRead \/ RequestFails \/ DeadZone
  <2>1. /\ UNCHANGED <<heard, queued, down, plugged, device, sound>>
        /\ op # "refresh" /\ op' # "refresh"
    BY <1>5 DEF ReadNothing, ReadDisconnected, BeginRead, RequestFails, DeadZone, Reading,
                Return, readUnchanged, daemonVars, cacheVars
  <2>2. Announced => Announced'
    BY <2>1 DEF Announced
  <2> QED BY <1>2, <2>1, <2>2
<1>6. CASE RefreshDevice
  <2>1. SUFFICES ASSUME sound' PROVE Fresh'
    BY DEF Fresh
  <2>2. InStepWith(down) /\ op' = "refresh" /\ stage' = 1 /\ UNCHANGED <<down, sending>>
    BY <1>6, <2>1 DEF RefreshDevice, daemonVars
  <2>3. Replies(down') = {} /\ sending' = <<>>
    BY <2>2 DEF InStepWith, Replies
  <2>4. /\ \A n \in 1 .. stage' - 1 : FALSE
        /\ ~(stage' > 1)
    BY <2>2
  <2>5. \A i \in 1 .. Len(sending') : FALSE
    <3>1. Len(<<>>) = 0
      OBVIOUS
    <3> QED BY <2>3, <3>1
  <2> QED BY <2>2, <2>3, <2>4, <2>5 DEF Fresh
<1>7. CASE UNCHANGED vars
  BY <1>7 DEF vars, daemonVars, cacheVars, Fresh, Announced
<1> QED BY <1>3, <1>4, <1>5, <1>6, <1>7, DaemonFresh, AwaitFresh DEF Next, ReadStep, Call

(***************************************************************************)
(* The theorems.                                                            *)
(***************************************************************************)

\* It holds when connect_at asks for the device,
LEMMA SessionInvInit ==
  Init => SessionInv
<1> SUFFICES ASSUME Init PROVE SessionInv
  OBVIOUS
<1>1. /\ plugged \in Devices \cup {NoDevice}
      /\ sending = <<>> /\ down = <<>> /\ closed = FALSE /\ plugs = 0
      /\ op = "refresh" /\ stage = 1
      /\ asked = [id |-> "NAME", arg |-> None, serial |-> 1]
      /\ up = <<asked>> /\ reader = NewReader /\ info = NoInfo
      /\ device = NoDevice /\ queued = 0 /\ calls = 1 /\ result = "none"
      /\ heard = FALSE /\ sound = TRUE /\ misses = 0
      /\ accepted = [asked |-> 0, answered |-> {}, whole |-> TRUE]
  BY DEF Init
<1>2. /\ Len(sending) = 0 /\ Len(down) = 0
      /\ sending \in Seq(ReplySet) /\ down \in Seq(Packet)
  <2>1. Len(<<>>) = 0 /\ <<>> \in Seq(ReplySet) /\ <<>> \in Seq(Packet)
    OBVIOUS
  <2> QED BY <1>1, <2>1
<1>3. /\ \A i \in 1 .. Len(sending) : FALSE
      /\ Replies(down) = {}
  BY <1>2 DEF Replies
<1>4. asked \in RequestSet /\ asked.id = "NAME" /\ up \in Seq(RequestSet)
  <2>1. asked \in RequestSet /\ asked.id = "NAME"
    BY <1>1 DEF RequestSet, Ids, QueryIds
  <2>2. <<asked>> \in Seq(RequestSet)
    BY <2>1
  <2> QED BY <1>1, <2>1, <2>2
<1>5. TypeOK
  <2>1. TypeOKDaemon
    <3>1. plugged \in Devices \cup {NoDevice} /\ closed \in BOOLEAN /\ plugs \in 0 .. MaxPlugs
      <4>1. plugged \in Devices \cup {NoDevice} /\ closed = FALSE /\ plugs = 0
        BY <1>1, Zenon
      <4>2. 0 \in 0 .. MaxPlugs
        BY BoundsAssumption
      <4> QED BY <4>1, <4>2, Zenon
    <3> QED BY <1>2, <1>4, <3>1, Zenon DEF TypeOKDaemon, Packet
  <2>2. TypeOKRequest
    <3>1. reader \in [expect : Nat, started : BOOLEAN, parts : Seq(ReplySet)]
      <4>1. <<>> \in Seq(ReplySet)
        OBVIOUS
      <4> QED BY <1>1, <4>1 DEF NewReader
    <3>2. stage \in 1 .. Len(Queries) /\ asked.id = Queries[stage]
      BY <1>1, <1>4, QueriesAre DEF Queries
    <3> QED BY <1>1, <1>4, <3>1, <3>2 DEF TypeOKRequest
  <2>3. TypeOKCache
    <3>1. info \in [QueryIds -> Devices \cup {None}] /\ ~(stage > 1)
      BY <1>1 DEF NoInfo
    <3>2. queued \in Nat /\ calls \in 1 .. MaxCalls /\ misses \in 0 .. MaxMisses
      BY <1>1, BoundsAssumption
    <3> QED BY <1>1, <3>1, <3>2 DEF TypeOKCache
  <2> QED BY <2>1, <2>2, <2>3 DEF TypeOK
<1>6. Stream
  BY <1>3 DEF Stream, StreamOf, RestOfString
<1>7. ~reader.started
  BY <1>1 DEF NewReader
<1>8. ReaderIs
  BY <1>7 DEF ReaderIs
<1>9. StringWhole /\ accepted.answered = {}
  BY <1>1 DEF StringWhole
<1>10. Steps
  BY <1>1, <1>3, <1>7, <1>9 DEF Steps, Unanswered, InTune, Waiting
<1>11. Fresh
  <2>1. \A n \in 1 .. stage - 1 : FALSE
    BY <1>1
  <2>2. ~(stage > 1)
    BY <1>1
  <2> QED BY <1>1, <1>3, <2>1, <2>2 DEF Fresh
<1> QED BY <1>5, <1>6, <1>8, <1>9, <1>10, <1>11 DEF SessionInv

\* And every step keeps it.
LEMMA SessionInvNext ==
  SessionInv /\ [Next]_vars => SessionInv'
<1> SUFFICES ASSUME SessionInv, [Next]_vars PROVE SessionInv'
  OBVIOUS
<1> USE DEF SessionInv
<1>1. TypeOK'
  <2>1. CASE UNCHANGED vars
    BY <2>1 DEF vars, daemonVars, cacheVars, requestVars, TypeOK, TypeOKDaemon, TypeOKRequest,
                TypeOKCache
  <2> QED BY <2>1, DaemonTypes, AwaitTypes, CallTypes DEF Next
<1> QED BY <1>1, StreamNext, ReaderNext, WholeNext, StepsNext, FreshNext

\* Types are kept, and a DeviceInfo in the cache always has a name, whatever answers
\* come late, are refused or never come.
THEOREM TypeCorrect == Spec => []TypeOK
<1>1. Init => SessionInv
  BY SessionInvInit
<1>2. SessionInv /\ [Next]_vars => SessionInv'
  BY SessionInvNext
<1>3. SessionInv => TypeOK
  BY DEF SessionInv
<1> QED BY <1>1, <1>2, <1>3, PTL DEF Spec

\* StringReader never returns a string made of two answers.
THEOREM StringsAlwaysWhole == Spec => []StringWhole
<1>1. Init => SessionInv
  BY SessionInvInit
<1>2. SessionInv /\ [Next]_vars => SessionInv'
  BY SessionInvNext
<1>3. SessionInv => StringWhole
  BY DEF SessionInv
<1> QED BY <1>1, <1>2, <1>3, PTL DEF Spec

\* While no request has timed out, a reply on the way is to the request the client waits
\* for, and none is taken for another's.
THEOREM AlwaysInStep == Spec => []InStep
<1>1. Init => SessionInv
  BY SessionInvInit
<1>2. SessionInv /\ [Next]_vars => SessionInv'
  BY SessionInvNext
<1>3. SessionInv => InStep
  <2> SUFFICES ASSUME SessionInv, misses = 0
               PROVE  /\ accepted.answered \subseteq {accepted.asked}
                      /\ \A i \in Replies(down) : Waiting /\ down[i].serial = asked.serial
    BY DEF InStep, Replies
  <2>1. accepted.answered \subseteq {accepted.asked}
    BY DEF SessionInv, Steps
  <2>2. ASSUME NEW i \in Replies(down)
        PROVE  Waiting /\ down[i].serial = asked.serial
    <3>1. Waiting
      BY <2>2 DEF SessionInv, Steps, Quiet
    <3>2. Answering
      BY <2>2, <3>1 DEF SessionInv, Steps, InTune, Unanswered
    <3> QED BY <2>2, <3>1, <3>2 DEF Answering
  <2> QED BY <2>1, <2>2
<1> QED BY <1>1, <1>2, <1>3, PTL DEF Spec

\* Between calls the cache is of the device plugged in, unless the application has, or
\* will have, an event that says otherwise.
THEOREM CacheAlwaysConverges == Spec => []CacheConverges
<1>1. Init => SessionInv
  BY SessionInvInit
<1>2. SessionInv /\ [Next]_vars => SessionInv'
  BY SessionInvNext
<1>3. SessionInv => CacheConverges
  BY DEF SessionInv, Fresh, CacheConverges
<1> QED BY <1>1, <1>2, <1>3, PTL DEF Spec

=============================================================================
