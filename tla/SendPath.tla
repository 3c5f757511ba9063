--------------------------------- MODULE SendPath ---------------------------------
(***************************************************************************)
(* What the client writes to the daemon (src/src/client.rs): requests, and   *)
(* strings in as many packets as they take, through a socket with room for   *)
(* so many bytes, in whichever mode the last read left it; and what a daemon *)
(* that reads packet by packet makes of it.                                  *)
(*                                                                         *)
(* A write takes what there is room for.  The reads are SpnavStream's matter *)
(* and the answers SpnavSession's: here a read leaves a mode behind, and an  *)
(* answer comes, is late, or never comes.                                    *)
(***************************************************************************)
EXTENDS StringTransfer

CONSTANTS
  Settings,     \* the settings that are strings: the client's name, ...
  Texts,        \* the strings an application sends
  PACKET_BYTES, \* pieces a packet may be cut into
  Room,         \* bytes the socket holds
  MaxSends      \* bound: packets the client begins

ASSUME SendAssumption ==
  /\ PACKET_BYTES \in Nat \ {0} /\ Room \in Nat \ {0} /\ MaxSends \in Nat
  /\ "request" \notin Settings
  /\ Texts \subseteq Seq(Nat)

VARIABLES
  nonblocking,  \* the mode of the socket, as the last call left it
  op,           \* the call in progress
  packets,      \* the packets it has yet to finish writing
  written,      \* bytes of the first of them that are in the socket
  socket,       \* what is in the socket: bytes, each of a packet
  part,         \* bytes of a packet the daemon has read
  readers,      \* the daemon's StringReader for each setting, its own
  closed,       \* the daemon has closed the connection
  held,         \* the strings the daemon holds
  result,       \* what the last call returned, "none" while one is in progress
  begun,        \* history: the packets the client has begun
  got,          \* history: which of them the daemon has taken, in order
  last,         \* history: the last string of each setting, and whether all of
                \* it was written
  cut           \* history: a packet was given up half written

writeVars == <<packets, written, begun>>
daemonVars == <<part, readers, closed, held, got>>
vars == <<nonblocking, op, result, writeVars, last, cut, socket, daemonVars>>

Request == [id |-> "request"]

StringPackets(setting, text) ==
  LET ps == string_packets(text)
  IN  [i \in DOMAIN ps |-> [id |-> setting, word |-> ps[i].word, data |-> ps[i].data]]

\* The daemon's reader at first.
Unbegun == [text |-> <<>>, expect |-> 0]

\* A byte of a packet, which is the n-th the client began.
Byte(packet, n, at) == [packet |-> packet, n |-> n, at |-> at]

Free == Room - Len(socket)
Sending == op \in {"string", "request"}

\* (Mutated: one write is all there is, whatever it took.)
WrittenAny == written > 0

Whole == written = PACKET_BYTES

-----------------------------------------------------------------------------
(* The client. *)

Init ==
  /\ nonblocking = FALSE /\ op = "idle" /\ result = "none"
  /\ packets = <<>> /\ written = 0 /\ begun = 0 /\ socket = <<>>
  /\ last = [s \in Settings |-> [text |-> <<>>, sent |-> TRUE]]
  /\ cut = FALSE
  /\ part = <<>> /\ closed = FALSE /\ got = <<>>
  /\ readers = [s \in Settings |-> Unbegun] /\ held = [s \in Settings |-> <<>>]

Return(r) == op' = "idle" /\ result' = r

\* A read, of which only the mode it leaves matters here: poll's is
\* non-blocking.
Read ==
  /\ op = "idle"
  /\ nonblocking' \in BOOLEAN
  /\ UNCHANGED <<op, result, writeVars, last, cut, socket, daemonVars>>

\* send: nothing is done about the mode.
Send(call, ps) ==
  /\ op = "idle" /\ begun + Len(ps) <= MaxSends
  /\ op' = call /\ result' = "none"
  /\ packets' = ps /\ written' = 0
  /\ begun' = begun + 1
  /\ UNCHANGED <<nonblocking, cut, socket, daemonVars>>

SendString ==
  \E s \in Settings, text \in Texts :
    /\ Send("string", StringPackets(s, text))
    /\ last' = [last EXCEPT ![s] = [text |-> CutShort(text), sent |-> FALSE]]

SendRequest == Send("request", <<Request>>) /\ UNCHANGED last

\* One turn of write_all: as many bytes as there is room for, or fewer.
WriteSome ==
  /\ Sending /\ ~closed /\ ~Whole
  /\ \E n \in 1 .. AtMost(PACKET_BYTES - written, Free) :
       /\ socket' = socket \o [i \in 1 .. n |-> Byte(Head(packets), begun, written + i)]
       /\ written' = written + n
  /\ UNCHANGED <<nonblocking, op, result, packets, begun, last, cut, daemonVars>>

\* The packet is written; the next one of a string follows.
NextPacket ==
  /\ Sending /\ Whole /\ Len(packets) > 1
  /\ packets' = Tail(packets) /\ written' = 0
  /\ begun' = begun + 1
  /\ UNCHANGED <<nonblocking, op, result, last, cut, socket, daemonVars>>

\* The last one is.  A string is not answered; a request waits for its answer,
\* with a deadline.
Sent ==
  /\ Sending /\ Whole /\ Len(packets) = 1
  /\ packets' = <<>> /\ written' = 0
  /\ \/ /\ op = "string"
        /\ Return("ok")
        /\ last' = [last EXCEPT ![Head(packets).id].sent = TRUE]
        /\ UNCHANGED nonblocking
     \/ /\ op = "request"
        /\ op' = "await" /\ nonblocking' = FALSE
        /\ UNCHANGED <<result, last>>
  /\ UNCHANGED <<begun, cut, socket, daemonVars>>

\* (Mutated: a write that fails is tried again.)
NeverFails == FALSE

\* A socket that does not block says that it would, and one whose daemon has
\* gone is a broken pipe.
WriteFails == (nonblocking /\ Free = 0) \/ closed

\* What is left of the call's packets is given up; one of which no byte is in
\* the socket was never begun.
SendFails ==
  /\ Sending /\ ~Whole /\ WriteFails
  /\ Return("Io")
  /\ packets' = <<>> /\ written' = 0
  /\ cut' = (cut \/ written > 0)
  /\ begun' = IF written > 0 THEN begun ELSE begun - 1
  /\ UNCHANGED <<nonblocking, last, socket, daemonVars>>

\* The answer, or none.
Awaited ==
  /\ op = "await"
  /\ \E r \in {"ok", "Timeout", "Disconnected"} :
       /\ r = "Disconnected" => closed
       /\ Return(r)
  /\ UNCHANGED <<nonblocking, writeVars, last, cut, socket, daemonVars>>

Client == WriteSome \/ NextPacket \/ Sent \/ SendFails \/ Awaited

-----------------------------------------------------------------------------
(* The daemon. *)

\* Reading goes on where the last read left off.
ReadByte ==
  /\ ~closed /\ socket # <<>> /\ Len(part) < PACKET_BYTES
  /\ part' = Append(part, Head(socket))
  /\ socket' = Tail(socket)
  /\ UNCHANGED <<nonblocking, op, result, writeVars, last, cut, readers, closed, held, got>>

\* The bytes read are not one packet of the client's.
Spliced == \E i \in 1 .. PACKET_BYTES : part[i] # Byte(part[1].packet, part[1].n, i)

\* The daemon's reader with one more piece in it: unlike the library's it takes a
\* continuation for the next piece of what it has.
Gathered(reader, packet) ==
  LET remaining == packet.word % CONT_BIT
      now == IF IsContinuation(packet) THEN reader ELSE [text |-> <<>>, expect |-> remaining]
      take == Take(remaining)
  IN  [text |-> now.text \o SubSeq(packet.data, 1, take), expect |-> now.expect - take]

\* A piece of a string goes to the reader of its setting, whose text is held once
\* nothing is to come.  More than what is to come would make the count overflow, and
\* end the daemon's thread; no piece does, for each comes right after the one before.
TakePiece(packet) ==
  LET reader == Gathered(readers[packet.id], packet)
  IN  /\ closed' = (reader.expect < 0)
      /\ readers' = IF closed' THEN readers ELSE [readers EXCEPT ![packet.id] = reader]
      /\ held' = IF reader.expect = 0 THEN [held EXCEPT ![packet.id] = reader.text] ELSE held

\* What the pieces of two packets say is left open.
TakePacket ==
  /\ ~closed /\ Len(part) = PACKET_BYTES
  /\ part' = <<>>
  /\ \/ /\ Spliced
        /\ got' = Append(got, 0)
        /\ UNCHANGED <<readers, held, closed>>
     \/ /\ ~Spliced
        /\ got' = Append(got, part[1].n)
        /\ LET packet == part[1].packet
           IN  IF packet = Request THEN UNCHANGED <<readers, held, closed>>
               ELSE TakePiece(packet)
  /\ UNCHANGED <<nonblocking, op, result, writeVars, last, cut, socket>>

DaemonCloses ==
  /\ ~closed
  /\ closed' = TRUE
  /\ UNCHANGED <<nonblocking, op, result, writeVars, last, cut, socket, part, readers,
                 held, got>>

DaemonReads == ReadByte \/ TakePacket

Next ==
  \/ Client \/ Read \/ SendString \/ SendRequest
  \/ DaemonReads \/ DaemonCloses

Spec == Init /\ [][Next]_vars

\* The client runs on, and the daemon reads on a thread that does nothing but
\* answer what it reads.
FairSpec == Spec /\ WF_vars(Client) /\ WF_vars(DaemonReads)

-----------------------------------------------------------------------------
(* What the client promises. *)

Packet ==
  {Request} \cup UNION {{StringPackets(s, text)[i] : i \in 1 .. Len(string_packets(text))} :
                         s \in Settings, text \in Texts}

\* The variables keep their types; in particular a call has packets left just
\* while it sends, and what a reader has and what is to come are no more than the
\* longest string.
TypeOK ==
  /\ nonblocking \in BOOLEAN /\ closed \in BOOLEAN /\ cut \in BOOLEAN
  /\ op \in {"idle", "string", "request", "await"}
  /\ result \in {"none", "ok", "Io", "Timeout", "Disconnected"}
  /\ packets \in Seq(Packet) /\ begun \in 0 .. MaxSends
  /\ IF Sending THEN packets # <<>> /\ begun > 0 ELSE packets = <<>> /\ written = 0
  /\ written \in 0 .. PACKET_BYTES
  /\ \A bytes \in {socket, part} :
       bytes \in Seq([packet : Packet, n : 1 .. begun, at : 1 .. PACKET_BYTES])
  /\ Len(socket) <= Room /\ Len(part) <= PACKET_BYTES
  /\ got \in Seq(0 .. begun)
  /\ \A s \in Settings :
       readers[s].expect \in Nat /\ Len(readers[s].text) + readers[s].expect <= MAX_STRING

\* The daemon takes the packets the client began, each once and in order,
\* however they were cut on the way: until one is given up half written, after
\* which it takes what follows for the rest of it (send, write_all).
PacketsWhole == ~cut => \A i \in 1 .. Len(got) : got[i] = i

\* Of each setting the daemon holds one string as an application gave it, all of
\* it, a longer one cut short: never a piece of one, or pieces of two, whatever
\* strings failed after some of their packets or came in between
\* (string_packets, send_string, and the StringReader of the tests' daemon).
StringsWhole == ~cut => \A s \in Settings : held[s] \in {<<>>} \cup {CutShort(text) : text \in Texts}

\* And it is the last one, once that was sent and the daemon has read it: a
\* string that failed before leaves nothing behind that could end up in it.
LastStringHeld ==
  ~cut /\ socket = <<>> /\ Len(part) < PACKET_BYTES =>
    \A s \in Settings : last[s].sent => held[s] = last[s].text

\* A send returns, as long as the daemon reads or has gone; and on a socket that
\* does not block in any case.
SendsReturn == Sending ~> ~Sending
================================================================================
