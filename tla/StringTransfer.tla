----------------------------- MODULE StringTransfer -----------------------------
(***************************************************************************)
(* Strings on the daemon's socket (src/src/request.rs): how string_packets   *)
(* cuts one into packets, and how StringReader::push puts it together again. *)
(* A text is a sequence of bytes; what characters they make is left out.     *)
(* The word that counts what remains has a bit that marks a continuation,    *)
(* the one above the greatest length.                                        *)
(***************************************************************************)
EXTENDS Integers, Sequences

CONSTANTS
  CHUNK,       \* bytes of a string in one packet
  MAX_STRING,  \* a longer one is cut short
  NoByte       \* what pads the last packet

ASSUME StringAssumption ==
  /\ CHUNK \in Nat \ {0} /\ MAX_STRING \in Nat
  /\ NoByte \in Nat

\* One bit, which no length has set.
CONT_BIT == MAX_STRING + 1

AtMost(n, limit) == IF n <= limit THEN n ELSE limit

\* (Mutated: a string is sent however long it is.)
WholeText(text) == text

CutShort(text) == SubSeq(text, 1, AtMost(Len(text), MAX_STRING))

\* (Mutated: an empty string takes no packet.)
FullPacketsOnly(n) == (n + CHUNK - 1) \div CHUNK

\* An empty string still takes one packet.
PacketCount(n) == IF n = 0 THEN 1 ELSE (n + CHUNK - 1) \div CHUNK

\* (Mutated: the bit is left out.)
RemainingAlone(n, cont) == n

\* Word 7: what remains, and whether the packet is a continuation.
Remaining(n, cont) ==
  IF cont /\ (n \div CONT_BIT) % 2 = 0 THEN n + CONT_BIT ELSE n

string_packets(text) ==
  LET bytes == CutShort(text)
      sent(i) == (i - 1) * CHUNK
  IN  [i \in 1 .. PacketCount(Len(bytes)) |->
         [word |-> Remaining(Len(bytes) - sent(i), i > 1),
          data |-> [j \in 1 .. CHUNK |-> IF sent(i) + j <= Len(bytes) THEN bytes[sent(i) + j]
                                         ELSE NoByte]]]

-----------------------------------------------------------------------------

\* StringReader::default().
NewReader == [text |-> <<>>, expect |-> 0, started |-> FALSE]

IsContinuation(packet) == (packet.word \div CONT_BIT) % 2 = 1

\* The reader as a packet finds it: a first one starts it over.
Readied(reader, packet) ==
  IF IsContinuation(packet) THEN reader
  ELSE [text |-> <<>>, expect |-> packet.word % CONT_BIT, started |-> TRUE]

\* (Mutated: the order of the packets is not looked at.)
UnbegunAlone(reader, packet) == IsContinuation(packet) /\ ~reader.started

\* A continuation of nothing, or one that is not next.
OutOfOrder(reader, packet) ==
  \/ IsContinuation(packet) /\ ~reader.started
  \/ packet.word % CONT_BIT # Readied(reader, packet).expect

\* Bytes of a string in the packet that has so many to go.
Take(remaining) == AtMost(remaining, CHUNK)

\* The reader with one more packet in it, and what push returns.
push(reader, packet) ==
  LET now == Readied(reader, packet)
      take == Take(packet.word % CONT_BIT)
      text == now.text \o SubSeq(packet.data, 1, take)
  IN  CASE packet.word < 0 -> [reader |-> reader, result |-> "Refused", text |-> <<>>]
        [] packet.word >= 0 /\ OutOfOrder(reader, packet) ->
             [reader |-> now, result |-> "Protocol", text |-> <<>>]
        [] packet.word >= 0 /\ ~OutOfOrder(reader, packet) /\ now.expect = take ->
             [reader |-> NewReader, result |-> "string", text |-> text]
        [] OTHER -> [reader |-> [text |-> text, expect |-> now.expect - take, started |-> TRUE],
                     result |-> "more", text |-> <<>>]
================================================================================
