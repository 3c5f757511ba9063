----------------------------- MODULE MCSpnavStream -----------------------------
(***************************************************************************)
(* SpnavStream for TLC, and what the repository says of it that the code    *)
(* does not keep: each of these is refuted by a run of its own.             *)
(***************************************************************************)
EXTENDS SpnavStream

\* "Negotiates protocol version 1 and falls back to version 0 against an older
\* daemon, where events still decode" (src/README.md:34-35): the packets taken
\* are the packets sent, whatever the daemon did during the handshake.
EventsStillDecode ==
  Handshaken => \A k \in 1 .. Len(log) : log[k] = k

\* "Takes the next event if one is already waiting" (src/src/client.rs:231):
\* poll never leaves its caller waiting on a blocking socket.
PollNeverBlocks ==
  op = "poll" => sock.nonblocking

\* "How long to wait for the answer to a request" (src/src/client.rs:31): no
\* request is still waiting after REQUEST_TIMEOUT, with no signal to blame.
RequestGivesUpInTime ==
  op = "request" /\ signals = 0 => elapsed <= REQUEST_TIMEOUT
================================================================================
