---------------------------- MODULE MCSpnavSession ----------------------------
(***************************************************************************)
(* SpnavSession for TLC: two devices, one with short strings and one whose  *)
(* strings take two packets, and a claim of the docs the code does not keep. *)
(***************************************************************************)
EXTENDS SpnavSession

CONSTANTS short, long

MCDevices == {short, long}
MCPackets == [d \in MCDevices |-> IF d = short THEN 1 ELSE 2]

\* "The daemon echoes the request id, so a reply can always be matched to what
\* asked for it" (src/src/request.rs:5-6): the answer a call takes for its own
\* is the answer to what that call asked.
OwnReply == accepted.answered \subseteq {accepted.asked}
================================================================================
