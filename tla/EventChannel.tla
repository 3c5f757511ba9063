------------------------------ MODULE EventChannel ------------------------------
(***************************************************************************)
(* What sixdof::Client promises of the daemon's packets (the docs of        *)
(* src/src/lib.rs and of Client's reads): each packet is taken once, in the *)
(* order it was sent, and the application is handed every well-formed event *)
(* among them once, in order, whatever requests were made in between.       *)
(* `clean' says the promise stands; the one way to lose it is to open the   *)
(* connection at a byte where no packet begins, before any packet is taken. *)
(***************************************************************************)
EXTENDS Naturals, Sequences

VARIABLES
  sent,       \* the kinds of the packets the daemon has sent, in order
  taken,      \* how many of them the client has taken
  delivered,  \* the numbers of the events the application was handed
  clean       \* the promise stands

vars == <<sent, taken, delivered, clean>>

Kind == {"event", "bad", "reply"}

Init == sent = <<>> /\ taken = 0 /\ delivered = <<>> /\ clean = TRUE

Send ==
  /\ \E kind \in Kind : sent' = Append(sent, kind)
  /\ UNCHANGED <<taken, delivered, clean>>

\* The events among the first n packets that the application has not had.
Undelivered(n) ==
  {m \in 1 .. n : sent[m] = "event" /\ \A k \in 1 .. Len(delivered) : delivered[k] # m}

\* Taking a packet, handing out the oldest event there is, or both at once.
Take == taken < Len(sent) /\ taken' = taken + 1
Deliver(n) ==
  \E m \in Undelivered(n) :
    /\ \A k \in Undelivered(n) : m <= k
    /\ delivered' = Append(delivered, m)

Step ==
  /\ clean
  /\ \/ Take /\ (delivered' = delivered \/ Deliver(taken + 1))
     \/ taken' = taken /\ Deliver(taken)
  /\ UNCHANGED <<sent, clean>>

\* A connection opened out of step promises nothing any more.
Spoil ==
  /\ clean /\ taken = 0
  /\ clean' = FALSE
  /\ UNCHANGED <<sent, taken, delivered>>

Spoilt ==
  /\ ~clean
  /\ UNCHANGED <<sent, clean>>

Next == Send \/ Step \/ Spoil \/ Spoilt

Spec == Init /\ [][Next]_vars
================================================================================
