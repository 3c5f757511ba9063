------------------------------ MODULE MCHidRoute ------------------------------
(***************************************************************************)
(* HidRoute for TLC: a small device, and a statement of the docs the code    *)
(* does not keep.                                                            *)
(***************************************************************************)
EXTENDS HidRoute

\* The last of them is beyond the range declared.
MCPlaces == {<<0, 0, 0>>, <<-4, 3, 1>>, <<5, 0, -4>>}
MCDeclared == <<-4, 3>>
\* Three bits, of which the middle one stands for nothing.
MCButtonMap == [bit \in {0, 2} |-> IF bit = 0 THEN 1 ELSE 0]

\* Of every length; down together, one after the other, and none of them.
MCBitReports ==
  {<<>>, <<TRUE>>, <<FALSE, TRUE>>, <<TRUE, FALSE, TRUE>>, <<FALSE, TRUE, TRUE>>,
   <<FALSE, FALSE, FALSE>>}

\* "Takes the next event if one is already waiting" (src/src/hid_device.rs:119):
\* a poll that comes back with nothing leaves no report behind that holds one.
PollTakesWaiting ==
  [][op = "poll" /\ result' = "nothing" /\ op' = "idle" =>
       line' = <<>> \/ EventsOf(Head(line))' = <<>>]_vars
================================================================================
