------------------------------- MODULE MCSendPath -------------------------------
(***************************************************************************)
(* SendPath for TLC: strings of every length around those that matter.       *)
(***************************************************************************)
EXTENDS SendPath

CONSTANT
  Lengths  \* of the strings

\* Of each length one string, no byte of which is in another.
MCTexts == {[i \in 1 .. n |-> 10 * n + i] : n \in Lengths}
================================================================================
