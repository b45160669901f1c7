--------------------------- MODULE MC_ACKWaiter ---------------------------
(* Small instances of ACKWaiter for TLC. *)
EXTENDS ACKWaiter, TLC

CONSTANTS m1, m2

\* Two concurrent commands: each slot and channel is per cmd_id, and two
\* show that one command's cleanup never touches the other's slot.
MCCmdID == {m1, m2}

MCSymmetry == Permutations(MCCmdID)
=============================================================================
