------------------------- MODULE MC_SessionManager -------------------------
(* Small instances of SessionManager for TLC. *)
EXTENDS SessionManager, TLC

CONSTANTS c1, c2, c3, s1, s2

\* Three connections over two serial numbers: enough for a device to hold
\* an SN, be evicted by a reconnect and evict in turn.
MCConn == {c1, c2, c3}
MCSN == {s1, s2}

\* Connections and serial numbers are interchangeable model values.
MCSymmetry == Permutations(MCConn) \cup Permutations(MCSN)
=============================================================================
