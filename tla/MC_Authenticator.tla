--------------------------- MODULE MC_Authenticator ---------------------------
(* Model values and symmetry for checking Authenticator with TLC. *)
EXTENDS Authenticator, TLC

CONSTANTS t1, t2, t3, n1, n2, k1, k2

MCAttempt == {t1, t2, t3}
MCNonce == {n1, n2}
MCAppID == {k1, k2}
MCKeys == {k1}

\* Two stamps inside the window at some clock reading, and the stamp
\* MaxTime - 2^(Width-1): at now = MaxTime its distance now - ts is
\* 2^(Width-1), which wraps to the least int64, and abs of that stays
\* negative; at every other clock reading it is rejected.
MCStamp == {MaxTime - 2^(Width - 1), 0, 2}

\* Attempts and nonces are interchangeable; appids are not (one has a key).
MCSymmetry == Permutations(MCAttempt) \cup Permutations(MCNonce)
=============================================================================
