----------------------------- MODULE MCPersist -----------------------------
(* Small instances of MEPersist for TLC. *)
EXTENDS MEPersist

CONSTANTS k1, k2

MCKeys == {k1, k2}
MCOneKey == {k1}
MCDeposit == {2}
MCBoth == {2, -1}
MCFine == {3}
=============================================================================
