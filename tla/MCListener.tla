----------------------------- MODULE MCListener -----------------------------
EXTENDS Listener
CONSTANTS w1, w2, c1, c2
MCWorkers == {w1, w2}
MCClients == {c1, c2}
=============================================================================
