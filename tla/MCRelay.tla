------------------------------ MODULE MCRelay ------------------------------
(* Model values for Relay: two groups, one client that changes address.    *)
EXTENDS Relay

CONSTANTS u1, u2, a1, a2, a3, a4

From(a, u, r) == [src |-> a, uid |-> u, logo |-> r]

\* u1: a rover seen from two addresses and a controller; u2: one client per
\* role, its rover behind the address u1's rover also used; and noise.
MCSender == { From(a1, u1, "rover"), From(a2, u1, "rover"),
              From(a3, u1, "controller"),
              From(a2, u2, "rover"), From(a4, u2, "controller"),
              From(a4, u1, "other") }

=============================================================================
