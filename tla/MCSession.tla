------------------------------ MODULE MCSession ------------------------------
(* A rover that can move between two addresses, a controller that stays. *)
EXTENDS Session

CONSTANTS u1, a1, a2, a3

MCSender == {[src |-> a, uid |-> u1, logo |-> r] : a \in Endpoint, r \in Role}
MCHome == [r \in Role |-> IF r = "rover" THEN {a1, a2} ELSE {a3}]
MCSays == [r \in Role |-> IF r = "rover" THEN Data ELSE Data \cup {Heartbeat}]
MCFirst == [r \in Role |-> IF r = "rover" THEN a1 ELSE a3]

=============================================================================
