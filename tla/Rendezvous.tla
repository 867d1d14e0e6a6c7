----------------------------- MODULE Rendezvous -----------------------------
(***************************************************************************)
(* What the relay server promises the two kinds of client, without maps,   *)
(* timers or sockets.  Clients of one group id meet at the server: each    *)
(* datagram registers its sender, and is then either dropped or handed to  *)
(* ONE endpoint that has already registered, in the same session of the    *)
(* same group, for the opposite role.  A session may be forgotten at any   *)
(* time, with everybody who registered in it.                              *)
(*                                                                         *)
(* The module says nothing about which registered endpoint is chosen, nor  *)
(* about when a session ends: Relay.tla decides both.                      *)
(***************************************************************************)

CONSTANTS Sender,    \* records [src, uid, logo]: who a datagram says it is from
          Body       \* what a datagram carries behind its header

VARIABLES known,     \* the senders registered in the current sessions
          delivered  \* what the last step handed over: {} or one delivery

vars == <<known, delivered>>

Peers(s, t) == s.uid = t.uid /\ s.logo # t.logo

Delivery(s, t, b) == [to |-> t.src, from |-> s, body |-> b]

Init == known = {} /\ delivered = {}

Register(s) ==
  /\ known' = known \cup {s}
  /\ \/ delivered' = {}
     \/ \E t \in known, b \in Body :
          Peers(s, t) /\ delivered' = {Delivery(s, t, b)}

Forget(gone) ==
  /\ known' = {s \in known : s.uid \notin gone}
  /\ delivered' = {}

Next ==
  \/ \E s \in Sender : Register(s)
  \/ \E gone \in SUBSET {s.uid : s \in Sender} : Forget(gone)

Spec == Init /\ [][Next]_vars

=============================================================================
