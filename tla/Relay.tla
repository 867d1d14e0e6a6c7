------------------------------- MODULE Relay -------------------------------
(***************************************************************************)
(* The relay server, rc_server/UdpServerBase: one event-loop thread that   *)
(* runs udp_cb for every datagram and timer_1000ms_cb once a second.  The  *)
(* handlers never interleave; what varies is which datagram comes next,    *)
(* from which address, and how much time passes in between.                *)
(*                                                                         *)
(* A datagram is 4byte(uid)|1byte(rover,controller)|body.  The server      *)
(* remembers, per uid, the address each role last spoke from, and passes a *)
(* body on to the address of the other role.                               *)
(*                                                                         *)
(* Time is counted in ticks.  The code's last_recv_time_ms is kept as the  *)
(* age  now - last_recv_time_ms, the only form in which it is ever read.   *)
(***************************************************************************)
EXTENDS Integers, FiniteSets

CONSTANTS
  Uid,        \* group ids
  Endpoint,   \* source addresses (ip:port)
  Sender,     \* the [src, uid, logo] headers that can arrive
  Data,       \* bodies worth relaying
  Heartbeat,  \* the one-byte body '#'
  Empty,      \* a datagram that ends at or before its header
  NoAddr,     \* a NET that was never filled in (fd = 0)
  Timeout,    \* 2000 ms, in ticks
  Period,     \* 1000 ms, in ticks
  Slack       \* how late the loop may run an expired timer, in ticks

Role == {"rover", "controller"}
Logo == Role \cup {"other"}    \* any other value of the role byte
Body == Data \cup {Heartbeat, Empty}

ASSUME ConstantsAssumption ==
  /\ Sender \subseteq [src : Endpoint, uid : Uid, logo : Logo]
  /\ NoAddr \notin Endpoint
  /\ Heartbeat \notin Data /\ Empty \notin Data /\ Heartbeat # Empty
  /\ Timeout \in Nat /\ Period \in Nat \ {0} /\ Slack \in Nat

VARIABLES
  groups,  \* the keys of the map: the uids that have a GroupRoverController
  addr,    \* addr[u][r]: the NET of role r in the group of u
  age,     \* age[u]: now - last_recv_time_ms
  timer,   \* ticks until ev1000msTime expires (negative: overdue)
  out,     \* the datagram the last handler gave to sendto: {} or {delivery}
  heard    \* history: the senders registered since their group was created

vars == <<groups, addr, age, timer, out, heard>>

Datagram == [from : Sender, body : Body]

Delivery(d, to) == [to |-> to, from |-> d.from, body |-> d.body]

NoNets == [r \in Role |-> NoAddr]

\* Mutant: the swapped branch, each role is answered with its own datagrams.
OppositeMutant(r) == r

Opposite(r) == IF r = "rover" THEN "controller" ELSE "rover"

TypeOK ==
  /\ groups \subseteq Uid
  /\ addr \in [Uid -> [Role -> Endpoint \cup {NoAddr}]]
  /\ age \in [Uid -> Nat]
  /\ timer \in Int /\ -Slack <= timer /\ timer <= Period
  /\ out \subseteq [to : Endpoint, from : Sender, body : Body]
  /\ heard \subseteq Sender

Init ==
  /\ groups = {}
  /\ addr = [u \in Uid |-> NoNets]
  /\ age = [u \in Uid |-> 0]
  /\ timer = 0                       \* ev_timer_init(..., 0, 1)
  /\ out = {}
  /\ heard = {}

-----------------------------------------------------------------------------
(* udp_cb *)

\* Command::parse: at least one body byte, and a known role byte.
Parses(d) == d.body # Empty /\ d.from.logo \in Role

\* The early return: nothing is recorded, not even the address.
RejectDatagram(d) ==
  /\ ~Parses(d)
  /\ out' = {}
  /\ UNCHANGED <<groups, addr, age, timer, heard>>

\* Mutant: the else of "if (command.logo == rover)" is lost, both NETs are set.
AddGroupMutant(d) ==
  LET u == d.from.uid IN
  /\ Parses(d)
  /\ u \notin groups
  /\ groups' = groups \cup {u}
  /\ addr' = [addr EXCEPT ![u] = [r \in Role |-> d.from.src]]
  /\ age' = [age EXCEPT ![u] = 0]
  /\ out' = {}
  /\ heard' = heard \cup {d.from}
  /\ UNCHANGED timer

\* No group yet: create it with the sender's address only, and drop the body.
AddGroup(d) ==
  LET u == d.from.uid IN
  /\ Parses(d)
  /\ u \notin groups
  /\ groups' = groups \cup {u}
  /\ addr' = [addr EXCEPT ![u] = [NoNets EXCEPT ![d.from.logo] = d.from.src]]
  /\ age' = [age EXCEPT ![u] = 0]
  /\ out' = {}
  /\ heard' = heard \cup {d.from}
  /\ UNCHANGED timer

\* Mutant: send_data without its test of fd.
send_dataMutant(d, to) == out' \in {{}, {Delivery(d, to)}}

\* send_data: nothing without an address; sendto itself may fail, unnoticed.
send_data(d, to) ==
  out' \in IF to = NoAddr THEN {{}} ELSE {{}, {Delivery(d, to)}}

\* Mutant: the peer is taken from whichever group the lookup ends at.
UpdateGroupMutant(d) ==
  LET u == d.from.uid IN
  /\ Parses(d)
  /\ u \in groups
  /\ addr' = [addr EXCEPT ![u][d.from.logo] = d.from.src]
  /\ IF d.body = Heartbeat
       THEN out' = {}
       ELSE \E v \in groups : send_data(d, addr[v][Opposite(d.from.logo)])
  /\ age' = [age EXCEPT ![u] = 0]
  /\ heard' = heard \cup {d.from}
  /\ UNCHANGED <<groups, timer>>

\* Mutant: the address a role first spoke from is kept for good.
UpdateGroupStickyMutant(d) ==
  LET u == d.from.uid IN
  /\ Parses(d)
  /\ u \in groups
  /\ addr' = IF addr[u][d.from.logo] = NoAddr
               THEN [addr EXCEPT ![u][d.from.logo] = d.from.src]
               ELSE addr
  /\ IF d.body = Heartbeat
       THEN out' = {}
       ELSE send_data(d, addr[u][Opposite(d.from.logo)])
  /\ age' = [age EXCEPT ![u] = 0]
  /\ heard' = heard \cup {d.from}
  /\ UNCHANGED <<groups, timer>>

\* The group exists: the sender's address replaces the one on file for its
\* role, a body that is not a heartbeat goes to the other role.
UpdateGroup(d) ==
  LET u == d.from.uid IN
  /\ Parses(d)
  /\ u \in groups
  /\ addr' = [addr EXCEPT ![u][d.from.logo] = d.from.src]
  /\ IF d.body = Heartbeat
       THEN out' = {}
       ELSE send_data(d, addr[u][Opposite(d.from.logo)])
  /\ age' = [age EXCEPT ![u] = 0]
  /\ heard' = heard \cup {d.from}
  /\ UNCHANGED <<groups, timer>>

udp_cb(d) == RejectDatagram(d) \/ AddGroup(d) \/ UpdateGroup(d)

-----------------------------------------------------------------------------
(* Time and the sweep *)

Tick ==
  /\ timer > -Slack
  /\ timer' = timer - 1
  /\ age' = [u \in Uid |-> IF u \in groups THEN age[u] + 1 ELSE 0]
  /\ out' = {}
  /\ UNCHANGED <<groups, addr, heard>>

\* libev's repeating timer: the next expiry is one period after the last one,
\* or now if that is already past.
Rescheduled == IF timer + Period < 0 THEN 0 ELSE timer + Period

\* Mutant: off by one, a group of exactly 2000 ms is stale.
ExpiredMutant(u) == age[u] >= Timeout

Expired(u) == age[u] > Timeout

\* Mutant: itr++ also after erase, so the next group of the map is skipped.
timer_1000ms_cbMutant ==
  LET stale == {u \in groups : Expired(u)}
      skipped == IF Cardinality(stale) > 1 THEN {CHOOSE u \in stale : TRUE}
                                          ELSE {}
  IN
  /\ timer <= 0
  /\ groups' = (groups \ stale) \cup skipped
  /\ addr' = [u \in Uid |-> IF u \in groups' THEN addr[u] ELSE NoNets]
  /\ age' = [u \in Uid |-> IF u \in groups' THEN age[u] ELSE 0]
  /\ heard' = {s \in heard : s.uid \in groups'}
  /\ timer' = Rescheduled
  /\ out' = {}

timer_1000ms_cb ==
  /\ timer <= 0
  /\ groups' = {u \in groups : ~Expired(u)}
  /\ addr' = [u \in Uid |-> IF u \in groups' THEN addr[u] ELSE NoNets]
  /\ age' = [u \in Uid |-> IF u \in groups' THEN age[u] ELSE 0]
  /\ heard' = {s \in heard : s.uid \in groups'}
  /\ timer' = Rescheduled
  /\ out' = {}

Next ==
  \/ \E d \in Datagram : udp_cb(d)
  \/ Tick
  \/ timer_1000ms_cb

\* Mutant: ev_loop returns after the events at hand, nothing runs again.
FairnessMutant == TRUE

\* The loop never stops while the process lives, and time passes; nothing is
\* assumed of the clients.
Fairness == WF_vars(Tick) /\ WF_vars(timer_1000ms_cb)

Spec == Init /\ [][Next]_vars /\ Fairness

-----------------------------------------------------------------------------
(* Properties *)

\* Every body udp_cb relays goes to an endpoint that has itself spoken, since
\* the group was created, for the same uid and the opposite role: no body
\* crosses groups, is reflected to its own role, or reaches an address that
\* is only remembered from a group already erased.
Isolation ==
  \A m \in out : \E s \in heard :
    s.src = m.to /\ s.uid = m.from.uid /\ s.logo # m.from.logo

\* A silent group is gone at most one sweep period (and the loop's lateness)
\* after its 2000 ms are over, whatever the phase of timer_1000ms_cb was.
BoundedResidency ==
  \A u \in groups : age[u] <= Timeout + Period + Slack

\* An address is on file exactly for the roles that have spoken in this group,
\* and nothing is left of an erased group: a later group of the same uid must
\* not start with a peer that never joined it.
AddressesAreEarned ==
  \A u \in Uid, r \in Role :
    addr[u][r] # NoAddr
      <=> u \in groups /\ \E s \in heard : s.uid = u /\ s.logo = r

\* A group that has been silent for a tick is refreshed or erased in the end.
SilentGroupExpires ==
  \A u \in Uid :
    (u \in groups /\ age[u] > 0) ~> (u \notin groups \/ age[u] = 0)

\* The relay implements the rendezvous its clients rely on.
R == INSTANCE Rendezvous WITH known <- heard, delivered <- out

ImplementsRendezvous == R!Spec

=============================================================================
