---------------------------- MODULE RelayProofs ----------------------------
(***************************************************************************)
(* Safety of the relay server for every set of clients, every timeout and  *)
(* period, and every lateness of the event loop; and of a session through  *)
(* it: kept alive by heartbeats it survives every sweep, with any number   *)
(* of crashes, rebinds and duplicates, and any delay of the network up to  *)
(* Gap.                                                                    *)
(***************************************************************************)
EXTENDS Session, TLAPS

-----------------------------------------------------------------------------
(* The relay *)

\* The age of a group and the phase of the sweep timer: this is what makes
\* BoundedResidency inductive, an old group can exist only just before a sweep.
AgePhase == \A u \in groups : age[u] + timer <= Timeout + Period

\* Each address on file was heard, in this group and for that role.
AddrHeard ==
  \A u \in Uid, r \in Role :
    addr[u][r] # NoAddr =>
      \E s \in heard : s.uid = u /\ s.logo = r /\ s.src = addr[u][r]

\* Each sender remembered by the history is still represented on file.
HeardOnFile ==
  \A s \in heard :
    s.logo \in Role /\ s.uid \in groups /\ addr[s.uid][s.logo] # NoAddr

IInv == TypeOK /\ AgePhase /\ AddrHeard /\ HeardOnFile /\ Isolation

-----------------------------------------------------------------------------

LEMMA RescheduledRange ==
  ASSUME ConstantsAssumption, timer \in Int, timer <= 0
  PROVE  Rescheduled \in Int /\ 0 <= Rescheduled /\ Rescheduled <= Period
BY DEF ConstantsAssumption, Rescheduled

LEMMA SenderFields ==
  ASSUME ConstantsAssumption, NEW s \in Sender
  PROVE  s.src \in Endpoint /\ s.uid \in Uid /\ s.logo \in Logo
BY DEF ConstantsAssumption

\* The relayed datagram of send_data, if there is one, is addressed to "to".
LEMMA SendDataOut ==
  ASSUME NEW d, NEW to, send_data(d, to)
  PROVE  out' = {} \/ (to # NoAddr /\ out' = {Delivery(d, to)})
BY DEF send_data

LEMMA InitIInv == ConstantsAssumption /\ Init => IInv
BY DEF ConstantsAssumption, Init, IInv, TypeOK, AgePhase, AddrHeard,
       HeardOnFile, Isolation, NoNets, Role

-----------------------------------------------------------------------------
(* One lemma per handler. *)

LEMMA RejectIInv ==
  ASSUME ConstantsAssumption, IInv, NEW d \in Datagram, RejectDatagram(d)
  PROVE  IInv'
BY DEF IInv, RejectDatagram, TypeOK, AgePhase, AddrHeard, HeardOnFile,
       Isolation

LEMMA AddGroupIInv ==
  ASSUME ConstantsAssumption, IInv, NEW d \in Datagram, AddGroup(d)
  PROVE  IInv'
<1> DEFINE u == d.from.uid
           l == d.from.logo
<1>1. /\ d.from \in Sender /\ u \in Uid /\ l \in Role /\ d.from.src \in Endpoint
      /\ d.from.src # NoAddr
  BY SenderFields DEF AddGroup, Parses, Datagram, ConstantsAssumption
<1>2. /\ u \notin groups
      /\ groups' = groups \cup {u}
      /\ addr' = [addr EXCEPT ![u] = [NoNets EXCEPT ![l] = d.from.src]]
      /\ age' = [age EXCEPT ![u] = 0]
      /\ out' = {}
      /\ heard' = heard \cup {d.from}
      /\ timer' = timer
  BY DEF AddGroup
<1>3. TypeOK'
  BY <1>1, <1>2 DEF IInv, TypeOK, NoNets
<1>4. AgePhase'
  BY <1>1, <1>2 DEF IInv, TypeOK, AgePhase, ConstantsAssumption
<1>5. /\ \A r \in Role : addr'[u][r] = IF r = l THEN d.from.src ELSE NoAddr
      /\ \A v \in Uid : v # u => addr'[v] = addr[v]
  BY <1>1, <1>2 DEF IInv, TypeOK, NoNets
<1>6. AddrHeard'
  BY <1>1, <1>2, <1>5 DEF IInv, AddrHeard
<1>7. HeardOnFile'
  <2> SUFFICES ASSUME NEW s \in heard'
               PROVE  s.logo \in Role /\ s.uid \in groups'
                      /\ addr'[s.uid][s.logo] # NoAddr
    BY DEF HeardOnFile
  <2>1. CASE s = d.from
    BY <2>1, <1>1, <1>2, <1>5
  <2>2. CASE s \in heard
    <3>1. s.logo \in Role /\ s.uid \in groups /\ addr[s.uid][s.logo] # NoAddr
      BY <2>2 DEF IInv, HeardOnFile
    <3>2. s.uid # u /\ s.uid \in Uid
      BY <3>1, <1>2 DEF IInv, TypeOK
    <3> QED BY <3>1, <3>2, <1>2, <1>5
  <2> QED BY <2>1, <2>2, <1>2
<1>8. Isolation'
  BY <1>2 DEF Isolation
<1> QED BY <1>3, <1>4, <1>6, <1>7, <1>8 DEF IInv

LEMMA UpdateGroupIInv ==
  ASSUME ConstantsAssumption, IInv, NEW d \in Datagram, UpdateGroup(d)
  PROVE  IInv'
<1> DEFINE u == d.from.uid
           l == d.from.logo
           peer == addr[u][Opposite(l)]
<1>1. /\ d.from \in Sender /\ u \in Uid /\ l \in Role /\ d.from.src \in Endpoint
      /\ d.from.src # NoAddr /\ d.body \in Body
  BY SenderFields DEF UpdateGroup, Parses, Datagram, ConstantsAssumption
<1>2. /\ u \in groups
      /\ groups' = groups
      /\ addr' = [addr EXCEPT ![u][l] = d.from.src]
      /\ age' = [age EXCEPT ![u] = 0]
      /\ heard' = heard \cup {d.from}
      /\ timer' = timer
  BY DEF UpdateGroup
<1>3. out' = {} \/ (peer # NoAddr /\ out' = {Delivery(d, peer)})
  BY SendDataOut DEF UpdateGroup
<1>4. Opposite(l) \in Role /\ Opposite(l) # l
  BY <1>1 DEF Opposite, Role
<1>5. peer \in Endpoint \cup {NoAddr}
  BY <1>1, <1>4 DEF IInv, TypeOK
<1>6. TypeOK'
  <2>1. addr' \in [Uid -> [Role -> Endpoint \cup {NoAddr}]]
    BY <1>1, <1>2 DEF IInv, TypeOK
  <2>2. out' \subseteq [to : Endpoint, from : Sender, body : Body]
    BY <1>1, <1>3, <1>5 DEF Delivery
  <2> QED BY <1>1, <1>2, <2>1, <2>2 DEF IInv, TypeOK
<1>7. AgePhase'
  BY <1>1, <1>2 DEF IInv, TypeOK, AgePhase, ConstantsAssumption
<1>8. \A v \in Uid, r \in Role :
        addr'[v][r] = IF v = u /\ r = l THEN d.from.src ELSE addr[v][r]
  BY <1>1, <1>2 DEF IInv, TypeOK
<1>9. AddrHeard'
  BY <1>1, <1>2, <1>8 DEF IInv, AddrHeard
<1>10. HeardOnFile'
  BY <1>1, <1>2, <1>8 DEF IInv, TypeOK, HeardOnFile
<1>11. Isolation'
  <2> SUFFICES ASSUME NEW m \in out'
               PROVE  \E s \in heard' : /\ s.src = m.to
                                        /\ s.uid = m.from.uid
                                        /\ s.logo # m.from.logo
    BY DEF Isolation
  <2>1. peer # NoAddr /\ m.to = peer /\ m.from = d.from
    BY <1>3 DEF Delivery
  <2>2. PICK s \in heard : s.uid = u /\ s.logo = Opposite(l) /\ s.src = peer
    BY <2>1, <1>1, <1>4 DEF IInv, AddrHeard
  <2> QED BY <2>1, <2>2, <1>2, <1>4
<1> QED BY <1>6, <1>7, <1>9, <1>10, <1>11 DEF IInv

LEMMA TickIInv ==
  ASSUME ConstantsAssumption, IInv, Tick
  PROVE  IInv'
<1>1. /\ timer > -Slack /\ timer' = timer - 1
      /\ age' = [u \in Uid |-> IF u \in groups THEN age[u] + 1 ELSE 0]
      /\ out' = {}
      /\ UNCHANGED <<groups, addr, heard>>
  BY DEF Tick
<1>2. TypeOK'
  BY <1>1 DEF IInv, TypeOK, ConstantsAssumption
<1>3. AgePhase'
  BY <1>1 DEF IInv, TypeOK, AgePhase, ConstantsAssumption
<1>4. AddrHeard' /\ HeardOnFile' /\ Isolation'
  BY <1>1 DEF IInv, AddrHeard, HeardOnFile, Isolation
<1> QED BY <1>2, <1>3, <1>4 DEF IInv

LEMMA SweepIInv ==
  ASSUME ConstantsAssumption, IInv, timer_1000ms_cb
  PROVE  IInv'
<1>1. /\ timer <= 0
      /\ groups' = {u \in groups : ~Expired(u)}
      /\ addr' = [u \in Uid |-> IF u \in groups' THEN addr[u] ELSE NoNets]
      /\ age' = [u \in Uid |-> IF u \in groups' THEN age[u] ELSE 0]
      /\ heard' = {s \in heard : s.uid \in groups'}
      /\ timer' = Rescheduled
      /\ out' = {}
  BY DEF timer_1000ms_cb
<1>2. timer' \in Int /\ 0 <= timer' /\ timer' <= Period
  BY <1>1, RescheduledRange DEF IInv, TypeOK
<1>3. groups' \subseteq groups
  BY <1>1
<1>4. TypeOK'
  BY <1>1, <1>2, <1>3 DEF IInv, TypeOK, NoNets, ConstantsAssumption
<1>5. AgePhase'
  BY <1>1, <1>2, <1>3 DEF IInv, TypeOK, AgePhase, Expired, ConstantsAssumption
<1>6. AddrHeard'
  <2> SUFFICES ASSUME NEW u \in Uid, NEW r \in Role, addr'[u][r] # NoAddr
               PROVE  \E s \in heard' : /\ s.uid = u /\ s.logo = r
                                        /\ s.src = addr'[u][r]
    BY DEF AddrHeard
  <2>1. u \in groups' /\ addr'[u] = addr[u]
    BY <1>1 DEF NoNets
  <2>2. PICK s \in heard : s.uid = u /\ s.logo = r /\ s.src = addr[u][r]
    BY <2>1 DEF IInv, AddrHeard
  <2> QED BY <2>1, <2>2, <1>1
<1>7. HeardOnFile'
  BY <1>1, <1>3 DEF IInv, TypeOK, HeardOnFile
<1>8. Isolation'
  BY <1>1 DEF Isolation
<1> QED BY <1>4, <1>5, <1>6, <1>7, <1>8 DEF IInv

LEMMA NextIInv == ConstantsAssumption /\ IInv /\ [Next]_vars => IInv'
<1> SUFFICES ASSUME ConstantsAssumption, IInv, [Next]_vars
             PROVE  IInv'
  OBVIOUS
<1>1. ASSUME NEW d \in Datagram, udp_cb(d) PROVE IInv'
  BY <1>1, RejectIInv, AddGroupIInv, UpdateGroupIInv DEF udp_cb
<1>2. CASE Tick
  BY <1>2, TickIInv
<1>3. CASE timer_1000ms_cb
  BY <1>3, SweepIInv
<1>4. CASE UNCHANGED vars
  BY <1>4 DEF vars, IInv, TypeOK, AgePhase, AddrHeard, HeardOnFile, Isolation
<1> QED BY <1>1, <1>2, <1>3, <1>4 DEF Next

-----------------------------------------------------------------------------
(* The theorems. *)

\* The inductive invariant holds in every reachable state.
THEOREM SpecIInv == Spec => []IInv
<1>1. Init => IInv
  BY InitIInv, ConstantsAssumption
<1>2. IInv /\ [Next]_vars => IInv'
  BY NextIInv, ConstantsAssumption
<1> QED BY <1>1, <1>2, PTL DEF Spec

\* udp_cb and timer_1000ms_cb keep the map, the NETs and the timers well typed;
\* in particular what is given to sendto always has a real address.
THEOREM TypeCorrect == Spec => []TypeOK
<1>1. IInv => TypeOK
  BY DEF IInv
<1> QED BY <1>1, SpecIInv, PTL

\* Whatever arrives, from whom and when, a body only reaches an endpoint that
\* spoke for the same uid and the opposite role in the group's present life.
THEOREM GroupsAreIsolated == Spec => []Isolation
<1>1. IInv => Isolation
  BY DEF IInv
<1> QED BY <1>1, SpecIInv, PTL

\* A group the clients left is erased within Timeout + Period + Slack, for any
\* timeout, any sweep period and any lateness of the loop.
THEOREM ResidencyIsBounded == Spec => []BoundedResidency
<1>1. IInv => BoundedResidency
  BY ConstantsAssumption
  DEF IInv, TypeOK, AgePhase, BoundedResidency, ConstantsAssumption
<1> QED BY <1>1, SpecIInv, PTL

\* NETs on file and clients heard agree: a group that is created again for an
\* old uid holds no address of its former clients.
THEOREM AddressesEarned == Spec => []AddressesAreEarned
<1>1. IInv => AddressesAreEarned
  BY DEF IInv, AddressesAreEarned, AddrHeard, HeardOnFile
<1> QED BY <1>1, SpecIInv, PTL

-----------------------------------------------------------------------------
(* Relay implements Rendezvous. *)

LEMMA RejectRefines ==
  ASSUME NEW d, RejectDatagram(d)
  PROVE  R!Next
<1>1. R!Forget({})
  BY DEF RejectDatagram, R!Forget
<1> QED BY <1>1 DEF R!Next

LEMMA AddGroupRefines ==
  ASSUME NEW d \in Datagram, AddGroup(d)
  PROVE  R!Next
<1>1. R!Register(d.from)
  BY DEF AddGroup, R!Register
<1> QED BY <1>1 DEF R!Next, Datagram

LEMMA UpdateGroupRefines ==
  ASSUME ConstantsAssumption, IInv, NEW d \in Datagram, UpdateGroup(d)
  PROVE  R!Next
<1> DEFINE u == d.from.uid
           l == d.from.logo
           peer == addr[u][Opposite(l)]
<1>1. d.from \in Sender /\ u \in Uid /\ l \in Role /\ d.body \in Body
  BY SenderFields DEF UpdateGroup, Parses, Datagram
<1>2. Opposite(l) \in Role /\ Opposite(l) # l
  BY <1>1 DEF Opposite, Role
<1>3. heard' = heard \cup {d.from}
  BY DEF UpdateGroup
<1>4. out' = {} \/ (peer # NoAddr /\ out' = {Delivery(d, peer)})
  BY SendDataOut DEF UpdateGroup
<1>5. CASE out' = {}
  <2>1. R!Register(d.from)
    BY <1>3, <1>5 DEF R!Register
  <2> QED BY <2>1, <1>1 DEF R!Next
<1>6. CASE peer # NoAddr /\ out' = {Delivery(d, peer)}
  <2>1. PICK t \in heard : t.uid = u /\ t.logo = Opposite(l) /\ t.src = peer
    BY <1>6, <1>1, <1>2 DEF IInv, AddrHeard
  <2>2. R!Peers(d.from, t)
    BY <2>1, <1>2 DEF R!Peers
  <2>3. out' = {R!Delivery(d.from, t, d.body)}
    BY <1>6, <2>1 DEF Delivery, R!Delivery
  <2>4. R!Register(d.from)
    BY <1>1, <1>3, <2>1, <2>2, <2>3 DEF R!Register
  <2> QED BY <2>4, <1>1 DEF R!Next
<1> QED BY <1>4, <1>5, <1>6

\* The sweep forgets the sessions of the uids it erases.
LEMMA SweepRefines ==
  ASSUME IInv, timer_1000ms_cb
  PROVE  R!Next
<1> DEFINE gone == {s.uid : s \in Sender} \ groups'
<1>1. heard' = {s \in heard : s.uid \notin gone} /\ out' = {}
  BY DEF timer_1000ms_cb, IInv, TypeOK
<1>2. R!Forget(gone)
  BY <1>1 DEF R!Forget
<1>3. gone \in SUBSET {s.uid : s \in Sender}
  OBVIOUS
<1> QED BY <1>2, <1>3 DEF R!Next

LEMMA TickRefines ==
  ASSUME Tick
  PROVE  R!Next
<1>1. R!Forget({})
  BY DEF Tick, R!Forget
<1> QED BY <1>1 DEF R!Next

\* Every behaviour of the server, seen as who is registered and what is handed
\* over, is a behaviour of the rendezvous its clients are written against.
THEOREM RelayImplementsRendezvous == Spec => ImplementsRendezvous
<1>1. Init => R!Init
  BY DEF Init, R!Init
<1>2. IInv /\ [Next]_vars => [R!Next]_(R!vars)
  <2> SUFFICES ASSUME IInv, [Next]_vars
               PROVE  [R!Next]_(R!vars)
    OBVIOUS
  <2>1. ASSUME NEW d \in Datagram, udp_cb(d) PROVE R!Next
    BY <2>1, RejectRefines, AddGroupRefines, UpdateGroupRefines,
       ConstantsAssumption DEF udp_cb
  <2>2. CASE Tick
    BY <2>2, TickRefines
  <2>3. CASE timer_1000ms_cb
    BY <2>3, SweepRefines
  <2>4. CASE UNCHANGED vars
    BY <2>4 DEF vars, R!vars
  <2> QED BY <2>1, <2>2, <2>3, <2>4 DEF Next
<1> QED BY <1>1, <1>2, SpecIInv, PTL DEF Spec, ImplementsRendezvous, R!Spec

-----------------------------------------------------------------------------
(* The session *)

\* A group is no older than what the server last heard of a client in session.
\* SessionSurvives alone says nothing of ages, and a sweep would break it.
Fresh ==
  \A r \in Role : InSession(r) =>
    /\ Group \in groups /\ addr[Group][r] # NoAddr
    /\ age[Group] <= since[r]

ClientsOK == on \in [Role -> BOOLEAN] /\ since \in [Role -> Nat]

SInv == IInv /\ ClientsOK /\ Fresh

-----------------------------------------------------------------------------

\* Each datagram of this session carries its uid.
LEMMA OneGroup ==
  ASSUME SessionAssumption, NEW d \in Datagram
  PROVE  d.from.uid = Group
BY DEF SessionAssumption, Datagram

LEMMA InitSInv ==
  ASSUME ConstantsAssumption, SessionAssumption, SessionInit
  PROVE  SInv
<1>1. IInv
  BY InitIInv DEF SessionInit
<1>2. ClientsOK /\ Fresh
  BY DEF SessionInit, SessionAssumption, ClientsOK, Fresh, InSession
<1> QED BY <1>1, <1>2 DEF SInv

\* What leaves the relay as it is, but for what it sent last.
Quiet == UNCHANGED <<groups, addr, age, timer, heard>> /\ out' \in {out, {}}

LEMMA IdleIsQuiet == RelayIdle \/ UNCHANGED vars => Quiet
BY DEF RelayIdle, vars, Quiet

\* Nor is anybody newly in session.
LEMMA QuietSInv ==
  ASSUME SInv, Quiet, ClientsOK',
         \A r \in Role : InSession(r)' => InSession(r) /\ since'[r] = since[r]
  PROVE  SInv'
<1>1. IInv'
  BY DEF SInv, Quiet, IInv, TypeOK, AgePhase, AddrHeard, HeardOnFile, Isolation
<1>2. Fresh'
  BY DEF SInv, Fresh, Quiet
<1> QED BY <1>1, <1>2 DEF SInv

LEMMA ArriveSInv ==
  ASSUME ConstantsAssumption, SessionAssumption, SInv, NEW d \in Datagram, Arrive(d)
  PROVE  SInv'
<1> DEFINE l == d.from.logo
<1>1. /\ d.from.uid = Group /\ Group \in Uid /\ d.from.src # NoAddr
  BY OneGroup, SenderFields DEF Datagram, SessionAssumption, ConstantsAssumption
<1>2. /\ udp_cb(d) /\ on' = on
      /\ since' = IF Parses(d) /\ on[l] THEN [since EXCEPT ![l] = 0] ELSE since
  BY DEF Arrive, clientVars
<1>3. IInv'
  BY <1>2, NextIInv DEF Next, SInv
<1>4. ClientsOK'
  BY <1>2 DEF SInv, ClientsOK, Parses
<1>5. CASE RejectDatagram(d)
  <2>1. since' = since /\ groups' = groups /\ addr' = addr /\ age' = age
    BY <1>2, <1>5 DEF RejectDatagram
  <2> QED BY <1>2, <1>3, <1>4, <2>1 DEF SInv, Fresh, InSession
<1>6. CASE AddGroup(d) \/ UpdateGroup(d)
  <2>1. l \in Role /\ Parses(d)
    BY <1>6 DEF AddGroup, UpdateGroup, Parses
  <2>2. Group \in groups' /\ age'[Group] = 0 /\ addr'[Group][l] # NoAddr
    <3>1. CASE AddGroup(d)
      BY <1>1, <2>1, <3>1 DEF AddGroup, SInv, IInv, TypeOK, NoNets
    <3>2. CASE UpdateGroup(d)
      BY <1>1, <2>1, <3>2 DEF UpdateGroup, SInv, IInv, TypeOK
    <3> QED BY <1>6, <3>1, <3>2
  <2>3. ASSUME NEW r \in Role, r # l, InSession(r)'
        PROVE  addr'[Group][r] # NoAddr
    <3>1. InSession(r)
      BY <1>2, <2>1, <2>3 DEF InSession, SInv, ClientsOK
    <3>2. Group \in groups /\ addr[Group][r] # NoAddr
      BY <3>1 DEF SInv, Fresh
    <3>3. UpdateGroup(d)
      BY <1>1, <1>6, <3>2 DEF AddGroup
    <3> QED BY <1>1, <2>1, <2>3, <3>2, <3>3 DEF UpdateGroup, SInv, IInv, TypeOK
  <2>4. \A r \in Role : since'[r] \in Nat
    BY <1>4 DEF ClientsOK
  <2>5. Fresh'
    BY <2>2, <2>3, <2>4 DEF Fresh
  <2> QED BY <1>3, <1>4, <2>5 DEF SInv
<1> QED BY <1>2, <1>5, <1>6 DEF udp_cb

\* Time passes for the group and for its clients alike.
LEMMA PassSInv ==
  ASSUME ConstantsAssumption, SessionAssumption, SInv, Pass
  PROVE  SInv'
<1>1. /\ Tick /\ on' = on
      /\ since' = [r \in Role |-> IF InSession(r) THEN since[r] + 1 ELSE since[r]]
  BY DEF Pass, clientVars
<1>2. IInv'
  BY <1>1, TickIInv DEF SInv
<1>3. ClientsOK'
  BY <1>1 DEF SInv, ClientsOK
<1>4. Fresh'
  <2> SUFFICES ASSUME NEW r \in Role, InSession(r)'
               PROVE  /\ Group \in groups' /\ addr'[Group][r] # NoAddr
                      /\ age'[Group] <= since'[r]
    BY DEF Fresh
  <2>1. InSession(r) /\ since'[r] = since[r] + 1
    BY <1>1 DEF InSession
  <2>2. Group \in groups /\ addr[Group][r] # NoAddr /\ age[Group] <= since[r]
    BY <2>1 DEF SInv, Fresh
  <2>3. groups' = groups /\ addr' = addr /\ age'[Group] = age[Group] + 1
    BY <1>1, <2>2 DEF Tick, SessionAssumption
  <2>4. age[Group] \in Nat /\ since[r] \in Nat
    BY DEF SInv, IInv, TypeOK, ClientsOK, SessionAssumption
  <2> QED BY <2>1, <2>2, <2>3, <2>4
<1> QED BY <1>2, <1>3, <1>4 DEF SInv

\* The group of a client in session has not expired: Gap <= Timeout + 1.
LEMMA SweepSInv ==
  ASSUME ConstantsAssumption, SessionAssumption, SInv, Sweep
  PROVE  SInv'
<1>1. timer_1000ms_cb /\ on' = on /\ since' = since
  BY DEF Sweep, clientVars
<1>2. IInv'
  BY <1>1, SweepIInv DEF SInv
<1>3. Fresh'
  <2> SUFFICES ASSUME NEW r \in Role, InSession(r)'
               PROVE  /\ Group \in groups' /\ addr'[Group][r] # NoAddr
                      /\ age'[Group] <= since'[r]
    BY DEF Fresh
  <2>1. InSession(r) /\ since[r] < Gap
    BY <1>1 DEF InSession
  <2>2. Group \in groups /\ addr[Group][r] # NoAddr /\ age[Group] <= since[r]
    BY <2>1 DEF SInv, Fresh
  <2>3. age[Group] \in Nat /\ since[r] \in Nat /\ Group \in Uid
    BY DEF SInv, IInv, TypeOK, ClientsOK, SessionAssumption
  <2>4. ~Expired(Group)
    BY <2>1, <2>2, <2>3 DEF Expired, ConstantsAssumption, SessionAssumption
  <2>5. Group \in groups' /\ addr'[Group] = addr[Group] /\ age'[Group] = age[Group]
    BY <1>1, <2>2, <2>3, <2>4 DEF timer_1000ms_cb
  <2> QED BY <1>1, <2>2, <2>5
<1> QED BY <1>1, <1>2, <1>3 DEF SInv, ClientsOK

\* Nobody is in session with a server that has lost its groups.
LEMMA CrashSInv ==
  ASSUME ConstantsAssumption, SessionAssumption, SInv, Crash
  PROVE  SInv'
<1>1. IInv'
  BY DEF Crash, ConstantsAssumption, IInv, TypeOK, AgePhase, AddrHeard,
     HeardOnFile, Isolation, NoNets
<1>2. ClientsOK' /\ Fresh'
  BY DEF Crash, clientVars, SInv, ClientsOK, Fresh, InSession, SessionAssumption
<1> QED BY <1>1, <1>2 DEF SInv

LEMMA SwitchSInv ==
  ASSUME SessionAssumption, SInv, NEW r \in Role, Switch(r)
  PROVE  SInv'
<1>1. /\ Quiet
      /\ on' = [on EXCEPT ![r] = ~on[r]] /\ since' = [since EXCEPT ![r] = Gap]
  BY IdleIsQuiet DEF Switch
<1>2. ClientsOK'
  BY <1>1 DEF SInv, ClientsOK, SessionAssumption
<1>3. \A q \in Role : InSession(q)' => InSession(q) /\ since'[q] = since[q]
  BY <1>1 DEF SInv, ClientsOK, InSession, SessionAssumption
<1> QED BY <1>1, <1>2, <1>3, QuietSInv

LEMMA NextSInv ==
  ASSUME ConstantsAssumption, SessionAssumption, SInv, [SessionNext]_all
  PROVE  SInv'
<1>1. CASE (RelayIdle \/ UNCHANGED vars) /\ UNCHANGED <<on, since>>
  BY <1>1, IdleIsQuiet, QuietSInv DEF SInv, ClientsOK, InSession
<1>2. ASSUME NEW r \in Role, NEW b \in Body, ClientSends(r, b) PROVE SInv'
  BY <1>1, <1>2 DEF ClientSends, clientVars
<1>3. ASSUME NEW m \in down, Receive(m) PROVE SInv'
  BY <1>1, <1>3 DEF Receive, clientVars
<1>4. CASE Lose
  BY <1>1, <1>4 DEF Lose, clientVars
<1>5. ASSUME NEW r \in Role, Rebind(r) PROVE SInv'
  BY <1>1, <1>5 DEF Rebind
<1>6. CASE UdpServerBase \/ initUdpServer \/ startServer \/ main_returns
  BY <1>1, <1>6 DEF UdpServerBase, initUdpServer, startServer, main_returns,
     Phase, clientVars
<1>7. CASE UNCHANGED all
  BY <1>1, <1>7 DEF all, sessionVars, clientVars
<1> QED BY <1>2, <1>3, <1>4, <1>5, <1>6, <1>7, ArriveSInv, PassSInv, SweepSInv,
       CrashSInv, SwitchSInv DEF SessionNext

\* The inductive invariant; with it the safety of the relay (IInv) also holds
\* of one that crashes and is started again.
THEOREM SessionSInv == SessionSpec => []SInv
<1>1. SessionInit => SInv
  BY InitSInv, ConstantsAssumption, SessionAssumption
<1>2. SInv /\ [SessionNext]_all => SInv'
  BY NextSInv, ConstantsAssumption, SessionAssumption
<1> QED BY <1>1, <1>2, PTL DEF SessionSpec

\* A client heard from less than Gap ticks ago is on file, whatever the phase
\* of the sweep: Gap up to Timeout + 1 is all that heartbeats must achieve.
THEOREM SessionsSurvive == SessionSpec => []SessionSurvives
<1>1. SInv => SessionSurvives
  BY DEF SInv, Fresh, SessionSurvives
<1> QED BY <1>1, SessionSInv, PTL

\* No body crosses groups in a session with crashes, moves and duplicates.
THEOREM SessionIsolated == SessionSpec => []Isolation
<1>1. SInv => Isolation
  BY DEF SInv, IInv
<1> QED BY <1>1, SessionSInv, PTL

=============================================================================
