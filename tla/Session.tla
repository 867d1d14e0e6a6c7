------------------------------- MODULE Session -------------------------------
(***************************************************************************)
(* One rover and one controller of the same group, the relay between them  *)
(* (Relay.tla), and the network: datagrams are lost, reordered, delayed    *)
(* and, within a budget, duplicated; a client changes its address behind a *)
(* NAT or is switched off; the server process dies and is started again.   *)
(*                                                                         *)
(* The clients are RcClient loops seen from outside: while a client is on, *)
(* it sends a datagram per timer_check_cb, its data or else a heartbeat.   *)
(* One assumption is made of the network: no Gap ticks pass without a      *)
(* datagram of a client in session reaching the server, and Gap ticks are  *)
(* at most the relay's Timeout and one.                                    *)
(***************************************************************************)
EXTENDS Relay

CONSTANTS
  Group,        \* the uid of the session
  Home,         \* Home[r]: the addresses role r can have
  First,        \* First[r]: the one it begins with
  Says,         \* Says[r]: the bodies role r sends
  Gap,          \* ticks between two arrivals from a client in session
  MaxTrouble    \* bound: rebinds, restarts, switches and duplicates together

ASSUME SessionAssumption ==
  /\ Group \in Uid
  /\ Home \in [Role -> SUBSET Endpoint]
  /\ First \in [Role -> Endpoint] /\ \A r \in Role : First[r] \in Home[r]
  /\ Says \in [Role -> SUBSET Body]
  /\ Gap \in Nat \ {0} /\ Gap <= Timeout + 1
  /\ MaxTrouble \in Nat
  /\ Sender = {[src |-> a, uid |-> Group, logo |-> r] :
                 a \in Endpoint, r \in Role}

VARIABLES
  up,       \* datagrams on their way to the server
  down,     \* what the server sent, on its way to an endpoint
  on,       \* on[r]: client r runs
  at,       \* at[r]: its address
  server,   \* where main of rc_server is: see "The server process"
  watched,  \* the descriptor its loop watches for udp_cb, made non-blocking:
            \* the bound "socket", "stdin" (descriptor 0) or "none"
  since,    \* since[r]: ticks since the server last heard it; Gap if it has
            \* not since it was switched on or the server was started
  trouble   \* budget left

clientVars == <<on, at>>
netVars == <<up, down>>
serverVars == <<server, watched>>
sessionVars == <<up, down, clientVars, serverVars, since, trouble>>

\* No handler of the relay runs, so nothing is given to sendto.
RelayIdle == out' = {} /\ UNCHANGED <<groups, addr, age, timer, heard>>

Hello(r, b) == [from |-> [src |-> at[r], uid |-> Group, logo |-> r], body |-> b]

SessionInit ==
  /\ Init
  /\ up = {} /\ down = {}
  /\ on = [r \in Role |-> FALSE]
  /\ at = First
  /\ server = "off" /\ watched = "none"
  /\ since = [r \in Role |-> Gap]
  /\ trouble = MaxTrouble

-----------------------------------------------------------------------------
(* Clients and network *)

\* RcClient, timer_check_cb: one datagram of the list, or the heartbeat.
ClientSends(r, b) ==
  /\ on[r]
  /\ b \in Says[r]
  /\ up' = up \cup {Hello(r, b)}
  /\ RelayIdle
  /\ UNCHANGED <<down, clientVars, serverVars, since, trouble>>

\* A client in session is one the server has heard of late.
InSession(r) == on[r] /\ since[r] < Gap

\* A datagram arrives; a duplicate may stay behind.
Arrive(d) ==
  /\ d \in up
  /\ server = "serving" /\ watched = "socket"
  /\ udp_cb(d)
  /\ \/ up' = up \ {d} /\ UNCHANGED trouble
     \/ trouble > 0 /\ trouble' = trouble - 1 /\ up' = up
  /\ down' = down \cup {[to |-> m.to, body |-> m.body] : m \in out'}
  /\ since' = IF Parses(d) /\ on[d.from.logo]
                THEN [since EXCEPT ![d.from.logo] = 0] ELSE since
  /\ UNCHANGED <<clientVars, serverVars>>

\* It reaches whoever has the address now.
Receive(m) ==
  /\ m \in down
  /\ down' = down \ {m}
  /\ RelayIdle
  /\ UNCHANGED <<up, clientVars, serverVars, since, trouble>>

\* Client r is the one that has it: udp_recv_cb gets the body.
Hears(r) == \E m \in down : on[r] /\ m.to = at[r] /\ Receive(m)

Lose ==
  /\ \/ \E d \in up : up' = up \ {d} /\ UNCHANGED down
     \/ \E m \in down : down' = down \ {m} /\ UNCHANGED up
  /\ RelayIdle
  /\ UNCHANGED <<clientVars, serverVars, since, trouble>>

-----------------------------------------------------------------------------
(* Trouble *)

Spend == trouble > 0 /\ trouble' = trouble - 1

\* A client starts or ends; only its end is trouble.
Switch(r) ==
  /\ on' = [on EXCEPT ![r] = ~on[r]]
  /\ since' = [since EXCEPT ![r] = Gap]
  /\ IF on[r] THEN Spend ELSE UNCHANGED trouble
  /\ RelayIdle
  /\ UNCHANGED <<netVars, at, serverVars>>

\* The NAT in front of a client gives it another address.
Rebind(r) ==
  /\ on[r]
  /\ \E a \in Home[r] \ {at[r]} : at' = [at EXCEPT ![r] = a]
  /\ Spend
  /\ RelayIdle
  /\ UNCHANGED <<netVars, on, serverVars, since>>

\* The process dies at any point of its life: the groups are in memory only.
Crash ==
  /\ server # "off"
  /\ server' = "off" /\ watched' = "none"
  /\ groups' = {}
  /\ addr' = [u \in Uid |-> NoNets]
  /\ age' = [u \in Uid |-> 0]
  /\ timer' = 0
  /\ out' = {}
  /\ heard' = {}
  /\ since' = [r \in Role |-> Gap]
  /\ Spend
  /\ UNCHANGED <<netVars, clientVars>>

-----------------------------------------------------------------------------
(* The server process: main of rc_server, with the UdpServerBase on its    *)
(* stack.  Whoever runs it runs it again when it has ended.                *)

Phase(from, to, fd) ==
  /\ server = from
  /\ server' = to
  /\ watched' = fd
  /\ RelayIdle
  /\ UNCHANGED <<netVars, clientVars, since, trouble>>

\* The constructor makes the loop and the buffer; setIpPort.
UdpServerBase == Phase("off", "built", "none")

\* getaddrinfo, socket, three options and bind, each of which may fail.  Either
\* way setNonBlocking, the line "initUdpServer OK" and ev_io_start follow, on
\* the ServerInfo's fd: the socket, or the 0 a failure has left there.
initUdpServer ==
  \/ Phase("built", "bound", "socket")
  \/ Phase("built", "refused", "stdin")

\* initUdpServer returned true: the timers and the thread that runs process.
startServer == Phase("bound", "serving", watched)

\* startServer returned false, which main does not look at: join finds no
\* thread and returns at once, main returns, the destructors run.  No loop ran,
\* so udp_cb was not called for standard input.
main_returns == Phase("refused", "off", "none")

-----------------------------------------------------------------------------
(* Time: Relay's, within the assumption on the network *)

Pass ==
  /\ server = "serving"
  /\ Tick
  /\ \A r \in Role : InSession(r) => since[r] + 1 < Gap
  /\ since' = [r \in Role |-> IF InSession(r) THEN since[r] + 1 ELSE since[r]]
  /\ UNCHANGED <<netVars, clientVars, serverVars, trouble>>

Sweep ==
  /\ server = "serving"
  /\ timer_1000ms_cb
  /\ UNCHANGED <<netVars, clientVars, serverVars, since, trouble>>

SessionNext ==
  \/ \E r \in Role, b \in Body : ClientSends(r, b)
  \/ \E d \in Datagram : Arrive(d)
  \/ \E m \in down : Receive(m)
  \/ Lose
  \/ \E r \in Role : Switch(r) \/ Rebind(r)
  \/ Crash
  \/ UdpServerBase \/ initUdpServer \/ startServer \/ main_returns
  \/ Pass \/ Sweep

all == <<vars, sessionVars>>

\* Data of client r gets through: it arrives and, if there is a peer, is sent on.
GetsThrough(r) ==
  \E b \in Says[r] \cap Data :
    Arrive(Hello(r, b)) /\ (addr[Group][Opposite(r)] # NoAddr => out' # {})

\* A client that is on keeps sending data; of what it sends again and again some
\* gets through again and again, so the server's sendto does not fail each time;
\* and what is sent again and again to a client's present address is received
\* there again and again.  The server is run again when it has ended, and does
\* not fail to bind for ever.
SessionFairness ==
  /\ WF_all(Sweep)
  /\ WF_all(UdpServerBase \/ initUdpServer \/ startServer \/ main_returns)
  /\ SF_all(Phase("built", "bound", "socket"))
  /\ \A r \in Role :
       /\ WF_all(\E b \in Says[r] \cap Data : ClientSends(r, b))
       /\ SF_all(GetsThrough(r))
       /\ SF_all(Hears(r))

SessionSpec ==
  SessionInit /\ [][SessionNext]_all /\ SessionFairness

-----------------------------------------------------------------------------
(* Properties *)

\* Heartbeats against timer_1000ms_cb: while a client is in session the relay
\* has its group and its role's address, through every sweep.
SessionSurvives ==
  \A r \in Role : InSession(r) => Group \in groups /\ addr[Group][r] # NoAddr

\* Whatever restarts, rebinds, expiries and late datagrams came before, two
\* clients that stay on hear from each other again and again, the rover from
\* the controller and the controller from the rover.
Heals ==
  <>[](\A r \in Role : on[r]) => \A r \in Role : []<><<Hears(r)>>_all

=============================================================================
