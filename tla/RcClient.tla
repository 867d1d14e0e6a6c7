------------------------------ MODULE RcClient ------------------------------
(***************************************************************************)
(* RcClient, the UDP client of rover and controllers (rasp-rc-client and   *)
(* client-libs hold the same file).  Three parties run it:                 *)
(*                                                                         *)
(*   - the owner, who calls set_*, thread_start, stop, join and the        *)
(*     destructor from one thread;                                         *)
(*   - senders, any threads (recv_callback included) that call send_data;  *)
(*   - the loop thread, process(): uv_run with a 10 ms timer_check_cb that *)
(*     empties send_list or else sends a heartbeat, then the closing tail. *)
(*                                                                         *)
(* "running" is a plain bool written by the owner and read by the loop; a  *)
(* store is visible at the next timer callback.  The result of             *)
(* uv_udp_try_send is ignored by the code, so "tried" records attempts.    *)
(***************************************************************************)
EXTENDS Naturals, Sequences

CONSTANTS
  Uid,        \* group ids the owner may choose
  MaxSends,   \* bound: calls of send_data
  Careful     \* TRUE: the owner stops only what thread_start said it started;
              \* FALSE: it follows README.md, which never looks at that result

ASSUME ConstantsAssumption ==
  /\ MaxSends \in Nat
  /\ Careful \in BOOLEAN
  /\ Uid # {}

Address == {"unset", "bad", "good"}   \* server_ip: "", unparsable, parsable

VARIABLES
  owner,     \* where the owner is
  up,        \* what the owner believes: a session is running
  server_ip,
  uid,
  running,
  joinable,  \* client_thread.joinable()
  loop,      \* where the loop thread is
  send_list,
  act,       \* what the last step did outside: socket or recv_callback
  accepted,  \* history: everything send_data was given
  tried      \* history: everything passed to uv_udp_try_send but heartbeats

ownerVars == <<owner, up, server_ip, uid, running, joinable>>
queueVars == <<send_list, accepted, tried>>
vars == <<owner, up, server_ip, uid, running, joinable, loop, send_list,
          act, accepted, tried>>

Message == [n : 1 .. MaxSends, uid : Uid]

TypeOK ==
  /\ owner \in {"ready", "stopping", "waiting", "aborted", "gone"}
  /\ up \in BOOLEAN
  /\ server_ip \in Address
  /\ uid \in Uid
  /\ running \in BOOLEAN
  /\ joinable \in BOOLEAN
  /\ loop \in {"none", "poll", "drain", "beat", "unwinding", "closing", "exited"}
  /\ send_list \in Seq(Message)
  /\ act \in {"none", "data", "heartbeat", "receive"}
  /\ accepted \in Seq(Message)
  /\ tried \in Seq(Message)

Init ==
  /\ owner = "ready"
  /\ up = FALSE
  /\ server_ip = "unset"
  /\ uid \in Uid
  /\ running = FALSE
  /\ joinable = FALSE
  /\ loop = "none"
  /\ send_list = <<>>
  /\ act = "none"
  /\ accepted = <<>>
  /\ tried = <<>>

-----------------------------------------------------------------------------
(* The owner *)

set_server_ip_port(ip) ==
  /\ owner = "ready"
  /\ server_ip' = ip
  /\ act' = "none"
  /\ UNCHANGED <<owner, up, uid, running, joinable, loop, queueVars>>

set_uid(u) ==
  /\ owner = "ready"
  /\ uid' = u
  /\ act' = "none"
  /\ UNCHANGED <<owner, up, server_ip, running, joinable, loop, queueVars>>

\* initUdp: an address that does not parse, or any socket call, can fail.
initUdp(ok) == ok => server_ip = "good"

\* When the owner calls thread_start: README.md sets an address first.
MayStart == owner = "ready" /\ ~up /\ (Careful \/ server_ip # "unset")

\* Mutant: a new session starts with an empty queue.
thread_startMutant(ok) ==
  /\ MayStart
  /\ initUdp(ok)
  /\ running' = (running \/ server_ip # "unset")
  /\ up' = (ok \/ ~Careful)
  /\ send_list' = <<>>
  /\ IF ok
       THEN /\ owner' = IF joinable THEN "aborted" ELSE owner
            /\ joinable' = TRUE
            /\ loop' = "poll"
       ELSE UNCHANGED <<owner, joinable, loop>>
  /\ act' = "none"
  /\ UNCHANGED <<server_ip, uid, accepted, tried>>

\* An unset address returns before anything is written.  A failing initUdp
\* leaves running TRUE and no thread.  Assigning to a joinable thread ends the
\* process.
thread_start(ok) ==
  /\ MayStart
  /\ initUdp(ok)
  /\ running' = (running \/ server_ip # "unset")
  /\ up' = (ok \/ ~Careful)
  /\ IF ok
       THEN /\ owner' = IF joinable THEN "aborted" ELSE owner
            /\ joinable' = TRUE
            /\ loop' = "poll"
       ELSE UNCHANGED <<owner, joinable, loop>>
  /\ act' = "none"
  /\ UNCHANGED <<server_ip, uid, queueVars>>

\* Mutant: stop only clears the flag, nobody joins the thread.
stopMutant ==
  /\ owner = "ready"
  /\ up
  /\ up' = FALSE
  /\ running' = FALSE
  /\ act' = "none"
  /\ UNCHANGED <<owner, server_ip, uid, joinable, loop, queueVars>>

\* Joining a thread that is not joinable throws, and nothing catches it.
stop ==
  /\ owner = "ready"
  /\ up
  /\ running' = FALSE
  /\ owner' = IF joinable THEN "stopping" ELSE "aborted"
  /\ act' = "none"
  /\ UNCHANGED <<up, server_ip, uid, joinable, loop, queueVars>>

join ==
  /\ owner = "ready"
  /\ joinable
  /\ owner' = "waiting"
  /\ act' = "none"
  /\ UNCHANGED <<up, server_ip, uid, running, joinable, loop, queueVars>>

\* Mutant: the owner detaches instead of waiting for the thread.
joinedMutant ==
  /\ owner \in {"stopping", "waiting"}
  /\ owner' = "ready"
  /\ up' = FALSE
  /\ joinable' = FALSE
  /\ act' = "none"
  /\ UNCHANGED <<server_ip, uid, running, loop, queueVars>>

\* client_thread.join() returns, in stop or in join.
joined ==
  /\ owner \in {"stopping", "waiting"}
  /\ loop = "exited"
  /\ owner' = "ready"
  /\ up' = FALSE
  /\ joinable' = FALSE
  /\ act' = "none"
  /\ UNCHANGED <<server_ip, uid, running, loop, queueVars>>

\* ~RcClient, with the members' destructors: a joinable thread ends the process.
destroy ==
  /\ owner = "ready"
  /\ ~up
  /\ owner' = IF joinable THEN "aborted" ELSE "gone"
  /\ act' = "none"
  /\ UNCHANGED <<up, server_ip, uid, running, joinable, loop, queueVars>>

Owner ==
  \/ \E ip \in Address : set_server_ip_port(ip)
  \/ \E u \in Uid : set_uid(u)
  \/ \E ok \in BOOLEAN : thread_start(ok)
  \/ stop \/ join \/ joined \/ destroy

-----------------------------------------------------------------------------
(* Senders: under send_list_mx, which timer_check_cb holds while draining. *)

Alive == owner \notin {"aborted", "gone"}

\* Mutant: the body is copied to src_data, not to src_data + 5, over the id.
SendBufferMutant == [n |-> Len(accepted) + 1, uid |-> "body bytes"]

\* The header is written from the uid of this moment; n only tells the calls
\* of send_data apart.
SendBuffer == [n |-> Len(accepted) + 1, uid |-> uid]

send_data ==
  /\ Alive
  /\ Len(accepted) < MaxSends
  /\ send_list' = Append(send_list, SendBuffer)
  /\ accepted' = Append(accepted, SendBuffer)
  /\ act' = "none"
  /\ UNCHANGED <<ownerVars, loop, tried>>

-----------------------------------------------------------------------------
(* The loop thread *)

\* Mutant: a stopped client returns from the callback without uv_stop.
timer_check_cbMutant ==
  /\ Alive
  /\ loop = "poll"
  /\ loop' = IF running THEN "drain" ELSE "poll"
  /\ act' = "none"
  /\ UNCHANGED <<ownerVars, queueVars>>

timer_check_cb ==
  /\ Alive
  /\ loop = "poll"
  /\ loop' = IF running THEN "drain" ELSE "unwinding"
  /\ act' = "none"
  /\ UNCHANGED <<ownerVars, queueVars>>

\* Mutant: one datagram per callback goes out, the rest is cleared.
drainMutant ==
  /\ Alive
  /\ loop = "drain"
  /\ IF send_list = <<>>
       THEN loop' = "beat" /\ act' = "none" /\ UNCHANGED <<tried, send_list>>
       ELSE /\ loop' = "poll"
            /\ act' = "data"
            /\ tried' = Append(tried, Head(send_list))
            /\ send_list' = <<>>
  /\ UNCHANGED <<ownerVars, accepted>>

\* The whole list, in order, in one critical section.
drain ==
  /\ Alive
  /\ loop = "drain"
  /\ IF send_list = <<>>
       THEN loop' = "beat" /\ act' = "none" /\ UNCHANGED <<tried, send_list>>
       ELSE /\ loop' = "poll"
            /\ act' = "data"
            /\ tried' = tried \o send_list
            /\ send_list' = <<>>
  /\ UNCHANGED <<ownerVars, accepted>>

\* After the unlock: a message queued just now still waits for the next tick.
heartbeat ==
  /\ Alive
  /\ loop = "beat"
  /\ loop' = "poll"
  /\ act' = "heartbeat"
  /\ UNCHANGED <<ownerVars, queueVars>>

\* udp_cb runs recv_callback, also in the iteration uv_stop has ended.
udp_cb ==
  /\ Alive
  /\ loop \in {"poll", "unwinding"}
  /\ act' = "receive"
  /\ UNCHANGED <<ownerVars, queueVars, loop>>

uv_run_returns ==
  /\ Alive
  /\ loop = "unwinding"
  /\ loop' = "closing"
  /\ act' = "none"
  /\ UNCHANGED <<ownerVars, queueVars>>

\* process after uv_run: close the handles, delete the loop, running = false.
process_tail ==
  /\ Alive
  /\ loop = "closing"
  /\ loop' = "exited"
  /\ running' = FALSE
  /\ act' = "none"
  /\ UNCHANGED <<owner, up, server_ip, uid, joinable, queueVars>>

\* The steps the loop thread takes by itself.
Loop == timer_check_cb \/ drain \/ heartbeat \/ uv_run_returns \/ process_tail

Next == Owner \/ send_data \/ Loop \/ udp_cb

\* The scheduler runs the loop thread and lets a joined thread be joined; the
\* owner, the senders and the network owe nothing.
Fairness == WF_vars(Loop) /\ WF_vars(joined)

Spec == Init /\ [][Next]_vars /\ Fairness

-----------------------------------------------------------------------------
(* Properties *)

\* send_list and timer_check_cb: whatever the threads do, sessions stop, fail
\* and start again, every message is passed to the socket at most once, in the
\* order of the send_data calls, with the uid of its call, and none is dropped
\* before it was tried.
Conservation == tried \o send_list = accepted

\* process and stop: socket and recv_callback are used only between a
\* successful thread_start and the return of stop.
QuietWhenStopped == act # "none" => joinable

\* thread_start, stop, ~RcClient: an owner who believes thread_start's result
\* never meets std::terminate.
NeverAborts == owner # "aborted"

\* stop returns: the loop sees the flag, unwinds and is joined.
StopReturns == owner = "stopping" ~> owner # "stopping"

\* RcClient is an outbox whose session is the life of client_thread.
O == INSTANCE Outbox WITH queue <- send_list, sent <- tried, open <- joinable

ImplementsOutbox == O!Spec

=============================================================================
