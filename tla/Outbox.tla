------------------------------- MODULE Outbox -------------------------------
(***************************************************************************)
(* What an RcClient promises the program that embeds it: an outbox.        *)
(* Messages are put in at any time, session or no session.  While a        *)
(* session is open the whole outbox is flushed to the socket, oldest       *)
(* first, again and again; between sessions nothing is sent and nothing    *)
(* that was put in is lost.                                                *)
(***************************************************************************)
EXTENDS Sequences

CONSTANT Message

VARIABLES queue,  \* put in, not yet flushed
          sent,   \* everything ever handed to the socket
          open    \* a session is open

vars == <<queue, sent, open>>

Init == queue = <<>> /\ sent = <<>> /\ open = FALSE

Put(m) == queue' = Append(queue, m) /\ UNCHANGED <<sent, open>>

Flush ==
  /\ open
  /\ queue # <<>>
  /\ sent' = sent \o queue
  /\ queue' = <<>>
  /\ UNCHANGED open

Open == ~open /\ open' = TRUE /\ UNCHANGED <<queue, sent>>

Close == open /\ open' = FALSE /\ UNCHANGED <<queue, sent>>

Next == (\E m \in Message : Put(m)) \/ Flush \/ Open \/ Close

Safety == Init /\ [][Next]_vars

\* A session that stays open flushes what it holds.
Spec == Safety /\ WF_vars(Flush)

=============================================================================
