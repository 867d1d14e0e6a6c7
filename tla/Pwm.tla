--------------------------------- MODULE Pwm ---------------------------------
(***************************************************************************)
(* The software PWM of the rover, rasp-rc-client/pwm.cpp: one handle of    *)
(* PWM_MANAGE (handles share nothing but the sampled clock), used by       *)
(*                                                                         *)
(*   - the runner thread, pwm_run_50hz: samples the clock, derives the     *)
(*     step of the 20 ms period and drives the pin, pass after pass;       *)
(*   - the setter, StartDoCommandTask, which calls change_crr again every  *)
(*     5 ms while a command is effective.                                  *)
(*                                                                         *)
(* ccr and begin_microsecond are written without a lock while the runner   *)
(* reads begin_microsecond once and ccr twice.  The clock is gettimeofday, *)
(* which can be set back.                                                  *)
(*                                                                         *)
(* A tick is one step, 20 ms / arr.  Every point in time is kept as its    *)
(* distance to the present.                                                *)
(***************************************************************************)
EXTENDS Integers

CONSTANTS
  Arr,      \* steps of a period: 1000
  Duties,   \* what the setter asks for
  Refresh,  \* ticks between two calls of change_crr: 5 ms, Arr / 4
  Lag,      \* the scheduler: ticks between two samples of the runner, and
            \* ticks a call of change_crr may take
  MaxBack   \* how far the clock is set back, once

ASSUME ConstantsAssumption ==
  /\ Arr \in Nat /\ Arr > 1
  /\ Duties \subseteq 0 .. Arr /\ 0 \in Duties
  /\ Refresh \in Nat /\ Lag \in Nat \ {0}
  /\ MaxBack \in 0 .. Arr

VARIABLES
  begun,    \* begin_microsecond # 0
  since,    \* clock - begin_microsecond, folded into two periods
  ccr,
  index, status,
  pin,
  pc,       \* the runner's next access
  stale,    \* clock - now, the runner's sample
  lag,      \* ticks since that sample was taken
  pending,  \* stores of the running change_crr not yet visible
  target,   \* its argument
  held,     \* clock - the time it has read
  gap,      \* ticks since it was called, until it has returned and Refresh is over
  backs,    \* times the clock may still be set back
  calm,     \* history: ticks since a store, with begin_microsecond not ahead
  met       \* history: since then a sample has fallen into step 0 of the period

handleVars == <<begun, since, ccr>>
runnerVars == <<index, status, pin, pc, stale, lag>>
setterVars == <<pending, target, held, gap>>
vars == <<begun, since, ccr, index, status, pin, pc, stale, lag,
          pending, target, held, gap, backs, calm, met>>
historyVars == <<calm, met>>

Settle == 2 * Lag + 1   \* bound of calm

TypeOK ==
  /\ begun \in BOOLEAN
  /\ since \in -MaxBack .. 2 * Arr + Lag
  /\ ccr \in Duties
  /\ index \in -MaxBack - Lag .. Arr - 1
  /\ status \in BOOLEAN
  /\ pin \in {"LOW", "HIGH"}
  /\ pc \in {"now", "index", "state", "drive"}
  /\ stale \in -MaxBack .. Lag
  /\ lag \in 0 .. Lag
  /\ pending \subseteq {"ccr", "begin"}
  /\ target \in Duties
  /\ held \in -MaxBack .. Lag
  /\ gap \in 0 .. Refresh + Lag
  /\ backs \in 0 .. 1
  /\ calm \in 0 .. Settle
  /\ met \in BOOLEAN

\* add_pwm_handle, before the runner is started; nobody has set the pin.
Init ==
  /\ begun = FALSE /\ since = 0
  /\ ccr = 0
  /\ index = 0 /\ status = FALSE
  /\ pin \in {"LOW", "HIGH"}
  /\ pc = "now" /\ stale = 0 /\ lag = 0
  /\ pending = {} /\ target = 0 /\ held = 0 /\ gap = Refresh
  /\ backs = 1
  /\ calm = 0 /\ met = FALSE

-----------------------------------------------------------------------------
(* pwm_run_50hz *)

sample ==
  /\ pc = "now" /\ pc' = "index"
  /\ stale' = 0 /\ lag' = 0
  /\ met' = (met \/ (begun /\ calm > 0 /\ since % Arr = 0))
  /\ UNCHANGED <<handleVars, index, status, pin, setterVars, backs, calm>>

\* C's remainder: it has the sign of the dividend.
Rem(a, n) == IF a >= 0 THEN a % n ELSE -((-a) % n)

\* Mutant: the step is not reduced to the period.
IndexMutant(elapsed) == elapsed

Index(elapsed) == Rem(elapsed, Arr)

\* A first pass stores begin_microsecond; any store after the sample puts it
\* ahead of the sample.
take_index ==
  /\ pc = "index" /\ pc' = "state"
  /\ begun' = TRUE
  /\ since' = IF begun THEN since ELSE stale
  /\ index' = Index(since' - stale)
  /\ calm' = IF begun THEN calm ELSE 0
  /\ met' = (met /\ begun)
  /\ UNCHANGED <<ccr, status, pin, stale, lag, setterVars, backs>>

Above == index >= ccr

\* Mutant: the pin is driven on a change only.
take_stateMutant ==
  /\ pc = "state"
  /\ IF Above # status
       THEN status' = Above /\ pc' = "drive"
       ELSE status' = status /\ pc' = "now"
  /\ UNCHANGED <<handleVars, index, pin, stale, lag, setterVars, backs, historyVars>>

\* bool state = ...: the pin is driven on a change and at the period's start.
take_state ==
  /\ pc = "state"
  /\ IF Above # status \/ index = 0
       THEN status' = Above /\ pc' = "drive"
       ELSE status' = status /\ pc' = "now"
  /\ UNCHANGED <<handleVars, index, pin, stale, lag, setterVars, backs, historyVars>>

\* The comparison is made again, with ccr as it is by now.
drive ==
  /\ pc = "drive" /\ pc' = "now"
  /\ pin' = IF Above THEN "LOW" ELSE "HIGH"
  /\ UNCHANGED <<handleVars, index, status, stale, lag, setterVars, backs, historyVars>>

pwm_run_50hz == sample \/ take_index \/ take_state \/ drive

-----------------------------------------------------------------------------
(* change_crr: two stores, visible in either order *)

change_crr(c) ==
  /\ pending = {} /\ gap >= Refresh
  /\ pending' = {"ccr", "begin"}
  /\ target' = c
  /\ held' = 0
  /\ gap' = 0
  /\ calm' = 0 /\ met' = FALSE
  /\ UNCHANGED <<handleVars, runnerVars, backs>>

store_ccr ==
  /\ "ccr" \in pending
  /\ ccr' = target
  /\ pending' = pending \ {"ccr"}
  /\ calm' = 0 /\ met' = FALSE
  /\ UNCHANGED <<begun, since, runnerVars, target, held, gap, backs>>

store_begin ==
  /\ "begin" \in pending
  /\ begun' = TRUE
  /\ since' = held
  /\ pending' = pending \ {"begin"}
  /\ calm' = 0 /\ met' = FALSE
  /\ UNCHANGED <<ccr, runnerVars, target, held, gap, backs>>

Stores == store_ccr \/ store_begin

-----------------------------------------------------------------------------
(* The clock *)

\* Two whole periods behind look like one.
Folded(s) == IF s - lag >= 2 * Arr THEN s - Arr ELSE s

Tick ==
  /\ lag < Lag
  /\ pending # {} => gap < Lag
  /\ since' = IF begun THEN Folded(since + 1) ELSE since
  /\ stale' = stale + 1 /\ lag' = lag + 1
  /\ held' = IF "begin" \in pending THEN held + 1 ELSE 0
  /\ gap' = IF pending # {} \/ gap < Refresh THEN gap + 1 ELSE gap
  /\ calm' = IF pending = {} /\ since >= 0 /\ calm < Settle THEN calm + 1 ELSE calm
  /\ UNCHANGED <<begun, ccr, index, status, pin, pc, pending, target, backs, met>>

\* gettimeofday after somebody has set the time.
SetBack ==
  /\ backs > 0 /\ backs' = backs - 1
  /\ \E k \in 1 .. MaxBack :
       /\ since' = IF begun THEN since - k ELSE since
       /\ stale' = stale - k
       /\ held' = IF "begin" \in pending THEN held - k ELSE held
  /\ calm' = 0 /\ met' = FALSE
  /\ UNCHANGED <<begun, ccr, index, status, pin, pc, lag, pending, target, gap>>

Next ==
  \/ pwm_run_50hz
  \/ \E c \in Duties : change_crr(c)
  \/ Stores
  \/ Tick \/ SetBack

\* Time passes and both threads are scheduled; the setter need not call again.
Fairness == WF_vars(pwm_run_50hz) /\ WF_vars(Stores) /\ WF_vars(Tick)

Spec == Init /\ [][Next]_vars /\ Fairness

-----------------------------------------------------------------------------
(* Properties *)

\* change_crr(handle, 0) against a running pass: whatever that pass had read and
\* however late the runner is, two samples later, and as soon when the clock has
\* caught up after it was set back, the pin can still be HIGH only where status
\* says otherwise, and no more once a pass has met step 0 of the period and is
\* over.  (A runner that is preempted at each step 0 never meets one.)
SilentWhenOff ==
  ccr = 0 /\ pending = {} /\ calm > 2 * Lag /\ pin = "HIGH" =>
    status /\ (met => pc # "now")

\* A channel left alone at a duty that the runner cannot pass over, neither its
\* pulse nor its rest, is pulsed and rests again and again, whatever races and
\* clock changes came before.
Pulses ==
  <>[](pending = {} /\ ccr \in Lag .. Arr - Lag)
    => []<>(pin = "HIGH") /\ []<>(pin = "LOW")

\* main.cpp, "duty == 0~100": at duties below the whole period the pin is LOW
\* again and again, refreshed or not.
Rests == []<>(pin = "LOW")

\* pwm.h on ccr, "below it 1, above it 0": with two samples behind it since the
\* last store, a finished pass leaves the pin as index and ccr say.
PinFollowsCcr ==
  pc = "now" /\ pending = {} /\ calm > 2 * Lag =>
    (pin = "LOW" <=> index >= ccr)

=============================================================================
