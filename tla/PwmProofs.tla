------------------------------ MODULE PwmProofs ------------------------------
(***************************************************************************)
(* The types of Pwm and SilentWhenOff, for every lag of the scheduler, any *)
(* number of steps in a period, any duties, any refresh interval and any   *)
(* setting back of the clock.                                              *)
(***************************************************************************)
EXTENDS Pwm, TLAPS

(***************************************************************************)
(* The types                                                               *)
(***************************************************************************)

\* What an instant can be: ahead of the clock only once that was set back,
\* behind it no further than its reader may lag.
Clocks ==
  /\ stale <= lag
  /\ backs = 1 => stale >= 0 /\ since >= 0 /\ held >= 0
  /\ pending # {} => held <= gap /\ gap <= Lag /\ calm = 0
  /\ ~begun => since = 0 /\ pc \in {"now", "index"}

TInv == TypeOK /\ Clocks

\* C's remainder on what can have elapsed.
LEMMA RemBounds ==
  ASSUME NEW a \in Int, NEW n \in Nat \ {0}
  PROVE  /\ Rem(a, n) \in Int
         /\ Rem(a, n) < n
         /\ Rem(a, n) >= 0 \/ Rem(a, n) >= a
<1>1. ASSUME NEW b \in Nat PROVE b % n \in Nat /\ b % n < n /\ b % n <= b
  <2>1. b % n \in 0 .. n - 1
    OBVIOUS
  <2>2. b % n <= b
    OBVIOUS
  <2> QED BY <2>1, <2>2
<1>2. CASE a >= 0
  <2>1. Rem(a, n) = a % n
    BY <1>2 DEF Rem
  <2> QED BY <1>1, <1>2, <2>1
<1>3. CASE a < 0
  <2>1. PICK b \in Nat : b = -a
    BY <1>3
  <2>2. Rem(a, n) = -(b % n)
    BY <1>3, <2>1 DEF Rem
  <2>3. PICK c \in Nat : c = b % n
    BY <1>1
  <2> QED BY <1>1, <2>1, <2>2, <2>3
<1> QED BY <1>2, <1>3

LEMMA IndexBounds ==
  ASSUME NEW s \in -MaxBack .. 2 * Arr + Lag, NEW t \in -MaxBack .. Lag
  PROVE  Index(s - t) \in -MaxBack - Lag .. Arr - 1
<1>1. s - t \in Int /\ s - t >= -MaxBack - Lag
  BY ConstantsAssumption DEF ConstantsAssumption
<1>2. Arr \in Nat \ {0} /\ MaxBack \in Nat /\ Lag \in Nat
  BY ConstantsAssumption DEF ConstantsAssumption
<1>3. LET i == Rem(s - t, Arr)
      IN  i \in Int /\ i < Arr /\ (i >= 0 \/ i >= s - t)
  BY <1>1, <1>2, RemBounds
<1> QED BY <1>1, <1>2, <1>3 DEF Index

LEMMA SettleIsNat == Settle \in Nat
BY ConstantsAssumption DEF ConstantsAssumption, Settle

LEMMA InitTInv == Init => TInv
<1> SUFFICES ASSUME Init PROVE TInv
    OBVIOUS
<1>1. /\ 0 \in -MaxBack .. 2 * Arr + Lag
      /\ 0 \in -MaxBack - Lag .. Arr - 1
      /\ 0 \in -MaxBack .. Lag
      /\ 0 \in 0 .. Lag /\ 0 \in Duties /\ Refresh \in 0 .. Refresh + Lag
  BY ConstantsAssumption DEF ConstantsAssumption
<1>2. TypeOK
  <2>1. /\ since \in -MaxBack .. 2 * Arr + Lag /\ index \in -MaxBack - Lag .. Arr - 1
        /\ stale \in -MaxBack .. Lag /\ held \in -MaxBack .. Lag
        /\ lag \in 0 .. Lag /\ gap \in 0 .. Refresh + Lag /\ ccr \in Duties /\ target \in Duties
    BY <1>1, Zenon DEF Init
  <2>2. backs \in 0 .. 1 /\ calm \in 0 .. Settle
    BY SettleIsNat DEF Init
  <2> QED BY <2>1, <2>2 DEF Init, TypeOK
<1>3. Clocks
  BY ConstantsAssumption DEF ConstantsAssumption, Init, Clocks
<1> QED BY <1>2, <1>3 DEF TInv

LEMMA SampleTInv == TInv /\ sample => TInv'
BY ConstantsAssumption DEF TInv, TypeOK, Clocks, sample, handleVars, setterVars

LEMMA TakeStateTInv == TInv /\ take_state => TInv'
<1> SUFFICES ASSUME TInv, take_state PROVE TInv'
    OBVIOUS
<1>1. Above \in BOOLEAN
  <2>1. index \in Int /\ ccr \in Int
    BY ConstantsAssumption DEF ConstantsAssumption, TInv, TypeOK
  <2> QED BY <2>1 DEF Above
<1>2. status' \in BOOLEAN /\ pc' \in {"drive", "now"}
  BY <1>1 DEF take_state, TInv, TypeOK
<1> QED BY <1>2 DEF TInv, TypeOK, Clocks, take_state, handleVars, setterVars, historyVars

LEMMA DriveTInv == TInv /\ drive => TInv'
BY ConstantsAssumption DEF TInv, TypeOK, Clocks, drive, handleVars, setterVars, historyVars

LEMMA StoreCcrTInv == TInv /\ store_ccr => TInv'
<1> SUFFICES ASSUME TInv, store_ccr PROVE TInv'
    OBVIOUS
<1>1. met' \in BOOLEAN
  BY DEF store_ccr
<1>2. calm' = 0 /\ calm' \in 0 .. Settle
  BY SettleIsNat DEF store_ccr
<1> QED BY ConstantsAssumption, <1>1, <1>2 DEF ConstantsAssumption, TInv, TypeOK, Clocks, store_ccr, runnerVars

LEMMA StoreBeginTInv == TInv /\ store_begin => TInv'
<1> SUFFICES ASSUME TInv, store_begin PROVE TInv'
    OBVIOUS
<1>1. met' \in BOOLEAN
  BY DEF store_begin
<1>2. calm' = 0 /\ calm' \in 0 .. Settle
  BY SettleIsNat DEF store_begin
<1> QED BY ConstantsAssumption, <1>1, <1>2 DEF ConstantsAssumption, TInv, TypeOK, Clocks, store_begin, runnerVars

LEMMA TickTInv == TInv /\ Tick => TInv'
<1> SUFFICES ASSUME TInv, Tick PROVE TInv'
    OBVIOUS
<1>1. /\ since' \in -MaxBack .. 2 * Arr + Lag
      /\ backs = 1 => since' >= 0
      /\ ~begun => since' = 0
  BY ConstantsAssumption DEF TInv, TypeOK, Clocks, Tick, Folded
<1>2. stale' \in -MaxBack .. Lag /\ lag' \in 0 .. Lag /\ stale' <= lag'
  BY ConstantsAssumption DEF TInv, TypeOK, Clocks, Tick
<1>3. calm' \in 0 .. Settle /\ (pending # {} => calm' = 0)
  <2>1. calm \in 0 .. Settle /\ (pending # {} => calm = 0)
    BY DEF TInv, TypeOK, Clocks
  <2>2. calm' = calm \/ (pending = {} /\ calm < Settle /\ calm' = calm + 1)
    BY DEF Tick
  <2> QED BY <2>1, <2>2, SettleIsNat
<1>4. /\ gap' \in 0 .. Refresh + Lag
      /\ held' \in -MaxBack .. Lag
      /\ pending # {} => held' <= gap' /\ gap' <= Lag
  BY ConstantsAssumption DEF TInv, TypeOK, Clocks, Tick
<1> QED BY <1>1, <1>2, <1>3, <1>4 DEF TInv, TypeOK, Clocks, Tick

LEMMA SetBackTInv == TInv /\ SetBack => TInv'
<1> SUFFICES ASSUME TInv, SetBack PROVE TInv'
    OBVIOUS
<1>1. met' \in BOOLEAN
  BY DEF SetBack
<1>2. calm' = 0 /\ calm' \in 0 .. Settle
  BY SettleIsNat DEF SetBack
<1> QED BY ConstantsAssumption, <1>1, <1>2 DEF ConstantsAssumption, TInv, TypeOK, Clocks, SetBack

LEMMA TakeIndexTInv == TInv /\ take_index => TInv'
<1> SUFFICES ASSUME TInv, take_index PROVE TInv'
    OBVIOUS
<1>1. since' \in -MaxBack .. 2 * Arr + Lag /\ (backs = 1 => since' >= 0)
  BY ConstantsAssumption DEF TInv, TypeOK, Clocks, take_index
<1>2. index' \in -MaxBack - Lag .. Arr - 1
  BY <1>1, IndexBounds DEF TInv, TypeOK, take_index
<1> QED BY ConstantsAssumption, SettleIsNat, <1>1, <1>2
        DEF TInv, TypeOK, Clocks, take_index, setterVars

LEMMA ChangeTInv == TInv /\ (\E c \in Duties : change_crr(c)) => TInv'
<1> SUFFICES ASSUME TInv, (\E c \in Duties : change_crr(c)) PROVE TInv'
    OBVIOUS
<1>1. met' \in BOOLEAN
  BY DEF change_crr
<1>2. calm' = 0 /\ calm' \in 0 .. Settle
  BY SettleIsNat DEF change_crr
<1> QED BY ConstantsAssumption, <1>1, <1>2 DEF ConstantsAssumption, TInv, TypeOK, Clocks, change_crr, handleVars, runnerVars

LEMMA NextTInv == TInv /\ [Next]_vars => TInv'
<1>1. TInv /\ UNCHANGED vars => TInv'
  BY DEF TInv, TypeOK, Clocks, vars
<1> QED
  BY <1>1, SampleTInv, TakeIndexTInv, TakeStateTInv, DriveTInv, ChangeTInv, StoreCcrTInv,
     StoreBeginTInv, TickTInv, SetBackTInv
  DEF Next, pwm_run_50hz, Stores

\* Every variable stays in the range that the code gives it; in particular no
\* instant leaves the two periods behind the clock, however late the scheduler.
THEOREM TypeCorrect == Spec => []TypeOK
<1>1. Spec => []TInv
  BY InitTInv, NextTInv, PTL DEF Spec
<1> QED BY <1>1, PTL DEF TInv

(***************************************************************************)
(* SilentWhenOff                                                           *)
(*                                                                         *)
(* A pass is fresh when it began after the last store: then its sample is  *)
(* not ahead of begin_microsecond, its index is the step of the period and *)
(* with ccr 0 it leaves status TRUE, and the pin LOW when it drives it.    *)
(* What was under way at the last store is over within Lag, the first      *)
(* fresh pass within another Lag.                                          *)
(***************************************************************************)

\* Where in the period the runner's sample was taken.
Elapsed == since - lag
Step == Elapsed % Arr

Fresh == calm > lag

CaughtUp == begun /\ calm > 0 => since >= 0
FreshSample == Fresh => stale = lag
NotBehind == begun /\ Fresh => Elapsed >= 0
IndexIsStep == begun /\ Fresh /\ pc \in {"state", "drive"} => index = Step
FirstPass == ~begun => ~met /\ calm <= lag + (IF pc = "index" THEN Lag ELSE 0)
MetIsFresh == met => begun /\ Fresh
StatusTells ==
  begun /\ pin = "HIGH" /\ ccr = 0 /\ ~status =>
    ~Fresh \/ (pc \in {"index", "state"} /\ calm <= lag + Lag)
MetPass == met /\ pin = "HIGH" /\ ccr = 0 => pc # "now" /\ Step = 0

SInv == /\ CaughtUp /\ FreshSample /\ NotBehind /\ IndexIsStep
        /\ FirstPass /\ MetIsFresh /\ StatusTells /\ MetPass

\* What of the types the proof needs.
Plain ==
  /\ Arr \in Nat /\ Arr > 1 /\ Lag \in Nat \ {0} /\ Settle = 2 * Lag + 1
  /\ since \in Int /\ index \in Int /\ ccr \in Nat /\ held \in Int
  /\ lag \in Nat /\ lag <= Lag /\ stale \in Int /\ calm \in Nat
  /\ status \in BOOLEAN /\ met \in BOOLEAN /\ begun \in BOOLEAN

LEMMA IsPlain == ASSUME TInv PROVE Plain
BY ConstantsAssumption, SettleIsNat
DEF ConstantsAssumption, TInv, TypeOK, Settle, Plain

\* C's remainder is the step once the sample is not ahead.
LEMMA StepRange == ASSUME Plain PROVE Step \in 0 .. Arr - 1
<1>1. \A a \in Int, n \in Nat \ {0} : a % n \in 0 .. n - 1
  OBVIOUS
<1> QED BY <1>1 DEF Plain, Step, Elapsed

\* A period less, and the remainder is the same.
LEMMA RemOfSum ==
  ASSUME NEW q \in Int, NEW n \in Nat \ {0}, NEW r \in 0 .. n - 1
  PROVE  (n * q + r) % n = r
OBVIOUS

LEMMA RemOfShift ==
  ASSUME NEW a \in Int, NEW n \in Nat \ {0}
  PROVE  (a - n) % n = a % n
<1> DEFINE q == a \div n
           r == a % n
<1>1. q \in Int /\ r \in 0 .. n - 1 /\ a = n * q + r
  OBVIOUS
<1> HIDE DEF q, r
<1>2. q - 1 \in Int /\ a - n = n * (q - 1) + r
  BY <1>1
<1>3. (n * (q - 1) + r) % n = r
  BY <1>1, <1>2, RemOfSum
<1> QED BY <1>2, <1>3 DEF r

\* Time changes the distances, not the step that was sampled.
LEMMA TickStep ==
  ASSUME TInv, SInv, Tick, begun
  PROVE  Elapsed >= 0 => Elapsed' >= 0 /\ Step' = Step
<1> USE IsPlain DEF Plain
<1>1. Elapsed \in Int /\ Arr \in Nat \ {0}
  BY DEF Elapsed
<1>2. Elapsed' = Elapsed \/ (Elapsed' = Elapsed - Arr /\ Elapsed + 1 >= 2 * Arr)
  BY DEF Elapsed, Tick, Folded
<1>3. (Elapsed - Arr) % Arr = Elapsed % Arr
  BY <1>1, RemOfShift
<1>4. Step' = Elapsed' % Arr
  BY DEF Step, Tick
<1> QED BY <1>1, <1>2, <1>3, <1>4 DEF Step

LEMMA SampleSInv ==
  ASSUME TInv, SInv, sample
  PROVE  SInv'
<1> USE IsPlain DEF Plain
<1>1. /\ pc = "now" /\ pc' = "index" /\ stale' = 0 /\ lag' = 0
      /\ UNCHANGED <<begun, since, ccr, status, pin, calm>>
      /\ met' = (met \/ (begun /\ calm > 0 /\ since % Arr = 0))
  BY DEF sample, handleVars, historyVars
<1>2. CaughtUp' /\ FreshSample' /\ NotBehind' /\ IndexIsStep'
  BY <1>1 DEF SInv, CaughtUp, FreshSample, NotBehind, IndexIsStep, Fresh, Elapsed
<1>3. FirstPass' /\ MetIsFresh'
  BY <1>1 DEF SInv, FirstPass, MetIsFresh, Fresh
<1>4. StatusTells'
  BY <1>1 DEF SInv, StatusTells, Fresh
<1>5. MetPass'
  <2>1. Elapsed' = since /\ Step' = since % Arr
    BY <1>1 DEF Elapsed, Step
  <2> QED BY <1>1, <2>1 DEF SInv, MetPass
<1> QED BY <1>2, <1>3, <1>4, <1>5 DEF SInv

LEMMA TakeIndexSInv ==
  ASSUME TInv, SInv, take_index
  PROVE  SInv'
<1> USE IsPlain DEF Plain
<1>1. /\ pc = "index" /\ pc' = "state" /\ begun' = TRUE
      /\ UNCHANGED <<ccr, status, pin, stale, lag>>
  BY DEF take_index
<1>2. CASE ~begun
  <2>1. calm' = 0 /\ met' = FALSE
    BY <1>2 DEF take_index
  <2> QED
    BY <1>1, <2>1 DEF SInv, CaughtUp, FreshSample, NotBehind, IndexIsStep, FirstPass, MetIsFresh,
                      StatusTells, MetPass, Fresh
<1>3. CASE begun
  <2>1. UNCHANGED <<begun, since, calm, met>> /\ index' = Rem(since - stale, Arr)
    BY <1>3 DEF take_index, Index
  <2>2. UNCHANGED <<Elapsed, Step, Fresh>>
    BY <1>1, <2>1 DEF Elapsed, Step, Fresh
  <2>3. Fresh => index' = Step
    BY <1>3, <2>1 DEF SInv, FreshSample, NotBehind, Elapsed, Step, Rem
  <2> QED
    BY <1>1, <1>3, <2>1, <2>2, <2>3
    DEF SInv, CaughtUp, FreshSample, NotBehind, IndexIsStep, FirstPass, MetIsFresh, StatusTells,
        MetPass
<1> QED BY <1>2, <1>3

LEMMA TakeStateSInv ==
  ASSUME TInv, SInv, take_state
  PROVE  SInv'
<1> USE IsPlain DEF Plain
<1>1. /\ pc = "state" /\ pc' \in {"drive", "now"} /\ begun
      /\ UNCHANGED <<begun, since, ccr, index, pin, stale, lag, calm, met>>
  BY DEF TInv, Clocks, take_state, handleVars, historyVars
<1>2. UNCHANGED <<Elapsed, Step, Fresh>>
  BY <1>1 DEF Elapsed, Step, Fresh
<1>3. CaughtUp' /\ FreshSample' /\ NotBehind' /\ IndexIsStep' /\ FirstPass' /\ MetIsFresh'
  BY <1>1, <1>2 DEF SInv, CaughtUp, FreshSample, NotBehind, IndexIsStep, FirstPass, MetIsFresh
<1>4. Fresh => index = Step /\ Step >= 0
  BY <1>1, StepRange DEF SInv, IndexIsStep
<1>5. StatusTells'
  <2>1. Fresh /\ ccr = 0 => status'
    BY <1>4 DEF take_state, Above
  <2> QED BY <1>1, <1>2, <2>1 DEF StatusTells
<1>6. MetPass'
  <2>1. Fresh /\ Step = 0 => pc' = "drive"
    BY <1>4 DEF take_state
  <2> QED BY <1>1, <1>2, <2>1 DEF SInv, MetIsFresh, MetPass
<1> QED BY <1>3, <1>5, <1>6 DEF SInv

LEMMA DriveSInv ==
  ASSUME TInv, SInv, drive
  PROVE  SInv'
<1> USE IsPlain DEF Plain
<1>1. /\ pc = "drive" /\ pc' = "now" /\ begun
      /\ UNCHANGED <<begun, since, ccr, index, status, stale, lag, calm, met>>
  BY DEF TInv, Clocks, drive, handleVars, historyVars
<1>2. UNCHANGED <<Elapsed, Step, Fresh>>
  BY <1>1 DEF Elapsed, Step, Fresh
<1>3. CaughtUp' /\ FreshSample' /\ NotBehind' /\ IndexIsStep' /\ FirstPass' /\ MetIsFresh'
  BY <1>1, <1>2 DEF SInv, CaughtUp, FreshSample, NotBehind, IndexIsStep, FirstPass, MetIsFresh
<1>4. Fresh /\ ccr = 0 => pin' = "LOW"
  BY <1>1, StepRange DEF SInv, IndexIsStep, drive, Above
<1> QED BY <1>1, <1>2, <1>3, <1>4 DEF SInv, MetIsFresh, StatusTells, MetPass

LEMMA ChangeSInv ==
  ASSUME TInv, SInv, NEW c \in Duties, change_crr(c)
  PROVE  SInv'
<1> USE IsPlain DEF Plain
<1>1. calm' = 0 /\ met' = FALSE /\ lag' = lag
  BY DEF change_crr, runnerVars
<1> QED BY <1>1 DEF SInv, CaughtUp, FreshSample, NotBehind, IndexIsStep, FirstPass, MetIsFresh,
                    StatusTells, MetPass, Fresh

LEMMA StoreCcrSInv ==
  ASSUME TInv, SInv, store_ccr
  PROVE  SInv'
<1> USE IsPlain DEF Plain
<1>1. calm' = 0 /\ met' = FALSE /\ lag' = lag
  BY DEF store_ccr, runnerVars
<1> QED BY <1>1 DEF SInv, CaughtUp, FreshSample, NotBehind, IndexIsStep, FirstPass, MetIsFresh,
                    StatusTells, MetPass, Fresh

LEMMA StoreBeginSInv ==
  ASSUME TInv, SInv, store_begin
  PROVE  SInv'
<1> USE IsPlain DEF Plain
<1>1. calm' = 0 /\ met' = FALSE /\ lag' = lag
  BY DEF store_begin, runnerVars
<1> QED BY <1>1 DEF SInv, CaughtUp, FreshSample, NotBehind, IndexIsStep, FirstPass, MetIsFresh,
                    StatusTells, MetPass, Fresh

LEMMA TickSInv ==
  ASSUME TInv, SInv, Tick
  PROVE  SInv'
<1> USE IsPlain DEF Plain
<1>1. /\ lag < Lag /\ lag' = lag + 1 /\ stale' = stale + 1
      /\ UNCHANGED <<begun, ccr, index, status, pin, pc, met>>
  BY DEF Tick
<1>2. calm' = calm \/ (since >= 0 /\ calm' = calm + 1)
  BY DEF Tick
<1>3. Fresh' => Fresh
  BY <1>1, <1>2 DEF Fresh
<1>4. begun /\ Fresh => Elapsed >= 0 /\ Elapsed' >= 0 /\ Step' = Step
  BY TickStep DEF SInv, NotBehind
<1>5. CaughtUp'
  BY <1>1, <1>2 DEF SInv, CaughtUp, Tick, Folded
<1>6. FreshSample' /\ NotBehind' /\ IndexIsStep'
  BY <1>1, <1>3, <1>4 DEF SInv, FreshSample, NotBehind, IndexIsStep
<1>7. FirstPass'
  BY <1>1, <1>2 DEF SInv, FirstPass
<1>8. MetIsFresh'
  <2>1. met => pending = {} /\ calm > lag /\ calm > 0 /\ begun
    BY DEF SInv, MetIsFresh, Fresh, TInv, Clocks
  <2>2. met => since >= 0
    BY <2>1 DEF SInv, CaughtUp
  <2>3. met => calm' = calm + 1 \/ (calm' = calm /\ calm >= Settle)
    BY <2>1, <2>2 DEF Tick
  <2>4. met => calm' > lag'
    BY <1>1, <2>1, <2>3
  <2>5. met' = met /\ begun' = begun
    BY <1>1
  <2> QED BY <2>1, <2>4, <2>5 DEF MetIsFresh, Fresh
<1>9. StatusTells'
  BY <1>1, <1>2, <1>3 DEF SInv, StatusTells
<1>10. MetPass'
  BY <1>1, <1>4 DEF SInv, MetIsFresh, MetPass
<1> QED BY <1>5, <1>6, <1>7, <1>8, <1>9, <1>10 DEF SInv

LEMMA SetBackSInv ==
  ASSUME TInv, SInv, SetBack
  PROVE  SInv'
<1> USE IsPlain DEF Plain
<1>1. calm' = 0 /\ met' = FALSE /\ lag' = lag
  BY DEF SetBack
<1> QED BY <1>1 DEF SInv, CaughtUp, FreshSample, NotBehind, IndexIsStep, FirstPass, MetIsFresh,
                    StatusTells, MetPass, Fresh

LEMMA NextSInv ==
  ASSUME TInv, SInv, [Next]_vars
  PROVE  SInv'
<1>1. ASSUME UNCHANGED vars PROVE SInv'
  BY <1>1
  DEF vars, SInv, CaughtUp, FreshSample, NotBehind, IndexIsStep, FirstPass, MetIsFresh, StatusTells,
      MetPass, Fresh, Elapsed, Step
<1> QED
  BY <1>1, SampleSInv, TakeIndexSInv, TakeStateSInv, DriveSInv, ChangeSInv, StoreCcrSInv,
     StoreBeginSInv, TickSInv, SetBackSInv
  DEF Next, pwm_run_50hz, Stores

LEMMA InitSInv == Init => SInv
BY ConstantsAssumption
DEF ConstantsAssumption, Init, SInv, CaughtUp, FreshSample, NotBehind, IndexIsStep, FirstPass,
    MetIsFresh, StatusTells, MetPass, Fresh

\* change_crr(handle, 0) silences the channel, however late the runner is and
\* whatever pass was under way: two samples after the last store, or after the
\* clock's catching up, a pin that is still HIGH belongs to a channel whose status
\* says LOW already, and a pass that meets step 0 sets it LOW for good.
THEOREM OffIsSilent == Spec => []SilentWhenOff
<1>1. ASSUME TInv, SInv PROVE SilentWhenOff
  <2> USE <1>1, IsPlain DEF Plain
  <2>1. SUFFICES ASSUME ccr = 0, calm > 2 * Lag, pin = "HIGH"
                 PROVE  status /\ (met => pc # "now")
    BY DEF SilentWhenOff
  <2>2. begun /\ Fresh
    BY <2>1 DEF SInv, FirstPass, Fresh
  <2>3. status
    BY <2>1, <2>2 DEF SInv, StatusTells
  <2>4. met => pc # "now"
    BY <2>1 DEF SInv, MetPass
  <2> QED BY <2>3, <2>4
<1>2. Init => TInv /\ SInv
  BY InitTInv, InitSInv
<1>3. TInv /\ SInv /\ [Next]_vars => (TInv /\ SInv)'
  BY NextTInv, NextSInv
<1> QED BY <1>1, <1>2, <1>3, PTL DEF Spec

=============================================================================
