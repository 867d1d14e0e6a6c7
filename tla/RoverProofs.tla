----------------------------- MODULE RoverProofs -----------------------------
(***************************************************************************)
(* The dead man's handle, for any expiry and cap, any messages and any     *)
(* interleaving of the receiver with StartDoCommandTask; the outputs that  *)
(* say what is effective; and the types.                                   *)
(***************************************************************************)
EXTENDS Rover, SelectionProofs, TLAPS

Place == 1 .. Len(Order)
Counting == {"read", "write"}
Expiring == {"test", "clear"}

RoverOK ==
  /\ slice \in Slices
  /\ eff \in [Commands -> BOOLEAN]
  /\ count \in [Commands -> Nat]
  /\ pc \in Step
  /\ i \in Place /\ (pc \notin Counting \cup Expiring => i = 1)
  /\ reg \in Nat
  /\ stby \in BOOLEAN
  /\ calm \in Int /\ calm >= -1
  /\ \A s \in stores : s.f = "count" => s.v = 0

\* What the count of an effective command has reached: a tick for each calm
\* one, the running one included once it has been counted.
Reached(k) ==
  IF pc \in Expiring \/ (pc \in Counting /\ k < i) THEN calm + 1 ELSE calm

Aged(k) ==
  eff[Order[k]] =>
    /\ count[Order[k]] >= Reached(k)
    /\ calm <= Expire
    /\ pc = "write" /\ k = i => reg >= calm
    /\ pc \in Expiring /\ k < i => calm < Expire

AllAged == \A k \in Place : Aged(k)

\* Until standby is taken from the structs, it is the last tick's.
Standby ==
  stby => calm <= IF pc \in {"delay", "stby_g", "stby_b"} THEN Expire + 1 ELSE Expire

DInv == RoverOK /\ AllAged /\ Standby

-----------------------------------------------------------------------------

LEMMA Places ==
  ASSUME ConstantsAssumption, slice \in Slices
  PROVE  /\ Len(Order) \in Nat /\ Len(Order) >= 1
         /\ \A k \in Place : Order[k] \in Commands
         /\ \A c \in Commands : \E k \in Place : Order[k] = c
         /\ \A k, l \in Place : Order[k] = Order[l] => k = l
<1>1. CASE Commands = {"G", "B"}
  <2>1. Order = <<"G", "B">>
    BY <1>1 DEF Order
  <2>2. Place = 1 .. 2
    BY <2>1 DEF Place
  <2> QED BY <1>1, <2>1, <2>2 DEF Place
<1>2. CASE Commands = {"T", "N"}
  <2>1. Order = <<"T", "N">>
    BY <1>2 DEF Order
  <2>2. Place = 1 .. 2
    BY <2>1 DEF Place
  <2> QED BY <1>2, <2>1, <2>2 DEF Place
<1>3. CASE Commands = {"G", "T", "B", "N"}
  <2>1. Order = <<"G", "T", "B", "N">>
    <3>1. "N" \in Commands /\ "N" \notin {"G", "B"} /\ "G" \in Commands /\ "G" \notin {"T", "N"}
      BY <1>3
    <3> QED BY <3>1 DEF Order
  <2>2. Place = 1 .. 4
    BY <2>1 DEF Place
  <2> QED BY <1>3, <2>1, <2>2 DEF Place
<1> QED BY <1>1, <1>2, <1>3 DEF ConstantsAssumption, Commands

LEMMA InitDInv ==
  ASSUME ConstantsAssumption, Init
  PROVE  DInv
<1>1. slice \in Slices /\ Expire \in Nat
  BY DEF ConstantsAssumption, Init
<1>2. RoverOK
  <2>1. eff \in [Commands -> BOOLEAN] /\ count \in [Commands -> Nat]
    BY DEF Init
  <2>2. pc \in Step /\ pc \notin Counting \cup Expiring /\ i = 1 /\ reg = 0
    BY DEF Init, Step, Counting, Expiring
  <2>3. i \in Place
    BY <1>1, <2>2, Places DEF Place
  <2>4. stby \in BOOLEAN /\ calm = 0 /\ stores = {}
    BY DEF Init
  <2> QED BY <1>1, <2>1, <2>2, <2>3, <2>4 DEF RoverOK
<1>3. AllAged /\ Standby
  BY <1>1, Places DEF Init, AllAged, Aged, Standby
<1> QED BY <1>2, <1>3 DEF DInv

\* The receiver sets the clock of every command back.
LEMMA DisturbDInv ==
  ASSUME ConstantsAssumption, DInv, UNCHANGED <<slice, pc, i, reg, stby>>,
         calm' = Disturbed,
         eff' \in [Commands -> BOOLEAN], count' \in [Commands -> Nat],
         \A s \in stores' : s.f = "count" => s.v = 0
  PROVE  DInv'
<1> DEFINE Back(k) == Reached(k)'
<1>1. Expire \in Nat /\ calm' \in Int /\ calm' >= -1 /\ calm' <= 0
      /\ (pc # "delay" => calm' = -1)
  BY DEF ConstantsAssumption, Disturbed
<1>2. Order' = Order /\ Commands' = Commands /\ Place' = Place
  BY DEF Order, Commands, Place
<1>3. RoverOK'
  BY <1>1, <1>2 DEF DInv, RoverOK
<1>4. ASSUME NEW k \in Place
      PROVE  Aged(k)'
  <2>1. count'[Order[k]] \in Nat
    BY Places DEF DInv, RoverOK
  <2>2. Reached(k)' <= 0
    BY <1>1 DEF Reached, Expiring, Counting
  <2>3. Reached(k)' \in Int
    BY <1>1 DEF Reached
  <2>4. count'[Order[k]] >= Reached(k)'
    BY <2>1, <2>2, <2>3
  <2>5. pc = "write" => reg >= calm'
    BY <1>1 DEF DInv, RoverOK
  <2>6. pc \in Expiring => calm' < Expire
    BY <1>1 DEF Expiring
  <2> QED BY <1>1, <1>2, <2>4, <2>5, <2>6 DEF Aged
<1>5. Standby'
  BY <1>1 DEF Standby
<1> QED BY <1>2, <1>3, <1>4, <1>5 DEF DInv, AllAged

\* StartDoCommandTask up to the first count++.
LEMMA PassDInv ==
  ASSUME ConstantsAssumption, DInv,
         UNCHANGED <<slice, stores, fieldVars, i, reg, calmVars>>,
         pc \notin Counting \cup Expiring,
         pc' \in Step, pc' \notin {"write"} \cup Expiring,
         stby' \in BOOLEAN, Standby'
  PROVE  DInv'
<1>1. Order' = Order /\ Commands' = Commands /\ Place' = Place
      /\ UNCHANGED <<eff, count, calm, stores, slice, i, reg>>
  BY DEF Order, Commands, Place, fieldVars, calmVars
<1>2. i = 1 /\ Place \subseteq Int
  BY DEF DInv, RoverOK, Place
<1>3. RoverOK'
  BY <1>1, <1>2 DEF DInv, RoverOK
<1>4. ASSUME NEW k \in Place
      PROVE  Aged(k)'
  <2>1. ~(k < 1)
    BY DEF Place
  <2>2. Reached(k) = calm /\ Reached(k)' = calm
    BY <1>1, <1>2, <2>1 DEF Reached
  <2>3. Aged(k)
    BY DEF DInv, AllAged
  <2> QED BY <1>1, <1>2, <2>1, <2>2, <2>3 DEF Aged
<1> QED BY <1>1, <1>3, <1>4 DEF DInv, AllAged

\* What is read as effective is young.
LEMMA EfficientIsYoung ==
  ASSUME ConstantsAssumption, DInv, NEW c, Efficient(c)
  PROVE  calm <= Expire
<1>1. slice \in Slices /\ c \in Commands /\ eff[c]
  BY DEF DInv, RoverOK, Efficient
<1>2. PICK k \in Place : Order[k] = c
  BY <1>1, Places
<1> QED BY <1>1, <1>2 DEF DInv, AllAged, Aged

LEMMA StbyDInv ==
  ASSUME ConstantsAssumption, DInv, stby_g \/ stby_b, UNCHANGED slice
  PROVE  DInv'
<1>1. UNCHANGED calm
  BY DEF stby_g, stby_b, calmVars
<1>2. calm \in Int /\ Expire \in Nat /\ stby \in BOOLEAN
  BY DEF ConstantsAssumption, DInv, RoverOK
<1>3. Efficient("G") \/ Efficient("B") => calm <= Expire
  BY EfficientIsYoung
<1>4. Standby'
  <2>1. stby' /\ pc' # "stby_b" => calm <= Expire
    BY <1>3 DEF stby_g, stby_b, AtTo
  <2>2. stby' /\ pc' = "stby_b" => calm <= Expire + 1
    BY DEF stby_g, stby_b, AtTo, DInv, Standby
  <2>3. pc' \in {"stby_b", "go"}
    BY DEF stby_g, stby_b, AtTo
  <2> QED BY <1>1, <2>1, <2>2, <2>3 DEF Standby
<1>5. stby' \in BOOLEAN
  BY <1>2 DEF stby_g, stby_b, Efficient, DInv, RoverOK
<1>6. /\ pc \notin Counting \cup Expiring
      /\ pc' \in Step /\ pc' \notin {"write"} \cup Expiring
      /\ UNCHANGED <<stores, fieldVars, i, reg, calmVars>>
  BY DEF stby_g, stby_b, AtTo, Step, Counting, Expiring
<1> QED BY <1>4, <1>5, <1>6, PassDInv

\* The steps between keep standby.
LEMMA OutputDInv ==
  ASSUME ConstantsAssumption, DInv, UNCHANGED slice,
         wake \/ wheel_go \/ set_turn \/ wheel_back \/ set_turn_centre
  PROVE  DInv'
<1>1. UNCHANGED <<calm, stby>> /\ stby \in BOOLEAN
  BY DEF wake, wheel_go, set_turn, wheel_back, set_turn_centre, calmVars, outVars,
         DInv, RoverOK
<1>2. /\ pc \notin Counting \cup Expiring
      /\ pc' \in Step /\ pc' \notin {"write"} \cup Expiring
      /\ pc' \in {"delay", "stby_g", "stby_b"} <=> pc \in {"delay", "stby_g", "stby_b"}
      /\ UNCHANGED <<stores, fieldVars, i, reg, calmVars>>
  BY DEF wake, wheel_go, set_turn, wheel_back, set_turn_centre, AtTo,
         Step, Counting, Expiring
<1>3. Standby'
  BY <1>1, <1>2 DEF DInv, Standby
<1> QED BY <1>1, <1>2, <1>3, PassDInv

LEMMA ReadDInv ==
  ASSUME ConstantsAssumption, DInv, count_read, UNCHANGED slice
  PROVE  DInv'
<1>1. Order' = Order /\ Commands' = Commands /\ Place' = Place
      /\ UNCHANGED <<eff, count, calm, stores, slice, stby>>
  BY DEF Order, Commands, Place, fieldVars, calmVars, outVars, count_read
<1>2. /\ Expire \in Nat /\ CountCap \in Nat /\ Expire < CountCap
      /\ calm \in Int /\ calm >= -1 /\ i \in Place
      /\ \A k \in Place : Order[k] \in Commands /\ count[Order[k]] \in Nat
      /\ Len(Order) \in Nat /\ Len(Order) >= 1
  BY Places DEF ConstantsAssumption, DInv, RoverOK
<1>3. /\ pc = "read" /\ pc' \in {"read", "write", "test"}
      /\ i' \in Place /\ (pc' \notin Counting \cup Expiring => i' = 1)
      /\ reg' \in Nat
  BY <1>2 DEF count_read, NextCommand, Place, Counting, Expiring
<1>4. RoverOK'
  BY <1>1, <1>3 DEF DInv, RoverOK, Step
<1>5. ASSUME NEW k \in Place
      PROVE  Aged(k)'
  <2>1. k \in Int /\ i \in Int /\ count[Order[k]] \in Nat
    BY <1>2 DEF Place
  <2>2. SUFFICES ASSUME eff[Order[k]]
                 PROVE  /\ count[Order[k]] >= Reached(k)'
                        /\ calm <= Expire
                        /\ pc' = "write" /\ k = i' => reg' >= calm
                        /\ pc' \in Expiring /\ k < i' => calm < Expire
    BY <1>1 DEF Aged
  <2>3. calm <= Expire
        /\ count[Order[k]] >= IF k < i THEN calm + 1 ELSE calm
    BY <1>3, <2>2 DEF DInv, AllAged, Aged, Reached, Counting, Expiring
  <2>4. CASE count[Order[i]] < CountCap
    <3>1. pc' = "write" /\ i' = i /\ reg' = count[Order[i]]
      BY <2>4 DEF count_read
    <3> QED BY <1>1, <2>1, <2>3, <3>1 DEF Reached, Counting, Expiring
  <2>5. CASE ~(count[Order[i]] < CountCap)
    <3>1. NextCommand("read", "test")
      BY <2>5 DEF count_read
    <3>2. k = i => count[Order[k]] >= calm + 1
      BY <1>2, <2>3, <2>5
    <3>3. CASE i < Len(Order)
      <4>1. pc' = "read" /\ i' = i + 1
        BY <3>1, <3>3 DEF NextCommand
      <4> QED BY <1>1, <1>2, <2>1, <2>3, <3>2, <4>1 DEF Reached, Counting, Expiring
    <3>4. CASE ~(i < Len(Order))
      <4>1. pc' = "test" /\ i' = 1 /\ i = Len(Order)
        BY <1>2, <3>1, <3>4 DEF NextCommand, Place
      <4>2. k <= i /\ ~(k < 1)
        BY <1>2, <4>1 DEF Place
      <4> QED BY <1>1, <1>2, <2>1, <2>3, <3>2, <4>1, <4>2 DEF Reached, Counting, Expiring
    <3> QED BY <3>3, <3>4
  <2> QED BY <2>4, <2>5
<1>6. Standby'
  BY <1>1, <1>3 DEF DInv, Standby
<1> QED BY <1>1, <1>4, <1>5, <1>6 DEF DInv, AllAged

LEMMA WriteDInv ==
  ASSUME ConstantsAssumption, DInv, count_write, UNCHANGED slice
  PROVE  DInv'
<1>1. Order' = Order /\ Commands' = Commands /\ Place' = Place
      /\ UNCHANGED <<eff, calm, stores, slice, stby>>
  BY DEF Order, Commands, Place, calmVars, outVars, count_write
<1>2. /\ Expire \in Nat /\ calm \in Int /\ calm >= -1 /\ i \in Place /\ reg \in Nat
      /\ count \in [Commands -> Nat]
      /\ \A k \in Place : Order[k] \in Commands /\ count[Order[k]] \in Nat
      /\ \A k, l \in Place : Order[k] = Order[l] => k = l
      /\ Len(Order) \in Nat /\ Len(Order) >= 1
  BY Places DEF ConstantsAssumption, DInv, RoverOK
<1>3. /\ pc = "write" /\ pc' \in {"read", "test"}
      /\ i' \in Place /\ reg' = 0
  BY <1>2 DEF count_write, NextCommand, Place
<1>4. RoverOK'
  <2>1. count' \in [Commands -> Nat]
    BY <1>2 DEF count_write
  <2> QED BY <1>1, <1>3, <2>1 DEF DInv, RoverOK, Step, Counting, Expiring
<1>5. ASSUME NEW k \in Place
      PROVE  Aged(k)'
  <2>1. k \in Int /\ i \in Int /\ count[Order[k]] \in Nat
    BY <1>2 DEF Place
  <2>2. count'[Order[k]] = IF k = i THEN reg + 1 ELSE count[Order[k]]
    BY <1>2 DEF count_write
  <2>3. SUFFICES ASSUME eff[Order[k]]
                 PROVE  /\ count'[Order[k]] >= Reached(k)'
                        /\ calm <= Expire
                        /\ pc' \in Expiring => ~(k < i')
    BY <1>1, <1>3 DEF Aged
  <2>4. /\ calm <= Expire
        /\ k = i => reg >= calm
        /\ count[Order[k]] >= IF k < i THEN calm + 1 ELSE calm
    BY <1>3, <2>3 DEF DInv, AllAged, Aged, Reached, Counting, Expiring
  <2>5. NextCommand("read", "test")
    BY DEF count_write
  <2>6. CASE i < Len(Order)
    <3>1. pc' = "read" /\ i' = i + 1
      BY <2>5, <2>6 DEF NextCommand
    <3>2. count'[Order[k]] >= IF k < i + 1 THEN calm + 1 ELSE calm
      BY <1>2, <2>1, <2>2, <2>4
    <3> QED BY <1>1, <2>4, <3>1, <3>2 DEF Reached, Counting, Expiring
  <2>7. CASE ~(i < Len(Order))
    <3>1. pc' = "test" /\ i' = 1 /\ i = Len(Order)
      BY <1>2, <2>5, <2>7 DEF NextCommand, Place
    <3>2. k <= i /\ ~(k < 1)
      BY <1>2, <3>1 DEF Place
    <3>3. count'[Order[k]] >= calm + 1
      BY <1>2, <2>1, <2>2, <2>4, <3>2
    <3> QED BY <1>1, <2>4, <3>1, <3>2, <3>3 DEF Reached, Counting, Expiring
  <2> QED BY <2>6, <2>7
<1>6. Standby'
  BY <1>1, <1>3 DEF DInv, Standby
<1> QED BY <1>1, <1>4, <1>5, <1>6 DEF DInv, AllAged

\* A struct dealt with: it is not effective, or young enough for another tick.
LEMMA NextExpiryDInv ==
  ASSUME ConstantsAssumption, DInv, pc \in Expiring, NextExpiry,
         UNCHANGED <<slice, stores, count, reg, stby>>,
         eff' \in [Commands -> BOOLEAN],
         \A c \in Commands : eff'[c] => eff[c],
         eff'[Order[i]] => calm < Expire
  PROVE  DInv'
<1>1. Order' = Order /\ Commands' = Commands /\ Place' = Place
  BY DEF Order, Commands, Place
<1>2. /\ Expire \in Nat /\ calm \in Int /\ calm >= -1 /\ i \in Place
      /\ \A k \in Place : Order[k] \in Commands /\ count[Order[k]] \in Nat
      /\ Len(Order) \in Nat /\ Len(Order) >= 1
  BY Places DEF ConstantsAssumption, DInv, RoverOK
<1>3. ASSUME NEW k \in Place, eff'[Order[k]]
      PROVE  /\ count[Order[k]] >= calm + 1 /\ calm <= Expire
             /\ k <= i => calm < Expire
  <2>1. k \in Int /\ i \in Int
    BY <1>2 DEF Place
  <2>2. eff[Order[k]]
    BY <1>2, <1>3
  <2>3. /\ count[Order[k]] >= calm + 1 /\ calm <= Expire
        /\ k < i => calm < Expire
    BY <2>2 DEF DInv, AllAged, Aged, Reached
  <2> QED BY <1>3, <2>1, <2>3
<1>4. CASE i < Len(Order)
  <2>1. pc' = "test" /\ i' = i + 1 /\ UNCHANGED calm
    BY <1>4 DEF NextExpiry, calmVars
  <2>2. i' \in Place
    BY <1>2, <1>4, <2>1 DEF Place
  <2>3. RoverOK'
    BY <1>1, <2>1, <2>2 DEF DInv, RoverOK, Step, Expiring
  <2>4. ASSUME NEW k \in Place
        PROVE  Aged(k)'
    <3>1. k \in Int /\ i \in Int /\ (k < i + 1 <=> k <= i)
      BY <1>2 DEF Place
    <3> QED BY <1>1, <1>3, <2>1, <3>1 DEF Aged, Reached, Expiring
  <2>5. Standby'
    BY <2>1 DEF DInv, Standby, Expiring
  <2> QED BY <1>1, <2>3, <2>4, <2>5 DEF DInv, AllAged
<1>5. CASE ~(i < Len(Order))
  <2>1. pc' = "delay" /\ i' = 1 /\ i = Len(Order) /\ TickEnds
    BY <1>2, <1>5 DEF NextExpiry, ToDelay, Place
  <2>2. /\ calm' \in Int /\ calm' >= 0
        /\ calm' <= calm + 1 \/ calm' = 0
    BY <1>2, <2>1 DEF TickEnds
  <2>3. i' \in Place
    BY <1>2, <2>1 DEF Place
  <2>4. RoverOK'
    BY <1>1, <2>1, <2>2, <2>3 DEF DInv, RoverOK, Step, Expiring
  <2>5. ASSUME NEW k \in Place
        PROVE  Aged(k)'
    <3>1. k <= i /\ count[Order[k]] \in Nat
      BY <1>2, <2>1 DEF Place
    <3>2. eff'[Order[k]] => count[Order[k]] >= calm' /\ calm' <= Expire
      BY <1>2, <1>3, <2>2, <3>1
    <3> QED BY <1>1, <2>1, <3>2 DEF Aged, Reached, Expiring, Counting
  <2>6. Standby'
    <3>1. stby => calm <= Expire
      BY DEF DInv, Standby, Expiring
    <3>2. stby => calm' <= Expire + 1
      BY <1>2, <2>2, <3>1
    <3> QED BY <2>1, <3>2 DEF Standby
  <2> QED BY <1>1, <2>4, <2>5, <2>6 DEF DInv, AllAged
<1> QED BY <1>4, <1>5

LEMMA TestDInv ==
  ASSUME ConstantsAssumption, DInv, expire_test, UNCHANGED slice
  PROVE  DInv'
<1>1. Order' = Order /\ Commands' = Commands /\ Place' = Place
      /\ UNCHANGED <<eff, count, stores, slice, reg, stby>>
  BY DEF Order, Commands, Place, fieldVars, outVars, expire_test
<1>2. /\ Expire \in Nat /\ calm \in Int /\ i \in Place
      /\ Order[i] \in Commands /\ count[Order[i]] \in Nat /\ pc = "test"
  BY Places DEF ConstantsAssumption, DInv, RoverOK, expire_test
<1>3. CASE TooOld(Order[i])
  <2>1. pc' = "clear" /\ UNCHANGED <<i, calm>>
    BY <1>3 DEF expire_test, calmVars
  <2>2. RoverOK'
    BY <1>1, <2>1 DEF DInv, RoverOK, Step, Expiring
  <2>3. ASSUME NEW k \in Place
        PROVE  Aged(k)'
    BY <1>1, <1>2, <2>1 DEF DInv, AllAged, Aged, Reached, Expiring
  <2>4. Standby'
    BY <1>1, <1>2, <2>1 DEF DInv, Standby
  <2> QED BY <1>1, <2>2, <2>3, <2>4 DEF DInv, AllAged
<1>4. CASE ~TooOld(Order[i])
  <2>1. NextExpiry
    BY <1>4 DEF expire_test
  <2>2. eff[Order[i]] => count[Order[i]] >= calm + 1
    BY <1>2 DEF DInv, AllAged, Aged, Reached, Expiring
  <2>3. eff'[Order[i]] => calm < Expire
    BY <1>1, <1>2, <1>4, <2>2 DEF TooOld
  <2>4. eff' \in [Commands -> BOOLEAN]
    BY <1>1 DEF DInv, RoverOK
  <2> QED BY <1>1, <1>2, <2>1, <2>3, <2>4, NextExpiryDInv DEF Expiring
<1> QED BY <1>3, <1>4

LEMMA ClearDInv ==
  ASSUME ConstantsAssumption, DInv, expire_clear, UNCHANGED slice
  PROVE  DInv'
<1>1. /\ eff' = [eff EXCEPT ![Order[i]] = FALSE] /\ eff \in [Commands -> BOOLEAN]
      /\ pc \in Expiring /\ NextExpiry
      /\ UNCHANGED <<count, stores, slice, reg, stby>>
  BY DEF outVars, expire_clear, DInv, RoverOK, Expiring
<1>2. Order[i] \in Commands
  BY Places DEF DInv, RoverOK
<1>3. /\ eff' \in [Commands -> BOOLEAN]
      /\ \A c \in Commands : eff'[c] => eff[c]
      /\ ~eff'[Order[i]]
  BY <1>1, <1>2
<1> QED BY <1>1, <1>3, NextExpiryDInv

-----------------------------------------------------------------------------
(* The receiver *)

LEMMA ReceiverDInv ==
  ASSUME ConstantsAssumption, DInv, UNCHANGED slice,
         Receiver \/ \E m \in Messages : recv_callback(m)
  PROVE  DInv'
<1>1. CASE \E m \in Messages : recv_callback(m)
  <2>1. UNCHANGED <<stores, eff, proportion, count, pc, i, reg, stby>>
    BY <1>1 DEF recv_callback, outVars
  <2>2. calm' = calm \/ calm' = Disturbed
    BY <1>1 DEF recv_callback, calmVars
  <2>3. CASE calm' = calm
    <3>1. Order' = Order /\ Commands' = Commands /\ Place' = Place
      BY DEF Order, Commands, Place
    <3> QED BY <2>1, <2>3, <3>1 DEF DInv, RoverOK, AllAged, Aged, Reached, Standby
  <2>4. CASE calm' = Disturbed
    BY <2>1, <2>4, DisturbDInv DEF DInv, RoverOK
  <2> QED BY <2>2, <2>3, <2>4
<1>2. CASE parse_command
  <2>1. /\ UNCHANGED <<eff, count, pc, i, reg, stby>> /\ calm' = Disturbed
        /\ stores' = Stores(Head(rx))
    BY <1>2 DEF parse_command, outVars
  <2>2. \A s \in stores' : s.f = "count" => s.v = 0
    BY <2>1 DEF Stores
  <2> QED BY <2>1, <2>2, DisturbDInv DEF DInv, RoverOK
<1>3. ASSUME NEW s \in stores, store(s)
      PROVE  DInv'
  <2>1. /\ UNCHANGED <<pc, i, reg, stby>> /\ calm' = Disturbed
        /\ stores' \subseteq stores
    BY <1>3 DEF store, outVars
  <2>2. eff \in [Commands -> BOOLEAN] /\ count \in [Commands -> Nat]
        /\ (s.f = "count" => s.v = 0)
    BY DEF DInv, RoverOK
  <2>3. eff' \in [Commands -> BOOLEAN]
    BY <1>3, <2>2 DEF store
  <2>4. count' \in [Commands -> Nat]
    <3>1. count' = count \/ (s.f = "count" /\ count' = [count EXCEPT ![s.c] = s.v])
      BY <1>3 DEF store
    <3> QED BY <2>2, <3>1
  <2> QED BY <2>1, <2>3, <2>4, DisturbDInv DEF DInv, RoverOK
<1> QED BY <1>1, <1>2, <1>3 DEF Receiver

-----------------------------------------------------------------------------

LEMMA NextDInv ==
  ASSUME ConstantsAssumption, DInv, [Next]_<<vars, slice>>
  PROVE  DInv'
<1>1. CASE Next
  <2>1. UNCHANGED slice
    BY <1>1 DEF Next
  <2>2. CASE Receiver \/ \E m \in Messages : recv_callback(m)
    BY <2>1, <2>2, ReceiverDInv
  <2>3. CASE StartDoCommandTask
    BY <2>1, <2>3, StbyDInv, OutputDInv, ReadDInv, WriteDInv, TestDInv, ClearDInv
       DEF StartDoCommandTask
  <2> QED BY <1>1, <2>2, <2>3 DEF Next
<1>2. CASE UNCHANGED <<vars, slice>>
  <2>1. UNCHANGED <<slice, stores, eff, count, pc, i, reg, stby, calm>>
    BY <1>2 DEF vars
  <2>2. Order' = Order /\ Commands' = Commands /\ Place' = Place
    BY <2>1 DEF Order, Commands, Place
  <2> QED BY <2>1, <2>2 DEF DInv, RoverOK, AllAged, Aged, Reached, Standby
<1> QED BY <1>1, <1>2

\* StartDoCommandTask's expiry: whatever was stored late, out of order or lost
\* to count++, Expire + 1 ticks after the last store the motor driver is in
\* standby.
THEOREM MotorsStandBy == Spec => []DeadMan
<1>1. ConstantsAssumption
  BY ConstantsAssumption
<1>2. Init => DInv
  BY <1>1, InitDInv
<1>3. DInv /\ [Next]_<<vars, slice>> => DInv'
  BY <1>1, NextDInv
<1>4. DInv => DeadMan
  <2> SUFFICES ASSUME DInv, stby PROVE calm <= Expire + 1
    BY DEF DeadMan
  <2>1. Expire \in Nat /\ calm \in Int
    BY <1>1 DEF ConstantsAssumption, DInv, RoverOK
  <2> QED BY <2>1 DEF DInv, Standby
<1> QED BY <1>2, <1>3, <1>4, PTL DEF Spec

-----------------------------------------------------------------------------
(* The outputs say what the effective commands say *)

SetOf(c) == [f |-> "eff", c |-> c, v |-> 1]
ClearOf(c) == [f |-> "eff", c |-> c, v |-> 0]

\* Two opposite commands are effective only while the store that ends one of
\* them is on its way.
Exclusive ==
  /\ \A s \in stores : s.f = "eff" => s \in {SetOf(s.c), ClearOf(s.c)}
  /\ \A c \in Commands :
       /\ eff[c] /\ eff[Opposite(c)] =>
            ClearOf(c) \in stores \/ ClearOf(Opposite(c)) \in stores
       /\ SetOf(c) \in stores =>
            /\ SetOf(Opposite(c)) \notin stores
            /\ eff[Opposite(c)] => ClearOf(Opposite(c)) \in stores

\* A tick no store falls into keeps all stores out of it, the waiting ones too.
Undisturbed == calm >= 0 /\ stores = {}
Waiting == pc = "delay" /\ stores # {} => calm <= 0

\* The outputs of an undisturbed tick hold at these steps, and until the next.
PastCentre == {"read", "write", "test", "clear"}
PastBack == {"centre"} \cup PastCentre
PastTurn == {"back"} \cup PastBack
PastGo == {"turn"} \cup PastTurn
PastStby == {"go"} \cup PastGo
In(S) == pc \in S \/ (pc = "delay" /\ calm >= 1)

DriveShown == Efficient("G") \/ Efficient("B") => stby
GoShown == Efficient("G") => dir = "go" /\ duty = Compare(proportion["G"])
BackShown == Efficient("B") => dir = "back" /\ duty = Compare(proportion["B"])
TurnShown == Efficient("T") => turn = TurnCompare(proportion["T"])
CentreShown == Efficient("N") => turn \in {Centre, Off}

Shown ==
  Undisturbed =>
    /\ pc = "stby_b" => ~Efficient("G")
    /\ In(PastStby) => DriveShown
    /\ In(PastGo) => GoShown
    /\ In(PastTurn) => TurnShown
    /\ In(PastBack) => BackShown
    /\ In(PastCentre) => CentreShown

AInv == Exclusive /\ Waiting /\ Shown

LEMMA Opposites ==
  ASSUME ConstantsAssumption, slice \in Slices
  PROVE  \A c \in Commands : /\ Opposite(c) \in Commands /\ Opposite(c) # c
                             /\ Opposite(Opposite(c)) = c
<1>1. Commands \in {{"G", "B"}, {"T", "N"}, {"G", "T", "B", "N"}}
  BY DEF ConstantsAssumption, Commands
<1>2. /\ Opposite("G") = "B" /\ Opposite("B") = "G"
      /\ Opposite("T") = "N" /\ Opposite("N") = "T"
  BY DEF Opposite
<1> QED BY <1>1, <1>2

LEMMA InitAInv ==
  ASSUME Init
  PROVE  AInv
BY DEF Init, AInv, Exclusive, Waiting, Shown, In, PastStby, PastGo, PastTurn,
       PastBack, PastCentre

\* With no store pending at most one of two opposites is effective.
LEMMA OneOfTwo ==
  ASSUME ConstantsAssumption, RoverOK, Exclusive, stores = {}
  PROVE  /\ ~(Efficient("G") /\ Efficient("B"))
         /\ ~(Efficient("T") /\ Efficient("N"))
<1>1. Opposite("G") = "B" /\ Opposite("T") = "N"
  BY DEF Opposite
<1> QED BY <1>1 DEF Exclusive, Efficient

\* Nothing but the receiver stores, and it makes no command effective besides.
LEMMA TaskExclusive ==
  ASSUME ConstantsAssumption, RoverOK, Exclusive, StartDoCommandTask,
         UNCHANGED slice
  PROVE  Exclusive' /\ UNCHANGED stores /\ (eff' = eff \/ expire_clear)
<1>1. UNCHANGED stores
  BY DEF StartDoCommandTask, wake, stby_g, stby_b, wheel_go, set_turn, wheel_back,
         set_turn_centre, count_read, count_write, expire_test, expire_clear
<1>2. eff' = eff \/ expire_clear
  BY DEF StartDoCommandTask, wake, stby_g, stby_b, wheel_go, set_turn, wheel_back,
         set_turn_centre, count_read, count_write, expire_test, fieldVars
<1>3. Commands' = Commands
  BY DEF Commands
<1>4. \A c \in Commands : eff'[c] => eff[c]
  BY <1>2, Places DEF expire_clear, RoverOK
<1>5. \A c \in Commands : Opposite(c) \in Commands
  BY Opposites DEF RoverOK
<1> QED BY <1>1, <1>2, <1>3, <1>4, <1>5 DEF Exclusive

LEMMA ReceiverExclusive ==
  ASSUME ConstantsAssumption, RoverOK, Exclusive, UNCHANGED slice,
         Receiver \/ \E m \in Messages : recv_callback(m)
  PROVE  Exclusive'
<1>1. Commands' = Commands
  BY DEF Commands
<1>2. \A c \in Commands : /\ Opposite(c) \in Commands /\ Opposite(c) # c
                          /\ Opposite(Opposite(c)) = c
  BY Opposites DEF RoverOK
<1>3. CASE \E m \in Messages : recv_callback(m)
  BY <1>1, <1>3 DEF recv_callback, Exclusive
<1>4. CASE parse_command
  <2> DEFINE p == Head(rx)
  <2>1. stores' = Stores(p) /\ UNCHANGED eff
    BY <1>4 DEF parse_command
  <2> HIDE DEF p
  <2>2. \A s \in stores' : s.f = "eff" => s \in {SetOf(s.c), ClearOf(s.c)}
    BY <2>1 DEF Stores, SetOf, ClearOf
  <2>3. ClearOf(Opposite(p.c)) \in stores' /\ SetOf(p.c) \in stores'
    BY <2>1 DEF Stores, SetOf, ClearOf
  <2>4. \A c : SetOf(c) \in stores' => c = p.c
    BY <2>1 DEF Stores, SetOf
  <2>5. stores = {}
    BY <1>4 DEF parse_command
  <2>6. \A c \in Commands : ~(eff'[c] /\ eff'[Opposite(c)])
    BY <2>1, <2>5 DEF Exclusive
  <2> QED BY <1>1, <1>2, <2>2, <2>3, <2>4, <2>6 DEF Exclusive
<1>5. ASSUME NEW s \in stores, store(s)
      PROVE  Exclusive'
  <2>1. stores' = stores \ {s} /\ eff \in [Commands -> BOOLEAN]
    BY <1>5 DEF store, RoverOK
  <2>2. CASE s.f # "eff"
    <3>1. UNCHANGED eff
      BY <1>5, <2>2 DEF store
    <3>2. \A c : ClearOf(c) # s
      BY <2>2 DEF ClearOf
    <3> QED BY <1>1, <1>2, <2>1, <3>1, <3>2 DEF Exclusive
  <2>3. CASE s = SetOf(s.c)
    <3>0. s.f = "eff" /\ (s.v = 1) = TRUE
      BY <2>3 DEF SetOf
    <3>1. eff' = [eff EXCEPT ![s.c] = TRUE]
      <4>1. eff' = [eff EXCEPT ![s.c] = (s.v = 1)]
        BY <1>5, <3>0 DEF store
      <4> QED BY <3>0, <4>1
    <3>2. \A c : ClearOf(c) # s
      BY <2>3 DEF ClearOf, SetOf
    <3>3. \A c \in Commands : c # s.c => eff'[c] = eff[c]
      BY <2>1, <3>1
    <3> QED BY <1>1, <1>2, <2>1, <2>3, <3>1, <3>2, <3>3 DEF Exclusive
  <2>4. CASE s = ClearOf(s.c)
    <3>0. s.f = "eff" /\ (s.v = 1) = FALSE
      BY <2>4 DEF ClearOf
    <3>1. eff' = [eff EXCEPT ![s.c] = FALSE]
      <4>1. eff' = [eff EXCEPT ![s.c] = (s.v = 1)]
        BY <1>5, <3>0 DEF store
      <4> QED BY <3>0, <4>1
    <3>2. \A c : c # s.c => ClearOf(c) # s
      BY DEF ClearOf
    <3>3. \A c \in Commands : eff'[c] = IF c = s.c THEN FALSE ELSE eff[c]
      BY <2>1, <3>1
    <3> QED BY <1>1, <1>2, <2>1, <2>4, <3>2, <3>3 DEF Exclusive
  <2> QED BY <2>2, <2>3, <2>4 DEF Exclusive
<1> QED BY <1>3, <1>4, <1>5 DEF Receiver

\* Outputs and effects are read off the same variables in both states.
LEMMA SameShown ==
  ASSUME UNCHANGED <<slice, proportion, outVars>>,
         \A c : Efficient(c)' => Efficient(c)
  PROVE  /\ DriveShown => DriveShown'
         /\ GoShown => GoShown'
         /\ BackShown => BackShown'
         /\ TurnShown => TurnShown'
         /\ CentreShown => CentreShown'
BY DEF outVars, DriveShown, GoShown, BackShown, TurnShown, CentreShown, Off

LEMMA ReceiverShown ==
  ASSUME ConstantsAssumption, DInv, AInv, UNCHANGED slice,
         Receiver \/ \E m \in Messages : recv_callback(m)
  PROVE  Waiting' /\ Shown'
<1>1. \/ /\ UNCHANGED <<pc, proportion, outVars, eff>> /\ stores' = stores
         /\ calm' \in {calm, Disturbed}
      \/ UNCHANGED pc /\ calm' = Disturbed
  BY DEF Receiver, parse_command, store, recv_callback, calmVars
<1>2. CASE UNCHANGED <<pc, proportion, outVars, eff>> /\ stores' = stores /\ calm' = calm
  <2>1. \A c : Efficient(c)' <=> Efficient(c)
    BY <1>2 DEF Efficient, Commands
  <2>2. /\ DriveShown => DriveShown'
        /\ GoShown => GoShown'
        /\ BackShown => BackShown'
        /\ TurnShown => TurnShown'
        /\ CentreShown => CentreShown'
    BY <1>2, <2>1, SameShown
  <2> QED BY <1>2, <2>1, <2>2 DEF AInv, Waiting, Shown, Undisturbed, In
<1>3. CASE UNCHANGED pc /\ calm' = Disturbed
  <2>1. \/ pc = "delay" /\ calm' = 0
        \/ pc # "delay" /\ calm' = -1
    BY <1>3 DEF Disturbed
  <2> QED BY <1>3, <2>1 DEF Waiting, Shown, Undisturbed, In, PastStby, PastGo,
             PastTurn, PastBack, PastCentre
<1> QED BY <1>1, <1>2, <1>3

\* Up to standby nothing of this tick is shown.
LEMMA StbyShown ==
  ASSUME ConstantsAssumption, DInv, AInv, UNCHANGED slice,
         wake \/ stby_g \/ stby_b
  PROVE  Waiting' /\ Shown'
<1>1. /\ UNCHANGED <<stores, eff, proportion, calm>>
      /\ pc' \in {"stby_g", "stby_b", "go"}
      /\ \A c : Efficient(c)' <=> Efficient(c)
  BY DEF wake, stby_g, stby_b, AtTo, fieldVars, calmVars, Efficient, Commands
<1>2. ~In(PastGo)' /\ ~In(PastTurn)' /\ ~In(PastBack)' /\ ~In(PastCentre)'
  BY <1>1 DEF In, PastGo, PastTurn, PastBack, PastCentre
<1>3. In(PastStby)' => pc' = "go"
  BY <1>1, <1>2 DEF In, PastStby
<1>4. pc' = "stby_b" => ~Efficient("G")
  BY DEF wake, stby_g, stby_b, AtTo
<1>5. Undisturbed /\ pc' = "go" => DriveShown'
  <2>1. CASE stby_g
    BY <1>1, <2>1 DEF stby_g, DriveShown
  <2>2. CASE stby_b
    <3>1. pc = "stby_b" /\ stby' = Efficient("B")
      BY <2>2 DEF stby_b, AtTo
    <3>2. Undisturbed => ~Efficient("G")
      BY <3>1 DEF AInv, Shown
    <3> QED BY <1>1, <3>1, <3>2 DEF DriveShown
  <2>3. CASE wake
    BY <2>3 DEF wake, AtTo
  <2> QED BY <2>1, <2>2, <2>3
<1> QED BY <1>1, <1>2, <1>3, <1>4, <1>5 DEF Waiting, Shown, Undisturbed

\* Each output step shows its command and leaves what is shown of the others,
\* the opposite one not being effective.
LEMMA OutputShown ==
  ASSUME ConstantsAssumption, DInv, AInv, UNCHANGED slice,
         wheel_go \/ set_turn \/ wheel_back \/ set_turn_centre
  PROVE  Waiting' /\ Shown'
<1>1. /\ UNCHANGED <<stores, eff, proportion, calm, stby>>
      /\ pc' \in {"turn", "back", "centre", "read"}
      /\ \A c : Efficient(c)' <=> Efficient(c)
  BY DEF wheel_go, set_turn, wheel_back, set_turn_centre, AtTo, fieldVars, calmVars,
         Efficient, Commands
<1>2. DriveShown => DriveShown'
  BY <1>1 DEF DriveShown
<1>3. Undisturbed => ~(Efficient("G") /\ Efficient("B")) /\ ~(Efficient("T") /\ Efficient("N"))
  BY OneOfTwo DEF DInv, AInv, Undisturbed
<1>4. CASE wheel_go
  <2>1. GoShown' /\ pc = "go" /\ pc' = "turn"
    BY <1>1, <1>4 DEF wheel_go, AtTo, GoShown
  <2> QED BY <1>1, <1>2, <2>1 DEF AInv, Waiting, Shown, Undisturbed, In, PastStby,
             PastGo, PastTurn, PastBack, PastCentre
<1>5. CASE set_turn
  <2>1. TurnShown' /\ pc = "turn" /\ pc' = "back"
    BY <1>1, <1>5 DEF set_turn, AtTo, TurnShown
  <2>2. GoShown => GoShown'
    BY <1>1, <1>5 DEF set_turn, GoShown
  <2> QED BY <1>1, <1>2, <2>1, <2>2 DEF AInv, Waiting, Shown, Undisturbed, In, PastStby,
             PastGo, PastTurn, PastBack, PastCentre
<1>6. CASE wheel_back
  <2>1. BackShown' /\ pc = "back" /\ pc' = "centre"
    BY <1>1, <1>6 DEF wheel_back, AtTo, BackShown
  <2>2. Undisturbed /\ GoShown => GoShown'
    BY <1>1, <1>3, <1>6 DEF wheel_back, GoShown
  <2>3. TurnShown => TurnShown'
    BY <1>1, <1>6 DEF wheel_back, TurnShown
  <2> QED BY <1>1, <1>2, <2>1, <2>2, <2>3 DEF AInv, Waiting, Shown, Undisturbed, In,
             PastStby, PastGo, PastTurn, PastBack, PastCentre
<1>7. CASE set_turn_centre
  <2>1. CentreShown' /\ pc = "centre" /\ pc' = "read"
    <3>1. Efficient("N") => turn' \in {Centre, Off}
      BY <1>7 DEF set_turn_centre
    <3>2. Centre' = Centre /\ Off' = Off
      BY DEF Centre, Off, TurnCompare
    <3>3. pc = "centre" /\ pc' = "read"
      BY <1>7 DEF set_turn_centre, AtTo
    <3> QED BY <1>1, <3>1, <3>2, <3>3 DEF CentreShown
  <2>2. Undisturbed /\ TurnShown => TurnShown'
    BY <1>1, <1>3, <1>7 DEF set_turn_centre, TurnShown
  <2>3. (GoShown => GoShown') /\ (BackShown => BackShown')
    BY <1>1, <1>7 DEF set_turn_centre, GoShown, BackShown
  <2> QED BY <1>1, <1>2, <2>1, <2>2, <2>3 DEF AInv, Waiting, Shown, Undisturbed, In,
             PastStby, PastGo, PastTurn, PastBack, PastCentre
<1> QED BY <1>4, <1>5, <1>6, <1>7

\* Counting and expiry change no output; what the tick has shown is still so
\* when it ends.
LEMMA AgeingShown ==
  ASSUME ConstantsAssumption, DInv, AInv, UNCHANGED slice,
         count_read \/ count_write \/ expire_test \/ expire_clear
  PROVE  Waiting' /\ Shown'
<1>1. /\ UNCHANGED <<stores, proportion, outVars>>
      /\ eff' = eff \/ eff' = [eff EXCEPT ![Order[i]] = FALSE]
  BY DEF count_read, count_write, expire_test, expire_clear, fieldVars
<1>2. \A c : Efficient(c)' => Efficient(c)
  <2>1. Commands' = Commands /\ eff \in [Commands -> BOOLEAN]
    BY DEF Commands, DInv, RoverOK
  <2>2. \A c \in Commands : eff'[c] => eff[c]
    BY <1>1, <2>1
  <2> QED BY <2>1, <2>2 DEF Efficient
<1>3. /\ DriveShown => DriveShown'
      /\ GoShown => GoShown'
      /\ BackShown => BackShown'
      /\ TurnShown => TurnShown'
      /\ CentreShown => CentreShown'
  BY <1>1, <1>2, SameShown
<1>4. /\ pc \in PastCentre
      /\ \/ pc' \in PastCentre /\ UNCHANGED calm
         \/ pc' = "delay" /\ TickEnds
  BY DEF count_read, count_write, expire_test, expire_clear, NextCommand, NextExpiry,
         ToDelay, calmVars, PastCentre
<1>5. calm \in Int /\ calm >= -1
  BY DEF DInv, RoverOK
<1>6. CASE pc' \in PastCentre /\ UNCHANGED calm
  BY <1>1, <1>3, <1>4, <1>6 DEF AInv, Waiting, Shown, Undisturbed, In, PastStby, PastGo,
     PastTurn, PastBack, PastCentre
<1>7. CASE pc' = "delay" /\ TickEnds
  <2>1. calm' \in Int /\ (calm' >= 1 => stores = {} /\ calm >= 0)
    BY <1>5, <1>7 DEF TickEnds, Receiving
  <2>2. Waiting'
    BY <1>1, <2>1 DEF Waiting
  <2>3. Shown'
    <3> SUFFICES ASSUME calm' >= 1
                 PROVE  DriveShown' /\ GoShown' /\ BackShown' /\ TurnShown' /\ CentreShown'
      BY <1>7 DEF Shown, In, PastStby, PastGo, PastTurn, PastBack, PastCentre
    <3> QED BY <1>3, <1>4, <2>1 DEF AInv, Shown, Undisturbed, In, PastStby, PastGo,
               PastTurn, PastBack
  <2> QED BY <2>2, <2>3
<1> QED BY <1>4, <1>6, <1>7

LEMMA NextAInv ==
  ASSUME ConstantsAssumption, DInv, AInv, [Next]_<<vars, slice>>
  PROVE  AInv'
<1>1. CASE Next
  <2>1. UNCHANGED slice
    BY <1>1 DEF Next
  <2>2. CASE Receiver \/ \E m \in Messages : recv_callback(m)
    BY <2>1, <2>2, ReceiverExclusive, ReceiverShown DEF DInv, AInv
  <2>3. CASE StartDoCommandTask
    <3>1. Exclusive'
      BY <2>1, <2>3, TaskExclusive DEF DInv, AInv
    <3>2. Waiting' /\ Shown'
      BY <2>1, <2>3, StbyShown, OutputShown, AgeingShown DEF StartDoCommandTask
    <3> QED BY <3>1, <3>2 DEF AInv
  <2> QED BY <1>1, <2>2, <2>3 DEF Next
<1>2. CASE UNCHANGED <<vars, slice>>
  <2>1. UNCHANGED <<slice, stores, eff, proportion, pc, outVars, calm>>
    BY <1>2 DEF vars, outVars
  <2>2. Commands' = Commands /\ \A c : Efficient(c)' <=> Efficient(c)
    BY <2>1 DEF Commands, Efficient
  <2>3. Exclusive' /\ Waiting'
    BY <2>1, <2>2 DEF AInv, Exclusive, Waiting
  <2>4. Shown'
    BY <2>1, <2>2, SameShown DEF AInv, Shown, Undisturbed, In
  <2> QED BY <2>3, <2>4 DEF AInv
<1> QED BY <1>1, <1>2

\* parse_command against StartDoCommandTask: a race between them is over after
\* one whole tick, the outputs then say what the effective commands say and no
\* two opposite commands are effective.
THEOREM RaceLastsOneTick == Spec => []EffectiveIsApplied
<1>1. ConstantsAssumption
  BY ConstantsAssumption
<1>2. Init => DInv /\ AInv
  BY <1>1, InitDInv, InitAInv
<1>3. DInv /\ AInv /\ [Next]_<<vars, slice>> => DInv' /\ AInv'
  BY <1>1, NextDInv, NextAInv
<1>4. DInv /\ AInv => EffectiveIsApplied
  <2> SUFFICES ASSUME DInv, AInv, pc = "delay", calm >= 1
               PROVE  /\ \A c \in Commands : eff[c] => ~eff[Opposite(c)]
                      /\ DriveShown /\ GoShown /\ BackShown /\ TurnShown /\ CentreShown
    BY DEF EffectiveIsApplied, DriveShown, GoShown, BackShown, TurnShown, CentreShown
  <2>1. calm \in Int
    BY DEF DInv, RoverOK
  <2>2. stores = {}
    BY <2>1 DEF AInv, Waiting
  <2>3. Undisturbed
    BY <2>1, <2>2 DEF Undisturbed
  <2> QED BY <2>2, <2>3 DEF AInv, Exclusive, Shown, In
<1> QED BY <1>2, <1>3, <1>4, PTL DEF Spec

-----------------------------------------------------------------------------
(* Types: every pair that comes to be parsed is of a command of the slice, *)
(* whatever udpRecvBuf reads as beyond the message.                        *)

ReceiverTypes ==
  /\ udpRecvBuf \in [1 .. Slots -> Pair]
  /\ rx \in Seq(Pair) /\ \A p \in Range(rx) : p.c \in Commands
  /\ stores \subseteq Store
  /\ told \in Pair \cup {[c |-> "none", v |-> 0]}

FieldTypes ==
  /\ eff \in [Commands -> BOOLEAN]
  /\ proportion \in [Commands -> 0 .. 255]
  /\ count \in [Commands -> 0 .. CountCap]

TaskTypes == pc \in Step /\ i \in Place /\ reg \in 0 .. CountCap - 1

OutputTypes ==
  /\ stby \in BOOLEAN
  /\ dir \in {"stop", "go", "back"}
  /\ duty \in 0 .. 1000
  /\ turn \in 0 .. 125
  /\ turn_close \in 0 .. TurnClose

CalmTypes == calm \in -1 .. CalmCap /\ slow \in BOOLEAN

TInv ==
  /\ slice \in Slices
  /\ ReceiverTypes /\ FieldTypes /\ TaskTypes /\ OutputTypes /\ CalmTypes

\* The numbers of ConstantsAssumption.
LEMMA Numbers ==
  ASSUME ConstantsAssumption
  PROVE  /\ Slots \in Nat /\ Expire \in Nat /\ CountCap \in Nat /\ 0 < CountCap
         /\ TurnClose \in Nat /\ 0 < TurnClose
BY DEF ConstantsAssumption

\* Both conversions give a compare value the software PWM has.
LEMMA Compares ==
  ASSUME NEW v \in 0 .. 255
  PROVE  Compare(v) \in 0 .. 1000 /\ TurnCompare(v) \in 0 .. 125
<1>1. Compare(v) \in 0 .. 1000
  BY DEF Compare
<1>2. TurnCompare(v) \in 0 .. 125
  <2> DEFINE a == IF v < 50 THEN 50 ELSE IF v > 160 THEN 160 ELSE v
             q == (a * 100) \div 18
  <2>1. a \in 50 .. 160
    OBVIOUS
  <2>2. TurnCompare(v) = (250 + q) \div 10
    BY DEF TurnCompare
  <2> HIDE DEF a
  <2>3. q \in 0 .. 900
    BY <2>1
  <2> HIDE DEF q
  <2> QED BY <2>2, <2>3
<1> QED BY <1>1, <1>2

LEMMA CentreOff == Centre \in 0 .. 125 /\ Off \in 0 .. 125
<1>1. 115 \in 0 .. 255
  OBVIOUS
<1>2. TurnCompare(115) \in 0 .. 125
  BY <1>1, Compares, Zenon
<1> QED BY <1>2 DEF Centre, Off

LEMMA InitTInv ==
  ASSUME ConstantsAssumption, Init
  PROVE  TInv
<1>1. slice \in Slices
  BY DEF Init
<1>2. ReceiverTypes
  <2>1. udpRecvBuf \in [1 .. Slots -> Pair]
    BY DEF Init, ConstantsAssumption
  <2>2. rx = <<>> /\ rx \in Seq(Pair) /\ Range(rx) = {}
    BY RangeOfSeq, EmptySeq DEF Init, Range
  <2> QED BY <2>1, <2>2 DEF Init, ReceiverTypes
<1>3. FieldTypes
  BY Numbers DEF Init, FieldTypes
<1>4. TaskTypes
  <2>1. 1 \in Place
    BY <1>1, Places DEF Place
  <2> QED BY <2>1, Numbers DEF Init, TaskTypes, Step
<1>5. OutputTypes
  <2>1. stby = FALSE /\ dir = "stop" /\ duty = 0 /\ turn = 0 /\ turn_close = TurnClose - 1
    BY DEF Init, Off
  <2>2. TurnClose - 1 \in 0 .. TurnClose /\ 0 \in 0 .. 1000 /\ 0 \in 0 .. 125
    BY Numbers
  <2> QED BY <2>1, <2>2 DEF OutputTypes
<1>6. CalmTypes
  <2>1. calm = 0 /\ slow = FALSE
    BY DEF Init
  <2>2. 0 \in -1 .. CalmCap
    BY Numbers DEF CalmCap
  <2> QED BY <2>1, <2>2 DEF CalmTypes
<1> QED BY <1>1, <1>2, <1>3, <1>4, <1>5, <1>6 DEF TInv

\* The loop takes one pair beyond the message: udpRecvBuf has room for it.
LEMMA RecvTypes ==
  ASSUME ConstantsAssumption, TInv, UNCHANGED slice,
         NEW m \in Messages, recv_callback(m)
  PROVE  ReceiverTypes'
<1>1. m \in Seq(Pair) /\ Len(m) \in Nat /\ Len(m) < Slots /\ Slots \in Nat
  <2>1. m \in Seq(Pair) /\ Len(m) < Slots /\ Slots \in Nat
    BY DEF ConstantsAssumption, TInv, Messages
  <2> QED BY <2>1, LenProperties
<1>2. udpRecvBuf' \in [1 .. Slots -> Pair]
  <2>1. ASSUME NEW k \in 1 .. Slots
        PROVE  (IF k <= Len(m) THEN m[k] ELSE udpRecvBuf[k]) \in Pair
    <3>1. CASE k <= Len(m)
      <4>1. k \in 1 .. Len(m)
        BY <1>1, <3>1
      <4> QED BY <1>1, <3>1, <4>1, ElementOfSeq
    <3>2. CASE ~(k <= Len(m))
      BY <3>2 DEF TInv, ReceiverTypes
    <3> QED BY <3>1, <3>2
  <2> QED BY <2>1 DEF recv_callback
<1> DEFINE T == {p \in Pair : p.c \in Commands}
           beyond == udpRecvBuf'[Len(m) + 1]
<1>3. beyond \in Pair
  BY <1>1, <1>2
<1>4. Append(m, beyond) \in Seq(Pair)
  BY <1>1, <1>3, AppendProperties
<1>5. rx' = Those(Append(m, beyond), T)
  BY DEF recv_callback, Tracked, Parsed
<1>6. rx' \in Seq(Pair) /\ Range(rx') \subseteq T
  <2> DEFINE s == Append(m, beyond)
  <2> HIDE DEF T, beyond, s
  <2>1. s \in Seq(Pair) /\ rx' = Those(s, T)
    BY <1>4, <1>5 DEF s
  <2> QED BY <2>1, ThoseProperties
<1>7. told' \in Pair \cup {[c |-> "none", v |-> 0]}
  <2> DEFINE t == Those(m, T)
  <2>1. t \in Seq(Pair)
    <3> HIDE DEF T
    <3> QED BY <1>1, ThoseProperties
  <2>2. told' = IF t = <<>> THEN told ELSE t[Len(t)]
    BY DEF recv_callback, Tracked
  <2> HIDE DEF t
  <2>3. t # <<>> => t[Len(t)] \in Pair
    BY <2>1
  <2> QED BY <2>2, <2>3 DEF TInv, ReceiverTypes
<1>8. stores' \subseteq Store'
  BY DEF recv_callback, TInv, ReceiverTypes, Store, Commands
<1>9. \A p \in Range(rx') : p.c \in Commands'
  BY <1>6 DEF Commands
<1> QED BY <1>2, <1>6, <1>7, <1>8, <1>9 DEF ReceiverTypes

LEMMA ParseTypes ==
  ASSUME ConstantsAssumption, TInv, UNCHANGED slice, parse_command
  PROVE  ReceiverTypes'
<1>1. rx \in Seq(Pair) /\ rx # <<>> /\ \A p \in Range(rx) : p.c \in Commands
  BY DEF TInv, ReceiverTypes, parse_command
<1>2. Head(rx) \in Pair /\ Head(rx) \in Range(rx)
  BY <1>1, HeadTailProperties DEF Range
<1>3. Tail(rx) \in Seq(Pair) /\ Range(Tail(rx)) \subseteq Range(rx)
  BY <1>1 DEF Range
<1>4. Stores(Head(rx)) \subseteq Store
  <2> DEFINE p == Head(rx)
  <2>1. p.c \in Commands /\ p.v \in 0 .. 255 /\ Opposite(p.c) \in Commands
    BY <1>1, <1>2, Opposites DEF Pair, TInv
  <2> SUFFICES ASSUME NEW s \in Stores(p) PROVE s \in Store
    OBVIOUS
  <2> HIDE DEF p
  <2>2. CASE s = [f |-> "proportion", c |-> p.c, v |-> p.v]
    BY <2>1, <2>2 DEF Store
  <2>3. CASE s \in {[f |-> "eff", c |-> p.c, v |-> 1], [f |-> "eff", c |-> Opposite(p.c), v |-> 0]}
    BY <2>1, <2>3 DEF Store
  <2>4. CASE s = [f |-> "count", c |-> p.c, v |-> 0]
    BY <2>1, <2>4 DEF Store
  <2> QED BY <2>2, <2>3, <2>4 DEF Stores
<1>5. Commands' = Commands /\ Store' = Store
  BY DEF Commands, Store
<1> QED BY <1>1, <1>3, <1>4, <1>5 DEF TInv, ReceiverTypes, parse_command

LEMMA StoreTypes ==
  ASSUME ConstantsAssumption, TInv, UNCHANGED slice, NEW s \in stores, store(s)
  PROVE  ReceiverTypes' /\ FieldTypes'
<1>1. Commands' = Commands /\ Store' = Store
  BY DEF Commands, Store
<1>2. ReceiverTypes'
  BY <1>1 DEF TInv, ReceiverTypes, store, rxVars
<1>3. /\ s.c \in Commands
      /\ s.f = "proportion" => s.v \in 0 .. 255
      /\ s.f = "count" => s.v = 0
  BY DEF TInv, ReceiverTypes, Store
<1>4. eff' \in [Commands -> BOOLEAN]
  BY <1>3 DEF store, TInv, FieldTypes
<1>5. proportion' \in [Commands -> 0 .. 255]
  BY <1>3 DEF store, TInv, FieldTypes
<1>6. count' \in [Commands -> 0 .. CountCap]
  BY <1>3, Numbers DEF store, TInv, FieldTypes
<1> QED BY <1>1, <1>2, <1>4, <1>5, <1>6 DEF FieldTypes

LEMMA ReceiverTInv ==
  ASSUME ConstantsAssumption, TInv, UNCHANGED slice,
         Receiver \/ \E m \in Messages : recv_callback(m)
  PROVE  TInv'
<1>1. UNCHANGED <<pc, i, reg, outVars>>
  BY DEF Receiver, parse_command, store, recv_callback
<1>2. Commands' = Commands /\ Place' = Place
  BY DEF Commands, Place, Order
<1>3. TaskTypes' /\ OutputTypes'
  BY <1>1, <1>2 DEF TInv, TaskTypes, OutputTypes, outVars
<1>4. calm' \in {calm, 0, -1} /\ slow' \in {slow, FALSE}
  BY DEF Receiver, parse_command, store, recv_callback, calmVars, Disturbed
<1>5. CalmTypes'
  <2>1. calm' \in -1 .. CalmCap
    <3>1. calm \in -1 .. CalmCap
      BY DEF TInv, CalmTypes
    <3> QED BY <1>4, <3>1, Numbers DEF CalmCap
  <2>2. slow' \in BOOLEAN
    BY <1>4 DEF TInv, CalmTypes
  <2> QED BY <2>1, <2>2 DEF CalmTypes
<1>6. ReceiverTypes' /\ FieldTypes'
  <2>1. CASE \E m \in Messages : recv_callback(m)
    BY <1>2, <2>1, RecvTypes DEF recv_callback, TInv, FieldTypes
  <2>2. CASE parse_command
    BY <1>2, <2>2, ParseTypes DEF parse_command, TInv, FieldTypes
  <2>3. CASE \E s \in stores : store(s)
    BY <2>3, StoreTypes
  <2> QED BY <2>1, <2>2, <2>3 DEF Receiver
<1> QED BY <1>3, <1>5, <1>6 DEF TInv

LEMMA OutputTInv ==
  ASSUME ConstantsAssumption, TInv, UNCHANGED slice,
         wake \/ stby_g \/ stby_b \/ wheel_go \/ set_turn \/ wheel_back \/ set_turn_centre
  PROVE  TInv'
<1>1. UNCHANGED <<rxVars, stores, fieldVars, i, reg, calmVars>> /\ pc' \in Step
  BY DEF wake, stby_g, stby_b, wheel_go, set_turn, wheel_back, set_turn_centre, AtTo, Step
<1>2. Commands' = Commands /\ Place' = Place /\ Store' = Store
  BY DEF Commands, Place, Order, Store
<1>3. ReceiverTypes' /\ FieldTypes' /\ TaskTypes' /\ CalmTypes'
  BY <1>1, <1>2 DEF TInv, ReceiverTypes, FieldTypes, TaskTypes, CalmTypes, rxVars,
     fieldVars, calmVars
<1>4. \A c : Efficient(c) => proportion[c] \in 0 .. 255
  BY DEF Efficient, TInv, FieldTypes
<1>5. stby' \in BOOLEAN
  BY DEF wake, stby_g, stby_b, wheel_go, set_turn, wheel_back, set_turn_centre,
     Efficient, TInv, FieldTypes, OutputTypes, outVars
<1>6. dir' \in {"stop", "go", "back"}
  BY DEF wake, stby_g, stby_b, wheel_go, set_turn, wheel_back, set_turn_centre,
     TInv, OutputTypes, outVars
<1>7. duty' \in 0 .. 1000
  <2>1. \/ UNCHANGED duty
        \/ Efficient("G") /\ duty' = Compare(proportion["G"])
        \/ Efficient("B") /\ duty' = Compare(proportion["B"])
    BY DEF wake, stby_g, stby_b, wheel_go, set_turn, wheel_back, set_turn_centre, outVars
  <2>2. \A c : Efficient(c) => Compare(proportion[c]) \in 0 .. 1000
    <3> SUFFICES ASSUME NEW c, Efficient(c) PROVE Compare(proportion[c]) \in 0 .. 1000
      OBVIOUS
    <3>1. PICK v : v = proportion[c]
      OBVIOUS
    <3>2. v \in 0 .. 255
      BY <1>4, <3>1
    <3> QED BY <3>1, <3>2, Compares
  <2>3. CASE UNCHANGED duty
    BY <2>3 DEF TInv, OutputTypes
  <2>4. CASE Efficient("G") /\ duty' = Compare(proportion["G"])
    BY <2>2, <2>4
  <2>5. CASE Efficient("B") /\ duty' = Compare(proportion["B"])
    BY <2>2, <2>5
  <2> QED BY <2>1, <2>3, <2>4, <2>5
<1>8. turn' \in 0 .. 125 /\ turn_close' \in 0 .. TurnClose
  <2>1. CASE UNCHANGED <<turn, turn_close>>
    BY <2>1 DEF TInv, OutputTypes
  <2>2. CASE Efficient("T") /\ turn' = TurnCompare(proportion["T"]) /\ turn_close' = TurnClose
    <3>1. TurnCompare(proportion["T"]) \in 0 .. 125
      BY <1>4, <2>2, Compares
    <3>2. TurnClose \in 0 .. TurnClose
      BY Numbers
    <3> QED BY <2>2, <3>1, <3>2
  <2>3. CASE turn' \in {Centre, Off}
             /\ (turn_close' = 0 \/ (turn_close > 0 /\ turn_close' = turn_close - 1))
    <3>1. turn' \in 0 .. 125
      BY <2>3, CentreOff
    <3>2. turn_close \in 0 .. TurnClose
      BY DEF TInv, OutputTypes
    <3>3. turn_close' \in 0 .. TurnClose
      BY <2>3, <3>2, Numbers
    <3> QED BY <3>1, <3>3
  <2> QED BY <2>1, <2>2, <2>3 DEF wake, stby_g, stby_b, wheel_go, set_turn, wheel_back,
             set_turn_centre, outVars
<1> QED BY <1>2, <1>3, <1>5, <1>6, <1>7, <1>8 DEF TInv, OutputTypes

\* The cap keeps count in range although it is read and written apart.
LEMMA AgeingTInv ==
  ASSUME ConstantsAssumption, TInv, UNCHANGED slice,
         count_read \/ count_write \/ expire_test \/ expire_clear
  PROVE  TInv'
<1>1. UNCHANGED <<rxVars, stores, proportion, outVars>>
  BY DEF count_read, count_write, expire_test, expire_clear, fieldVars
<1>2. Commands' = Commands /\ Place' = Place /\ Store' = Store
  BY DEF Commands, Place, Order, Store
<1>3. ReceiverTypes' /\ OutputTypes'
  BY <1>1, <1>2 DEF TInv, ReceiverTypes, OutputTypes, rxVars, outVars
<1>4. Order[i] \in Commands /\ i \in Place /\ Len(Order) \in Nat /\ Len(Order) >= 1
  BY Places DEF TInv, TaskTypes
<1>5. eff' \in [Commands -> BOOLEAN]
  BY <1>4 DEF count_read, count_write, expire_test, expire_clear, fieldVars, TInv, FieldTypes
<1>6. count' \in [Commands -> 0 .. CountCap]
  <2>1. reg + 1 \in 0 .. CountCap
    BY Numbers DEF TInv, TaskTypes
  <2>2. count' = count \/ count' = [count EXCEPT ![Order[i]] = reg + 1]
    BY DEF count_read, count_write, expire_test, expire_clear, fieldVars
  <2> QED BY <2>1, <2>2 DEF TInv, FieldTypes
<1>7. pc' \in Step /\ i' \in Place
  <2>1. \/ UNCHANGED i
        \/ i < Len(Order) /\ i' = i + 1
        \/ i' = 1
    BY DEF count_read, count_write, expire_test, expire_clear, NextCommand, NextExpiry
  <2>2. i' \in Place
    BY <1>4, <2>1 DEF Place
  <2>3. pc' \in Step
    BY DEF count_read, count_write, expire_test, expire_clear, NextCommand, NextExpiry,
       ToDelay, Step
  <2> QED BY <2>2, <2>3
<1>8. reg' \in 0 .. CountCap - 1
  <2>1. CASE count_read
    <3>1. count[Order[i]] \in 0 .. CountCap
      BY <1>4 DEF TInv, FieldTypes
    <3>2. reg' = 0 \/ (count[Order[i]] < CountCap /\ reg' = count[Order[i]])
      BY <2>1 DEF count_read
    <3> QED BY <3>1, <3>2, Numbers
  <2>2. CASE ~count_read
    <3>1. reg' = 0 \/ UNCHANGED reg
      BY <2>2 DEF count_write, expire_test, expire_clear
    <3> QED BY <3>1, Numbers DEF TInv, TaskTypes
  <2> QED BY <2>1, <2>2
<1>9. CalmTypes'
  <2>1. UNCHANGED calmVars \/ TickEnds
    BY DEF count_read, count_write, expire_test, expire_clear, NextExpiry, ToDelay
  <2>2. CASE UNCHANGED calmVars
    BY <2>2 DEF calmVars, TInv, CalmTypes
  <2>3. CASE TickEnds
    <3>1. calm' \in -1 .. CalmCap
      BY <2>3, Numbers DEF TickEnds, TInv, CalmTypes, CalmCap
    <3>2. slow' \in BOOLEAN
      BY <2>3 DEF TickEnds, Receiving, TInv, CalmTypes
    <3> QED BY <3>1, <3>2 DEF CalmTypes
  <2> QED BY <2>1, <2>2, <2>3
<1> QED BY <1>1, <1>2, <1>3, <1>5, <1>6, <1>7, <1>8, <1>9 DEF TInv, FieldTypes, TaskTypes

LEMMA NextTInv ==
  ASSUME ConstantsAssumption, TInv, [Next]_<<vars, slice>>
  PROVE  TInv'
<1>1. CASE Next
  <2>1. UNCHANGED slice
    BY <1>1 DEF Next
  <2>2. CASE Receiver \/ \E m \in Messages : recv_callback(m)
    BY <2>1, <2>2, ReceiverTInv
  <2>3. CASE StartDoCommandTask
    BY <2>1, <2>3, OutputTInv, AgeingTInv DEF StartDoCommandTask
  <2> QED BY <1>1, <2>2, <2>3 DEF Next
<1>2. CASE UNCHANGED <<vars, slice>>
  <2>1. Commands' = Commands /\ Place' = Place /\ Store' = Store
    BY <1>2 DEF Commands, Place, Order, Store
  <2> QED BY <1>2, <2>1 DEF vars, TInv, ReceiverTypes, FieldTypes, TaskTypes,
             OutputTypes, CalmTypes
<1> QED BY <1>1, <1>2

\* The task and the receiver keep every field in its range: count at most
\* CountCap over a torn increment, the compare values in the PWM's period, and
\* only commands parsed, whatever lies in udpRecvBuf behind a message.
THEOREM TypeCorrect == Spec => []TypeOK
<1>1. Init => TInv
  BY InitTInv, ConstantsAssumption
<1>2. TInv /\ [Next]_<<vars, slice>> => TInv'
  BY NextTInv, ConstantsAssumption
<1>3. TInv => TypeOK
  BY DEF TInv, ReceiverTypes, FieldTypes, TaskTypes, OutputTypes, CalmTypes, TypeOK, Place
<1> QED BY <1>1, <1>2, <1>3, PTL DEF Spec

=============================================================================
