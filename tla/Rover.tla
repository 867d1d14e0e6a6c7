-------------------------------- MODULE Rover --------------------------------
(***************************************************************************)
(* The rover's command path, rasp-rc-client/main.cpp.  Two threads share   *)
(* the command_g, command_t, command_b, command_n structs without a lock:  *)
(*                                                                         *)
(*   - the receiver, RcClient's loop thread: recv_callback splits a        *)
(*     message into [command, value] pairs and parse_command stores each   *)
(*     into the structs;                                                   *)
(*   - the main thread, StartDoCommandTask: every 5 ms it reads the        *)
(*     structs, drives stby, direction, wheel duty and steering, ages the  *)
(*     commands and expires those not repeated for Expire ticks.           *)
(*                                                                         *)
(* The fields are plain ints: the stores of one parse_command may become   *)
(* visible in any order, and the two threads interleave between any two    *)
(* accesses that matter: an if-block's test and its outputs are one step,  *)
(* count++ is a read and a write, an expiry is a test and a clear.         *)
(***************************************************************************)
EXTENDS Selections

CONSTANTS
  Slices,     \* the pairs G/B and T/N never touch each other's fields and can be
              \* looked at one at a time: the commands of a slice, and the messages
              \* the controller sends, sequences of [c, v] pairs
  Slots,      \* pairs udpRecvBuf has room for
  Uninit,     \* what never-written bytes of udpRecvBuf may read as
  Expire,     \* 100
  CountCap,   \* 200
  TurnClose   \* 20

VARIABLE slice   \* the slice looked at, fixed

Commands == slice.commands
Messages == slice.messages

Order == CASE Commands = {"G", "B"} -> <<"G", "B">>
           [] Commands = {"T", "N"} -> <<"T", "N">>
           [] OTHER -> <<"G", "T", "B", "N">>

Pair == [c : {"G", "T", "B", "N", "C"}, v : 0 .. 255]

ASSUME ConstantsAssumption ==
  /\ \A s \in Slices :
       /\ s.commands \in {{"G", "B"}, {"T", "N"}, {"G", "T", "B", "N"}}
       /\ \A m \in s.messages : m \in Seq(Pair) /\ Len(m) < Slots
  /\ Slots \in Nat
  /\ Uninit \subseteq Pair
  /\ Expire \in Nat /\ CountCap \in Nat /\ Expire < CountCap
  /\ TurnClose \in Nat \ {0}

VARIABLES
  udpRecvBuf,  \* the pairs behind the type byte, this message's and older
  rx,          \* pairs the running recv_callback has still to parse
  stores,      \* stores of the running parse_command not yet visible
  told,        \* history: the last command the controller really sent
  eff, proportion, count,       \* fields of the Command structs
  pc, i, reg,                   \* main thread: step, command index, register
  stby, dir, duty, turn,        \* outputs
  turn_close,
  calm,        \* history: whole ticks since the receiver last acted; -1: it
               \* acted in the running tick
  slow         \* history: the last recv_callback outlasted the tick it began in

rxVars == <<udpRecvBuf, rx, told>>
calmVars == <<calm, slow>>
outVars == <<stby, dir, duty, turn, turn_close>>
vars == <<udpRecvBuf, rx, stores, told, eff, proportion, count, pc, i, reg,
          stby, dir, duty, turn, turn_close, calm, slow>>

CalmCap == Expire + 2   \* bound of the history counter

Opposite(c) == CASE c = "G" -> "B" [] c = "B" -> "G"
                 [] c = "T" -> "N" [] c = "N" -> "T"

\* USR_TIM_PWM_Set_All_Compare.
Compare(v) == 10 * (IF v > 100 THEN 100 ELSE v)

\* USR_TIM_PWM_Set_TURN_Compare: clamped to 50..160, 25..125 for 180 degrees.
TurnCompare(v) ==
  LET a == IF v < 50 THEN 50 ELSE IF v > 160 THEN 160 ELSE v
  IN  (250 + (a * 100) \div 18) \div 10

Centre == TurnCompare(115)
Off == 0

Store == [f : {"proportion"}, c : Commands, v : 0 .. 255]
    \cup [f : {"eff"}, c : Commands, v : {0, 1}]
    \cup [f : {"count"}, c : Commands, v : {0}]

Step == {"delay", "stby_g", "stby_b", "go", "turn", "back", "centre",
         "read", "write", "test", "clear"}

TypeOK ==
  /\ udpRecvBuf \in [1 .. Slots -> Pair]
  /\ rx \in Seq(Pair)
  /\ stores \subseteq Store
  /\ told \in Pair \cup {[c |-> "none", v |-> 0]}
  /\ eff \in [Commands -> BOOLEAN]
  /\ proportion \in [Commands -> 0 .. 255]
  /\ count \in [Commands -> 0 .. CountCap]
  /\ pc \in Step
  /\ i \in 1 .. Len(Order)
  /\ reg \in 0 .. CountCap - 1
  /\ stby \in BOOLEAN
  /\ dir \in {"stop", "go", "back"}
  /\ duty \in 0 .. 1000
  /\ turn \in 0 .. 125
  /\ turn_close \in 0 .. TurnClose
  /\ calm \in -1 .. CalmCap
  /\ slow \in BOOLEAN

\* main: the wheels idle, the steering centred once and released.
Init ==
  /\ slice \in Slices
  /\ \E u \in Uninit : udpRecvBuf = [k \in 1 .. Slots |-> u]
  /\ rx = <<>>
  /\ stores = {}
  /\ told = [c |-> "none", v |-> 0]
  /\ eff = [c \in Commands |-> FALSE]
  /\ proportion = [c \in Commands |-> 0]
  /\ count = [c \in Commands |-> 0]
  /\ pc = "delay" /\ i = 1 /\ reg = 0
  /\ stby = FALSE
  /\ dir = "stop"
  /\ duty = 0
  /\ turn = Off
  /\ turn_close = TurnClose - 1
  /\ calm = 0
  /\ slow = FALSE

-----------------------------------------------------------------------------
(* The receiver *)

Receiving == rx # <<>> \/ stores # {}

Disturbed == IF pc = "delay" THEN 0 ELSE -1

Tracked(m) == Those(m, {p \in Pair : p.c \in Commands})

\* What recv_callback parses: "i < len" counts the type byte the pointer has
\* already passed, so the loop takes one pair beyond the message.
Parsed(m, buf) == Append(m, buf[Len(m) + 1])

recv_callback(m) ==
  /\ ~Receiving
  /\ udpRecvBuf' = [k \in 1 .. Slots |-> IF k <= Len(m) THEN m[k] ELSE udpRecvBuf[k]]
  /\ rx' = Tracked(Parsed(m, udpRecvBuf'))
  /\ told' = IF Tracked(m) = <<>> THEN told ELSE Tracked(m)[Len(Tracked(m))]
  /\ IF rx' = <<>> THEN UNCHANGED calmVars ELSE calm' = Disturbed /\ slow' = FALSE
  /\ UNCHANGED <<stores, eff, proportion, count, pc, i, reg, outVars>>

\* Mutant: a new direction does not cancel the old one.
StoresMutant(p) ==
  { [f |-> "proportion", c |-> p.c, v |-> p.v],
    [f |-> "eff", c |-> p.c, v |-> 1],
    [f |-> "count", c |-> p.c, v |-> 0] }

\* The four assignments of parse_command.
Stores(p) ==
  { [f |-> "proportion", c |-> p.c, v |-> p.v],
    [f |-> "eff", c |-> p.c, v |-> 1],
    [f |-> "count", c |-> p.c, v |-> 0],
    [f |-> "eff", c |-> Opposite(p.c), v |-> 0] }

parse_command ==
  /\ stores = {}
  /\ rx # <<>>
  /\ stores' = Stores(Head(rx))
  /\ rx' = Tail(rx)
  /\ calm' = Disturbed
  /\ UNCHANGED <<udpRecvBuf, told, eff, proportion, count, pc, i, reg, outVars, slow>>

\* One of them reaches memory.
store(s) ==
  /\ stores' = stores \ {s}
  /\ eff' = IF s.f = "eff" THEN [eff EXCEPT ![s.c] = s.v = 1] ELSE eff
  /\ proportion' = IF s.f = "proportion" THEN [proportion EXCEPT ![s.c] = s.v]
                                         ELSE proportion
  /\ count' = IF s.f = "count" THEN [count EXCEPT ![s.c] = s.v] ELSE count
  /\ calm' = Disturbed
  /\ UNCHANGED <<rxVars, pc, i, reg, outVars, slow>>

Receiver == parse_command \/ \E s \in stores : store(s)

-----------------------------------------------------------------------------
(* StartDoCommandTask *)

Efficient(c) == c \in Commands /\ eff[c]

AtTo(from, to) == pc = from /\ pc' = to

fieldVars == <<eff, proportion, count>>

wake ==
  /\ AtTo("delay", "stby_g")
  /\ UNCHANGED <<rxVars, stores, fieldVars, i, reg, outVars, calmVars>>

\* command_g.is_efficient || command_b.is_efficient: two reads.
stby_g ==
  /\ pc = "stby_g"
  /\ IF Efficient("G") THEN stby' = TRUE /\ pc' = "go"
                       ELSE stby' = stby /\ pc' = "stby_b"
  /\ UNCHANGED <<rxVars, stores, fieldVars, i, reg, dir, duty, turn, turn_close, calmVars>>

\* Mutant: stby is raised but never lowered.
stby_bMutant ==
  /\ AtTo("stby_b", "go")
  /\ stby' = (stby \/ Efficient("B"))
  /\ UNCHANGED <<rxVars, stores, fieldVars, i, reg, dir, duty, turn, turn_close, calmVars>>

stby_b ==
  /\ AtTo("stby_b", "go")
  /\ stby' = Efficient("B")
  /\ UNCHANGED <<rxVars, stores, fieldVars, i, reg, dir, duty, turn, turn_close, calmVars>>

wheel_go ==
  /\ AtTo("go", "turn")
  /\ IF Efficient("G") THEN dir' = "go" /\ duty' = Compare(proportion["G"])
                       ELSE UNCHANGED <<dir, duty>>
  /\ UNCHANGED <<rxVars, stores, fieldVars, i, reg, stby, turn, turn_close, calmVars>>

set_turn ==
  /\ AtTo("turn", "back")
  /\ IF Efficient("T")
       THEN turn' = TurnCompare(proportion["T"]) /\ turn_close' = TurnClose
       ELSE UNCHANGED <<turn, turn_close>>
  /\ UNCHANGED <<rxVars, stores, fieldVars, i, reg, stby, dir, duty, calmVars>>

wheel_back ==
  /\ AtTo("back", "centre")
  /\ IF Efficient("B") THEN dir' = "back" /\ duty' = Compare(proportion["B"])
                       ELSE UNCHANGED <<dir, duty>>
  /\ UNCHANGED <<rxVars, stores, fieldVars, i, reg, stby, turn, turn_close, calmVars>>

\* Mutant: turn_close is not counted down, the servo is held for good.
set_turn_centreMutant ==
  /\ AtTo("centre", "read")
  /\ turn' = IF Efficient("N") THEN Centre ELSE turn
  /\ UNCHANGED <<rxVars, stores, fieldVars, i, reg, stby, dir, duty, turn_close, calmVars>>

\* USR_TIM_PWM_Set_TURN_Centre: centre for turn_close ticks, then release.
set_turn_centre ==
  /\ AtTo("centre", "read")
  /\ IF ~Efficient("N")
       THEN UNCHANGED <<turn, turn_close>>
       ELSE IF turn_close > 0
              THEN turn' = Centre /\ turn_close' = turn_close - 1
              ELSE turn' = Off /\ turn_close' = 0
  /\ UNCHANGED <<rxVars, stores, fieldVars, i, reg, stby, dir, duty, calmVars>>

\* To the same step for the next struct, or to the next step.
NextCommand(this, next) ==
  IF i < Len(Order) THEN i' = i + 1 /\ pc' = this
                    ELSE i' = 1 /\ pc' = next

\* Mutant: the cap is let through once.
count_readMutant ==
  /\ pc = "read"
  /\ IF count[Order[i]] <= CountCap
       THEN reg' = count[Order[i]] /\ pc' = "write" /\ i' = i
       ELSE reg' = 0 /\ NextCommand("read", "test")
  /\ UNCHANGED <<rxVars, stores, fieldVars, outVars, calmVars>>

\* if (count < 200) count++, which reads ...
count_read ==
  /\ pc = "read"
  /\ IF count[Order[i]] < CountCap
       THEN reg' = count[Order[i]] /\ pc' = "write" /\ i' = i
       ELSE reg' = 0 /\ NextCommand("read", "test")
  /\ UNCHANGED <<rxVars, stores, fieldVars, outVars, calmVars>>

\* ... and writes, over whatever parse_command stored in between.
count_write ==
  /\ pc = "write"
  /\ count' = [count EXCEPT ![Order[i]] = reg + 1]
  /\ reg' = 0
  /\ NextCommand("read", "test")
  /\ UNCHANGED <<rxVars, stores, eff, proportion, outVars, calmVars>>

\* Mutant: expiry only looks at the count the cap has reached.
TooOldMutant(c) == count[c] >= CountCap

TooOld(c) == count[c] > Expire

\* A tick has ended: is it one the receiver kept out of?
TickEnds ==
  /\ slow' = (slow \/ Receiving)
  /\ calm' = IF Receiving \/ calm = -1 THEN 0
             ELSE IF calm < CalmCap THEN calm + 1 ELSE calm

ToDelay == pc' = "delay" /\ TickEnds

NextExpiry ==
  IF i < Len(Order) THEN i' = i + 1 /\ pc' = "test" /\ UNCHANGED calmVars
                    ELSE i' = 1 /\ ToDelay

expire_test ==
  /\ pc = "test"
  /\ IF TooOld(Order[i]) THEN pc' = "clear" /\ UNCHANGED <<i, calmVars>>
                         ELSE NextExpiry
  /\ UNCHANGED <<rxVars, stores, fieldVars, reg, outVars>>

\* The command tested may have been renewed since.
expire_clear ==
  /\ pc = "clear"
  /\ eff' = [eff EXCEPT ![Order[i]] = FALSE]
  /\ NextExpiry
  /\ UNCHANGED <<rxVars, stores, proportion, count, reg, outVars>>

StartDoCommandTask ==
  \/ wake \/ stby_g \/ stby_b \/ wheel_go \/ set_turn \/ wheel_back
  \/ set_turn_centre \/ count_read \/ count_write \/ expire_test \/ expire_clear

Next ==
  /\ (\E m \in Messages : recv_callback(m)) \/ Receiver \/ StartDoCommandTask
  /\ UNCHANGED slice

\* Both threads are scheduled; nothing is assumed of the controller.
Fairness == WF_vars(StartDoCommandTask) /\ WF_vars(Receiver)

Spec == Init /\ [][Next]_<<vars, slice>> /\ Fairness

-----------------------------------------------------------------------------
(* Properties *)

\* The dead man's handle of StartDoCommandTask: Expire + 1 ticks after the
\* receiver last stored a drive command the motor driver is in standby,
\* whatever stores were reordered or lost, and whatever else still arrives.
DeadMan == stby => calm <= Expire + 1

\* After one whole tick without new commands the outputs say what the
\* effective command says, and never two opposite commands are effective:
\* a race between parse_command and the task lasts at most one tick.
EffectiveIsApplied ==
  pc = "delay" /\ calm >= 1 =>
    /\ \A c \in Commands : eff[c] => ~eff[Opposite(c)]
    /\ Efficient("G") => stby /\ dir = "go" /\ duty = Compare(proportion["G"])
    /\ Efficient("B") => stby /\ dir = "back" /\ duty = Compare(proportion["B"])
    /\ Efficient("T") => turn = TurnCompare(proportion["T"])
    /\ Efficient("N") => turn \in {Centre, Off}

\* A controller that keeps saying N gets the servo released, and for good.
CentredServoReleased == <>[]Efficient("N") => <>[](turn = Off)

\* README.md on N, "N 0 centre": once the controller's last steering command
\* was N and a whole tick has passed, the wheels do not stay turned.
NCentres == told.c = "N" /\ calm >= 1 => turn \in {Centre, Off}

\* README.md on G, "G 0-100 forward": a G that was received and stored within
\* one tick moves the rover in the next.
GDrives == told.c = "G" /\ ~slow /\ calm = 1 /\ pc = "delay" => stby

=============================================================================
