------------------------------ MODULE Telemetry ------------------------------
(***************************************************************************)
(* The battery report of rasp-rc-client: ina226_thread_function measures   *)
(* into six static floats every 100 ms, the thread print_th of main reads  *)
(* them every 500 ms and sends them.  There is no lock; an access to one   *)
(* float is one step.                                                      *)
(*                                                                         *)
(* A float is the number of the measurement it is from, 0 before the       *)
(* first, so that a report shows what it mixes.                            *)
(***************************************************************************)
EXTENDS Naturals, Sequences

CONSTANT MaxRound   \* bound: measurements

ASSUME TelemetryAssumption == MaxRound \in Nat \ {0}

\* The order in which the statics are written, and the order of their reading.
Field == <<"voltage", "current", "power", "shunt", "energy", "price">>

VARIABLES
  static,   \* static[f]: the measurement stored in f
  round,    \* the measurement the writer is in
  nextField,   \* what the writer stores next, by its place in Field; 0: it sleeps, 7: it has returned
  report    \* what get_ina226_info has read so far, in the order of Field

telemetryVars == <<static, round, nextField, report>>

TelemetryInit ==
  /\ static = [f \in 1 .. Len(Field) |-> 0]
  /\ round = 0
  /\ nextField \in {0, 7}            \* 7: wiringPiI2CSetup found no sensor
  /\ report = <<>>

\* usleep(100000) is over.
measure ==
  /\ nextField = 0 /\ round < MaxRound
  /\ round' = round + 1
  /\ nextField' = 1
  /\ UNCHANGED <<static, report>>

\* Mutant: price and energy are computed before the registers are read.
ina226_readMutant ==
  /\ nextField \in 1 .. Len(Field)
  /\ LET f == 7 - nextField
     IN  static' = [static EXCEPT ![f] =
           IF f = 5 THEN static[1] ELSE IF f = 6 THEN static[5] ELSE round]
  /\ nextField' = (nextField + 1) % 7
  /\ UNCHANGED <<round, report>>

\* ina226_read stores the four registers, then energy from the voltage and the
\* current just stored, and price from the energy.
ina226_read ==
  /\ nextField \in 1 .. Len(Field)
  /\ static' = [static EXCEPT ![nextField] =
                  IF nextField = 5 THEN static[1] ELSE IF nextField = 6 THEN static[5] ELSE round]
  /\ nextField' = (nextField + 1) % 7
  /\ UNCHANGED <<round, report>>

\* get_ina226_info, one static at a time, however long it is held up between.
get_ina226_info ==
  /\ Len(report) < Len(Field)
  /\ report' = Append(report, static[Len(report) + 1])
  /\ UNCHANGED <<static, round, nextField>>

\* sprintf and send_data: the report is on its way, 500 ms later the next.
send ==
  /\ Len(report) = Len(Field)
  /\ report' = <<>>
  /\ UNCHANGED <<static, round, nextField>>

TelemetryNext == measure \/ ina226_read \/ get_ina226_info \/ send

-----------------------------------------------------------------------------
(* Properties *)

\* get_ina226_info against ina226_thread_function: because both go through the
\* fields in one order, a report never takes a field from a measurement more
\* than one older than that of a field read before it, however long the reader is
\* held up; the power main computes from voltage and current relies on it.
NearlyOne ==
  \A i, j \in DOMAIN report : i < j => report[j] + 1 >= report[i]

=============================================================================
