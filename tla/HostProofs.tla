------------------------------- MODULE HostProofs -------------------------------
(***************************************************************************)
(* The parts around the relay and the rover: the battery report read       *)
(* without a lock, for any number of measurements and however long the     *)
(* reader is held up between two floats; CLuaCfg for any tables and paths  *)
(* and any number of calls: the file survives a process that ends inside   *)
(* table2file, and an array is measured at its own table; make_dirs for    *)
(* any paths and any number of processes; the strings of CValue for any    *)
(* number of objects and any numbers and texts, as long as new finds       *)
(* memory; and RcClient for any group ids, any number of messages and of   *)
(* sessions, and its refinement of Outbox (safety part).                   *)
(***************************************************************************)
EXTENDS LuaCfg, Telemetry, FileUtil, Value, RcClient, SelectionProofs, Integers, TLAPS

(* Telemetry *)

FieldNo == 1 .. 6

\* Where the writer is: it has stored the present measurement up to nextField.
WriterInPlace ==
  static = [f \in FieldNo |-> IF nextField \in FieldNo /\ f >= nextField
                               THEN round - 1 ELSE round]

\* The reader took nothing from the future.
NoFuture == \A i \in DOMAIN report : report[i] <= round

ReportOK ==
  /\ round \in Nat /\ nextField \in 0 .. 7
  /\ nextField \in FieldNo => round > 0
  /\ report \in Seq(Int) /\ Len(report) <= 6

RInv == ReportOK /\ WriterInPlace /\ NoFuture /\ NearlyOne

LEMMA SixFields == Len(Field) = 6
BY DEF Field

LEMMA InitRInv ==
  ASSUME TelemetryInit
  PROVE  RInv
<1>1. report = <<>> /\ report \in Seq(Int) /\ Len(report) = 0 /\ DOMAIN report = {}
  BY DEF TelemetryInit
<1>2. ReportOK /\ NoFuture /\ NearlyOne
  BY <1>1 DEF TelemetryInit, ReportOK, NoFuture, NearlyOne, FieldNo
<1>3. WriterInPlace
  BY SixFields DEF TelemetryInit, WriterInPlace, FieldNo
<1> QED BY <1>2, <1>3 DEF RInv

LEMMA MeasureRInv ==
  ASSUME RInv, measure
  PROVE  RInv'
<1>1. ReportOK' /\ NearlyOne'
  BY DEF RInv, measure, ReportOK, NearlyOne, FieldNo
<1>2. WriterInPlace'
  BY DEF RInv, measure, ReportOK, WriterInPlace, FieldNo
<1>3. NoFuture'
  <2> SUFFICES ASSUME NEW i \in DOMAIN report
               PROVE  report[i] <= round + 1
    BY DEF NoFuture, measure
  <2>1. report[i] \in Int /\ report[i] <= round /\ round \in Nat
    BY DEF RInv, ReportOK, NoFuture
  <2> QED BY <2>1
<1> QED BY <1>1, <1>2, <1>3 DEF RInv

\* ina226_read stores the present measurement in every field, the last two too.
LEMMA WriteRInv ==
  ASSUME RInv, ina226_read
  PROVE  RInv'
<1>1. nextField \in 1 .. 6 /\ round \in Nat /\ round > 0
  BY SixFields DEF RInv, ina226_read, ReportOK, FieldNo
<1>2. static' = [static EXCEPT ![nextField] = round]
  <2>1. nextField > 1 => static[1] = round
    BY <1>1 DEF RInv, WriterInPlace, FieldNo
  <2>2. nextField > 5 => static[5] = round
    BY <1>1 DEF RInv, WriterInPlace, FieldNo
  <2> DEFINE w == IF nextField = 5 THEN static[1] ELSE IF nextField = 6 THEN static[5] ELSE round
  <2>3. w = round
    BY <1>1, <2>1, <2>2
  <2>4. static' = [static EXCEPT ![nextField] = w]
    BY DEF ina226_read
  <2> HIDE DEF w
  <2> QED BY <2>3, <2>4
<1>3. nextField' = IF nextField = 6 THEN 0 ELSE nextField + 1
  BY <1>1 DEF ina226_read
<1>4. WriterInPlace'
  <2> DEFINE S == [f \in FieldNo |-> IF nextField' \in FieldNo /\ f >= nextField'
                                       THEN round - 1 ELSE round]
  <2>1. \A f \in FieldNo : [static EXCEPT ![nextField] = round][f] = S[f]
    BY <1>1, <1>3 DEF RInv, WriterInPlace, FieldNo
  <2>2. DOMAIN static = FieldNo /\ static = [f \in FieldNo |-> static[f]]
    BY DEF RInv, WriterInPlace
  <2>3. static' = S
    BY <1>2, <2>1, <2>2
  <2> QED BY <2>3 DEF WriterInPlace, ina226_read
<1>5. ReportOK' /\ NoFuture' /\ NearlyOne'
  BY <1>1, <1>3 DEF RInv, ina226_read, ReportOK, NoFuture, NearlyOne, FieldNo
<1> QED BY <1>4, <1>5 DEF RInv

\* What is read is at most one measurement old, whatever was read before it.
LEMMA ReadRInv ==
  ASSUME RInv, get_ina226_info
  PROVE  RInv'
<1>0. Len(report) \in Nat /\ Len(report) < 6
  BY SixFields DEF RInv, get_ina226_info, ReportOK
<1>1. PICK n \in 0 .. 5 : n = Len(report)
  <2>1. \A m \in Nat : m < 6 => m \in 0 .. 5
    OBVIOUS
  <2> QED BY <1>0, <2>1, Zenon
<1>2. round \in Nat /\ nextField \in 0 .. 7 /\ report \in Seq(Int)
  BY DEF RInv, ReportOK
<1>3. PICK v \in Int : v = static[n + 1] /\ round - 1 <= v /\ v <= round
  <2>1. n + 1 \in FieldNo
    BY DEF FieldNo
  <2>2. static[n + 1] = round \/ static[n + 1] = round - 1
    BY <2>1 DEF RInv, WriterInPlace
  <2> QED BY <1>2, <2>2
<1>4. /\ report' = Append(report, v)
      /\ UNCHANGED <<static, round, nextField>>
  BY <1>1, <1>3 DEF get_ina226_info
<1>5. /\ DOMAIN report = 1 .. n /\ DOMAIN report' = 1 .. (n + 1)
      /\ report' \in Seq(Int) /\ Len(report') = n + 1
      /\ report'[n + 1] = v /\ \A i \in 1 .. n : report'[i] = report[i]
  BY <1>1, <1>2, <1>4
<1>6. \A i \in 1 .. n : report[i] \in Int /\ report[i] <= round
  BY <1>1, <1>2, <1>5 DEF RInv, NoFuture
<1>7. NearlyOne'
  <2> SUFFICES ASSUME NEW i \in 1 .. (n + 1), NEW j \in 1 .. (n + 1), i < j
               PROVE  report'[j] + 1 >= report'[i]
    BY <1>5 DEF NearlyOne
  <2>1. CASE j = n + 1
    <3>1. i \in 1 .. n
      BY <2>1
    <3>2. report[i] \in Int /\ report[i] <= round
      BY <1>6, <3>1
    <3> QED BY <1>2, <1>3, <1>5, <2>1, <3>1, <3>2
  <2>2. CASE j # n + 1
    <3>1. i \in 1 .. n /\ j \in 1 .. n
      BY <2>2
    <3>2. report[j] + 1 >= report[i]
      BY <1>5, <3>1 DEF RInv, NearlyOne
    <3> QED BY <1>5, <3>1, <3>2
  <2> QED BY <2>1, <2>2
<1>8. NoFuture'
  <2> SUFFICES ASSUME NEW i \in 1 .. (n + 1)
               PROVE  report'[i] <= round
    BY <1>4, <1>5 DEF NoFuture
  <2> QED BY <1>3, <1>5, <1>6
<1>9. ReportOK'
  BY <1>4, <1>5 DEF RInv, ReportOK
<1>10. WriterInPlace'
  BY <1>4 DEF RInv, WriterInPlace
<1> QED BY <1>7, <1>8, <1>9, <1>10 DEF RInv

LEMMA SendRInv ==
  ASSUME RInv, send \/ UNCHANGED telemetryVars
  PROVE  RInv'
<1>1. CASE send
  <2>1. report' = <<>> /\ report' \in Seq(Int) /\ Len(report') = 0 /\ DOMAIN report' = {}
    BY <1>1 DEF send
  <2> QED BY <1>1, <2>1 DEF RInv, send, ReportOK, WriterInPlace, NoFuture, NearlyOne
<1>2. CASE UNCHANGED telemetryVars
  BY <1>2 DEF telemetryVars, RInv, ReportOK, WriterInPlace, NoFuture, NearlyOne
<1> QED BY <1>1, <1>2

\* The two threads of the telemetry, each at any pace: no field of a report is
\* more than one measurement older than a field before it.
THEOREM ReportsNearlyOne ==
  TelemetryInit /\ [][TelemetryNext]_telemetryVars => []NearlyOne
<1>1. TelemetryInit => RInv
  BY InitRInv
<1>2. RInv /\ [TelemetryNext]_telemetryVars => RInv'
  BY MeasureRInv, WriteRInv, ReadRInv, SendRInv DEF TelemetryNext
<1>3. RInv => NearlyOne
  BY DEF RInv
<1> QED BY <1>1, <1>2, <1>3, PTL

-----------------------------------------------------------------------------
(* LuaCfg *)

\* What table2file holds at each step, as long as the disk does what it should.
InPlace ==
  ~mishap =>
    /\ cfg = saved
    /\ pc = "write" => content = cfg
    /\ pc = "move" => tmp = Replaced(cfg)

CInv == InPlace /\ MeasuresItsTable

LEMMA InitCInv ==
  ASSUME CfgInit
  PROVE  CInv
BY DEF CfgInit, Constructed, CInv, InPlace, MeasuresItsTable

\* No reader and no setter touches the files.
LEMMA CallCInv ==
  ASSUME CInv,
         \/ ReadTableFromItem \/ ReadTableArrayFromItem \/ traverse_table
         \/ \E p \in Path : setCfgPath(p)
  PROVE  CInv'
<1>1. InPlace'
  <2>1. UNCHANGED <<diskVars, pc, content, job>>
    BY DEF ReadTableFromItem, ReadTableArrayFromItem, traverse_table, setCfgPath
  <2>2. Replaced(cfg)' = Replaced(cfg)
    BY <2>1 DEF Replaced, diskVars
  <2> QED BY <2>1, <2>2 DEF CInv, InPlace, diskVars
<1>2. MeasuresItsTable'
  <2>1. CASE ReadTableArrayFromItem
    <3>1. \E v : stack' = <<v>>
      BY <2>1 DEF ReadTableArrayFromItem, EmptiedWith
    <3>2. Len(stack') = 1
      BY <3>1
    <3> QED BY <2>1, <3>2 DEF ReadTableArrayFromItem, CInv, MeasuresItsTable
  <2>2. CASE UNCHANGED length_of
    BY <2>2 DEF CInv, MeasuresItsTable
  <2> QED BY <2>1, <2>2 DEF ReadTableFromItem, traverse_table, setCfgPath
<1> QED BY <1>1, <1>2 DEF CInv

\* table2file moves the new text into place in one step, and only there.
LEMMA WriterCInv ==
  ASSUME CInv,
         \/ \E t \in Table : table2file(t)
         \/ write_tmp \/ mvFile \/ reload
  PROVE  CInv'
<1>1. MeasuresItsTable'
  BY DEF table2file, write_tmp, mvFile, reload, luaVars, CInv, MeasuresItsTable
<1>2. CASE \E t \in Table : table2file(t)
  BY <1>1, <1>2 DEF table2file, ReadText, CInv, InPlace
<1>3. CASE write_tmp
  <2>1. UNCHANGED <<cfg, saved, content, job>> /\ pc = "write"
    BY <1>3 DEF write_tmp
  <2>2. pc' = "move" => mishap' \/ (tmp' = Replaced(content) /\ UNCHANGED mishap)
    BY <1>3 DEF write_tmp
  <2>3. mishap => mishap'
    BY <1>3 DEF write_tmp
  <2>4. Replaced(cfg)' = Replaced(cfg)
    BY <2>1 DEF Replaced
  <2> QED BY <1>1, <2>1, <2>2, <2>3, <2>4 DEF CInv, InPlace
<1>4. CASE mvFile
  <2>1. pc = "move" /\ pc' = "reload"
    BY <1>4 DEF mvFile
  <2>2. mishap' \/ (UNCHANGED mishap /\ cfg' = tmp /\ saved' = Replaced(saved))
    BY <1>4 DEF mvFile
  <2> QED BY <1>1, <2>1, <2>2 DEF CInv, InPlace
<1>5. CASE reload
  BY <1>1, <1>5 DEF reload, diskVars, CInv, InPlace
<1> QED BY <1>2, <1>3, <1>4, <1>5

\* A process that ends leaves the files as they are.
LEMMA RestartCInv ==
  ASSUME CInv, Restart
  PROVE  CInv'
BY DEF Restart, diskVars, CInv, InPlace, MeasuresItsTable

LEMMA NextCInv ==
  ASSUME CInv, [CfgNext]_cfgVars
  PROVE  CInv'
<1>1. CASE CfgNext
  BY <1>1, CallCInv, WriterCInv, RestartCInv DEF CfgNext
<1>2. CASE UNCHANGED cfgVars
  BY <1>2 DEF cfgVars, CInv, InPlace, MeasuresItsTable, Replaced
<1> QED BY <1>1, <1>2

\* table2file: as long as no file operation fails, every table is in the file at
\* its old or its new version, wherever the process ends.
THEOREM NoTableLost == CfgInit /\ [][CfgNext]_cfgVars => []NothingLost
<1>1. CInv => NothingLost
  BY DEF CInv, InPlace, NothingLost
<1> QED BY InitCInv, NextCInv, <1>1, PTL

\* ReadTableArrayFromItem empties the stack earlier failures have filled.
THEOREM MeasuresOwnTable == CfgInit /\ [][CfgNext]_cfgVars => []MeasuresItsTable
<1>1. CInv => MeasuresItsTable
  BY DEF CInv
<1> QED BY InitCInv, NextCInv, <1>1, PTL

-----------------------------------------------------------------------------
(* Types *)

LEMMA ReplacedContent ==
  ASSUME CfgAssumption, NEW c \in Content, job \in Table \X (1 .. MaxVersion)
  PROVE  Replaced(c) \in Content
<1>1. CASE c = Torn
  BY <1>1 DEF Replaced, Content
<1>2. CASE c # Torn
  <2>1. c \in SUBSET Entry /\ job \in Entry
    BY <1>2 DEF Content, Entry
  <2>2. {e \in c : e[1] # job[1]} \cup {job} \in SUBSET Entry
    BY <2>1
  <2> QED BY <1>2, <2>2 DEF Replaced, Content
<1> QED BY <1>1, <1>2

\* A version is given out before anything is written.
Writing == pc \in {"write", "move"} => job[2] # 0

TInv == CfgTypeOK /\ Writing

LEMMA StackRoom ==
  ASSUME CfgAssumption, NEW s \in Seq({"nil", "table", "message"}), Len(s) < MaxStack,
         NEW v \in {"nil", "table", "message"}
  PROVE  Append(s, v) \in Seq({"nil", "table", "message"}) /\ Len(Append(s, v)) <= MaxStack
BY DEF CfgAssumption

LEMMA DofileStack ==
  ASSUME CfgAssumption, NEW s \in Seq({"nil", "table", "message"}), Len(s) < MaxStack,
         NEW path
  PROVE  /\ AfterDofile(s, path) \in Seq({"nil", "table", "message"})
         /\ Len(AfterDofile(s, path)) <= MaxStack
BY StackRoom DEF AfterDofile, CfgAssumption

LEMMA EmptyStack ==
  ASSUME CfgAssumption
  PROVE  <<>> \in Seq({"nil", "table", "message"}) /\ Len(<<>>) = 0 /\ 0 < MaxStack
BY DEF CfgAssumption

LEMMA StartPath ==
  ASSUME NEW path \in Starts
  PROVE  path \in Seq(Path) /\ Len(path) <= 2
<1>1. CASE path = <<>>
  BY <1>1
<1>2. ASSUME NEW p \in Path, path = <<p>>
      PROVE  path \in Seq(Path) /\ Len(path) <= 2
  <2>1. <<p>> \in Seq(Path) /\ Len(<<p>>) = 1
    OBVIOUS
  <2> QED BY <1>2, <2>1
<1> QED BY <1>1, <1>2 DEF Starts

LEMMA InitTInv ==
  ASSUME CfgAssumption, CfgInit
  PROVE  TInv
<1>1. PICK path \in Starts : Constructed(path)
  BY DEF CfgInit
<1>2. luaPath \in Seq(Path) /\ Len(luaPath) <= 2
  BY <1>1, StartPath DEF Constructed
<1>3. stack \in Seq({"nil", "table", "message"}) /\ Len(stack) <= MaxStack
  <2>1. stack = <<>> \/ stack = AfterDofile(<<>>, path)
    BY <1>1 DEF Constructed
  <2>2. 0 <= MaxStack
    BY DEF CfgAssumption
  <2> QED BY <2>1, <2>2, EmptyStack, DofileStack
<1>4. {} \in Content
  BY DEF Content
<1>5. job \in Table \X (0 .. MaxVersion) /\ last \in 0 .. MaxVersion
  BY DEF CfgInit, CfgAssumption
<1>6. isReady \in BOOLEAN
  BY <1>1 DEF Constructed, Loads
<1> QED BY <1>1, <1>2, <1>3, <1>4, <1>5, <1>6 DEF CfgInit, Constructed, TInv, CfgTypeOK, Writing

LEMMA CallTInv ==
  ASSUME CfgAssumption, TInv,
         \/ ReadTableFromItem \/ ReadTableArrayFromItem \/ traverse_table
         \/ \E p \in Path : setCfgPath(p)
  PROVE  TInv'
<1>1. UNCHANGED <<diskVars, pc, content, job, last>> /\ Room
  BY DEF ReadTableFromItem, ReadTableArrayFromItem, traverse_table, setCfgPath, Calls
<1>2. stack \in Seq({"nil", "table", "message"}) /\ Len(stack) < MaxStack
      /\ Len(stack) <= MaxStack
  BY <1>1 DEF Room, TInv, CfgTypeOK
<1>3. stack' \in Seq({"nil", "table", "message"}) /\ Len(stack') <= MaxStack
  <2>1. CASE ReadTableFromItem \/ traverse_table
    BY <1>2, <2>1, StackRoom DEF ReadTableFromItem, traverse_table, EarlyReturns
  <2>2. CASE ReadTableArrayFromItem
    <3>1. PICK v \in {"nil", "table"} : stack' = <<v>>
      BY <2>2 DEF ReadTableArrayFromItem, EmptiedWith
    <3>2. 1 <= MaxStack
      BY DEF CfgAssumption
    <3> QED BY <3>1, <3>2
  <2>3. CASE \E p \in Path : setCfgPath(p)
    <3>1. stack' = <<>> \/ stack' = AfterDofile(stack, luaPath')
      BY <2>3 DEF setCfgPath
    <3>2. 0 <= MaxStack
      BY DEF CfgAssumption
    <3> QED BY <1>2, <3>1, <3>2, EmptyStack, DofileStack
  <2> QED BY <2>1, <2>2, <2>3
<1>4. L' \in {"open", "used", "aborted"} /\ isReady' \in BOOLEAN
  BY DEF ReadTableFromItem, ReadTableArrayFromItem, traverse_table, setCfgPath, Loads,
         TInv, CfgTypeOK
<1>5. luaPath' \in Seq(Path) /\ Len(luaPath') <= 2
  <2>1. luaPath \in Seq(Path) /\ Len(luaPath) <= 2
    BY DEF TInv, CfgTypeOK
  <2>2. ASSUME NEW p \in Path, setCfgPath(p)
        PROVE  luaPath' \in Seq(Path) /\ Len(luaPath') <= 2
    BY <2>1, <2>2 DEF setCfgPath
  <2> QED BY <2>1, <2>2 DEF ReadTableFromItem, ReadTableArrayFromItem, traverse_table
<1>6. length_of' \in {"none", "own", "other"}
  BY DEF ReadTableFromItem, ReadTableArrayFromItem, traverse_table, setCfgPath,
         TInv, CfgTypeOK
<1> QED BY <1>1, <1>3, <1>4, <1>5, <1>6 DEF TInv, CfgTypeOK, Writing, diskVars

LEMMA WriterTInv ==
  ASSUME CfgAssumption, TInv,
         \/ \E t \in Table : table2file(t)
         \/ write_tmp \/ mvFile
  PROVE  TInv'
<1>1. UNCHANGED luaVars
  BY DEF table2file, write_tmp, mvFile
<1>2. {} \in Content /\ Torn \in Content
  BY DEF Content
<1>3. ASSUME pc \in {"write", "move"}, NEW c \in Content
      PROVE  Replaced(c) \in Content
  <2>1. job \in Table \X (1 .. MaxVersion)
    BY <1>3 DEF TInv, CfgTypeOK, Writing
  <2> QED BY <2>1, ReplacedContent
<1>4. ASSUME NEW t \in Table, table2file(t)
      PROVE  TInv'
  <2>1. job' \in Table \X (0 .. MaxVersion) /\ last' \in 0 .. MaxVersion /\ job'[2] # 0
    BY <1>4 DEF table2file, TInv, CfgTypeOK, CfgAssumption
  <2>2. content' \in Content /\ mishap' \in BOOLEAN /\ pc' = "write"
        /\ UNCHANGED <<cfg, tmp, saved>>
    BY <1>2, <1>4 DEF table2file, ReadText, TInv, CfgTypeOK
  <2> QED BY <1>1, <2>1, <2>2 DEF TInv, CfgTypeOK, Writing, luaVars
<1>5. CASE write_tmp
  <2>1. tmp' \in Content /\ mishap' \in BOOLEAN /\ pc' \in {"idle", "write", "move"}
    BY <1>2, <1>3, <1>5 DEF write_tmp, TInv, CfgTypeOK
  <2>2. pc = "write" /\ UNCHANGED <<cfg, saved, content, job, last>>
    BY <1>5 DEF write_tmp
  <2> QED BY <1>1, <2>1, <2>2 DEF TInv, CfgTypeOK, Writing, luaVars
<1>6. CASE mvFile
  <2>1. /\ cfg' \in Content /\ tmp' \in Content /\ saved' \in Content
        /\ mishap' \in BOOLEAN
    BY <1>2, <1>3, <1>6 DEF mvFile, TInv, CfgTypeOK
  <2>2. pc' = "reload" /\ UNCHANGED <<content, job, last>>
    BY <1>6 DEF mvFile
  <2> QED BY <1>1, <2>1, <2>2 DEF TInv, CfgTypeOK, Writing, luaVars
<1> QED BY <1>4, <1>5, <1>6

\* What makes a new Lua state.
LEMMA AnewTInv ==
  ASSUME CfgAssumption, TInv, reload \/ Restart
  PROVE  TInv'
<1>1. UNCHANGED <<diskVars, job, last>> /\ L' = "open" /\ pc' = "idle" /\ content' = {}
  BY DEF reload, Restart
<1>2. {} \in Content
  BY DEF Content
<1>3. luaPath' \in Seq(Path) /\ Len(luaPath') <= 2
  BY StartPath DEF reload, Restart, TInv, CfgTypeOK
<1>4. stack' \in Seq({"nil", "table", "message"}) /\ Len(stack') <= MaxStack
  <2>1. stack' = <<>> \/ \E path : stack' = AfterDofile(<<>>, path)
    BY DEF reload, Restart
  <2>2. 0 <= MaxStack
    BY DEF CfgAssumption
  <2> QED BY <2>1, <2>2, EmptyStack, DofileStack
<1>5. isReady' \in BOOLEAN /\ length_of' \in {"none", "own", "other"}
  BY DEF reload, Restart, Loads, TInv, CfgTypeOK
<1> QED BY <1>1, <1>2, <1>3, <1>4, <1>5 DEF TInv, CfgTypeOK, Writing, diskVars

\* CLuaCfg's state stays in its types: the readers leave at most what there is
\* room for, and only whole tables or Torn are ever in a file.
THEOREM TypeCorrect == CfgInit /\ [][CfgNext]_cfgVars => []CfgTypeOK
<1>1. CfgInit => TInv
  BY InitTInv, CfgAssumption
<1>2. TInv /\ [CfgNext]_cfgVars => TInv'
  <2>1. TInv /\ CfgNext => TInv'
    BY CallTInv, WriterTInv, AnewTInv, CfgAssumption DEF CfgNext
  <2>2. TInv /\ UNCHANGED cfgVars => TInv'
    BY DEF cfgVars, TInv, CfgTypeOK, Writing
  <2> QED BY <2>1, <2>2
<1>3. TInv => CfgTypeOK
  BY DEF TInv
<1> QED BY <1>1, <1>2, <1>3, PTL

-----------------------------------------------------------------------------
(* make_dirs and touchFile *)

\* The last element taken off.
LEMMA FrontIsASequence ==
  ASSUME NEW S, NEW s \in Seq(S)
  PROVE  Front(s) \in Seq(S)
<1>1. Len(s) \in Nat /\ \A i \in 1 .. Len(s) - 1 : s[i] \in S
  OBVIOUS
<1> QED BY <1>1, SubSeqProperties DEF Front

\* The pieces of a path between its slashes.
LEMMA PiecesAreASequence ==
  ASSUME NEW path, path \in Seq(Range(path))
  PROVE  \E S : split_into_components(path) \in Seq(S)
<1> DEFINE places == [i \in 1 .. Len(path) + 2 |-> i - 1]
           slash == {i \in DOMAIN path : path[i] = "/"}
           cut == Those(places, slash \cup {0, Len(path) + 1})
           S == {SubSeq(path, cut[k] + 1, cut[k + 1] - 1) : k \in 1 .. Len(cut) - 1}
           piece == [k \in 1 .. Len(cut) - 1 |-> SubSeq(path, cut[k] + 1, cut[k + 1] - 1)]
<1>1. Len(cut) \in Nat
  <2>1. Len(path) \in Nat
    OBVIOUS
  <2>2. places \in Seq(Int)
    BY <2>1
  <2>3. cut \in Seq(Int)
    <3> HIDE DEF places, slash
    <3> QED BY <2>2, ThoseProperties
  <2> HIDE DEF cut
  <2> QED BY <2>3
<1>2. piece \in Seq(S)
  <2> HIDE DEF cut
  <2>1. PICK n \in Nat : 1 .. n = 1 .. Len(cut) - 1
    <3>1. CASE Len(cut) = 0
      BY <3>1
    <3>2. CASE Len(cut) > 0
      BY <1>1, <3>2
    <3> QED BY <1>1, <3>1, <3>2
  <2>2. \A k \in 1 .. n : piece[k] \in S
    BY <2>1
  <2>3. piece \in [1 .. n -> S]
    <3>1. piece = [k \in 1 .. n |-> piece[k]]
      BY <2>1
    <3> HIDE DEF piece, S
    <3> QED BY <2>2, <3>1
  <2> HIDE DEF piece, S
  <2> QED BY <2>3
<1>3. Front(piece) \in Seq(S)
  <2> HIDE DEF piece, S
  <2> QED BY <1>2, FrontIsASequence
<1>4. split_into_components(path) = IF Last(piece) = <<>> THEN Front(piece) ELSE piece
  BY DEF split_into_components
<1> HIDE DEF piece, S
<1> QED BY <1>2, <1>3, <1>4

\* What make_dirs goes through is a sequence.
LEMMA TargetsAreASequence ==
  ASSUME NEW path \in CallPath
  PROVE  \E S : Targets(path) \in Seq(S)
<1> DEFINE c == split_into_components(path)
<1>1. PICK S : c \in Seq(S)
  BY PiecesAreASequence, PathsAssumption
<1>2. remove_empty(c) \in Seq(S)
  <2> HIDE DEF c
  <2> QED BY <1>1, ThoseProperties DEF remove_empty
<1> DEFINE both == S \cup Range(Cwd)
<1>3. split_path(path) \in Seq(both)
  <2>1. remove_empty(c) \in Seq(both) /\ Cwd \in Seq(both)
    BY <1>2, PathsAssumption, SeqMonotonic
  <2>2. Cwd \o remove_empty(c) \in Seq(both)
    BY <2>1, ConcatProperties
  <2>3. split_path(path) \in {remove_empty(c), Cwd \o remove_empty(c)}
    BY DEF split_path
  <2> QED BY <2>1, <2>2, <2>3
<1>4. split_path(path) # <<>> => Front(split_path(path)) \in Seq(both)
  BY <1>3, FrontIsASequence
<1> QED BY <1>3, <1>4 DEF Targets

\* A directory is made in the one that the prefix before names.
LEMMA PrefixesOfTargets ==
  ASSUME NEW path \in CallPath
  PROVE  /\ Len(Targets(path)) \in Nat
         /\ DOMAIN Targets(path) = 1 .. Len(Targets(path))
         /\ \A n \in 1 .. Len(Targets(path)) :
              Front(SubSeq(Targets(path), 1, n)) = SubSeq(Targets(path), 1, n - 1)
<1>1. PICK all : all = Targets(path)
  OBVIOUS
<1>2. PICK S : all \in Seq(S)
  BY <1>1, TargetsAreASequence
<1>3. Len(all) \in Nat /\ DOMAIN all = 1 .. Len(all) /\ \A i \in 1 .. Len(all) : all[i] \in S
  BY <1>2
<1>4. ASSUME NEW n \in 1 .. Len(all)
      PROVE  Front(SubSeq(all, 1, n)) = SubSeq(all, 1, n - 1)
  <2>1. /\ SubSeq(all, 1, n) \in Seq(S) /\ Len(SubSeq(all, 1, n)) = n
        /\ \A i \in 1 .. n : SubSeq(all, 1, n)[i] = all[i]
    BY <1>3
  <2>2. /\ SubSeq(all, 1, n - 1) \in Seq(S) /\ Len(SubSeq(all, 1, n - 1)) = n - 1
        /\ \A i \in 1 .. n - 1 : SubSeq(all, 1, n - 1)[i] = all[i]
    BY <1>3
  <2>3. PICK p : p = SubSeq(all, 1, n)
    OBVIOUS
  <2>4. SubSeq(p, 1, n - 1) = SubSeq(all, 1, n - 1)
    BY <1>3, <2>1, <2>2, <2>3
  <2> QED BY <2>1, <2>3, <2>4 DEF Front
<1> QED BY <1>1, <1>3, <1>4

\* The components that p goes through.
All(p) == Targets(call[p].path)

\* Behind process p there is all that it has passed.
Passed(p) ==
  /\ call[p].path \in CallPath
  /\ call[p].at \in 1 .. Len(All(p)) + 1
  /\ \A n \in 1 .. call[p].at - 1 : Exists(Prefix(p, n))

\* What was not there when p looked, another process has made.
NotMine(p) ==
  LET d == Prefix(p, call[p].at)
  IN  d \in dirs => d \in DOMAIN maker /\ maker[d] # p

\* The reasons for -1.
Blocked(p) ==
  \/ All(p) = <<>> \/ \E n \in DOMAIN All(p) : Prefix(p, n) \in files
  \/ Prefix(p, call[p].at) \in DOMAIN maker /\ maker[Prefix(p, call[p].at)] # p

CallOK(p) ==
  /\ call[p].pc \in {"idle", "stat", "mkdir", "done"}
  /\ call[p].pc = "stat" => Passed(p)
  /\ call[p].pc = "mkdir" => Passed(p) /\ call[p].at <= Len(All(p)) /\ NotMine(p)
  /\ call[p].pc = "done" =>
       /\ call[p].result = "0" => \A n \in DOMAIN All(p) : Exists(Prefix(p, n))
       /\ call[p].result = "-1" => Blocked(p)
       /\ call[p].result = "true" => split_path(call[p].path) \in files

CallRecords == [pc : {"idle", "stat", "mkdir", "done"}, path : CallPath \cup {<<>>},
                at : Nat, result : {"none", "0", "-1", "true", "false"}]

\* Nothing is removed, and who made what stays.
Grown ==
  /\ dirs \subseteq dirs' /\ files \subseteq files'
  /\ \A d \in DOMAIN maker : d \in DOMAIN maker' /\ maker'[d] = maker[d]

MInv ==
  /\ <<>> \in dirs
  /\ DOMAIN maker \subseteq dirs
  /\ call \in [Proc -> CallRecords]
  /\ \A p \in Proc : CallOK(p)

\* A process that does not move keeps its invariant while others make things.
LEMMA OthersGoOn ==
  ASSUME NEW q \in Proc, CallOK(q), call'[q] = call[q], Grown,
         \A d \in dirs' \ dirs : d \in DOMAIN maker' /\ maker'[d] # q
  PROVE  CallOK(q)'
<1>1. All(q)' = All(q) /\ \A n : Prefix(q, n)' = Prefix(q, n)
  BY DEF All, Prefix
<1>2. \A c : Exists(c) => Exists(c)'
  BY DEF Exists, Grown
<1>3. Passed(q) => Passed(q)'
  BY <1>1, <1>2 DEF Passed
<1>4. NotMine(q) => NotMine(q)'
  BY <1>1 DEF NotMine, Grown
<1>5. Blocked(q) => Blocked(q)'
  BY <1>1 DEF Blocked, Grown
<1> QED BY <1>1, <1>2, <1>3, <1>4, <1>5 DEF CallOK, Grown

\* A step of p leaves the others where they are.
LEMMA StepMInv ==
  ASSUME MInv, NEW p \in Proc, NEW c \in CallRecords, call' = [call EXCEPT ![p] = c], Grown,
         \A d \in DOMAIN maker' \ DOMAIN maker : d \in dirs',
         \A d \in dirs' \ dirs : d \in DOMAIN maker' /\ maker'[d] = p,
         CallOK(p)'
  PROVE  MInv'
<1>1. <<>> \in dirs' /\ DOMAIN maker' \subseteq dirs'
  BY DEF MInv, Grown
<1>2. call' \in [Proc -> CallRecords]
  BY DEF MInv
<1>3. ASSUME NEW q \in Proc, q # p PROVE CallOK(q)'
  <2>1. call'[q] = call[q] /\ CallOK(q)
    BY <1>3 DEF MInv
  <2>2. \A d \in dirs' \ dirs : d \in DOMAIN maker' /\ maker'[d] # q
    BY <1>3
  <2> QED BY <2>1, <2>2, OthersGoOn
<1> QED BY <1>1, <1>2, <1>3 DEF MInv

\* Nobody has called yet.
LEMMA InitMInv ==
  ASSUME FileInit
  PROVE  MInv
<1>1. <<>> \in dirs
  <2>1. Len(Cwd) \in Nat /\ SubSeq(Cwd, 1, 0) = <<>>
    BY PathsAssumption
  <2>2. 0 \in 0 .. Len(Cwd)
    BY <2>1
  <2> QED BY <2>1, <2>2 DEF FileInit
<1>2. DOMAIN maker \subseteq dirs
  BY DEF FileInit
<1>3. call = [p \in Proc |-> Idle]
  BY DEF FileInit
<1> QED BY <1>1, <1>2, <1>3 DEF MInv, CallOK, Idle, CallRecords

\* The call, of a path with components and without.
LEMMA CallMInv ==
  ASSUME MInv, NEW p \in Proc, NEW path \in CallPath, make_dirs(p, path)
  PROVE  MInv'
<1>1. UNCHANGED <<dirs, files, maker>> /\ Grown
  BY DEF make_dirs, Grown
<1>2. CASE split_path(path) = <<>>
  <2> DEFINE c == [pc |-> "done", path |-> path, at |-> 0, result |-> "-1"]
  <2>1. call' = [call EXCEPT ![p] = c] /\ call'[p] = c
    BY <1>2 DEF make_dirs, MInv
  <2>2. All(p)' = <<>>
    BY <1>2, <2>1 DEF All, Targets
  <2>3. CallOK(p)'
    BY <2>1, <2>2 DEF CallOK, Blocked
  <2>4. c \in CallRecords
    BY DEF CallRecords
  <2> QED BY <1>1, <2>1, <2>3, <2>4, StepMInv
<1>3. CASE split_path(path) # <<>>
  <2> DEFINE c == [pc |-> "stat", path |-> path, at |-> 1, result |-> "none"]
  <2>1. call' = [call EXCEPT ![p] = c] /\ call'[p] = c
    BY <1>3 DEF make_dirs, MInv
  <2>2. All(p)' = Targets(path) /\ Len(Targets(path)) \in Nat
    BY <2>1, PrefixesOfTargets DEF All
  <2>3. CallOK(p)'
    BY <2>1, <2>2 DEF CallOK, Passed
  <2>4. c \in CallRecords
    BY DEF CallRecords
  <2> QED BY <1>1, <2>1, <2>3, <2>4, StepMInv
<1> QED BY <1>2, <1>3

\* stat: the end, a component that is there, one that is not.
LEMMA StatMInv ==
  ASSUME MInv, NEW p \in Proc, stat(p)
  PROVE  MInv'
<1>1. UNCHANGED <<dirs, files, maker>> /\ Grown
  BY DEF stat, Grown
<1>2. call[p] \in CallRecords /\ Passed(p)
  BY DEF MInv, CallOK, stat
<1>3. Len(All(p)) \in Nat /\ DOMAIN All(p) = 1 .. Len(All(p)) /\ call[p].at \in Nat
  BY <1>2, PrefixesOfTargets DEF All, Passed
<1>4. CASE call[p].at > Len(All(p))
  <2> DEFINE c == [call[p] EXCEPT !.pc = "done", !.result = "0"]
  <2>1. call' = [call EXCEPT ![p] = c] /\ call'[p] = c /\ c \in CallRecords
    BY <1>2, <1>4 DEF stat, Ends, All, MInv, CallRecords
  <2>2. \A n \in DOMAIN All(p) : Exists(Prefix(p, n))
    BY <1>2, <1>3, <1>4 DEF Passed
  <2>3. CallOK(p)'
    BY <1>1, <1>2, <2>1, <2>2 DEF CallOK, All, Prefix, Exists, CallRecords
  <2> QED BY <1>1, <2>1, <2>3, StepMInv
<1>5. CASE call[p].at <= Len(All(p)) /\ Exists(Prefix(p, call[p].at))
  <2> DEFINE c == [call[p] EXCEPT !.at = @ + 1]
  <2>1. call' = [call EXCEPT ![p] = c] /\ call'[p] = c /\ c \in CallRecords
    BY <1>2, <1>3, <1>5 DEF stat, All, MInv, CallRecords
  <2>2. Passed(p)'
    <3>1. call'[p].at = call[p].at + 1 /\ call'[p].path = call[p].path
      BY <1>2, <2>1 DEF CallRecords
    <3>2. All(p)' = All(p) /\ \A n : Prefix(p, n)' = Prefix(p, n)
      BY <3>1 DEF All, Prefix
    <3> QED BY <1>1, <1>2, <1>3, <1>5, <3>1, <3>2 DEF Passed, Exists
  <2>3. CallOK(p)'
    BY <1>2, <2>1, <2>2 DEF CallOK, CallRecords, stat
  <2> QED BY <1>1, <2>1, <2>3, StepMInv
<1>6. CASE call[p].at <= Len(All(p)) /\ ~ Exists(Prefix(p, call[p].at))
  <2> DEFINE c == [call[p] EXCEPT !.pc = "mkdir"]
  <2>1. call' = [call EXCEPT ![p] = c] /\ call'[p] = c /\ c \in CallRecords
    BY <1>2, <1>3, <1>6 DEF stat, Goes, All, MInv, CallRecords
  <2>2. call'[p].at = call[p].at /\ call'[p].path = call[p].path /\ call'[p].pc = "mkdir"
    BY <1>2, <2>1 DEF CallRecords
  <2>3. All(p)' = All(p) /\ \A n : Prefix(p, n)' = Prefix(p, n)
    BY <2>2 DEF All, Prefix
  <2>4. Passed(p)' /\ NotMine(p)'
    BY <1>1, <1>2, <1>6, <2>2, <2>3 DEF Passed, NotMine, Exists
  <2>5. CallOK(p)'
    BY <1>6, <2>2, <2>3, <2>4 DEF CallOK
  <2> QED BY <1>1, <2>1, <2>5, StepMInv
<1> QED BY <1>3, <1>4, <1>5, <1>6

\* mkdir: a directory more, or a reason for -1.
LEMMA MkdirMInv ==
  ASSUME MInv, NEW p \in Proc, mkdir(p)
  PROVE  MInv'
<1> DEFINE d == Prefix(p, call[p].at)
<1>1. call[p] \in CallRecords /\ Passed(p) /\ call[p].at <= Len(All(p)) /\ NotMine(p)
  BY DEF MInv, CallOK, mkdir
<1>2. Len(All(p)) \in Nat /\ DOMAIN All(p) = 1 .. Len(All(p)) /\ call[p].at \in DOMAIN All(p)
  BY <1>1, PrefixesOfTargets DEF All, Passed
<1>3. CASE ~ Exists(d) /\ Front(d) \in dirs
  <2> DEFINE c == [call[p] EXCEPT !.pc = "stat", !.at = @ + 1]
  <2>1. call' = [call EXCEPT ![p] = c] /\ call'[p] = c /\ c \in CallRecords
    BY <1>1, <1>2, <1>3 DEF mkdir, MInv, CallRecords
  <2>2. dirs' = dirs \cup {d} /\ UNCHANGED files
        /\ maker' = [e \in DOMAIN maker \cup {d} |-> IF e = d THEN p ELSE maker[e]]
    BY <1>3 DEF mkdir, Makes
  <2>3. /\ DOMAIN maker' = DOMAIN maker \cup {d}
        /\ maker'[d] = p /\ \A e \in DOMAIN maker \ {d} : maker'[e] = maker[e]
    <3> HIDE DEF d
    <3> QED BY <2>2
  <2>4. d \notin DOMAIN maker
    BY <1>3 DEF MInv, Exists
  <2>5. Grown
    BY <2>2, <2>3, <2>4 DEF Grown
  <2>6. Passed(p)'
    <3>1. call'[p].at = call[p].at + 1 /\ call'[p].path = call[p].path
      BY <1>1, <2>1 DEF CallRecords
    <3>2. All(p)' = All(p) /\ \A n : Prefix(p, n)' = Prefix(p, n)
      BY <3>1 DEF All, Prefix
    <3>3. \A n \in 1 .. call[p].at : Exists(Prefix(p, n))'
      BY <1>1, <1>2, <2>2, <3>2 DEF Passed, Exists
    <3> QED BY <1>1, <1>2, <3>1, <3>2, <3>3 DEF Passed
  <2>7. CallOK(p)'
    BY <1>1, <2>1, <2>6 DEF CallOK, CallRecords
  <2> HIDE DEF d, c
  <2> QED BY <2>1, <2>2, <2>3, <2>5, <2>7, StepMInv
<1>4. CASE Exists(d) \/ Front(d) \notin dirs
  <2> DEFINE c == [call[p] EXCEPT !.pc = "done", !.result = "-1"]
  <2>1. call' = [call EXCEPT ![p] = c] /\ call'[p] = c /\ c \in CallRecords
    BY <1>1, <1>4 DEF mkdir, Ends, MInv, CallRecords
  <2>2. UNCHANGED <<dirs, files, maker>> /\ Grown
    BY <1>4 DEF mkdir, Grown
  <2>3. Blocked(p)
    <3>1. CASE d \in dirs
      BY <1>1, <3>1 DEF NotMine, Blocked
    <3>2. CASE d \in files
      BY <1>2, <3>2 DEF Blocked
    <3>3. CASE Front(d) \notin dirs
      <4>1. Front(d) = Prefix(p, call[p].at - 1)
        BY <1>1, <1>2, PrefixesOfTargets DEF Passed, Prefix, All
      <4>2. call[p].at # 1
        <5>1. Prefix(p, 0) = <<>>
          BY <1>1, <1>2, SubSeqEmpty DEF Prefix, All
        <5> QED BY <3>3, <4>1, <5>1 DEF MInv
      <4>3. call[p].at - 1 \in DOMAIN All(p) /\ Exists(Prefix(p, call[p].at - 1))
        BY <1>1, <1>2, <4>2 DEF Passed
      <4> QED BY <3>3, <4>1, <4>3 DEF Blocked, Exists
    <3> QED BY <1>4, <3>1, <3>2, <3>3 DEF Exists
  <2>4. CallOK(p)'
    <3>1. /\ call'[p].at = call[p].at /\ call'[p].path = call[p].path
          /\ call'[p].pc = "done" /\ call'[p].result = "-1"
      BY <1>1, <2>1 DEF CallRecords
    <3>2. All(p)' = All(p) /\ \A n : Prefix(p, n)' = Prefix(p, n)
      BY <3>1 DEF All, Prefix
    <3>3. Blocked(p)'
      BY <2>2, <2>3, <3>1, <3>2 DEF Blocked
    <3> QED BY <3>1, <3>3 DEF CallOK
  <2> QED BY <2>1, <2>2, <2>4, StepMInv
<1> QED BY <1>3, <1>4

\* The file is opened, and the caller goes on.
LEMMA TouchMInv ==
  ASSUME MInv, NEW p \in Proc, touchFile(p) \/ Returned(p)
  PROVE  MInv'
<1>1. call[p] \in CallRecords /\ UNCHANGED <<dirs, maker>> /\ files \subseteq files' /\ Grown
  BY DEF MInv, touchFile, Returned, Grown
<1>2. ASSUME NEW r \in {"true", "false"}, touchFile(p), Ends(p, r),
             r = "true" => split_path(call[p].path) \in files'
      PROVE  MInv'
  <2> DEFINE c == [call[p] EXCEPT !.pc = "done", !.result = r]
  <2>1. call' = [call EXCEPT ![p] = c] /\ call'[p] = c /\ c \in CallRecords
    BY <1>1, <1>2 DEF Ends, MInv, CallRecords
  <2>2. CallOK(p)'
    BY <1>1, <1>2, <2>1 DEF CallOK, CallRecords
  <2> QED BY <1>1, <2>1, <2>2, StepMInv
<1>3. CASE touchFile(p)
  <2>1. \E r \in {"true", "false"} :
          Ends(p, r) /\ (r = "true" => split_path(call[p].path) \in files')
    BY <1>3 DEF touchFile
  <2> QED BY <1>2, <1>3, <2>1
<1>4. CASE Returned(p)
  <2>1. call' = [call EXCEPT ![p] = Idle] /\ call'[p] = Idle /\ Idle \in CallRecords
    BY <1>4 DEF Returned, MInv, CallRecords, Idle
  <2>2. CallOK(p)'
    BY <2>1 DEF CallOK, Idle
  <2> QED BY <1>1, <2>1, <2>2, StepMInv
<1> QED BY <1>3, <1>4

\* make_dirs tells the truth, however the steps of any number of processes fall
\* between its stat and its mkdir: 0 means that all of the path is there, -1
\* that a file is in the way or another process was first.
THEOREM DirsAreMade == FileInit /\ [][FileNext]_fileVars => []MakesDirs
<1>1. FileInit => MInv
  BY InitMInv
<1>2. MInv /\ [FileNext]_fileVars => MInv'
  <2>1. MInv /\ FileNext => MInv'
    BY CallMInv, StatMInv, MkdirMInv, TouchMInv DEF FileNext
  <2>2. MInv /\ UNCHANGED fileVars => MInv'
    BY DEF fileVars, MInv, CallOK, Passed, NotMine, Blocked, All, Prefix, Exists
  <2> QED BY <2>1, <2>2
<1>3. MInv => MakesDirs
  BY DEF MInv, CallOK, Blocked, MakesDirs, All, Prefix
<1> QED BY <1>1, <1>2, <1>3, PTL

-----------------------------------------------------------------------------
(* CValue *)

\* There are more strings than objects: no assignment of objects to strings is
\* one to one.
EnoughMemory ==
  \A f \in [Ptr -> Obj] : \E p, q \in Ptr : p # q /\ f[p] = f[q]

Mem == [obj : [Obj -> [type : Type \cup {"dead"}, field : Int \cup Ptr]],
        heap : [Ptr -> Text \cup {Free}]]

IsText(m, x) == m.obj[x].type = "STRING"

\* A STRING has a string, which is its own.
Owns(m) ==
  \A x \in Obj : IsText(m, x) =>
    /\ m.obj[x].field \in Ptr /\ m.heap[m.obj[x].field] # Free
    /\ \A y \in Obj : IsText(m, y) /\ m.obj[y].field = m.obj[x].field => y = x

\* Every allocated string has an owner.
Owned(m) ==
  \A p \in Ptr : m.heap[p] # Free => \E x \in Obj : IsText(m, x) /\ m.obj[x].field = p

Good(m) == m \in Mem /\ Owns(m) /\ Owned(m)

-----------------------------------------------------------------------------
(* The private functions *)

LEMMA WriteFields ==
  ASSUME NEW m \in Mem, NEW x \in Obj, NEW t \in Type \cup {"dead"}, NEW f \in Int \cup Ptr
  PROVE  /\ Write(m, x, t, f) \in Mem
         /\ Write(m, x, t, f).heap = m.heap
         /\ Write(m, x, t, f).obj[x] = [type |-> t, field |-> f]
         /\ \A y \in Obj \ {x} : Write(m, x, t, f).obj[y] = m.obj[y]
BY DEF Write, Mem

\* Writing a number over what is not a text.
LEMMA WriteGood ==
  ASSUME NEW m, Good(m), NEW x \in Obj, ~IsText(m, x),
         NEW t \in (Type \cup {"dead"}) \ {"STRING"}, NEW f \in Int \cup Ptr
  PROVE  Good(Write(m, x, t, f))
<1> DEFINE w == Write(m, x, t, f)
<1>0. m \in Mem /\ t \in Type \cup {"dead"} /\ t # "STRING"
  BY DEF Good
<1>1. /\ w \in Mem /\ w.heap = m.heap /\ w.obj[x] = [type |-> t, field |-> f]
      /\ \A y \in Obj \ {x} : w.obj[y] = m.obj[y]
  BY <1>0, WriteFields
<1> HIDE DEF w
<1>2. \A y \in Obj : /\ IsText(w, y) <=> IsText(m, y)
                     /\ IsText(w, y) => w.obj[y].field = m.obj[y].field
  <2> SUFFICES ASSUME NEW y \in Obj
               PROVE  /\ IsText(w, y) <=> IsText(m, y)
                      /\ IsText(w, y) => w.obj[y].field = m.obj[y].field
    OBVIOUS
  <2>1. CASE y = x
    BY <1>0, <1>1, <2>1 DEF IsText
  <2>2. CASE y # x
    BY <1>1, <2>2 DEF IsText
  <2> QED BY <2>1, <2>2
<1>3. Owns(w) /\ Owned(w)
  BY <1>1, <1>2 DEF Good, Owns, Owned
<1> QED BY <1>1, <1>3 DEF Good, w

\* delete makes a string free and takes it from its owner.
LEMMA ClearGood ==
  ASSUME NEW m, ValueAssumption, Good(m), NEW x \in Obj
  PROVE  /\ Good(clear(m, x)) /\ clear(m, x).obj[x].type = "NONE"
         /\ \A y \in Obj \ {x} : clear(m, x).obj[y] = m.obj[y]
         /\ \A y \in Obj \ {x} : IsText(m, y) =>
              clear(m, x).heap[m.obj[y].field] = m.heap[m.obj[y].field]
<1> DEFINE f == m.obj[x].field
           c == clear(m, x)
<1>0. m \in Mem /\ Null \in Int /\ "NONE" \in Type
  BY DEF Good, Null, Type
<1>1. CASE IsText(m, x)
  <2> DEFINE d == [m EXCEPT !.heap[f] = Free]
  <2>1. f \in Ptr /\ f # Null
    BY <1>1 DEF Good, Owns, ValueAssumption, Null
  <2>2. c = Write(d, x, "NONE", Null)
    BY <1>1, <2>1 DEF clear, IsText
  <2>3. /\ d \in Mem /\ d.obj = m.obj /\ d.heap[f] = Free
        /\ \A p \in Ptr \ {f} : d.heap[p] = m.heap[p]
    BY <1>0, <2>1 DEF Mem
  <2> HIDE DEF c, d
  <2>4. /\ c \in Mem /\ c.heap = d.heap /\ c.obj[x] = [type |-> "NONE", field |-> Null]
        /\ \A y \in Obj \ {x} : c.obj[y] = m.obj[y]
    BY <1>0, <2>2, <2>3, WriteFields
  <2>5. \A y \in Obj \ {x} : IsText(m, y) => m.obj[y].field \in Ptr \ {f}
    BY <1>1 DEF Good, Owns
  <2>6. ~IsText(c, x) /\ \A y \in Obj \ {x} : IsText(c, y) <=> IsText(m, y)
    BY <2>4 DEF IsText
  <2>7. Owns(c)
    BY <2>3, <2>4, <2>5, <2>6 DEF Good, Owns
  <2>8. Owned(c)
    BY <2>3, <2>4, <2>6 DEF Good, Owned
  <2> QED BY <2>3, <2>4, <2>5, <2>7, <2>8 DEF Good, c
<1>2. CASE ~IsText(m, x)
  <2>1. c = Write(m, x, "NONE", Null)
    BY <1>2 DEF clear, IsText
  <2>2. Good(c)
    BY <1>0, <1>2, <2>1, WriteGood
  <2>3. /\ c.heap = m.heap /\ c.obj[x] = [type |-> "NONE", field |-> Null]
        /\ \A y \in Obj \ {x} : c.obj[y] = m.obj[y]
    BY <1>0, <2>1, WriteFields
  <2> QED BY <2>2, <2>3
<1> QED BY <1>1, <1>2

\* If all strings were allocated, their owners would be one to one.
LEMMA NewIsFree ==
  ASSUME NEW m, EnoughMemory, Good(m)
  PROVE  new(m) \in Ptr /\ m.heap[new(m)] = Free
<1>1. \E p \in Ptr : m.heap[p] = Free
  <2> SUFFICES ASSUME \A p \in Ptr : m.heap[p] # Free
               PROVE  FALSE
    OBVIOUS
  <2> DEFINE HolderOf(p) == CHOOSE x \in Obj : IsText(m, x) /\ m.obj[x].field = p
             f == [p \in Ptr |-> HolderOf(p)]
  <2>1. \A p \in Ptr : HolderOf(p) \in Obj /\ m.obj[HolderOf(p)].field = p
    BY DEF Good, Owned
  <2> HIDE DEF HolderOf
  <2>2. f \in [Ptr -> Obj]
    BY <2>1
  <2>3. PICK p \in Ptr, q \in Ptr : p # q /\ f[p] = f[q]
    BY <2>2 DEF EnoughMemory
  <2> QED BY <2>1, <2>3
<1> QED BY <1>1 DEF new

Allocate(m, x, p, v) == [Write(m, x, "STRING", p) EXCEPT !.heap[p] = v]

\* A new string for an object that has none.
LEMMA AllocateGood ==
  ASSUME NEW m, Good(m), NEW x \in Obj, ~IsText(m, x),
         NEW p \in Ptr, m.heap[p] = Free, NEW v \in Text, ValueAssumption
  PROVE  LET a == Allocate(m, x, p, v)
         IN  /\ Good(a) /\ IsText(a, x)
             /\ \A y \in Obj \ {x} : a.obj[y] = m.obj[y]
             /\ \A y \in Obj \ {x} : IsText(m, y) => a.heap[m.obj[y].field] = m.heap[m.obj[y].field]
<1> DEFINE w == Write(m, x, "STRING", p)
<1>0. m \in Mem /\ "STRING" \in Type \cup {"dead"} /\ p \in Int \cup Ptr
  BY DEF Good, Type
<1>1. /\ w \in Mem /\ w.heap = m.heap /\ w.obj[x] = [type |-> "STRING", field |-> p]
      /\ \A y \in Obj \ {x} : w.obj[y] = m.obj[y]
  <2>1. w = [m EXCEPT !.obj = [m.obj EXCEPT ![x] = [type |-> "STRING", field |-> p]]]
    BY <1>0 DEF Write, Mem
  <2> HIDE DEF w
  <2>2. w.heap = m.heap /\ w.obj = [m.obj EXCEPT ![x] = [type |-> "STRING", field |-> p]]
    BY <1>0, <2>1 DEF Mem
  <2>3. [type |-> "STRING", field |-> p] \in [type : Type \cup {"dead"}, field : Int \cup Ptr]
    BY <1>0
  <2> QED BY <1>0, <2>1, <2>2, <2>3 DEF Mem
<1> HIDE DEF w
<1> DEFINE a == Allocate(m, x, p, v)
<1>2. /\ a \in Mem /\ a.obj = w.obj /\ a.heap[p] = v
      /\ \A q \in Ptr \ {p} : a.heap[q] = m.heap[q]
  BY <1>1 DEF Mem, w, Allocate
<1> HIDE DEF a
<1>3. v # Free
  BY DEF ValueAssumption
<1>4. IsText(a, x) /\ \A y \in Obj \ {x} : IsText(a, y) <=> IsText(m, y)
  BY <1>1, <1>2 DEF IsText
<1>5. \A y \in Obj \ {x} : IsText(m, y) => m.obj[y].field \in Ptr \ {p}
  BY DEF Good, Owns
<1>6. Owns(a)
  BY <1>1, <1>2, <1>3, <1>4, <1>5 DEF Good, Owns
<1>7. Owned(a)
  BY <1>1, <1>2, <1>4 DEF Good, Owned
<1> QED BY <1>1, <1>2, <1>4, <1>5, <1>6, <1>7 DEF Good, a

LEMMA ResetGood ==
  ASSUME NEW m, ValueAssumption, EnoughMemory, Good(m), NEW x \in Obj, NEW t \in Type
  PROVE  /\ Good(reset(m, x, t)) /\ reset(m, x, t).obj[x].type = t
         /\ \A y \in Obj \ {x} : reset(m, x, t).obj[y] = m.obj[y]
         /\ \A y \in Obj \ {x} : IsText(m, y) =>
              reset(m, x, t).heap[m.obj[y].field] = m.heap[m.obj[y].field]
<1> DEFINE c == clear(m, x)
           p == new(c)
           r == reset(m, x, t)
<1>1. /\ Good(c) /\ c.obj[x].type = "NONE" /\ ~IsText(c, x)
      /\ \A y \in Obj \ {x} : c.obj[y] = m.obj[y]
      /\ \A y \in Obj \ {x} : IsText(m, y) => c.heap[m.obj[y].field] = m.heap[m.obj[y].field]
  BY ClearGood DEF IsText
<1>2. p \in Ptr /\ c.heap[p] = Free /\ Null \in Int /\ EmptyText \in Text
  BY <1>1, NewIsFree DEF Null, ValueAssumption
<1>3. \A y \in Obj \ {x} : IsText(m, y) <=> IsText(c, y)
  BY <1>1 DEF IsText
<1>4. CASE m.obj[x].type = t
  BY <1>4 DEF reset
<1>5. CASE m.obj[x].type # t /\ t = "STRING"
  <2>1. r = Allocate(c, x, p, EmptyText)
    BY <1>5 DEF reset, Allocate
  <2> HIDE DEF c, p, r
  <2>2. /\ Good(r) /\ IsText(r, x)
        /\ \A y \in Obj \ {x} : r.obj[y] = c.obj[y]
        /\ \A y \in Obj \ {x} : IsText(c, y) => r.heap[c.obj[y].field] = c.heap[c.obj[y].field]
    BY <1>1, <1>2, <2>1, AllocateGood
  <2>3. \A y \in Obj \ {x} : IsText(m, y) => r.heap[m.obj[y].field] = m.heap[m.obj[y].field]
    BY <1>1, <1>3, <2>2
  <2>4. \A y \in Obj \ {x} : r.obj[y] = m.obj[y]
    BY <1>1, <2>2
  <2>5. r.obj[x].type = t
    BY <1>5, <2>2 DEF IsText
  <2> QED BY <2>2, <2>3, <2>4, <2>5 DEF r
<1>6. CASE m.obj[x].type # t /\ t # "STRING"
  <2>1. r = Write(c, x, t, Null)
    BY <1>6 DEF reset
  <2> HIDE DEF c, r
  <2>2. Good(r)
    BY <1>1, <1>2, <1>6, <2>1, WriteGood
  <2>3. /\ r.heap = c.heap /\ r.obj[x] = [type |-> t, field |-> Null]
        /\ \A y \in Obj \ {x} : r.obj[y] = c.obj[y]
    BY <1>1, <1>2, <2>1, WriteFields DEF Good
  <2>4. \A y \in Obj \ {x} : r.obj[y] = m.obj[y]
    BY <1>1, <2>3
  <2>5. \A y \in Obj \ {x} : IsText(m, y) => r.heap[m.obj[y].field] = m.heap[m.obj[y].field]
    BY <1>1, <2>3
  <2> QED BY <2>2, <2>3, <2>4, <2>5 DEF r
<1> QED BY <1>4, <1>5, <1>6

\* Another text in a string.
LEMMA StoreGood ==
  ASSUME NEW m, ValueAssumption, Good(m), NEW x \in Obj, IsText(m, x), NEW v \in Text
  PROVE  Good([m EXCEPT !.heap[m.obj[x].field] = v])
<1> DEFINE p == m.obj[x].field
           s == [m EXCEPT !.heap[p] = v]
<1>1. p \in Ptr /\ m \in Mem /\ v # Free
  BY DEF Good, Owns, ValueAssumption
<1>2. /\ s \in Mem /\ s.obj = m.obj /\ s.heap[p] = v
      /\ \A q \in Ptr \ {p} : s.heap[q] = m.heap[q]
  BY <1>1 DEF Mem
<1> HIDE DEF s
<1>3. Owns(s)
  BY <1>1, <1>2 DEF Good, Owns, IsText
<1>4. Owned(s)
  BY <1>2 DEF Good, Owned, IsText
<1> QED BY <1>2, <1>3, <1>4 DEF Good, s

LEMMA BornGood ==
  ASSUME Good(Memory), NEW x \in Obj
  PROVE  /\ Good(Born(x))
         /\ \A y \in Obj \ {x} : Born(x).obj[y] = obj[y]
<1>0. Memory \in Mem /\ Memory.obj = obj /\ Null \in Int /\ "NONE" \in Type
  BY DEF Good, Memory, Null, Type
<1>1. CASE Live(x)
  BY <1>0, <1>1 DEF Born
<1>2. CASE ~Live(x)
  <2>1. ~IsText(Memory, x)
    BY <1>0, <1>2 DEF Live, IsText
  <2>2. Born(x) = Write(Memory, x, "NONE", Null)
    BY <1>2 DEF Born
  <2>3. Good(Born(x))
    BY <1>0, <2>1, <2>2, WriteGood
  <2>4. \A y \in Obj \ {x} : Write(Memory, x, "NONE", Null).obj[y] = Memory.obj[y]
    BY <1>0 DEF Write, Mem
  <2> QED BY <1>0, <2>2, <2>3, <2>4
<1> QED BY <1>1, <1>2

LEMMA BecomesGood ==
  ASSUME NEW m, Good(m), Becomes(m)
  PROVE  Good(Memory)'
<1>1. /\ m \in Mem /\ obj' = m.obj /\ heap' = m.heap
      /\ Memory' = [obj |-> obj', heap |-> heap']
  BY DEF Good, Becomes, Memory
<1>2. Memory' \in Mem /\ Memory'.obj = m.obj /\ Memory'.heap = m.heap
  BY <1>1 DEF Mem
<1> QED BY <1>2 DEF Good, Owns, Owned, IsText

-----------------------------------------------------------------------------
(* The public functions *)

LEMMA StoredIsInt ==
  ASSUME ValueAssumption, NEW t, NEW v \in Int
  PROVE  Stored(t, v) \in Int
<1>1. \A n \in Nat \ {0} : v % n \in Int
  OBVIOUS
<1>2. Word \div 2 \in Int /\ (v + Word \div 2) % Word \in Int
  BY DEF ValueAssumption
<1> QED BY <1>1, <1>2 DEF Stored, ValueAssumption

LEMMA SetNumberGood ==
  ASSUME ValueAssumption, EnoughMemory, Good(Memory),
         NEW x \in Obj, NEW t \in Numeric, NEW v \in Number, SetNumber(x, t, v)
  PROVE  Good(Memory)'
<1> DEFINE r == reset(Born(x), x, t)
<1>1. t \in Type /\ t # "STRING" /\ Stored(t, v) \in Int
  BY StoredIsInt DEF Type, Numeric, Real, ValueAssumption
<1>2. Good(r) /\ r.obj[x].type = t
  BY <1>1, BornGood, ResetGood
<1>3. Becomes(Write(r, x, t, Stored(t, v)))
  BY DEF SetNumber
<1> HIDE DEF r
<1>4. ~IsText(r, x)
  BY <1>1, <1>2 DEF IsText
<1>5. Good(Write(r, x, t, Stored(t, v)))
  BY <1>1, <1>2, <1>4, WriteGood
<1> QED BY <1>3, <1>5, BecomesGood

LEMMA SetTextGood ==
  ASSUME ValueAssumption, EnoughMemory, Good(Memory),
         NEW x \in Obj, NEW v \in Text, SetText(x, v)
  PROVE  Good(Memory)'
<1> DEFINE r == reset(Born(x), x, "STRING")
<1>1. v \in Text /\ "STRING" \in Type
  BY DEF Type
<1>2. Good(r) /\ IsText(r, x)
  BY <1>1, BornGood, ResetGood DEF IsText
<1>3. Becomes([r EXCEPT !.heap[r.obj[x].field] = v])
  BY DEF SetText
<1> HIDE DEF r
<1>4. Good([r EXCEPT !.heap[r.obj[x].field] = v])
  BY <1>1, <1>2, StoreGood
<1> QED BY <1>3, <1>4, BecomesGood

LEMMA AssignGood ==
  ASSUME ValueAssumption, EnoughMemory, Good(Memory),
         NEW x \in Obj, NEW y \in Obj, Assign(x, y)
  PROVE  Good(Memory)'
<1> DEFINE t == obj[y].type
           r == reset(Born(x), x, t)
<1>1. t \in Type /\ obj[y].field \in Int \cup Ptr
  BY DEF Assign, Live, Good, Mem, Memory
<1>2. CASE x = y
  BY <1>2, BecomesGood DEF Assign
<1>3. CASE x # y
  <2>1. /\ Good(r) /\ r.obj[x].type = t /\ r.obj[y] = obj[y]
    BY <1>1, <1>3, BornGood, ResetGood
  <2>2. Becomes(IF t = "STRING"
                  THEN [r EXCEPT !.heap[r.obj[x].field] = r.heap[r.obj[y].field]]
                  ELSE Write(r, x, t, obj[y].field))
    BY <1>3 DEF Assign
  <2> HIDE DEF r, t
  <2>3. CASE t = "STRING"
    <3>1. IsText(r, x) /\ IsText(r, y)
      BY <2>1, <2>3 DEF IsText, t
    <3>2. r.heap[r.obj[y].field] \in Text
      BY <2>1, <3>1 DEF Good, Owns, Mem
    <3>3. Good([r EXCEPT !.heap[r.obj[x].field] = r.heap[r.obj[y].field]])
      BY <2>1, <3>1, <3>2, StoreGood
    <3> QED BY <2>2, <2>3, <3>3, BecomesGood
  <2>4. CASE t # "STRING"
    <3>1. ~IsText(r, x)
      BY <2>1, <2>4 DEF IsText
    <3>2. Good(Write(r, x, t, obj[y].field))
      BY <1>1, <2>1, <2>4, <3>1, WriteGood
    <3> QED BY <2>2, <2>4, <3>2, BecomesGood
  <2> QED BY <2>3, <2>4
<1> QED BY <1>2, <1>3

\* The string changes hands: x had none left, y has none any more.
LEMMA MoveGood ==
  ASSUME ValueAssumption, Good(Memory), NEW x \in Obj, NEW y \in Obj, Move(x, y)
  PROVE  Good(Memory)'
<1> DEFINE c == clear(Born(x), x)
           w == Write(c, x, obj[y].type, obj[y].field)
           n == Write(w, y, "NONE", Null)
<1>1. /\ obj[y].type \in Type /\ obj[y].field \in Int \cup Ptr
      /\ Null \in Int /\ "NONE" \in Type
  BY DEF Move, Live, Good, Mem, Memory, Null, Type
<1>2. CASE x = y
  BY <1>2, BecomesGood DEF Move
<1>3. CASE x # y
  <2>1. /\ Good(c) /\ ~IsText(c, x) /\ c.obj[y] = obj[y]
    BY <1>3, BornGood, ClearGood DEF IsText
  <2>2. Becomes(n)
    BY <1>3 DEF Move
  <2> HIDE DEF c
  <2>3. /\ w \in Mem /\ w.heap = c.heap /\ w.obj[x] = c.obj[y]
        /\ \A z \in Obj \ {x} : w.obj[z] = c.obj[z]
    BY <1>1, <2>1, WriteFields DEF Good, Mem
  <2> HIDE DEF w
  <2>4. /\ n \in Mem /\ n.heap = c.heap /\ n.obj[y] = [type |-> "NONE", field |-> Null]
        /\ n.obj[x] = c.obj[y]
        /\ \A z \in Obj \ {x, y} : n.obj[z] = c.obj[z]
    BY <1>1, <1>3, <2>3, WriteFields
  <2> HIDE DEF n
  <2>5. /\ ~IsText(n, y) /\ (IsText(n, x) <=> IsText(c, y))
        /\ \A z \in Obj \ {x, y} : IsText(n, z) <=> IsText(c, z)
    BY <2>4 DEF IsText
  <2>6. Owns(n)
    BY <2>1, <2>4, <2>5 DEF Good, Owns
  <2>7. Owned(n)
    <3> SUFFICES ASSUME NEW p \in Ptr, n.heap[p] # Free
                 PROVE  \E z \in Obj : IsText(n, z) /\ n.obj[z].field = p
      BY DEF Owned
    <3>1. PICK z \in Obj : IsText(c, z) /\ c.obj[z].field = p
      BY <2>1, <2>4 DEF Good, Owned
    <3>2. CASE z = y
      BY <2>4, <2>5, <3>1, <3>2
    <3>3. CASE z # y
      BY <2>1, <2>4, <2>5, <3>1, <3>3
    <3> QED BY <3>2, <3>3
  <2> QED BY <2>2, <2>4, <2>6, <2>7, BecomesGood DEF Good
<1> QED BY <1>2, <1>3

LEMMA DestroyGood ==
  ASSUME ValueAssumption, Good(Memory), NEW x \in Obj, Destroy(x)
  PROVE  Good(Memory)'
<1> DEFINE c == clear(Memory, x)
<1>1. Good(c) /\ ~IsText(c, x) /\ Null \in Int
  BY ClearGood DEF IsText, Null
<1>2. Becomes(Write(c, x, "dead", Null))
  BY DEF Destroy, Write, Dead
<1> HIDE DEF c
<1>3. Good(Write(c, x, "dead", Null))
  BY <1>1, WriteGood
<1> QED BY <1>2, <1>3, BecomesGood

LEMMA InitGood ==
  ASSUME ValueAssumption, ValueInit
  PROVE  Good(Memory)
<1>1. Memory \in Mem
  BY DEF ValueInit, Memory, Mem, Dead, Null
<1>2. Owns(Memory) /\ Owned(Memory)
  BY DEF ValueInit, Memory, Dead, Owns, Owned, IsText
<1> QED BY <1>1, <1>2 DEF Good

LEMMA NextGood ==
  ASSUME ValueAssumption, EnoughMemory, Good(Memory), [ValueNext]_valueVars
  PROVE  Good(Memory)'
<1>1. CASE UNCHANGED valueVars
  BY <1>1 DEF valueVars, Memory, Good, Owns, Owned, IsText
<1>2. ASSUME NEW x \in Obj, SetNone(x) PROVE Good(Memory)'
  BY <1>2, BornGood, BecomesGood DEF SetNone
<1> QED BY <1>1, <1>2, SetNumberGood, SetTextGood, AssignGood, MoveGood, DestroyGood
        DEF ValueNext

-----------------------------------------------------------------------------

\* Whatever order CValue's constructors, assignments, moves and destructors are
\* called in, no string leaks, is freed twice or is shared, for any number of
\* objects, unless memory runs out.
THEOREM StringsHaveOneOwner ==
  ASSUME EnoughMemory
  PROVE  ValueInit /\ [][ValueNext]_valueVars => []OneOwner
<1>1. ValueInit => Good(Memory)
  BY InitGood, ValueAssumption
<1>2. Good(Memory) /\ [ValueNext]_valueVars => Good(Memory)'
  BY NextGood, ValueAssumption, EnoughMemory
<1>3. Good(Memory) => OneOwner
  <2> SUFFICES ASSUME Good(Memory), NEW p \in Ptr
               PROVE  LET owners == {x \in Obj : obj[x].type = "STRING" /\ obj[x].field = p}
                      IN  IF heap[p] = Free THEN owners = {} ELSE \E x \in Obj : owners = {x}
    BY DEF OneOwner
  <2>1. Memory.obj = obj /\ Memory.heap = heap
    BY DEF Memory
  <2>2. CASE heap[p] = Free
    BY <2>1, <2>2 DEF Good, Owns, IsText
  <2>3. CASE heap[p] # Free
    <3>1. PICK x \in Obj : obj[x].type = "STRING" /\ obj[x].field = p
      BY <2>1, <2>3 DEF Good, Owned, IsText
    <3>2. \A y \in Obj : obj[y].type = "STRING" /\ obj[y].field = p => y = x
      BY <2>1, <3>1 DEF Good, Owns, IsText
    <3> QED BY <2>3, <3>1, <3>2
  <2> QED BY <2>2, <2>3
<1> QED BY <1>1, <1>2, <1>3, PTL

-----------------------------------------------------------------------------
(* Nobody sees an operation on another object *)

\* What is outside S is and reads as before.
Untouched(m, n, S) ==
  \A y \in Obj \ S :
    /\ n.obj[y] = m.obj[y]
    /\ IsText(m, y) => n.heap[m.obj[y].field] = m.heap[m.obj[y].field]

LEMMA UntouchedTrans ==
  ASSUME NEW m, NEW n, NEW o, NEW S, Untouched(m, n, S), Untouched(n, o, S)
  PROVE  Untouched(m, o, S)
<1> SUFFICES ASSUME NEW y \in Obj \ S
             PROVE  /\ o.obj[y] = m.obj[y]
                    /\ IsText(m, y) => o.heap[m.obj[y].field] = m.heap[m.obj[y].field]
  BY DEF Untouched
<1>1. n.obj[y] = m.obj[y] /\ o.obj[y] = n.obj[y]
  BY DEF Untouched
<1>2. IsText(m, y) => IsText(n, y)
  BY <1>1 DEF IsText
<1>3. /\ IsText(m, y) => n.heap[m.obj[y].field] = m.heap[m.obj[y].field]
      /\ IsText(n, y) => o.heap[n.obj[y].field] = n.heap[n.obj[y].field]
  BY DEF Untouched
<1> QED BY <1>1, <1>2, <1>3

LEMMA WriteUntouched ==
  ASSUME NEW m \in Mem, NEW x \in Obj, NEW t \in Type \cup {"dead"}, NEW f \in Int \cup Ptr
  PROVE  Untouched(m, Write(m, x, t, f), {x})
<1> DEFINE w == Write(m, x, t, f)
<1>1. /\ w.heap = m.heap /\ w.obj[x] = [type |-> t, field |-> f]
      /\ \A y \in Obj \ {x} : w.obj[y] = m.obj[y]
  BY WriteFields
<1> HIDE DEF w
<1>2. Untouched(m, w, {x})
  BY <1>1 DEF Untouched
<1> QED BY <1>2 DEF w

LEMMA BornUntouched ==
  ASSUME Good(Memory), NEW x \in Obj
  PROVE  Untouched(Memory, Born(x), {x})
<1>1. Memory \in Mem /\ Null \in Int \cup Ptr /\ "NONE" \in Type \cup {"dead"}
  BY DEF Good, Null, Type
<1> DEFINE w == Write(Memory, x, "NONE", Null)
<1>2. Untouched(Memory, w, {x})
  BY <1>1, WriteUntouched
<1> QED BY <1>2 DEF Born, Untouched

Store(m, x, v) == [m EXCEPT !.heap[m.obj[x].field] = v]

LEMMA StoreUntouched ==
  ASSUME NEW m, Good(m), NEW x \in Obj, IsText(m, x), NEW v
  PROVE  /\ Untouched(m, Store(m, x, v), {x})
         /\ Store(m, x, v).obj = m.obj
         /\ Store(m, x, v).heap[m.obj[x].field] = v
<1> DEFINE p == m.obj[x].field
           s == Store(m, x, v)
<1>1. p \in Ptr /\ m \in Mem
  BY DEF Good, Owns
<1>2. /\ s.obj = m.obj /\ s.heap[p] = v
      /\ \A q \in Ptr \ {p} : s.heap[q] = m.heap[q]
  BY <1>1 DEF Mem, Store
<1> HIDE DEF s
<1>3. \A y \in Obj \ {x} : IsText(m, y) => m.obj[y].field \in Ptr \ {p}
  BY DEF Good, Owns
<1>4. Untouched(m, s, {x})
  BY <1>2, <1>3 DEF Untouched
<1> QED BY <1>2, <1>4 DEF s

\* What reset leaves, of an object alive or new.
LEMMA ResetUntouched ==
  ASSUME ValueAssumption, EnoughMemory, Good(Memory), NEW x \in Obj, NEW t \in Type
  PROVE  LET r == reset(Born(x), x, t)
         IN  Good(r) /\ r.obj[x].type = t /\ Untouched(Memory, r, {x})
<1> DEFINE b == Born(x)
           r == reset(b, x, t)
<1>1. Good(b) /\ Untouched(Memory, b, {x})
  BY BornGood, BornUntouched
<1> HIDE DEF b
<1>2. Good(r) /\ r.obj[x].type = t /\ Untouched(b, r, {x})
  BY <1>1, ResetGood DEF Untouched
<1> HIDE DEF r
<1>3. Untouched(Memory, r, {x})
  BY <1>1, <1>2, UntouchedTrans
<1> QED BY <1>2, <1>3 DEF r, b

\* What a numeric object holds is a number; the dead hold none.
Plain(m) ==
  \A x \in Obj :
    /\ m.obj[x].type # "STRING" => m.obj[x].field \in Int
    /\ m.obj[x].type = "dead" => m.obj[x].field = Null

HeldIn(m, x) ==
  CASE m.obj[x].type = "STRING" -> m.heap[m.obj[x].field]
    [] m.obj[x].type = "NONE" -> Null
    [] OTHER -> m.obj[x].field

CellIn(m, x) == <<m.obj[x].type, HeldIn(m, x)>>

LEMMA UntouchedCells ==
  ASSUME NEW m, NEW n, NEW S, Untouched(m, n, S)
  PROVE  \A y \in Obj \ S : CellIn(n, y) = CellIn(m, y)
BY DEF Untouched, CellIn, HeldIn, IsText

\* An operation on x alone.
LEMMA OneUntouched ==
  ASSUME NEW m, Plain(Memory), Becomes(m), NEW x \in Obj, Untouched(Memory, m, {x}),
         m.obj[x].type # "STRING" => m.obj[x].field \in Int,
         m.obj[x].type = "dead" => m.obj[x].field = Null
  PROVE  Plain(Memory)' /\ Untouched(Memory, Memory', {x})
<1>1. Memory'.obj = m.obj /\ Memory'.heap = m.heap
  BY DEF Becomes, Memory
<1> QED BY <1>1 DEF Plain, Untouched

LEMMA SetUntouched ==
  ASSUME ValueAssumption, EnoughMemory, Good(Memory), Plain(Memory), NEW x \in Obj,
         \/ \E t \in Numeric, v \in Number : SetNumber(x, t, v)
         \/ \E v \in Text : SetText(x, v)
         \/ SetNone(x)
  PROVE  Plain(Memory)' /\ Untouched(Memory, Memory', {x})
<1>1. ASSUME NEW t \in Numeric, NEW v \in Number, SetNumber(x, t, v)
      PROVE  Plain(Memory)' /\ Untouched(Memory, Memory', {x})
  <2> DEFINE r == reset(Born(x), x, t)
             w == Write(r, x, t, Stored(t, v))
  <2>1. t \in Type /\ t # "dead" /\ Stored(t, v) \in Int
    BY StoredIsInt DEF Type, Numeric, Real, ValueAssumption
  <2>2. Good(r) /\ Untouched(Memory, r, {x})
    BY <2>1, ResetUntouched
  <2>3. Becomes(w)
    BY <1>1 DEF SetNumber
  <2> HIDE DEF r
  <2>4. Untouched(r, w, {x}) /\ w.obj[x] = [type |-> t, field |-> Stored(t, v)]
    BY <2>1, <2>2, WriteUntouched, WriteFields DEF Good
  <2> HIDE DEF w
  <2>5. Untouched(Memory, w, {x})
    BY <2>2, <2>4, UntouchedTrans
  <2> QED BY <2>1, <2>3, <2>4, <2>5, OneUntouched
<1>2. ASSUME NEW v \in Text, SetText(x, v)
      PROVE  Plain(Memory)' /\ Untouched(Memory, Memory', {x})
  <2> DEFINE r == reset(Born(x), x, "STRING")
             s == Store(r, x, v)
  <2>1. Good(r) /\ r.obj[x].type = "STRING" /\ Untouched(Memory, r, {x})
    BY ResetUntouched DEF Type
  <2>2. Becomes(s)
    BY <1>2 DEF SetText, Store
  <2> HIDE DEF r
  <2>3. Untouched(r, s, {x}) /\ s.obj = r.obj
    <3>1. IsText(r, x)
      BY <2>1 DEF IsText
    <3> HIDE DEF s
    <3> QED BY <2>1, <3>1, StoreUntouched DEF s
  <2> HIDE DEF s
  <2>4. Untouched(Memory, s, {x}) /\ s.obj[x].type = "STRING"
    BY <2>1, <2>3, UntouchedTrans
  <2> QED BY <2>2, <2>4, OneUntouched
<1>3. CASE SetNone(x)
  <2>1. Becomes(Born(x)) /\ Born(x) = Write(Memory, x, "NONE", Null)
    BY <1>3 DEF SetNone, Born
  <2>2. Born(x).obj[x] = [type |-> "NONE", field |-> Null]
    <3>1. Memory \in Mem /\ "NONE" \in Type \cup {"dead"} /\ Null \in Int \cup Ptr
      BY DEF Good, Null, Type
    <3>2. Write(Memory, x, "NONE", Null).obj[x] = [type |-> "NONE", field |-> Null]
      BY <3>1, WriteFields
    <3> QED BY <2>1, <3>2
  <2>3. /\ Born(x).obj[x].type # "STRING" => Born(x).obj[x].field \in Int
        /\ Born(x).obj[x].type # "dead"
    BY <2>2 DEF Null
  <2>4. Untouched(Memory, Born(x), {x})
    BY BornUntouched
  <2> QED BY <2>1, <2>3, <2>4, OneUntouched
<1> QED BY <1>1, <1>2, <1>3

LEMMA DestroyUntouched ==
  ASSUME ValueAssumption, Good(Memory), Plain(Memory), NEW x \in Obj, Destroy(x)
  PROVE  Plain(Memory)' /\ Untouched(Memory, Memory', {x})
<1> DEFINE c == clear(Memory, x)
           w == Write(c, x, "dead", Null)
<1>1. Good(c) /\ Untouched(Memory, c, {x}) /\ Null \in Int
  BY ClearGood DEF Untouched, Null
<1>2. Becomes(w)
  BY DEF Destroy, Write, Dead
<1> HIDE DEF c
<1>3. Untouched(c, w, {x}) /\ w.obj[x] = [type |-> "dead", field |-> Null]
  BY <1>1, WriteUntouched, WriteFields DEF Good
<1> HIDE DEF w
<1>4. Untouched(Memory, w, {x})
  BY <1>1, <1>3, UntouchedTrans
<1> QED BY <1>1, <1>2, <1>3, <1>4, OneUntouched

\* A copy reads as its original.
LEMMA AssignUntouched ==
  ASSUME ValueAssumption, EnoughMemory, Good(Memory), Plain(Memory),
         NEW x \in Obj, NEW y \in Obj, Assign(x, y)
  PROVE  /\ Plain(Memory)' /\ Untouched(Memory, Memory', {x})
         /\ CellIn(Memory', x) = CellIn(Memory, y)
<1> DEFINE t == obj[y].type
           r == reset(Born(x), x, t)
<1>1. /\ t \in Type /\ t # "dead" /\ obj[y].field \in Int \cup Ptr
      /\ Memory.obj = obj /\ Memory.heap = heap
  BY DEF Assign, Live, Good, Mem, Memory, Type, Numeric
<1>2. CASE x = y
  <2>1. Memory'.obj = obj /\ Memory'.heap = heap
    BY <1>2 DEF Assign, Becomes, Memory
  <2> QED BY <1>1, <1>2, <2>1 DEF Plain, Untouched, CellIn, HeldIn
<1>3. CASE x # y
  <2>1. Good(r) /\ r.obj[x].type = t /\ Untouched(Memory, r, {x})
    BY <1>1, ResetUntouched
  <2>2. Becomes(IF t = "STRING"
                  THEN [r EXCEPT !.heap[r.obj[x].field] = r.heap[r.obj[y].field]]
                  ELSE Write(r, x, t, obj[y].field))
    BY <1>3 DEF Assign
  <2> HIDE DEF r, t
  <2>3. r.obj[y] = obj[y] /\ (t = "STRING" => r.heap[obj[y].field] = heap[obj[y].field])
    BY <1>1, <1>3, <2>1 DEF Untouched, IsText, t
  <2>4. CASE t = "STRING"
    <3> DEFINE v == r.heap[r.obj[y].field]
               s == Store(r, x, v)
    <3>1. Becomes(s)
      BY <2>2, <2>4 DEF Store
    <3> HIDE DEF v
    <3>0. IsText(r, x)
      BY <2>1, <2>4 DEF IsText
    <3>2. /\ Untouched(r, s, {x}) /\ s.obj = r.obj
          /\ s.heap[r.obj[x].field] = v
      BY <2>1, <3>0, StoreUntouched
    <3> HIDE DEF s
    <3>3. Untouched(Memory, s, {x}) /\ s.obj[x].type = "STRING"
      BY <2>1, <2>4, <3>2, UntouchedTrans
    <3>4. Plain(Memory)' /\ Untouched(Memory, Memory', {x})
      BY <3>1, <3>3, OneUntouched
    <3>5. Memory'.obj = s.obj /\ Memory'.heap = s.heap
      BY <3>1 DEF Becomes, Memory
    <3>6. CellIn(Memory', x) = <<"STRING", v>>
      BY <2>1, <2>4, <3>2, <3>5 DEF CellIn, HeldIn
    <3>7. CellIn(Memory, y) = <<"STRING", heap[obj[y].field]>>
      BY <1>1, <2>4 DEF CellIn, HeldIn, t
    <3>8. v = heap[obj[y].field]
      BY <2>3, <2>4 DEF v
    <3> QED BY <3>4, <3>6, <3>7, <3>8
  <2>5. CASE t # "STRING"
    <3> DEFINE w == Write(r, x, t, obj[y].field)
    <3>1. Becomes(w)
      BY <2>2, <2>5
    <3>0. r \in Mem /\ t \in Type \cup {"dead"} /\ obj[y].field \in Int \cup Ptr
      BY <1>1, <2>1 DEF Good
    <3>2. Untouched(r, w, {x}) /\ w.obj[x] = [type |-> t, field |-> obj[y].field]
      <4>1. Untouched(r, w, {x})
        BY <3>0, WriteUntouched
      <4>2. w.obj[x] = [type |-> t, field |-> obj[y].field]
        BY <3>0, WriteFields
      <4> QED BY <4>1, <4>2
    <3> HIDE DEF w
    <3>3. Untouched(Memory, w, {x})
      BY <2>1, <3>2, UntouchedTrans
    <3>4. obj[y].field \in Int
      BY <1>1, <2>5 DEF Plain, t
    <3>5. Plain(Memory)' /\ Untouched(Memory, Memory', {x})
      BY <1>1, <3>1, <3>2, <3>3, <3>4, OneUntouched
    <3>6. Memory'.obj = w.obj
      BY <3>1 DEF Becomes, Memory
    <3>7. CellIn(Memory', x) = CellIn(Memory, y)
      BY <1>1, <2>5, <3>2, <3>6 DEF CellIn, HeldIn, t
    <3> QED BY <3>5, <3>7
  <2> QED BY <2>4, <2>5
<1> QED BY <1>2, <1>3

\* A move reads as its original was, which is empty then.
LEMMA MoveUntouched ==
  ASSUME ValueAssumption, Good(Memory), Plain(Memory),
         NEW x \in Obj, NEW y \in Obj, Move(x, y)
  PROVE  /\ Plain(Memory)' /\ Untouched(Memory, Memory', {x, y})
         /\ CellIn(Memory', x) = CellIn(Memory, y)
         /\ x # y => CellIn(Memory', y) = <<"NONE", Null>>
<1> DEFINE c == clear(Born(x), x)
           w == Write(c, x, obj[y].type, obj[y].field)
           n == Write(w, y, "NONE", Null)
<1>1. /\ obj[y].type \in Type \cup {"dead"} /\ obj[y].type # "dead"
      /\ obj[y].field \in Int \cup Ptr
      /\ Null \in Int \cup Ptr /\ "NONE" \in Type \cup {"dead"}
      /\ Memory.obj = obj /\ Memory.heap = heap
  BY DEF Move, Live, Good, Mem, Memory, Null, Type
<1>2. CASE x = y
  <2>1. Memory'.obj = obj /\ Memory'.heap = heap
    BY <1>2 DEF Move, Becomes, Memory
  <2> QED BY <1>1, <1>2, <2>1 DEF Plain, Untouched, CellIn, HeldIn
<1>3. CASE x # y
  <2>1. Good(c) /\ Untouched(Memory, c, {x})
    <3>1. Good(Born(x)) /\ Untouched(Memory, Born(x), {x})
      BY BornGood, BornUntouched
    <3>2. Good(c) /\ Untouched(Born(x), c, {x})
      BY <3>1, ClearGood DEF Untouched
    <3> HIDE DEF c
    <3> QED BY <3>1, <3>2, UntouchedTrans
  <2>2. Becomes(n)
    BY <1>3 DEF Move
  <2> HIDE DEF c
  <2>3. /\ w \in Mem /\ w.heap = c.heap
        /\ w.obj[x] = [type |-> obj[y].type, field |-> obj[y].field]
        /\ \A z \in Obj \ {x} : w.obj[z] = c.obj[z]
    <3>1. c \in Mem
      BY <2>1 DEF Good
    <3> DEFINE t == obj[y].type
               f == obj[y].field
    <3>2. t \in Type \cup {"dead"} /\ f \in Int \cup Ptr /\ w = Write(c, x, t, f)
      BY <1>1
    <3> HIDE DEF t, f, w
    <3>3. /\ w \in Mem /\ w.heap = c.heap /\ w.obj[x] = [type |-> t, field |-> f]
          /\ \A z \in Obj \ {x} : w.obj[z] = c.obj[z]
      BY <3>1, <3>2, WriteFields
    <3> QED BY <3>3 DEF t, f
  <2> HIDE DEF w
  <2>4. /\ n.heap = c.heap /\ n.obj[y] = [type |-> "NONE", field |-> Null]
        /\ n.obj[x] = [type |-> obj[y].type, field |-> obj[y].field]
        /\ \A z \in Obj \ {x, y} : n.obj[z] = c.obj[z]
    BY <1>1, <1>3, <2>3, WriteFields
  <2>5. Memory'.obj = n.obj /\ Memory'.heap = n.heap
    BY <2>2 DEF Becomes, Memory
  <2> HIDE DEF n
  <2>6. Untouched(Memory, Memory', {x, y})
    BY <2>1, <2>4, <2>5 DEF Untouched
  <2>7. Plain(Memory)'
    <3> SUFFICES ASSUME NEW z \in Obj
                 PROVE  /\ n.obj[z].type # "STRING" => n.obj[z].field \in Int
                        /\ n.obj[z].type = "dead" => n.obj[z].field = Null
      BY <2>5 DEF Plain
    <3>1. CASE z = x
      BY <1>1, <2>4, <3>1 DEF Plain
    <3>2. CASE z = y
      BY <2>4, <3>2 DEF Null
    <3>3. CASE z \notin {x, y}
      <4>1. n.obj[z] = Memory.obj[z]
        BY <2>5, <2>6, <3>3 DEF Untouched
      <4> QED BY <4>1 DEF Plain
    <3> QED BY <3>1, <3>2, <3>3
  <2>8. CellIn(Memory', y) = <<"NONE", Null>>
    BY <2>4, <2>5 DEF CellIn, HeldIn, Null
  <2>9. CellIn(Memory', x) = CellIn(Memory, y)
    <3>1. obj[y].type = "STRING" => c.heap[obj[y].field] = heap[obj[y].field]
      BY <1>1, <1>3, <2>1 DEF Untouched, IsText
    <3> QED BY <1>1, <2>4, <2>5, <3>1 DEF CellIn, HeldIn
  <2> QED BY <2>6, <2>7, <2>8, <2>9
<1> QED BY <1>2, <1>3

-----------------------------------------------------------------------------
(* The refinement *)

Shape ==
  (Numeric \X Int) \cup ({"STRING"} \X Text) \cup {<<"NONE", Null>>, <<"dead", Null>>}

Cell == [x \in Obj |-> <<obj[x].type, Held(x)>>]

LEMMA CellsShown ==
  /\ \A x \in Obj : Cell[x] = CellIn(Memory, x)
  /\ \A x \in Obj : Cell'[x] = CellIn(Memory', x)
BY DEF Cell, CellIn, HeldIn, Held, Memory

LEMMA CellsShaped ==
  ASSUME NEW m, Good(m), Plain(m), NEW x \in Obj
  PROVE  CellIn(m, x) \in Shape
<1>1. m.obj[x].type \in Type \cup {"dead"}
  BY DEF Good, Mem
<1>2. CASE m.obj[x].type = "STRING"
  <2>1. m.heap[m.obj[x].field] \in Text
    BY <1>2 DEF Good, Owns, Mem, IsText
  <2> QED BY <1>2, <2>1 DEF CellIn, HeldIn, Shape
<1>3. CASE m.obj[x].type \in Numeric
  <2>1. m.obj[x].type \notin {"STRING", "NONE"} /\ m.obj[x].field \in Int
    BY <1>3 DEF Numeric, Real, Plain
  <2> QED BY <1>3, <2>1 DEF CellIn, HeldIn, Shape
<1>4. CASE m.obj[x].type \in {"NONE", "dead"}
  <2>1. CellIn(m, x) \in {<<"NONE", Null>>, <<"dead", Null>>}
    BY <1>4 DEF CellIn, HeldIn, Plain, Null
  <2> QED BY <2>1 DEF Shape
<1> QED BY <1>1, <1>2, <1>3, <1>4 DEF Type

LEMMA OnlyThese ==
  ASSUME NEW S, Untouched(Memory, Memory', S)
  PROVE  \A z \in Obj \ S : Cell'[z] = Cell[z]
BY CellsShown, UntouchedCells

LEMMA InitCells ==
  ASSUME ValueInit
  PROVE  Plain(Memory) /\ C!Init
<1>1. \A x \in Obj : obj[x].type = "dead" /\ obj[x].field = Null
  BY DEF ValueInit, Dead
<1>2. Plain(Memory)
  <2>1. Memory.obj = obj
    BY DEF Memory
  <2> SUFFICES ASSUME NEW x \in Obj
               PROVE  obj[x].field \in Int /\ obj[x].field = Null
    BY <2>1 DEF Plain
  <2> QED BY <1>1 DEF Null
<1>3. \A x \in Obj : <<obj[x].type, Held(x)>> = <<"dead", Null>>
  <2> SUFFICES ASSUME NEW x \in Obj
               PROVE  <<obj[x].type, Held(x)>> = <<"dead", Null>>
    OBVIOUS
  <2>1. obj[x].type = "dead" /\ obj[x].field = Null
    BY <1>1
  <2>2. Held(x) = Null
    BY <2>1 DEF Held
  <2> QED BY <2>1, <2>2
<1> QED BY <1>2, <1>3 DEF C!Init

LEMMA NextCells ==
  ASSUME ValueAssumption, EnoughMemory, Good(Memory), Good(Memory)', Plain(Memory),
         [ValueNext]_valueVars
  PROVE  Plain(Memory)' /\ [C!Next]_Cell
<1>1. ASSUME NEW x \in Obj, Plain(Memory)', Untouched(Memory, Memory', {x})
      PROVE  C!Put(x)
  <2>1. Cell'[x] \in Shape
    BY <1>1, CellsShown, CellsShaped
  <2> QED BY <1>1, <2>1, OnlyThese DEF C!Put, C!Only, Shape, Cell
<1>2. ASSUME NEW x \in Obj,
             \/ \E t \in Numeric, v \in Number : SetNumber(x, t, v)
             \/ \E v \in Text : SetText(x, v)
             \/ SetNone(x)
             \/ Destroy(x)
      PROVE  Plain(Memory)' /\ C!Next
  <2>1. Plain(Memory)' /\ Untouched(Memory, Memory', {x})
    BY <1>2, SetUntouched, DestroyUntouched
  <2> QED BY <1>1, <2>1 DEF C!Next
<1>3. ASSUME NEW x \in Obj, NEW y \in Obj, Assign(x, y)
      PROVE  Plain(Memory)' /\ C!Next
  <2>1. /\ Plain(Memory)' /\ Untouched(Memory, Memory', {x})
        /\ Cell'[x] = Cell[y]
    BY <1>3, AssignUntouched, CellsShown
  <2>2. Cell[y] # <<"dead", Null>>
    BY <1>3 DEF Assign, Live, Cell
  <2>3. C!Copy(x, y)
    BY <2>1, <2>2, OnlyThese DEF C!Copy, C!Only, Cell
  <2> QED BY <2>1, <2>3 DEF C!Next
<1>4. ASSUME NEW x \in Obj, NEW y \in Obj, Move(x, y)
      PROVE  Plain(Memory)' /\ C!Next
  <2>1. /\ Plain(Memory)' /\ Untouched(Memory, Memory', {x, y})
        /\ Cell'[x] = Cell[y]
        /\ x # y => Cell'[y] = <<"NONE", Null>>
    BY <1>4, MoveUntouched, CellsShown
  <2>2. Cell[y] # <<"dead", Null>>
    BY <1>4 DEF Move, Live, Cell
  <2>3. C!Move(x, y)
    BY <2>1, <2>2, OnlyThese DEF C!Move, C!Only, Cell
  <2> QED BY <2>1, <2>3 DEF C!Next
<1>5. CASE UNCHANGED valueVars
  BY <1>5 DEF valueVars, Memory, Plain, Cell, Held
<1> QED BY <1>2, <1>3, <1>4, <1>5 DEF ValueNext

\* Whatever CValue's pointers do, to its users it is a cell: copies are
\* independent of their originals, what was moved from is empty, and nothing
\* else changes.
THEOREM ValueImplementsCells ==
  ASSUME EnoughMemory
  PROVE  ValueInit /\ [][ValueNext]_valueVars => ImplementsCells
<1>1. ValueInit => Good(Memory) /\ Plain(Memory) /\ C!Init
  BY InitGood, InitCells, ValueAssumption
<1>2. Good(Memory) /\ Plain(Memory) /\ [ValueNext]_valueVars
        => Good(Memory)' /\ Plain(Memory)' /\ [C!Next]_Cell
  BY NextGood, NextCells, ValueAssumption, EnoughMemory
<1> QED BY <1>1, <1>2, PTL DEF ImplementsCells, C!Spec, Cell

-----------------------------------------------------------------------------
(* Reading: remainders *)

LEMMA DivMod ==
  ASSUME NEW n \in Int, NEW w \in Nat \ {0}
  PROVE  \E q \in Int, r \in Nat : r = n % w /\ r < w /\ n = w * q + r
<1>1. n % w \in 0 .. w - 1
  OBVIOUS
<1>2. n \div w \in Int
  OBVIOUS
<1>3. n = w * (n \div w) + (n % w)
  OBVIOUS
<1>4. PICK r \in Nat : r = n % w /\ r < w
  BY <1>1
<1> QED BY <1>2, <1>3, <1>4

LEMMA ModUnique ==
  ASSUME NEW r \in Nat, NEW q \in Int, NEW w \in Nat \ {0}, r < w
  PROVE  (w * q + r) % w = r
OBVIOUS

LEMMA ModShift ==
  ASSUME NEW n \in Int, NEW h \in Int, NEW w \in Nat \ {0}
  PROVE  (((n + h) % w) - h) % w = n % w
<1>1. PICK m \in Int : m = n + h
  OBVIOUS
<1>2. PICK q \in Int, s \in Nat : s = m % w /\ m = w * q + s
  BY DivMod
<1>3. PICK p \in Int, r \in Nat : r = n % w /\ r < w /\ n = w * p + r
  BY DivMod
<1>4. PICK a \in Int, c \in Int : a = w * p /\ c = w * q /\ w * (p - q) = a - c
  OBVIOUS
<1>5. s - h = w * (p - q) + r
  <2>1. n + h = c + s /\ n = a + r
    BY <1>1, <1>2, <1>3, <1>4
  <2>2. s - h = (a - c) + r
    BY <2>1
  <2> QED BY <1>4, <2>2
<1>6. p - q \in Int
  OBVIOUS
<1>7. (w * (p - q) + r) % w = r
  BY <1>3, <1>6, ModUnique
<1> QED BY <1>1, <1>2, <1>3, <1>5, <1>7

LEMMA ModMod ==
  ASSUME NEW n \in Int, NEW b \in Nat \ {0}, NEW w \in Nat \ {0}, w % b = 0
  PROVE  (n % w) % b = n % b
<1>1. PICK p \in Int, s \in Nat : s = n % w /\ n = w * p + s
  BY DivMod
<1>2. PICK k \in Int, z \in Nat : z = w % b /\ w = b * k + z
  BY DivMod
<1>3. PICK q \in Int, r \in Nat : r = s % b /\ r < b /\ s = b * q + r
  BY DivMod
<1>4. w * p = b * (k * p) /\ k * p \in Int
  BY <1>2
<1>5. PICK j \in Int : j = k * p /\ w * p = b * j
  BY <1>4
<1>6. b * (j + q) = b * j + b * q /\ b * j \in Int /\ b * q \in Int
  OBVIOUS
<1>7. n = b * (j + q) + r
  BY <1>1, <1>3, <1>5, <1>6
<1>8. (b * (j + q) + r) % b = r
  <2>1. j + q \in Int
    OBVIOUS
  <2> QED BY <1>3, <2>1, ModUnique
<1> QED BY <1>1, <1>3, <1>7, <1>8

LEMMA ModZero ==
  ASSUME NEW n \in Int, NEW w \in Nat \ {0}, n > -w, n < w
  PROVE  n % w = 0 <=> n = 0
OBVIOUS

-----------------------------------------------------------------------------
(* Reading: what is stored fits *)

\* What an object of a numeric type can hold, and what it is read as.
Holds(t) ==
  CASE t = "BYTE" -> 0 .. Byte - 1
    [] t = "INTEGER" -> -(Word \div 2) .. (Word \div 2) - 1
    [] t = "UNSIGNED" -> 0 .. Word - 1
    [] t = "BOOLEAN" -> 0 .. 1
    [] OTHER -> Int

Numeral == -(Word \div 2) .. Word - 1

InRange(m) ==
  \A x \in Obj : m.obj[x].type \in Numeric => m.obj[x].field \in Holds(m.obj[x].type)

\* A word is two equal halves, and a byte fits in one.
LEMMA Halves ==
  ASSUME ValueAssumption
  PROVE  \E h \in Nat \ {0} : h = Word \div 2 /\ Word = 2 * h /\ Byte <= h
<1>1. Word \in Nat \ {0} /\ Word % 2 = 0 /\ Byte \in Nat \ {0} /\ 2 * Byte <= Word
  BY DEF ValueAssumption
<1>2. PICK h \in Int : h = Word \div 2
  BY <1>1
<1>3. Word = 2 * h
  BY <1>1, <1>2
<1> QED BY <1>1, <1>2, <1>3

LEMMA StoredHolds ==
  ASSUME ValueAssumption, NEW t \in Numeric, NEW v \in Int
  PROVE  Stored(t, v) \in Holds(t)
<1>1. PICK h \in Nat \ {0} : h = Word \div 2 /\ Word = 2 * h /\ Byte <= h
  BY Halves
<1>2. Byte \in Nat \ {0} /\ Word \in Nat \ {0}
  BY DEF ValueAssumption
<1>3. v % Byte \in 0 .. Byte - 1 /\ v % Word \in 0 .. Word - 1
  BY <1>2
<1>4. ((v + h) % Word) - h \in -h .. h - 1
  <2>1. PICK m \in Int : m = v + h
    BY <1>1
  <2>2. PICK r \in Int : r = m % Word /\ 0 <= r /\ r < Word
    BY <1>2, <2>1
  <2> QED BY <1>1, <2>1, <2>2
<1>5. CASE t = "BYTE"
  BY <1>3, <1>5 DEF Stored, Holds
<1>6. CASE t = "INTEGER"
  BY <1>1, <1>4, <1>6 DEF Stored, Holds
<1>7. CASE t = "UNSIGNED"
  BY <1>3, <1>7 DEF Stored, Holds
<1>8. CASE t = "BOOLEAN"
  BY <1>8 DEF Stored, Holds
<1>9. CASE t \in Real
  BY <1>9 DEF Stored, Holds, Real
<1> QED BY <1>5, <1>6, <1>7, <1>8, <1>9 DEF Numeric

LEMMA NullHolds ==
  ASSUME ValueAssumption, NEW t \in Numeric
  PROVE  Null \in Holds(t)
<1>1. PICK h \in Nat \ {0} : h = Word \div 2 /\ Word = 2 * h /\ Byte <= h
  BY Halves
<1>2. /\ Byte \in Nat \ {0} /\ 0 \in 0 .. Byte - 1 /\ 0 \in 0 .. Word - 1
      /\ 0 \in -h .. h - 1 /\ 0 \in 0 .. 1 /\ 0 \in Int
  BY <1>1 DEF ValueAssumption
<1> QED BY <1>1, <1>2, Zenon DEF Null, Holds

LEMMA WriteInRange ==
  ASSUME NEW m \in Mem, InRange(m), NEW x \in Obj, NEW t \in Type \cup {"dead"},
         NEW f \in Int \cup Ptr, t \in Numeric => f \in Holds(t)
  PROVE  InRange(Write(m, x, t, f))
<1> DEFINE w == Write(m, x, t, f)
<1>1. /\ w.heap = m.heap /\ w.obj[x] = [type |-> t, field |-> f]
      /\ \A y \in Obj \ {x} : w.obj[y] = m.obj[y]
  BY DEF Write, Mem
<1> HIDE DEF w
<1>2. ASSUME NEW y \in Obj, w.obj[y].type \in Numeric
      PROVE  w.obj[y].field \in Holds(w.obj[y].type)
  BY <1>1, <1>2 DEF InRange
<1>3. InRange(w)
  BY <1>1, <1>2 DEF InRange
<1> QED BY <1>3 DEF w

LEMMA StoreInRange ==
  ASSUME NEW m \in Mem, InRange(m), NEW p \in Ptr, NEW v
  PROVE  InRange([m EXCEPT !.heap[p] = v])
BY DEF InRange, Mem

LEMMA ClearInRange ==
  ASSUME ValueAssumption, NEW m, Good(m), InRange(m), NEW x \in Obj
  PROVE  InRange(clear(m, x))
<1> DEFINE f == m.obj[x].field
           d == [m EXCEPT !.heap[f] = Free]
<1>0. m \in Mem /\ Null \in Int /\ "NONE" \in Type /\ "NONE" \notin Numeric
  BY DEF Good, Null, Type, Numeric, Real
<1>1. CASE IsText(m, x)
  <2>1. f \in Ptr /\ f # Null
    BY <1>1 DEF Good, Owns, ValueAssumption, Null
  <2>2. clear(m, x) = Write(d, x, "NONE", Null)
    BY <1>1, <2>1 DEF clear, IsText
  <2>3. InRange(d)
    BY <1>0, <2>1, StoreInRange
  <2>4. d \in Mem
    BY <1>0, <2>1 DEF Mem
  <2> QED BY <1>0, <2>2, <2>3, <2>4, WriteInRange
<1>2. CASE ~IsText(m, x)
  <2>1. clear(m, x) = Write(m, x, "NONE", Null)
    BY <1>2 DEF clear, IsText
  <2> QED BY <1>0, <2>1, WriteInRange
<1> QED BY <1>1, <1>2

LEMMA ResetInRange ==
  ASSUME ValueAssumption, EnoughMemory, NEW m, Good(m), InRange(m), NEW x \in Obj, NEW t \in Type
  PROVE  InRange(reset(m, x, t))
<1> DEFINE c == clear(m, x)
           p == new(c)
           w == Write(c, x, t, p)
<1>1. Good(c) /\ c \in Mem /\ InRange(c)
  BY ClearGood, ClearInRange DEF Good
<1>2. p \in Ptr /\ Null \in Int
  BY <1>1, NewIsFree DEF Null
<1> HIDE DEF c, p
<1>3. CASE m.obj[x].type = t
  BY <1>3 DEF reset
<1>4. CASE m.obj[x].type # t /\ t = "STRING"
  <2>1. reset(m, x, t) = [w EXCEPT !.heap[p] = EmptyText]
    BY <1>4 DEF reset, c, p
  <2>2. w \in Mem /\ InRange(w)
    BY <1>1, <1>2, <1>4, WriteFields, WriteInRange DEF Numeric, Real
  <2> HIDE DEF w
  <2>3. InRange([w EXCEPT !.heap[p] = EmptyText])
    BY <1>2, <2>2, StoreInRange
  <2> QED BY <2>1, <2>3
<1>5. CASE m.obj[x].type # t /\ t # "STRING"
  <2>1. reset(m, x, t) = Write(c, x, t, Null)
    BY <1>5 DEF reset, c
  <2>2. t \in Numeric => Null \in Holds(t)
    BY NullHolds
  <2> QED BY <1>1, <1>2, <2>1, <2>2, WriteInRange
<1> QED BY <1>3, <1>4, <1>5

LEMMA BecomesInRange ==
  ASSUME NEW m, InRange(m), Becomes(m)
  PROVE  InRange(Memory)'
<1>1. Memory'.obj = m.obj /\ Memory'.heap = m.heap
  BY DEF Becomes, Memory
<1> QED BY <1>1 DEF InRange

LEMMA BornInRange ==
  ASSUME Good(Memory), InRange(Memory), NEW x \in Obj
  PROVE  InRange(Born(x))
<1>1. Memory \in Mem /\ Null \in Int /\ "NONE" \in Type /\ "NONE" \notin Numeric
  BY DEF Good, Null, Type, Numeric, Real
<1>2. InRange(Write(Memory, x, "NONE", Null))
  BY <1>1, WriteInRange
<1> QED BY <1>2 DEF Born

LEMMA SetNumberInRange ==
  ASSUME ValueAssumption, EnoughMemory, Good(Memory), InRange(Memory),
         NEW x \in Obj, NEW t \in Numeric, NEW v \in Number, SetNumber(x, t, v)
  PROVE  InRange(Memory)'
<1> DEFINE r == reset(Born(x), x, t)
<1>1. t \in Type /\ Stored(t, v) \in Int /\ Stored(t, v) \in Holds(t)
  BY StoredIsInt, StoredHolds DEF Type, ValueAssumption
<1>2. Good(r) /\ InRange(r)
  BY <1>1, BornGood, BornInRange, ResetGood, ResetInRange
<1>3. Becomes(Write(r, x, t, Stored(t, v)))
  BY DEF SetNumber
<1> HIDE DEF r
<1>4. InRange(Write(r, x, t, Stored(t, v)))
  BY <1>1, <1>2, WriteInRange DEF Good
<1> QED BY <1>3, <1>4, BecomesInRange

LEMMA SetTextInRange ==
  ASSUME ValueAssumption, EnoughMemory, Good(Memory), InRange(Memory),
         NEW x \in Obj, NEW v \in Text, SetText(x, v)
  PROVE  InRange(Memory)'
<1> DEFINE r == reset(Born(x), x, "STRING")
<1>1. "STRING" \in Type
  BY DEF Type
<1>2. Good(r) /\ InRange(r) /\ IsText(r, x)
  BY <1>1, BornGood, BornInRange, ResetGood, ResetInRange DEF IsText
<1>3. Becomes([r EXCEPT !.heap[r.obj[x].field] = v])
  BY DEF SetText
<1> HIDE DEF r
<1>4. r \in Mem /\ r.obj[x].field \in Ptr
  BY <1>2 DEF Good, Owns
<1>5. InRange([r EXCEPT !.heap[r.obj[x].field] = v])
  BY <1>2, <1>4, StoreInRange
<1> QED BY <1>3, <1>5, BecomesInRange

LEMMA AssignInRange ==
  ASSUME ValueAssumption, EnoughMemory, Good(Memory), InRange(Memory),
         NEW x \in Obj, NEW y \in Obj, Assign(x, y)
  PROVE  InRange(Memory)'
<1> DEFINE t == obj[y].type
           r == reset(Born(x), x, t)
<1>1. t \in Type /\ obj[y].field \in Int \cup Ptr
  BY DEF Assign, Live, Good, Mem, Memory
<1>2. CASE x = y
  BY <1>2, BecomesInRange DEF Assign
<1>3. CASE x # y
  <2>1. Good(r) /\ InRange(r) /\ r.obj[x].type = t /\ r.obj[y] = obj[y]
    BY <1>1, <1>3, BornGood, BornInRange, ResetGood, ResetInRange
  <2>2. Becomes(IF t = "STRING"
                  THEN [r EXCEPT !.heap[r.obj[x].field] = r.heap[r.obj[y].field]]
                  ELSE Write(r, x, t, obj[y].field))
    BY <1>3 DEF Assign
  <2> HIDE DEF r, t
  <2>3. CASE t = "STRING"
    <3>1. IsText(r, x) /\ IsText(r, y)
      BY <2>1, <2>3 DEF IsText, t
    <3> DEFINE v == r.heap[r.obj[y].field]
    <3>2. r \in Mem /\ r.obj[x].field \in Ptr
      BY <2>1, <3>1 DEF Good, Owns
    <3> HIDE DEF v
    <3>3. InRange([r EXCEPT !.heap[r.obj[x].field] = v])
      BY <2>1, <3>2, StoreInRange
    <3> QED BY <2>2, <2>3, <3>3, BecomesInRange DEF v
  <2>4. CASE t # "STRING"
    <3>1. t \in Numeric => obj[y].field \in Holds(t)
      BY DEF InRange, Memory, t
    <3>2. InRange(Write(r, x, t, obj[y].field))
      BY <1>1, <2>1, <3>1, WriteInRange DEF Good
    <3> QED BY <2>2, <2>4, <3>2, BecomesInRange
  <2> QED BY <2>3, <2>4
<1> QED BY <1>2, <1>3

LEMMA MoveInRange ==
  ASSUME ValueAssumption, Good(Memory), InRange(Memory),
         NEW x \in Obj, NEW y \in Obj, Move(x, y)
  PROVE  InRange(Memory)'
<1> DEFINE c == clear(Born(x), x)
           w == Write(c, x, obj[y].type, obj[y].field)
<1>1. /\ obj[y].type \in Type /\ obj[y].field \in Int \cup Ptr
      /\ Null \in Int /\ "NONE" \in Type /\ "NONE" \notin Numeric
  BY DEF Move, Live, Good, Mem, Memory, Null, Type, Numeric, Real
<1>2. CASE x = y
  BY <1>2, BecomesInRange DEF Move
<1>3. CASE x # y
  <2>1. Good(c) /\ InRange(c)
    BY BornGood, BornInRange, ClearGood, ClearInRange
  <2>2. Becomes(Write(w, y, "NONE", Null))
    BY <1>3 DEF Move
  <2> HIDE DEF c
  <2>3. obj[y].type \in Numeric => obj[y].field \in Holds(obj[y].type)
    BY DEF InRange, Memory
  <2>4. w \in Mem /\ InRange(w)
    BY <1>1, <2>1, <2>3, WriteFields, WriteInRange DEF Good
  <2> HIDE DEF w
  <2>5. InRange(Write(w, y, "NONE", Null))
    BY <1>1, <2>4, WriteInRange
  <2> QED BY <2>2, <2>5, BecomesInRange
<1> QED BY <1>2, <1>3

LEMMA NextInRange ==
  ASSUME ValueAssumption, EnoughMemory, Good(Memory), InRange(Memory), [ValueNext]_valueVars
  PROVE  InRange(Memory)'
<1>1. CASE UNCHANGED valueVars
  BY <1>1 DEF valueVars, Memory, InRange
<1>2. ASSUME NEW x \in Obj, SetNone(x) PROVE InRange(Memory)'
  BY <1>2, BornInRange, BecomesInRange DEF SetNone
<1>3. ASSUME NEW x \in Obj, Destroy(x) PROVE InRange(Memory)'
  <2> DEFINE c == clear(Memory, x)
  <2>1. Good(c) /\ InRange(c)
    BY <1>3, ClearGood, ClearInRange
  <2>2. Becomes(Write(c, x, "dead", Null))
    BY <1>3 DEF Destroy, Write, Dead
  <2> HIDE DEF c
  <2>3. InRange(Write(c, x, "dead", Null))
    BY <1>3, <2>1, WriteInRange DEF Good, Null, Numeric, Real
  <2> QED BY <2>2, <2>3, BecomesInRange
<1> QED BY <1>1, <1>2, <1>3, SetNumberInRange, SetTextInRange, AssignInRange, MoveInRange
        DEF ValueNext

-----------------------------------------------------------------------------
(* Reading: every width agrees *)

\* Without its fraction a number is no farther from 0, and on the same side.
LEMMA WholeIsInt ==
  ASSUME ValueAssumption, NEW v \in Int
  PROVE  Whole(v) \in Int /\ (v = 0 => Whole(v) = 0)
<1>1. Unit \in Nat \ {0}
  BY DEF ValueAssumption
<1>2. \A n \in Nat : n \div Unit \in Nat /\ 0 \div Unit = 0
  BY <1>1
<1> QED BY <1>2 DEF Whole

\* What Num can be, by type.
LEMMA NumHolds ==
  ASSUME ValueAssumption, Good(Memory), InRange(Memory), NEW x \in Obj, Live(x)
  PROVE  /\ Num(x) \in Int
         /\ obj[x].type \notin Real => Num(x) \in Numeral
         /\ Num(x) # 0 => asBool(x)
         /\ asBool(x) /\ Num(x) = 0 => obj[x].type \in Real \cup {"STRING"}
<1>1. PICK h \in Nat \ {0} : h = Word \div 2 /\ Word = 2 * h /\ Byte <= h
  BY Halves
<1>2. /\ obj[x].type \in Type
      /\ obj[x].type \in Numeric => obj[x].field \in Holds(obj[x].type)
  BY DEF Good, Mem, Memory, Live, InRange
<1>3. CASE obj[x].type = "STRING"
  <2>1. Held(x) \in Text
    BY <1>3 DEF Held, Good, Mem, Owns, IsText, Memory
  <2>2. Num(x) = Decimal[Held(x)] /\ (asBool(x) <=> Held(x) \notin FalseText)
    BY <1>3 DEF Num, asBool, Real
  <2>3. Num(x) \in Numeral /\ (Held(x) \in FalseText => Num(x) = 0)
    BY <2>1, <2>2 DEF ValueAssumption, Numeral
  <2> QED BY <1>1, <1>3, <2>2, <2>3 DEF Numeral
<1>4. CASE obj[x].type = "NONE"
  <2>1. Num(x) = 0 /\ ~asBool(x)
    BY <1>4 DEF Num, asBool, Held, Null, Real
  <2> QED BY <1>1, <2>1 DEF Numeral
<1>5. CASE obj[x].type \in Real
  <2>1. Held(x) \in Int
    BY <1>2, <1>5 DEF Held, Holds, Real, Numeric
  <2>2. Num(x) = Whole(Held(x)) /\ (asBool(x) <=> Held(x) # 0)
    BY <1>5 DEF Num, asBool, Real
  <2> QED BY <1>5, <2>1, <2>2, WholeIsInt
<1>6. CASE obj[x].type \in Numeric \ Real
  <2>1. Num(x) = obj[x].field /\ (asBool(x) <=> obj[x].field # 0)
    BY <1>6 DEF Num, asBool, Held, Numeric, Real
  <2>2. CASE obj[x].type = "BYTE"
    BY <1>1, <1>2, <1>6, <2>1, <2>2 DEF Holds, Numeral, ValueAssumption
  <2>3. CASE obj[x].type = "INTEGER"
    BY <1>1, <1>2, <1>6, <2>1, <2>3 DEF Holds, Numeral
  <2>4. CASE obj[x].type = "UNSIGNED"
    BY <1>1, <1>2, <1>6, <2>1, <2>4 DEF Holds, Numeral
  <2>5. CASE obj[x].type = "BOOLEAN"
    BY <1>1, <1>2, <1>6, <2>1, <2>5 DEF Holds, Numeral
  <2> QED BY <1>6, <2>2, <2>3, <2>4, <2>5 DEF Numeric
<1> QED BY <1>2, <1>3, <1>4, <1>5, <1>6 DEF Type

\* A value read as int, unsigned, byte and truth, when it is no real number
\* beyond a byte: the wider the type, the more of the same number it gives.
LEMMA WidthsAgree ==
  ASSUME ValueAssumption, Good(Memory), InRange(Memory), NEW x \in Obj, Live(x),
         Fits(x, 0, Byte - 1),
         NEW i \in asInt(x), NEW u \in asUnsignedInt(x), NEW b \in asByte(x)
  PROVE  /\ i % Word = u /\ u % Byte = b
         /\ u # 0 => asBool(x)
         /\ asBool(x) /\ u = 0 => obj[x].type \in Real \cup {"STRING"}
<1>1. PICK h \in Nat \ {0} : h = Word \div 2 /\ Word = 2 * h /\ Byte <= h
  BY Halves
<1>2. Byte \in Nat \ {0} /\ Word \in Nat \ {0} /\ Word % Byte = 0
  BY DEF ValueAssumption
<1>3. PICK n \in Int : n = Num(x)
  BY NumHolds
<1>4. n \in -h .. Word - 1
  <2>1. CASE obj[x].type \in Real
    BY <1>1, <1>2, <1>3, <2>1 DEF Fits
  <2>2. CASE obj[x].type \notin Real
    BY <1>1, <1>3, <2>2, NumHolds DEF Numeral
  <2> QED BY <2>1, <2>2
<1>5. Fits(x, -h, h - 1) /\ Fits(x, 0, Word - 1)
  BY <1>1, <1>2, <1>3 DEF Fits
<1>6. /\ i = ((n + h) % Word) - h
      /\ u = n % Word
      /\ b = n % Byte
  BY <1>1, <1>3, <1>5 DEF asInt, asUnsignedInt, asByte
<1>7. i % Word = u
  <2>1. h \in Int /\ Word \in Nat \ {0}
    BY <1>1, <1>2
  <2>2. (((n + h) % Word) - h) % Word = n % Word
    BY <2>1, ModShift
  <2> QED BY <1>6, <2>2
<1>8. u % Byte = b
  BY <1>2, <1>6, ModMod
<1>9. u = 0 <=> n = 0
  <2>1. n > -Word /\ n < Word
    BY <1>1, <1>2, <1>4
  <2> QED BY <1>2, <1>6, <2>1, ModZero
<1> QED BY <1>3, <1>7, <1>8, <1>9, NumHolds

\* CValue's readers agree for any width of a word and of a byte in it: asInt,
\* asUnsignedInt and asByte give the same number, each cut to its width, asBool
\* is true of what they do not read as 0, and of what they do only if it is a
\* text or a real number, and objects but real numbers that operator== takes for
\* equal read the same, whatever assignments and conversions made them.
THEOREM ReadersAgree ==
  ASSUME EnoughMemory
  PROVE  ValueInit /\ [][ValueNext]_valueVars => []ReadsAgree
<1>1. ValueInit => Good(Memory) /\ InRange(Memory)
  <2>1. ValueInit => InRange(Memory)
    BY DEF ValueInit, InRange, Memory, Dead, Numeric, Real
  <2> QED BY <2>1, InitGood, ValueAssumption
<1>2. /\ Good(Memory) /\ InRange(Memory)
      /\ [ValueNext]_valueVars
      => Good(Memory)' /\ InRange(Memory)'
  BY NextGood, NextInRange, ValueAssumption, EnoughMemory
<1>3. Good(Memory) /\ InRange(Memory) => ReadsAgree
  <2> SUFFICES ASSUME Good(Memory), InRange(Memory), NEW x \in Obj, Live(x)
               PROVE  /\ \A i \in asInt(x), u \in asUnsignedInt(x), b \in asByte(x) :
                           Fits(x, 0, Byte - 1) =>
                             /\ i % Word = u /\ u % Byte = b
                             /\ u # 0 => asBool(x)
                             /\ asBool(x) /\ u = 0
                                  => obj[x].type \in Real \cup {"STRING"}
                      /\ \A y \in Obj : Live(y) /\ Equals(x, y) =>
                           \/ obj[x].type \in Real
                           \/ asInt(x) = asInt(y) /\ (asBool(x) <=> asBool(y))
    BY DEF ReadsAgree
  <2>1. ASSUME NEW i \in asInt(x), NEW u \in asUnsignedInt(x), NEW b \in asByte(x),
               Fits(x, 0, Byte - 1)
        PROVE  /\ i % Word = u /\ u % Byte = b
               /\ u # 0 => asBool(x)
               /\ asBool(x) /\ u = 0 => obj[x].type \in Real \cup {"STRING"}
    BY <2>1, WidthsAgree, ValueAssumption
  <2>2. ASSUME NEW y \in Obj, Live(y), Equals(x, y), obj[x].type \notin Real
        PROVE  asInt(x) = asInt(y) /\ (asBool(x) <=> asBool(y))
    <3>1. x = y \/ (obj[x].type = obj[y].type /\ Held(x) = Held(y))
      BY <2>2 DEF Equals, Held
    <3>2. Num(x) = Num(y) /\ (asBool(x) <=> asBool(y)) /\ (x = y \/ obj[x].type = obj[y].type)
      BY <3>1 DEF Num, asBool
    <3> QED BY <3>2 DEF asInt, Fits
  <2> QED BY <2>1, <2>2
<1> QED BY <1>1, <1>2, <1>3, PTL

-----------------------------------------------------------------------------
(* RcClient *)

\* The loop thread lives only while client_thread is joinable: thread_start
\* and joined bracket its life.
LoopIsJoinable == loop \notin {"none", "exited"} => joinable

\* A careful owner's belief is the truth, also after a failed thread_start.
BeliefIsTrue == Careful => (up <=> joinable) /\ NeverAborts

ClientInv == TypeOK /\ Conservation /\ QuietWhenStopped /\ LoopIsJoinable /\ BeliefIsTrue

-----------------------------------------------------------------------------
(* Sequences *)

LEMMA AppendToQueue ==
  ASSUME NEW S, NEW s \in Seq(S), NEW t \in Seq(S), NEW m \in S
  PROVE  s \o Append(t, m) = Append(s \o t, m)
BY SMTT(30)

LEMMA FlushQueue ==
  ASSUME NEW S, NEW s \in Seq(S), NEW t \in Seq(S)
  PROVE  (s \o t) \o <<>> = s \o t /\ s \o t \in Seq(S)
OBVIOUS

-----------------------------------------------------------------------------
(* The inductive invariant, one lemma per party. *)

LEMMA InitClient ==
  ASSUME Init
  PROVE  ClientInv
<1>0. <<>> \in Seq(Message)
  BY EmptySeq
<1>1. TypeOK
  BY <1>0 DEF Init, TypeOK, Address
<1>2. Conservation
  BY <1>0, ConcatEmptySeq DEF Init, Conservation
<1>3. QuietWhenStopped /\ LoopIsJoinable /\ BeliefIsTrue
  BY DEF Init, QuietWhenStopped, LoopIsJoinable, BeliefIsTrue, NeverAborts
<1> QED BY <1>1, <1>2, <1>3 DEF ClientInv

LEMMA OwnerClient ==
  ASSUME ConstantsAssumption, ClientInv, Owner
  PROVE  ClientInv'
<1>1. ASSUME NEW ip \in Address, set_server_ip_port(ip)
      PROVE  ClientInv'
  BY <1>1 DEF set_server_ip_port, queueVars, ClientInv, TypeOK, Conservation,
       QuietWhenStopped, LoopIsJoinable, BeliefIsTrue, NeverAborts
<1>2. ASSUME NEW u \in Uid, set_uid(u)
      PROVE  ClientInv'
  BY <1>2 DEF set_uid, queueVars, ClientInv, TypeOK, Conservation,
       QuietWhenStopped, LoopIsJoinable, BeliefIsTrue, NeverAborts
<1>3. ASSUME NEW ok \in BOOLEAN, thread_start(ok)
      PROVE  ClientInv'
  BY <1>3 DEF thread_start, MayStart, queueVars, ConstantsAssumption, ClientInv,
       TypeOK, Conservation, QuietWhenStopped, LoopIsJoinable, BeliefIsTrue,
       NeverAborts
<1>4. CASE stop
  BY <1>4 DEF stop, queueVars, ClientInv, TypeOK, Conservation,
       QuietWhenStopped, LoopIsJoinable, BeliefIsTrue, NeverAborts
<1>5. CASE join
  BY <1>5 DEF join, queueVars, ClientInv, TypeOK, Conservation,
       QuietWhenStopped, LoopIsJoinable, BeliefIsTrue, NeverAborts
<1>6. CASE joined
  BY <1>6 DEF joined, queueVars, ClientInv, TypeOK, Conservation,
       QuietWhenStopped, LoopIsJoinable, BeliefIsTrue, NeverAborts
<1>7. CASE destroy
  BY <1>7 DEF destroy, queueVars, ClientInv, TypeOK, Conservation,
       QuietWhenStopped, LoopIsJoinable, BeliefIsTrue, NeverAborts
<1> QED BY <1>1, <1>2, <1>3, <1>4, <1>5, <1>6, <1>7 DEF Owner

LEMMA SendBufferType ==
  ASSUME ConstantsAssumption, TypeOK, Len(accepted) < MaxSends
  PROVE  SendBuffer \in Message
<1>1. Len(accepted) \in Nat /\ uid \in Uid
  BY DEF TypeOK
<1> QED BY <1>1 DEF SendBuffer, Message, ConstantsAssumption

LEMMA SendClient ==
  ASSUME ConstantsAssumption, ClientInv, send_data
  PROVE  ClientInv'
<1>1. /\ Len(accepted) \in Nat /\ Len(accepted) < MaxSends
      /\ uid \in Uid /\ send_list \in Seq(Message)
      /\ tried \in Seq(Message) /\ accepted \in Seq(Message)
  BY DEF send_data, ClientInv, TypeOK
<1>2. SendBuffer \in Message
  BY <1>1, SendBufferType DEF ClientInv
<1>3. TypeOK'
  BY <1>1, <1>2 DEF send_data, ownerVars, ClientInv, TypeOK
<1>4. Conservation'
  <2>1. /\ send_list' = Append(send_list, SendBuffer)
        /\ accepted' = Append(accepted, SendBuffer)
        /\ tried' = tried
    BY DEF send_data
  <2>2. tried \o Append(send_list, SendBuffer)
          = Append(tried \o send_list, SendBuffer)
    BY <1>1, <1>2, AppendToQueue
  <2> QED BY <2>1, <2>2 DEF ClientInv, Conservation
<1> QED BY <1>3, <1>4 DEF send_data, ownerVars, ClientInv, QuietWhenStopped,
       LoopIsJoinable, BeliefIsTrue, NeverAborts

LEMMA DrainClient ==
  ASSUME ClientInv, drain
  PROVE  ClientInv'
<1>1. tried \in Seq(Message) /\ send_list \in Seq(Message)
  BY DEF ClientInv, TypeOK
<1>2. CASE send_list = <<>>
  BY <1>2 DEF drain, ownerVars, ClientInv, TypeOK, Conservation,
       QuietWhenStopped, LoopIsJoinable, BeliefIsTrue, NeverAborts
<1>3. CASE send_list # <<>>
  <2>1. tried' = tried \o send_list /\ send_list' = <<>> /\ accepted' = accepted
        /\ loop = "drain" /\ loop' = "poll" /\ act' = "data"
        /\ UNCHANGED <<owner, up, server_ip, uid, running, joinable>>
    BY <1>3 DEF drain, ownerVars
  <2>2. Conservation'
    BY <1>1, <2>1, FlushQueue DEF ClientInv, Conservation
  <2>3. TypeOK'
    BY <1>1, <2>1, FlushQueue DEF ClientInv, TypeOK
  <2> QED BY <2>1, <2>2, <2>3 DEF ClientInv, QuietWhenStopped, LoopIsJoinable,
         BeliefIsTrue, NeverAborts
<1> QED BY <1>2, <1>3

LEMMA LoopClient ==
  ASSUME ClientInv, Loop \/ udp_cb
  PROVE  ClientInv'
<1>1. CASE timer_check_cb
  BY <1>1 DEF timer_check_cb, ownerVars, queueVars, ClientInv, TypeOK,
       Conservation, QuietWhenStopped, LoopIsJoinable, BeliefIsTrue, NeverAborts
<1>2. CASE drain
  BY <1>2, DrainClient
<1>3. CASE heartbeat
  BY <1>3 DEF heartbeat, ownerVars, queueVars, ClientInv, TypeOK,
       Conservation, QuietWhenStopped, LoopIsJoinable, BeliefIsTrue, NeverAborts
<1>4. CASE uv_run_returns
  BY <1>4 DEF uv_run_returns, ownerVars, queueVars, ClientInv, TypeOK,
       Conservation, QuietWhenStopped, LoopIsJoinable, BeliefIsTrue, NeverAborts
<1>5. CASE process_tail
  BY <1>5 DEF process_tail, queueVars, ClientInv, TypeOK,
       Conservation, QuietWhenStopped, LoopIsJoinable, BeliefIsTrue, NeverAborts
<1>6. CASE udp_cb
  BY <1>6 DEF udp_cb, ownerVars, queueVars, ClientInv, TypeOK,
       Conservation, QuietWhenStopped, LoopIsJoinable, BeliefIsTrue, NeverAborts
<1> QED BY <1>1, <1>2, <1>3, <1>4, <1>5, <1>6 DEF Loop

LEMMA StutterClient ==
  ASSUME ClientInv, UNCHANGED vars
  PROVE  ClientInv'
BY DEF vars, ClientInv, TypeOK, Conservation, QuietWhenStopped, LoopIsJoinable,
       BeliefIsTrue, NeverAborts

-----------------------------------------------------------------------------
(* The theorems. *)

\* The inductive invariant holds in every reachable state.
THEOREM ClientInvariant == Spec => []ClientInv
<1>1. Init => ClientInv
  BY InitClient
<1>2. ClientInv /\ [Next]_vars => ClientInv'
  BY OwnerClient, SendClient, LoopClient, StutterClient, ConstantsAssumption DEF Next
<1> QED BY <1>1, <1>2, PTL DEF Spec

\* Every variable of the client keeps its type, the queues hold messages.
THEOREM ClientTypes == Spec => []TypeOK
<1>1. ClientInv => TypeOK
  BY DEF ClientInv
<1> QED BY <1>1, ClientInvariant, PTL

\* No message is lost, repeated or overtaken between send_data and the socket,
\* for any number of messages, threads and sessions.
THEOREM MessagesConserved == Spec => []Conservation
<1>1. ClientInv => Conservation
  BY DEF ClientInv
<1> QED BY <1>1, ClientInvariant, PTL

\* Nothing is sent and no callback runs once stop has returned.
THEOREM StoppedIsQuiet == Spec => []QuietWhenStopped
<1>1. ClientInv => QuietWhenStopped
  BY DEF ClientInv
<1> QED BY <1>1, ClientInvariant, PTL

\* The owner who minds the result of thread_start is never terminated.
THEOREM CarefulNeverAborts ==
  ASSUME Careful
  PROVE  Spec => []NeverAborts
<1>1. ClientInv => NeverAborts
  BY Careful DEF ClientInv, BeliefIsTrue
<1> QED BY <1>1, ClientInvariant, PTL

\* Each step of the client is a step of the outbox or invisible in it; that a
\* session also flushes in the end is left to TLC.
THEOREM ClientImplementsOutbox == Spec => O!Safety
<1>1. Init => O!Init
  BY DEF Init, O!Init
<1>2. ClientInv /\ [Next]_vars => [O!Next]_(O!vars)
  <2> SUFFICES ASSUME ClientInv, [Next]_vars
               PROVE  [O!Next]_(O!vars)
    OBVIOUS
  <2>1. CASE Owner
    <3>1. send_list' = send_list /\ tried' = tried
      BY <2>1 DEF Owner, set_server_ip_port, set_uid, thread_start, stop, join,
         joined, destroy, queueVars
    <3>2. joinable' \in {joinable, TRUE, FALSE} /\ joinable \in BOOLEAN
      BY <2>1 DEF Owner, set_server_ip_port, set_uid, thread_start, stop, join,
         joined, destroy, ClientInv, TypeOK
    <3> QED BY <3>1, <3>2 DEF O!Next, O!Open, O!Close, O!vars
  <2>2. CASE send_data
    <3>1. SendBuffer \in Message
      BY <2>2, SendBufferType, ConstantsAssumption DEF ClientInv, send_data
    <3>2. O!Put(SendBuffer)
      BY <2>2 DEF send_data, ownerVars, O!Put
    <3> QED BY <3>1, <3>2 DEF O!Next
  <2>3. CASE drain
    <3>1. CASE send_list = <<>>
      BY <2>3, <3>1 DEF drain, ownerVars, O!vars
    <3>2. CASE send_list # <<>>
      <4>1. O!Flush
        BY <2>3, <3>2 DEF drain, ownerVars, O!Flush, ClientInv, LoopIsJoinable
      <4> QED BY <4>1 DEF O!Next
    <3> QED BY <3>1, <3>2
  <2>4. CASE timer_check_cb \/ heartbeat \/ uv_run_returns \/ process_tail
             \/ udp_cb \/ UNCHANGED vars
    BY <2>4 DEF timer_check_cb, heartbeat, uv_run_returns, process_tail, udp_cb,
       vars, ownerVars, queueVars, O!vars
  <2> QED BY <2>1, <2>2, <2>3, <2>4 DEF Next, Loop
<1> QED BY <1>1, <1>2, ClientInvariant, PTL DEF Spec, O!Safety

=============================================================================
