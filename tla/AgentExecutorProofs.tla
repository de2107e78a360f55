------------------------- MODULE AgentExecutorProofs -------------------------
(***************************************************************************)
(* Theorems about AgentExecutor, for any number of concurrent runs of an   *)
(* agent, any answers and errors, and crashes in any number.               *)
(***************************************************************************)
EXTENDS AgentExecutor, TLAPS, FiniteSetTheorems

LEMMA NoResultType == NoResult \in Result
BY DEF NoResult, Result, Reasons

\* Every alternative of Next, with its run: what each proof by cases splits on.
LEMMA Steps ==
  ASSUME [Next]_vars
  PROVE  \/ \E r \in Runs : Generate(r) \/ GenerateFails(r) \/ Deadline(r)
         \/ \E r \in Runs : Repair(r) \/ RepairFails(r)
         \/ \E r \in Runs : MetricRead(r) \/ MetricInsert(r) \/ MetricConflict(r)
         \/ \E r \in Runs : MetricWrite(r)
         \/ \E r \in Runs : MetricFails(r) \/ Crash(r)
         \/ UNCHANGED vars
BY DEF Next, Execute

LEMMA GenerateType ==
  ASSUME TypeOK, NEW r \in Runs, Generate(r)
  PROVE  TypeOK'
<1>. USE DEF TypeOK, metricVars, history, Goto
<1>1. UNCHANGED <<rowExists, metric, inserting, seen, recorded, overlapped>>
  BY DEF Generate
<1>2. PICK res \in Result, p \in {"metric_read", "repair"} :
        result' = [result EXCEPT ![r] = res] /\ pc' = [pc EXCEPT ![r] = p]
  <2>1. CASE Report(r, [NoResult EXCEPT !.success = TRUE])
    <3>. [NoResult EXCEPT !.success = TRUE] \in Result
      BY DEF NoResult, Result, Reasons
    <3>. QED BY <2>1 DEF Report
  <2>2. ASSUME NEW text \in Answers \ {"valid"}, NEW b \in BOOLEAN
        PROVE  [Invalidated(text) EXCEPT !.success = b,
                  !.repairs_attempted = IF b THEN 1 ELSE 0] \in Result
    BY DEF Invalidated, NoResult, Result, Reasons
  <2>. QED BY <2>1, <2>2 DEF Generate
<1>3. inserting # r
  BY RunsAssumption DEF Generate
<1>4. pc' \in [Runs -> ProgramPoints] /\ result' \in [Runs -> Result]
  BY <1>2 DEF ProgramPoints, InMetric
<1>5. \A q \in Runs : pc'[q] = "metric_write" <=> pc[q] = "metric_write"
  BY <1>2 DEF Generate
<1>. QED BY <1>1, <1>4, <1>5

LEMMA NextType ==
  ASSUME TypeOK, [Next]_vars
  PROVE  TypeOK'
<1>. USE RunsAssumption DEF TypeOK, ProgramPoints, InMetric, Goto, Leave, metricVars, history
<1>0. Zeros \in [Counters -> Nat]
  BY DEF Zeros
<1>1. ASSUME NEW r \in Runs, GenerateFails(r) \/ Deadline(r) \/ Repair(r) \/ RepairFails(r)
      PROVE  TypeOK'
  <2>1. UNCHANGED <<rowExists, metric, inserting, seen, recorded, overlapped>>
        /\ pc' = [pc EXCEPT ![r] = "metric_read"] /\ pc[r] \in {"generate", "repair"}
    BY <1>1 DEF GenerateFails, Deadline, Repair, RepairFails, Report
  <2>2. result[r] \in Result
    OBVIOUS
  <2>3. result' \in [Runs -> Result]
    <3>1. CASE GenerateFails(r)
      <4>1. PICK e \in {"MODEL_TIMEOUT", "AUTH_ERROR"}, b \in BOOLEAN :
              result' = [result EXCEPT ![r] =
                [NoResult EXCEPT !.failure_reason = e, !.needs_retry = b]]
        BY <3>1 DEF GenerateFails, Report
      <4>2. [NoResult EXCEPT !.failure_reason = e, !.needs_retry = b] \in Result
        BY DEF NoResult, Result, Reasons
      <4>. QED BY <4>1, <4>2
    <3>2. CASE Deadline(r)
      BY <2>2, <3>2 DEF Deadline, Report, Result, Reasons
    <3>3. CASE Repair(r)
      <4>1. PICK b \in BOOLEAN, c \in BOOLEAN, n \in {0, 1} :
              result' = [result EXCEPT ![r] =
                [result[r] EXCEPT !.success = b, !.needs_repair_agent = c,
                                  !.repairs_attempted = n]]
        BY <3>3 DEF Repair, Repaired, Report
      <4>2. [result[r] EXCEPT !.success = b, !.needs_repair_agent = c,
                              !.repairs_attempted = n] \in Result
        BY <2>2 DEF Result
      <4>. QED BY <4>1, <4>2
    <3>4. CASE RepairFails(r)
      BY <2>2, <3>4 DEF RepairFails, Report, Result
    <3>. QED BY <1>1, <3>1, <3>2, <3>3, <3>4
  <2>. QED BY <2>1, <2>3
<1>2. ASSUME NEW r \in Runs, MetricRead(r) PROVE TypeOK'
  BY <1>2 DEF MetricRead
<1>3. ASSUME NEW r \in Runs, MetricInsert(r) PROVE TypeOK'
  BY <1>3 DEF MetricInsert
<1>4. ASSUME NEW r \in Runs, MetricConflict(r) PROVE TypeOK'
  BY <1>0, <1>4 DEF MetricConflict
<1>5. ASSUME NEW r \in Runs, MetricWrite(r) PROVE TypeOK'
  <2>1. metric' \in [Counters -> Nat]
    BY <1>5 DEF MetricWrite
  <2>2. inserting \in {r, NoRun} /\ inserting' = NoRun
    BY <1>5 DEF MetricWrite, TransactionOver
  <2>. QED BY <1>0, <1>5, <2>1, <2>2 DEF MetricWrite
<1>6. ASSUME NEW r \in Runs, MetricFails(r) \/ Crash(r) PROVE TypeOK'
  <2>1. UNCHANGED <<result, rowExists, metric, recorded, overlapped>>
        /\ inserting' = (IF inserting = r THEN NoRun ELSE inserting)
    BY <1>6 DEF MetricFails, Crash, TransactionOver
  <2>2. PICK p \in {"unrecorded", "dead"} :
          pc' = [pc EXCEPT ![r] = p] /\ seen' = [seen EXCEPT ![r] = Zeros]
    BY <1>6 DEF MetricFails, Crash
  <2>. QED BY <1>0, <2>1, <2>2
<1>7. CASE UNCHANGED vars
  BY <1>7 DEF vars, runVars
<1>. QED BY <1>1, <1>2, <1>3, <1>4, <1>5, <1>6, <1>7, GenerateType, Steps

\* In every reachable state each variable has its type, and the unique first row
\* has at most one transaction about to write it.
THEOREM AgentTypeCorrect == Spec => []TypeOK
<1>1. Init => TypeOK
  <2>1. Zeros \in [Counters -> Nat]
    BY DEF Zeros
  <2>. QED BY <2>1, NoResultType, RunsAssumption DEF Init, TypeOK, ProgramPoints
<1>2. TypeOK /\ [Next]_vars => TypeOK'
  BY NextType
<1>. QED BY <1>1, <1>2, PTL DEF Spec

-----------------------------------------------------------------------------
(* Failures are classified *)

\* Before the first answer the result is empty; a run in its second call holds a
\* failed validation and nothing else.
CallsInv ==
  \A r \in Runs :
    /\ pc[r] = "generate" => result[r] = NoResult
    /\ pc[r] = "repair" =>
         /\ result[r].failure_reason \in JsonReasons
         /\ ~result[r].success /\ ~result[r].needs_retry /\ ~result[r].needs_repair_agent
         /\ result[r].repairs_attempted = 0

Classified(res) ==
  /\ res.needs_repair_agent <=> ~res.success /\ res.failure_reason \in JsonReasons
  /\ res.success \/ res.needs_repair_agent => ~res.needs_retry
  /\ res.success => (res.failure_reason \in JsonReasons <=> res.repairs_attempted = 1)

\* What a run reports at the end of its calls is classified.
LEMMA ReportClassified ==
  ASSUME TypeOK, CallsInv, NEW r \in Runs,
         Generate(r) \/ GenerateFails(r) \/ Deadline(r) \/ Repair(r) \/ RepairFails(r)
  PROVE  /\ pc'[r] \in {"metric_read", "repair"}
         /\ pc'[r] = "metric_read" => Classified(result'[r])
         /\ pc'[r] = "repair" =>
              /\ result'[r].failure_reason \in JsonReasons
              /\ ~result'[r].success /\ ~result'[r].needs_retry
              /\ ~result'[r].needs_repair_agent /\ result'[r].repairs_attempted = 0
<1>. USE DEF TypeOK, CallsInv, Report, Goto, JsonReasons
<1>0. NoResult \in Result /\ result[r] \in Result
  BY NoResultType
<1>1. CASE Generate(r)
  <2>1. CASE Report(r, [NoResult EXCEPT !.success = TRUE])
    BY <2>1 DEF Classified, NoResult
  <2>2. CASE \E text \in Answers \ {"valid"} :
               LET repaired == QuickJsonRepair(RawContent(text)) = "valid" IN
               /\ result' = [result EXCEPT ![r] =
                    [Invalidated(text) EXCEPT !.success = repaired,
                                              !.repairs_attempted = IF repaired THEN 1 ELSE 0]]
               /\ Goto(r, IF repaired THEN "metric_read" ELSE "repair")
    <3>1. PICK text \in Answers \ {"valid"}, b \in BOOLEAN :
            /\ result'[r] = [Invalidated(text) EXCEPT !.success = b,
                                !.repairs_attempted = IF b THEN 1 ELSE 0]
            /\ pc'[r] = IF b THEN "metric_read" ELSE "repair"
      BY <2>2
    <3>2. /\ result'[r].success = b /\ result'[r].repairs_attempted = (IF b THEN 1 ELSE 0)
          /\ result'[r].failure_reason \in JsonReasons
          /\ ~result'[r].needs_retry /\ ~result'[r].needs_repair_agent
      BY <3>1 DEF Invalidated, NoResult
    <3>. QED BY <3>1, <3>2 DEF Classified
  <2>. QED BY <1>1, <2>1, <2>2 DEF Generate
<1>2. CASE GenerateFails(r)
  <2>1. PICK e \in {"MODEL_TIMEOUT", "AUTH_ERROR"}, b \in BOOLEAN :
          /\ result'[r] = [NoResult EXCEPT !.failure_reason = e, !.needs_retry = b]
          /\ pc'[r] = "metric_read"
    BY <1>2 DEF GenerateFails
  <2>. QED BY <2>1 DEF Classified, NoResult
<1>3. CASE Deadline(r)
  <2>1. ~result[r].success /\ ~result[r].needs_repair_agent
    BY <1>3 DEF Deadline, NoResult
  <2>2. /\ result'[r] = [result[r] EXCEPT !.failure_reason = "MODEL_TIMEOUT", !.needs_retry = TRUE]
        /\ pc'[r] = "metric_read"
    BY <1>3 DEF Deadline
  <2>. QED BY <1>0, <2>1, <2>2 DEF Classified, Result
<1>4. CASE Repair(r)
  <2>1. PICK text \in Answers :
          result'[r] = [result[r] EXCEPT !.success = (text = "valid"),
                                         !.needs_repair_agent = (text # "valid"),
                                         !.repairs_attempted = IF Parses(text) THEN 1 ELSE 0]
    BY <1>4 DEF Repair, Repaired
  <2>2. pc[r] = "repair" /\ pc'[r] = "metric_read"
    BY <1>4 DEF Repair
  <2>3. /\ result'[r].success <=> text = "valid"
        /\ result'[r].needs_repair_agent <=> text # "valid"
        /\ result'[r].repairs_attempted = IF Parses(text) THEN 1 ELSE 0
        /\ result'[r].failure_reason = result[r].failure_reason
        /\ result'[r].needs_retry = result[r].needs_retry
    BY <1>0, <2>1 DEF Result
  <2>. QED BY <2>2, <2>3 DEF Classified, Parses
<1>5. CASE RepairFails(r)
  <2>1. pc[r] = "repair" /\ pc'[r] = "metric_read"
        /\ result'[r] = [result[r] EXCEPT !.needs_repair_agent = TRUE]
    BY <1>5 DEF RepairFails
  <2>. QED BY <1>0, <2>1 DEF Classified, Result
<1>. QED BY <1>1, <1>2, <1>3, <1>4, <1>5

\* Outside the calls nobody touches a result, and nobody goes back to them.
LEMMA ResultsKept ==
  ASSUME TypeOK, [Next]_vars, NEW q \in Runs,
         ~\E r \in Runs : r = q /\ (\/ Generate(r) \/ GenerateFails(r) \/ Deadline(r)
                                    \/ Repair(r) \/ RepairFails(r))
  PROVE  /\ result'[q] = result[q]
         /\ pc'[q] \in {"generate", "repair"} => pc'[q] = pc[q]
         /\ pc'[q] \in InMetric \cup {"recorded", "unrecorded"} => Reported(q)
<1>. USE DEF TypeOK, Goto, Leave, InMetric, Reported
<1>1. ASSUME NEW r \in Runs,
             \/ Generate(r) \/ GenerateFails(r) \/ Deadline(r) \/ Repair(r) \/ RepairFails(r)
      PROVE  r # q /\ result'[q] = result[q] /\ pc'[q] = pc[q]
  BY <1>1 DEF Generate, GenerateFails, Deadline, Repair, RepairFails, Report
<1>2. ASSUME NEW r \in Runs, MetricRead(r) \/ MetricInsert(r) \/ MetricConflict(r)
      PROVE  result' = result /\ pc[r] \in InMetric
             /\ \E p \in InMetric \cup {"unrecorded"} : pc' = [pc EXCEPT ![r] = p]
  BY <1>2 DEF MetricRead, MetricInsert, MetricConflict
<1>3. ASSUME NEW r \in Runs, MetricWrite(r)
      PROVE  result' = result /\ pc[r] \in InMetric /\ pc' = [pc EXCEPT ![r] = "recorded"]
  BY <1>3 DEF MetricWrite
<1>4. ASSUME NEW r \in Runs, MetricFails(r)
      PROVE  result' = result /\ pc[r] \in InMetric /\ pc' = [pc EXCEPT ![r] = "unrecorded"]
  BY <1>4 DEF MetricFails
<1>5. ASSUME NEW r \in Runs, Crash(r)
      PROVE  result' = result /\ pc' = [pc EXCEPT ![r] = "dead"]
  BY <1>5 DEF Crash
<1>6. CASE UNCHANGED vars
  BY <1>6 DEF vars, runVars
<1>. QED BY <1>1, <1>2, <1>3, <1>4, <1>5, <1>6, Steps

LEMMA ClassifiedNext ==
  ASSUME TypeOK, CallsInv, FailuresAreClassified, [Next]_vars
  PROVE  CallsInv' /\ FailuresAreClassified'
<1>. SUFFICES ASSUME NEW q \in Runs
              PROVE  /\ pc'[q] = "generate" => result'[q] = NoResult
                     /\ pc'[q] = "repair" =>
                          /\ result'[q].failure_reason \in JsonReasons
                          /\ ~result'[q].success /\ ~result'[q].needs_retry
                          /\ ~result'[q].needs_repair_agent /\ result'[q].repairs_attempted = 0
                     /\ pc'[q] \in InMetric \cup {"recorded", "unrecorded"} =>
                          Classified(result'[q])
  BY DEF CallsInv, FailuresAreClassified, Reported, Classified
<1>1. Reported(q) => Classified(result[q])
  BY DEF FailuresAreClassified, Classified
<1>2. CASE \/ Generate(q) \/ GenerateFails(q) \/ Deadline(q) \/ Repair(q) \/ RepairFails(q)
  BY <1>2, ReportClassified DEF InMetric
<1>3. CASE ~(\/ Generate(q) \/ GenerateFails(q) \/ Deadline(q) \/ Repair(q) \/ RepairFails(q))
  BY <1>1, <1>3, ResultsKept DEF CallsInv, InMetric
<1>. QED BY <1>2, <1>3

\* A run asks for the repair agent exactly when its last word is an answer that
\* did not validate, never together with a success or a plain retry.
THEOREM ClassifiedFailures == Spec => []FailuresAreClassified
<1>1. Init => CallsInv /\ FailuresAreClassified
  BY DEF Init, CallsInv, FailuresAreClassified, Reported, InMetric
<1>2. TypeOK /\ CallsInv /\ FailuresAreClassified /\ [Next]_vars
        => CallsInv' /\ FailuresAreClassified'
  BY ClassifiedNext
<1>. QED BY <1>1, <1>2, AgentTypeCorrect, PTL DEF Spec

-----------------------------------------------------------------------------
(* The metric never overcounts *)

\* Counted runs are at their end, and neither the row nor what any run has read of
\* it exceeds the runs a counter is about.
CountInv ==
  /\ \A r \in recorded : pc[r] = "recorded"
  /\ \A c \in Counters : metric[c] <= Cardinality(About(c))
  /\ \A r \in Runs, c \in Counters : seen[r][c] <= Cardinality(About(c))

LEMMA AboutFinite ==
  ASSUME TypeOK, NEW c \in Counters
  PROVE  IsFiniteSet(About(c)) /\ Cardinality(About(c)) \in Nat
<1>1. About(c) \in SUBSET Runs
  BY DEF TypeOK, About
<1>. QED BY <1>1, RunsAssumption, FS_Subset, FS_CardinalityType

\* A run is counted only where it belongs.
LEMMA CountedIsAbout ==
  ASSUME TypeOK, FailuresAreClassified, NEW r \in Runs, Reported(r),
         NEW c \in Counted(result[r])
  PROVE  /\ c \in Counters
         /\ c = "success" => result[r].success
         /\ c \in {"failed", "schema_failures"} => ~result[r].success
         /\ c \in {"json_failures", "schema_failures"} =>
              result[r].failure_reason \in JsonReasons
<1>1. result[r].repairs_attempted \in {0, 1}
  BY DEF TypeOK, Result
<1>2. JsonFailed(result[r]) => result[r].failure_reason \in JsonReasons
  BY <1>1 DEF JsonFailed, FailuresAreClassified
<1>. QED BY <1>2 DEF Counted, Counters

\* Steps that record nothing leave the sets the counters are about alone.
LEMMA AboutKept ==
  ASSUME TypeOK, CountInv, [Next]_vars, recorded' = recorded
  PROVE  \A c \in Counters : About(c)' = About(c)
<1>1. ASSUME NEW q \in recorded PROVE result'[q] = result[q]
  <2>1. q \in Runs /\ pc[q] = "recorded"
    BY DEF TypeOK, CountInv
  <2>2. ~\E r \in Runs : r = q /\ (\/ Generate(r) \/ GenerateFails(r) \/ Deadline(r)
                                   \/ Repair(r) \/ RepairFails(r))
    BY <2>1 DEF Generate, GenerateFails, Deadline, Repair, RepairFails
  <2>. QED BY <2>1, <2>2, ResultsKept
<1>. QED BY <1>1 DEF About

LEMMA WriteCounts ==
  ASSUME TypeOK, FailuresAreClassified, CountInv, NEW r \in Runs, MetricWrite(r),
         NEW c \in Counters
  PROVE  /\ Cardinality(About(c)) <= Cardinality(About(c)')
         /\ metric'[c] <= Cardinality(About(c)')
<1>. USE DEF TypeOK
<1>1. /\ pc[r] = "metric_write" /\ r \notin recorded /\ Reported(r)
      /\ recorded' = recorded \cup {r} /\ result' = result
      /\ metric'[c] = IF c \in Counted(result[r]) THEN seen[r][c] + 1 ELSE metric[c]
  BY DEF MetricWrite, CountInv, Reported, InMetric
<1>. DEFINE S == About(c)
            T == About(c)'
<1>2. S \subseteq T /\ T \subseteq S \cup {r} /\ r \notin S
  BY <1>1 DEF About
<1>3. c \in Counted(result[r]) => r \in T
  BY <1>1, CountedIsAbout DEF About
<1>4. IsFiniteSet(S) /\ Cardinality(S) \in Nat
  BY AboutFinite
<1>5. metric[c] <= Cardinality(S) /\ seen[r][c] <= Cardinality(S)
      /\ metric[c] \in Nat /\ seen[r][c] \in Nat
  BY DEF CountInv
<1>. HIDE DEF S, T
<1>6. IsFiniteSet(S \cup {r}) /\ Cardinality(S \cup {r}) = Cardinality(S) + 1
  BY <1>2, <1>4, FS_AddElement
<1>7. T = S \/ T = S \cup {r}
  BY <1>2
<1>8. r \in T => T = S \cup {r}
  BY <1>2, <1>7
<1>a. /\ Cardinality(T) = Cardinality(S) \/ Cardinality(T) = Cardinality(S \cup {r})
      /\ r \in T => Cardinality(T) = Cardinality(S \cup {r})
  BY <1>7, <1>8, Zenon
<1>9. Cardinality(S) <= Cardinality(T)
  BY <1>4, <1>6, <1>a
<1>10. metric'[c] <= Cardinality(T)
  <2>1. CASE c \in Counted(result[r])
    BY <1>1, <1>3, <1>4, <1>5, <1>6, <1>a, <2>1
  <2>2. CASE c \notin Counted(result[r])
    BY <1>1, <1>4, <1>5, <1>6, <1>a, <2>2
  <2>. QED BY <2>1, <2>2
<1>. QED BY <1>9, <1>10 DEF S, T

LEMMA CountNext ==
  ASSUME TypeOK, TypeOK', FailuresAreClassified, CountInv, [Next]_vars
  PROVE  CountInv'
<1>. USE DEF Goto, Leave
<1>0. \A c \in Counters : Cardinality(About(c)) \in Nat
  BY AboutFinite
<1>1. ASSUME NEW r \in Runs,
             \/ Generate(r) \/ GenerateFails(r) \/ Deadline(r) \/ Repair(r) \/ RepairFails(r)
             \/ MetricRead(r) \/ MetricInsert(r) \/ MetricConflict(r)
             \/ MetricFails(r) \/ Crash(r)
      PROVE  CountInv'
  <2>1. recorded' = recorded /\ metric' = metric
    BY <1>1 DEF Generate, GenerateFails, Deadline, Repair, RepairFails, MetricRead,
                MetricInsert, MetricConflict, MetricFails, Crash, history, metricVars
  <2>2. \A c \in Counters : About(c)' = About(c)
    BY <2>1, AboutKept
  <2>3. seen' \in {seen, [seen EXCEPT ![r] = metric], [seen EXCEPT ![r] = Zeros]}
    BY <1>1 DEF Generate, GenerateFails, Deadline, Repair, RepairFails, MetricRead,
                MetricInsert, MetricConflict, MetricFails, Crash, metricVars
  <2>4. \A q \in Runs, c \in Counters : seen'[q][c] <= Cardinality(About(c))
    <3>. SUFFICES ASSUME NEW q \in Runs, NEW c \in Counters
                  PROVE  seen'[q][c] <= Cardinality(About(c))
      OBVIOUS
    <3>1. seen'[q][c] \in {seen[q][c], metric[c], 0}
      BY <2>3 DEF Zeros, TypeOK
    <3>2. seen[q][c] <= Cardinality(About(c)) /\ metric[c] <= Cardinality(About(c))
      BY DEF CountInv
    <3>. QED BY <1>0, <3>1, <3>2
  <2>5. pc[r] # "recorded" /\ \A q \in Runs \ {r} : pc'[q] = pc[q]
    BY <1>1 DEF Generate, GenerateFails, Deadline, Repair, RepairFails, MetricRead,
                MetricInsert, MetricConflict, MetricFails, Crash, Report, InMetric, TypeOK
  <2>6. \A q \in recorded : pc'[q] = "recorded"
    BY <2>5 DEF CountInv, TypeOK
  <2>. QED BY <2>1, <2>2, <2>4, <2>6 DEF CountInv
<1>2. ASSUME NEW r \in Runs, MetricWrite(r) PROVE CountInv'
  <2>1. \A c \in Counters : /\ Cardinality(About(c)) <= Cardinality(About(c)')
                            /\ metric'[c] <= Cardinality(About(c)')
    BY <1>2, WriteCounts
  <2>2. \A c \in Counters : Cardinality(About(c)') \in Nat
    <3>1. \A c \in Counters : TypeOK' => About(c)' \in SUBSET Runs
      BY DEF TypeOK, About
    <3>. QED BY <3>1, RunsAssumption, FS_Subset, FS_CardinalityType
  <2>3. seen' = [seen EXCEPT ![r] = Zeros]
    BY <1>2 DEF MetricWrite
  <2>4. \A q \in Runs, c \in Counters : seen'[q][c] <= Cardinality(About(c)')
    <3>. SUFFICES ASSUME NEW q \in Runs, NEW c \in Counters
                  PROVE  seen'[q][c] <= Cardinality(About(c)')
      OBVIOUS
    <3>1. seen'[q][c] = seen[q][c] \/ seen'[q][c] = 0
      BY <2>3 DEF Zeros, TypeOK
    <3>2. seen[q][c] \in Nat /\ seen[q][c] <= Cardinality(About(c))
      BY DEF CountInv, TypeOK
    <3>. QED BY <1>0, <2>1, <2>2, <3>1, <3>2
  <2>5. \A q \in recorded' : pc'[q] = "recorded"
    BY <1>2 DEF MetricWrite, CountInv, TypeOK
  <2>. QED BY <2>1, <2>4, <2>5 DEF CountInv
<1>3. CASE UNCHANGED vars
  BY <1>3 DEF vars, runVars, metricVars, history, CountInv, About
<1>. QED BY <1>1, <1>2, <1>3, Steps

\* Lost updates lose runs and never invent one: no counter of the metric row
\* exceeds the number of runs it is about.
THEOREM NoOvercount == Spec => []MetricNeverOvercounts
<1>1. Init => CountInv
  <2>. SUFFICES ASSUME Init PROVE CountInv
    OBVIOUS
  <2>1. ASSUME NEW c \in Counters PROVE Cardinality(About(c)) = 0
    <3>1. About(c) = {}
      BY DEF Init, About
    <3>. QED BY <3>1, FS_EmptySet, Zenon
  <2>2. \A c \in Counters : metric[c] = 0 /\ \A r \in Runs : seen[r][c] = 0
    BY DEF Init, Zeros
  <2>3. recorded = {}
    BY DEF Init
  <2>. QED BY <2>1, <2>2, <2>3 DEF CountInv
<1>2. TypeOK /\ TypeOK' /\ FailuresAreClassified /\ CountInv /\ [Next]_vars => CountInv'
  BY CountNext
<1>3. CountInv => MetricNeverOvercounts
  BY DEF CountInv, MetricNeverOvercounts
<1>. QED BY <1>1, <1>2, <1>3, AgentTypeCorrect, ClassifiedFailures, PTL DEF Spec

-----------------------------------------------------------------------------
(* The metric is exact while transactions do not overlap *)

InTransaction(r) == pc[r] \in {"metric_insert", "metric_write"}

\* Until two transactions meet there is at most one, and what it has read is still
\* the row.
ExactInv ==
  ~overlapped =>
    /\ \A c \in Counters : metric[c] = Cardinality(About(c))
    /\ \A r \in Runs : InTransaction(r) =>
         seen[r] = metric /\ \A q \in Runs \ {r} : ~InTransaction(q)

\* A run is counted wherever it belongs.
LEMMA AboutIsCounted ==
  ASSUME TypeOK, FailuresAreClassified, NEW r \in Runs, Reported(r), NEW c \in Counters,
         c = "success" => result[r].success,
         c \in {"failed", "schema_failures"} => ~result[r].success,
         c \in {"json_failures", "schema_failures"} => result[r].failure_reason \in JsonReasons
  PROVE  c \in Counted(result[r])
<1>1. result[r].repairs_attempted \in {0, 1}
  BY DEF TypeOK, Result
<1>2. result[r].failure_reason \in JsonReasons => JsonFailed(result[r])
  BY <1>1 DEF JsonFailed, FailuresAreClassified
<1>. QED BY <1>2 DEF Counted, Counters

\* The write of a transaction that met no other adds the run to exactly the
\* counters it belongs to.
LEMMA WriteExact ==
  ASSUME TypeOK, FailuresAreClassified, CountInv, ExactInv, ~overlapped,
         NEW r \in Runs, MetricWrite(r), NEW c \in Counters
  PROVE  metric'[c] = Cardinality(About(c)')
<1>. USE DEF TypeOK
<1>1. /\ pc[r] = "metric_write" /\ r \notin recorded /\ Reported(r)
      /\ recorded' = recorded \cup {r} /\ result' = result
      /\ metric'[c] = IF c \in Counted(result[r]) THEN seen[r][c] + 1 ELSE metric[c]
  BY DEF MetricWrite, CountInv, Reported, InMetric
<1>2. seen[r][c] = metric[c] /\ metric[c] = Cardinality(About(c))
  BY <1>1 DEF ExactInv, InTransaction
<1>. DEFINE S == About(c)
            T == About(c)'
<1>3. r \in T <=> c \in Counted(result[r])
  <2>1. r \in T <=> /\ c = "success" => result[r].success
                    /\ c \in {"failed", "schema_failures"} => ~result[r].success
                    /\ c \in {"json_failures", "schema_failures"} =>
                         result[r].failure_reason \in JsonReasons
    BY <1>1 DEF About
  <2>. QED BY <1>1, <2>1, AboutIsCounted, CountedIsAbout
<1>4. T \ {r} = S /\ r \notin S
  BY <1>1 DEF About
<1>5. IsFiniteSet(S) /\ Cardinality(S) \in Nat
  BY AboutFinite
<1>. HIDE DEF S, T
<1>6. IF r \in T THEN T = S \cup {r} ELSE T = S
  BY <1>4
<1>7. Cardinality(S \cup {r}) = Cardinality(S) + 1
  BY <1>4, <1>5, FS_AddElement
<1>8. Cardinality(T) = IF r \in T THEN Cardinality(S) + 1 ELSE Cardinality(S)
  BY <1>6, <1>7
<1>9. metric'[c] = IF r \in T THEN Cardinality(S) + 1 ELSE Cardinality(S)
  BY <1>1, <1>2, <1>3 DEF S
<1>10. metric'[c] = Cardinality(T)
  BY <1>8, <1>9
<1>. QED BY <1>10 DEF T

LEMMA ExactNext ==
  ASSUME TypeOK, FailuresAreClassified, CountInv, ExactInv, [Next]_vars
  PROVE  ExactInv'
<1>. SUFFICES ASSUME ~overlapped'
              PROVE  /\ \A c \in Counters : metric'[c] = Cardinality(About(c)')
                     /\ \A r \in Runs : InTransaction(r)' =>
                          seen'[r] = metric' /\ \A q \in Runs \ {r} : ~InTransaction(q)'
  BY DEF ExactInv
<1>. USE DEF Goto, Leave, TypeOK, InTransaction
<1>0. ~overlapped
  BY DEF Next, Execute, Generate, GenerateFails, Deadline, Repair, RepairFails, MetricRead,
         MetricInsert, MetricConflict, MetricWrite, MetricFails, Crash, history, vars
<1>. DEFINE Alone(r) == seen[r] = metric /\ \A q \in Runs \ {r} : ~InTransaction(q)
<1>a. /\ \A c \in Counters : metric[c] = Cardinality(About(c))
      /\ \A r \in Runs : InTransaction(r) => Alone(r)
  BY <1>0 DEF ExactInv
<1>1. ASSUME recorded' = recorded, metric' = metric
      PROVE  \A c \in Counters : metric'[c] = Cardinality(About(c)')
  BY <1>1, <1>a, AboutKept
<1>2. ASSUME NEW r \in Runs,
             \/ Generate(r) \/ GenerateFails(r) \/ Deadline(r) \/ Repair(r) \/ RepairFails(r)
             \/ MetricInsert(r)
      PROVE  /\ UNCHANGED <<recorded, metric, seen>>
             /\ \A q \in Runs : InTransaction(q)' => InTransaction(q)
  BY <1>2 DEF Generate, GenerateFails, Deadline, Repair, RepairFails, MetricInsert, Report,
              metricVars, history
<1>3. ASSUME NEW r \in Runs, MetricConflict(r) \/ MetricFails(r) \/ Crash(r)
      PROVE  /\ UNCHANGED <<recorded, metric>> /\ ~InTransaction(r)'
             /\ \A q \in Runs \ {r} : seen'[q] = seen[q] /\ pc'[q] = pc[q]
  BY <1>3 DEF MetricConflict, MetricFails, Crash, history
<1>4. ASSUME NEW r \in Runs, MetricRead(r)
      PROVE  /\ UNCHANGED <<recorded, metric>> /\ seen'[r] = metric
             /\ \A q \in Runs \ {r} : pc'[q] = pc[q] /\ ~InTransaction(q)
  BY <1>4 DEF MetricRead, OtherTransaction
<1>5. ASSUME NEW r \in Runs, MetricWrite(r)
      PROVE  /\ \A c \in Counters : metric'[c] = Cardinality(About(c)')
             /\ \A q \in Runs : ~InTransaction(q)'
  <2>1. /\ InTransaction(r) /\ ~InTransaction(r)'
        /\ \A q \in Runs \ {r} : pc'[q] = pc[q]
    BY <1>5 DEF MetricWrite
  <2>. QED BY <1>0, <1>5, <1>a, <2>1, WriteExact
<1>6. CASE UNCHANGED vars
  BY <1>1, <1>6, <1>a DEF vars, runVars, metricVars, history
<1>. HIDE DEF InTransaction
<1>7. ASSUME NEW r \in Runs,
             \/ Generate(r) \/ GenerateFails(r) \/ Deadline(r) \/ Repair(r) \/ RepairFails(r)
             \/ MetricInsert(r) \/ MetricConflict(r) \/ MetricFails(r) \/ Crash(r)
             \/ MetricRead(r)
      PROVE  /\ UNCHANGED <<recorded, metric>>
             /\ \A p \in Runs : InTransaction(p)' =>
                  seen'[p] = metric' /\ \A q \in Runs \ {p} : ~InTransaction(q)'
  <2>1. \A q \in Runs : pc'[q] = pc[q] => (InTransaction(q)' <=> InTransaction(q))
    BY DEF InTransaction
  <2>. QED BY <1>2, <1>3, <1>4, <1>7, <1>a, <2>1
<1>. QED BY <1>1, <1>5, <1>6, <1>7, Steps

\* The counters are exact as long as no two metric transactions met, failed and
\* crashed ones included: what the row loses, it loses to overlapping writers only.
THEOREM ExactAlone == Spec => []MetricExactAlone
<1>1. Init => CountInv /\ ExactInv
  <2>. SUFFICES ASSUME Init PROVE CountInv /\ ExactInv
    OBVIOUS
  <2>1. ASSUME NEW c \in Counters PROVE Cardinality(About(c)) = 0
    <3>1. About(c) = {}
      BY DEF Init, About
    <3>. QED BY <3>1, FS_EmptySet, Zenon
  <2>2. \A c \in Counters : metric[c] = 0 /\ \A r \in Runs : seen[r][c] = 0
    BY DEF Init, Zeros
  <2>3. recorded = {} /\ \A r \in Runs : ~InTransaction(r)
    BY DEF Init, InTransaction
  <2>. QED BY <2>1, <2>2, <2>3 DEF CountInv, ExactInv
<1>2. /\ TypeOK /\ TypeOK' /\ FailuresAreClassified /\ CountInv /\ [Next]_vars => CountInv'
      /\ TypeOK /\ FailuresAreClassified /\ CountInv /\ ExactInv /\ [Next]_vars => ExactInv'
  BY CountNext, ExactNext
<1>3. ExactInv => MetricExactAlone
  BY DEF ExactInv, MetricExactAlone
<1>. QED BY <1>1, <1>2, <1>3, AgentTypeCorrect, ClassifiedFailures, PTL DEF Spec
=============================================================================
