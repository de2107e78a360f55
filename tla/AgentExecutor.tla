---------------------------- MODULE AgentExecutor ----------------------------
(***************************************************************************)
(* Runs of one prompt agent (app/agents/executor.py): the model is asked   *)
(* once, an answer that does not validate is repaired, first locally and   *)
(* then by a second call, all under one deadline, and the result is        *)
(* counted in the agent's metric row (app/agents/telemetry.py).  The runs  *)
(* belong to different tasks and worker processes (within one process the  *)
(* synchronous transactions cannot interleave) and share nothing but that  *)
(* row, which each reads without a lock and writes back with absolute      *)
(* values.  They are Orchestrator's RunAgent in detail.                    *)
(*                                                                         *)
(* A model's text is reduced to what validation tells apart; token and     *)
(* latency sums, which are counted like the total, and traces are left     *)
(* out.  Every registered agent has enable_schema_repair.                  *)
(***************************************************************************)
EXTENDS Naturals, FiniteSets

CONSTANTS Runs, NoRun

ASSUME RunsAssumption == IsFiniteSet(Runs) /\ NoRun \notin Runs

VARIABLES
  pc, result,              \* each run's program point and AgentResult
  rowExists, metric,       \* the committed AgentMetric row
  inserting, seen,         \* the run whose insert is not committed; the row each run read
  recorded, overlapped     \* history: counted runs; two metric transactions met

runVars    == <<pc, result>>
metricVars == <<rowExists, metric, inserting, seen>>
history    == <<recorded, overlapped>>
vars == <<runVars, metricVars, history>>

\* what a model writes: valid against the schema, JSON of another shape, JSON cut
\* off or fenced, or anything else; "" is what the client keeps of a text it
\* cannot parse
Answers == {"valid", "invalid", "damaged", "garbage"}
Parses(text) == text \in {"valid", "invalid"}

Reasons  == {"none", "JSON_PARSE_ERROR", "SCHEMA_VALIDATION_ERROR", "MODEL_TIMEOUT",
             "AUTH_ERROR"}
Counters == {"total", "success", "failed", "json_failures", "schema_failures"}
Result   == [success : BOOLEAN, failure_reason : Reasons, repairs_attempted : {0, 1},
             needs_retry : BOOLEAN, needs_repair_agent : BOOLEAN]

InMetric == {"metric_read", "metric_insert", "metric_write"}
ProgramPoints == {"generate", "repair", "recorded", "unrecorded", "dead"} \cup InMetric

NoResult == [success |-> FALSE, failure_reason |-> "none", repairs_attempted |-> 0,
             needs_retry |-> FALSE, needs_repair_agent |-> FALSE]
Zeros == [c \in Counters |-> 0]

Init ==
  /\ pc = [r \in Runs |-> "generate"]
  /\ result = [r \in Runs |-> NoResult]
  /\ rowExists = FALSE /\ metric = Zeros
  /\ inserting = NoRun /\ seen = [r \in Runs |-> Zeros]
  /\ recorded = {} /\ overlapped = FALSE

Goto(r, p) == pc' = [pc EXCEPT ![r] = p]
Report(r, res) == result' = [result EXCEPT ![r] = res] /\ Goto(r, "metric_read")
-----------------------------------------------------------------------------
(* The calls *)

\* the failure an answer that does not validate leaves in the result
Invalidated(text) ==
  [NoResult EXCEPT !.failure_reason =
     IF Parses(text) THEN "SCHEMA_VALIDATION_ERROR" ELSE "JSON_PARSE_ERROR"]

\* LLMJsonError carries no text, and the response is not merged before it is raised
RawContent(text) == IF Parses(text) THEN text ELSE ""

\* closes brackets and strips fences
QuickJsonRepair(raw) == IF raw = "damaged" THEN "valid" ELSE raw

\* the first answer, its validation and the local repair: no await in between
Generate(r) ==
  /\ pc[r] = "generate"
  /\ \/ Report(r, [NoResult EXCEPT !.success = TRUE])
     \/ \E text \in Answers \ {"valid"} :
          LET repaired == QuickJsonRepair(RawContent(text)) = "valid" IN
          /\ result' = [result EXCEPT ![r] =
               [Invalidated(text) EXCEPT !.success = repaired,
                                         !.repairs_attempted = IF repaired THEN 1 ELSE 0]]
          /\ Goto(r, IF repaired THEN "metric_read" ELSE "repair")
  /\ UNCHANGED <<metricVars, history>>

\* An LLMError or any other exception.  The time-out stands for all that may be
\* retried (the network, an unknown exception), AUTH_ERROR for a refused request.
GenerateFails(r) ==
  /\ pc[r] = "generate"
  /\ \E e \in {"MODEL_TIMEOUT", "AUTH_ERROR"} :
       Report(r, [NoResult EXCEPT !.failure_reason = e, !.needs_retry = (e # "AUTH_ERROR")])
  /\ UNCHANGED <<metricVars, history>>

\* mutant: a repair that fails does not ask for the repair agent
RepairUnmarked(r, text) ==
  [result[r] EXCEPT !.success = (text = "valid"), !.repairs_attempted = 1]
\* the answer to the repair prompt
Repaired(r, text) ==
  [result[r] EXCEPT !.success = (text = "valid"),
                    !.needs_repair_agent = (text # "valid"),
                    !.repairs_attempted = IF Parses(text) THEN 1 ELSE 0]

Repair(r) ==
  /\ pc[r] = "repair"
  /\ \E text \in Answers : Report(r, Repaired(r, text))
  /\ UNCHANGED <<metricVars, history>>

\* an error of the second call keeps the first failure's reason
RepairFails(r) ==
  /\ pc[r] = "repair"
  /\ Report(r, [result[r] EXCEPT !.needs_repair_agent = TRUE])
  /\ UNCHANGED <<metricVars, history>>

\* one deadline for both calls: its cancellation is not caught by the repair
Deadline(r) ==
  /\ pc[r] \in {"generate", "repair"}
  /\ Report(r, [result[r] EXCEPT !.failure_reason = "MODEL_TIMEOUT", !.needs_retry = TRUE])
  /\ UNCHANGED <<metricVars, history>>

(* The metric row *)

JsonReasons == {"JSON_PARSE_ERROR", "SCHEMA_VALIDATION_ERROR"}

\* mutant: repaired runs are not counted
JsonFailedOnly(res) == ~res.success /\ res.failure_reason \in JsonReasons
\* mutant: every failure is counted
JsonFailedAny(res) == ~res.success \/ res.repairs_attempted > 0
JsonFailed(res) ==
  IF res.success THEN res.repairs_attempted > 0 ELSE res.failure_reason \in JsonReasons

\* the columns _update_metric increments
Counted(res) ==
  {"total", IF res.success THEN "success" ELSE "failed"}
    \cup (IF JsonFailed(res) THEN {"json_failures"} ELSE {})
    \cup (IF JsonFailed(res) /\ ~res.success THEN {"schema_failures"} ELSE {})

OtherTransaction(r) == \E q \in Runs \ {r} : pc[q] \in {"metric_insert", "metric_write"}

\* mutant: the transaction is left open
TransactionKept(r) == inserting
TransactionOver(r) == IF inserting = r THEN NoRun ELSE inserting

MetricRead(r) ==
  /\ pc[r] = "metric_read"
  /\ seen' = [seen EXCEPT ![r] = metric]
  /\ Goto(r, IF rowExists THEN "metric_write" ELSE "metric_insert")
  /\ overlapped' = (overlapped \/ OtherTransaction(r))
  /\ UNCHANGED <<result, rowExists, metric, inserting, recorded>>

\* step_name is unique: the flush waits for another uncommitted insert
MetricInsert(r) ==
  /\ pc[r] = "metric_insert" /\ inserting = NoRun /\ ~rowExists
  /\ inserting' = r
  /\ Goto(r, "metric_write")
  /\ UNCHANGED <<result, rowExists, metric, seen, history>>

\* the call is over, and the row object with it
Leave(r, p) == Goto(r, p) /\ seen' = [seen EXCEPT ![r] = Zeros]

\* ... and raises once that is committed: the exception is logged, the run lost
MetricConflict(r) ==
  /\ pc[r] = "metric_insert" /\ rowExists
  /\ Leave(r, "unrecorded")
  /\ UNCHANGED <<result, rowExists, metric, inserting, history>>

\* the commit: the update carries the columns that were changed, as computed
MetricWrite(r) ==
  /\ pc[r] = "metric_write"
  /\ metric' = [c \in Counters |->
                  IF c \in Counted(result[r]) THEN seen[r][c] + 1 ELSE metric[c]]
  /\ rowExists' = TRUE
  /\ inserting' = TransactionOver(r)
  /\ recorded' = recorded \cup {r}
  /\ Leave(r, "recorded")
  /\ UNCHANGED <<result, overlapped>>

\* any error of the transaction is logged and rolls it back
MetricFails(r) ==
  /\ pc[r] \in InMetric
  /\ inserting' = TransactionOver(r)
  /\ Leave(r, "unrecorded")
  /\ UNCHANGED <<result, rowExists, metric, history>>

\* the worker process dies, its transaction is rolled back
Crash(r) ==
  /\ pc[r] \in {"generate", "repair"} \cup InMetric
  /\ inserting' = TransactionOver(r)
  /\ Leave(r, "dead")
  /\ UNCHANGED <<result, rowExists, metric, history>>
-----------------------------------------------------------------------------
Execute(r) ==
  \/ Generate(r) \/ GenerateFails(r) \/ Repair(r) \/ RepairFails(r) \/ Deadline(r)
  \/ MetricRead(r) \/ MetricInsert(r) \/ MetricConflict(r) \/ MetricWrite(r)

Next == \E r \in Runs : Execute(r) \/ MetricFails(r) \/ Crash(r)

Spec == Init /\ [][Next]_vars

\* A live process goes on: calls return, raise or reach the deadline, and a flush
\* that waits goes on when the other transaction is over.
FairSpec == Spec /\ \A r \in Runs : WF_vars(Execute(r))
-----------------------------------------------------------------------------
(* Properties *)

\* Every variable has its type, and an insert is uncommitted exactly while its
\* run is about to write the first row.
TypeOK ==
  /\ pc \in [Runs -> ProgramPoints] /\ result \in [Runs -> Result]
  /\ rowExists \in BOOLEAN /\ metric \in [Counters -> Nat]
  /\ inserting \in Runs \cup {NoRun} /\ seen \in [Runs -> [Counters -> Nat]]
  /\ recorded \subseteq Runs /\ overlapped \in BOOLEAN
  /\ inserting # NoRun => pc[inserting] = "metric_write" /\ ~rowExists
  /\ \A r \in Runs : pc[r] = "metric_write" /\ ~rowExists => inserting = r

Over == {"recorded", "unrecorded", "dead"}
Reported(r) == pc[r] \in InMetric \cup {"recorded", "unrecorded"}

\* The three outcomes the orchestrator branches on are told apart: a run asks for
\* the repair agent exactly when its last word is an answer that did not
\* validate, never together with a success or a plain retry, whichever of the
\* two calls failed or hit the deadline; and a success carries a failure's reason
\* exactly when it took a repair.
FailuresAreClassified ==
  \A r \in Runs : Reported(r) =>
    LET res == result[r] IN
    /\ res.needs_repair_agent <=> ~res.success /\ res.failure_reason \in JsonReasons
    /\ res.success \/ res.needs_repair_agent => ~res.needs_retry
    /\ res.success => (res.failure_reason \in JsonReasons <=> res.repairs_attempted = 1)

\* the runs a counter is about, told from what happened and not from the flags
About(c) ==
  {r \in recorded :
     /\ c = "success" => result[r].success
     /\ c \in {"failed", "schema_failures"} => ~result[r].success
     /\ c \in {"json_failures", "schema_failures"} =>
          result[r].failure_reason \in JsonReasons}

\* A lost update may lose runs but never invents one: no counter exceeds the
\* number of runs it is about, however stale the row was that a run wrote back.
MetricNeverOvercounts ==
  \A c \in Counters : metric[c] <= Cardinality(About(c))

\* The counters are exact as long as no two metric transactions overlapped,
\* failed and crashed transactions included.
MetricExactAlone ==
  ~overlapped => \A c \in Counters : metric[c] = Cardinality(About(c))

\* Every run ends: nobody waits for ever for another's insert.
RunsFinish == \A r \in Runs : <>(pc[r] \in Over)
=============================================================================
