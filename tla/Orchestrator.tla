---------------------------- MODULE Orchestrator ----------------------------
(***************************************************************************)
(* The life of ONE task: WorkflowOrchestrator (app/services/orchestrator)  *)
(* driven by concurrent worker slots that consume RabbitMQ queues, take    *)
(* Redis execution leases and commit PostgreSQL transactions.  Tasks share *)
(* no row, lease or message, so one task is the whole state of interest.   *)
(*                                                                         *)
(* One action is one database statement with its commit, Redis command or  *)
(* broker call.  A slot may die, be overtaken or be interrupted between    *)
(* any two.  A transaction that decides on a row it read without a row     *)
(* lock is two actions, the read with its decision and the blind write:    *)
(* under READ COMMITTED another transaction commits in between.            *)
(*                                                                         *)
(* Payloads are abstracted to the step, the repair target and the          *)
(* generation: which restart of the workflow (evaluation retry or manual   *)
(* resume) the message's history descends from.                            *)
(***************************************************************************)
EXTENDS StateMachine

CONSTANTS
  Workers,       \* concurrent consumer slots of the light and heavy workers
  Apis,          \* concurrent request handlers of the API replicas
  MAX_RETRY,     \* Task.max_retry
  RETRY_DELAYS,  \* settings.retry_delay_list
  StartSteps,    \* first steps create_task may choose
  MaxFaults,     \* budgets of environment faults, by kind; a behaviour keeps to one
  NoDelivery, NoRow

FaultKinds == {"crash", "api_crash", "expiry", "duplicate", "call", "publish", "resume"}

ASSUME OrchestratorAssumption ==
  /\ MAX_RETRY \in Nat
  /\ RETRY_DELAYS \in Seq(Nat) /\ RETRY_DELAYS # <<>>
  /\ StartSteps \subseteq {WORKFLOW_STEPS[1], "script_generation"}
  /\ MaxFaults \subseteq [FaultKinds -> Nat]
  /\ "free" \notin Workers

VARIABLES
  status, retries, taskOut,   \* Task row: status, retry_count, output_payload
  steps, out,                 \* TaskStep rows: status, generation of the output (0: none)
  deadLetters,                \* number of DeadLetter rows
  outbox, nextId,             \* OutboxEvent rows still to publish, next row id
  queue, delayed, dlq,        \* RabbitMQ: work queues, TTL queue, dead-letter queue
  lock,                       \* Redis: owner of each step's execution lease
  pc, held, res, rc, raised, ev,  \* worker slots
  apiPc, apiKeys, apiEvent,   \* API requests: create_task / resume_dead_letter
  gen,                        \* history: current generation of the workflow
  ended,                      \* history: generations finalized, dead-lettered, restarted
  discarded,                  \* history: generation and cause of every discarded message
  faults                      \* faults spent so far

taskVars   == <<status, retries, taskOut, deadLetters>>
stepVars   == <<steps, out>>
outboxVars == <<outbox, nextId>>
brokerVars == <<queue, delayed, dlq>>
workerVars == <<pc, held, res, rc, raised, ev>>
apiVars    == <<apiPc, apiKeys, apiEvent>>
history    == <<gen, ended, discarded>>
vars == <<taskVars, stepVars, outboxVars, brokerVars, lock, workerVars,
          apiVars, history, faults>>

StepIds  == Workflow \cup {"repair"}
NoStep   == "none"
Free     == "free"
Message  == [step : StepIds, target : Producing \cup {NoStep}, gen : Nat]
Delivery == [msg : Message, redelivered : BOOLEAN]
Row      == [id : Nat, msg : Message, delayed : BOOLEAN]

Msg(s, t, g) == [step |-> s, target |-> t, gen |-> g]

\* program points at which a slot owns, or believes it owns, its lease
Critical == {"check", "task_running", "task_running_write", "step_running",
             "step_running_write", "agent", "success_commit", "failure_commit",
             "mark_retrying", "schedule_retry", "schedule_retry_write",
             "schedule_repair", "dead_letter_commit", "dead_letter_publish",
             "repair_apply", "evaluate", "evaluate_write", "verdict", "eval_retry",
             "eval_reset", "finalize", "finalize_write", "finalize_output",
             "publish", "late_running", "late_running_write", "release"}
ProgramPoints == Critical \cup {"idle", "acquire", "settle"}
Causes == {"lease_held", "already_success", "rejected"}
Results == {"none", "success", "failure", "repairable", "passed", "review", "retry"}

step(w) == held[w].msg.step
Gen(w)  == held[w].msg.gen
-----------------------------------------------------------------------------
(* Helpers *)

Goto(w, p) == pc' = [pc EXCEPT ![w] = p]

Discard(w, cause) ==
  discarded' = discarded \cup {[cause |-> cause, gen |-> Gen(w)]}

\* an exception leaves the handler through its finally block
\* mutant: the handler swallows the exception
RaiseSwallowed(w) == Goto(w, "release") /\ UNCHANGED raised
Raise(w) == Goto(w, "release") /\ raised' = [raised EXCEPT ![w] = TRUE]

Spend(kind) ==
  /\ faults' = [faults EXCEPT ![kind] = @ + 1]
  /\ \E budget \in MaxFaults : \A k \in FaultKinds : faults'[k] <= budget[k]

\* mutant: off by one
ShouldRetryInclusive(n) == n <= MAX_RETRY
ShouldRetry(n) == n < MAX_RETRY

ComputeRetryDelay(n) ==
  RETRY_DELAYS[IF n + 1 < Len(RETRY_DELAYS) THEN n + 1 ELSE Len(RETRY_DELAYS)]

\* mutants: SET without NX; a release that does not compare the owner token
LeaseIgnored(s) == TRUE
OwnerNotCompared(w) == TRUE
LeaseAvailable(s) == lock[s] = Free
OwnsLease(w) == lock[step(w)] = w

NewRow(m, d) == [id |-> nextId, msg |-> m, delayed |-> d]

\* mutant: the event is not part of the transaction and is lost
EventNotEnqueued(row) == nextId' = nextId + 1 /\ UNCHANGED outbox
EnqueueStepEvent(row) ==
  /\ outbox' = outbox \cup {row}
  /\ nextId' = nextId + 1

PublishStep(row) ==
  IF row.delayed
  THEN /\ delayed' = Append(delayed, row.msg)
       /\ UNCHANGED <<queue, dlq>>
  ELSE /\ queue' = [queue EXCEPT ![row.msg.step] =
                      Append(@, [msg |-> row.msg, redelivered |-> FALSE])]
       /\ UNCHANGED <<delayed, dlq>>

Requeued(d) ==
  [queue EXCEPT ![d.msg.step] = <<[d EXCEPT !.redelivered = TRUE]>> \o @]

ClearSteps(S) ==
  /\ steps' = [s \in StepIds |-> IF s \in S THEN "pending" ELSE steps[s]]
  /\ out'   = [s \in StepIds |-> IF s \in S THEN 0 ELSE out[s]]

\* _transition_task and _transition_step read the row: an equal status is done,
\* a legal change goes on to the write, anything else raises.
Decide(w, from, to, legal, write, done) ==
  \/ from = to /\ Goto(w, done) /\ UNCHANGED raised
  \/ from # to /\ legal /\ Goto(w, write) /\ UNCHANGED raised
  \/ from # to /\ ~legal /\ Raise(w)

\* mutant: the task's table is not consulted
DecideTaskUnchecked(w, to, write, done) == Decide(w, status, to, TRUE, write, done)
DecideTask(w, to, write, done) ==
  Decide(w, status, to, CanTransitionTask(status, to), write, done)

\* the write of a task status decided on earlier
WriteTask(w, to, done) ==
  /\ status' = to
  /\ Goto(w, done)
  /\ UNCHANGED <<retries, deadLetters, stepVars, outboxVars, brokerVars, lock,
                 held, res, rc, raised, ev, apiVars, gen, discarded, faults>>
-----------------------------------------------------------------------------
Init ==
  /\ status = "created" /\ retries = 0
  /\ taskOut = [s \in Workflow |-> 0]
  /\ steps = [s \in StepIds |-> "pending"]
  /\ out = [s \in StepIds |-> 0]
  /\ deadLetters = 0
  /\ \E s \in StartSteps, a \in Apis :
        LET row == [id |-> 0, msg |-> Msg(s, NoStep, 1), delayed |-> FALSE] IN
        /\ apiEvent = [b \in Apis |-> IF b = a THEN row ELSE NoRow]
        /\ apiPc = [b \in Apis |-> IF b = a THEN "publish" ELSE "idle"]
        /\ outbox = {row}
  /\ nextId = 1
  /\ queue = [s \in StepIds |-> <<>>] /\ delayed = <<>> /\ dlq = {}
  /\ lock = [s \in StepIds |-> Free]
  /\ pc = [w \in Workers |-> "idle"]
  /\ held = [w \in Workers |-> NoDelivery]
  /\ res = [w \in Workers |-> "none"]
  /\ rc = [w \in Workers |-> 0]
  /\ raised = [w \in Workers |-> FALSE]
  /\ ev = [w \in Workers |-> NoRow]
  /\ apiKeys = [a \in Apis |-> <<>>]
  /\ gen = 1 /\ ended = {} /\ discarded = {}
  /\ faults = [k \in FaultKinds |-> 0]
-----------------------------------------------------------------------------
(* A worker slot: from the delivery to the agent's result *)

Receive(w, s) ==
  /\ pc[w] = "idle" /\ queue[s] # <<>>
  /\ held' = [held EXCEPT ![w] = Head(queue[s])]
  /\ queue' = [queue EXCEPT ![s] = Tail(@)]
  /\ Goto(w, "acquire")
  /\ UNCHANGED <<taskVars, stepVars, outboxVars, delayed, dlq, lock, res, rc,
                 raised, ev, apiVars, history, faults>>

Acquire(w) ==
  /\ pc[w] = "acquire"
  /\ \/ /\ LeaseAvailable(step(w))
        /\ lock' = [lock EXCEPT ![step(w)] = w]
        /\ Goto(w, "check")
        /\ UNCHANGED discarded
     \/ /\ ~LeaseAvailable(step(w))      \* skipped: the message is acknowledged
        /\ Goto(w, "settle")
        /\ Discard(w, "lease_held")
        /\ UNCHANGED lock
  /\ UNCHANGED <<taskVars, stepVars, outboxVars, brokerVars, held, res, rc,
                 raised, ev, apiVars, gen, ended, faults>>

CheckStep(w) ==
  /\ pc[w] = "check"
  /\ \/ /\ steps[step(w)] = "success"    \* stale duplicate: acknowledged
        /\ Goto(w, "release")
        /\ Discard(w, "already_success")
     \/ /\ steps[step(w)] # "success"
        /\ Goto(w, "task_running")
        /\ UNCHANGED discarded
  /\ UNCHANGED <<taskVars, stepVars, outboxVars, brokerVars, lock, held, res,
                 rc, raised, ev, apiVars, gen, ended, faults>>

TaskRunning(w) ==
  /\ pc[w] = "task_running"
  /\ DecideTask(w, "running", "task_running_write", "step_running")
  /\ UNCHANGED <<taskVars, stepVars, outboxVars, brokerVars, lock, held, res, rc,
                 ev, apiVars, history, faults>>

TaskRunningWrite(w) ==
  /\ pc[w] = "task_running_write"
  /\ WriteTask(w, "running", "step_running")
  /\ UNCHANGED <<taskOut, ended>>

StepRunning(w) ==
  LET from == steps[step(w)] IN
  /\ pc[w] = "step_running"
  /\ Decide(w, from, "running", CanTransitionStep(from, "running"),
            "step_running_write", "agent")
  /\ UNCHANGED <<taskVars, stepVars, outboxVars, brokerVars, lock, held, res, rc,
                 ev, apiVars, history, faults>>

StepRunningWrite(w) ==
  /\ pc[w] = "step_running_write"
  /\ steps' = [steps EXCEPT ![step(w)] = "running"]
  /\ Goto(w, "agent")
  /\ UNCHANGED <<taskVars, out, outboxVars, brokerVars, lock, held, res, rc,
                 raised, ev, apiVars, history, faults>>

\* agent.run: every failure is a result, "repairable" one with a repair payload
RunAgent(w) ==
  /\ pc[w] = "agent"
  /\ \E r \in {"success", "failure", "repairable"} :
        /\ res' = [res EXCEPT ![w] = r]
        /\ Goto(w, IF r = "success" THEN "success_commit" ELSE "failure_commit")
  /\ UNCHANGED <<taskVars, stepVars, outboxVars, brokerVars, lock, held, rc,
                 raised, ev, apiVars, history, faults>>
-----------------------------------------------------------------------------
(* _on_step_success *)

\* the step's success and its successor's event commit in one transaction
SuccessCommit(w) ==
  LET s == step(w)
      successor == s \in Producing
      row == NewRow(Msg(NextStep(s), held[w].msg.target, Gen(w)), FALSE)
  IN
  /\ pc[w] = "success_commit"
  /\ steps' = [steps EXCEPT ![s] = "success"]
  /\ out' = [out EXCEPT ![s] = Gen(w)]
  /\ \/ /\ successor
        /\ EnqueueStepEvent(row)
        /\ ev' = [ev EXCEPT ![w] = row]
        /\ Goto(w, "publish")
     \/ /\ ~successor
        /\ Goto(w, IF s = "repair" THEN "repair_apply" ELSE "evaluate")
        /\ UNCHANGED <<outboxVars, ev>>
  /\ UNCHANGED <<taskVars, brokerVars, lock, held, res, rc, raised, apiVars,
                 history, faults>>

\* _handle_repair_success: write the target back, invalidate what follows it
RepairApply(w) ==
  LET t == held[w].msg.target
      g == Gen(w)
      downstream == StepsFrom(t) \ {t}
      row == NewRow(Msg(NextStep(t), NoStep, g), FALSE)
  IN
  /\ pc[w] = "repair_apply"
  /\ IF t \in Producing
     THEN /\ steps' = [s \in StepIds |-> IF s = t THEN "success"
                          ELSE IF s \in downstream THEN "pending" ELSE steps[s]]
          /\ out' = [s \in StepIds |-> IF s = t THEN g
                          ELSE IF s \in downstream THEN 0 ELSE out[s]]
          /\ EnqueueStepEvent(row)
          /\ ev' = [ev EXCEPT ![w] = row]
          /\ Goto(w, "publish")
          /\ UNCHANGED raised
     ELSE Raise(w) /\ UNCHANGED <<stepVars, outboxVars, ev>>
  /\ UNCHANGED <<taskVars, brokerVars, lock, held, res, rc, apiVars, history,
                 faults>>

\* _transition_task(RUNNING) after the successor was already published
LateRunning(w) ==
  /\ pc[w] = "late_running"
  /\ DecideTask(w, "running", "late_running_write", "release")
  /\ UNCHANGED <<taskVars, stepVars, outboxVars, brokerVars, lock, held, res, rc,
                 ev, apiVars, history, faults>>

LateRunningWrite(w) ==
  /\ pc[w] = "late_running_write"
  /\ WriteTask(w, "running", "release")
  /\ UNCHANGED <<taskOut, ended>>
-----------------------------------------------------------------------------
(* _on_step_failure *)

FailureCommit(w) ==
  /\ pc[w] = "failure_commit"
  /\ steps' = [steps EXCEPT ![step(w)] = "failed"]
  /\ Goto(w, "mark_retrying")
  /\ UNCHANGED <<taskVars, out, outboxVars, brokerVars, lock, held, res, rc,
                 raised, ev, apiVars, history, faults>>

\* mark_task_retrying: increments and overwrites the status unconditionally
MarkTaskRetrying(w) ==
  /\ retries' = retries + 1
  /\ status' = "retrying"
  /\ rc' = [rc EXCEPT ![w] = retries + 1]
  /\ UNCHANGED <<taskOut, deadLetters>>

MarkRetrying(w) ==
  /\ pc[w] = "mark_retrying"
  /\ MarkTaskRetrying(w)
  /\ Goto(w, IF res[w] = "repairable" /\ step(w) \in Producing
             THEN "schedule_repair"
             ELSE IF ShouldRetry(rc'[w]) THEN "schedule_retry"
             ELSE "dead_letter_commit")
  /\ UNCHANGED <<stepVars, outboxVars, brokerVars, lock, held, res, raised, ev,
                 apiVars, history, faults>>

ScheduleRetry(w) ==
  /\ pc[w] = "schedule_retry"
  /\ IF CanTransitionStep(steps[step(w)], "retrying")
     THEN Goto(w, "schedule_retry_write") /\ UNCHANGED raised
     ELSE Raise(w)
  /\ UNCHANGED <<taskVars, stepVars, outboxVars, brokerVars, lock, held, res, rc,
                 ev, apiVars, history, faults>>

ScheduleRetryWrite(w) ==
  LET row == NewRow(held[w].msg, ComputeRetryDelay(rc[w] - 1) > 0) IN
  /\ pc[w] = "schedule_retry_write"
  /\ steps' = [steps EXCEPT ![step(w)] = "retrying"]
  /\ EnqueueStepEvent(row)
  /\ ev' = [ev EXCEPT ![w] = row]
  /\ Goto(w, "publish")
  /\ UNCHANGED <<taskVars, out, brokerVars, lock, held, res, rc, raised, apiVars,
                 history, faults>>

ScheduleRepair(w) ==
  LET row == NewRow(Msg("repair", step(w), Gen(w)), FALSE) IN
  /\ pc[w] = "schedule_repair"
  /\ ClearSteps({"repair"})
  /\ EnqueueStepEvent(row)
  /\ ev' = [ev EXCEPT ![w] = row]
  /\ Goto(w, "publish")
  /\ UNCHANGED <<taskVars, brokerVars, lock, held, res, rc, raised, apiVars,
                 history, faults>>

\* send_to_dead_letter: the row and the status in one transaction
DeadLetterCommit(w) ==
  /\ pc[w] = "dead_letter_commit"
  /\ status' = "dead_letter"
  /\ deadLetters' = deadLetters + 1
  /\ ended' = ended \cup {Gen(w)}
  /\ Goto(w, "dead_letter_publish")
  /\ UNCHANGED <<retries, taskOut, stepVars, outboxVars, brokerVars, lock, held,
                 res, rc, raised, ev, apiVars, gen, discarded, faults>>

DeadLetterPublish(w) ==
  /\ pc[w] = "dead_letter_publish"
  /\ dlq' = dlq \cup {held[w].msg}
  /\ Goto(w, "release")
  /\ UNCHANGED <<taskVars, stepVars, outboxVars, queue, delayed, lock, held, res,
                 rc, raised, ev, apiVars, history, faults>>
-----------------------------------------------------------------------------
(* _handle_evaluation *)

Evaluate(w) ==
  /\ pc[w] = "evaluate"
  /\ DecideTask(w, "evaluating", "evaluate_write", "verdict")
  /\ UNCHANGED <<taskVars, stepVars, outboxVars, brokerVars, lock, held, res, rc,
                 ev, apiVars, history, faults>>

EvaluateWrite(w) ==
  /\ pc[w] = "evaluate_write"
  /\ WriteTask(w, "evaluating", "verdict")
  /\ UNCHANGED <<taskOut, ended>>

\* "passed" needs passed and a risk below high, "review" a score under 40 or a
\* high risk, "retry" is the rest
Verdict(w) ==
  /\ pc[w] = "verdict"
  /\ \E verdict \in {"passed", "review", "retry"} :
        /\ res' = [res EXCEPT ![w] = verdict]
        /\ Goto(w, IF verdict = "retry" THEN "eval_retry" ELSE "finalize")
  /\ UNCHANGED <<taskVars, stepVars, outboxVars, brokerVars, lock, held, rc,
                 raised, ev, apiVars, history, faults>>

EvalRetry(w) ==
  /\ pc[w] = "eval_retry"
  /\ MarkTaskRetrying(w)
  /\ IF ShouldRetry(rc'[w])
     THEN Goto(w, "eval_reset") /\ UNCHANGED res
     ELSE Goto(w, "finalize") /\ res' = [res EXCEPT ![w] = "review"]
  /\ UNCHANGED <<stepVars, outboxVars, brokerVars, lock, held, raised, ev,
                 apiVars, history, faults>>

\* every output from the script on is discarded with the restart's event
EvalReset(w) ==
  LET row == NewRow(Msg("script_generation", NoStep, gen + 1), FALSE) IN
  /\ pc[w] = "eval_reset"
  /\ ClearSteps(StepsFrom("script_generation"))
  /\ EnqueueStepEvent(row)
  /\ ev' = [ev EXCEPT ![w] = row]
  /\ gen' = gen + 1
  /\ ended' = ended \cup {Gen(w)}
  /\ Goto(w, "publish")
  /\ UNCHANGED <<taskVars, brokerVars, lock, held, res, rc, raised, apiVars,
                 discarded, faults>>

FinalStatus(w) == IF res[w] = "passed" THEN "success" ELSE "manual_review"

Finalize(w) ==
  /\ pc[w] = "finalize"
  /\ DecideTask(w, FinalStatus(w), "finalize_write", "finalize_output")
  /\ UNCHANGED <<taskVars, stepVars, outboxVars, brokerVars, lock, held, res, rc,
                 ev, apiVars, history, faults>>

\* an equal status is not rewritten, the output always is
FinalizeWrite(w) ==
  /\ pc[w] \in {"finalize_write", "finalize_output"}
  /\ WriteTask(w, IF pc[w] = "finalize_write" THEN FinalStatus(w) ELSE status,
               "release")
  /\ taskOut' = [s \in Workflow |-> out[s]]
  /\ ended' = ended \cup {Gen(w)}
-----------------------------------------------------------------------------
(* Publishing, releasing, acknowledging *)

\* only a handled success advances the task after publishing
AfterPublish(w) == IF res[w] = "success" THEN "late_running" ELSE "release"

\* try_publish_event while the lease is still held
Publish(w) ==
  /\ pc[w] = "publish"
  /\ PublishStep(ev[w])
  /\ outbox' = outbox \ {ev[w]}
  /\ Goto(w, AfterPublish(w))
  /\ ev' = [ev EXCEPT ![w] = NoRow]
  /\ UNCHANGED <<taskVars, stepVars, nextId, lock, held, res, rc, raised,
                 apiVars, history, faults>>

\* the broker refused: _mark_result(failed) leaves (or puts back) the row
PublishFails(w) ==
  /\ pc[w] = "publish"
  /\ Spend("publish")
  /\ outbox' = outbox \cup {ev[w]}
  /\ Goto(w, AfterPublish(w))
  /\ ev' = [ev EXCEPT ![w] = NoRow]
  /\ UNCHANGED <<taskVars, stepVars, nextId, brokerVars, lock, held, res, rc,
                 raised, apiVars, history>>

\* published, but _mark_result raises: the row stays to be published again
MarkFails(w) ==
  /\ pc[w] = "publish"
  /\ Spend("call")
  /\ PublishStep(ev[w])
  /\ Raise(w)
  /\ ev' = [ev EXCEPT ![w] = NoRow]
  /\ UNCHANGED <<taskVars, stepVars, outboxVars, lock, held, res, rc, apiVars,
                 history>>

\* release_idempotent with the owner token, in the finally block
Release(w) ==
  /\ pc[w] = "release"
  /\ lock' = IF OwnsLease(w) THEN [lock EXCEPT ![step(w)] = Free] ELSE lock
  /\ Goto(w, "settle")
  /\ UNCHANGED <<taskVars, stepVars, outboxVars, brokerVars, held, res, rc,
                 raised, ev, apiVars, history, faults>>

\* Redis refuses: logged only, the lease stays until its TTL
ReleaseFails(w) ==
  /\ pc[w] = "release"
  /\ Spend("call")
  /\ Goto(w, "settle")
  /\ UNCHANGED <<taskVars, stepVars, outboxVars, brokerVars, lock, held, res, rc,
                 raised, ev, apiVars, history>>

ClearSlot(w) ==
  /\ Goto(w, "idle")
  /\ held' = [held EXCEPT ![w] = NoDelivery]
  /\ res' = [res EXCEPT ![w] = "none"]
  /\ rc' = [rc EXCEPT ![w] = 0]
  /\ raised' = [raised EXCEPT ![w] = FALSE]
  /\ ev' = [ev EXCEPT ![w] = NoRow]

\* message.process(requeue=True, reject_on_redelivered=True)
Settle(w) ==
  /\ pc[w] = "settle"
  /\ \/ ~raised[w] /\ UNCHANGED <<queue, dlq, discarded>>
     \/ /\ raised[w] /\ ~held[w].redelivered
        /\ queue' = Requeued(held[w])
        /\ UNCHANGED <<dlq, discarded>>
     \/ /\ raised[w] /\ held[w].redelivered
        /\ dlq' = dlq \cup {held[w].msg}
        /\ Discard(w, "rejected")
        /\ UNCHANGED queue
  /\ ClearSlot(w)
  /\ UNCHANGED <<taskVars, stepVars, outboxVars, delayed, lock, apiVars, gen,
                 ended, faults>>
-----------------------------------------------------------------------------
(* API requests: create_task has committed in Init; resume_dead_letter *)

ApiGoto(a, p) == apiPc' = [apiPc EXCEPT ![a] = p]

\* the request reads the status without a row lock
Resume(a) ==
  /\ apiPc[a] = "idle"
  /\ status = "dead_letter" /\ CanTransitionTask(status, "queued")
  /\ Spend("resume")
  /\ ApiGoto(a, "resume_write")
  /\ UNCHANGED <<taskVars, stepVars, outboxVars, brokerVars, lock, workerVars,
                 apiKeys, apiEvent, history>>

ResumeWrite(a) ==
  LET row == NewRow(Msg(WORKFLOW_STEPS[1], NoStep, gen + 1), FALSE) IN
  /\ apiPc[a] = "resume_write"
  /\ status' = "queued" /\ retries' = 0
  /\ ClearSteps(StepIds)
  /\ EnqueueStepEvent(row)
  /\ gen' = gen + 1
  /\ ApiGoto(a, "unlock")
  /\ apiEvent' = [apiEvent EXCEPT ![a] = row]
  /\ apiKeys' = [apiKeys EXCEPT ![a] = Append(WORKFLOW_STEPS, "repair")]
  /\ UNCHANGED <<taskOut, deadLetters, brokerVars, lock, workerVars, ended,
                 discarded, faults>>

\* release_idempotent(owner=None), one key at a time, after the commit
ResumeUnlock(a) ==
  /\ apiPc[a] = "unlock"
  /\ lock' = [lock EXCEPT ![Head(apiKeys[a])] = Free]
  /\ apiKeys' = [apiKeys EXCEPT ![a] = Tail(@)]
  /\ ApiGoto(a, IF Len(apiKeys[a]) = 1 THEN "publish" ELSE "unlock")
  /\ UNCHANGED <<taskVars, stepVars, outboxVars, brokerVars, workerVars,
                 apiEvent, history, faults>>

ApiPublish(a) ==
  /\ apiPc[a] = "publish"
  /\ PublishStep(apiEvent[a])
  /\ outbox' = outbox \ {apiEvent[a]}
  /\ ApiGoto(a, "idle")
  /\ apiEvent' = [apiEvent EXCEPT ![a] = NoRow]
  /\ UNCHANGED <<taskVars, stepVars, nextId, lock, workerVars, apiKeys, history,
                 faults>>

ApiCrash(a) ==
  /\ apiPc[a] # "idle"
  /\ Spend("api_crash")
  /\ ApiGoto(a, "idle")
  /\ apiEvent' = [apiEvent EXCEPT ![a] = NoRow]
  /\ apiKeys' = [apiKeys EXCEPT ![a] = <<>>]
  /\ UNCHANGED <<taskVars, stepVars, outboxVars, brokerVars, lock, workerVars,
                 history>>
-----------------------------------------------------------------------------
(* The outbox worker, the broker's delay queue, leases and faults *)

\* a row some process is about to publish itself
InHand(row) ==
  (\E a \in Apis : apiEvent[a] = row) \/ (\E w \in Workers : ev[w] = row)

\* publish_pending_events, for a row its creator will not publish any more
Relay(row) ==
  /\ row \in outbox /\ ~InHand(row)
  /\ PublishStep(row)
  /\ outbox' = outbox \ {row}
  /\ UNCHANGED <<taskVars, stepVars, nextId, lock, workerVars, apiVars, history,
                 faults>>

\* The outbox worker and the creator both publish the row, or the outbox worker
\* dies between publishing a row and marking it.
RelayDuplicate(row) ==
  /\ row \in outbox
  /\ Spend("duplicate")
  /\ PublishStep(row)
  /\ outbox' = IF InHand(row) THEN outbox \ {row} ELSE outbox
  /\ UNCHANGED <<taskVars, stepVars, nextId, lock, workerVars, apiVars, history>>

\* publish_step_delayed: the TTL queue dead-letters back into the work queue
DelayElapsed ==
  /\ delayed # <<>>
  /\ queue' = [queue EXCEPT ![Head(delayed).step] =
                 Append(@, [msg |-> Head(delayed), redelivered |-> FALSE])]
  /\ delayed' = Tail(delayed)
  /\ UNCHANGED <<taskVars, stepVars, outboxVars, dlq, lock, workerVars, apiVars,
                 history, faults>>

Working(w, s) == pc[w] \in Critical /\ step(w) = s

\* the lease of a dead owner reaches its TTL
LeaseExpires(s) ==
  /\ lock[s] \in Workers /\ ~Working(lock[s], s)
  /\ lock' = [lock EXCEPT ![s] = Free]
  /\ UNCHANGED <<taskVars, stepVars, outboxVars, brokerVars, workerVars, apiVars,
                 history, faults>>

\* the lease is never renewed: it reaches its TTL under a slow owner
LeaseOverrun(s) ==
  /\ lock[s] \in Workers /\ Working(lock[s], s)
  /\ Spend("expiry")
  /\ lock' = [lock EXCEPT ![s] = Free]
  /\ UNCHANGED <<taskVars, stepVars, outboxVars, brokerVars, workerVars, apiVars,
                 history>>

\* the process dies: its lease survives, its message is redelivered
WorkerCrash(w) ==
  /\ pc[w] # "idle"
  /\ Spend("crash")
  /\ queue' = Requeued(held[w])
  /\ ClearSlot(w)
  /\ UNCHANGED <<taskVars, stepVars, outboxVars, delayed, dlq, lock, apiVars,
                 history>>

\* The SET of the lease raises, outside the try: nothing is released, and if only
\* the answer was lost the lease is taken under a token nobody has.
AcquireFails(w) ==
  /\ pc[w] = "acquire"
  /\ Spend("call")
  /\ \/ UNCHANGED lock
     \/ LeaseAvailable(step(w)) /\ lock' = [lock EXCEPT ![step(w)] = w]
  /\ Goto(w, "settle")
  /\ raised' = [raised EXCEPT ![w] = TRUE]
  /\ UNCHANGED <<taskVars, stepVars, outboxVars, brokerVars, held, res, rc, ev,
                 apiVars, history>>

\* A database or broker call raises, before its effect or after it: a lost answer
\* is the call followed by a failure at the next program point.  A row committed
\* without an answer is left to the outbox worker.  At the release the call is
\* _finish_execution of a run.
CallFails(w) ==
  /\ pc[w] \in Critical
  /\ pc[w] = "release" => res[w] # "none" /\ ~raised[w]
  /\ Spend("call")
  /\ Raise(w)
  /\ ev' = [ev EXCEPT ![w] = NoRow]
  /\ UNCHANGED <<taskVars, stepVars, outboxVars, brokerVars, lock, held, res, rc,
                 apiVars, history>>
-----------------------------------------------------------------------------
WorkerStep(w) ==
  \/ Acquire(w) \/ CheckStep(w) \/ TaskRunning(w) \/ TaskRunningWrite(w)
  \/ StepRunning(w) \/ StepRunningWrite(w) \/ RunAgent(w)
  \/ SuccessCommit(w) \/ RepairApply(w) \/ LateRunning(w) \/ LateRunningWrite(w)
  \/ FailureCommit(w) \/ MarkRetrying(w) \/ ScheduleRetry(w)
  \/ ScheduleRetryWrite(w) \/ ScheduleRepair(w) \/ DeadLetterCommit(w)
  \/ DeadLetterPublish(w)
  \/ Evaluate(w) \/ EvaluateWrite(w) \/ Verdict(w) \/ EvalRetry(w)
  \/ EvalReset(w) \/ Finalize(w) \/ FinalizeWrite(w)
  \/ Publish(w) \/ Release(w) \/ Settle(w)

ReceiveAny(w) == \E s \in StepIds : Receive(w, s)

WorkerFault(w) ==
  \/ PublishFails(w) \/ MarkFails(w) \/ ReleaseFails(w) \/ WorkerCrash(w)
  \/ AcquireFails(w) \/ CallFails(w)

ApiStep(a) == ResumeWrite(a) \/ ResumeUnlock(a) \/ ApiPublish(a)

Next ==
  \/ \E w \in Workers : ReceiveAny(w) \/ WorkerStep(w) \/ WorkerFault(w)
  \/ \E a \in Apis : Resume(a) \/ ApiStep(a) \/ ApiCrash(a)
  \/ \E row \in outbox : Relay(row) \/ RelayDuplicate(row)
  \/ DelayElapsed
  \/ \E s \in StepIds : LeaseExpires(s) \/ LeaseOverrun(s)

Spec == Init /\ [][Next]_vars

\* A live slot keeps running (agents run under a timeout), an idle slot is
\* handed the next message, the API finishes its request, the outbox worker
\* polls, TTLs elapse.  No fairness on faults and none on a manual resume.
Fairness ==
  /\ \A w \in Workers : WF_vars(ReceiveAny(w)) /\ WF_vars(WorkerStep(w))
  /\ \A a \in Apis : WF_vars(ApiStep(a))
  /\ WF_vars(\E row \in outbox : Relay(row))
  /\ WF_vars(DelayElapsed)
  /\ \A s \in StepIds : WF_vars(LeaseExpires(s))

FairSpec == Spec /\ Fairness
-----------------------------------------------------------------------------
(* Properties *)

TaskTypeOK ==
  /\ status \in TaskStatus /\ retries \in Nat /\ deadLetters \in Nat
  /\ taskOut \in [Workflow -> Nat]
  /\ steps \in [StepIds -> StepStatus] /\ out \in [StepIds -> Nat]

MessagesTypeOK ==
  /\ outbox \subseteq Row /\ nextId \in Nat
  /\ queue \in [StepIds -> Seq(Delivery)] /\ delayed \in Seq(Message)
  /\ dlq \subseteq Message

SlotsTypeOK ==
  /\ lock \in [StepIds -> Workers \cup {Free}]
  /\ pc \in [Workers -> ProgramPoints]
  /\ \A w \in Workers : pc[w] # "idle" => held[w] \in Delivery
  /\ \A w \in Workers : pc[w] = "publish" => ev[w] \in Row
  /\ \A w \in Workers : pc[w] = "schedule_repair" => step(w) \in Producing
  /\ held \in [Workers -> Delivery \cup {NoDelivery}]
  /\ ev \in [Workers -> Row \cup {NoRow}]
  /\ res \in [Workers -> Results] /\ rc \in [Workers -> Nat]
  /\ raised \in [Workers -> BOOLEAN]

ApisTypeOK ==
  /\ apiPc \in [Apis -> {"idle", "resume_write", "unlock", "publish"}]
  /\ apiKeys \in [Apis -> Seq(StepIds)]
  /\ apiEvent \in [Apis -> Row \cup {NoRow}]
  /\ \A a \in Apis : apiPc[a] = "unlock" => apiKeys[a] # <<>>
  /\ \A a \in Apis : apiPc[a] \in {"unlock", "publish"} => apiEvent[a] \in Row

HistoryTypeOK ==
  /\ gen \in Nat /\ ended \subseteq Nat
  /\ discarded \subseteq [cause : Causes, gen : Nat]
  /\ faults \in [FaultKinds -> Nat]

\* Every variable has its type: messages name steps of the task, a slot at work
\* holds a delivery, whoever publishes has a row to publish, and only a step of
\* the chain before the evaluation is repaired.
TypeOK == TaskTypeOK /\ MessagesTypeOK /\ SlotsTypeOK /\ ApisTypeOK /\ HistoryTypeOK

\* the slot's message is still to be acted on, or will be redelivered or rejected
Carries(w) ==
  \/ pc[w] \in {"acquire", "check", "task_running", "task_running_write",
                "step_running", "step_running_write", "agent", "success_commit",
                "failure_commit", "mark_retrying", "schedule_retry",
                "schedule_retry_write", "schedule_repair", "dead_letter_commit",
                "repair_apply", "evaluate", "evaluate_write", "verdict",
                "eval_retry", "eval_reset", "finalize", "finalize_write",
                "finalize_output"}
  \/ pc[w] \in {"release", "settle"} /\ raised[w]

InOutbox(g) == \E row \in outbox : row.msg.gen = g
InDelay(g)  == \E i \in 1..Len(delayed) : delayed[i].gen = g
InQueue(g)  == \E s \in StepIds : \E i \in 1..Len(queue[s]) : queue[s][i].msg.gen = g
InSlot(g)   == \E w \in Workers : Carries(w) /\ Gen(w) = g
WasDiscarded(g) == \E d \in discarded : d.gen = g

Accounted(g) ==
  g \in ended \/ InOutbox(g) \/ InDelay(g) \/ InQueue(g) \/ InSlot(g) \/ WasDiscarded(g)

\* No generation of the task disappears: it ended, or an outbox row, a message or
\* a slot still carries it, or one of its messages was discarded by a slot that
\* found the lease held or the step done, or was rejected by the broker after its
\* redelivery failed.  Crashes, refused publishes, duplicates, failing calls and
\* expiring leases lose nothing by themselves.
GenerationsAccountedFor == \A g \in 1..gen : Accounted(g)

\* No two slots are between acquiring and releasing the lease of the same step,
\* whatever crashes, duplicates and failing calls happen, as long as no lease
\* reached its TTL under a working owner and no manual resume deleted leases.
ExclusiveExecution ==
  faults.expiry = 0 /\ faults.resume = 0 =>
    \A v, w \in Workers :
      v # w /\ pc[v] \in Critical /\ pc[w] \in Critical => step(v) # step(w)

\* A working owner loses its lease only by its own release, its TTL or a manual
\* resume: a slot whose own lease expired never deletes its successor's.
LiveLeaseKept ==
  [][\A s \in StepIds, w \in Workers :
       lock[s] = w /\ Working(w, s) /\ lock'[s] # w =>
         \/ pc[w] = "release"
         \/ faults'.expiry > faults.expiry
         \/ \E a \in Apis : apiPc[a] = "unlock"]_vars

\* A step's status is changed by the slot at work under the step's lease and by
\* nobody else, save a restart, which resets it, and a repair, which completes the
\* step it was asked for, as long as no lease is overrun or forced.
StepsChangeUnderLease ==
  [][\A s \in StepIds : steps'[s] # steps[s] =>
       \/ \E w \in Workers : lock[s] = w /\ Working(w, s) /\ pc'[w] # pc[w]
       \/ steps'[s] = "pending"
       \/ \E w \in Workers : pc[w] = "repair_apply" /\ held[w].msg.target = s
       \/ faults.expiry > 0 \/ faults.resume > 0]_vars

AtRest == {"success", "manual_review", "dead_letter"}
RestartedSteps == StepsFrom("script_generation")

\* Every change of the task's status is one of the table's, the writes that do
\* not consult the table (mark_task_retrying, send_to_dead_letter) included.
LegalTaskTransitions ==
  [][status' # status => status' \in TASK_TRANSITIONS[status]]_vars

\* A successful task was evaluated on, and consists of, outputs of its current
\* generation only.
ResultsAreCurrent ==
  status = "success" =>
    \A s \in RestartedSteps : steps[s] = "success" /\ out[s] = gen

\* No slot runs an agent, or writes its result, for a history that a restart has
\* discarded or for the repair of a step that is not failed any more.
FreshWork ==
  \A w \in Workers : pc[w] \in {"agent", "success_commit", "repair_apply"} =>
    /\ Gen(w) = gen
    /\ step(w) = "repair" => steps[held[w].msg.target] = "failed"

\* nobody works without the lease it took
LeasesHold == faults.expiry = 0 /\ faults.resume = 0

\* The results of a task are spoilt only by work on a message left over from
\* before a restart or a repair.  While every slot works on a current message, a
\* success consists of the outputs of the last restart, however many slots
\* overlap, crash, fail, repeat messages and overtake each other's statements.
OnlyStaleWorkSpoils == []FreshWork => [](LeasesHold => ResultsAreCurrent)

\* The retry counter has a bound: beyond max_retry only repairs add to it, at
\* most one per step before the evaluation.
RetryBudget == retries <= MAX_RETRY + Len(WORKFLOW_STEPS) - 1

\* The task ends up successful, under review or dead-lettered, for good.
Settles == <>[](status \in AtRest)
-----------------------------------------------------------------------------
(* Without concurrency the orchestrator implements the life cycle *)

Phase == IF status \in AtRest THEN status ELSE "open"
Parts == IF status = "success" THEN {taskOut[s] : s \in RestartedSteps} ELSE {}

Lifecycle == INSTANCE TaskLifecycle WITH phase <- Phase, version <- gen, parts <- Parts

\* Seen by a client the task is open, closes, and is opened again only by a
\* resume of a dead letter; a success is final and consists of the outputs of the
\* last start.
ImplementsLifecycle == Lifecycle!Spec
-----------------------------------------------------------------------------
(* What the repository's documents say and the code does not do *)

\* A successful task has gone through the whole chain (README): every step from the
\* script on is completed.
SuccessIsComplete ==
  status = "success" => \A s \in RestartedSteps : steps[s] = "success"

\* "A success never runs again" (ARCHITECTURE 3.3).
SuccessIsFinal == [][status = "success" => status' = "success"]_vars

\* "After a hard exit under the lease the step may run again" (FAULT_MATRIX).
Abandoned(s) == steps[s] = "running" /\ \A w \in Workers : ~Working(w, s)
AbandonedStepsRerun == \A s \in StepIds : Abandoned(s) ~> ~Abandoned(s)
=============================================================================
