----------------------------- MODULE LeaseProofs -----------------------------
(***************************************************************************)
(* The execution lease: mutual exclusion of the slots that run a step, the *)
(* promise that a late owner never deletes its successor's lease, and what *)
(* exclusion is for: as long as the slots work on current messages, their  *)
(* interleavings leave no success with a result of an earlier start.       *)
(***************************************************************************)
EXTENDS OrchestratorProofs

\* Mutual exclusion is not inductive: what makes it so is that the owner written
\* in the lease is the slot at work, and that no manual resume is under way.
LeaseInv ==
  faults.expiry = 0 /\ faults.resume = 0 =>
    /\ \A w \in Workers : pc[w] \in Critical => lock[step(w)] = w
    /\ \A a \in Apis : apiPc[a] \in {"idle", "publish"}

\* A step of a slot inside its critical section that touches no lease.
Inside(w) ==
  /\ pc[w] \in Critical
  /\ \A v \in Workers \ {w} : pc'[v] = pc[v]
  /\ UNCHANGED <<lock, held, apiPc>>

\* Budgets are only spent: one untouched after a step was untouched before it.
LEMMA SpendKeeps ==
  ASSUME HistoryTypeOK, NEW k \in FaultKinds, Spend(k)
  PROVE  /\ faults' \in [FaultKinds -> Nat]
         /\ faults'[k] > faults[k]
         /\ \A j \in FaultKinds : faults'[j] = 0 => faults[j] = 0
BY DEF HistoryTypeOK, Spend

LEMMA FaultNames == {"expiry", "resume", "call", "publish", "crash", "duplicate", "api_crash"} \subseteq FaultKinds
BY DEF FaultKinds

\* Everything a slot does between acquiring and releasing its lease is inside.
LEMMA InsideSteps ==
  ASSUME TypeOK, NEW w \in Workers,
         \/ CheckStep(w) \/ TaskRunning(w) \/ TaskRunningWrite(w) \/ StepRunning(w)
         \/ StepRunningWrite(w) \/ RunAgent(w) \/ SuccessCommit(w) \/ RepairApply(w)
         \/ LateRunning(w) \/ LateRunningWrite(w) \/ FailureCommit(w)
         \/ MarkRetrying(w) \/ ScheduleRetry(w) \/ ScheduleRetryWrite(w)
         \/ ScheduleRepair(w) \/ DeadLetterCommit(w) \/ DeadLetterPublish(w)
         \/ Evaluate(w) \/ EvaluateWrite(w) \/ Verdict(w) \/ EvalRetry(w)
         \/ EvalReset(w) \/ Finalize(w) \/ FinalizeWrite(w) \/ Publish(w)
         \/ PublishFails(w) \/ MarkFails(w) \/ ReleaseFails(w) \/ CallFails(w)
  PROVE  Inside(w) /\ (UNCHANGED faults \/ Spend("call") \/ Spend("publish"))
<1>. pc \in [Workers -> ProgramPoints]
  BY DEF TypeOK, SlotsTypeOK
<1>1. CASE CheckStep(w) \/ RunAgent(w) \/ StepRunningWrite(w) \/ StepRunning(w)
  BY <1>1 DEF CheckStep, RunAgent, StepRunningWrite, StepRunning, Decide, Raise, Goto,
              Inside, Critical, apiVars
<1>2. CASE TaskRunning(w) \/ LateRunning(w) \/ Evaluate(w) \/ Finalize(w)
  BY <1>2 DEF TaskRunning, LateRunning, Evaluate, Finalize, DecideTask, Decide, Raise,
              Goto, Inside, Critical, apiVars
<1>3. CASE \/ TaskRunningWrite(w) \/ LateRunningWrite(w) \/ EvaluateWrite(w)
           \/ FinalizeWrite(w)
  BY <1>3 DEF TaskRunningWrite, LateRunningWrite, EvaluateWrite, FinalizeWrite, WriteTask,
              Goto, Inside, Critical, apiVars
<1>4. CASE SuccessCommit(w) \/ RepairApply(w)
  BY <1>4 DEF SuccessCommit, RepairApply, Raise, Goto, Inside, Critical, apiVars
<1>5. CASE \/ FailureCommit(w) \/ MarkRetrying(w) \/ ScheduleRetry(w)
           \/ ScheduleRetryWrite(w) \/ ScheduleRepair(w)
  BY <1>5 DEF FailureCommit, MarkRetrying, ScheduleRetry, ScheduleRetryWrite,
              ScheduleRepair, Raise, Goto, Inside, Critical, apiVars
<1>6. CASE \/ DeadLetterCommit(w) \/ DeadLetterPublish(w) \/ Verdict(w) \/ EvalRetry(w)
           \/ EvalReset(w)
  BY <1>6 DEF DeadLetterCommit, DeadLetterPublish, Verdict, EvalRetry, EvalReset, Goto,
              Inside, Critical, apiVars
<1>7. CASE \/ Publish(w) \/ PublishFails(w) \/ MarkFails(w) \/ ReleaseFails(w)
           \/ CallFails(w)
  BY <1>7 DEF Publish, PublishFails, MarkFails, ReleaseFails, CallFails, Raise, Goto,
              Inside, Critical, apiVars
<1>. QED BY <1>1, <1>2, <1>3, <1>4, <1>5, <1>6, <1>7

LEMMA LeaseInit == Init => LeaseInv
BY DEF Init, LeaseInv, Critical

LEMMA LeaseNext == TypeOK /\ LeaseInv /\ [Next]_vars => LeaseInv'
<1>. SUFFICES ASSUME TypeOK, LeaseInv, [Next]_vars,
                     faults'.expiry = 0, faults'.resume = 0
              PROVE  /\ \A w \in Workers : pc'[w] \in Critical => lock'[step(w)'] = w
                     /\ \A a \in Apis : apiPc'[a] \in {"idle", "publish"}
  BY DEF LeaseInv
<1>. /\ HistoryTypeOK /\ pc \in [Workers -> ProgramPoints]
     /\ lock \in [StepIds -> Workers \cup {Free}]
     /\ held \in [Workers -> Delivery \cup {NoDelivery}]
  BY DEF TypeOK, SlotsTypeOK
<1>. \A w \in Workers : pc[w] \in Critical => step(w) \in StepIds
  BY HeldType DEF TypeOK, Critical
<1>. DEFINE Owned == /\ faults.expiry = 0 /\ faults.resume = 0
                     /\ \A w \in Workers : pc[w] \in Critical => lock[step(w)] = w
                     /\ \A a \in Apis : apiPc[a] \in {"idle", "publish"}
            Goal == /\ \A w \in Workers : pc'[w] \in Critical => lock'[step(w)'] = w
                    /\ \A a \in Apis : apiPc'[a] \in {"idle", "publish"}
<1>0. UNCHANGED faults \/ (\E k \in FaultKinds : Spend(k)) => Owned
  BY SpendKeeps, FaultNames DEF LeaseInv
<1>1. ASSUME NEW w \in Workers, Inside(w), Owned PROVE Goal
  BY <1>1 DEF Inside, step
<1>2. ASSUME NEW w \in Workers, Acquire(w) PROVE Goal
  <2>1. Owned
    BY <1>0, <1>2 DEF Acquire
  <2>2. step(w) \in StepIds /\ UNCHANGED held
    BY <1>2, HeldType DEF TypeOK, Acquire
  <2>3. CASE ~LeaseAvailable(step(w))
    BY <1>2, <2>1, <2>2, <2>3 DEF Acquire, Goto, step, Critical, apiVars
  <2>4. CASE LeaseAvailable(step(w))
    <3>1. /\ lock' = [lock EXCEPT ![step(w)] = w] /\ lock[step(w)] = Free
          /\ \A v \in Workers \ {w} : pc'[v] = pc[v]
          /\ UNCHANGED apiPc
      BY <1>2, <2>4 DEF Acquire, LeaseAvailable, Goto, apiVars
    <3>2. \A v \in Workers : step(v)' = step(v)
      BY <2>2 DEF step
    <3>3. ASSUME NEW v \in Workers \ {w}, pc[v] \in Critical PROVE step(v) # step(w)
      BY <2>1, <3>1, <3>3, OrchestratorAssumption DEF Free
    <3>. QED BY <2>1, <2>2, <3>1, <3>2, <3>3
  <2>. QED BY <2>3, <2>4
<1>3. ASSUME NEW w \in Workers, Release(w) PROVE Goal
  <2>1. Owned
    BY <1>0, <1>3 DEF Release
  <2>2. step(w) \in StepIds /\ UNCHANGED held
    BY <1>3, HeldType DEF TypeOK, Release
  <2>. QED BY <1>3, <2>1, <2>2 DEF Release, OwnsLease, Goto, step, Critical, apiVars
<1>4. ASSUME NEW w \in Workers, Settle(w) \/ WorkerCrash(w) PROVE Goal
  <2>1. Owned
    BY <1>0, <1>4, FaultNames DEF Settle, WorkerCrash
  <2>. QED BY <1>4, <2>1 DEF Settle, WorkerCrash, ClearSlot, Goto, step, Critical, apiVars
<1>5. ASSUME NEW w \in Workers, NEW s \in StepIds, Receive(w, s) PROVE Goal
  <2>1. Owned
    BY <1>0, <1>5 DEF Receive
  <2>. QED BY <1>5, <2>1 DEF Receive, Goto, step, Critical, apiVars
<1>6. ASSUME NEW a \in Apis, Resume(a) PROVE FALSE
  BY <1>6, SpendKeeps, FaultNames DEF Resume, HistoryTypeOK
<1>7. ASSUME NEW a \in Apis, ApiStep(a) \/ ApiCrash(a) PROVE Goal
  <2>1. Owned
    BY <1>0, <1>7, FaultNames DEF ApiStep, ResumeWrite, ResumeUnlock, ApiPublish, ApiCrash
  <2>. QED BY <1>7, <2>1
       DEF ApiStep, ResumeWrite, ResumeUnlock, ApiPublish, ApiCrash, ApiGoto, step,
           workerVars, TypeOK, ApisTypeOK
<1>8. ASSUME NEW row \in outbox, Relay(row) \/ RelayDuplicate(row) PROVE Goal
  <2>1. Owned
    BY <1>0, <1>8, FaultNames DEF Relay, RelayDuplicate
  <2>. QED BY <1>8, <2>1 DEF Relay, RelayDuplicate, step, workerVars, apiVars
<1>9. CASE DelayElapsed
  BY <1>0, <1>9 DEF DelayElapsed, step, workerVars, apiVars
<1>10. ASSUME NEW s \in StepIds, LeaseExpires(s) PROVE Goal
  <2>1. Owned
    BY <1>0, <1>10 DEF LeaseExpires
  <2>. QED BY <1>10, <2>1 DEF LeaseExpires, Working, step, workerVars, apiVars
<1>11. ASSUME NEW s \in StepIds, LeaseOverrun(s) PROVE FALSE
  BY <1>11, SpendKeeps, FaultNames DEF LeaseOverrun, HistoryTypeOK
<1>12. CASE UNCHANGED vars
  BY <1>0, <1>12 DEF vars, step, workerVars, apiVars
<1>14. ASSUME NEW w \in Workers, AcquireFails(w) PROVE Goal
  <2>1. Owned
    BY <1>0, <1>14, FaultNames DEF AcquireFails
  <2>2. step(w) \in StepIds /\ UNCHANGED held
    BY <1>14, HeldType DEF TypeOK, AcquireFails
  <2>3. /\ lock' = lock \/ (lock[step(w)] = Free /\ lock' = [lock EXCEPT ![step(w)] = w])
        /\ pc' = [pc EXCEPT ![w] = "settle"] /\ UNCHANGED apiPc
    BY <1>14 DEF AcquireFails, LeaseAvailable, Goto, apiVars
  <2>4. ASSUME NEW v \in Workers, pc'[v] \in Critical PROVE lock'[step(v)'] = v
    <3>1. pc[v] \in Critical /\ lock[step(v)] = v /\ step(v)' = step(v) /\ step(v) \in StepIds
      BY <2>1, <2>2, <2>3, <2>4 DEF Critical, step
    <3>2. lock[step(w)] = Free => step(v) # step(w)
      BY <3>1, OrchestratorAssumption DEF Free
    <3>. QED BY <2>2, <2>3, <3>1, <3>2
  <2>. QED BY <2>1, <2>3, <2>4
<1>13. ASSUME NEW w \in Workers, WorkerStep(w) \/ WorkerFault(w) PROVE Goal
  <2>1. CASE Inside(w) /\ (UNCHANGED faults \/ Spend("call") \/ Spend("publish"))
    BY <1>0, <1>1, <2>1, FaultNames
  <2>. QED BY <1>2, <1>3, <1>4, <1>13, <1>14, <2>1, InsideSteps DEF WorkerStep, WorkerFault
<1>. QED BY <1>5, <1>6, <1>7, <1>8, <1>9, <1>10, <1>11, <1>12, <1>13 DEF Next, ReceiveAny

\* Until a lease is overrun or forced, no two slots work on the same step: crashes,
\* duplicated messages and failing calls do not put a second agent on it.
THEOREM Exclusion == Spec => []ExclusiveExecution
<1>1. TypeOK /\ LeaseInv => ExclusiveExecution
  BY DEF LeaseInv, ExclusiveExecution
<1>. QED BY <1>1, InitType, NextType, LeaseInit, LeaseNext, PTL DEF Spec

LEMMA LeaseKeptNext ==
  TypeOK /\ [Next]_vars =>
    [\A s \in StepIds, w \in Workers :
       lock[s] = w /\ Working(w, s) /\ lock'[s] # w =>
         \/ pc[w] = "release"
         \/ faults'.expiry > faults.expiry
         \/ \E a \in Apis : apiPc[a] = "unlock"]_vars
<1>. SUFFICES ASSUME TypeOK, [Next]_vars, NEW s \in StepIds, NEW w \in Workers,
                     lock[s] = w, Working(w, s), lock'[s] # w
              PROVE  \/ pc[w] = "release" \/ faults'.expiry > faults.expiry
                     \/ \E a \in Apis : apiPc[a] = "unlock"
  OBVIOUS
<1>. HistoryTypeOK /\ lock \in [StepIds -> Workers \cup {Free}] /\ lock # lock'
  BY DEF TypeOK, SlotsTypeOK
<1>1. ASSUME NEW v \in Workers, Acquire(v) \/ AcquireFails(v) PROVE FALSE
  <2>1. step(v) \in StepIds
    BY <1>1, HeldType DEF TypeOK, Acquire, AcquireFails
  <2>. QED BY <1>1, <2>1, OrchestratorAssumption
           DEF Acquire, AcquireFails, LeaseAvailable, Free
<1>2. ASSUME NEW v \in Workers, Release(v) PROVE pc[w] = "release"
  <2>1. step(v) \in StepIds
    BY <1>2, HeldType DEF TypeOK, Release
  <2>. QED BY <1>2, <2>1 DEF Release, OwnsLease
<1>3. ASSUME NEW a \in Apis, ResumeUnlock(a) PROVE apiPc[a] = "unlock"
  BY <1>3 DEF ResumeUnlock
<1>4. ASSUME NEW r \in StepIds, LeaseExpires(r) PROVE FALSE
  BY <1>4 DEF LeaseExpires
<1>5. ASSUME NEW r \in StepIds, LeaseOverrun(r) PROVE faults'.expiry > faults.expiry
  BY <1>5, SpendKeeps, FaultNames DEF LeaseOverrun
<1>6. ASSUME NEW v \in Workers, ReceiveAny(v) \/ Settle(v) \/ WorkerCrash(v) PROVE FALSE
  BY <1>6 DEF ReceiveAny, Receive, Settle, WorkerCrash
<1>7. ASSUME NEW a \in Apis, Resume(a) \/ ResumeWrite(a) \/ ApiPublish(a) \/ ApiCrash(a)
      PROVE FALSE
  BY <1>7 DEF Resume, ResumeWrite, ApiPublish, ApiCrash
<1>8. ASSUME NEW row \in outbox, Relay(row) \/ RelayDuplicate(row) PROVE FALSE
  BY <1>8 DEF Relay, RelayDuplicate
<1>9. ASSUME DelayElapsed \/ UNCHANGED vars PROVE FALSE
  BY <1>9 DEF DelayElapsed, vars
<1>10. ASSUME NEW v \in Workers, Inside(v) PROVE FALSE
  BY <1>10 DEF Inside
<1>. QED BY <1>1, <1>2, <1>3, <1>4, <1>5, <1>6, <1>7, <1>8, <1>9, <1>10, InsideSteps
         DEF Next, WorkerStep, WorkerFault, ApiStep

\* A slot at work loses its lease only to its own release, the lease's TTL or a
\* manual resume; a slot that has lost its lease deletes nobody else's.
THEOREM LeasesKept == Spec => LiveLeaseKept
BY InitType, NextType, LeaseKeptNext, PTL DEF Spec, LiveLeaseKept

\* Only a slot at work, a resume or nobody touches the step rows.
LEMMA StepWriters ==
  ASSUME TypeOK, [Next]_vars, NEW s \in StepIds, steps'[s] # steps[s], steps'[s] # "pending"
  PROVE  \E w \in Workers :
           \/ pc[w] = "repair_apply" /\ held[w].msg.target = s
           \/ pc[w] \in Critical /\ step(w) = s /\ pc'[w] # pc[w]
<1>. DEFINE Wrote(w) == \/ pc[w] = "repair_apply" /\ held[w].msg.target = s
                        \/ pc[w] \in Critical /\ step(w) = s /\ pc'[w] # pc[w]
<1>. /\ steps \in [StepIds -> StepStatus] /\ pc \in [Workers -> ProgramPoints]
  BY DEF TypeOK, TaskTypeOK, SlotsTypeOK
<1>1. ASSUME NEW w \in Workers,
             \/ StepRunningWrite(w) \/ SuccessCommit(w) \/ FailureCommit(w)
             \/ ScheduleRetryWrite(w)
      PROVE  Wrote(w)
  <2>1. steps'[s] # steps[s] => step(w) = s
    BY <1>1 DEF StepRunningWrite, SuccessCommit, FailureCommit, ScheduleRetryWrite
  <2>2. pc[w] \in Critical /\ pc'[w] # pc[w]
    BY <1>1 DEF StepRunningWrite, SuccessCommit, FailureCommit, ScheduleRetryWrite, Goto,
                Critical
  <2>. QED BY <2>1, <2>2
<1>2. ASSUME NEW w \in Workers, RepairApply(w) PROVE Wrote(w)
  <2>1. held[w].msg.target \in Producing
    BY <1>2 DEF RepairApply, stepVars
  <2>. DEFINE t == held[w].msg.target
  <2>2. steps' = [r \in StepIds |-> IF r = t THEN "success"
                    ELSE IF r \in StepsFrom(t) \ {t} THEN "pending" ELSE steps[r]]
    BY <1>2, <2>1 DEF RepairApply
  <2>3. pc[w] = "repair_apply" /\ s = held[w].msg.target
    BY <1>2, <2>2 DEF RepairApply
  <2>. QED BY <2>3
<1>3. ASSUME NEW w \in Workers, ScheduleRepair(w) \/ EvalReset(w) PROVE FALSE
  BY <1>3 DEF ScheduleRepair, EvalReset, ClearSteps
<1>4. ASSUME NEW a \in Apis, ResumeWrite(a) PROVE FALSE
  BY <1>4 DEF ResumeWrite, ClearSteps
<1>5. ASSUME NEW w \in Workers,
             \/ ReceiveAny(w) \/ Acquire(w) \/ CheckStep(w) \/ TaskRunning(w)
             \/ TaskRunningWrite(w) \/ StepRunning(w) \/ RunAgent(w) \/ LateRunning(w)
             \/ LateRunningWrite(w) \/ MarkRetrying(w) \/ ScheduleRetry(w)
             \/ DeadLetterCommit(w) \/ DeadLetterPublish(w)
      PROVE  FALSE
  BY <1>5 DEF ReceiveAny, Receive, Acquire, CheckStep, TaskRunning, TaskRunningWrite,
              StepRunning, RunAgent, LateRunning, LateRunningWrite, MarkRetrying,
              ScheduleRetry, DeadLetterCommit, DeadLetterPublish, WriteTask, stepVars
<1>6. ASSUME NEW w \in Workers,
             \/ Evaluate(w) \/ EvaluateWrite(w) \/ Verdict(w) \/ EvalRetry(w)
             \/ Finalize(w) \/ FinalizeWrite(w) \/ Publish(w) \/ Release(w) \/ Settle(w)
             \/ WorkerFault(w)
      PROVE  FALSE
  BY <1>6 DEF Evaluate, EvaluateWrite, Verdict, EvalRetry, Finalize, FinalizeWrite, Publish,
              Release, Settle, WorkerFault, PublishFails, MarkFails, ReleaseFails,
              WorkerCrash, AcquireFails, CallFails, WriteTask, stepVars
<1>7. ASSUME NEW a \in Apis, Resume(a) \/ ResumeUnlock(a) \/ ApiPublish(a) \/ ApiCrash(a)
      PROVE  FALSE
  BY <1>7 DEF Resume, ResumeUnlock, ApiPublish, ApiCrash, stepVars
<1>8. ASSUME NEW row \in outbox, Relay(row) \/ RelayDuplicate(row) PROVE FALSE
  BY <1>8 DEF Relay, RelayDuplicate, stepVars
<1>9. ASSUME NEW r \in StepIds, LeaseExpires(r) \/ LeaseOverrun(r) PROVE FALSE
  BY <1>9 DEF LeaseExpires, LeaseOverrun, stepVars
<1>10. ASSUME DelayElapsed \/ UNCHANGED vars PROVE FALSE
  BY <1>10 DEF DelayElapsed, vars, stepVars
<1>. HIDE DEF Wrote
<1>11. \E w \in Workers : Wrote(w)
  BY <1>1, <1>2, <1>3, <1>4, <1>5, <1>6, <1>7, <1>8, <1>9, <1>10
     DEF Next, WorkerStep, ApiStep
<1>. QED BY <1>11 DEF Wrote

LEMMA UnderLeaseNext ==
  TypeOK /\ LeaseInv /\ [Next]_vars =>
    [\A s \in StepIds : steps'[s] # steps[s] =>
       \/ \E w \in Workers : lock[s] = w /\ Working(w, s) /\ pc'[w] # pc[w]
       \/ steps'[s] = "pending"
       \/ \E w \in Workers : pc[w] = "repair_apply" /\ held[w].msg.target = s
       \/ faults.expiry > 0 \/ faults.resume > 0]_vars
<1>. SUFFICES ASSUME TypeOK, LeaseInv, [Next]_vars, NEW s \in StepIds,
                     steps'[s] # steps[s], steps'[s] # "pending",
                     ~(faults.expiry > 0), ~(faults.resume > 0)
              PROVE  \/ \E w \in Workers : lock[s] = w /\ Working(w, s) /\ pc'[w] # pc[w]
                     \/ \E w \in Workers : pc[w] = "repair_apply" /\ held[w].msg.target = s
  OBVIOUS
<1>1. faults.expiry = 0 /\ faults.resume = 0
  BY FaultNames DEF TypeOK, HistoryTypeOK
<1>. QED BY <1>1, StepWriters DEF LeaseInv, Working

\* Until a lease is overrun or forced a step's status is changed under the step's
\* lease only, resets and the repair asked for apart: redelivered, duplicated and
\* late messages write no step that another slot works on.
THEOREM UnderLease == Spec => StepsChangeUnderLease
BY InitType, NextType, LeaseInit, LeaseNext, UnderLeaseNext, PTL
   DEF Spec, StepsChangeUnderLease
-----------------------------------------------------------------------------
(* Messages afoot *)

AtBroker(m) ==
  \/ \E s \in StepIds : \E i \in 1..Len(queue[s]) : queue[s][i].msg = m
  \/ \E i \in 1..Len(delayed) : delayed[i] = m
InRow(m) == \E row \in outbox : row.msg = m
AtSlot(w, m) == (pc[w] # "idle" /\ held[w].msg = m) \/ (pc[w] = "publish" /\ ev[w].msg = m)
AtRequest(a, m) == apiPc[a] \in {"unlock", "publish"} /\ apiEvent[a].msg = m

\* somebody has the message or will be handed it
Afoot(m) ==
  \/ AtBroker(m) \/ InRow(m)
  \/ \E w \in Workers : AtSlot(w, m)
  \/ \E a \in Apis : AtRequest(a, m)

NothingNew == \A m : Afoot(m)' => Afoot(m)
OnlyNew(n) == \A m : Afoot(m)' => Afoot(m) \/ m = n

\* Sending brings the sent message to the queues and nothing else.
LEMMA SendBrings ==
  ASSUME MessagesTypeOK, NEW n \in Message, NEW m,
         queue' = [queue EXCEPT ![n.step] = Append(@, [msg |-> n, redelivered |-> FALSE])],
         NEW r \in StepIds, NEW i \in 1..Len(queue'[r]), queue'[r][i].msg = m
  PROVE  m = n \/ \E j \in 1..Len(queue[r]) : queue[r][j].msg = m
<1> DEFINE s == n.step
           d == [msg |-> n, redelivered |-> FALSE]
<1>1. d \in Delivery /\ s \in StepIds /\ d.msg = n
  BY DEF Message, Delivery
<1>2. queue[s] \in Seq(Delivery) /\ queue'[s] = Append(queue[s], d)
      /\ \A t \in StepIds \ {s} : queue'[t] = queue[t]
  BY <1>1 DEF MessagesTypeOK
<1>3. /\ Len(queue[s]) \in Nat /\ Len(queue'[s]) = Len(queue[s]) + 1
      /\ \A j \in 1..Len(queue[s]) : queue'[s][j] = queue[s][j]
      /\ queue'[s][Len(queue[s]) + 1] = d
  BY <1>1, <1>2, AppendProperties
<1>. HIDE DEF s, d
<1>4. CASE r = s
  <2>1. i \in 1..Len(queue[s]) \/ i = Len(queue[s]) + 1
    BY <1>3, <1>4
  <2>. QED BY <1>1, <1>3, <1>4, <2>1
<1>. QED BY <1>2, <1>4

\* Publishing a row brings its message to the broker and nothing else.
LEMMA PublishBrings ==
  ASSUME MessagesTypeOK, NEW row \in Row, PublishStep(row), NEW m, AtBroker(m)'
  PROVE  AtBroker(m) \/ m = row.msg
<1>. row.msg \in Message
  BY DEF Row
<1>1. CASE row.delayed
  <2>1. delayed' = Append(delayed, row.msg) /\ UNCHANGED queue
    BY <1>1 DEF PublishStep
  <2>2. /\ Len(delayed) \in Nat /\ Len(delayed') = Len(delayed) + 1
        /\ \A i \in 1..Len(delayed) : delayed'[i] = delayed[i]
        /\ delayed'[Len(delayed) + 1] = row.msg
    BY <2>1, AppendProperties DEF MessagesTypeOK
  <2>3. \A i \in 1..Len(delayed') : i \in 1..Len(delayed) \/ i = Len(delayed) + 1
    BY <2>2
  <2>. QED BY <2>1, <2>2, <2>3 DEF AtBroker
<1>2. CASE ~row.delayed
  <2>1. /\ queue' = [queue EXCEPT ![row.msg.step] =
                        Append(@, [msg |-> row.msg, redelivered |-> FALSE])]
        /\ UNCHANGED delayed
    BY <1>2 DEF PublishStep
  <2>2. \A r \in StepIds : \A i \in 1..Len(queue'[r]) : queue'[r][i].msg = m =>
          m = row.msg \/ \E j \in 1..Len(queue[r]) : queue[r][j].msg = m
    BY <2>1, SendBrings
  <2>. QED BY <2>1, <2>2 DEF AtBroker
<1>. QED BY <1>1, <1>2

\* A requeued delivery brings back its message and nothing else.
LEMMA RequeueBrings ==
  ASSUME MessagesTypeOK, NEW d \in Delivery, queue' = Requeued(d), UNCHANGED delayed,
         NEW m, AtBroker(m)'
  PROVE  AtBroker(m) \/ m = d.msg
<1> DEFINE s == d.msg.step
           e == [d EXCEPT !.redelivered = TRUE]
<1>1. e \in Delivery /\ s \in StepIds /\ e.msg = d.msg
  BY DEF Delivery, Message
<1>2. queue' = [queue EXCEPT ![s] = <<e>> \o @]
  BY DEF Requeued
<1>3. /\ queue[s] \in Seq(Delivery) /\ queue'[s] = <<e>> \o queue[s]
      /\ \A r \in StepIds \ {s} : queue'[r] = queue[r]
  BY <1>1, <1>2 DEF MessagesTypeOK
<1>. HIDE DEF e, s
<1>4. <<e>> \in Seq(Delivery) /\ Len(<<e>>) = 1 /\ <<e>>[1] = e
  BY <1>1
<1>5. /\ Len(queue[s]) \in Nat /\ Len(queue'[s]) = Len(queue[s]) + 1
      /\ \A i \in 1..Len(queue[s]) : queue'[s][i + 1] = queue[s][i]
      /\ queue'[s][1] = e
  BY <1>3, <1>4, ConcatProperties
<1>6. ASSUME NEW r \in StepIds, NEW i \in 1..Len(queue'[r]), queue'[r][i].msg = m
      PROVE  m = d.msg \/ \E j \in 1..Len(queue[r]) : queue[r][j].msg = m
  <2>1. CASE r = s
    <3>1. CASE i = 1
      BY <1>1, <1>5, <1>6, <2>1, <3>1
    <3>2. CASE i # 1
      <4>1. i - 1 \in 1..Len(queue[s]) /\ i = (i - 1) + 1
        BY <1>5, <2>1, <3>2
      <4>2. queue[s][i - 1].msg = m
        BY <1>5, <1>6, <2>1, <4>1
      <4>. QED BY <2>1, <4>1, <4>2
    <3>. QED BY <3>1, <3>2
  <2>2. CASE r # s
    BY <1>3, <1>6, <2>2
  <2>. QED BY <2>1, <2>2
<1>. QED BY <1>6 DEF AtBroker

\* What a slot receives was at the broker, and so was what is left there.
LEMMA ReceiveBrings ==
  ASSUME MessagesTypeOK, NEW w \in Workers, NEW s \in StepIds, Receive(w, s)
  PROVE  /\ AtBroker(Head(queue[s]).msg)
         /\ \A m : AtBroker(m)' => AtBroker(m)
<1>1. /\ queue[s] \in Seq(Delivery) /\ queue[s] # <<>> /\ UNCHANGED delayed
      /\ queue' = [queue EXCEPT ![s] = Tail(@)]
      /\ queue \in [StepIds -> Seq(Delivery)]
  BY DEF Receive, MessagesTypeOK
<1>2. /\ Len(queue[s]) \in Nat \ {0} /\ Head(queue[s]) = queue[s][1]
      /\ Len(Tail(queue[s])) = Len(queue[s]) - 1
      /\ \A i \in 1..Len(Tail(queue[s])) : Tail(queue[s])[i] = queue[s][i + 1]
  BY <1>1, HeadTailProperties
<1>3. AtBroker(Head(queue[s]).msg)
  <2>1. 1 \in 1..Len(queue[s])
    BY <1>2
  <2>. QED BY <1>2, <2>1 DEF AtBroker
<1>4. ASSUME NEW m, NEW r \in StepIds, NEW i \in 1..Len(queue'[r]), queue'[r][i].msg = m
      PROVE  \E j \in 1..Len(queue[r]) : queue[r][j].msg = m
  <2>1. CASE r = s
    <3>1. queue'[s] = Tail(queue[s])
      BY <1>1
    <3>2. i + 1 \in 1..Len(queue[s]) /\ queue[s][i + 1].msg = m
      BY <1>2, <1>4, <2>1, <3>1
    <3>. QED BY <2>1, <3>2
  <2>2. CASE r # s
    BY <1>1, <1>4, <2>2
  <2>. QED BY <2>1, <2>2
<1>. QED BY <1>1, <1>3, <1>4 DEF AtBroker

\* The delay queue hands its first message to the work queues.
LEMMA DelayBrings ==
  ASSUME MessagesTypeOK, DelayElapsed, NEW m, AtBroker(m)'
  PROVE  AtBroker(m)
<1>1. /\ delayed \in Seq(Message) /\ delayed # <<>> /\ delayed' = Tail(delayed)
      /\ queue' = [queue EXCEPT ![Head(delayed).step] =
                     Append(@, [msg |-> Head(delayed), redelivered |-> FALSE])]
  BY DEF DelayElapsed, MessagesTypeOK
<1>2. /\ Len(delayed) \in Nat \ {0} /\ Head(delayed) = delayed[1]
      /\ Head(delayed) \in Message
      /\ Len(Tail(delayed)) = Len(delayed) - 1
      /\ \A i \in 1..Len(Tail(delayed)) : Tail(delayed)[i] = delayed[i + 1]
  BY <1>1, HeadTailProperties
<1>3. AtBroker(Head(delayed))
  <2>1. 1 \in 1..Len(delayed)
    BY <1>2
  <2>. QED BY <1>2, <2>1 DEF AtBroker
<1>4. ASSUME NEW i \in 1..Len(delayed'), delayed'[i] = m PROVE AtBroker(m)
  <2>1. i + 1 \in 1..Len(delayed) /\ delayed[i + 1] = m
    BY <1>1, <1>2, <1>4
  <2>. QED BY <2>1 DEF AtBroker
<1>5. ASSUME NEW r \in StepIds, NEW i \in 1..Len(queue'[r]), queue'[r][i].msg = m
      PROVE  m = Head(delayed) \/ \E j \in 1..Len(queue[r]) : queue[r][j].msg = m
  BY <1>1, <1>2, <1>5, SendBrings
<1>6. (\E r \in StepIds : \E j \in 1..Len(queue[r]) : queue[r][j].msg = m) => AtBroker(m)
  BY DEF AtBroker
<1>. QED BY <1>3, <1>4, <1>5, <1>6 DEF AtBroker

\* A slot's step that leaves the broker, the outbox and the events alone, and does
\* not begin to publish, brings nothing.
LEMMA InsideBrings ==
  ASSUME TypeOK, NEW w \in Workers, pc[w] # "idle", pc'[w] # "publish",
         \A v \in Workers \ {w} : pc'[v] = pc[v],
         UNCHANGED <<outbox, queue, delayed, held, apiPc, apiEvent>>,
         \A v \in Workers \ {w} : ev'[v] = ev[v]
  PROVE  NothingNew
<1>. SUFFICES ASSUME NEW m, Afoot(m)' PROVE Afoot(m)
  BY DEF NothingNew
<1>1. AtBroker(m)' => AtBroker(m)
  BY DEF AtBroker
<1>2. InRow(m)' => InRow(m)
  BY DEF InRow
<1>3. \A a \in Apis : AtRequest(a, m)' => AtRequest(a, m)
  BY DEF AtRequest
<1>4. \A v \in Workers : AtSlot(v, m)' => AtSlot(v, m)
  BY DEF AtSlot
<1>. QED BY <1>1, <1>2, <1>3, <1>4 DEF Afoot

\* An enqueued event brings its message, on its row and in its creator's hands.
LEMMA EnqueueBrings ==
  ASSUME TypeOK, NEW w \in Workers, pc[w] # "idle", NEW row, EnqueueStepEvent(row),
         \A v \in Workers \ {w} : pc'[v] = pc[v] /\ ev'[v] = ev[v], ev'[w] = row,
         UNCHANGED <<queue, delayed, held, apiPc, apiEvent>>
  PROVE  OnlyNew(row.msg)
<1>. SUFFICES ASSUME NEW m, Afoot(m)', m # row.msg PROVE Afoot(m)
  BY DEF OnlyNew
<1>1. AtBroker(m)' => AtBroker(m)
  BY DEF AtBroker
<1>2. InRow(m)' => InRow(m)
  BY DEF InRow, EnqueueStepEvent
<1>3. \A a \in Apis : AtRequest(a, m)' => AtRequest(a, m)
  BY DEF AtRequest
<1>4. \A v \in Workers : AtSlot(v, m)' => AtSlot(v, m)
  BY DEF AtSlot
<1>. QED BY <1>1, <1>2, <1>3, <1>4 DEF Afoot

\* The slots' steps that publish, receive, acknowledge or die.
LEMMA SlotBrings ==
  ASSUME TypeOK, NEW w \in Workers,
         \/ ReceiveAny(w) \/ Publish(w) \/ PublishFails(w) \/ MarkFails(w) \/ Settle(w)
         \/ WorkerCrash(w)
  PROVE  NothingNew
<1>. /\ pc \in [Workers -> ProgramPoints] /\ ev \in [Workers -> Row \cup {NoRow}]
     /\ held \in [Workers -> Delivery \cup {NoDelivery}] /\ MessagesTypeOK
  BY DEF TypeOK, SlotsTypeOK
<1>. SUFFICES ASSUME NEW m, Afoot(m)' PROVE Afoot(m)
  BY DEF NothingNew
<1>1. ASSUME NEW s \in StepIds, Receive(w, s) PROVE Afoot(m)
  <2>1. AtBroker(m)' \/ m = Head(queue[s]).msg => AtBroker(m)
    BY <1>1, ReceiveBrings
  <2>2. InRow(m)' => InRow(m)
    BY <1>1 DEF InRow, Receive, outboxVars
  <2>3. \A a \in Apis : AtRequest(a, m)' => AtRequest(a, m)
    BY <1>1 DEF AtRequest, Receive, apiVars
  <2>4. \A v \in Workers : AtSlot(v, m)' => AtSlot(v, m) \/ m = Head(queue[s]).msg
    BY <1>1 DEF AtSlot, Receive, Goto
  <2>. QED BY <2>1, <2>2, <2>3, <2>4 DEF Afoot
<1>2. CASE Publish(w) \/ PublishFails(w) \/ MarkFails(w)
  <2>1. pc[w] = "publish" /\ ev[w] \in Row
    BY <1>2 DEF Publish, PublishFails, MarkFails, TypeOK, SlotsTypeOK
  <2>2. AtSlot(w, ev[w].msg)
    BY <2>1 DEF AtSlot
  <2>3. AtBroker(m)' => AtBroker(m) \/ m = ev[w].msg
    BY <1>2, <2>1, PublishBrings DEF Publish, PublishFails, MarkFails, brokerVars, AtBroker
  <2>4. InRow(m)' => InRow(m) \/ m = ev[w].msg
    BY <1>2 DEF InRow, Publish, PublishFails, MarkFails, outboxVars
  <2>5. \A a \in Apis : AtRequest(a, m)' => AtRequest(a, m)
    BY <1>2 DEF AtRequest, Publish, PublishFails, MarkFails, apiVars
  <2>6. \A v \in Workers : AtSlot(v, m)' => AtSlot(v, m)
    BY <1>2 DEF AtSlot, Publish, PublishFails, MarkFails, AfterPublish, Goto, Raise
  <2>. QED BY <2>2, <2>3, <2>4, <2>5, <2>6 DEF Afoot
<1>3. CASE Settle(w) \/ WorkerCrash(w)
  <2>1. pc[w] # "idle" /\ held[w] \in Delivery
    BY <1>3 DEF Settle, WorkerCrash, TypeOK, SlotsTypeOK
  <2>2. AtSlot(w, held[w].msg)
    BY <2>1 DEF AtSlot
  <2>3. UNCHANGED delayed /\ (queue' = Requeued(held[w]) \/ UNCHANGED queue)
    BY <1>3 DEF Settle, WorkerCrash
  <2>4. AtBroker(m)' => AtBroker(m) \/ m = held[w].msg
    <3>1. UNCHANGED <<queue, delayed>> => (AtBroker(m)' => AtBroker(m))
      BY DEF AtBroker
    <3>. QED BY <2>1, <2>3, <3>1, RequeueBrings
  <2>5. InRow(m)' => InRow(m)
    BY <1>3 DEF InRow, Settle, WorkerCrash, outboxVars
  <2>6. \A a \in Apis : AtRequest(a, m)' => AtRequest(a, m)
    BY <1>3 DEF AtRequest, Settle, WorkerCrash, apiVars
  <2>7. \A v \in Workers : AtSlot(v, m)' => AtSlot(v, m)
    BY <1>3 DEF AtSlot, Settle, WorkerCrash, ClearSlot, Goto
  <2>. QED BY <2>2, <2>4, <2>5, <2>6, <2>7 DEF Afoot
<1>. QED BY <1>1, <1>2, <1>3 DEF ReceiveAny

\* The requests, the outbox worker, the delay queue and the leases.
LEMMA EnvironmentBrings ==
  ASSUME TypeOK,
         \/ \E a \in Apis : Resume(a) \/ ResumeUnlock(a) \/ ApiPublish(a) \/ ApiCrash(a)
         \/ \E row \in outbox : Relay(row) \/ RelayDuplicate(row)
         \/ DelayElapsed \/ \E s \in StepIds : LeaseExpires(s) \/ LeaseOverrun(s)
  PROVE  NothingNew
<1>. /\ apiPc \in [Apis -> {"idle", "resume_write", "unlock", "publish"}]
     /\ apiEvent \in [Apis -> Row \cup {NoRow}] /\ MessagesTypeOK
  BY DEF TypeOK, ApisTypeOK
<1>. SUFFICES ASSUME NEW m, Afoot(m)' PROVE Afoot(m)
  BY DEF NothingNew
<1>0. UNCHANGED workerVars => \A w \in Workers : AtSlot(w, m)' => AtSlot(w, m)
  BY DEF AtSlot, workerVars
<1>1. ASSUME NEW a \in Apis, Resume(a) \/ ResumeUnlock(a) \/ ApiCrash(a) PROVE Afoot(m)
  <2>1. UNCHANGED workerVars
    BY <1>1 DEF Resume, ResumeUnlock, ApiCrash
  <2>2. \A b \in Apis : AtRequest(b, m)' => AtRequest(b, m)
    BY <1>1 DEF Resume, ResumeUnlock, ApiCrash, AtRequest, ApiGoto
  <2>3. AtBroker(m)' => AtBroker(m)
    BY <1>1 DEF Resume, ResumeUnlock, ApiCrash, AtBroker, brokerVars
  <2>4. InRow(m)' => InRow(m)
    BY <1>1 DEF Resume, ResumeUnlock, ApiCrash, InRow, outboxVars
  <2>. QED BY <1>0, <2>1, <2>2, <2>3, <2>4 DEF Afoot
<1>2. ASSUME NEW a \in Apis, ApiPublish(a) PROVE Afoot(m)
  <2>1. apiPc[a] = "publish" /\ apiEvent[a] \in Row /\ UNCHANGED workerVars
    BY <1>2 DEF ApiPublish, TypeOK, ApisTypeOK
  <2>2. AtRequest(a, apiEvent[a].msg)
    BY <2>1 DEF AtRequest
  <2>3. AtBroker(m)' => AtBroker(m) \/ m = apiEvent[a].msg
    BY <1>2, <2>1, PublishBrings DEF ApiPublish
  <2>4. InRow(m)' => InRow(m)
    BY <1>2 DEF InRow, ApiPublish
  <2>5. \A b \in Apis : AtRequest(b, m)' => AtRequest(b, m)
    BY <1>2 DEF AtRequest, ApiPublish, ApiGoto
  <2>. QED BY <1>0, <2>1, <2>2, <2>3, <2>4, <2>5 DEF Afoot
<1>3. ASSUME NEW row \in outbox, Relay(row) \/ RelayDuplicate(row) PROVE Afoot(m)
  <2>1. row \in Row /\ UNCHANGED <<workerVars, apiVars>> /\ outbox' \subseteq outbox
    BY <1>3 DEF MessagesTypeOK, Relay, RelayDuplicate
  <2>2. InRow(row.msg) /\ (InRow(m)' => InRow(m))
    BY <2>1 DEF InRow
  <2>3. AtBroker(m)' => AtBroker(m) \/ m = row.msg
    BY <1>3, <2>1, PublishBrings DEF Relay, RelayDuplicate
  <2>4. \A b \in Apis : AtRequest(b, m)' => AtRequest(b, m)
    BY <2>1 DEF AtRequest, apiVars
  <2>. QED BY <1>0, <2>1, <2>2, <2>3, <2>4 DEF Afoot
<1>4. CASE DelayElapsed
  <2>1. UNCHANGED <<workerVars, apiVars, outboxVars>>
    BY <1>4 DEF DelayElapsed
  <2>2. AtBroker(m)' => AtBroker(m)
    BY <1>4, DelayBrings
  <2>3. /\ InRow(m)' => InRow(m)
        /\ \A b \in Apis : AtRequest(b, m)' => AtRequest(b, m)
    BY <2>1 DEF InRow, AtRequest, apiVars, outboxVars
  <2>. QED BY <1>0, <2>1, <2>2, <2>3 DEF Afoot
<1>5. ASSUME NEW s \in StepIds, LeaseExpires(s) \/ LeaseOverrun(s) PROVE Afoot(m)
  BY <1>5 DEF LeaseExpires, LeaseOverrun, outboxVars, brokerVars, workerVars, apiVars,
              Afoot, AtBroker, InRow, AtSlot, AtRequest
<1>. QED BY <1>1, <1>2, <1>3, <1>4, <1>5
-----------------------------------------------------------------------------
(* The chain of a task whose slots all work on current messages *)

\* a step completed for the current generation, if a restart would reset it
Done(e) == steps[e] = "success" /\ (e \in RestartedSteps => out[e] = gen)
Before(b, s) == {e \in StepsFrom(b) : Position(e) < Position(s)}

\* What a message relies on: a current one has the steps of its chain before its
\* own done, and a current repair a step that failed, or that another copy repaired.
Grounded(b, m) ==
  /\ m.gen <= gen /\ Chain(m) \in StepsFrom(b)
  /\ m.step = "repair" => m.target \in Producing
  /\ m.gen = gen =>
       /\ \A e \in Before(b, Chain(m)) : Done(e)
       /\ m.step = "repair" => steps[m.target] \in {"failed", "success"}

\* program points between finding a step open and leaving it to a message
Busy == {"step_running_write", "agent", "success_commit", "failure_commit",
         "mark_retrying", "schedule_retry", "schedule_retry_write", "schedule_repair"}
Judging == {"evaluate", "evaluate_write", "verdict", "eval_retry", "eval_reset",
            "finalize", "finalize_write", "finalize_output"}

BeingRepaired(s) ==
  \E m \in Message : Afoot(m) /\ m.gen = gen /\ m.step = "repair" /\ m.target = s

\* Nobody completes or repairs the step a slot is busy with; an evaluation judges
\* the current chain.
Undisturbed(w) ==
  /\ pc[w] \in Busy /\ step(w) \in Workflow =>
       steps[step(w)] # "success" /\ ~BeingRepaired(step(w))
  /\ pc[w] \in {"mark_retrying", "schedule_repair"} /\ step(w) \in Workflow
       /\ Gen(w) = gen => steps[step(w)] = "failed"
  /\ pc[w] = "repair_apply" => step(w) = "repair"
  /\ pc[w] \in Judging =>
       step(w) = "quality_evaluation" /\ Gen(w) = gen /\ Done("quality_evaluation")

\* A success is the success of the whole chain and is not judged again.
Completed(b) ==
  status = "success" =>
    /\ \A e \in StepsFrom(b) : Done(e)
    /\ \A w \in Workers : pc[w] \notin Judging

FirstSteps == StartSteps \cup {WORKFLOW_STEPS[1]}
Begun(b) ==
  /\ b \in FirstSteps
  /\ \A m \in Message : Afoot(m) => Grounded(b, m)
  /\ \A w \in Workers : Undisturbed(w)
  /\ Completed(b)
FreshInv == \E b \in FirstSteps : Begun(b)

\* each step has one slot at work
Exclusive ==
  \A v, w \in Workers :
    v # w /\ pc[v] \in Critical /\ pc[w] \in Critical => step(v) # step(w)

\* Facts about the chain that a task runs through.
LEMMA ChainFacts ==
  ASSUME NEW b \in FirstSteps
  PROVE  /\ b \in Workflow /\ StepsFrom(b) \subseteq Workflow
         /\ "script_generation" \in StepsFrom(b) /\ "quality_evaluation" \in StepsFrom(b)
         /\ Before(b, b) = {} /\ b \in StepsFrom(b)
         /\ StepsFrom(WORKFLOW_STEPS[1]) = Workflow
         /\ RestartedSteps \subseteq StepsFrom(b)
         /\ \A s \in Producing : s \in StepsFrom(b) =>
              /\ NextStep(s) \in StepsFrom(b)
              /\ Before(b, NextStep(s)) \subseteq Before(b, s) \cup {s}
         /\ StepsFrom(b) \subseteq Before(b, "quality_evaluation") \cup {"quality_evaluation"}
         /\ \A e \in Before(b, "script_generation") :
              e \notin RestartedSteps /\ e \in Before(b, "quality_evaluation")
<1>1. WORKFLOW_STEPS[1] \in Workflow /\ Position(WORKFLOW_STEPS[1]) = 1
  <2>1. 1 \in DOMAIN WORKFLOW_STEPS
    BY WorkflowAssumption
  <2>2. WORKFLOW_STEPS[1] \in Workflow
    BY <2>1 DEF Workflow
  <2>. QED BY <2>1, <2>2, PositionType, WorkflowAssumption
<1>2. "script_generation" \in Workflow
  BY StepSets
<1>3. b \in Workflow /\ Position(b) <= Position("script_generation")
  BY <1>1, <1>2, Positions, OrchestratorAssumption DEF FirstSteps
<1>4. \A s \in Workflow : Position(s) \in 1..Len(WORKFLOW_STEPS) /\ Position(s) >= 1
  BY Positions
<1>5. \A s \in Producing :
        /\ s \in Workflow /\ NextStep(s) \in Workflow
        /\ Position(NextStep(s)) = Position(s) + 1
  BY NextStepType DEF Producing
<1>6. /\ "script_generation" \in StepsFrom(b) /\ "quality_evaluation" \in StepsFrom(b)
      /\ Before(b, b) = {} /\ b \in StepsFrom(b)
      /\ StepsFrom(WORKFLOW_STEPS[1]) = Workflow
      /\ RestartedSteps \subseteq StepsFrom(b)
  BY <1>1, <1>2, <1>3, <1>4, Positions DEF StepsFrom, Before, RestartedSteps
<1>7. ASSUME NEW s \in Producing, s \in StepsFrom(b)
      PROVE  /\ NextStep(s) \in StepsFrom(b)
             /\ Before(b, NextStep(s)) \subseteq Before(b, s) \cup {s}
  BY <1>3, <1>4, <1>5, <1>7, Positions DEF StepsFrom, Before
<1>8. StepsFrom(b) \subseteq Before(b, "quality_evaluation") \cup {"quality_evaluation"}
  BY <1>3, <1>4, Positions DEF StepsFrom, Before
<1>9. \A e \in Before(b, "script_generation") :
        e \notin RestartedSteps /\ e \in Before(b, "quality_evaluation")
  BY <1>2, <1>3, <1>4, Positions DEF StepsFrom, Before, RestartedSteps
<1>. QED BY <1>3, <1>6, <1>7, <1>8, <1>9 DEF StepsFrom

\* A slot's own message is afoot.
LEMMA HeldAfoot ==
  ASSUME TypeOK, NEW w \in Workers, pc[w] # "idle"
  PROVE  /\ Afoot(held[w].msg) /\ held[w].msg \in Message
         /\ step(w) # "repair" => Chain(held[w].msg) = step(w)
         /\ step(w) \in Workflow => step(w) # "repair"
<1>1. AtSlot(w, held[w].msg)
  BY DEF AtSlot
<1>. QED BY <1>1, HeldType, WorkflowAssumption DEF Afoot, TypeOK, Chain, step

\* A step that leaves the chain alone and brings no message keeps the invariant, if
\* the slot that takes it stays undisturbed.
LEMMA CarryOn ==
  ASSUME NEW b, Begun(b), UNCHANGED <<steps, out, gen>>, NothingNew,
         status' # "success" \/ UNCHANGED status, NEW w \in Workers,
         \A v \in Workers \ {w} : pc'[v] = pc[v] /\ held'[v] = held[v],
         Undisturbed(w)', pc'[w] \in Judging => pc[w] \in Judging
  PROVE  Begun(b)'
<1>1. \A s : Done(s)' = Done(s)
  BY DEF Done
<1>2. \A m \in Message : Afoot(m)' => Grounded(b, m)'
  BY <1>1 DEF Begun, NothingNew, Grounded
<1>3. \A s : BeingRepaired(s)' => BeingRepaired(s)
  BY DEF BeingRepaired, NothingNew
<1>4. ASSUME NEW v \in Workers \ {w} PROVE Undisturbed(v)'
  <2>1. Undisturbed(v) /\ step(v)' = step(v) /\ Gen(v)' = Gen(v) /\ pc'[v] = pc[v]
    BY <1>4 DEF Begun, step, Gen
  <2>. QED BY <1>1, <1>3, <2>1 DEF Undisturbed
<1>5. Completed(b)'
  BY <1>1 DEF Begun, Completed
<1>. QED BY <1>2, <1>4, <1>5 DEF Begun

\* The same for a step that leaves the slots alone.
LEMMA CarryOnAll ==
  ASSUME NEW b, Begun(b), UNCHANGED <<steps, out, gen, status, pc, held>>, NothingNew
  PROVE  Begun(b)'
<1>1. \A s : Done(s)' = Done(s)
  BY DEF Done
<1>2. \A m \in Message : Afoot(m)' => Grounded(b, m)'
  BY <1>1 DEF Begun, NothingNew, Grounded
<1>3. \A s : BeingRepaired(s)' => BeingRepaired(s)
  BY DEF BeingRepaired, NothingNew
<1>4. ASSUME NEW v \in Workers PROVE Undisturbed(v)'
  <2>1. Undisturbed(v) /\ step(v)' = step(v) /\ Gen(v)' = Gen(v) /\ pc'[v] = pc[v]
    BY <1>4 DEF Begun, step, Gen
  <2>. QED BY <1>1, <1>3, <2>1 DEF Undisturbed
<1>5. Completed(b)'
  BY <1>1 DEF Begun, Completed
<1>. QED BY <1>2, <1>4, <1>5 DEF Begun

\* A slot between two deliveries, or one that is neither busy nor judging,
\* disturbs nobody.
LEMMA QuietSteps ==
  ASSUME TypeOK, NEW b, Begun(b), NEW w \in Workers,
         \/ ReceiveAny(w) \/ Acquire(w) \/ CheckStep(w)
         \/ TaskRunning(w) \/ TaskRunningWrite(w) \/ LateRunning(w) \/ LateRunningWrite(w)
         \/ DeadLetterCommit(w) \/ DeadLetterPublish(w)
         \/ Publish(w) \/ PublishFails(w) \/ MarkFails(w) \/ Release(w) \/ ReleaseFails(w)
         \/ Settle(w) \/ WorkerCrash(w) \/ AcquireFails(w) \/ CallFails(w)
  PROVE  Begun(b)'
<1>. DEFINE Occupied == Busy \cup Judging \cup {"repair_apply"}
<1>. pc \in [Workers -> ProgramPoints] /\ held \in [Workers -> Delivery \cup {NoDelivery}]
  BY DEF TypeOK, SlotsTypeOK
<1>0. ASSUME NothingNew, UNCHANGED <<steps, out, gen>>,
             status' # "success" \/ UNCHANGED status,
             \A v \in Workers \ {w} : pc'[v] = pc[v] /\ held'[v] = held[v],
             pc'[w] \notin Occupied
      PROVE  Begun(b)'
  BY <1>0, CarryOn DEF Undisturbed, Busy
<1>1. CASE ReceiveAny(w)
  BY <1>0, <1>1, SlotBrings
     DEF ReceiveAny, Receive, Goto, Busy, Judging, taskVars, stepVars, history
<1>2. CASE Publish(w) \/ PublishFails(w) \/ MarkFails(w)
  BY <1>0, <1>2, SlotBrings
     DEF Publish, PublishFails, MarkFails, AfterPublish, Goto, Raise, Busy, Judging,
         taskVars, stepVars, history
<1>3. CASE Settle(w) \/ WorkerCrash(w)
  BY <1>0, <1>3, SlotBrings
     DEF Settle, WorkerCrash, ClearSlot, Goto, Busy, Judging, taskVars, stepVars, history
<1>4. CASE Acquire(w) \/ AcquireFails(w) \/ CheckStep(w)
  <2>1. NothingNew
    BY <1>4, InsideBrings
       DEF Acquire, AcquireFails, CheckStep, Goto, outboxVars, brokerVars, apiVars
  <2>. QED BY <1>0, <1>4, <2>1
       DEF Acquire, AcquireFails, CheckStep, Goto, Busy, Judging, taskVars, stepVars, history
<1>5. CASE TaskRunning(w) \/ LateRunning(w)
  <2>1. NothingNew
    BY <1>5, InsideBrings
       DEF TaskRunning, LateRunning, DecideTask, Decide, Raise, Goto, outboxVars,
           brokerVars, apiVars
  <2>. QED BY <1>0, <1>5, <2>1
       DEF TaskRunning, LateRunning, DecideTask, Decide, Raise, Goto, Busy, Judging,
           taskVars, stepVars, history
<1>6. CASE TaskRunningWrite(w) \/ LateRunningWrite(w)
  <2>1. pc[w] # "idle" /\ WriteTask(w, "running", pc'[w]) /\ pc'[w] \in {"step_running", "release"}
    BY <1>6 DEF TaskRunningWrite, LateRunningWrite, WriteTask, Goto
  <2>2. NothingNew
    BY <2>1, InsideBrings DEF WriteTask, Goto, outboxVars, brokerVars, apiVars
  <2>. QED BY <1>0, <2>1, <2>2 DEF WriteTask, Goto, Busy, Judging, stepVars
<1>7. CASE DeadLetterCommit(w) \/ DeadLetterPublish(w)
  <2>1. NothingNew
    BY <1>7, InsideBrings
       DEF DeadLetterCommit, DeadLetterPublish, Goto, outboxVars, brokerVars, apiVars
  <2>. QED BY <1>0, <1>7, <2>1
       DEF DeadLetterCommit, DeadLetterPublish, Goto, Busy, Judging, taskVars, stepVars,
           history
<1>8. CASE Release(w) \/ ReleaseFails(w) \/ CallFails(w)
  <2>1. ASSUME Release(w) \/ ReleaseFails(w) PROVE NothingNew
    BY <2>1, InsideBrings DEF Release, ReleaseFails, Goto, outboxVars, brokerVars, apiVars
  <2>2. ASSUME CallFails(w) PROVE NothingNew
    <3>1. pc[w] # "idle" /\ pc'[w] = "release" /\ ev' = [ev EXCEPT ![w] = NoRow]
      BY <2>2 DEF CallFails, Raise, Goto, Critical
    <3>. QED BY <2>2, <3>1, InsideBrings
             DEF CallFails, Raise, Goto, outboxVars, brokerVars, apiVars
  <2>3. NothingNew
    BY <1>8, <2>1, <2>2
  <2>. QED BY <1>0, <1>8, <2>3
       DEF Release, ReleaseFails, CallFails, Raise, Goto, Busy, Judging, taskVars, stepVars,
           history
<1>. QED BY <1>1, <1>2, <1>3, <1>4, <1>5, <1>6, <1>7, <1>8

\* A slot that finds its step open, runs its agent, or schedules a retry stays
\* undisturbed; so does an evaluation on its way to its verdict.
LEMMA BusySteps ==
  ASSUME TypeOK, NEW b, Begun(b), NEW w \in Workers,
         \/ StepRunning(w) \/ RunAgent(w) \/ MarkRetrying(w) \/ ScheduleRetry(w)
         \/ Evaluate(w) \/ EvaluateWrite(w) \/ Verdict(w) \/ EvalRetry(w) \/ Finalize(w)
  PROVE  Begun(b)'
<1>. /\ pc \in [Workers -> ProgramPoints] /\ held \in [Workers -> Delivery \cup {NoDelivery}]
     /\ res \in [Workers -> Results]
  BY DEF TypeOK, SlotsTypeOK
<1>0. /\ pc[w] # "idle" /\ Undisturbed(w) /\ UNCHANGED <<steps, out, gen, held, outbox, queue,
                                                      delayed, apiPc, apiEvent, ev>>
      /\ \A v \in Workers \ {w} : pc'[v] = pc[v]
      /\ pc'[w] # "publish" /\ (status' # "success" \/ UNCHANGED status)
  <2>1. CASE StepRunning(w) \/ RunAgent(w) \/ ScheduleRetry(w)
    BY <2>1 DEF StepRunning, RunAgent, ScheduleRetry, Decide, Raise, Goto, stepVars,
                taskVars, history, outboxVars, brokerVars, apiVars, Begun
  <2>2. CASE MarkRetrying(w) \/ Verdict(w) \/ EvalRetry(w)
    BY <2>2 DEF MarkRetrying, Verdict, EvalRetry, MarkTaskRetrying, Goto, stepVars,
                taskVars, history, outboxVars, brokerVars, apiVars, Begun
  <2>3. CASE Evaluate(w) \/ Finalize(w)
    BY <2>3 DEF Evaluate, Finalize, DecideTask, Decide, Raise, Goto, stepVars,
                taskVars, history, outboxVars, brokerVars, apiVars, Begun
  <2>4. CASE EvaluateWrite(w)
    BY <2>4 DEF EvaluateWrite, WriteTask, Goto, stepVars, outboxVars, brokerVars, apiVars,
                Begun
  <2>. QED BY <2>1, <2>2, <2>3, <2>4
<1>1. NothingNew
  BY <1>0, InsideBrings
<1>2. /\ \A s : Done(s)' = Done(s)
      /\ \A s : BeingRepaired(s)' => BeingRepaired(s)
      /\ step(w)' = step(w) /\ Gen(w)' = Gen(w)
  BY <1>0, <1>1 DEF Done, BeingRepaired, NothingNew, step, Gen
<1>3. ASSUME pc'[w] \in Busy => pc[w] \in Busy, pc'[w] # "repair_apply",
             pc'[w] = "schedule_repair" => pc[w] = "mark_retrying",
             pc'[w] # "mark_retrying", pc'[w] \in Judging => pc[w] \in Judging
      PROVE  Begun(b)'
  <2>1. Undisturbed(w)'
    BY <1>0, <1>2, <1>3 DEF Undisturbed
  <2>. QED BY <1>0, <1>1, <1>3, <2>1, CarryOn
<1>4. CASE StepRunning(w)
  <2>1. CASE pc'[w] = "release"
    BY <1>3, <2>1 DEF Busy, Judging
  <2>2. CASE pc'[w] \in {"step_running_write", "agent"}
    <3>1. step(w) \in StepIds /\ steps[step(w)] \in StepStatus
      BY <1>4, HeldType DEF TypeOK, TaskTypeOK, StepRunning
    <3>2. steps[step(w)] \notin {"success", "failed"}
      BY <1>4, <2>2, <3>1 DEF StepRunning, Decide, CanTransitionStep, STEP_TRANSITIONS, Raise,
                              Goto
    <3>3. ~BeingRepaired(step(w))
      BY <3>2 DEF BeingRepaired, Begun, Grounded
    <3>4. Undisturbed(w)'
      BY <1>0, <1>2, <2>2, <3>2, <3>3 DEF Undisturbed, Busy, Judging
    <3>. QED BY <1>0, <1>1, <2>2, <3>4, CarryOn DEF Judging
  <2>. QED BY <1>4, <2>1, <2>2 DEF StepRunning, Decide, Raise, Goto
<1>5. CASE RunAgent(w) \/ MarkRetrying(w) \/ ScheduleRetry(w)
  BY <1>3, <1>5 DEF RunAgent, MarkRetrying, ScheduleRetry, Raise, Goto, Busy, Judging
<1>6. CASE Evaluate(w) \/ EvaluateWrite(w) \/ Finalize(w)
  BY <1>3, <1>6 DEF Evaluate, EvaluateWrite, Finalize, WriteTask, DecideTask, Decide, Raise,
                    Goto, Busy, Judging
<1>7. CASE Verdict(w) \/ EvalRetry(w)
  BY <1>3, <1>7 DEF Verdict, EvalRetry, Goto, Busy, Judging
<1>. QED BY <1>4, <1>5, <1>6, <1>7


\* Nothing relies on the step a slot is busy with, and no other slot works on it.
LEMMA BusyFacts ==
  ASSUME TypeOK, NEW b \in FirstSteps, Begun(b), Exclusive, NEW w \in Workers, pc[w] \in Busy
  PROVE  /\ pc[w] # "idle" /\ step(w) \in StepIds
         /\ \A e \in StepsFrom(b) : Done(e) => e # step(w)
         /\ \A m \in Message : Afoot(m) /\ m.gen = gen /\ m.step = "repair" =>
              m.target # step(w)
         /\ \A v \in Workers \ {w} : pc[v] \in Busy \cup Judging => step(v) # step(w)
         /\ step(w) \in StepsFrom(b) => status # "success"
<1>1. pc[w] # "idle" /\ pc[w] \in Critical
  BY DEF Busy, Critical
<1>2. step(w) \in StepIds /\ Undisturbed(w)
  BY <1>1, HeldType DEF TypeOK, Begun
<1>3. StepsFrom(b) \subseteq Workflow
  BY ChainFacts
<1>4. \A e \in StepsFrom(b) : Done(e) => e # step(w)
  BY <1>2, <1>3 DEF Undisturbed, Done
<1>5. \A m \in Message : Afoot(m) /\ m.gen = gen /\ m.step = "repair" => m.target # step(w)
  BY <1>2, StepSets DEF Undisturbed, BeingRepaired, Begun, Grounded
<1>6. \A v \in Workers \ {w} : pc[v] \in Busy \cup Judging => step(v) # step(w)
  BY <1>1 DEF Exclusive, Busy, Judging, Critical
<1>. QED BY <1>1, <1>2, <1>4, <1>5, <1>6 DEF Begun, Completed

\* A slot that marks its own step running, failed or retrying disturbs nobody.
LEMMA OwnStep ==
  ASSUME TypeOK, NEW b \in FirstSteps, Begun(b), Exclusive, NEW w \in Workers,
         StepRunningWrite(w) \/ FailureCommit(w) \/ ScheduleRetryWrite(w)
  PROVE  Begun(b)'
<1>. /\ pc \in [Workers -> ProgramPoints] /\ held \in [Workers -> Delivery \cup {NoDelivery}]
     /\ steps \in [StepIds -> StepStatus] /\ ev \in [Workers -> Row \cup {NoRow}]
  BY DEF TypeOK, TaskTypeOK, SlotsTypeOK
<1>1. /\ pc[w] \in Busy /\ UNCHANGED <<out, gen, held, status>>
      /\ \A v \in Workers \ {w} : pc'[v] = pc[v]
  BY DEF StepRunningWrite, FailureCommit, ScheduleRetryWrite, Goto, Busy, taskVars, history
<1>2. PICK st \in {"running", "failed", "retrying"} :
        /\ steps' = [steps EXCEPT ![step(w)] = st]
        /\ \/ pc'[w] \in {"agent", "publish"}
           \/ pc'[w] = "mark_retrying" /\ st = "failed"
  BY DEF StepRunningWrite, FailureCommit, ScheduleRetryWrite, Goto
<1>3. NothingNew
  <2>1. CASE StepRunningWrite(w) \/ FailureCommit(w)
    BY <2>1, InsideBrings
       DEF StepRunningWrite, FailureCommit, Goto, outboxVars, brokerVars, apiVars
  <2>2. CASE ScheduleRetryWrite(w)
    <3>. DEFINE row == NewRow(held[w].msg, ComputeRetryDelay(rc[w] - 1) > 0)
    <3>1. /\ pc[w] # "idle" /\ EnqueueStepEvent(row) /\ ev'[w] = row
          /\ \A v \in Workers \ {w} : ev'[v] = ev[v]
          /\ UNCHANGED <<queue, delayed, apiPc, apiEvent>>
      BY <2>2 DEF ScheduleRetryWrite, brokerVars, apiVars
    <3>2. row.msg = held[w].msg
      BY DEF NewRow
    <3>. HIDE DEF row
    <3>3. OnlyNew(held[w].msg)
      BY <1>1, <3>1, <3>2, EnqueueBrings
    <3>. QED BY <3>1, <3>3, HeldAfoot DEF OnlyNew, NothingNew
  <2>. QED BY <2>1, <2>2
<1>4. /\ step(w) \in StepIds
      /\ \A v \in Workers : step(v)' = step(v) /\ Gen(v)' = Gen(v)
      /\ \A e \in StepIds \ {step(w)} : steps'[e] = steps[e]
      /\ steps'[step(w)] = st
  BY <1>1, <1>2, BusyFacts DEF step, Gen
<1>5. \A e \in StepIds : Done(e) /\ e # step(w) => Done(e)'
  BY <1>1, <1>4 DEF Done
<1>6. \A s : BeingRepaired(s)' => BeingRepaired(s)
  BY <1>1, <1>3 DEF BeingRepaired, NothingNew
<1>7. ASSUME NEW m \in Message, Afoot(m)' PROVE Grounded(b, m)'
  <2>1. Afoot(m) /\ Grounded(b, m)
    BY <1>3, <1>7 DEF NothingNew, Begun
  <2>2. m.gen = gen => \A e \in Before(b, Chain(m)) : Done(e)'
    BY <1>1, <1>5, <2>1, BusyFacts, ChainFacts, StepSets DEF Grounded, Before
  <2>3. m.gen = gen /\ m.step = "repair" => steps'[m.target] \in {"failed", "success"}
    BY <1>1, <1>4, <2>1, BusyFacts, StepSets DEF Grounded
  <2>. QED BY <1>1, <2>1, <2>2, <2>3 DEF Grounded
<1>8. ASSUME NEW v \in Workers \ {w} PROVE Undisturbed(v)'
  <2>1. Undisturbed(v) /\ pc'[v] = pc[v]
    BY <1>1 DEF Begun
  <2>2. pc[v] \in Busy \cup Judging => step(v) # step(w)
    BY <1>1, BusyFacts
  <2>3. "quality_evaluation" \in StepIds /\ Workflow \subseteq StepIds
    BY Positions, StepSets
  <2>. QED BY <1>1, <1>4, <1>5, <1>6, <2>1, <2>2, <2>3 DEF Undisturbed, Busy
<1>9. Undisturbed(w)'
  <2>1. step(w) \in Workflow => ~BeingRepaired(step(w))
    BY <1>1 DEF Begun, Undisturbed
  <2>. QED BY <1>2, <1>4, <1>6, <2>1 DEF Undisturbed, Busy, Judging
<1>10. Completed(b)'
  <2>1. status' = "success" => step(w) \notin StepsFrom(b)
    BY <1>1, BusyFacts
  <2>2. status' = "success" => \A e \in StepsFrom(b) : Done(e)'
    BY <1>1, <1>5, <2>1, ChainFacts, StepSets DEF Begun, Completed
  <2>3. pc'[w] \notin Judging
    BY <1>2 DEF Judging
  <2>. QED BY <1>1, <2>2, <2>3 DEF Begun, Completed
<1>. QED BY <1>7, <1>8, <1>9, <1>10 DEF Begun


\* A step that succeeds on a current message completes it for everybody.
LEMMA SuccessStep ==
  ASSUME TypeOK, NEW b \in FirstSteps, Begun(b), Exclusive, FreshWork, NEW w \in Workers,
         SuccessCommit(w)
  PROVE  Begun(b)'
<1>0. PICK n : n = Msg(NextStep(step(w)), held[w].msg.target, Gen(w))
  OBVIOUS
<1>. /\ pc \in [Workers -> ProgramPoints] /\ held \in [Workers -> Delivery \cup {NoDelivery}]
     /\ steps \in [StepIds -> StepStatus] /\ ev \in [Workers -> Row \cup {NoRow}]
     /\ out \in [StepIds -> Nat]
  BY DEF TypeOK, TaskTypeOK, SlotsTypeOK
<1>1. /\ pc[w] \in Busy /\ pc[w] # "idle" /\ UNCHANGED <<gen, held, status>>
      /\ \A v \in Workers \ {w} : pc'[v] = pc[v]
      /\ Gen(w) = gen
  BY DEF SuccessCommit, Goto, Busy, taskVars, history, FreshWork
<1>2. /\ step(w) \in StepIds
      /\ steps' = [steps EXCEPT ![step(w)] = "success"] /\ out' = [out EXCEPT ![step(w)] = gen]
      /\ \A v \in Workers : step(v)' = step(v) /\ Gen(v)' = Gen(v)
  BY <1>1, BusyFacts DEF SuccessCommit, step, Gen
<1>3. /\ steps'[step(w)] = "success" /\ out'[step(w)] = gen
      /\ \A e \in StepIds \ {step(w)} : steps'[e] = steps[e] /\ out'[e] = out[e]
  BY <1>2
<1>4. \A e \in StepIds : Done(e) \/ e = step(w) => Done(e)'
  BY <1>1, <1>2, <1>3 DEF Done
<1>5. \A m : Afoot(m)' => Afoot(m) \/ (step(w) \in Producing /\ m = n)
  <2>1. CASE step(w) \in Producing
    <3>. DEFINE row == NewRow(n, FALSE)
    <3>1. /\ EnqueueStepEvent(row) /\ ev'[w] = row
          /\ \A v \in Workers \ {w} : ev'[v] = ev[v]
          /\ UNCHANGED <<queue, delayed, apiPc, apiEvent>>
      BY <1>0, <2>1 DEF SuccessCommit, brokerVars, apiVars
    <3>2. row.msg = n
      BY DEF NewRow
    <3>. HIDE DEF row
    <3>3. OnlyNew(n)
      BY <1>1, <3>1, <3>2, EnqueueBrings
    <3>. QED BY <2>1, <3>3 DEF OnlyNew
  <2>2. CASE step(w) \notin Producing
    <3>1. NothingNew
      BY <1>1, <2>2, InsideBrings
         DEF SuccessCommit, Goto, outboxVars, brokerVars, apiVars
    <3>. QED BY <3>1 DEF NothingNew
  <2>. QED BY <2>1, <2>2
<1>6. held[w].msg \in Message /\ Grounded(b, held[w].msg)
  BY <1>1, HeldAfoot DEF Begun
<1>7. step(w) \in Producing =>
        /\ Grounded(b, n)' /\ n.step # "repair"
  <2>. SUFFICES ASSUME step(w) \in Producing PROVE Grounded(b, n)' /\ n.step # "repair"
    OBVIOUS
  <2>1. /\ n.step = NextStep(step(w)) /\ n.gen = gen /\ n.step \in Workflow
        /\ n.step # "repair" /\ Chain(n) = NextStep(step(w))
    BY <1>0, <1>1, NextStepType, WorkflowAssumption DEF Msg, Chain
  <2>2. Chain(held[w].msg) = step(w) /\ step(w) \in StepsFrom(b) /\ held[w].msg.gen = gen
    BY <1>1, <1>6, HeldAfoot, StepSets DEF Grounded, Gen
  <2>3. /\ Chain(n) \in StepsFrom(b)
        /\ Before(b, Chain(n)) \subseteq Before(b, step(w)) \cup {step(w)}
    BY <2>1, <2>2, ChainFacts
  <2>4. \A e \in Before(b, step(w)) : Done(e)'
    BY <1>4, <1>6, <2>2, ChainFacts, StepSets DEF Grounded, Before
  <2>5. gen \in Nat
    BY DEF TypeOK, HistoryTypeOK
  <2>6. \A e \in Before(b, Chain(n)) : Done(e)'
    BY <1>2, <1>4, <2>3, <2>4
  <2>. QED BY <1>1, <2>1, <2>3, <2>5, <2>6 DEF Grounded
<1>8. \A s : BeingRepaired(s)' => BeingRepaired(s)
  BY <1>1, <1>5, <1>7 DEF BeingRepaired
<1>9. ASSUME NEW m \in Message, Afoot(m)' PROVE Grounded(b, m)'
  <2>1. CASE step(w) \in Producing /\ m = n
    BY <1>7, <2>1
  <2>2. CASE Afoot(m)
    <3>1. Grounded(b, m)
      BY <2>2 DEF Begun
    <3>2. m.gen = gen => \A e \in Before(b, Chain(m)) : Done(e)'
      BY <1>1, <1>4, <3>1, ChainFacts, StepSets DEF Grounded, Before
    <3>3. m.gen = gen /\ m.step = "repair" => steps'[m.target] \in {"failed", "success"}
      BY <1>3, <3>1, StepSets DEF Grounded
    <3>. QED BY <1>1, <3>1, <3>2, <3>3 DEF Grounded
  <2>. QED BY <1>5, <1>9, <2>1, <2>2
<1>10. ASSUME NEW v \in Workers \ {w} PROVE Undisturbed(v)'
  <2>1. Undisturbed(v) /\ pc'[v] = pc[v]
    BY <1>1 DEF Begun
  <2>2. pc[v] \in Busy \cup Judging => step(v) # step(w)
    BY <1>1, BusyFacts
  <2>3. "quality_evaluation" \in StepIds /\ Workflow \subseteq StepIds
    BY Positions, StepSets
  <2>. QED BY <1>1, <1>2, <1>3, <1>4, <1>8, <2>1, <2>2, <2>3 DEF Undisturbed, Busy
<1>11. /\ step(w) \in Producing => pc'[w] = "publish"
       /\ step(w) = "repair" => pc'[w] = "repair_apply"
       /\ step(w) = "quality_evaluation" => pc'[w] = "evaluate"
       /\ step(w) \in Producing \/ step(w) = "repair" \/ step(w) = "quality_evaluation"
  <2>1. \/ step(w) \in Producing /\ pc'[w] = "publish"
        \/ step(w) \notin Producing /\ pc'[w] = IF step(w) = "repair" THEN "repair_apply"
                                               ELSE "evaluate"
    BY DEF SuccessCommit, Goto
  <2>2. step(w) = "repair" \/ step(w) \in Workflow
    BY <1>2 DEF StepIds
  <2>. QED BY <2>1, <2>2, WorkflowAssumption DEF Producing
<1>12. Undisturbed(w)'
  BY <1>1, <1>2, <1>4, <1>11, Positions, StepSets DEF Undisturbed, Busy, Judging
<1>13. Completed(b)'
  <2>1. step(w) \in Workflow => step(w) \in StepsFrom(b)
    BY <1>1, <1>6, HeldAfoot DEF Grounded
  <2>2. status = "success" => step(w) = "repair"
    BY <1>1, <1>2, <2>1, BusyFacts DEF StepIds
  <2>3. pc'[w] \in Judging => step(w) # "repair"
    BY <1>11 DEF Judging
  <2>4. status' = "success" => \A e \in StepsFrom(b) : Done(e)'
    BY <1>1, <1>4, ChainFacts, StepSets DEF Begun, Completed
  <2>. QED BY <1>1, <2>2, <2>3, <2>4 DEF Begun, Completed
<1>. QED BY <1>9, <1>10, <1>12, <1>13 DEF Begun

\* A repair is asked for a step that failed for the current history.
LEMMA RepairAsked ==
  ASSUME TypeOK, NEW b \in FirstSteps, Begun(b), Exclusive, NEW w \in Workers,
         ScheduleRepair(w)
  PROVE  Begun(b)'
<1>0. PICK n : n = Msg("repair", step(w), Gen(w))
  OBVIOUS
<1>. DEFINE row == NewRow(n, FALSE)
<1>. /\ pc \in [Workers -> ProgramPoints] /\ held \in [Workers -> Delivery \cup {NoDelivery}]
     /\ steps \in [StepIds -> StepStatus] /\ ev \in [Workers -> Row \cup {NoRow}]
     /\ out \in [StepIds -> Nat] /\ gen \in Nat
  BY DEF TypeOK, TaskTypeOK, SlotsTypeOK, HistoryTypeOK
<1>1. /\ pc[w] = "schedule_repair" /\ UNCHANGED <<gen, held, status>>
      /\ pc[w] # "idle" /\ pc[w] \in Busy
      /\ \A v \in Workers \ {w} : pc'[v] = pc[v]
      /\ pc'[w] = "publish" /\ step(w) \in Producing
  BY DEF ScheduleRepair, Goto, Busy, taskVars, history, TypeOK, SlotsTypeOK
<1>2. /\ \A e \in Workflow : steps'[e] = steps[e] /\ out'[e] = out[e]
      /\ \A v \in Workers : step(v)' = step(v) /\ Gen(v)' = Gen(v)
  BY <1>1, StepSets, WorkflowAssumption DEF ScheduleRepair, ClearSteps, step, Gen
<1>3. \A e \in Workflow : Done(e)' = Done(e)
  BY <1>1, <1>2 DEF Done
<1>4. OnlyNew(n)
  <2>1. /\ EnqueueStepEvent(row) /\ ev'[w] = row
        /\ \A v \in Workers \ {w} : ev'[v] = ev[v]
        /\ UNCHANGED <<queue, delayed, apiPc, apiEvent>>
    BY <1>0 DEF ScheduleRepair, brokerVars, apiVars
  <2>2. row.msg = n
    BY DEF NewRow
  <2>. HIDE DEF row
  <2>. QED BY <1>1, <2>1, <2>2, EnqueueBrings
<1>5. Undisturbed(w) /\ Grounded(b, held[w].msg) /\ Chain(held[w].msg) = step(w)
      /\ held[w].msg.gen = Gen(w)
  BY <1>1, HeldAfoot, StepSets DEF Begun, Gen
<1>6. /\ n.step = "repair" /\ n.target = step(w) /\ n.gen = Gen(w) /\ Chain(n) = step(w)
  BY <1>0 DEF Msg, Chain
<1>. HIDE DEF row
<1>7. Grounded(b, n)'
  BY <1>1, <1>2, <1>3, <1>5, <1>6, ChainFacts, StepSets DEF Grounded, Undisturbed, Before
<1>8. ASSUME NEW m \in Message, Afoot(m)' PROVE Grounded(b, m)'
  <2>1. CASE Afoot(m)
    BY <1>1, <1>2, <1>3, <2>1, ChainFacts, StepSets DEF Grounded, Begun, Before
  <2>. QED BY <1>4, <1>7, <1>8, <2>1 DEF OnlyNew
<1>9. \A s : BeingRepaired(s)' => BeingRepaired(s) \/ s = step(w)
  BY <1>1, <1>4, <1>6 DEF BeingRepaired, OnlyNew
<1>10. ASSUME NEW v \in Workers \ {w} PROVE Undisturbed(v)'
  <2>1. Undisturbed(v) /\ pc'[v] = pc[v]
    BY <1>1 DEF Begun
  <2>2. pc[v] \in Busy => step(v) # step(w)
    BY <1>1, BusyFacts
  <2>3. "quality_evaluation" \in Workflow
    BY Positions
  <2>. QED BY <1>1, <1>2, <1>3, <1>9, <2>1, <2>2, <2>3 DEF Undisturbed, Busy
<1>11. Undisturbed(w)'
  BY <1>1 DEF Undisturbed, Busy, Judging
<1>12. Completed(b)'
  BY <1>1, <1>3, ChainFacts DEF Begun, Completed, Judging
<1>. QED BY <1>8, <1>10, <1>11, <1>12 DEF Begun


\* The steps before a step of the chain.
LEMMA BeforeFacts ==
  ASSUME NEW b \in FirstSteps, NEW s \in Workflow, NEW e \in Before(b, s)
  PROVE  /\ e \in Workflow /\ e # s /\ e \notin StepsFrom(s)
         /\ Before(b, e) \subseteq Before(b, s)
<1>1. e \in Workflow /\ e \in StepsFrom(b) /\ Position(e) < Position(s)
  BY ChainFacts DEF Before
<1>2. Position(e) \in Nat /\ Position(s) \in Nat
  BY <1>1, Positions
<1>3. e # s /\ e \notin StepsFrom(s)
  BY <1>1, <1>2 DEF StepsFrom
<1>4. ASSUME NEW f \in Before(b, e) PROVE f \in Before(b, s)
  <2>1. f \in StepsFrom(b) /\ f \in Workflow /\ Position(f) < Position(e)
    BY ChainFacts DEF Before
  <2>2. Position(f) \in Nat
    BY <2>1, Positions
  <2>. QED BY <1>1, <1>2, <2>1, <2>2 DEF Before
<1>. QED BY <1>1, <1>3, <1>4

\* A repair that succeeds on a current message of a failed step: nobody relies on
\* the step it completes, nor on the steps it reopens.
LEMMA RepairDone ==
  ASSUME TypeOK, NEW b \in FirstSteps, Begun(b), Exclusive, FreshWork, NEW w \in Workers,
         RepairApply(w)
  PROVE  Begun(b)'
<1>0. PICK t, n : t = held[w].msg.target /\ n = Msg(NextStep(t), NoStep, Gen(w))
  OBVIOUS
<1>. /\ pc \in [Workers -> ProgramPoints] /\ held \in [Workers -> Delivery \cup {NoDelivery}]
     /\ steps \in [StepIds -> StepStatus] /\ ev \in [Workers -> Row \cup {NoRow}]
     /\ out \in [StepIds -> Nat] /\ gen \in Nat
  BY DEF TypeOK, TaskTypeOK, SlotsTypeOK, HistoryTypeOK
<1>1. /\ pc[w] = "repair_apply" /\ pc[w] # "idle" /\ UNCHANGED <<gen, held, status>>
      /\ \A v \in Workers \ {w} : pc'[v] = pc[v]
      /\ pc'[w] \in {"publish", "release"}
      /\ \A v \in Workers : step(v)' = step(v) /\ Gen(v)' = Gen(v)
  BY DEF RepairApply, Goto, Raise, taskVars, history, step, Gen
<1>2. step(w) = "repair" /\ Gen(w) = gen /\ steps[t] = "failed"
  BY <1>0, <1>1 DEF Begun, Undisturbed, FreshWork
<1>3. held[w].msg \in Message /\ Afoot(held[w].msg) /\ Grounded(b, held[w].msg)
  BY <1>1, HeldAfoot DEF Begun
<1>4. t \in Producing /\ t \in StepsFrom(b) /\ (\A e \in Before(b, t) : Done(e)) /\ t # "repair"
      /\ BeingRepaired(t)
  BY <1>0, <1>1, <1>2, <1>3, WorkflowAssumption
     DEF Grounded, Chain, step, Gen, Producing, BeingRepaired
<1>. DEFINE downstream == StepsFrom(t) \ {t}
            row == NewRow(n, FALSE)
<1>5. /\ \A e \in StepIds : steps'[e] = IF e = t THEN "success"
                                ELSE IF e \in downstream THEN "pending" ELSE steps[e]
      /\ \A e \in StepIds : out'[e] = IF e = t THEN gen
                                ELSE IF e \in downstream THEN 0 ELSE out[e]
      /\ EnqueueStepEvent(row) /\ ev'[w] = row
      /\ \A v \in Workers \ {w} : ev'[v] = ev[v]
      /\ UNCHANGED <<queue, delayed, apiPc, apiEvent>>
  BY <1>0, <1>2, <1>4 DEF RepairApply, brokerVars, apiVars
<1>6. OnlyNew(n)
  <2>1. row.msg = n
    BY DEF NewRow
  <2>. HIDE DEF row
  <2>. QED BY <1>1, <1>5, <2>1, EnqueueBrings
<1>7. t \in StepIds /\ steps'[t] = "success" /\ out'[t] = gen
  BY <1>4, <1>5, StepSets
<1>8. \A e \in StepIds \ {t} : e \notin StepsFrom(t) => steps'[e] = steps[e] /\ out'[e] = out[e]
  BY <1>5
<1>9. \A e \in StepsFrom(t) \ {t} : e \in StepIds => steps'[e] = "pending"
  BY <1>5
<1>. HIDE DEF downstream, row
<1>10. ~Done(t)
  BY <1>2 DEF Done
<1>11. \A e \in Before(b, t) : Done(e)'
  <2>1. \A e \in Before(b, t) : e \in StepIds \ {t} /\ e \notin StepsFrom(t)
    BY <1>4, BeforeFacts, StepSets
  <2>. QED BY <1>1, <1>4, <1>8, <2>1 DEF Done
<1>12. Done(t)'
  <2>1. \A e : e = t => Done(e)'
    BY <1>1, <1>7 DEF Done
  <2>. QED BY <2>1
<1>13. Grounded(b, n)' /\ n.step # "repair"
  <2>1. /\ n.step = NextStep(t) /\ n.gen = gen /\ n.step # "repair" /\ Chain(n) = NextStep(t)
    BY <1>0, <1>2, <1>4, NextStepType, WorkflowAssumption DEF Msg, Chain
  <2>2. Chain(n) \in StepsFrom(b) /\ Before(b, Chain(n)) \subseteq Before(b, t) \cup {t}
    BY <1>4, <2>1, ChainFacts
  <2>3. \A e \in Before(b, Chain(n)) : Done(e)'
    BY <1>11, <1>12, <2>2
  <2>. QED BY <1>1, <2>1, <2>2, <2>3 DEF Grounded
\* a current message is about the failed step or one before it
<1>14. ASSUME NEW m \in Message, Afoot(m), m.gen = gen
       PROVE  Chain(m) = t \/ Chain(m) \in Before(b, t)
  <2>1. Chain(m) \in StepsFrom(b) /\ \A e \in Before(b, Chain(m)) : Done(e)
    BY <1>14 DEF Begun, Grounded
  <2>2. t \notin Before(b, Chain(m)) /\ Chain(m) \in Workflow /\ t \in Workflow
    BY <1>4, <1>10, <2>1, ChainFacts, StepSets
  <2>3. /\ ~(Position(t) < Position(Chain(m)))
        /\ Position(t) \in Nat /\ Position(Chain(m)) \in Nat
    BY <1>4, <2>2, Positions DEF Before
  <2>4. Position(Chain(m)) = Position(t) => Chain(m) = t
    BY <2>2, Positions
  <2>. QED BY <2>1, <2>3, <2>4 DEF Before
<1>15. ASSUME NEW m \in Message, Afoot(m)' PROVE Grounded(b, m)'
  <2>1. CASE Afoot(m) /\ m.gen = gen
    <3>1. Chain(m) = t \/ Chain(m) \in Before(b, t)
      BY <1>14, <2>1
    <3>2. \A e \in Before(b, Chain(m)) : e \in Before(b, t)
      BY <3>1, <1>4, BeforeFacts, StepSets
    <3>3. m.step = "repair" => m.target \in {t} \cup Before(b, t)
      BY <3>1 DEF Chain
    <3>4. m.step = "repair" => steps'[m.target] = "success"
      BY <1>7, <1>11, <3>3 DEF Done
    <3>. QED BY <1>1, <1>11, <2>1, <3>2, <3>4 DEF Begun, Grounded
  <2>2. CASE Afoot(m) /\ m.gen # gen
    BY <1>1, <2>2 DEF Begun, Grounded
  <2>. QED BY <1>6, <1>13, <1>15, <2>1, <2>2 DEF OnlyNew
<1>16. \A s : BeingRepaired(s)' => BeingRepaired(s)
  BY <1>1, <1>6, <1>13 DEF BeingRepaired, OnlyNew
<1>17. ASSUME NEW v \in Workers \ {w} PROVE Undisturbed(v)' /\ pc'[v] \notin Judging
  <2>1. Undisturbed(v) /\ pc'[v] = pc[v]
    BY <1>1 DEF Begun
  <2>2. ASSUME pc[v] # "idle", Gen(v) = gen, step(v) # "repair"
        PROVE  step(v) = t \/ step(v) \in Before(b, t)
    BY <1>14, <2>2, HeldAfoot DEF Gen
  <2>3. pc[v] \notin Judging
    <3>. SUFFICES ASSUME pc[v] \in Judging PROVE FALSE
      OBVIOUS
    <3>1. step(v) = "quality_evaluation" /\ Gen(v) = gen /\ pc[v] # "idle" /\ step(v) # "repair"
      BY <2>1 DEF Undisturbed, Judging
    <3>2. step(v) = t \/ step(v) \in Before(b, t)
      BY <2>2, <3>1
    <3>. QED BY <1>4, <3>1, <3>2, Positions DEF Before, Producing
  <2>4. pc[v] \in Busy /\ step(v) \in Workflow =>
          steps'[step(v)] # "success" /\ ~BeingRepaired(step(v))'
    <3>1. pc[v] \in Busy /\ step(v) \in Workflow => step(v) # t
      BY <1>4, <2>1 DEF Undisturbed
    <3>2. pc[v] \in Busy /\ step(v) \in Workflow => steps'[step(v)] # "success"
      BY <1>8, <1>9, <2>1, <3>1, StepSets DEF Undisturbed
    <3>. QED BY <1>1, <1>16, <2>1, <3>2 DEF Undisturbed
  <2>5. pc[v] \in {"mark_retrying", "schedule_repair"} /\ step(v) \in Workflow
          /\ Gen(v) = gen => steps'[step(v)] = "failed"
    <3>. SUFFICES ASSUME pc[v] \in {"mark_retrying", "schedule_repair"},
                         step(v) \in Workflow, Gen(v) = gen
                  PROVE  steps'[step(v)] = "failed"
      OBVIOUS
    <3>1. steps[step(v)] = "failed" /\ step(v) # t
      BY <1>4, <2>1 DEF Undisturbed, Busy
    <3>2. step(v) \in Before(b, t)
      BY <2>2, <3>1, WorkflowAssumption
    <3>. QED BY <1>4, <3>1, <3>2 DEF Done
  <2>. QED BY <1>1, <2>1, <2>3, <2>4, <2>5 DEF Undisturbed
<1>18. Undisturbed(w)' /\ pc'[w] \notin Judging
  BY <1>1 DEF Undisturbed, Busy, Judging
<1>19. Completed(b)'
  BY <1>1, <1>4, <1>10 DEF Begun, Completed
<1>. QED BY <1>15, <1>17, <1>18, <1>19 DEF Begun


\* An evaluation under way has the whole chain completed, and is the only one.
LEMMA JudgingFacts ==
  ASSUME TypeOK, NEW b \in FirstSteps, Begun(b), Exclusive, NEW w \in Workers,
         pc[w] \in Judging
  PROVE  /\ pc[w] # "idle" /\ Gen(w) = gen /\ status # "success"
         /\ \A e \in StepsFrom(b) : Done(e)
         /\ \A v \in Workers \ {w} : pc[v] \notin Judging
<1>1. /\ pc[w] # "idle" /\ pc[w] \in Critical /\ step(w) = "quality_evaluation"
      /\ Gen(w) = gen /\ Done("quality_evaluation")
  BY DEF Judging, Critical, Begun, Undisturbed
<1>2. /\ held[w].msg \in Message /\ Grounded(b, held[w].msg)
      /\ Chain(held[w].msg) = "quality_evaluation" /\ held[w].msg.gen = gen
  BY <1>1, HeldAfoot, Positions, WorkflowAssumption DEF Begun, Gen
<1>3. \A e \in StepsFrom(b) : Done(e)
  BY <1>1, <1>2, ChainFacts DEF Grounded
<1>4. \A v \in Workers \ {w} : pc[v] \notin Judging
  BY <1>1 DEF Exclusive, Begun, Undisturbed, Judging, Critical
<1>. QED BY <1>1, <1>3, <1>4 DEF Begun, Completed

\* A passed evaluation finalizes a completed chain.
LEMMA Finished ==
  ASSUME TypeOK, NEW b \in FirstSteps, Begun(b), Exclusive, NEW w \in Workers,
         FinalizeWrite(w)
  PROVE  Begun(b)'
<1>. /\ pc \in [Workers -> ProgramPoints] /\ held \in [Workers -> Delivery \cup {NoDelivery}]
  BY DEF TypeOK, SlotsTypeOK
<1>1. /\ pc[w] \in Judging /\ UNCHANGED <<steps, out, gen, held>> /\ pc'[w] = "release"
      /\ \A v \in Workers \ {w} : pc'[v] = pc[v]
  BY DEF FinalizeWrite, WriteTask, Goto, Judging, stepVars
<1>2. NothingNew
  <2>1. pc[w] # "idle"
    BY <1>1 DEF Judging
  <2>. QED BY <1>1, <2>1, InsideBrings
           DEF FinalizeWrite, WriteTask, outboxVars, brokerVars, apiVars
<1>3. \A s : Done(s)' = Done(s)
  BY <1>1 DEF Done
<1>4. \A m \in Message : Afoot(m)' => Grounded(b, m)'
  BY <1>1, <1>2, <1>3 DEF Begun, NothingNew, Grounded
<1>5. \A s : BeingRepaired(s)' => BeingRepaired(s)
  BY <1>1, <1>2 DEF BeingRepaired, NothingNew
<1>6. ASSUME NEW v \in Workers \ {w} PROVE Undisturbed(v)'
  <2>1. Undisturbed(v) /\ step(v)' = step(v) /\ Gen(v)' = Gen(v) /\ pc'[v] = pc[v]
    BY <1>1, <1>6 DEF Begun, step, Gen
  <2>. QED BY <1>1, <1>3, <1>5, <2>1 DEF Undisturbed
<1>7. Undisturbed(w)'
  BY <1>1 DEF Undisturbed, Busy, Judging
<1>8. Completed(b)'
  <2>1. pc'[w] \notin Judging
    BY <1>1 DEF Judging
  <2>. QED BY <1>1, <1>3, <2>1, JudgingFacts DEF Completed
<1>. QED BY <1>4, <1>6, <1>7, <1>8 DEF Begun

\* A failed evaluation starts the script again: what was under way is of the past.
LEMMA Restarted ==
  ASSUME TypeOK, NEW b \in FirstSteps, Begun(b), Exclusive, NEW w \in Workers, EvalReset(w)
  PROVE  Begun(b)'
<1>0. PICK n : n = Msg("script_generation", NoStep, gen + 1)
  OBVIOUS
<1>. DEFINE row == NewRow(n, FALSE)
<1>. /\ pc \in [Workers -> ProgramPoints] /\ held \in [Workers -> Delivery \cup {NoDelivery}]
     /\ steps \in [StepIds -> StepStatus] /\ ev \in [Workers -> Row \cup {NoRow}]
     /\ out \in [StepIds -> Nat] /\ gen \in Nat
  BY DEF TypeOK, TaskTypeOK, SlotsTypeOK, HistoryTypeOK
<1>1. /\ pc[w] \in Judging /\ pc[w] # "idle" /\ UNCHANGED <<held, status>> /\ gen' = gen + 1
      /\ \A v \in Workers \ {w} : pc'[v] = pc[v]
      /\ pc'[w] = "publish"
      /\ \A v \in Workers : step(v)' = step(v) /\ Gen(v)' = Gen(v)
  BY DEF EvalReset, Goto, Judging, taskVars, step, Gen
<1>2. /\ \A e \in StepIds : steps'[e] = IF e \in RestartedSteps THEN "pending" ELSE steps[e]
      /\ EnqueueStepEvent(row) /\ ev'[w] = row
      /\ \A v \in Workers \ {w} : ev'[v] = ev[v]
      /\ UNCHANGED <<queue, delayed, apiPc, apiEvent>>
  BY <1>0 DEF EvalReset, ClearSteps, RestartedSteps, brokerVars, apiVars
<1>3. OnlyNew(n)
  <2>1. row.msg = n
    BY DEF NewRow
  <2>. HIDE DEF row
  <2>. QED BY <1>1, <1>2, <2>1, EnqueueBrings
<1>. HIDE DEF row
<1>4. /\ n.step = "script_generation" /\ n.gen = gen + 1 /\ n.step # "repair"
      /\ Chain(n) = "script_generation"
  BY <1>0, StepSets, WorkflowAssumption DEF Msg, Chain
<1>5. \A e \in Before(b, "script_generation") : Done(e)'
  <2>. SUFFICES ASSUME NEW e \in Before(b, "script_generation") PROVE Done(e)'
    OBVIOUS
  <2>1. e \notin RestartedSteps /\ e \in StepsFrom(b) /\ e \in StepIds
    BY ChainFacts, StepSets DEF Before
  <2>2. steps[e] = "success"
    BY <1>1, <2>1, JudgingFacts DEF Done
  <2>. QED BY <1>2, <2>1, <2>2 DEF Done
<1>6. ASSUME NEW m \in Message, Afoot(m)' PROVE Grounded(b, m)'
  <2>1. CASE Afoot(m)
    <3>1. Grounded(b, m) /\ m.gen \in Nat
      BY <2>1 DEF Begun, Message
    <3>. QED BY <1>1, <3>1 DEF Grounded
  <2>2. CASE m = n
    BY <1>1, <1>4, <1>5, <2>2, ChainFacts DEF Grounded
  <2>. QED BY <1>3, <1>6, <2>1, <2>2 DEF OnlyNew
<1>7. \A s : ~BeingRepaired(s)'
  <2>1. \A m \in Message : Afoot(m) => m.gen <= gen /\ m.gen \in Nat
    BY DEF Begun, Grounded, Message
  <2>. QED BY <1>1, <1>3, <1>4, <2>1 DEF BeingRepaired, OnlyNew
<1>8. ASSUME NEW v \in Workers \ {w} PROVE Undisturbed(v)' /\ pc'[v] \notin Judging
  <2>1. Undisturbed(v) /\ pc'[v] = pc[v] /\ pc[v] \notin Judging
    BY <1>1, JudgingFacts DEF Begun
  <2>2. pc[v] # "idle" => Gen(v) \in Nat /\ Gen(v) <= gen
    BY HeldAfoot DEF Begun, Grounded, Gen, Message
  <2>3. step(v) \in Workflow => (steps[step(v)] # "success" => steps'[step(v)] # "success")
    BY <1>2, StepSets
  <2>4. pc[v] # "idle" => Gen(v) # gen'
    BY <1>1, <2>2
  <2>. QED BY <1>1, <1>7, <2>1, <2>3, <2>4 DEF Undisturbed, Busy
<1>9. Undisturbed(w)' /\ pc'[w] \notin Judging
  BY <1>1 DEF Undisturbed, Busy, Judging
<1>10. Completed(b)'
  BY <1>1, JudgingFacts DEF Completed
<1>. QED BY <1>6, <1>8, <1>9, <1>10 DEF Begun

\* The requests, save a resume that writes, the outbox worker, the delay queue and
\* the leases.
LEMMA EnvironmentSteps ==
  ASSUME TypeOK, NEW b, Begun(b),
         \/ \E a \in Apis : Resume(a) \/ ResumeUnlock(a) \/ ApiPublish(a) \/ ApiCrash(a)
         \/ \E row \in outbox : Relay(row) \/ RelayDuplicate(row)
         \/ DelayElapsed \/ \E s \in StepIds : LeaseExpires(s) \/ LeaseOverrun(s)
         \/ UNCHANGED vars
  PROVE  Begun(b)'
<1>1. UNCHANGED <<steps, out, gen, status, pc, held>>
  BY DEF Resume, ResumeUnlock, ApiPublish, ApiCrash, Relay, RelayDuplicate, DelayElapsed,
         LeaseExpires, LeaseOverrun, vars, taskVars, stepVars, workerVars, history
<1>2. UNCHANGED vars => NothingNew
  BY DEF vars, outboxVars, brokerVars, workerVars, apiVars, NothingNew, Afoot, AtBroker,
         InRow, AtSlot, AtRequest
<1>3. NothingNew
  BY <1>2, EnvironmentBrings
<1>. QED BY <1>1, <1>3, CarryOnAll

\* The first message relies on nothing.
LEMMA FreshInit == Init => FreshInv
<1>. SUFFICES ASSUME Init PROVE FreshInv
  OBVIOUS
<1>1. PICK b \in StartSteps, a \in Apis :
        LET row == [id |-> 0, msg |-> Msg(b, NoStep, 1), delayed |-> FALSE] IN
        /\ apiEvent = [c \in Apis |-> IF c = a THEN row ELSE NoRow]
        /\ apiPc = [c \in Apis |-> IF c = a THEN "publish" ELSE "idle"]
        /\ outbox = {row}
  BY DEF Init
<1>2. b \in FirstSteps
  BY DEF FirstSteps
<1>3. \A m : Afoot(m) => m = Msg(b, NoStep, 1)
  BY <1>1 DEF Init, Afoot, AtBroker, InRow, AtSlot, AtRequest
<1>4. Grounded(b, Msg(b, NoStep, 1))
  <2>1. b # "repair" /\ Before(b, b) = {} /\ b \in StepsFrom(b) /\ gen = 1
    BY <1>2, ChainFacts, WorkflowAssumption DEF Init
  <2>. QED BY <2>1 DEF Grounded, Msg, Chain
<1>5. (\A w \in Workers : Undisturbed(w)) /\ Completed(b)
  BY DEF Init, Undisturbed, Completed, Busy, Judging
<1>. QED BY <1>2, <1>3, <1>4, <1>5 DEF FreshInv, Begun

\* Faults are only added, so leases that hold now have held before.
LEMMA LeasesHeld ==
  ASSUME TypeOK, [Next]_vars, LeasesHold'
  PROVE  LeasesHold
<1>1. UNCHANGED faults \/ \E k \in FaultKinds : Spend(k)
  <2>1. ASSUME NEW w \in Workers, WorkerStep(w) \/ WorkerFault(w)
        PROVE  UNCHANGED faults \/ \E k \in FaultKinds : Spend(k)
    <3>1. CASE \/ Acquire(w) \/ Release(w) \/ Settle(w) \/ WorkerCrash(w)
               \/ AcquireFails(w)
      BY <3>1, FaultNames DEF Acquire, Release, Settle, WorkerCrash, AcquireFails
    <3>. QED BY <2>1, <3>1, InsideSteps, FaultNames DEF WorkerStep, WorkerFault
  <2>2. ASSUME NEW w \in Workers, ReceiveAny(w) PROVE UNCHANGED faults
    BY <2>2 DEF ReceiveAny, Receive
  <2>3. ASSUME NEW a \in Apis, Resume(a) \/ ApiStep(a) \/ ApiCrash(a)
        PROVE  UNCHANGED faults \/ \E k \in FaultKinds : Spend(k)
    BY <2>3, FaultNames
       DEF Resume, ApiStep, ApiCrash, ResumeWrite, ResumeUnlock, ApiPublish
  <2>4. ASSUME NEW row \in outbox, Relay(row) \/ RelayDuplicate(row)
        PROVE  UNCHANGED faults \/ \E k \in FaultKinds : Spend(k)
    BY <2>4, FaultNames DEF Relay, RelayDuplicate
  <2>5. ASSUME NEW s \in StepIds, LeaseExpires(s) \/ LeaseOverrun(s)
        PROVE  UNCHANGED faults \/ \E k \in FaultKinds : Spend(k)
    BY <2>5, FaultNames DEF LeaseExpires, LeaseOverrun
  <2>6. DelayElapsed \/ UNCHANGED vars => UNCHANGED faults
    BY DEF DelayElapsed, vars
  <2>. QED BY <2>1, <2>2, <2>3, <2>4, <2>5, <2>6 DEF Next
<1>2. \A k \in FaultKinds : Spend(k) => \A j \in FaultKinds : faults'[j] = 0 => faults[j] = 0
  BY SpendKeeps DEF TypeOK
<1>. QED BY <1>1, <1>2, FaultNames DEF LeasesHold

LEMMA FreshNext ==
  TypeOK /\ LeaseInv /\ FreshWork /\ (LeasesHold => FreshInv) /\ [Next]_vars
    => (LeasesHold => FreshInv)'
<1>. SUFFICES ASSUME TypeOK, LeaseInv, FreshWork, LeasesHold => FreshInv, [Next]_vars,
                     LeasesHold'
              PROVE  FreshInv'
  OBVIOUS
<1>1. LeasesHold
  BY LeasesHeld
<1>2. PICK b \in FirstSteps : Begun(b)
  BY <1>1 DEF FreshInv
<1>3. Exclusive /\ \A a \in Apis : apiPc[a] # "resume_write"
  BY <1>1 DEF LeaseInv, LeasesHold, Exclusive
<1>4. ASSUME NEW w \in Workers, ReceiveAny(w) \/ WorkerStep(w) \/ WorkerFault(w)
      PROVE  Begun(b)'
  BY <1>2, <1>3, <1>4, QuietSteps, BusySteps, OwnStep, SuccessStep, RepairAsked, RepairDone,
     Finished, Restarted
     DEF WorkerStep, WorkerFault
<1>5. \A a \in Apis : ~ResumeWrite(a)
  BY <1>3 DEF ResumeWrite
<1>6. Begun(b)'
  BY <1>2, <1>4, <1>5, EnvironmentSteps DEF Next, ApiStep
<1>. QED BY <1>2, <1>6 DEF FreshInv


\* However many slots overlap, crash, fail and repeat messages: as long as each works
\* on current messages and keeps its leases, a success consists of outputs of the
\* last restart.
THEOREM CurrentResults == Spec => OnlyStaleWorkSpoils
<1>1. FreshInv => ResultsAreCurrent
  <2>. SUFFICES ASSUME NEW b \in FirstSteps, Begun(b) PROVE ResultsAreCurrent
    BY DEF FreshInv
  <2>1. status = "success" => \A e \in RestartedSteps : Done(e)
    BY ChainFacts DEF Begun, Completed
  <2>. QED BY <2>1 DEF ResultsAreCurrent, Done
<1>2. Spec => [](TypeOK /\ LeaseInv)
  BY InitType, NextType, LeaseInit, LeaseNext, PTL DEF Spec
<1>3. Init => (LeasesHold => FreshInv)
  BY FreshInit
<1>. QED BY <1>1, <1>2, <1>3, FreshNext, PTL DEF Spec, OnlyStaleWorkSpoils
=============================================================================
