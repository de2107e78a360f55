------------------------- MODULE OrchestratorProofs -------------------------
(***************************************************************************)
(* Theorems about Orchestrator, for every chain of steps, every set of     *)
(* slots and request handlers and every budget of faults.                  *)
(***************************************************************************)
EXTENDS Orchestrator, TLAPS, SequenceTheorems

-----------------------------------------------------------------------------
(* Operators *)

\* Every step of the chain has its one position (WORKFLOW_STEPS.index).
LEMMA PositionType ==
  ASSUME NEW s \in Workflow
  PROVE  /\ Position(s) \in DOMAIN WORKFLOW_STEPS
         /\ Position(s) \in 1..Len(WORKFLOW_STEPS)
         /\ WORKFLOW_STEPS[Position(s)] = s
BY WorkflowAssumption DEF Position, Workflow

\* next_step_or_done of a step before the evaluation is a later step of the chain.
LEMMA NextStepType ==
  ASSUME NEW s \in Producing
  PROVE  /\ NextStep(s) \in Workflow
         /\ Position(NextStep(s)) = Position(s) + 1
<1>1. s \in Workflow /\ s # "quality_evaluation"
  BY DEF Producing
<1>2. /\ WORKFLOW_STEPS \in Seq(STRING) /\ Len(WORKFLOW_STEPS) \in Nat
      /\ DOMAIN WORKFLOW_STEPS = 1..Len(WORKFLOW_STEPS)
  BY WorkflowAssumption
<1>3. Position(s) # Len(WORKFLOW_STEPS)
  BY <1>1, PositionType, WorkflowAssumption
<1>4. Position(s) + 1 \in DOMAIN WORKFLOW_STEPS
  BY <1>1, <1>2, <1>3, PositionType
<1>5. NextStep(s) \in Workflow
  BY <1>4 DEF NextStep, Workflow
<1>6. Position(NextStep(s)) = Position(s) + 1
  BY <1>4, <1>5, PositionType, WorkflowAssumption DEF NextStep
<1>. QED BY <1>5, <1>6

\* Messages the orchestrator builds, and the rows that carry them.
LEMMA MsgType ==
  ASSUME NEW s \in StepIds, NEW t \in Producing \cup {NoStep}, NEW g \in Nat
  PROVE  Msg(s, t, g) \in Message
BY DEF Msg, Message

LEMMA NewRowType ==
  ASSUME MessagesTypeOK, NEW m \in Message, NEW d \in BOOLEAN
  PROVE  NewRow(m, d) \in Row
BY DEF MessagesTypeOK, NewRow, Row

\* What a slot that is not idle holds.
LEMMA HeldType ==
  ASSUME SlotsTypeOK, NEW w \in Workers, pc[w] # "idle"
  PROVE  /\ held[w] \in Delivery /\ held[w].msg \in Message
         /\ step(w) \in StepIds
         /\ Gen(w) \in Nat
         /\ held[w].msg.target \in Producing \cup {NoStep}
         /\ held[w].redelivered \in BOOLEAN
<1>1. held[w] \in Delivery
  BY DEF SlotsTypeOK
<1>2. held[w].msg \in Message /\ held[w].redelivered \in BOOLEAN
  BY <1>1 DEF Delivery
<1>3. /\ held[w].msg.step \in StepIds /\ held[w].msg.gen \in Nat
      /\ held[w].msg.target \in Producing \cup {NoStep}
  BY <1>2 DEF Message
<1>. QED BY <1>1, <1>2, <1>3 DEF step, Gen

LEMMA StepSets ==
  /\ Workflow \subseteq StepIds /\ Producing \subseteq Workflow /\ "repair" \in StepIds
  /\ \A i \in DOMAIN WORKFLOW_STEPS : WORKFLOW_STEPS[i] \in Workflow
  /\ "script_generation" \in Workflow
BY WorkflowAssumption DEF StepIds, Producing, Workflow
\* Positions are numbers, the evaluation's is the last, and the script comes before.
LEMMA Positions ==
  /\ \A s \in Workflow : Position(s) \in 1..Len(WORKFLOW_STEPS)
  /\ Len(WORKFLOW_STEPS) \in Nat
  /\ \A s, t \in Workflow : Position(s) = Position(t) => s = t
  /\ \A s \in Producing : Position(s) < Len(WORKFLOW_STEPS)
  /\ Position("quality_evaluation") = Len(WORKFLOW_STEPS)
  /\ "quality_evaluation" \in Workflow
<1>1. Len(WORKFLOW_STEPS) \in DOMAIN WORKFLOW_STEPS /\ Len(WORKFLOW_STEPS) \in Nat
  BY WorkflowAssumption
<1>2. "quality_evaluation" \in Workflow
  BY <1>1, WorkflowAssumption DEF Workflow
<1>3. \A s, t \in Workflow : Position(s) = Position(t) => s = t
  BY PositionType
<1>4. Position("quality_evaluation") = Len(WORKFLOW_STEPS)
  BY <1>1, <1>2, PositionType, WorkflowAssumption
<1>. QED BY <1>1, <1>2, <1>3, <1>4, PositionType DEF Producing

\* the step of the chain a message is about
Chain(m) == IF m.step = "repair" THEN m.target ELSE m.step

-----------------------------------------------------------------------------
(* Types *)

\* Publishing a row keeps the broker's types.
LEMMA PublishStepType ==
  ASSUME MessagesTypeOK, NEW row \in Row, PublishStep(row)
  PROVE  /\ queue' \in [StepIds -> Seq(Delivery)] /\ delayed' \in Seq(Message)
         /\ dlq' \subseteq Message
<1>1. row.msg \in Message /\ row.msg.step \in StepIds
  BY DEF Row, Message
<1>2. [msg |-> row.msg, redelivered |-> FALSE] \in Delivery
  BY <1>1 DEF Delivery
<1>3. CASE row.delayed
  <2>1. Append(delayed, row.msg) \in Seq(Message)
    BY <1>1 DEF MessagesTypeOK
  <2>. QED BY <1>3, <2>1 DEF MessagesTypeOK, PublishStep
<1>4. CASE ~row.delayed
  <2> DEFINE d == [msg |-> row.msg, redelivered |-> FALSE]
  <2>1. Append(queue[row.msg.step], d) \in Seq(Delivery)
    BY <1>1, <1>2 DEF MessagesTypeOK
  <2>2. /\ queue' = [queue EXCEPT ![row.msg.step] = Append(@, d)]
        /\ UNCHANGED <<delayed, dlq>>
    BY <1>4 DEF PublishStep
  <2>. HIDE DEF d
  <2>. QED BY <1>1, <2>1, <2>2 DEF MessagesTypeOK
<1>. QED BY <1>3, <1>4

\* A delivery put back at the head of its queue keeps the queues' type.
LEMMA RequeuedType ==
  ASSUME MessagesTypeOK, NEW d \in Delivery
  PROVE  Requeued(d) \in [StepIds -> Seq(Delivery)]
<1>1. [d EXCEPT !.redelivered = TRUE] \in Delivery /\ d.msg.step \in StepIds
  BY DEF Delivery, Message
<1>2. <<[d EXCEPT !.redelivered = TRUE]>> \o queue[d.msg.step] \in Seq(Delivery)
  BY <1>1, ConcatProperties DEF MessagesTypeOK
<1>. QED BY <1>1, <1>2 DEF MessagesTypeOK, Requeued

\* A new event keeps the outbox's type.
LEMMA EnqueueType ==
  ASSUME MessagesTypeOK, NEW row \in Row, EnqueueStepEvent(row), UNCHANGED brokerVars
  PROVE  MessagesTypeOK'
BY DEF MessagesTypeOK, EnqueueStepEvent, brokerVars

\* Variables that a step leaves alone keep their types.
LEMMA UnchangedTypes ==
  /\ TaskTypeOK /\ UNCHANGED <<taskVars, stepVars>> => TaskTypeOK'
  /\ MessagesTypeOK /\ UNCHANGED <<outboxVars, brokerVars>> => MessagesTypeOK'
  /\ SlotsTypeOK /\ UNCHANGED <<lock, workerVars>> => SlotsTypeOK'
  /\ ApisTypeOK /\ UNCHANGED apiVars => ApisTypeOK'
  /\ HistoryTypeOK /\ UNCHANGED <<history, faults>> => HistoryTypeOK'
<1>1. TaskTypeOK /\ UNCHANGED <<taskVars, stepVars>> => TaskTypeOK'
  BY DEF TaskTypeOK, taskVars, stepVars
<1>2. MessagesTypeOK /\ UNCHANGED <<outboxVars, brokerVars>> => MessagesTypeOK'
  BY DEF MessagesTypeOK, outboxVars, brokerVars
<1>3. SlotsTypeOK /\ UNCHANGED <<lock, workerVars>> => SlotsTypeOK'
  BY DEF SlotsTypeOK, step, workerVars
<1>4. ApisTypeOK /\ UNCHANGED apiVars => ApisTypeOK'
  BY DEF ApisTypeOK, apiVars
<1>5. HistoryTypeOK /\ UNCHANGED <<history, faults>> => HistoryTypeOK'
  BY DEF HistoryTypeOK, history
<1>. QED BY <1>1, <1>2, <1>3, <1>4, <1>5

\* From the lease to the agent's result.
LEMMA RunTypes ==
  ASSUME TypeOK, NEW w \in Workers
  PROVE  /\ Acquire(w) => TypeOK'
         /\ CheckStep(w) => TypeOK'
         /\ TaskRunning(w) => TypeOK'
         /\ TaskRunningWrite(w) => TypeOK'
         /\ StepRunning(w) => TypeOK'
         /\ StepRunningWrite(w) => TypeOK'
         /\ RunAgent(w) => TypeOK'
<1>1. ASSUME Acquire(w) PROVE TypeOK'
  <2>1. /\ pc[w] # "idle" /\ held[w] \in Delivery /\ Gen(w) \in Nat
        /\ held[w].msg \in Message /\ step(w) \in StepIds
    BY <1>1, HeldType DEF TypeOK, Acquire
  <2>2. SlotsTypeOK'
    BY <1>1, <2>1 DEF TypeOK, SlotsTypeOK, step, Acquire, Goto, ProgramPoints, Critical
  <2>3. HistoryTypeOK'
    BY <1>1, <2>1 DEF TypeOK, HistoryTypeOK, Acquire, Discard, Causes
  <2>. QED BY <1>1, <2>2, <2>3, UnchangedTypes DEF TypeOK, Acquire
<1>2. ASSUME CheckStep(w) PROVE TypeOK'
  <2>1. /\ pc[w] # "idle" /\ held[w] \in Delivery /\ Gen(w) \in Nat
        /\ held[w].msg \in Message /\ step(w) \in StepIds
    BY <1>2, HeldType DEF TypeOK, CheckStep
  <2>2. SlotsTypeOK'
    BY <1>2, <2>1 DEF TypeOK, SlotsTypeOK, step, CheckStep, Goto, ProgramPoints, Critical
  <2>3. HistoryTypeOK'
    BY <1>2, <2>1 DEF TypeOK, HistoryTypeOK, CheckStep, Discard, Causes
  <2>. QED BY <1>2, <2>2, <2>3, UnchangedTypes DEF TypeOK, CheckStep
<1>3. ASSUME TaskRunning(w) PROVE TypeOK'
  <2>1. SlotsTypeOK'
    BY <1>3 DEF TypeOK, SlotsTypeOK, step, TaskRunning, DecideTask, Decide, Goto, Raise, ProgramPoints, Critical
  <2>. QED BY <1>3, <2>1, UnchangedTypes DEF TypeOK, TaskRunning
<1>4. ASSUME TaskRunningWrite(w) PROVE TypeOK'
  <2>1. TaskTypeOK'
    BY <1>4 DEF TypeOK, TaskTypeOK, TaskRunningWrite, WriteTask, TaskStatus, stepVars
  <2>2. SlotsTypeOK'
    BY <1>4 DEF TypeOK, SlotsTypeOK, step, TaskRunningWrite, WriteTask, Goto, ProgramPoints, Critical
  <2>3. HistoryTypeOK'
    BY <1>4 DEF TypeOK, HistoryTypeOK, TaskRunningWrite, WriteTask
  <2>. QED BY <1>4, <2>1, <2>2, <2>3, UnchangedTypes DEF TypeOK, TaskRunningWrite, WriteTask
<1>5. ASSUME StepRunning(w) PROVE TypeOK'
  <2>1. SlotsTypeOK'
    BY <1>5 DEF TypeOK, SlotsTypeOK, step, StepRunning, Decide, Goto, Raise, ProgramPoints, Critical
  <2>. QED BY <1>5, <2>1, UnchangedTypes DEF TypeOK, StepRunning
<1>6. ASSUME StepRunningWrite(w) PROVE TypeOK'
  <2>1. /\ pc[w] # "idle" /\ held[w] \in Delivery /\ Gen(w) \in Nat
        /\ held[w].msg \in Message /\ step(w) \in StepIds
    BY <1>6, HeldType DEF TypeOK, StepRunningWrite
  <2>2. TaskTypeOK'
    BY <1>6, <2>1 DEF TypeOK, TaskTypeOK, StepRunningWrite, StepStatus, taskVars
  <2>3. SlotsTypeOK'
    BY <1>6, <2>1 DEF TypeOK, SlotsTypeOK, step, StepRunningWrite, Goto, ProgramPoints, Critical
  <2>. QED BY <1>6, <2>2, <2>3, UnchangedTypes DEF TypeOK, StepRunningWrite
<1>7. ASSUME RunAgent(w) PROVE TypeOK'
  <2>1. SlotsTypeOK'
    BY <1>7 DEF TypeOK, SlotsTypeOK, step, RunAgent, Goto, ProgramPoints, Critical, Results
  <2>. QED BY <1>7, <2>1, UnchangedTypes DEF TypeOK, RunAgent
<1>. QED BY <1>1, <1>2, <1>3, <1>4, <1>5, <1>6, <1>7

\* The success of a step, and of a repair.
LEMMA SuccessTypes ==
  ASSUME TypeOK, NEW w \in Workers
  PROVE  /\ SuccessCommit(w) => TypeOK'
         /\ RepairApply(w) => TypeOK'
         /\ LateRunning(w) => TypeOK'
         /\ LateRunningWrite(w) => TypeOK'
<1>1. ASSUME SuccessCommit(w) PROVE TypeOK'
  <2>1. /\ pc[w] # "idle" /\ held[w] \in Delivery /\ Gen(w) \in Nat
        /\ held[w].msg \in Message /\ step(w) \in StepIds
    BY <1>1, HeldType DEF TypeOK, SuccessCommit
  <2>2. step(w) \in Producing => Msg(NextStep(step(w)), held[w].msg.target, Gen(w)) \in Message
    BY <2>1, NextStepType, MsgType, StepSets, HeldType DEF TypeOK
  <2>3. step(w) \in Producing =>
          NewRow(Msg(NextStep(step(w)), held[w].msg.target, Gen(w)), FALSE) \in Row
    BY <2>2, NewRowType DEF TypeOK
  <2>4. TaskTypeOK'
    BY <1>1, <2>1, <2>2, <2>3 DEF TypeOK, TaskTypeOK, SuccessCommit, StepStatus, taskVars
  <2>5. MessagesTypeOK'
    <3>1. CASE step(w) \in Producing
      BY <1>1, <2>3, <3>1, EnqueueType DEF TypeOK, SuccessCommit
    <3>2. CASE step(w) \notin Producing
      BY <1>1, <3>2, UnchangedTypes DEF TypeOK, SuccessCommit
    <3>. QED BY <3>1, <3>2
  <2>6. SlotsTypeOK'
    BY <1>1, <2>1, <2>2, <2>3 DEF TypeOK, SlotsTypeOK, step, SuccessCommit, Goto, ProgramPoints, Critical
  <2>. QED BY <1>1, <2>4, <2>5, <2>6, UnchangedTypes DEF TypeOK, SuccessCommit
<1>2. ASSUME RepairApply(w) PROVE TypeOK'
  <2>1. /\ pc[w] # "idle" /\ held[w] \in Delivery /\ Gen(w) \in Nat
        /\ held[w].msg \in Message /\ step(w) \in StepIds
    BY <1>2, HeldType DEF TypeOK, RepairApply
  <2>2. held[w].msg.target \in Producing =>
          Msg(NextStep(held[w].msg.target), NoStep, Gen(w)) \in Message
    BY <2>1, NextStepType, MsgType, StepSets
  <2>3. held[w].msg.target \in Producing =>
          NewRow(Msg(NextStep(held[w].msg.target), NoStep, Gen(w)), FALSE) \in Row
    BY <2>2, NewRowType DEF TypeOK
  <2>4. TaskTypeOK' /\ MessagesTypeOK'
    <3>1. CASE held[w].msg.target \in Producing
      <4>1. TaskTypeOK'
        BY <1>2, <2>1, <3>1 DEF TypeOK, TaskTypeOK, RepairApply, StepStatus, taskVars
      <4>2. MessagesTypeOK'
        BY <1>2, <2>3, <3>1, EnqueueType DEF TypeOK, RepairApply
      <4>. QED BY <4>1, <4>2
    <3>2. CASE held[w].msg.target \notin Producing
      BY <1>2, <3>2, UnchangedTypes DEF TypeOK, RepairApply
    <3>. QED BY <3>1, <3>2
  <2>6. SlotsTypeOK'
    BY <1>2, <2>1, <2>2, <2>3 DEF TypeOK, SlotsTypeOK, step, RepairApply, Goto, Raise, ProgramPoints, Critical
  <2>. QED BY <1>2, <2>4, <2>6, UnchangedTypes DEF TypeOK, RepairApply
<1>3. ASSUME LateRunning(w) PROVE TypeOK'
  <2>1. SlotsTypeOK'
    BY <1>3 DEF TypeOK, SlotsTypeOK, step, LateRunning, DecideTask, Decide, Goto, Raise, ProgramPoints, Critical
  <2>. QED BY <1>3, <2>1, UnchangedTypes DEF TypeOK, LateRunning
<1>4. ASSUME LateRunningWrite(w) PROVE TypeOK'
  <2>1. TaskTypeOK'
    BY <1>4 DEF TypeOK, TaskTypeOK, LateRunningWrite, WriteTask, TaskStatus, stepVars
  <2>2. SlotsTypeOK'
    BY <1>4 DEF TypeOK, SlotsTypeOK, step, LateRunningWrite, WriteTask, Goto, ProgramPoints, Critical
  <2>3. HistoryTypeOK'
    BY <1>4 DEF TypeOK, HistoryTypeOK, LateRunningWrite, WriteTask
  <2>. QED BY <1>4, <2>1, <2>2, <2>3, UnchangedTypes DEF TypeOK, LateRunningWrite, WriteTask
<1>. QED BY <1>1, <1>2, <1>3, <1>4

\* The failure of a step.
LEMMA FailureTypes ==
  ASSUME TypeOK, NEW w \in Workers
  PROVE  /\ FailureCommit(w) => TypeOK'
         /\ MarkRetrying(w) => TypeOK'
         /\ ScheduleRetry(w) => TypeOK'
         /\ ScheduleRetryWrite(w) => TypeOK'
         /\ ScheduleRepair(w) => TypeOK'
<1>1. ASSUME FailureCommit(w) PROVE TypeOK'
  <2>1. /\ pc[w] # "idle" /\ held[w] \in Delivery /\ Gen(w) \in Nat
        /\ held[w].msg \in Message /\ step(w) \in StepIds
    BY <1>1, HeldType DEF TypeOK, FailureCommit
  <2>2. TaskTypeOK'
    BY <1>1, <2>1 DEF TypeOK, TaskTypeOK, FailureCommit, StepStatus, taskVars
  <2>3. SlotsTypeOK'
    BY <1>1, <2>1 DEF TypeOK, SlotsTypeOK, step, FailureCommit, Goto, ProgramPoints, Critical
  <2>. QED BY <1>1, <2>2, <2>3, UnchangedTypes DEF TypeOK, FailureCommit
<1>2. ASSUME MarkRetrying(w) PROVE TypeOK'
  <2>1. TaskTypeOK'
    BY <1>2 DEF TypeOK, TaskTypeOK, MarkRetrying, MarkTaskRetrying, TaskStatus, stepVars
  <2>2. SlotsTypeOK'
    BY <1>2 DEF TypeOK, SlotsTypeOK, step, MarkRetrying, MarkTaskRetrying, TaskTypeOK, Goto, ProgramPoints, Critical
  <2>. QED BY <1>2, <2>1, <2>2, UnchangedTypes DEF TypeOK, MarkRetrying
<1>3. ASSUME ScheduleRetry(w) PROVE TypeOK'
  <2>1. SlotsTypeOK'
    BY <1>3 DEF TypeOK, SlotsTypeOK, step, ScheduleRetry, Goto, Raise, ProgramPoints, Critical
  <2>. QED BY <1>3, <2>1, UnchangedTypes DEF TypeOK, ScheduleRetry
<1>4. ASSUME ScheduleRetryWrite(w) PROVE TypeOK'
  <2>1. /\ pc[w] # "idle" /\ held[w] \in Delivery /\ Gen(w) \in Nat
        /\ held[w].msg \in Message /\ step(w) \in StepIds
    BY <1>4, HeldType DEF TypeOK, ScheduleRetryWrite
  <2>2. (ComputeRetryDelay(rc[w] - 1) > 0) \in BOOLEAN
    OBVIOUS
  <2>3. NewRow(held[w].msg, ComputeRetryDelay(rc[w] - 1) > 0) \in Row
    BY <2>1, <2>2, NewRowType DEF TypeOK
  <2>4. TaskTypeOK'
    BY <1>4, <2>1, <2>2, <2>3 DEF TypeOK, TaskTypeOK, ScheduleRetryWrite, StepStatus, taskVars
  <2>5. MessagesTypeOK'
    BY <1>4, <2>3, EnqueueType DEF TypeOK, ScheduleRetryWrite
  <2>6. SlotsTypeOK'
    BY <1>4, <2>1, <2>2, <2>3 DEF TypeOK, SlotsTypeOK, step, ScheduleRetryWrite, Goto, ProgramPoints, Critical
  <2>. QED BY <1>4, <2>4, <2>5, <2>6, UnchangedTypes DEF TypeOK, ScheduleRetryWrite
<1>5. ASSUME ScheduleRepair(w) PROVE TypeOK'
  <2>1. /\ pc[w] # "idle" /\ held[w] \in Delivery /\ Gen(w) \in Nat
        /\ held[w].msg \in Message /\ step(w) \in StepIds
    BY <1>5, HeldType DEF TypeOK, ScheduleRepair
  <2>2. NewRow(Msg("repair", step(w), Gen(w)), FALSE) \in Row
    <3>1. step(w) \in Producing
      BY <1>5 DEF TypeOK, SlotsTypeOK, ScheduleRepair
    <3>. QED BY <2>1, <3>1, StepSets, MsgType, NewRowType DEF TypeOK
  <2>3. TaskTypeOK'
    BY <1>5, <2>1, <2>2 DEF TypeOK, TaskTypeOK, ScheduleRepair, ClearSteps, StepStatus, taskVars
  <2>4. MessagesTypeOK'
    BY <1>5, <2>2, EnqueueType DEF TypeOK, ScheduleRepair
  <2>5. SlotsTypeOK'
    BY <1>5, <2>1, <2>2 DEF TypeOK, SlotsTypeOK, step, ScheduleRepair, Goto, ProgramPoints, Critical
  <2>. QED BY <1>5, <2>3, <2>4, <2>5, UnchangedTypes DEF TypeOK, ScheduleRepair
<1>. QED BY <1>1, <1>2, <1>3, <1>4, <1>5

\* The keys a resume deletes, and the step it restarts at.
LEMMA FirstStep ==
  /\ WORKFLOW_STEPS[1] \in StepIds
  /\ Append(WORKFLOW_STEPS, "repair") \in Seq(StepIds)
  /\ Append(WORKFLOW_STEPS, "repair") # <<>>
<1>1. WORKFLOW_STEPS \in Seq(Workflow)
  BY WorkflowAssumption DEF Workflow
<1>2. 1 \in DOMAIN WORKFLOW_STEPS
  BY WorkflowAssumption
<1>. QED BY <1>1, <1>2, StepSets DEF StepIds

\* A fault spends its budget and nothing else of the history.
LEMMA SpendType ==
  ASSUME HistoryTypeOK, NEW k \in FaultKinds, Spend(k), UNCHANGED history
  PROVE  HistoryTypeOK'
BY DEF HistoryTypeOK, Spend, history

\* The dead letter.
LEMMA DeadLetterTypes ==
  ASSUME TypeOK, NEW w \in Workers
  PROVE  /\ DeadLetterCommit(w) => TypeOK'
         /\ DeadLetterPublish(w) => TypeOK'
<1>1. ASSUME DeadLetterCommit(w) PROVE TypeOK'
  <2>1. /\ pc[w] # "idle" /\ held[w] \in Delivery /\ Gen(w) \in Nat
        /\ held[w].msg \in Message /\ step(w) \in StepIds
    BY <1>1, HeldType DEF TypeOK, DeadLetterCommit
  <2>2. TaskTypeOK'
    BY <1>1, <2>1 DEF TypeOK, TaskTypeOK, DeadLetterCommit, TaskStatus, stepVars
  <2>3. SlotsTypeOK'
    BY <1>1, <2>1 DEF TypeOK, SlotsTypeOK, DeadLetterCommit, step, Goto, ProgramPoints, Critical
  <2>4. HistoryTypeOK'
    BY <1>1, <2>1 DEF TypeOK, HistoryTypeOK, DeadLetterCommit
  <2>. QED BY <1>1, <2>2, <2>3, <2>4, UnchangedTypes DEF TypeOK, DeadLetterCommit
<1>2. ASSUME DeadLetterPublish(w) PROVE TypeOK'
  <2>1. /\ pc[w] # "idle" /\ held[w] \in Delivery /\ Gen(w) \in Nat
        /\ held[w].msg \in Message /\ step(w) \in StepIds
    BY <1>2, HeldType DEF TypeOK, DeadLetterPublish
  <2>2. MessagesTypeOK'
    BY <1>2, <2>1 DEF TypeOK, MessagesTypeOK, DeadLetterPublish, outboxVars
  <2>3. SlotsTypeOK'
    BY <1>2, <2>1 DEF TypeOK, SlotsTypeOK, DeadLetterPublish, step, Goto, ProgramPoints, Critical
  <2>. QED BY <1>2, <2>2, <2>3, UnchangedTypes DEF TypeOK, DeadLetterPublish
<1>. QED BY <1>1, <1>2

\* The evaluation's verdict.
LEMMA EvaluationTypes ==
  ASSUME TypeOK, NEW w \in Workers
  PROVE  /\ Evaluate(w) => TypeOK'
         /\ EvaluateWrite(w) => TypeOK'
         /\ Verdict(w) => TypeOK'
         /\ EvalRetry(w) => TypeOK'
         /\ EvalReset(w) => TypeOK'
         /\ Finalize(w) => TypeOK'
         /\ FinalizeWrite(w) => TypeOK'
<1>1. ASSUME Evaluate(w) PROVE TypeOK'
  <2>1. SlotsTypeOK'
    BY <1>1 DEF TypeOK, SlotsTypeOK, Evaluate, step, DecideTask, Decide, Goto, Raise, ProgramPoints, Critical
  <2>. QED BY <1>1, <2>1, UnchangedTypes DEF TypeOK, Evaluate
<1>2. ASSUME EvaluateWrite(w) PROVE TypeOK'
  <2>1. TaskTypeOK'
    BY <1>2 DEF TypeOK, TaskTypeOK, EvaluateWrite, WriteTask, TaskStatus, stepVars
  <2>2. SlotsTypeOK'
    BY <1>2 DEF TypeOK, SlotsTypeOK, EvaluateWrite, step, WriteTask, Goto, ProgramPoints, Critical
  <2>3. HistoryTypeOK'
    BY <1>2 DEF TypeOK, HistoryTypeOK, EvaluateWrite, WriteTask
  <2>. QED BY <1>2, <2>1, <2>2, <2>3, UnchangedTypes DEF TypeOK, EvaluateWrite, WriteTask
<1>3. ASSUME Verdict(w) PROVE TypeOK'
  <2>1. SlotsTypeOK'
    BY <1>3 DEF TypeOK, SlotsTypeOK, Verdict, step, Goto, ProgramPoints, Critical, Results
  <2>. QED BY <1>3, <2>1, UnchangedTypes DEF TypeOK, Verdict
<1>4. ASSUME EvalRetry(w) PROVE TypeOK'
  <2>1. TaskTypeOK'
    BY <1>4 DEF TypeOK, TaskTypeOK, EvalRetry, MarkTaskRetrying, TaskStatus, stepVars
  <2>2. SlotsTypeOK'
    BY <1>4 DEF TypeOK, SlotsTypeOK, EvalRetry, step, TaskTypeOK, MarkTaskRetrying, Results, Goto, ProgramPoints, Critical
  <2>. QED BY <1>4, <2>1, <2>2, UnchangedTypes DEF TypeOK, EvalRetry
<1>5. ASSUME EvalReset(w) PROVE TypeOK'
  <2>1. /\ pc[w] # "idle" /\ held[w] \in Delivery /\ Gen(w) \in Nat
        /\ held[w].msg \in Message /\ step(w) \in StepIds
    BY <1>5, HeldType DEF TypeOK, EvalReset
  <2>2. NewRow(Msg("script_generation", NoStep, gen + 1), FALSE) \in Row
    <3>1. gen + 1 \in Nat /\ "script_generation" \in StepIds
      BY StepSets DEF TypeOK, HistoryTypeOK
    <3>. QED BY <3>1, MsgType, NewRowType DEF TypeOK
  <2>3. TaskTypeOK'
    BY <1>5, <2>1, <2>2 DEF TypeOK, TaskTypeOK, EvalReset, ClearSteps, StepStatus, taskVars
  <2>4. MessagesTypeOK'
    BY <1>5, <2>2, EnqueueType DEF TypeOK, EvalReset
  <2>5. SlotsTypeOK'
    BY <1>5, <2>1, <2>2 DEF TypeOK, SlotsTypeOK, EvalReset, step, Goto, ProgramPoints, Critical
  <2>6. HistoryTypeOK'
    BY <1>5, <2>1, <2>2 DEF TypeOK, HistoryTypeOK, EvalReset
  <2>. QED BY <1>5, <2>3, <2>4, <2>5, <2>6, UnchangedTypes DEF TypeOK, EvalReset
<1>6. ASSUME Finalize(w) PROVE TypeOK'
  <2>1. SlotsTypeOK'
    BY <1>6 DEF TypeOK, SlotsTypeOK, Finalize, step, DecideTask, Decide, Goto, Raise, ProgramPoints, Critical
  <2>. QED BY <1>6, <2>1, UnchangedTypes DEF TypeOK, Finalize
<1>7. ASSUME FinalizeWrite(w) PROVE TypeOK'
  <2>1. /\ pc[w] # "idle" /\ held[w] \in Delivery /\ Gen(w) \in Nat
        /\ held[w].msg \in Message /\ step(w) \in StepIds
    BY <1>7, HeldType DEF TypeOK, FinalizeWrite
  <2>2. TaskTypeOK'
    BY <1>7, <2>1 DEF TypeOK, TaskTypeOK, FinalizeWrite, WriteTask, FinalStatus, TaskStatus, stepVars, StepIds
  <2>3. SlotsTypeOK'
    BY <1>7, <2>1 DEF TypeOK, SlotsTypeOK, FinalizeWrite, step, WriteTask, Goto, ProgramPoints, Critical
  <2>4. HistoryTypeOK'
    BY <1>7, <2>1 DEF TypeOK, HistoryTypeOK, FinalizeWrite, WriteTask
  <2>. QED BY <1>7, <2>2, <2>3, <2>4, UnchangedTypes DEF TypeOK, FinalizeWrite, WriteTask
<1>. QED BY <1>1, <1>2, <1>3, <1>4, <1>5, <1>6, <1>7

\* Publishing, releasing, acknowledging.
LEMMA SettleTypes ==
  ASSUME TypeOK, NEW w \in Workers
  PROVE  /\ Publish(w) => TypeOK'
         /\ PublishFails(w) => TypeOK'
         /\ MarkFails(w) => TypeOK'
         /\ Release(w) => TypeOK'
         /\ ReleaseFails(w) => TypeOK'
         /\ Settle(w) => TypeOK'
         /\ WorkerCrash(w) => TypeOK'
         /\ CallFails(w) => TypeOK'
         /\ AcquireFails(w) => TypeOK'
<1>1. ASSUME Publish(w) PROVE TypeOK'
  <2>1. ev[w] \in Row
    BY <1>1 DEF TypeOK, SlotsTypeOK, Publish
  <2>2. queue' \in [StepIds -> Seq(Delivery)] /\ delayed' \in Seq(Message) /\ dlq' \subseteq Message
    BY <1>1, <2>1, PublishStepType DEF TypeOK, Publish
  <2>3. MessagesTypeOK'
    BY <1>1, <2>1, <2>2 DEF TypeOK, MessagesTypeOK, Publish, outboxVars
  <2>4. SlotsTypeOK'
    BY <1>1, <2>1, <2>2 DEF TypeOK, SlotsTypeOK, Publish, step, AfterPublish, Goto, ProgramPoints, Critical
  <2>. QED BY <1>1, <2>3, <2>4, UnchangedTypes DEF TypeOK, Publish
<1>2. ASSUME PublishFails(w) PROVE TypeOK'
  <2>1. ev[w] \in Row
    BY <1>2 DEF TypeOK, SlotsTypeOK, PublishFails
  <2>2. MessagesTypeOK'
    BY <1>2, <2>1 DEF TypeOK, MessagesTypeOK, PublishFails, brokerVars
  <2>3. SlotsTypeOK'
    BY <1>2, <2>1 DEF TypeOK, SlotsTypeOK, PublishFails, step, AfterPublish, Goto, ProgramPoints, Critical
  <2>4. HistoryTypeOK'
    BY <1>2, SpendType DEF TypeOK, PublishFails, FaultKinds
  <2>. QED BY <1>2, <2>2, <2>3, <2>4, UnchangedTypes DEF TypeOK, PublishFails
<1>3. ASSUME MarkFails(w) PROVE TypeOK'
  <2>1. ev[w] \in Row
    BY <1>3 DEF TypeOK, SlotsTypeOK, MarkFails
  <2>2. queue' \in [StepIds -> Seq(Delivery)] /\ delayed' \in Seq(Message) /\ dlq' \subseteq Message
    BY <1>3, <2>1, PublishStepType DEF TypeOK, MarkFails
  <2>3. MessagesTypeOK'
    BY <1>3, <2>1, <2>2 DEF TypeOK, MessagesTypeOK, MarkFails, outboxVars
  <2>4. SlotsTypeOK'
    BY <1>3, <2>1, <2>2 DEF TypeOK, SlotsTypeOK, MarkFails, step, Goto, Raise, ProgramPoints, Critical
  <2>5. HistoryTypeOK'
    BY <1>3, SpendType DEF TypeOK, MarkFails, FaultKinds
  <2>. QED BY <1>3, <2>3, <2>4, <2>5, UnchangedTypes DEF TypeOK, MarkFails
<1>4. ASSUME Release(w) PROVE TypeOK'
  <2>1. /\ pc[w] # "idle" /\ held[w] \in Delivery /\ Gen(w) \in Nat
        /\ held[w].msg \in Message /\ step(w) \in StepIds
    BY <1>4, HeldType DEF TypeOK, Release
  <2>2. SlotsTypeOK'
    BY <1>4, <2>1 DEF TypeOK, SlotsTypeOK, Release, step, OwnsLease, Goto, ProgramPoints, Critical
  <2>. QED BY <1>4, <2>2, UnchangedTypes DEF TypeOK, Release
<1>5. ASSUME ReleaseFails(w) PROVE TypeOK'
  <2>1. SlotsTypeOK'
    BY <1>5 DEF TypeOK, SlotsTypeOK, ReleaseFails, step, Goto, ProgramPoints, Critical
  <2>2. HistoryTypeOK'
    BY <1>5, SpendType DEF TypeOK, ReleaseFails, FaultKinds
  <2>. QED BY <1>5, <2>1, <2>2, UnchangedTypes DEF TypeOK, ReleaseFails
<1>6. ASSUME Settle(w) PROVE TypeOK'
  <2>1. /\ pc[w] # "idle" /\ held[w] \in Delivery /\ Gen(w) \in Nat
        /\ held[w].msg \in Message /\ step(w) \in StepIds
    BY <1>6, HeldType DEF TypeOK, Settle
  <2>2. Requeued(held[w]) \in [StepIds -> Seq(Delivery)]
    BY <2>1, RequeuedType DEF TypeOK
  <2>3. MessagesTypeOK'
    BY <1>6, <2>1, <2>2 DEF TypeOK, MessagesTypeOK, Settle, outboxVars
  <2>4. SlotsTypeOK'
    BY <1>6, <2>1, <2>2 DEF TypeOK, SlotsTypeOK, Settle, step, ClearSlot, Results, Goto, ProgramPoints, Critical
  <2>5. HistoryTypeOK'
    BY <1>6, <2>1, <2>2 DEF TypeOK, HistoryTypeOK, Settle, Discard, Causes
  <2>. QED BY <1>6, <2>3, <2>4, <2>5, UnchangedTypes DEF TypeOK, Settle
<1>7. ASSUME WorkerCrash(w) PROVE TypeOK'
  <2>1. /\ pc[w] # "idle" /\ held[w] \in Delivery /\ Gen(w) \in Nat
        /\ held[w].msg \in Message /\ step(w) \in StepIds
    BY <1>7, HeldType DEF TypeOK, WorkerCrash
  <2>2. Requeued(held[w]) \in [StepIds -> Seq(Delivery)]
    BY <2>1, RequeuedType DEF TypeOK
  <2>3. MessagesTypeOK'
    BY <1>7, <2>1, <2>2 DEF TypeOK, MessagesTypeOK, WorkerCrash, outboxVars
  <2>4. SlotsTypeOK'
    BY <1>7, <2>1, <2>2 DEF TypeOK, SlotsTypeOK, WorkerCrash, step, ClearSlot, Results, Goto, ProgramPoints, Critical
  <2>5. HistoryTypeOK'
    BY <1>7, SpendType DEF TypeOK, WorkerCrash, FaultKinds
  <2>. QED BY <1>7, <2>3, <2>4, <2>5, UnchangedTypes DEF TypeOK, WorkerCrash
<1>8. ASSUME CallFails(w) PROVE TypeOK'
  <2>1. SlotsTypeOK'
    BY <1>8 DEF TypeOK, SlotsTypeOK, CallFails, step, Goto, Raise, ProgramPoints, Critical
  <2>2. HistoryTypeOK'
    BY <1>8, SpendType DEF TypeOK, CallFails, FaultKinds
  <2>. QED BY <1>8, <2>1, <2>2, UnchangedTypes DEF TypeOK, CallFails
<1>9. ASSUME AcquireFails(w) PROVE TypeOK'
  <2>1. /\ pc[w] # "idle" /\ held[w] \in Delivery /\ step(w) \in StepIds
    BY <1>9, HeldType DEF TypeOK, AcquireFails
  <2>2. SlotsTypeOK'
    BY <1>9, <2>1 DEF TypeOK, SlotsTypeOK, AcquireFails, step, Goto, ProgramPoints, Critical
  <2>3. HistoryTypeOK'
    BY <1>9, SpendType DEF TypeOK, AcquireFails, FaultKinds
  <2>. QED BY <1>9, <2>2, <2>3, UnchangedTypes DEF TypeOK, AcquireFails
<1>. QED BY <1>1, <1>2, <1>3, <1>4, <1>5, <1>6, <1>7, <1>8, <1>9

\* Requests of the API.
LEMMA ApiTypes ==
  ASSUME TypeOK, NEW a \in Apis
  PROVE  /\ Resume(a) => TypeOK'
         /\ ResumeWrite(a) => TypeOK'
         /\ ResumeUnlock(a) => TypeOK'
         /\ ApiPublish(a) => TypeOK'
         /\ ApiCrash(a) => TypeOK'
<1>1. ASSUME Resume(a) PROVE TypeOK'
  <2>1. ApisTypeOK'
    BY <1>1 DEF TypeOK, ApisTypeOK, Resume, ApiGoto
  <2>2. HistoryTypeOK'
    BY <1>1, SpendType DEF TypeOK, Resume, FaultKinds
  <2>. QED BY <1>1, <2>1, <2>2, UnchangedTypes DEF TypeOK, Resume
<1>2. ASSUME ResumeWrite(a) PROVE TypeOK'
  <2>1. NewRow(Msg(WORKFLOW_STEPS[1], NoStep, gen + 1), FALSE) \in Row
    <3>1. gen + 1 \in Nat
      BY DEF TypeOK, HistoryTypeOK
    <3>. QED BY <3>1, FirstStep, MsgType, NewRowType DEF TypeOK
  <2>2. Append(WORKFLOW_STEPS, "repair") \in Seq(StepIds) /\ Append(WORKFLOW_STEPS, "repair") # <<>>
    BY FirstStep
  <2>3. TaskTypeOK'
    BY <1>2, <2>1, <2>2 DEF TypeOK, TaskTypeOK, ResumeWrite, ClearSteps, TaskStatus, StepStatus
  <2>4. MessagesTypeOK'
    BY <1>2, <2>1, EnqueueType DEF TypeOK, ResumeWrite
  <2>5. ApisTypeOK'
    BY <1>2, <2>1, <2>2 DEF TypeOK, ApisTypeOK, ResumeWrite, ApiGoto
  <2>6. HistoryTypeOK'
    BY <1>2, <2>1, <2>2 DEF TypeOK, HistoryTypeOK, ResumeWrite
  <2>. QED BY <1>2, <2>3, <2>4, <2>5, <2>6, UnchangedTypes DEF TypeOK, ResumeWrite
<1>3. ASSUME ResumeUnlock(a) PROVE TypeOK'
  <2>1. /\ apiKeys[a] \in Seq(StepIds) /\ Head(apiKeys[a]) \in StepIds
        /\ Tail(apiKeys[a]) \in Seq(StepIds)
        /\ Len(apiKeys[a]) # 1 => Tail(apiKeys[a]) # <<>>
    <3>1. apiKeys[a] \in Seq(StepIds) /\ apiKeys[a] # <<>>
      BY <1>3 DEF TypeOK, ApisTypeOK, ResumeUnlock
    <3>2. /\ Head(apiKeys[a]) \in StepIds /\ Tail(apiKeys[a]) \in Seq(StepIds)
          /\ Len(Tail(apiKeys[a])) = Len(apiKeys[a]) - 1
          /\ Len(apiKeys[a]) \in Nat
      BY <3>1, HeadTailProperties
    <3> DEFINE rest == Tail(apiKeys[a])
    <3>3. rest \in Seq(StepIds) /\ Len(rest) = Len(apiKeys[a]) - 1
      BY <3>2
    <3>4. Len(apiKeys[a]) # 1 => rest # <<>>
      <4>1. Len(<<>>) = 0
        OBVIOUS
      <4>2. ASSUME rest = <<>> PROVE Len(rest) = Len(<<>>)
        <5>. HIDE DEF rest
        <5>. QED BY <4>2, Zenon
      <4>. QED BY <3>2, <3>3, <4>1, <4>2
    <3>. QED BY <3>1, <3>2, <3>4
  <2>2. SlotsTypeOK'
    BY <1>3, <2>1 DEF TypeOK, SlotsTypeOK, ResumeUnlock, step, workerVars
  <2>3. ApisTypeOK'
    BY <1>3, <2>1 DEF TypeOK, ApisTypeOK, ResumeUnlock, ApiGoto
  <2>. QED BY <1>3, <2>2, <2>3, UnchangedTypes DEF TypeOK, ResumeUnlock
<1>4. ASSUME ApiPublish(a) PROVE TypeOK'
  <2>1. apiEvent[a] \in Row
    BY <1>4 DEF TypeOK, ApisTypeOK, ApiPublish
  <2>2. queue' \in [StepIds -> Seq(Delivery)] /\ delayed' \in Seq(Message) /\ dlq' \subseteq Message
    BY <1>4, <2>1, PublishStepType DEF TypeOK, ApiPublish
  <2>3. MessagesTypeOK'
    BY <1>4, <2>1, <2>2 DEF TypeOK, MessagesTypeOK, ApiPublish, outboxVars
  <2>4. ApisTypeOK'
    BY <1>4, <2>1, <2>2 DEF TypeOK, ApisTypeOK, ApiPublish, ApiGoto
  <2>. QED BY <1>4, <2>3, <2>4, UnchangedTypes DEF TypeOK, ApiPublish
<1>5. ASSUME ApiCrash(a) PROVE TypeOK'
  <2>1. <<>> \in Seq(StepIds)
    OBVIOUS
  <2>2. ApisTypeOK'
    BY <1>5, <2>1 DEF TypeOK, ApisTypeOK, ApiCrash, ApiGoto
  <2>3. HistoryTypeOK'
    BY <1>5, SpendType DEF TypeOK, ApiCrash, FaultKinds
  <2>. QED BY <1>5, <2>2, <2>3, UnchangedTypes DEF TypeOK, ApiCrash
<1>. QED BY <1>1, <1>2, <1>3, <1>4, <1>5

\* Deliveries, the outbox worker, the delay queue and the leases' TTL.
LEMMA EnvironmentTypes ==
  ASSUME TypeOK
  PROVE  /\ \A w \in Workers : ReceiveAny(w) => TypeOK'
         /\ \A row \in outbox : Relay(row) \/ RelayDuplicate(row) => TypeOK'
         /\ DelayElapsed => TypeOK'
         /\ \A s \in StepIds : LeaseExpires(s) \/ LeaseOverrun(s) => TypeOK'
<1>1. ASSUME NEW w \in Workers, NEW s \in StepIds, Receive(w, s) PROVE TypeOK'
  <2>1. queue[s] \in Seq(Delivery) /\ queue[s] # <<>>
    BY <1>1 DEF TypeOK, MessagesTypeOK, Receive
  <2>2. Head(queue[s]) \in Delivery /\ Tail(queue[s]) \in Seq(Delivery)
    BY <2>1, HeadTailProperties
  <2>3. MessagesTypeOK'
    BY <1>1, <2>2 DEF TypeOK, MessagesTypeOK, Receive, outboxVars
  <2>4. SlotsTypeOK'
    BY <1>1, <2>2 DEF TypeOK, SlotsTypeOK, step, Receive, Goto, ProgramPoints, Critical
  <2>. QED BY <1>1, <2>3, <2>4, UnchangedTypes DEF TypeOK, Receive
<1>2. ASSUME NEW row \in outbox, Relay(row) PROVE TypeOK'
  <2>1. row \in Row
    BY DEF TypeOK, MessagesTypeOK
  <2>2. queue' \in [StepIds -> Seq(Delivery)] /\ delayed' \in Seq(Message) /\ dlq' \subseteq Message
    BY <1>2, <2>1, PublishStepType DEF TypeOK, Relay
  <2>3. MessagesTypeOK'
    BY <1>2, <2>2 DEF TypeOK, MessagesTypeOK, Relay
  <2>. QED BY <1>2, <2>3, UnchangedTypes DEF TypeOK, Relay
<1>3. ASSUME NEW row \in outbox, RelayDuplicate(row) PROVE TypeOK'
  <2>1. row \in Row
    BY DEF TypeOK, MessagesTypeOK
  <2>2. queue' \in [StepIds -> Seq(Delivery)] /\ delayed' \in Seq(Message) /\ dlq' \subseteq Message
    BY <1>3, <2>1, PublishStepType DEF TypeOK, RelayDuplicate
  <2>3. MessagesTypeOK'
    BY <1>3, <2>2 DEF TypeOK, MessagesTypeOK, RelayDuplicate
  <2>4. HistoryTypeOK'
    BY <1>3, SpendType DEF TypeOK, RelayDuplicate, FaultKinds
  <2>. QED BY <1>3, <2>3, <2>4, UnchangedTypes DEF TypeOK, RelayDuplicate
<1>4. ASSUME DelayElapsed PROVE TypeOK'
  <2>1. Head(delayed) \in Message /\ Tail(delayed) \in Seq(Message)
    BY <1>4, HeadTailProperties DEF TypeOK, MessagesTypeOK, DelayElapsed
  <2> DEFINE d == [msg |-> Head(delayed), redelivered |-> FALSE]
  <2>2. d \in Delivery /\ Head(delayed).step \in StepIds
    BY <2>1 DEF Delivery, Message
  <2>3. Append(queue[Head(delayed).step], d) \in Seq(Delivery)
    BY <2>2, AppendProperties DEF TypeOK, MessagesTypeOK
  <2>4. MessagesTypeOK'
    BY <1>4, <2>1, <2>2, <2>3 DEF TypeOK, MessagesTypeOK, DelayElapsed, outboxVars
  <2>. QED BY <1>4, <2>4, UnchangedTypes DEF TypeOK, DelayElapsed
<1>5. ASSUME NEW s \in StepIds, LeaseExpires(s) PROVE TypeOK'
  <2>1. SlotsTypeOK'
    BY <1>5 DEF TypeOK, SlotsTypeOK, step, LeaseExpires, workerVars
  <2>. QED BY <1>5, <2>1, UnchangedTypes DEF TypeOK, LeaseExpires
<1>6. ASSUME NEW s \in StepIds, LeaseOverrun(s) PROVE TypeOK'
  <2>1. SlotsTypeOK'
    BY <1>6 DEF TypeOK, SlotsTypeOK, step, LeaseOverrun, workerVars
  <2>2. HistoryTypeOK'
    BY <1>6, SpendType DEF TypeOK, LeaseOverrun, FaultKinds
  <2>. QED BY <1>6, <2>1, <2>2, UnchangedTypes DEF TypeOK, LeaseOverrun
<1>. QED BY <1>1, <1>2, <1>3, <1>4, <1>5, <1>6 DEF ReceiveAny

\* create_task starts a task at a step of the chain.
LEMMA StartType == StartSteps \subseteq Producing
<1>1. WORKFLOW_STEPS[1] \in Workflow /\ WORKFLOW_STEPS[1] # "quality_evaluation"
  BY WorkflowAssumption DEF Workflow
<1>. QED BY <1>1, StepSets, OrchestratorAssumption DEF Producing

LEMMA InitType == Init => TypeOK
<1>. SUFFICES ASSUME Init PROVE TypeOK
  OBVIOUS
<1>1. PICK s \in StartSteps, a \in Apis :
        LET row == [id |-> 0, msg |-> Msg(s, NoStep, 1), delayed |-> FALSE] IN
        /\ apiEvent = [b \in Apis |-> IF b = a THEN row ELSE NoRow]
        /\ apiPc = [b \in Apis |-> IF b = a THEN "publish" ELSE "idle"]
        /\ outbox = {row}
  BY DEF Init
<1> DEFINE row == [id |-> 0, msg |-> Msg(s, NoStep, 1), delayed |-> FALSE]
<1>2. row \in Row
  BY StepSets, StartType, MsgType DEF Row
<1>3. TaskTypeOK
  BY DEF Init, TaskTypeOK, TaskStatus, StepStatus
<1>4. MessagesTypeOK
  <2>1. outbox = {row}
    BY <1>1
  <2>2. <<>> \in Seq(Delivery) /\ <<>> \in Seq(Message)
    OBVIOUS
  <2>. HIDE DEF row
  <2>. QED BY <1>2, <2>1, <2>2 DEF Init, MessagesTypeOK
<1>5. SlotsTypeOK
  BY DEF Init, SlotsTypeOK, ProgramPoints, Results
<1>6. ApisTypeOK
  <2>1. /\ apiEvent = [b \in Apis |-> IF b = a THEN row ELSE NoRow]
        /\ apiPc = [b \in Apis |-> IF b = a THEN "publish" ELSE "idle"]
    BY <1>1
  <2>2. <<>> \in Seq(StepIds)
    OBVIOUS
  <2>. HIDE DEF row
  <2>. QED BY <1>2, <2>1, <2>2 DEF Init, ApisTypeOK
<1>7. HistoryTypeOK
  BY DEF Init, HistoryTypeOK
<1>. QED BY <1>3, <1>4, <1>5, <1>6, <1>7 DEF TypeOK

LEMMA NextType == TypeOK /\ [Next]_vars => TypeOK'
<1>. SUFFICES ASSUME TypeOK, [Next]_vars PROVE TypeOK'
  OBVIOUS
<1>1. ASSUME NEW w \in Workers, WorkerStep(w) PROVE TypeOK'
  BY <1>1, RunTypes, SuccessTypes, FailureTypes, DeadLetterTypes, EvaluationTypes,
     SettleTypes DEF WorkerStep
<1>2. ASSUME NEW w \in Workers, WorkerFault(w) PROVE TypeOK'
  BY <1>2, SettleTypes DEF WorkerFault
<1>3. ASSUME NEW a \in Apis, Resume(a) \/ ApiStep(a) \/ ApiCrash(a) PROVE TypeOK'
  BY <1>3, ApiTypes DEF ApiStep
<1>4. CASE UNCHANGED vars
  BY <1>4, UnchangedTypes DEF TypeOK, vars
<1>. QED BY <1>1, <1>2, <1>3, <1>4, EnvironmentTypes DEF Next

\* Every variable has its type in every reachable state.
THEOREM TypeCorrect == Spec => []TypeOK
BY InitType, NextType, PTL DEF Spec
=============================================================================
