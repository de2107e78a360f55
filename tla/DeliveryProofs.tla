---------------------------- MODULE DeliveryProofs ----------------------------
(***************************************************************************)
(* The transactional outbox, manual acknowledgement and redelivery lose    *)
(* nothing: each generation of a task is carried until it is ended or one  *)
(* of its messages is discarded.                                           *)
(***************************************************************************)
EXTENDS OrchestratorProofs

-----------------------------------------------------------------------------
(* What moves between the outbox, the broker and the slots *)

\* A message sent to the work queues is in one of them, the others stay.
LEMMA SendLands ==
  ASSUME MessagesTypeOK, NEW m \in Message, NEW g,
         queue' = [queue EXCEPT ![m.step] = Append(@, [msg |-> m, redelivered |-> FALSE])]
  PROVE  /\ InQueue(g) => InQueue(g)'
         /\ m.gen = g => InQueue(g)'
<1> DEFINE s == m.step
           d == [msg |-> m, redelivered |-> FALSE]
<1>1. d \in Delivery /\ s \in StepIds /\ d.msg = m
  BY DEF Message, Delivery
<1>2. queue[s] \in Seq(Delivery) /\ queue'[s] = Append(queue[s], d)
      /\ \A r \in StepIds \ {s} : queue'[r] = queue[r]
  BY <1>1 DEF MessagesTypeOK
<1>3. /\ Len(queue[s]) \in Nat /\ Len(queue'[s]) = Len(queue[s]) + 1
      /\ \A i \in 1..Len(queue[s]) : queue'[s][i] = queue[s][i]
      /\ queue'[s][Len(queue'[s])] = d
  BY <1>1, <1>2, AppendProperties
<1>. HIDE DEF s, d
<1>4. InQueue(g) => InQueue(g)'
  <2>. SUFFICES ASSUME NEW r \in StepIds, NEW i \in 1..Len(queue[r]),
                       queue[r][i].msg.gen = g
                PROVE  \E j \in 1..Len(queue'[r]) : queue'[r][j].msg.gen = g
    BY DEF InQueue
  <2>1. CASE r = s
    BY <1>3, <2>1
  <2>2. CASE r # s
    BY <1>2, <2>2
  <2>. QED BY <2>1, <2>2
<1>5. m.gen = g => InQueue(g)'
  <2>1. Len(queue'[s]) \in 1..Len(queue'[s])
    BY <1>3
  <2>. QED BY <1>1, <1>3, <2>1 DEF InQueue
<1>. QED BY <1>4, <1>5

\* A published row's message is in a work queue or in the delay queue.
LEMMA PublishLands ==
  ASSUME MessagesTypeOK, NEW row \in Row, PublishStep(row), NEW g
  PROVE  /\ InQueue(g) => InQueue(g)'
         /\ InDelay(g) => InDelay(g)'
         /\ row.msg.gen = g => InQueue(g)' \/ InDelay(g)'
<1>. row.msg \in Message
  BY DEF Row
<1>1. CASE row.delayed
  <2>1. delayed' = Append(delayed, row.msg) /\ UNCHANGED queue
    BY <1>1 DEF PublishStep
  <2>2. /\ Len(delayed) \in Nat /\ Len(delayed') = Len(delayed) + 1
        /\ \A i \in 1..Len(delayed) : delayed'[i] = delayed[i]
        /\ delayed'[Len(delayed')] = row.msg
    BY <2>1, AppendProperties DEF MessagesTypeOK
  <2>. QED BY <2>1, <2>2 DEF InQueue, InDelay
<1>2. CASE ~row.delayed
  BY <1>2, SendLands DEF PublishStep, InDelay
<1>. QED BY <1>1, <1>2

\* A requeued delivery is at the head of its queue, the others behind it.
LEMMA RequeueLands ==
  ASSUME MessagesTypeOK, NEW d \in Delivery, queue' = Requeued(d), NEW g
  PROVE  /\ InQueue(g) => InQueue(g)'
         /\ d.msg.gen = g => InQueue(g)'
<1> DEFINE s == d.msg.step
           e == [d EXCEPT !.redelivered = TRUE]
<1>1. e \in Delivery /\ s \in StepIds /\ e.msg = d.msg
  BY DEF Delivery, Message
<1>2. queue' = [queue EXCEPT ![s] = <<e>> \o @]
  BY DEF Requeued
<1>3. /\ queue[s] \in Seq(Delivery) /\ queue'[s] = <<e>> \o queue[s]
      /\ \A r \in StepIds \ {s} : queue'[r] = queue[r]
  BY <1>1, <1>2 DEF MessagesTypeOK
<1>. HIDE DEF e, s
<1>4. <<e>> \in Seq(Delivery) /\ Len(<<e>>) = 1 /\ <<e>>[1] = e
  BY <1>1
<1>5. /\ Len(queue[s]) \in Nat /\ Len(queue'[s]) = Len(queue[s]) + 1
      /\ \A i \in 1..Len(queue[s]) : queue'[s][i + 1] = queue[s][i]
      /\ queue'[s][1] = e
  BY <1>3, <1>4, ConcatProperties
<1>6. InQueue(g) => InQueue(g)'
  <2>. SUFFICES ASSUME NEW r \in StepIds, NEW i \in 1..Len(queue[r]),
                       queue[r][i].msg.gen = g
                PROVE  \E j \in 1..Len(queue'[r]) : queue'[r][j].msg.gen = g
    BY DEF InQueue
  <2>1. CASE r = s
    <3>1. i + 1 \in 1..Len(queue'[s]) /\ queue'[s][i + 1].msg.gen = g
      BY <1>5, <2>1
    <3>. QED BY <2>1, <3>1
  <2>2. CASE r # s
    BY <1>3, <2>2
  <2>. QED BY <2>1, <2>2
<1>7. d.msg.gen = g => InQueue(g)'
  <2>1. 1 \in 1..Len(queue'[s])
    BY <1>5
  <2>. QED BY <1>1, <1>5, <2>1 DEF InQueue
<1>. QED BY <1>6, <1>7

-----------------------------------------------------------------------------
(* What a slot carries *)

\* The generation of a slot's message has found another place.
HandedOver(g) == g \in ended \/ InOutbox(g) \/ InDelay(g) \/ InQueue(g) \/ WasDiscarded(g)

\* Nothing leaves the broker or the outbox, nothing in the history is forgotten.
Keeps ==
  /\ UNCHANGED <<queue, delayed>> /\ outbox \subseteq outbox'
  /\ ended \subseteq ended' /\ discarded \subseteq discarded'

\* A slot stops carrying its message only once it is handed over, and a new
\* generation begins with its event in the outbox.
Advances(w) ==
  /\ Keeps /\ UNCHANGED held
  /\ \A v \in Workers \ {w} : pc'[v] = pc[v] /\ raised'[v] = raised[v]
  /\ \A g : Carries(w) /\ Gen(w) = g => Carries(w)' \/ HandedOver(g)'
  /\ gen' # gen => gen' = gen + 1 /\ \A g : g = gen + 1 => HandedOver(g)'

LEMMA KeepsHandedOver ==
  ASSUME Keeps, NEW g
  PROVE  HandedOver(g) => HandedOver(g)'
BY DEF Keeps, HandedOver, InOutbox, InDelay, InQueue, WasDiscarded

LEMMA AccountedParts ==
  ASSUME NEW g
  PROVE  /\ Accounted(g) <=> HandedOver(g) \/ InSlot(g)
         /\ Accounted(g)' <=> HandedOver(g)' \/ InSlot(g)'
BY DEF Accounted, HandedOver

LEMMA AdvanceKeeps ==
  ASSUME NEW w \in Workers, Advances(w), NEW g, Accounted(g)
  PROVE  Accounted(g)'
<1>1. CASE HandedOver(g)
  BY <1>1, KeepsHandedOver, AccountedParts DEF Advances
<1>2. ASSUME NEW v \in Workers, Carries(v), Gen(v) = g PROVE Accounted(g)'
  <2>1. Gen(v)' = Gen(v)
    BY DEF Advances, Gen
  <2>2. CASE v = w
    BY <1>2, <2>1, <2>2, AccountedParts DEF Advances, InSlot
  <2>3. CASE v # w
    <3>1. Carries(v)'
      BY <1>2, <2>3 DEF Advances, Carries
    <3>. QED BY <1>2, <2>1, <3>1, AccountedParts DEF InSlot
  <2>. QED BY <2>2, <2>3
<1>. QED BY <1>1, <1>2, AccountedParts DEF InSlot

\* An enqueued event keeps its generation in the outbox.
LEMMA EnqueueLands ==
  ASSUME NEW row, NEW g, EnqueueStepEvent(row), row.msg.gen = g
  PROVE  InOutbox(g)' /\ outbox \subseteq outbox'
<1>1. row \in outbox' /\ outbox \subseteq outbox'
  BY DEF EnqueueStepEvent
<1>2. \E r \in outbox' : r.msg.gen = g
  BY <1>1
<1>. QED BY <1>1, <1>2 DEF InOutbox

\* A discarded message's generation is recorded.
LEMMA DiscardLands ==
  ASSUME NEW w \in Workers, NEW c, Discard(w, c), NEW g, Gen(w) = g
  PROVE  WasDiscarded(g)' /\ discarded \subseteq discarded'
<1> DEFINE d == [cause |-> c, gen |-> Gen(w)]
<1>1. d \in discarded' /\ d.gen = g /\ discarded \subseteq discarded'
  BY DEF Discard
<1>. HIDE DEF d
<1>. QED BY <1>1 DEF WasDiscarded

\* The steps of a slot that publish nothing and settle nothing.
LEMMA AdvanceSteps ==
  ASSUME TypeOK, NEW w \in Workers,
         \/ Acquire(w) \/ CheckStep(w) \/ TaskRunning(w) \/ TaskRunningWrite(w)
         \/ StepRunning(w) \/ StepRunningWrite(w) \/ RunAgent(w) \/ SuccessCommit(w)
         \/ RepairApply(w) \/ LateRunning(w) \/ LateRunningWrite(w) \/ FailureCommit(w)
         \/ MarkRetrying(w) \/ ScheduleRetry(w) \/ ScheduleRetryWrite(w)
         \/ ScheduleRepair(w) \/ DeadLetterCommit(w) \/ DeadLetterPublish(w)
         \/ Evaluate(w) \/ EvaluateWrite(w) \/ Verdict(w) \/ EvalRetry(w)
         \/ EvalReset(w) \/ Finalize(w) \/ FinalizeWrite(w)
         \/ Release(w) \/ ReleaseFails(w) \/ CallFails(w) \/ AcquireFails(w)
  PROVE  Advances(w)
<1>. /\ pc \in [Workers -> ProgramPoints] /\ raised \in [Workers -> BOOLEAN]
  BY DEF TypeOK, SlotsTypeOK
<1>. USE DEF Advances, Keeps, Goto, brokerVars, outboxVars, history
<1>1. CASE Acquire(w) \/ CheckStep(w)
  <2>1. ASSUME NEW c, Discard(w, c), NEW g, Gen(w) = g
        PROVE  HandedOver(g)' /\ discarded \subseteq discarded'
    BY <2>1, DiscardLands DEF HandedOver
  <2>. QED BY <1>1, <2>1 DEF Acquire, CheckStep, Carries
<1>2. CASE TaskRunning(w) \/ LateRunning(w) \/ Evaluate(w) \/ Finalize(w)
  BY <1>2 DEF TaskRunning, LateRunning, Evaluate, Finalize, DecideTask, Decide, Raise, Carries
<1>3. CASE TaskRunningWrite(w) \/ LateRunningWrite(w) \/ EvaluateWrite(w)
  BY <1>3 DEF TaskRunningWrite, LateRunningWrite, EvaluateWrite, WriteTask, Carries
<1>4. CASE StepRunning(w) \/ StepRunningWrite(w) \/ RunAgent(w) \/ Verdict(w)
  BY <1>4 DEF StepRunning, Decide, Raise, StepRunningWrite, RunAgent, Verdict, Carries
<1>5. CASE FailureCommit(w) \/ MarkRetrying(w) \/ ScheduleRetry(w) \/ EvalRetry(w)
  BY <1>5 DEF FailureCommit, MarkRetrying, ScheduleRetry, EvalRetry, Raise, Carries
<1>6. CASE DeadLetterPublish(w) \/ Release(w) \/ ReleaseFails(w)
  BY <1>6 DEF DeadLetterPublish, Release, ReleaseFails, Carries
<1>7. CASE CallFails(w) \/ AcquireFails(w)
  BY <1>7 DEF CallFails, AcquireFails, Raise, Carries
<1>8. CASE DeadLetterCommit(w) \/ FinalizeWrite(w)
  <2>1. ended' = ended \cup {Gen(w)}
    BY <1>8 DEF DeadLetterCommit, FinalizeWrite
  <2>2. ASSUME NEW g, Gen(w) = g PROVE HandedOver(g)'
    BY <2>1, <2>2 DEF HandedOver
  <2>. QED BY <1>8, <2>1, <2>2 DEF DeadLetterCommit, FinalizeWrite, WriteTask
<1>9. ASSUME NEW m, NEW d, EnqueueStepEvent(NewRow(m, d)), NEW g, m.gen = g
      PROVE  HandedOver(g)' /\ outbox \subseteq outbox'
  <2>1. NewRow(m, d).msg.gen = g
    BY <1>9 DEF NewRow
  <2>. QED BY <1>9, <2>1, EnqueueLands DEF HandedOver
<1>10. ASSUME NEW s, NEW t, NEW g PROVE Msg(s, t, g).gen = g
  BY DEF Msg
<1>11. CASE SuccessCommit(w)
  <2>1. CASE step(w) \in Producing
    <3>1. \E s, t : EnqueueStepEvent(NewRow(Msg(s, t, Gen(w)), FALSE))
      BY <1>11, <2>1 DEF SuccessCommit
    <3>2. \A g : g = Gen(w) => HandedOver(g)' /\ outbox \subseteq outbox'
      BY <1>9, <1>10, <3>1
    <3>3. outbox \subseteq outbox'
      BY <3>2
    <3>. QED BY <1>11, <2>1, <3>2, <3>3 DEF SuccessCommit
  <2>2. CASE step(w) \notin Producing
    BY <1>11, <2>2 DEF SuccessCommit, Carries
  <2>. QED BY <2>1, <2>2
<1>12. CASE RepairApply(w)
  <2>1. CASE held[w].msg.target \in Producing
    <3>1. \E s, t : EnqueueStepEvent(NewRow(Msg(s, t, Gen(w)), FALSE))
      BY <1>12, <2>1 DEF RepairApply
    <3>2. \A g : g = Gen(w) => HandedOver(g)' /\ outbox \subseteq outbox'
      BY <1>9, <1>10, <3>1
    <3>3. outbox \subseteq outbox'
      BY <3>2
    <3>. QED BY <1>12, <2>1, <3>2, <3>3 DEF RepairApply
  <2>2. CASE held[w].msg.target \notin Producing
    BY <1>12, <2>2 DEF RepairApply, Raise, Carries
  <2>. QED BY <2>1, <2>2
<1>13. CASE ScheduleRetryWrite(w)
  <2>1. \E d : EnqueueStepEvent(NewRow(held[w].msg, d))
    BY <1>13 DEF ScheduleRetryWrite
  <2>. QED BY <1>9, <1>13, <2>1 DEF ScheduleRetryWrite, Gen
<1>14. CASE ScheduleRepair(w)
  <2>1. \E s, t : EnqueueStepEvent(NewRow(Msg(s, t, Gen(w)), FALSE))
    BY <1>14 DEF ScheduleRepair
  <2>2. \A g : g = Gen(w) => HandedOver(g)' /\ outbox \subseteq outbox'
    BY <1>9, <1>10, <2>1
  <2>3. outbox \subseteq outbox'
    BY <2>2
  <2>. QED BY <1>14, <2>2, <2>3 DEF ScheduleRepair
<1>15. CASE EvalReset(w)
  <2>1. \E s, t : EnqueueStepEvent(NewRow(Msg(s, t, gen + 1), FALSE))
    BY <1>15 DEF EvalReset
  <2>2. \A g : g = gen + 1 => HandedOver(g)' /\ outbox \subseteq outbox'
    BY <1>9, <1>10, <2>1
  <2>3. \A g : g = Gen(w) => HandedOver(g)'
    BY <1>15 DEF EvalReset, HandedOver
  <2>4. outbox \subseteq outbox'
    BY <2>2
  <2>. QED BY <1>15, <2>2, <2>3, <2>4 DEF EvalReset
<1>. QED BY <1>1, <1>2, <1>3, <1>4, <1>5, <1>6, <1>7, <1>8, <1>11, <1>12, <1>13,
            <1>14, <1>15

-----------------------------------------------------------------------------
(* Messages in motion *)

\* A published row may leave the outbox: its message is in the broker.
LEMMA PublishKeeps ==
  ASSUME MessagesTypeOK, NEW row \in Row, PublishStep(row),
         outbox \ {row} \subseteq outbox', UNCHANGED <<ended, discarded>>,
         NEW g, HandedOver(g)
  PROVE  HandedOver(g)'
<1>1. InOutbox(g) => InOutbox(g)' \/ row.msg.gen = g
  BY DEF InOutbox
<1>. QED BY <1>1, PublishLands DEF HandedOver, WasDiscarded

\* The other slots go on carrying what they carried.
LEMMA OthersCarry ==
  ASSUME NEW w \in Workers, NEW g, InSlot(g),
         \A v \in Workers \ {w} :
           pc'[v] = pc[v] /\ raised'[v] = raised[v] /\ held'[v] = held[v]
  PROVE  InSlot(g)' \/ (Carries(w) /\ Gen(w) = g)
<1>1. PICK v \in Workers : Carries(v) /\ Gen(v) = g
  BY DEF InSlot
<1>2. CASE v # w
  <2>1. Carries(v)' /\ Gen(v)' = g
    BY <1>1, <1>2 DEF Carries, Gen
  <2>. QED BY <2>1 DEF InSlot
<1>. QED BY <1>1, <1>2

\* Neither a message nor a slot moves.
LEMMA NothingMoves ==
  ASSUME UNCHANGED <<outbox, queue, delayed, pc, held, raised>>,
         ended \subseteq ended', discarded \subseteq discarded', NEW g, Accounted(g)
  PROVE  Accounted(g)'
BY DEF Accounted, InOutbox, InDelay, InQueue, InSlot, WasDiscarded, Carries, Gen

\* A message is at the broker or in the slot that received it.
LEMMA ReceiveKeeps ==
  ASSUME TypeOK, NEW w \in Workers, NEW s \in StepIds, Receive(w, s), NEW g,
         Accounted(g)
  PROVE  Accounted(g)'
<1>. /\ pc \in [Workers -> ProgramPoints]
     /\ held \in [Workers -> Delivery \cup {NoDelivery}]
     /\ queue \in [StepIds -> Seq(Delivery)]
  BY DEF TypeOK, SlotsTypeOK, MessagesTypeOK
<1>. DEFINE d == Head(queue[s])
<1>1. /\ pc[w] = "idle" /\ queue[s] # <<>> /\ queue' = [queue EXCEPT ![s] = Tail(@)]
      /\ UNCHANGED <<outbox, delayed, raised, ended, discarded>>
      /\ held'[w] = d /\ pc'[w] = "acquire"
      /\ \A v \in Workers \ {w} : pc'[v] = pc[v] /\ held'[v] = held[v]
  BY DEF Receive, Goto, outboxVars, history
<1>2. d.msg.gen = g => InSlot(g)'
  <2>1. Carries(w)' /\ Gen(w)' = d.msg.gen
    BY <1>1 DEF Carries, Gen
  <2>. QED BY <2>1 DEF InSlot
<1>3. InSlot(g) => InSlot(g)'
  BY <1>1, OthersCarry DEF Carries
<1>4. InQueue(g) => InQueue(g)' \/ d.msg.gen = g
  <2>. SUFFICES ASSUME NEW r \in StepIds, NEW i \in 1..Len(queue[r]),
                       queue[r][i].msg.gen = g, d.msg.gen # g
                PROVE  \E j \in 1..Len(queue'[r]) : queue'[r][j].msg.gen = g
    BY DEF InQueue
  <2>1. CASE r # s
    BY <1>1, <2>1
  <2>2. CASE r = s
    <3>1. /\ queue[s] \in Seq(Delivery) /\ Len(queue[s]) \in Nat
          /\ queue'[s] = Tail(queue[s]) /\ d = queue[s][1]
      BY <1>1
    <3>2. /\ Len(queue'[s]) = Len(queue[s]) - 1
          /\ \A j \in 1..Len(queue'[s]) : queue'[s][j] = queue[s][j + 1]
      BY <1>1, <3>1, HeadTailProperties
    <3>3. i - 1 \in 1..Len(queue'[s]) /\ (i - 1) + 1 = i
      BY <2>2, <3>1, <3>2
    <3>. QED BY <2>2, <3>2, <3>3
  <2>. QED BY <2>1, <2>2
<1>. HIDE DEF d
<1>. QED BY <1>1, <1>2, <1>3, <1>4 DEF Accounted, InOutbox, InDelay, WasDiscarded

\* A slot that publishes its row: published, refused or published and not marked.
LEMMA SlotPublishKeeps ==
  ASSUME TypeOK, NEW w \in Workers, Publish(w) \/ PublishFails(w) \/ MarkFails(w),
         NEW g, Accounted(g)
  PROVE  Accounted(g)'
<1>. /\ pc \in [Workers -> ProgramPoints] /\ raised \in [Workers -> BOOLEAN]
     /\ MessagesTypeOK
  BY DEF TypeOK, SlotsTypeOK
<1>1. ev[w] \in Row
  BY DEF TypeOK, SlotsTypeOK, Publish, PublishFails, MarkFails
<1>2. InSlot(g) => InSlot(g)'
  <2>1. ~Carries(w)
    BY DEF Publish, PublishFails, MarkFails, Carries
  <2>2. /\ UNCHANGED held
        /\ \A v \in Workers \ {w} : pc'[v] = pc[v] /\ raised'[v] = raised[v]
    BY DEF Publish, PublishFails, MarkFails, Goto, Raise
  <2>. QED BY <2>1, <2>2, OthersCarry
<1>3. HandedOver(g) => HandedOver(g)'
  <2>1. UNCHANGED <<ended, discarded>>
    BY DEF Publish, PublishFails, MarkFails, history
  <2>2. CASE Publish(w) \/ MarkFails(w)
    <3>1. PublishStep(ev[w]) /\ outbox \ {ev[w]} \subseteq outbox'
      BY <2>2 DEF Publish, MarkFails, outboxVars
    <3>. QED BY <1>1, <2>1, <3>1, PublishKeeps
  <2>3. CASE PublishFails(w)
    <3>1. UNCHANGED <<queue, delayed>> /\ outbox \subseteq outbox'
      BY <2>3 DEF PublishFails, brokerVars
    <3>. QED BY <2>1, <3>1, KeepsHandedOver DEF Keeps
  <2>. QED BY <2>2, <2>3
<1>. QED BY <1>2, <1>3, AccountedParts

\* A settled message is acted on, redelivered or rejected; a dead slot's message
\* is redelivered.
LEMMA SettleKeeps ==
  ASSUME TypeOK, NEW w \in Workers, Settle(w) \/ WorkerCrash(w), NEW g, Accounted(g)
  PROVE  Accounted(g)'
<1>. /\ pc \in [Workers -> ProgramPoints] /\ raised \in [Workers -> BOOLEAN]
     /\ held \in [Workers -> Delivery \cup {NoDelivery}] /\ MessagesTypeOK
     /\ held[w] \in Delivery
  BY DEF TypeOK, SlotsTypeOK, Settle, WorkerCrash
<1>1. \A v \in Workers \ {w} :
        pc'[v] = pc[v] /\ raised'[v] = raised[v] /\ held'[v] = held[v]
  BY DEF Settle, WorkerCrash, ClearSlot, Goto
<1>2. UNCHANGED <<outbox, delayed, ended>> /\ discarded \subseteq discarded'
  BY DEF Settle, WorkerCrash, outboxVars, history, Discard
<1>3. queue' = queue \/ queue' = Requeued(held[w])
  BY DEF Settle, WorkerCrash
<1>4. InQueue(g) => InQueue(g)'
  <2>1. CASE queue' = queue
    BY <2>1 DEF InQueue
  <2>2. CASE queue' = Requeued(held[w])
    BY <2>2, RequeueLands
  <2>. QED BY <1>3, <2>1, <2>2
<1>5. HandedOver(g) => HandedOver(g)'
  BY <1>2, <1>4 DEF HandedOver, InOutbox, InDelay, WasDiscarded
<1>6. Carries(w) /\ Gen(w) = g => HandedOver(g)'
  <2>1. CASE queue' = Requeued(held[w])
    BY <2>1, RequeueLands DEF Gen, HandedOver
  <2>2. CASE queue' # Requeued(held[w])
    <3>1. Carries(w) => Discard(w, "rejected")
      BY <2>2 DEF Settle, WorkerCrash, Carries
    <3>. QED BY <3>1, DiscardLands DEF HandedOver
  <2>. QED BY <2>1, <2>2
<1>. QED BY <1>1, <1>5, <1>6, OthersCarry, AccountedParts

\* The API and the outbox worker publish rows, a delayed message returns to its
\* queue; the slots do not move.
LEMMA RelayKeeps ==
  ASSUME TypeOK, NEW g, Accounted(g),
         \/ \E a \in Apis : ApiPublish(a)
         \/ \E row \in outbox : Relay(row) \/ RelayDuplicate(row)
         \/ DelayElapsed
  PROVE  Accounted(g)'
<1>. MessagesTypeOK
  BY DEF TypeOK
<1>1. UNCHANGED <<pc, held, raised, ended, discarded>>
  BY DEF ApiPublish, Relay, RelayDuplicate, DelayElapsed, workerVars, history
<1>2. InSlot(g) => InSlot(g)'
  BY <1>1 DEF InSlot, Carries, Gen
<1>3. ASSUME NEW row \in Row, PublishStep(row), outbox \ {row} \subseteq outbox'
      PROVE  HandedOver(g) => HandedOver(g)'
  BY <1>1, <1>3, PublishKeeps
<1>4. CASE \E a \in Apis : ApiPublish(a)
  <2>1. PICK a \in Apis : ApiPublish(a)
    BY <1>4
  <2>2. apiEvent[a] \in Row
    BY <2>1 DEF TypeOK, ApisTypeOK, ApiPublish
  <2>3. PublishStep(apiEvent[a]) /\ outbox \ {apiEvent[a]} \subseteq outbox'
    BY <2>1 DEF ApiPublish
  <2>. QED BY <1>2, <1>3, <2>2, <2>3, AccountedParts
<1>5. CASE \E row \in outbox : Relay(row) \/ RelayDuplicate(row)
  <2>1. PICK row \in outbox : Relay(row) \/ RelayDuplicate(row)
    BY <1>5
  <2>2. row \in Row
    BY DEF MessagesTypeOK
  <2>3. PublishStep(row) /\ outbox \ {row} \subseteq outbox'
    BY <2>1 DEF Relay, RelayDuplicate
  <2>. QED BY <1>2, <1>3, <2>2, <2>3, AccountedParts
<1>6. CASE DelayElapsed
  <2>. DEFINE m == Head(delayed)
  <2>1. /\ delayed \in Seq(Message) /\ delayed # <<>>
        /\ delayed' = Tail(delayed) /\ UNCHANGED outbox
        /\ queue' = [queue EXCEPT ![m.step] = Append(@, [msg |-> m, redelivered |-> FALSE])]
    BY <1>6 DEF DelayElapsed, MessagesTypeOK, outboxVars
  <2>2. m \in Message /\ m = delayed[1] /\ Len(delayed) \in Nat
    BY <2>1
  <2>3. /\ Len(delayed') = Len(delayed) - 1
        /\ \A j \in 1..Len(delayed') : delayed'[j] = delayed[j + 1]
    BY <2>1, HeadTailProperties
  <2>. HIDE DEF m
  <2>4. (InQueue(g) => InQueue(g)') /\ (m.gen = g => InQueue(g)')
    BY <2>1, <2>2, SendLands
  <2>5. InDelay(g) => InDelay(g)' \/ m.gen = g
    <3>. SUFFICES ASSUME NEW i \in 1..Len(delayed), delayed[i].gen = g, m.gen # g
                  PROVE  \E j \in 1..Len(delayed') : delayed'[j].gen = g
      BY DEF InDelay
    <3>1. i - 1 \in 1..Len(delayed') /\ (i - 1) + 1 = i
      BY <2>2, <2>3
    <3>. QED BY <2>3, <3>1
  <2>6. HandedOver(g) => HandedOver(g)'
    BY <1>1, <2>1, <2>4, <2>5 DEF HandedOver, InOutbox, WasDiscarded
  <2>. QED BY <1>2, <2>6, AccountedParts
<1>. QED BY <1>4, <1>5, <1>6

\* A manual resume begins a generation whose event is in the outbox.
LEMMA ResumeBegins ==
  ASSUME NEW a \in Apis, ResumeWrite(a)
  PROVE  /\ \A g : Accounted(g) => Accounted(g)'
         /\ gen' = gen + 1 /\ \A g : g = gen + 1 => Accounted(g)'
<1>1. PICK s, t : EnqueueStepEvent(NewRow(Msg(s, t, gen + 1), FALSE))
  BY DEF ResumeWrite
<1>2. NewRow(Msg(s, t, gen + 1), FALSE).msg.gen = gen + 1
  BY DEF NewRow, Msg
<1>3. outbox \subseteq outbox' /\ \A g : g = gen + 1 => InOutbox(g)'
  BY <1>1, <1>2, EnqueueLands
<1>4. UNCHANGED <<queue, delayed, pc, held, raised, ended, discarded>> /\ gen' = gen + 1
  BY DEF ResumeWrite, brokerVars, workerVars
<1>5. ASSUME NEW g, Accounted(g) PROVE Accounted(g)'
  BY <1>3, <1>4, <1>5
     DEF Accounted, InOutbox, InDelay, InQueue, InSlot, WasDiscarded, Carries, Gen
<1>6. ASSUME NEW g, g = gen + 1 PROVE Accounted(g)'
  BY <1>3, <1>6 DEF Accounted
<1>. QED BY <1>4, <1>5, <1>6

-----------------------------------------------------------------------------
(* Nothing is lost *)

\* Every generation accounted for stays so, and one that begins is accounted for.
LEMMA DeliveryNext ==
  ASSUME TypeOK, GenerationsAccountedFor, [Next]_vars
  PROVE  GenerationsAccountedFor'
<1>. DEFINE Kept == \A g : Accounted(g) => Accounted(g)'
            Begun == gen' = gen \/ (gen' = gen + 1 /\ \A g : g = gen + 1 => Accounted(g)')
<1>. SUFFICES Kept /\ Begun
  <2>1. gen \in Nat
    BY DEF TypeOK, HistoryTypeOK
  <2>2. ASSUME Kept, Begun, NEW g \in 1..gen' PROVE Accounted(g)'
    BY <2>1, <2>2 DEF GenerationsAccountedFor
  <2>. QED BY <2>2 DEF GenerationsAccountedFor
<1>1. ASSUME NEW w \in Workers, ReceiveAny(w) PROVE Kept /\ Begun
  <2>1. PICK s \in StepIds : Receive(w, s)
    BY <1>1 DEF ReceiveAny
  <2>2. gen' = gen
    BY <2>1 DEF Receive, history
  <2>. QED BY <2>1, <2>2, ReceiveKeeps
<1>2. ASSUME NEW w \in Workers, Publish(w) \/ PublishFails(w) \/ MarkFails(w)
      PROVE  Kept /\ Begun
  <2>1. gen' = gen
    BY <1>2 DEF Publish, PublishFails, MarkFails, history
  <2>. QED BY <1>2, <2>1, SlotPublishKeeps
<1>3. ASSUME NEW w \in Workers, Settle(w) \/ WorkerCrash(w) PROVE Kept /\ Begun
  <2>1. gen' = gen
    BY <1>3 DEF Settle, WorkerCrash, history
  <2>. QED BY <1>3, <2>1, SettleKeeps
<1>4. ASSUME NEW w \in Workers, Advances(w) PROVE Kept /\ Begun
  <2>1. \A g : HandedOver(g)' => Accounted(g)'
    BY AccountedParts
  <2>2. Begun
    BY <1>4, <2>1 DEF Advances
  <2>. QED BY <1>4, <2>2, AdvanceKeeps
<1>5. ASSUME NEW w \in Workers, WorkerStep(w) \/ WorkerFault(w) PROVE Kept /\ Begun
  BY <1>2, <1>3, <1>4, <1>5, AdvanceSteps DEF WorkerStep, WorkerFault
<1>6. CASE \/ \E a \in Apis : ApiPublish(a)
           \/ \E row \in outbox : Relay(row) \/ RelayDuplicate(row)
           \/ DelayElapsed
  <2>1. gen' = gen
    BY <1>6 DEF ApiPublish, Relay, RelayDuplicate, DelayElapsed, history
  <2>. QED BY <1>6, <2>1, RelayKeeps
<1>7. CASE \/ \E a \in Apis : Resume(a) \/ ResumeUnlock(a) \/ ApiCrash(a)
           \/ \E s \in StepIds : LeaseExpires(s) \/ LeaseOverrun(s)
           \/ UNCHANGED vars
  <2>1. UNCHANGED <<outbox, queue, delayed, pc, held, raised, ended, discarded, gen>>
    BY <1>7 DEF Resume, ResumeUnlock, ApiCrash, LeaseExpires, LeaseOverrun, vars,
                outboxVars, brokerVars, workerVars, history
  <2>. QED BY <2>1, NothingMoves
<1>8. CASE \E a \in Apis : ResumeWrite(a)
  BY <1>8, ResumeBegins
<1>. QED BY <1>1, <1>5, <1>6, <1>7, <1>8 DEF Next, ApiStep

\* The task's first event is in the outbox when create_task has committed.
LEMMA DeliveryInit == Init => GenerationsAccountedFor
<1>. SUFFICES ASSUME Init, NEW g \in 1..gen PROVE InOutbox(g)
  BY DEF GenerationsAccountedFor, Accounted
<1>1. g = 1
  BY DEF Init
<1>2. PICK s \in StartSteps :
        outbox = {[id |-> 0, msg |-> Msg(s, NoStep, 1), delayed |-> FALSE]}
  BY DEF Init
<1>. QED BY <1>1, <1>2 DEF InOutbox, Msg

\* No generation of the task disappears, under crashes, refused publishes, failing
\* calls, duplicates, overrun leases and manual resumes in any number and order:
\* it ended, something still carries it, or one of its messages was discarded.
THEOREM NothingLost == Spec => []GenerationsAccountedFor
<1>1. TypeOK /\ GenerationsAccountedFor /\ [Next]_vars => GenerationsAccountedFor'
  BY DeliveryNext
<1>. QED BY <1>1, DeliveryInit, TypeCorrect, PTL DEF Spec
=============================================================================
