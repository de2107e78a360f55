---------------------------- MODULE SerialProofs ----------------------------
(***************************************************************************)
(* The bound of the retry counter as long as nobody is overtaken: one      *)
(* message carries the task through its chain, so the task's status, its   *)
(* steps and that message agree at every program point.  With two slots at *)
(* work, a slot that dies or a call that fails they do not, and the counter*)
(* is counted twice for one failure (README).                              *)
(***************************************************************************)
EXTENDS OrchestratorProofs

\* Nobody is overtaken: at most one slot and one request are at work at a time, no
\* slot dies, no call fails and no row is published twice.  Publishing may fail,
\* leases may expire, requests may die and dead letters may be resumed.
OneAtATime ==
  /\ \A v, w \in Workers : v # w => pc[v] = "idle" \/ pc[w] = "idle"
  /\ \A a, b \in Apis : a # b => apiPc[a] = "idle" \/ apiPc[b] = "idle"
  /\ faults.crash = 0 /\ faults.call = 0 /\ faults.duplicate = 0
-----------------------------------------------------------------------------
(* The one message *)

BrokerEmpty(q, d) == d = <<>> /\ \A s \in StepIds : q[s] = <<>>
NoMessage(ob, q, d) == ob = {} /\ BrokerEmpty(q, d)

\* m is the only message there is, wherever it is on its way to a slot
OnlyMessage(m, ob, q, d) ==
  \/ \E row \in Row : row.msg = m /\ ob = {row} /\ BrokerEmpty(q, d)
  \/ ob = {} /\ d = <<m>> /\ \A s \in StepIds : q[s] = <<>>
  \/ \E e \in Delivery :
        /\ e.msg = m /\ ob = {} /\ d = <<>>
        /\ \A s \in StepIds : q[s] = IF s = m.step THEN <<e>> ELSE <<>>

Earlier(s) == {t \in RestartedSteps : Position(t) < Position(s)}
Later(s)   == {t \in Workflow : Position(t) > Position(s)}
Current(S, st, o, g) == \A t \in S : st[t] = "success" /\ o[t] = g

\* The chain stands at the message's step: from the script on, what comes before is
\* done in this generation, what comes after has not begun, and a repair has a
\* failed step to repair.
Stands(m, st, o, g) ==
  /\ m.gen = g /\ Chain(m) \in Workflow
  /\ Current(Earlier(Chain(m)), st, o, g)
  /\ \A t \in Later(Chain(m)) : st[t] = "pending"
  /\ m.step = "repair" => m.target \in Producing /\ st[m.target] = "failed"

\* The retry counter when a slot starts on m.  A repair may follow any failure of
\* its step; the retries proper stop below max_retry, if that is positive.
Slack(m) == MAX_RETRY + Position(Chain(m)) - (IF m.step = "repair" THEN 1 ELSE 2)
Within(n, k) == MAX_RETRY > 0 => n <= k
LastSlack == MAX_RETRY + Len(WORKFLOW_STEPS) - 2

\* a slot that starts on m finds the task and the step as the tables want them
Startable(m, ts, n, st, o, g) ==
  /\ Stands(m, st, o, g)
  /\ ts \in {"created", "queued", "running", "retrying"}
  /\ st[m.step] \in {"pending", "retrying"}
  /\ Within(n, Slack(m))
-----------------------------------------------------------------------------
(* The invariant *)

\* program points of a slot that holds the one message
Holding == {"acquire", "check", "task_running", "task_running_write", "step_running",
            "step_running_write", "agent", "success_commit", "failure_commit",
            "mark_retrying", "schedule_retry", "schedule_retry_write",
            "schedule_repair", "dead_letter_commit", "repair_apply", "evaluate",
            "evaluate_write", "verdict", "eval_retry", "eval_reset", "finalize",
            "finalize_write"}

\* program points of a slot that is done with its message
Handed == {"idle", "dead_letter_publish", "release", "settle"}

\* what a slot at program point p with message m and result r knows of the task
Facts(p, m, r, ts, n, st, o, g) ==
  /\ p \in {"acquire", "check", "task_running", "task_running_write"} =>
       Startable(m, ts, n, st, o, g)
  /\ p \in {"step_running", "step_running_write"} =>
       Startable(m, ts, n, st, o, g) /\ ts = "running"
  /\ p \in {"agent", "success_commit", "failure_commit"} =>
       /\ Stands(m, st, o, g) /\ ts = "running" /\ st[m.step] = "running"
       /\ Within(n, Slack(m))
  /\ p = "mark_retrying" =>
       /\ Stands(m, st, o, g) /\ ts = "running" /\ st[m.step] = "failed"
       /\ Within(n, Slack(m))
  /\ p \in {"schedule_retry", "schedule_retry_write", "schedule_repair"} =>
       /\ Stands(m, st, o, g) /\ ts = "retrying" /\ st[m.step] = "failed"
       /\ IF p = "schedule_repair" THEN Within(n, Slack(m) + 1) ELSE n < MAX_RETRY
  /\ p \in {"dead_letter_commit", "eval_reset"} =>
       ts = "retrying" /\ (p = "eval_reset" => n < MAX_RETRY)
  /\ p = "repair_apply" =>
       /\ Stands(m, st, o, g) /\ ts = "running" /\ m.step = "repair"
       /\ Within(n, Slack(m))
  /\ p \in {"evaluate", "evaluate_write", "verdict", "eval_retry"} =>
       /\ m.gen = g /\ Current(RestartedSteps, st, o, g)
       /\ ts = IF p \in {"evaluate", "evaluate_write"} THEN "running" ELSE "evaluating"
       /\ Within(n, LastSlack)
  /\ p \in {"finalize", "finalize_write"} =>
       /\ m.gen = g /\ Current(RestartedSteps, st, o, g)
       /\ ts \in {"evaluating", "retrying"} /\ (r = "passed" => ts = "evaluating")
  /\ p \in {"failure_commit", "mark_retrying", "schedule_retry", "schedule_retry_write",
            "schedule_repair", "eval_retry", "eval_reset"} => r # "success"

Knows(w) == Facts(pc[w], held[w].msg, res[w], status, retries, steps, out, gen)

SlotInv(w) ==
  /\ ~raised[w]
  /\ pc[w] \in Holding \cup Handed \cup {"publish", "late_running"}
  /\ pc[w] \in Holding => NoMessage(outbox, queue, delayed) /\ Knows(w)
  /\ pc[w] = "publish" =>
       outbox = {ev[w]} /\ (res[w] = "success" => status = "running")
  /\ pc[w] = "late_running" => status = "running"

\* a message no slot holds can be started on, wherever it is
TransitInv ==
  (\A w \in Workers : pc[w] \notin Holding) =>
    \/ NoMessage(outbox, queue, delayed)
    \/ \E m \in Message : /\ OnlyMessage(m, outbox, queue, delayed)
                          /\ Startable(m, status, retries, steps, out, gen)

RequestInv(a) ==
  /\ apiPc[a] # "idle" => \A w \in Workers : pc[w] \in Handed
  /\ apiPc[a] = "resume_write" => status = "dead_letter"
  /\ apiPc[a] \in {"unlock", "publish"} => outbox = {apiEvent[a]}

TokenInv ==
  /\ \A w \in Workers : SlotInv(w)
  /\ TransitInv
  /\ \A a \in Apis : RequestInv(a)
  /\ ResultsAreCurrent
  /\ MAX_RETRY > 0 => RetryBudget
-----------------------------------------------------------------------------
(* The chain *)

\* What is restarted is the chain from the script on.
LEMMA Restarted ==
  /\ RestartedSteps \subseteq Workflow /\ "script_generation" \in RestartedSteps
  /\ \A s \in Workflow : Position(s) <= Position("script_generation") => Earlier(s) = {}
BY Positions, StepSets DEF RestartedSteps, StepsFrom, Earlier

\* A step is neither before nor after itself.
LEMMA Apart ==
  ASSUME NEW m \in Message, Chain(m) \in Workflow
  PROVE  /\ m.step \notin Earlier(Chain(m)) /\ m.step \notin Later(Chain(m))
         /\ Earlier(Chain(m)) \subseteq Workflow /\ Later(Chain(m)) \subseteq Workflow
<1>1. m.step = "repair" => m.step \notin Workflow
  BY WorkflowAssumption
<1>. QED BY <1>1, Positions, Restarted DEF Earlier, Later, Chain

\* Writing the row of the message's own step moves the chain neither back nor forth.
LEMMA Touch ==
  ASSUME NEW m \in Message, NEW st, NEW o, NEW st2, NEW o2, NEW g,
         Stands(m, st, o, g),
         \A t \in StepIds \ {m.step} : st2[t] = st[t] /\ o2[t] = o[t]
  PROVE  Stands(m, st2, o2, g)
<1>1. Chain(m) \in Workflow /\ m.step = "repair" => m.target \in Workflow /\ m.target # m.step
  BY WorkflowAssumption DEF Chain
<1>2. Earlier(Chain(m)) \subseteq StepIds \ {m.step} /\ Later(Chain(m)) \subseteq StepIds \ {m.step}
  BY Apart, StepSets DEF Stands
<1>. QED BY <1>1, <1>2, StepSets DEF Stands, Current

\* Completing a step of the chain moves the chain to the next.
LEMMA Advance ==
  ASSUME NEW s \in Producing, NEW tg \in Producing \cup {NoStep}, NEW g \in Nat,
         NEW st, NEW o, NEW st2, NEW o2,
         Current(Earlier(s), st, o, g), st2[s] = "success", o2[s] = g,
         \A t \in Earlier(s) : st2[t] = st[t] /\ o2[t] = o[t],
         \A t \in Later(s) : st2[t] = "pending"
  PROVE  /\ Stands(Msg(NextStep(s), tg, g), st2, o2, g)
         /\ st2[NextStep(s)] = "pending"
         /\ Chain(Msg(NextStep(s), tg, g)) = NextStep(s)
         /\ NextStep(s) # "repair"
<1>1. /\ NextStep(s) \in Workflow /\ Position(NextStep(s)) = Position(s) + 1
      /\ NextStep(s) # "repair"
  BY NextStepType, WorkflowAssumption
<1>2. Chain(Msg(NextStep(s), tg, g)) = NextStep(s)
  BY <1>1 DEF Chain, Msg
<1>3. NextStep(s) \in Later(s)
  BY <1>1, Positions DEF Later, Producing
<1>4. Earlier(NextStep(s)) \subseteq Earlier(s) \cup {s}
  BY <1>1, Positions, Restarted DEF Earlier, Producing
<1>5. Later(NextStep(s)) \subseteq Later(s)
  BY <1>1, Positions DEF Later, Producing
<1>6. Current(Earlier(NextStep(s)), st2, o2, g)
  BY <1>4 DEF Current
<1>. QED BY <1>1, <1>2, <1>3, <1>5, <1>6 DEF Stands, Msg

\* Completing the evaluation completes the chain.
LEMMA Complete ==
  ASSUME NEW st, NEW o, NEW st2, NEW o2, NEW g,
         Current(Earlier("quality_evaluation"), st, o, g),
         st2["quality_evaluation"] = "success", o2["quality_evaluation"] = g,
         \A t \in Earlier("quality_evaluation") : st2[t] = st[t] /\ o2[t] = o[t]
  PROVE  Current(RestartedSteps, st2, o2, g)
<1>1. RestartedSteps \subseteq Earlier("quality_evaluation") \cup {"quality_evaluation"}
  BY Positions, Restarted DEF Earlier
<1>. QED BY <1>1 DEF Current

\* A start at the script or before finds nothing done that it depends on.
LEMMA Restart ==
  ASSUME NEW s \in Workflow, Position(s) <= Position("script_generation"), NEW g,
         NEW st, NEW o, \A t \in StepsFrom(s) : st[t] = "pending"
  PROVE  /\ Stands(Msg(s, NoStep, g), st, o, g) /\ st[s] = "pending"
         /\ Chain(Msg(s, NoStep, g)) = s /\ s # "repair"
<1>1. s # "repair" /\ Chain(Msg(s, NoStep, g)) = s
  BY WorkflowAssumption DEF Chain, Msg
<1>2. Later(s) \subseteq StepsFrom(s) /\ s \in StepsFrom(s) /\ Earlier(s) = {}
  BY Positions, Restarted DEF Later, StepsFrom
<1>. QED BY <1>1, <1>2 DEF Stands, Current, Msg
-----------------------------------------------------------------------------
(* The message on its way *)

\* Publishing the only row hands the only message to the broker.
LEMMA Published ==
  ASSUME MessagesTypeOK, NEW row \in Row, outbox = {row}, BrokerEmpty(queue, delayed),
         PublishStep(row), outbox' = outbox \ {row}
  PROVE  OnlyMessage(row.msg, outbox', queue', delayed')
<1>1. row.msg \in Message /\ row.msg.step \in StepIds
  BY DEF Row, Message
<1>2. outbox' = {}
  OBVIOUS
<1>3. CASE row.delayed
  <2>1. delayed' = <<row.msg>> /\ UNCHANGED queue
    BY <1>3 DEF PublishStep, BrokerEmpty
  <2>. QED BY <1>2, <2>1 DEF OnlyMessage, BrokerEmpty
<1>4. CASE ~row.delayed
  <2> DEFINE e == [msg |-> row.msg, redelivered |-> FALSE]
  <2>1. e \in Delivery /\ e.msg = row.msg
    BY <1>1 DEF Delivery
  <2>2. /\ queue' = [queue EXCEPT ![row.msg.step] = Append(@, e)]
        /\ delayed' = <<>> /\ queue \in [StepIds -> Seq(Delivery)]
        /\ \A s \in StepIds : queue[s] = <<>>
    BY <1>4 DEF PublishStep, BrokerEmpty, MessagesTypeOK
  <2>3. Append(<<>>, e) = <<e>>
    OBVIOUS
  <2>. HIDE DEF e
  <2>4. \A s \in StepIds : queue'[s] = IF s = row.msg.step THEN <<e>> ELSE <<>>
    BY <1>1, <2>2, <2>3
  <2>. QED BY <1>2, <2>1, <2>2, <2>4 DEF OnlyMessage
<1>. QED BY <1>3, <1>4

\* The delay ends and leaves the only message in its work queue.
LEMMA Elapsed ==
  ASSUME MessagesTypeOK, NEW m \in Message, OnlyMessage(m, outbox, queue, delayed),
         DelayElapsed
  PROVE  OnlyMessage(m, outbox', queue', delayed')
<1>1. /\ outbox = {} /\ delayed = <<m>> /\ \A s \in StepIds : queue[s] = <<>>
  BY DEF OnlyMessage, BrokerEmpty, DelayElapsed
<1>2. m.step \in StepIds
  BY DEF Message
<1> DEFINE e == [msg |-> m, redelivered |-> FALSE]
<1>3. e \in Delivery /\ e.msg = m
  BY DEF Delivery
<1>4. Head(delayed) = m /\ Tail(delayed) = <<>>
  BY <1>1
<1>5. /\ queue' = [queue EXCEPT ![m.step] = Append(@, e)]
      /\ delayed' = <<>> /\ outbox' = {}
      /\ queue \in [StepIds -> Seq(Delivery)]
  BY <1>1, <1>4 DEF DelayElapsed, MessagesTypeOK, outboxVars
<1>6. Append(<<>>, e) = <<e>>
  OBVIOUS
<1>. HIDE DEF e
<1>7. \A s \in StepIds : queue'[s] = IF s = m.step THEN <<e>> ELSE <<>>
  BY <1>1, <1>2, <1>5, <1>6
<1>. QED BY <1>3, <1>5, <1>7 DEF OnlyMessage

\* Whoever is handed a delivery is handed the only message, and none is left.
LEMMA Taken ==
  ASSUME MessagesTypeOK, NEW m \in Message, OnlyMessage(m, outbox, queue, delayed),
         NEW w \in Workers, NEW s \in StepIds, Receive(w, s)
  PROVE  Head(queue[s]).msg = m /\ NoMessage(outbox', queue', delayed')
<1>1. PICK e \in Delivery :
        /\ e.msg = m /\ outbox = {} /\ delayed = <<>>
        /\ \A t \in StepIds : queue[t] = IF t = m.step THEN <<e>> ELSE <<>>
  BY DEF OnlyMessage, BrokerEmpty, Receive
<1>2. s = m.step /\ queue[s] = <<e>>
  BY <1>1 DEF Receive
<1>3. Head(queue[s]) = e /\ Tail(queue[s]) = <<>>
  BY <1>2
<1>4. /\ queue' = [queue EXCEPT ![s] = <<>>] /\ outbox' = {} /\ delayed' = <<>>
      /\ queue \in [StepIds -> Seq(Delivery)]
  BY <1>1, <1>3 DEF Receive, outboxVars, MessagesTypeOK
<1>5. \A t \in StepIds : queue'[t] = <<>>
  BY <1>1, <1>2, <1>4
<1>. QED BY <1>1, <1>3, <1>4, <1>5 DEF NoMessage, BrokerEmpty

\* A new event, when there was no message, is the only one.
LEMMA Enqueued ==
  ASSUME NEW row \in Row, NoMessage(outbox, queue, delayed), EnqueueStepEvent(row),
         UNCHANGED brokerVars
  PROVE  outbox' = {row} /\ OnlyMessage(row.msg, outbox', queue', delayed')
<1>1. outbox' = {row} /\ UNCHANGED <<queue, delayed>> /\ BrokerEmpty(queue, delayed)
  BY DEF NoMessage, EnqueueStepEvent, brokerVars
<1>. QED BY <1>1 DEF OnlyMessage

\* The one message is in one place.
LEMMA OnePlace ==
  ASSUME NEW m \in Message, OnlyMessage(m, outbox, queue, delayed)
  PROVE  /\ ~NoMessage(outbox, queue, delayed)
         /\ \A row \in outbox : /\ outbox = {row} /\ row.msg = m /\ row \in Row
                                /\ BrokerEmpty(queue, delayed)
<1>1. m.step \in StepIds
  BY DEF Message
<1>2. ASSUME NoMessage(outbox, queue, delayed) PROVE FALSE
  <2>1. CASE \E row \in Row : outbox = {row}
    BY <1>2, <2>1 DEF NoMessage
  <2>2. CASE delayed = <<m>>
    <3>1. delayed = <<>>
      BY <1>2 DEF NoMessage, BrokerEmpty
    <3>2. Len(<<m>>) = 1 /\ Len(<<>>) = 0
      OBVIOUS
    <3>. QED BY <2>2, <3>1, <3>2
  <2>3. CASE \E e \in Delivery : \A s \in StepIds :
               queue[s] = IF s = m.step THEN <<e>> ELSE <<>>
    <3>1. PICK e \in Delivery : queue[m.step] = <<e>>
      BY <1>1, <2>3
    <3>2. queue[m.step] = <<>>
      BY <1>1, <1>2 DEF NoMessage, BrokerEmpty
    <3>3. Len(<<e>>) = 1 /\ Len(<<>>) = 0
      OBVIOUS
    <3>. QED BY <3>1, <3>2, <3>3
  <2>. QED BY <2>1, <2>2, <2>3 DEF OnlyMessage
<1>. QED BY <1>2 DEF OnlyMessage
-----------------------------------------------------------------------------
(* One slot at work *)

\* all other slots and all requests rest
Alone(w) ==
  /\ \A v \in Workers \ {w} : pc[v] = "idle"
  /\ \A a \in Apis : apiPc[a] = "idle"

\* A slot that holds the message, or publishes the next, is alone.
LEMMA AtWorkAlone ==
  ASSUME TokenInv, OneAtATime, NEW w \in Workers, pc[w] \notin Handed
  PROVE  Alone(w)
BY DEF TokenInv, RequestInv, OneAtATime, Alone, Handed

\* steps of a slot that is alone, and of the message it held
SlotStep(w) ==
  /\ \A v \in Workers \ {w} : pc'[v] = pc[v]
  /\ UNCHANGED <<raised, apiPc>>

LEMMA CarryOn ==
  ASSUME TypeOK, TokenInv, NEW w \in Workers, Alone(w), SlotStep(w),
         pc[w] \in Holding, pc'[w] \in Holding, UNCHANGED <<outbox, queue, delayed>>,
         Facts(pc'[w], held'[w].msg, res'[w], status', retries', steps', out', gen'),
         ResultsAreCurrent', (MAX_RETRY > 0 => RetryBudget)'
  PROVE  TokenInv'
<1>1. SlotInv(w)'
  <2>1. ~raised'[w] /\ NoMessage(outbox', queue', delayed')
    BY DEF TokenInv, SlotInv, SlotStep
  <2>2. pc'[w] \notin {"publish", "late_running"}
    BY DEF Holding
  <2>. QED BY <2>1, <2>2 DEF SlotInv, Knows
<1>2. ASSUME NEW v \in Workers \ {w} PROVE SlotInv(v)'
  <2>1. pc'[v] = "idle" /\ ~raised'[v]
    BY DEF TokenInv, SlotInv, SlotStep, Alone
  <2>. QED BY <2>1 DEF SlotInv, Holding, Handed
<1>3. TransitInv'
  BY DEF TransitInv
<1>4. \A a \in Apis : RequestInv(a)'
  BY DEF RequestInv, Alone, SlotStep
<1>. QED BY <1>1, <1>2, <1>3, <1>4 DEF TokenInv

LEMMA LetGo ==
  ASSUME TypeOK, TokenInv, NEW w \in Workers, Alone(w), SlotStep(w),
         pc[w] \in Holding, pc'[w] \in Handed, UNCHANGED <<outbox, queue, delayed>>,
         ResultsAreCurrent', (MAX_RETRY > 0 => RetryBudget)'
  PROVE  TokenInv'
<1>0. NoMessage(outbox', queue', delayed')
  BY DEF TokenInv, SlotInv
<1>1. ASSUME NEW v \in Workers PROVE SlotInv(v)'
  <2>1. pc'[v] \in Handed /\ ~raised'[v]
    BY DEF TokenInv, SlotInv, SlotStep, Alone, Handed
  <2>. QED BY <2>1 DEF SlotInv, Holding, Handed
<1>2. TransitInv'
  BY <1>0 DEF TransitInv
<1>3. \A a \in Apis : RequestInv(a)'
  BY DEF RequestInv, Alone, SlotStep
<1>. QED BY <1>1, <1>2, <1>3 DEF TokenInv

LEMMA HandOver ==
  ASSUME TypeOK, TokenInv, NEW w \in Workers, Alone(w), SlotStep(w),
         pc[w] \in Holding, pc'[w] = "publish",
         NEW row \in Row, EnqueueStepEvent(row), ev'[w] = row, UNCHANGED brokerVars,
         Startable(row.msg, status', retries', steps', out', gen'),
         res'[w] = "success" => status' = "running",
         ResultsAreCurrent', (MAX_RETRY > 0 => RetryBudget)'
  PROVE  TokenInv'
<1>0. outbox' = {row} /\ OnlyMessage(row.msg, outbox', queue', delayed')
  BY Enqueued DEF TokenInv, SlotInv
<1>1. SlotInv(w)'
  <2>1. ~raised'[w]
    BY DEF TokenInv, SlotInv, SlotStep
  <2>. QED BY <1>0, <2>1 DEF SlotInv, Holding
<1>2. ASSUME NEW v \in Workers \ {w} PROVE SlotInv(v)'
  <2>1. pc'[v] = "idle" /\ ~raised'[v]
    BY DEF TokenInv, SlotInv, SlotStep, Alone
  <2>. QED BY <2>1 DEF SlotInv, Holding, Handed
<1>3. TransitInv'
  <2>1. row.msg \in Message
    BY DEF Row
  <2>. QED BY <1>0, <2>1 DEF TransitInv
<1>4. \A a \in Apis : RequestInv(a)'
  BY DEF RequestInv, Alone, SlotStep
<1>. QED BY <1>1, <1>2, <1>3, <1>4 DEF TokenInv

\* What a slot knows that holds the message.
LEMMA Holder ==
  ASSUME TypeOK, TokenInv, NEW w \in Workers, pc[w] \in Holding
  PROVE  /\ Knows(w) /\ ~raised[w]
         /\ held[w].msg \in Message /\ held[w].msg.step \in StepIds
         /\ held[w].msg.gen \in Nat /\ held[w].msg.target \in Producing \cup {NoStep}
         /\ pc \in [Workers -> ProgramPoints] /\ retries \in Nat /\ gen \in Nat
         /\ steps \in [StepIds -> StepStatus] /\ out \in [StepIds -> Nat]
<1>1. pc[w] # "idle"
  BY DEF Holding
<1>2. Knows(w) /\ ~raised[w]
  BY DEF TokenInv, SlotInv
<1>. QED BY <1>1, <1>2, HeldType
         DEF TypeOK, SlotsTypeOK, TaskTypeOK, HistoryTypeOK, step, Gen
-----------------------------------------------------------------------------
(* From the lease to the agent's result *)

LEMMA RunToken ==
  ASSUME TypeOK, TokenInv, NEW w \in Workers, Alone(w)
  PROVE  /\ Acquire(w) => TokenInv'
         /\ CheckStep(w) => TokenInv'
         /\ TaskRunning(w) => TokenInv'
         /\ TaskRunningWrite(w) => TokenInv'
         /\ StepRunning(w) => TokenInv'
         /\ StepRunningWrite(w) => TokenInv'
         /\ RunAgent(w) => TokenInv'
<1> DEFINE m == held[w].msg
<1>0. ResultsAreCurrent /\ (MAX_RETRY > 0 => RetryBudget)
  BY DEF TokenInv
<1>1. ASSUME Acquire(w) PROVE TokenInv'
  <2>1. /\ pc[w] = "acquire" /\ pc[w] \in Holding
        /\ UNCHANGED <<status, retries, steps, out, gen, outbox, queue, delayed, held,
                       res, raised, apiPc>>
    BY <1>1 DEF Acquire, Holding, taskVars, stepVars, outboxVars, brokerVars, apiVars
  <2>2. Startable(m, status, retries, steps, out, gen)
    BY <2>1, Holder DEF Knows, Facts
  <2>3. SlotStep(w) /\ pc'[w] \in {"check", "settle"}
    BY <1>1, <2>1, Holder DEF Acquire, SlotStep, Goto
  <2>4. ResultsAreCurrent' /\ (MAX_RETRY > 0 => RetryBudget)'
    BY <1>0, <2>1 DEF ResultsAreCurrent, RetryBudget
  <2>5. CASE pc'[w] = "check"
    <3>1. Facts("check", m, res[w], status, retries, steps, out, gen)
      BY <2>2 DEF Facts
    <3>2. pc'[w] \in Holding
      BY <2>5 DEF Holding
    <3>. QED BY <2>1, <2>3, <2>4, <2>5, <3>1, <3>2, CarryOn
  <2>6. CASE pc'[w] = "settle"
    BY <2>1, <2>3, <2>4, <2>6, LetGo DEF Handed
  <2>. QED BY <2>3, <2>5, <2>6
<1>2. ASSUME CheckStep(w) PROVE TokenInv'
  <2>1. /\ pc[w] = "check" /\ pc[w] \in Holding
        /\ UNCHANGED <<status, retries, steps, out, gen, outbox, queue, delayed, held,
                       res, raised, apiPc>>
    BY <1>2 DEF CheckStep, Holding, taskVars, stepVars, outboxVars, brokerVars, apiVars
  <2>2. Startable(m, status, retries, steps, out, gen)
    BY <2>1, Holder DEF Knows, Facts
  <2>3. SlotStep(w) /\ pc'[w] = "task_running"
    BY <1>2, <2>1, <2>2, Holder DEF CheckStep, SlotStep, Goto, Startable, step
  <2>4. ResultsAreCurrent' /\ (MAX_RETRY > 0 => RetryBudget)'
    BY <1>0, <2>1 DEF ResultsAreCurrent, RetryBudget
  <2>5. Facts("task_running", m, res[w], status, retries, steps, out, gen)
    BY <2>2 DEF Facts
  <2>6. pc'[w] \in Holding
    BY <2>3 DEF Holding
  <2>. QED BY <2>1, <2>3, <2>4, <2>5, <2>6, CarryOn
<1>3. ASSUME TaskRunning(w) PROVE TokenInv'
  <2>1. /\ pc[w] = "task_running" /\ pc[w] \in Holding
        /\ UNCHANGED <<status, retries, steps, out, gen, outbox, queue, delayed, held,
                       res, apiPc>>
    BY <1>3 DEF TaskRunning, Holding, taskVars, stepVars, outboxVars, brokerVars, apiVars,
                history
  <2>2. Startable(m, status, retries, steps, out, gen)
    BY <2>1, Holder DEF Knows, Facts
  <2>3. status = "running" \/ CanTransitionTask(status, "running")
    BY <2>2 DEF Startable, CanTransitionTask, TASK_TRANSITIONS
  <2>4. /\ SlotStep(w)
        /\ \/ pc'[w] = "task_running_write"
           \/ pc'[w] = "step_running" /\ status = "running"
    BY <1>3, <2>1, <2>3, Holder DEF TaskRunning, DecideTask, Decide, SlotStep, Goto
  <2>5. ResultsAreCurrent' /\ (MAX_RETRY > 0 => RetryBudget)'
    BY <1>0, <2>1 DEF ResultsAreCurrent, RetryBudget
  <2>6. Facts(pc'[w], m, res[w], status, retries, steps, out, gen)
    BY <2>2, <2>4 DEF Facts
  <2>7. pc'[w] \in Holding
    BY <2>4 DEF Holding
  <2>. QED BY <2>1, <2>4, <2>5, <2>6, <2>7, CarryOn
<1>4. ASSUME TaskRunningWrite(w) PROVE TokenInv'
  <2>1. /\ pc[w] = "task_running_write" /\ pc[w] \in Holding /\ status' = "running"
        /\ UNCHANGED <<retries, steps, out, gen, outbox, queue, delayed, held, res,
                       raised, apiPc>>
    BY <1>4 DEF TaskRunningWrite, WriteTask, Holding, stepVars, outboxVars, brokerVars,
                apiVars
  <2>2. Startable(m, status, retries, steps, out, gen)
    BY <2>1, Holder DEF Knows, Facts
  <2>3. SlotStep(w) /\ pc'[w] = "step_running"
    BY <1>4, <2>1, Holder DEF TaskRunningWrite, WriteTask, SlotStep, Goto
  <2>4. ResultsAreCurrent' /\ (MAX_RETRY > 0 => RetryBudget)'
    BY <1>0, <2>1 DEF ResultsAreCurrent, RetryBudget
  <2>5. Facts("step_running", m, res[w], status', retries, steps, out, gen)
    BY <2>1, <2>2 DEF Facts, Startable
  <2>6. pc'[w] \in Holding
    BY <2>3 DEF Holding
  <2>. QED BY <2>1, <2>3, <2>4, <2>5, <2>6, CarryOn
<1>5. ASSUME StepRunning(w) PROVE TokenInv'
  <2>1. /\ pc[w] = "step_running" /\ pc[w] \in Holding
        /\ UNCHANGED <<status, retries, steps, out, gen, outbox, queue, delayed, held,
                       res, apiPc>>
    BY <1>5 DEF StepRunning, Holding, taskVars, stepVars, outboxVars, brokerVars, apiVars,
                history
  <2>2. Startable(m, status, retries, steps, out, gen) /\ status = "running"
    BY <2>1, Holder DEF Knows, Facts
  <2>3. steps[step(w)] # "running" /\ CanTransitionStep(steps[step(w)], "running")
    BY <2>2 DEF Startable, CanTransitionStep, STEP_TRANSITIONS, step
  <2>4. SlotStep(w) /\ pc'[w] = "step_running_write"
    BY <1>5, <2>1, <2>3, Holder DEF StepRunning, Decide, SlotStep, Goto
  <2>5. ResultsAreCurrent' /\ (MAX_RETRY > 0 => RetryBudget)'
    BY <1>0, <2>1 DEF ResultsAreCurrent, RetryBudget
  <2>6. Facts("step_running_write", m, res[w], status, retries, steps, out, gen)
    BY <2>2 DEF Facts
  <2>7. pc'[w] \in Holding
    BY <2>4 DEF Holding
  <2>. QED BY <2>1, <2>4, <2>5, <2>6, <2>7, CarryOn
<1>6. ASSUME StepRunningWrite(w) PROVE TokenInv'
  <2>1. /\ pc[w] = "step_running_write" /\ pc[w] \in Holding
        /\ UNCHANGED <<status, retries, out, gen, outbox, queue, delayed, held, res,
                       raised, apiPc>>
        /\ steps' = [steps EXCEPT ![m.step] = "running"]
    BY <1>6 DEF StepRunningWrite, Holding, taskVars, outboxVars, brokerVars, apiVars,
                history, step
  <2>2. Startable(m, status, retries, steps, out, gen) /\ status = "running"
    BY <2>1, Holder DEF Knows, Facts
  <2>3. SlotStep(w) /\ pc'[w] = "agent"
    BY <1>6, <2>1, Holder DEF StepRunningWrite, SlotStep, Goto
  <2>4. Stands(m, steps', out, gen) /\ steps'[m.step] = "running"
    <3>1. /\ m \in Message /\ steps'[m.step] = "running"
          /\ \A t \in StepIds \ {m.step} : steps'[t] = steps[t]
      BY <2>1, Holder
    <3>2. Stands(m, steps, out, gen)
      BY <2>2 DEF Startable
    <3>. HIDE DEF m
    <3>. QED BY <3>1, <3>2, Touch
  <2>5. ResultsAreCurrent' /\ (MAX_RETRY > 0 => RetryBudget)'
    BY <1>0, <2>1, <2>2 DEF ResultsAreCurrent, RetryBudget
  <2>6. Facts("agent", m, res[w], status, retries, steps', out, gen)
    BY <2>2, <2>4 DEF Facts, Startable
  <2>7. pc'[w] \in Holding
    BY <2>3 DEF Holding
  <2>. QED BY <2>1, <2>3, <2>5, <2>6, <2>7, CarryOn
<1>7. ASSUME RunAgent(w) PROVE TokenInv'
  <2>1. /\ pc[w] = "agent" /\ pc[w] \in Holding
        /\ UNCHANGED <<status, retries, steps, out, gen, outbox, queue, delayed, held,
                       raised, apiPc>>
    BY <1>7 DEF RunAgent, Holding, taskVars, stepVars, outboxVars, brokerVars, apiVars,
                history
  <2>2. /\ Stands(m, steps, out, gen) /\ status = "running" /\ steps[m.step] = "running"
        /\ Within(retries, Slack(m))
    BY <2>1, Holder DEF Knows, Facts
  <2>3. /\ SlotStep(w)
        /\ \/ pc'[w] = "success_commit"
           \/ pc'[w] = "failure_commit" /\ res'[w] # "success"
    BY <1>7, <2>1, Holder DEF RunAgent, SlotStep, Goto, TypeOK, SlotsTypeOK
  <2>4. ResultsAreCurrent' /\ (MAX_RETRY > 0 => RetryBudget)'
    BY <1>0, <2>1 DEF ResultsAreCurrent, RetryBudget
  <2>5. Facts(pc'[w], m, res'[w], status, retries, steps, out, gen)
    BY <2>2, <2>3 DEF Facts
  <2>6. pc'[w] \in Holding
    BY <2>3 DEF Holding
  <2>. QED BY <2>1, <2>3, <2>4, <2>5, <2>6, CarryOn
<1>. QED BY <1>1, <1>2, <1>3, <1>4, <1>5, <1>6, <1>7
-----------------------------------------------------------------------------
(* The success of a step, and of a repair *)

\* A completed step hands the message on to its successor with the slack of one
\* more repair.
LEMMA SuccessToken ==
  ASSUME TypeOK, TokenInv, NEW w \in Workers, Alone(w), SuccessCommit(w)
  PROVE  TokenInv'
<1> DEFINE m == held[w].msg
           row == NewRow(Msg(NextStep(m.step), m.target, m.gen), FALSE)
<1>1. /\ pc[w] = "success_commit" /\ pc[w] \in Holding
      /\ UNCHANGED <<status, retries, gen, queue, delayed, held, res, raised, apiPc>>
      /\ steps' = [steps EXCEPT ![m.step] = "success"]
      /\ out' = [out EXCEPT ![m.step] = m.gen]
  BY DEF SuccessCommit, Holding, taskVars, brokerVars, apiVars, history, step, Gen
<1>2. /\ Stands(m, steps, out, gen) /\ status = "running" /\ steps[m.step] = "running"
      /\ Within(retries, Slack(m))
  BY <1>1, Holder DEF Knows, Facts
<1>3. /\ m.gen = gen /\ Chain(m) \in Workflow /\ gen \in Nat
      /\ m \in Message /\ m.step \in StepIds /\ m.target \in Producing \cup {NoStep}
  BY <1>1, <1>2, Holder DEF Stands
<1>4. SlotStep(w)
  BY <1>1, Holder DEF SuccessCommit, SlotStep, Goto
<1>5. ResultsAreCurrent' /\ (MAX_RETRY > 0 => RetryBudget)'
  BY <1>1, <1>2 DEF ResultsAreCurrent, RetryBudget, TokenInv
<1>6. /\ \A t \in StepIds \ {m.step} : steps'[t] = steps[t] /\ out'[t] = out[t]
      /\ steps'[m.step] = "success" /\ out'[m.step] = gen
  BY <1>1, <1>3, Holder
<1>7. CASE m.step \in Producing
  <2>1. /\ EnqueueStepEvent(row) /\ ev' = [ev EXCEPT ![w] = row]
        /\ pc'[w] = "publish"
    BY <1>1, <1>7, Holder DEF SuccessCommit, Goto, step, Gen
  <2>2. row \in Row /\ ev'[w] = row
    <3>1. Msg(NextStep(m.step), m.target, m.gen) \in Message
      BY <1>3, <1>7, NextStepType, StepSets, MsgType
    <3>2. row \in Row
      BY <3>1, NewRowType DEF TypeOK
    <3>. QED BY <2>1, <3>2 DEF TypeOK, SlotsTypeOK
  <2>3. Chain(m) = m.step /\ m.step # "repair"
    BY <1>7, WorkflowAssumption DEF Chain, Producing
  <2>4. /\ Current(Earlier(m.step), steps, out, gen)
        /\ \A t \in Later(m.step) : steps[t] = "pending"
        /\ m.step \notin Earlier(m.step) /\ m.step \notin Later(m.step)
        /\ Earlier(m.step) \subseteq StepIds /\ Later(m.step) \subseteq StepIds
    BY <1>2, <1>3, <2>3, Apart, StepSets DEF Stands
  <2>5. /\ Stands(row.msg, steps', out', gen) /\ steps'[row.msg.step] = "pending"
        /\ Chain(row.msg) = NextStep(m.step) /\ row.msg.step # "repair"
    <3>1. row.msg = Msg(NextStep(m.step), m.target, gen) /\ row.msg.step = NextStep(m.step)
      BY <1>3 DEF NewRow, Msg
    <3>2. /\ \A t \in Earlier(m.step) : steps'[t] = steps[t] /\ out'[t] = out[t]
          /\ \A t \in Later(m.step) : steps'[t] = "pending"
      BY <1>6, <2>4
    <3>. HIDE DEF m, row
    <3>. QED BY <1>3, <1>6, <1>7, <2>4, <3>1, <3>2, Advance
  <2>6. Within(retries, Slack(row.msg))
    <3>1. retries \in Nat /\ MAX_RETRY \in Nat
      BY <1>1, Holder, OrchestratorAssumption
    <3>. HIDE DEF row, m
    <3>2. /\ Position(m.step) \in Nat
          /\ Position(NextStep(m.step)) = Position(m.step) + 1
      BY <1>7, NextStepType, Positions, StepSets
    <3>. QED BY <1>2, <2>3, <2>5, <3>1, <3>2 DEF Within, Slack
  <2>7. Startable(row.msg, status', retries', steps', out', gen')
    BY <1>1, <1>2, <2>5, <2>6 DEF Startable
  <2>. HIDE DEF row, m
  <2>. QED BY <1>1, <1>2, <1>4, <1>5, <2>1, <2>2, <2>7, HandOver DEF SuccessCommit
<1>8. CASE m.step = "repair"
  <2>1. m.step \notin Producing
    BY <1>8, StepSets, WorkflowAssumption
  <2>2. pc'[w] = "repair_apply" /\ pc'[w] \in Holding /\ UNCHANGED outbox
    BY <1>1, <1>8, <2>1, Holder DEF SuccessCommit, Goto, Holding, step, outboxVars
  <2>3. Stands(m, steps', out', gen)
    <3>. HIDE DEF m
    <3>. QED BY <1>2, <1>3, <1>6, Touch
  <2>4. Facts("repair_apply", m, res[w], status, retries, steps', out', gen)
    BY <1>2, <1>8, <2>3 DEF Facts
  <2>. QED BY <1>1, <1>4, <1>5, <2>2, <2>4, CarryOn
<1>9. CASE m.step \notin Producing /\ m.step # "repair"
  <2>1. m.step = "quality_evaluation" /\ Chain(m) = m.step
    BY <1>3, <1>9 DEF Chain, Producing
  <2>2. pc'[w] = "evaluate" /\ pc'[w] \in Holding /\ UNCHANGED outbox
    BY <1>1, <1>9, Holder DEF SuccessCommit, Goto, Holding, step, outboxVars
  <2>3. Current(RestartedSteps, steps', out', gen)
    <3>1. /\ Current(Earlier(m.step), steps, out, gen)
          /\ m.step \notin Earlier(m.step) /\ Earlier(m.step) \subseteq StepIds
      BY <1>2, <1>3, <2>1, Apart, StepSets DEF Stands
    <3>2. \A t \in Earlier(m.step) : steps'[t] = steps[t] /\ out'[t] = out[t]
      BY <1>6, <3>1
    <3>. HIDE DEF m
    <3>. QED BY <1>6, <2>1, <3>1, <3>2, Complete
  <2>4. Within(retries, LastSlack)
    <3>1. Slack(m) = LastSlack
      BY <2>1, Positions DEF Slack, LastSlack
    <3>. QED BY <1>2, <3>1
  <2>5. Facts("evaluate", m, res[w], status, retries, steps', out', gen)
    BY <1>2, <1>3, <2>3, <2>4 DEF Facts
  <2>. QED BY <1>1, <1>4, <1>5, <2>2, <2>5, CarryOn
<1>. QED BY <1>7, <1>8, <1>9

\* A repaired step counts as completed, and the chain goes on behind it.
LEMMA RepairToken ==
  ASSUME TypeOK, TokenInv, NEW w \in Workers, Alone(w), RepairApply(w)
  PROVE  TokenInv'
<1> DEFINE m == held[w].msg
           s == m.target
           row == NewRow(Msg(NextStep(s), NoStep, m.gen), FALSE)
<1>1. /\ pc[w] = "repair_apply" /\ pc[w] \in Holding
      /\ UNCHANGED <<status, retries, gen, queue, delayed, held, res, apiPc>>
  BY DEF RepairApply, Holding, taskVars, brokerVars, apiVars, history
<1>2. /\ Stands(m, steps, out, gen) /\ status = "running" /\ m.step = "repair"
      /\ Within(retries, Slack(m))
  BY <1>1, Holder DEF Knows, Facts
<1>3. /\ m.gen = gen /\ gen \in Nat /\ m \in Message /\ m.step \in StepIds
      /\ s \in Producing /\ s \in Workflow /\ s \in StepIds /\ Chain(m) = s
      /\ Current(Earlier(s), steps, out, gen)
  BY <1>1, <1>2, Holder, StepSets DEF Stands, Chain
<1>4. /\ UNCHANGED raised /\ EnqueueStepEvent(row) /\ ev' = [ev EXCEPT ![w] = row]
      /\ pc' = [pc EXCEPT ![w] = "publish"]
      /\ steps' = [t \in StepIds |-> IF t = s THEN "success"
                     ELSE IF t \in StepsFrom(s) \ {s} THEN "pending" ELSE steps[t]]
      /\ out' = [t \in StepIds |-> IF t = s THEN m.gen
                     ELSE IF t \in StepsFrom(s) \ {s} THEN 0 ELSE out[t]]
  BY <1>3 DEF RepairApply, Goto, Gen
<1>5. SlotStep(w) /\ pc'[w] = "publish"
  BY <1>1, <1>4, Holder DEF SlotStep
<1>6. ResultsAreCurrent' /\ (MAX_RETRY > 0 => RetryBudget)'
  BY <1>1, <1>2 DEF ResultsAreCurrent, RetryBudget, TokenInv
<1>7. row \in Row /\ ev'[w] = row
  <2>1. Msg(NextStep(s), NoStep, m.gen) \in Message
    BY <1>3, NextStepType, StepSets, MsgType
  <2>2. row \in Row
    BY <2>1, NewRowType DEF TypeOK
  <2>. QED BY <1>4, <2>2 DEF TypeOK, SlotsTypeOK
<1>8. /\ Stands(row.msg, steps', out', gen) /\ steps'[row.msg.step] = "pending"
      /\ Chain(row.msg) = NextStep(s) /\ row.msg.step # "repair"
  <2>1. row.msg = Msg(NextStep(s), NoStep, gen) /\ row.msg.step = NextStep(s)
    BY <1>3 DEF NewRow, Msg
  <2>2. /\ Earlier(s) \cap StepsFrom(s) = {} /\ Earlier(s) \subseteq StepIds
        /\ Later(s) \subseteq StepsFrom(s) \ {s} /\ Later(s) \subseteq StepIds
    <3>. HIDE DEF m, s, row
    <3>. QED BY <1>3, Positions, Restarted, StepSets DEF Earlier, Later, StepsFrom
  <2>3. s \in StepsFrom(s)
    BY <1>3, Positions DEF StepsFrom
  <2>4. /\ steps'[s] = "success" /\ out'[s] = gen
        /\ \A t \in Earlier(s) : steps'[t] = steps[t] /\ out'[t] = out[t]
        /\ \A t \in Later(s) : steps'[t] = "pending"
    BY <1>3, <1>4, <2>2, <2>3
  <2>. HIDE DEF m, s, row
  <2>. QED BY <1>3, <2>1, <2>4, Advance
<1>9. Within(retries, Slack(row.msg))
  <2>1. /\ Position(s) \in Nat /\ Position(NextStep(s)) = Position(s) + 1
        /\ MAX_RETRY \in Nat
    BY <1>3, NextStepType, Positions, OrchestratorAssumption
  <2>. HIDE DEF m, s, row
  <2>. QED BY <1>2, <1>3, <1>8, <2>1 DEF Within, Slack
<1>10. Startable(row.msg, status', retries', steps', out', gen')
  BY <1>1, <1>2, <1>8, <1>9 DEF Startable
<1>. HIDE DEF m, s, row
<1>. QED BY <1>1, <1>2, <1>4, <1>5, <1>6, <1>7, <1>10, HandOver DEF RepairApply
-----------------------------------------------------------------------------
(* The failure of a step *)

LEMMA FailureToken ==
  ASSUME TypeOK, TokenInv, NEW w \in Workers, Alone(w)
  PROVE  /\ FailureCommit(w) => TokenInv'
         /\ MarkRetrying(w) => TokenInv'
         /\ ScheduleRetry(w) => TokenInv'
         /\ DeadLetterCommit(w) => TokenInv'
<1> DEFINE m == held[w].msg
<1>1. ASSUME FailureCommit(w) PROVE TokenInv'
  <2>1. /\ pc[w] = "failure_commit" /\ pc[w] \in Holding
        /\ UNCHANGED <<status, retries, out, gen, outbox, queue, delayed, held, res,
                       raised, apiPc>>
        /\ steps' = [steps EXCEPT ![m.step] = "failed"]
    BY <1>1 DEF FailureCommit, Holding, taskVars, outboxVars, brokerVars, apiVars,
                history, step
  <2>2. /\ Stands(m, steps, out, gen) /\ status = "running" /\ res[w] # "success"
        /\ Within(retries, Slack(m))
    BY <2>1, Holder DEF Knows, Facts
  <2>3. SlotStep(w) /\ pc'[w] = "mark_retrying"
    BY <1>1, <2>1, Holder DEF FailureCommit, SlotStep, Goto
  <2>4. Stands(m, steps', out, gen) /\ steps'[m.step] = "failed"
    <3>1. /\ m \in Message /\ steps'[m.step] = "failed"
          /\ \A t \in StepIds \ {m.step} : steps'[t] = steps[t]
      BY <2>1, Holder
    <3>. HIDE DEF m
    <3>. QED BY <2>2, <3>1, Touch
  <2>5. ResultsAreCurrent' /\ (MAX_RETRY > 0 => RetryBudget)'
    BY <2>1, <2>2 DEF ResultsAreCurrent, RetryBudget, TokenInv
  <2>6. Facts("mark_retrying", m, res[w], status, retries, steps', out, gen)
    BY <2>2, <2>4 DEF Facts
  <2>7. pc'[w] \in Holding
    BY <2>3 DEF Holding
  <2>. QED BY <2>1, <2>3, <2>5, <2>6, <2>7, CarryOn
<1>2. ASSUME MarkRetrying(w) PROVE TokenInv'
  <2>1. /\ pc[w] = "mark_retrying" /\ pc[w] \in Holding
        /\ UNCHANGED <<steps, out, gen, outbox, queue, delayed, held, res, raised, apiPc>>
        /\ status' = "retrying" /\ retries' = retries + 1 /\ rc'[w] = retries + 1
    BY <1>2 DEF MarkRetrying, MarkTaskRetrying, Holding, stepVars, outboxVars, brokerVars,
                apiVars, history, TypeOK, SlotsTypeOK
  <2>2. /\ Stands(m, steps, out, gen) /\ steps[m.step] = "failed"
        /\ res[w] # "success" /\ Within(retries, Slack(m))
    BY <2>1, Holder DEF Knows, Facts
  <2>3. /\ SlotStep(w)
        /\ \/ pc'[w] = "schedule_repair"
           \/ pc'[w] = "schedule_retry" /\ retries' < MAX_RETRY
           \/ pc'[w] = "dead_letter_commit"
    BY <1>2, <2>1, Holder DEF MarkRetrying, SlotStep, Goto, ShouldRetry
  <2>4. retries \in Nat /\ MAX_RETRY \in Nat
    BY <2>1, Holder, OrchestratorAssumption
  <2>5. /\ Slack(m) \in Int /\ Slack(m) + 1 <= MAX_RETRY + Len(WORKFLOW_STEPS) - 1
        /\ Len(WORKFLOW_STEPS) \in Nat
    <3>1. Chain(m) \in Workflow /\ (m.step = "repair" => Chain(m) \in Producing)
      BY <2>2 DEF Stands, Chain
    <3>. HIDE DEF m
    <3>2. /\ Position(Chain(m)) \in 1..Len(WORKFLOW_STEPS) /\ Len(WORKFLOW_STEPS) \in Nat
          /\ m.step = "repair" => Position(Chain(m)) < Len(WORKFLOW_STEPS)
      BY <3>1, Positions
    <3>. QED BY <2>4, <3>2 DEF Slack
  <2>6. ResultsAreCurrent' /\ (MAX_RETRY > 0 => RetryBudget)'
    <3>. HIDE DEF m
    <3>. QED BY <2>1, <2>2, <2>4, <2>5 DEF ResultsAreCurrent, RetryBudget, Within
  <2>7. Within(retries', Slack(m) + 1)
    <3>. HIDE DEF m
    <3>. QED BY <2>1, <2>2, <2>4, <2>5 DEF Within
  <2>8. Facts(pc'[w], m, res[w], status', retries', steps, out, gen)
    BY <2>1, <2>2, <2>3, <2>7 DEF Facts
  <2>9. pc'[w] \in Holding
    BY <2>3 DEF Holding
  <2>. QED BY <2>1, <2>3, <2>6, <2>8, <2>9, CarryOn
<1>3. ASSUME ScheduleRetry(w) PROVE TokenInv'
  <2>1. /\ pc[w] = "schedule_retry" /\ pc[w] \in Holding
        /\ UNCHANGED <<status, retries, steps, out, gen, outbox, queue, delayed, held,
                       res, apiPc>>
    BY <1>3 DEF ScheduleRetry, Holding, taskVars, stepVars, outboxVars, brokerVars,
                apiVars, history
  <2>2. /\ Stands(m, steps, out, gen) /\ steps[m.step] = "failed" /\ status = "retrying"
        /\ res[w] # "success" /\ retries < MAX_RETRY
    BY <2>1, Holder DEF Knows, Facts
  <2>3. CanTransitionStep(steps[step(w)], "retrying")
    BY <2>2 DEF CanTransitionStep, STEP_TRANSITIONS, step
  <2>4. SlotStep(w) /\ pc'[w] = "schedule_retry_write"
    BY <1>3, <2>1, <2>3, Holder DEF ScheduleRetry, SlotStep, Goto
  <2>5. ResultsAreCurrent' /\ (MAX_RETRY > 0 => RetryBudget)'
    BY <2>1, <2>2 DEF ResultsAreCurrent, RetryBudget, TokenInv
  <2>6. Facts("schedule_retry_write", m, res[w], status, retries, steps, out, gen)
    BY <2>2 DEF Facts
  <2>7. pc'[w] \in Holding
    BY <2>4 DEF Holding
  <2>. QED BY <2>1, <2>4, <2>5, <2>6, <2>7, CarryOn
<1>4. ASSUME DeadLetterCommit(w) PROVE TokenInv'
  <2>1. /\ pc[w] = "dead_letter_commit" /\ pc[w] \in Holding
        /\ status' = "dead_letter"
        /\ UNCHANGED <<retries, outbox, queue, delayed, raised, apiPc>>
    BY <1>4 DEF DeadLetterCommit, Holding, outboxVars, brokerVars, apiVars
  <2>2. SlotStep(w) /\ pc'[w] = "dead_letter_publish" /\ pc'[w] \in Handed
    BY <1>4, <2>1, Holder DEF DeadLetterCommit, SlotStep, Goto, Handed
  <2>3. ResultsAreCurrent' /\ (MAX_RETRY > 0 => RetryBudget)'
    BY <2>1 DEF ResultsAreCurrent, RetryBudget, TokenInv
  <2>. QED BY <2>1, <2>2, <2>3, LetGo
<1>. QED BY <1>1, <1>2, <1>3, <1>4

\* A retry sends the same message again while the counter is below max_retry.
LEMMA RetryToken ==
  ASSUME TypeOK, TokenInv, NEW w \in Workers, Alone(w), ScheduleRetryWrite(w)
  PROVE  TokenInv'
<1> DEFINE m == held[w].msg
           row == NewRow(m, ComputeRetryDelay(rc[w] - 1) > 0)
<1>1. /\ pc[w] = "schedule_retry_write" /\ pc[w] \in Holding
      /\ UNCHANGED <<status, retries, out, gen, queue, delayed, held, res, raised, apiPc>>
      /\ steps' = [steps EXCEPT ![m.step] = "retrying"]
      /\ EnqueueStepEvent(row) /\ ev' = [ev EXCEPT ![w] = row]
      /\ UNCHANGED brokerVars
  BY DEF ScheduleRetryWrite, Holding, taskVars, brokerVars, apiVars, history, step
<1>2. /\ Stands(m, steps, out, gen) /\ status = "retrying" /\ res[w] # "success"
      /\ retries < MAX_RETRY
  BY <1>1, Holder DEF Knows, Facts
<1>3. SlotStep(w) /\ pc'[w] = "publish"
  BY <1>1, Holder DEF ScheduleRetryWrite, SlotStep, Goto
<1>4. row \in Row /\ ev'[w] = row /\ row.msg = m
  <2>1. (ComputeRetryDelay(rc[w] - 1) > 0) \in BOOLEAN
    OBVIOUS
  <2>2. m \in Message
    BY <1>1, Holder
  <2>3. row \in Row
    BY <2>1, <2>2, NewRowType DEF TypeOK
  <2>4. row.msg = m
    BY DEF NewRow
  <2>5. ev \in [Workers -> Row \cup {NoRow}]
    BY DEF TypeOK, SlotsTypeOK
  <2>. HIDE DEF row
  <2>. QED BY <1>1, <2>3, <2>4, <2>5
<1>5. Stands(m, steps', out, gen) /\ steps'[m.step] = "retrying"
  <2>1. /\ m \in Message /\ steps'[m.step] = "retrying"
        /\ \A t \in StepIds \ {m.step} : steps'[t] = steps[t]
    BY <1>1, Holder
  <2>. HIDE DEF m
  <2>. QED BY <1>2, <2>1, Touch
<1>6. Within(retries, Slack(m))
  <2>1. Chain(m) \in Workflow /\ retries \in Nat /\ MAX_RETRY \in Nat
    BY <1>1, <1>2, Holder, OrchestratorAssumption DEF Stands
  <2>. HIDE DEF m
  <2>2. Position(Chain(m)) \in Nat /\ Position(Chain(m)) >= 1
    BY <2>1, Positions
  <2>. QED BY <1>2, <2>1, <2>2 DEF Within, Slack
<1>7. ResultsAreCurrent' /\ (MAX_RETRY > 0 => RetryBudget)'
  BY <1>1, <1>2 DEF ResultsAreCurrent, RetryBudget, TokenInv
<1>8. Startable(row.msg, status', retries', steps', out', gen')
  BY <1>1, <1>2, <1>4, <1>5, <1>6 DEF Startable
<1>. HIDE DEF m, row
<1>. QED BY <1>1, <1>2, <1>3, <1>4, <1>7, <1>8, HandOver

\* A repair is asked for the failed step and takes the slack its failure used.
LEMMA RepairRequestToken ==
  ASSUME TypeOK, TokenInv, NEW w \in Workers, Alone(w), ScheduleRepair(w)
  PROVE  TokenInv'
<1> DEFINE m == held[w].msg
           row == NewRow(Msg("repair", m.step, m.gen), FALSE)
<1>1. /\ pc[w] = "schedule_repair" /\ pc[w] \in Holding
      /\ UNCHANGED <<status, retries, gen, queue, delayed, held, res, raised, apiPc>>
      /\ ClearSteps({"repair"})
      /\ EnqueueStepEvent(row) /\ ev' = [ev EXCEPT ![w] = row]
      /\ UNCHANGED brokerVars
  BY DEF ScheduleRepair, Holding, taskVars, brokerVars, apiVars, history, step, Gen
<1>2. /\ Stands(m, steps, out, gen) /\ status = "retrying" /\ steps[m.step] = "failed"
      /\ res[w] # "success" /\ Within(retries, Slack(m) + 1)
  BY <1>1, Holder DEF Knows, Facts
<1>3. /\ m.gen = gen /\ gen \in Nat /\ m.step \in Producing /\ m.step \in Workflow
      /\ m.step # "repair" /\ Chain(m) = m.step
  BY <1>1, <1>2, Holder, StepSets, WorkflowAssumption
     DEF Stands, Chain, TypeOK, SlotsTypeOK, step
<1>4. SlotStep(w) /\ pc'[w] = "publish"
  BY <1>1, Holder DEF ScheduleRepair, SlotStep, Goto
<1>5. /\ row \in Row /\ ev'[w] = row /\ row.msg = Msg("repair", m.step, gen)
      /\ row.msg.step = "repair" /\ row.msg.target = m.step /\ row.msg.gen = gen
  <2>1. Msg("repair", m.step, m.gen) \in Message
    BY <1>3, MsgType, StepSets
  <2>2. row \in Row
    BY <2>1, NewRowType DEF TypeOK
  <2>3. /\ row.msg = Msg("repair", m.step, gen)
        /\ row.msg.step = "repair" /\ row.msg.target = m.step /\ row.msg.gen = gen
    BY <1>3 DEF NewRow, Msg
  <2>4. ev \in [Workers -> Row \cup {NoRow}]
    BY DEF TypeOK, SlotsTypeOK
  <2>. HIDE DEF row
  <2>. QED BY <1>1, <2>2, <2>3, <2>4
<1>6. /\ \A t \in Workflow : steps'[t] = steps[t] /\ out'[t] = out[t]
      /\ steps'["repair"] = "pending"
  BY <1>1, StepSets, WorkflowAssumption DEF ClearSteps
<1>7. Chain(row.msg) = m.step
  BY <1>5 DEF Chain
<1>8. Stands(row.msg, steps', out', gen)
  <2>1. Earlier(m.step) \subseteq Workflow /\ Later(m.step) \subseteq Workflow
    BY Restarted DEF Earlier, Later
  <2>2. /\ Current(Earlier(m.step), steps, out, gen)
        /\ \A t \in Later(m.step) : steps[t] = "pending"
    BY <1>2, <1>3 DEF Stands
  <2>. HIDE DEF m, row
  <2>. QED BY <1>2, <1>3, <1>5, <1>6, <1>7, <2>1, <2>2 DEF Stands, Current
<1>9. Within(retries, Slack(row.msg))
  <2>1. MAX_RETRY \in Nat /\ retries \in Nat
    BY <1>1, Holder, OrchestratorAssumption
  <2>. HIDE DEF m, row
  <2>2. Position(m.step) \in Nat
    BY <1>3, Positions
  <2>. QED BY <1>2, <1>3, <1>5, <1>7, <2>1, <2>2 DEF Within, Slack
<1>10. ResultsAreCurrent' /\ (MAX_RETRY > 0 => RetryBudget)'
  BY <1>1, <1>2 DEF ResultsAreCurrent, RetryBudget, TokenInv
<1>11. Startable(row.msg, status', retries', steps', out', gen')
  BY <1>1, <1>2, <1>5, <1>6, <1>8, <1>9 DEF Startable
<1>. HIDE DEF m, row
<1>. QED BY <1>1, <1>2, <1>4, <1>5, <1>10, <1>11, HandOver
-----------------------------------------------------------------------------
(* The evaluation *)

LEMMA EvaluationToken ==
  ASSUME TypeOK, TokenInv, NEW w \in Workers, Alone(w)
  PROVE  /\ Evaluate(w) => TokenInv'
         /\ EvaluateWrite(w) => TokenInv'
         /\ Verdict(w) => TokenInv'
         /\ EvalRetry(w) => TokenInv'
         /\ Finalize(w) => TokenInv'
         /\ FinalizeWrite(w) => TokenInv'
<1> DEFINE m == held[w].msg
           Evaluated == m.gen = gen /\ Current(RestartedSteps, steps, out, gen)
<1>1. ASSUME Evaluate(w) PROVE TokenInv'
  <2>1. /\ pc[w] = "evaluate" /\ pc[w] \in Holding
        /\ UNCHANGED <<status, retries, steps, out, gen, outbox, queue, delayed, held,
                       res, apiPc>>
    BY <1>1 DEF Evaluate, Holding, taskVars, stepVars, outboxVars, brokerVars, apiVars,
                history
  <2>2. Evaluated /\ status = "running" /\ Within(retries, LastSlack)
    BY <2>1, Holder DEF Knows, Facts
  <2>3. status # "evaluating" /\ CanTransitionTask(status, "evaluating")
    BY <2>2 DEF CanTransitionTask, TASK_TRANSITIONS
  <2>4. SlotStep(w) /\ pc'[w] = "evaluate_write"
    BY <1>1, <2>1, <2>3, Holder DEF Evaluate, DecideTask, Decide, SlotStep, Goto
  <2>5. ResultsAreCurrent' /\ (MAX_RETRY > 0 => RetryBudget)'
    BY <2>1, <2>2 DEF ResultsAreCurrent, RetryBudget, TokenInv
  <2>6. Facts("evaluate_write", m, res[w], status, retries, steps, out, gen)
    BY <2>2 DEF Facts
  <2>7. pc'[w] \in Holding
    BY <2>4 DEF Holding
  <2>. QED BY <2>1, <2>4, <2>5, <2>6, <2>7, CarryOn
<1>2. ASSUME EvaluateWrite(w) PROVE TokenInv'
  <2>1. /\ pc[w] = "evaluate_write" /\ pc[w] \in Holding /\ status' = "evaluating"
        /\ UNCHANGED <<retries, steps, out, gen, outbox, queue, delayed, held, res,
                       raised, apiPc>>
    BY <1>2 DEF EvaluateWrite, WriteTask, Holding, stepVars, outboxVars, brokerVars,
                apiVars
  <2>2. Evaluated /\ Within(retries, LastSlack)
    BY <2>1, Holder DEF Knows, Facts
  <2>3. SlotStep(w) /\ pc'[w] = "verdict"
    BY <1>2, <2>1, Holder DEF EvaluateWrite, WriteTask, SlotStep, Goto
  <2>4. ResultsAreCurrent' /\ (MAX_RETRY > 0 => RetryBudget)'
    BY <2>1 DEF ResultsAreCurrent, RetryBudget, TokenInv
  <2>5. Facts("verdict", m, res[w], status', retries, steps, out, gen)
    BY <2>1, <2>2 DEF Facts
  <2>6. pc'[w] \in Holding
    BY <2>3 DEF Holding
  <2>. QED BY <2>1, <2>3, <2>4, <2>5, <2>6, CarryOn
<1>3. ASSUME Verdict(w) PROVE TokenInv'
  <2>1. /\ pc[w] = "verdict" /\ pc[w] \in Holding
        /\ UNCHANGED <<status, retries, steps, out, gen, outbox, queue, delayed, held,
                       raised, apiPc>>
    BY <1>3 DEF Verdict, Holding, taskVars, stepVars, outboxVars, brokerVars, apiVars,
                history
  <2>2. Evaluated /\ status = "evaluating" /\ Within(retries, LastSlack)
    BY <2>1, Holder DEF Knows, Facts
  <2>3. /\ SlotStep(w)
        /\ \/ pc'[w] = "eval_retry" /\ res'[w] = "retry"
           \/ pc'[w] = "finalize"
    BY <1>3, <2>1, Holder DEF Verdict, SlotStep, Goto, TypeOK, SlotsTypeOK
  <2>4. ResultsAreCurrent' /\ (MAX_RETRY > 0 => RetryBudget)'
    BY <2>1, <2>2 DEF ResultsAreCurrent, RetryBudget, TokenInv
  <2>5. Facts(pc'[w], m, res'[w], status, retries, steps, out, gen)
    BY <2>2, <2>3 DEF Facts
  <2>6. pc'[w] \in Holding
    BY <2>3 DEF Holding
  <2>. QED BY <2>1, <2>3, <2>4, <2>5, <2>6, CarryOn
<1>4. ASSUME EvalRetry(w) PROVE TokenInv'
  <2>1. /\ pc[w] = "eval_retry" /\ pc[w] \in Holding
        /\ UNCHANGED <<steps, out, gen, outbox, queue, delayed, held, raised, apiPc>>
        /\ status' = "retrying" /\ retries' = retries + 1 /\ rc'[w] = retries + 1
    BY <1>4 DEF EvalRetry, MarkTaskRetrying, Holding, stepVars, outboxVars, brokerVars,
                apiVars, history, TypeOK, SlotsTypeOK
  <2>2. Evaluated /\ Within(retries, LastSlack) /\ res[w] # "success"
    BY <2>1, Holder DEF Knows, Facts
  <2>3. /\ SlotStep(w)
        /\ \/ pc'[w] = "eval_reset" /\ retries' < MAX_RETRY /\ res'[w] = res[w]
           \/ pc'[w] = "finalize" /\ res'[w] = "review"
    BY <1>4, <2>1, Holder DEF EvalRetry, SlotStep, Goto, ShouldRetry, TypeOK, SlotsTypeOK
  <2>4. ResultsAreCurrent' /\ (MAX_RETRY > 0 => RetryBudget)'
    BY <2>1, <2>2, Holder, Positions, OrchestratorAssumption
       DEF ResultsAreCurrent, RetryBudget, Within, LastSlack
  <2>5. Facts(pc'[w], m, res'[w], status', retries', steps, out, gen)
    BY <2>1, <2>2, <2>3 DEF Facts
  <2>6. pc'[w] \in Holding
    BY <2>3 DEF Holding
  <2>. QED BY <2>1, <2>3, <2>4, <2>5, <2>6, CarryOn
<1>5. ASSUME Finalize(w) PROVE TokenInv'
  <2>1. /\ pc[w] = "finalize" /\ pc[w] \in Holding
        /\ UNCHANGED <<status, retries, steps, out, gen, outbox, queue, delayed, held,
                       res, apiPc>>
    BY <1>5 DEF Finalize, Holding, taskVars, stepVars, outboxVars, brokerVars, apiVars,
                history
  <2>2. /\ Evaluated /\ status \in {"evaluating", "retrying"}
        /\ res[w] = "passed" => status = "evaluating"
    BY <2>1, Holder DEF Knows, Facts
  <2>3. status # FinalStatus(w) /\ CanTransitionTask(status, FinalStatus(w))
    BY <2>2 DEF CanTransitionTask, TASK_TRANSITIONS, FinalStatus
  <2>4. SlotStep(w) /\ pc'[w] = "finalize_write"
    BY <1>5, <2>1, <2>3, Holder DEF Finalize, DecideTask, Decide, SlotStep, Goto
  <2>5. ResultsAreCurrent' /\ (MAX_RETRY > 0 => RetryBudget)'
    BY <2>1, <2>2 DEF ResultsAreCurrent, RetryBudget, TokenInv
  <2>6. Facts("finalize_write", m, res[w], status, retries, steps, out, gen)
    BY <2>2 DEF Facts
  <2>7. pc'[w] \in Holding
    BY <2>4 DEF Holding
  <2>. QED BY <2>1, <2>4, <2>5, <2>6, <2>7, CarryOn
<1>6. ASSUME FinalizeWrite(w) PROVE TokenInv'
  <2>1. /\ pc[w] = "finalize_write" /\ pc[w] \in Holding
        /\ UNCHANGED <<retries, steps, out, gen, outbox, queue, delayed, raised, apiPc>>
    BY <1>6 DEF FinalizeWrite, WriteTask, Holding, stepVars, outboxVars, brokerVars,
                apiVars, TokenInv, SlotInv, Handed
  <2>2. Evaluated
    BY <2>1, Holder DEF Knows, Facts
  <2>3. SlotStep(w) /\ pc'[w] = "release" /\ pc'[w] \in Handed
    BY <1>6, <2>1, Holder DEF FinalizeWrite, WriteTask, SlotStep, Goto, Handed
  <2>4. ResultsAreCurrent' /\ (MAX_RETRY > 0 => RetryBudget)'
    BY <2>1, <2>2 DEF ResultsAreCurrent, RetryBudget, TokenInv, Current
  <2>. QED BY <2>1, <2>3, <2>4, LetGo
<1>. QED BY <1>1, <1>2, <1>3, <1>4, <1>5, <1>6

\* An evaluation's retry starts a generation with the script and the slack of a
\* fresh start.
LEMMA ResetToken ==
  ASSUME TypeOK, TokenInv, NEW w \in Workers, Alone(w), EvalReset(w)
  PROVE  TokenInv'
<1> DEFINE row == NewRow(Msg("script_generation", NoStep, gen + 1), FALSE)
<1>1. /\ pc[w] = "eval_reset" /\ pc[w] \in Holding
      /\ UNCHANGED <<status, retries, queue, delayed, held, res, raised, apiPc>>
      /\ ClearSteps(StepsFrom("script_generation")) /\ gen' = gen + 1
      /\ EnqueueStepEvent(row) /\ ev' = [ev EXCEPT ![w] = row]
      /\ UNCHANGED brokerVars
  BY DEF EvalReset, Holding, taskVars, brokerVars, apiVars
<1>2. status = "retrying" /\ retries < MAX_RETRY /\ res[w] # "success"
  BY <1>1, Holder DEF Knows, Facts
<1>3. SlotStep(w) /\ pc'[w] = "publish"
  BY <1>1, Holder DEF EvalReset, SlotStep, Goto
<1>4. /\ row \in Row /\ ev'[w] = row
      /\ row.msg = Msg("script_generation", NoStep, gen + 1)
      /\ row.msg.step = "script_generation"
  <2>1. row \in Row
    <3>1. gen + 1 \in Nat /\ "script_generation" \in StepIds
      BY <1>1, Holder, StepSets
    <3>. QED BY <3>1, MsgType, NewRowType DEF TypeOK
  <2>2. /\ row.msg = Msg("script_generation", NoStep, gen + 1)
        /\ row.msg.step = "script_generation"
    BY DEF NewRow, Msg
  <2>3. ev \in [Workers -> Row \cup {NoRow}]
    BY DEF TypeOK, SlotsTypeOK
  <2>. HIDE DEF row
  <2>. QED BY <1>1, <2>1, <2>2, <2>3
<1>5. /\ Stands(row.msg, steps', out', gen') /\ steps'[row.msg.step] = "pending"
      /\ Chain(row.msg) = "script_generation"
  <2>1. \A t \in StepsFrom("script_generation") : steps'[t] = "pending"
    BY <1>1, StepSets DEF ClearSteps, StepsFrom
  <2>2. Position("script_generation") \in Nat /\ "script_generation" \in Workflow
    BY StepSets, Positions
  <2>. HIDE DEF row
  <2>. QED BY <1>1, <1>4, <2>1, <2>2, Restart
<1>6. Within(retries, Slack(row.msg))
  <2>1. /\ Position("script_generation") \in Nat /\ Position("script_generation") >= 1
        /\ MAX_RETRY \in Nat /\ retries \in Nat
    BY <1>1, Holder, StepSets, Positions, OrchestratorAssumption
  <2>. HIDE DEF row
  <2>. QED BY <1>2, <1>4, <1>5, <2>1 DEF Within, Slack
<1>7. ResultsAreCurrent' /\ (MAX_RETRY > 0 => RetryBudget)'
  BY <1>1, <1>2 DEF ResultsAreCurrent, RetryBudget, TokenInv
<1>8. Startable(row.msg, status', retries', steps', out', gen')
  BY <1>1, <1>2, <1>5, <1>6 DEF Startable
<1>. HIDE DEF row
<1>. QED BY <1>1, <1>2, <1>3, <1>4, <1>7, <1>8, HandOver
-----------------------------------------------------------------------------
(* Publishing, releasing, acknowledging *)

\* Publishing, or failing to, leaves the one message on its way.
LEMMA PublishToken ==
  ASSUME TypeOK, TokenInv, NEW w \in Workers, Alone(w), Publish(w) \/ PublishFails(w)
  PROVE  TokenInv'
<1>1. /\ pc[w] = "publish" /\ outbox = {ev[w]} /\ ev[w] \in Row
      /\ UNCHANGED <<status, retries, steps, out, gen, held, res, raised, apiPc>>
      /\ pc' = [pc EXCEPT ![w] = AfterPublish(w)]
      /\ pc \in [Workers -> ProgramPoints]
  BY DEF Publish, PublishFails, taskVars, stepVars, apiVars, history, Goto, TypeOK,
         SlotsTypeOK, TokenInv, SlotInv
<1>2. PICK m \in Message : /\ OnlyMessage(m, outbox, queue, delayed)
                           /\ Startable(m, status, retries, steps, out, gen)
  <2>1. \A v \in Workers : pc[v] \notin Holding
    BY <1>1 DEF Alone, Holding
  <2>2. ~NoMessage(outbox, queue, delayed)
    BY <1>1 DEF NoMessage
  <2>. QED BY <2>1, <2>2 DEF TokenInv, TransitInv
<1>3. BrokerEmpty(queue, delayed) /\ ev[w].msg = m
  BY <1>1, <1>2, OnePlace
<1>4. OnlyMessage(m, outbox', queue', delayed')
  <2>1. CASE Publish(w)
    <3>1. PublishStep(ev[w]) /\ outbox' = outbox \ {ev[w]}
      BY <2>1 DEF Publish
    <3>. QED BY <1>1, <1>3, <3>1, Published DEF TypeOK
  <2>2. CASE PublishFails(w)
    <3>1. UNCHANGED <<outbox, queue, delayed>>
      BY <1>1, <2>2 DEF PublishFails, brokerVars
    <3>. QED BY <1>2, <3>1
  <2>. QED BY <2>1, <2>2
<1>5. SlotInv(w)'
  <2>1. \/ pc'[w] = "late_running" /\ status = "running"
        \/ pc'[w] = "release"
    BY <1>1 DEF AfterPublish, TokenInv, SlotInv
  <2>2. ~raised'[w]
    BY <1>1 DEF TokenInv, SlotInv
  <2>. QED BY <1>1, <2>1, <2>2 DEF SlotInv, Holding, Handed
<1>6. ASSUME NEW v \in Workers \ {w} PROVE SlotInv(v)'
  <2>1. pc'[v] = "idle" /\ ~raised'[v]
    BY <1>1 DEF TokenInv, SlotInv, Alone
  <2>. QED BY <2>1 DEF SlotInv, Holding, Handed
<1>7. TransitInv'
  BY <1>1, <1>2, <1>4 DEF TransitInv
<1>8. \A a \in Apis : RequestInv(a)'
  BY <1>1 DEF RequestInv, Alone
<1>9. ResultsAreCurrent' /\ (MAX_RETRY > 0 => RetryBudget)'
  BY <1>1 DEF ResultsAreCurrent, RetryBudget, TokenInv
<1>. QED BY <1>5, <1>6, <1>7, <1>8, <1>9 DEF TokenInv

\* What a slot still does after its message is handed over changes nothing.
LEMMA QuietToken ==
  ASSUME TypeOK, TokenInv, NEW w \in Workers,
         DeadLetterPublish(w) \/ LateRunning(w) \/ Release(w) \/ Settle(w)
  PROVE  TokenInv'
<1>1. /\ ~raised[w] /\ pc[w] \in {"dead_letter_publish", "late_running", "release", "settle"}
      /\ pc[w] = "late_running" => status = "running"
      /\ pc \in [Workers -> ProgramPoints] /\ raised \in [Workers -> BOOLEAN]
      /\ ev \in [Workers -> Row \cup {NoRow}]
  BY DEF DeadLetterPublish, LateRunning, Release, Settle, TokenInv, SlotInv, TypeOK,
         SlotsTypeOK
<1>2. /\ UNCHANGED <<status, retries, steps, out, gen, outbox, queue, delayed, apiPc,
                     apiEvent>>
      /\ pc'[w] \in Handed /\ ~raised'[w]
      /\ \A v \in Workers \ {w} :
            /\ pc'[v] = pc[v] /\ raised'[v] = raised[v] /\ held'[v] = held[v]
            /\ res'[v] = res[v] /\ ev'[v] = ev[v]
  <2>1. CASE DeadLetterPublish(w)
    BY <1>1, <2>1 DEF DeadLetterPublish, Goto, Handed, taskVars, stepVars, outboxVars,
                      apiVars, history
  <2>2. CASE LateRunning(w)
    BY <1>1, <2>2 DEF LateRunning, DecideTask, Decide, Goto, Handed, taskVars, stepVars,
                      outboxVars, brokerVars, apiVars, history
  <2>3. CASE Release(w)
    BY <1>1, <2>3 DEF Release, Goto, Handed, taskVars, stepVars, outboxVars, brokerVars,
                      apiVars, history
  <2>4. CASE Settle(w)
    BY <1>1, <2>4 DEF Settle, ClearSlot, Goto, Handed, taskVars, stepVars, outboxVars,
                      apiVars, TypeOK, SlotsTypeOK
  <2>. QED BY <2>1, <2>2, <2>3, <2>4
<1>3. SlotInv(w)'
  BY <1>2 DEF SlotInv, Holding, Handed
<1>4. ASSUME NEW v \in Workers \ {w} PROVE SlotInv(v)'
  BY <1>2 DEF TokenInv, SlotInv, Knows
<1>5. TransitInv'
  <2>1. pc[w] \notin Holding
    BY <1>1 DEF Holding
  <2>2. (\A v \in Workers : pc'[v] \notin Holding) => \A v \in Workers : pc[v] \notin Holding
    BY <1>2, <2>1
  <2>. QED BY <1>2, <2>2 DEF TokenInv, TransitInv
<1>6. \A a \in Apis : RequestInv(a)'
  BY <1>2 DEF TokenInv, RequestInv
<1>7. ResultsAreCurrent' /\ (MAX_RETRY > 0 => RetryBudget)'
  BY <1>2 DEF ResultsAreCurrent, RetryBudget, TokenInv
<1>. QED BY <1>3, <1>4, <1>5, <1>6, <1>7 DEF TokenInv
-----------------------------------------------------------------------------
(* Requests, the broker and the outbox worker *)

\* A dead letter is at rest: no slot works on the task and no message is left.
LEMMA DeadLetterRests ==
  ASSUME TypeOK, TokenInv, OneAtATime, status = "dead_letter"
  PROVE  (\A w \in Workers : pc[w] \in Handed) /\ NoMessage(outbox, queue, delayed)
<1>1. ASSUME NEW w \in Workers PROVE pc[w] \notin Holding /\ pc[w] # "late_running"
  BY DEF TokenInv, SlotInv, Knows, Facts, Startable, Holding
<1>2. NoMessage(outbox, queue, delayed)
  BY <1>1 DEF TokenInv, TransitInv, Startable
<1>3. ASSUME NEW w \in Workers PROVE pc[w] # "publish"
  BY <1>2 DEF TokenInv, SlotInv, NoMessage
<1>. QED BY <1>1, <1>2, <1>3 DEF TokenInv, SlotInv

\* Slots, and the facts they rely on, that a step leaves alone.
LEMMA SameSlots ==
  ASSUME TokenInv,
         UNCHANGED <<status, retries, steps, out, gen, workerVars>>,
         \A w \in Workers : pc[w] \notin Holding \cup {"publish"}
  PROVE  (\A w \in Workers : SlotInv(w)') /\ ResultsAreCurrent'
         /\ (MAX_RETRY > 0 => RetryBudget)'
<1>1. ASSUME NEW w \in Workers PROVE SlotInv(w)'
  <2>1. /\ pc'[w] = pc[w] /\ ~raised'[w] /\ status' = status
        /\ pc[w] \in Handed \cup {"late_running"}
        /\ pc[w] = "late_running" => status = "running"
    BY DEF TokenInv, SlotInv, workerVars
  <2>. QED BY <2>1 DEF SlotInv, Holding, Handed
<1>. QED BY <1>1 DEF TokenInv, ResultsAreCurrent, RetryBudget

\* A resume starts the next generation at the first step.
LEMMA ResumeToken ==
  ASSUME TypeOK, TokenInv, OneAtATime, NEW a \in Apis, ResumeWrite(a)
  PROVE  TokenInv'
<1> DEFINE first == WORKFLOW_STEPS[1]
           row == NewRow(Msg(first, NoStep, gen + 1), FALSE)
<1>1. /\ apiPc[a] = "resume_write" /\ status' = "queued" /\ retries' = 0
      /\ ClearSteps(StepIds) /\ gen' = gen + 1
      /\ EnqueueStepEvent(row) /\ apiEvent' = [apiEvent EXCEPT ![a] = row]
      /\ apiPc' = [apiPc EXCEPT ![a] = "unlock"]
      /\ UNCHANGED brokerVars /\ UNCHANGED workerVars
  BY DEF ResumeWrite, ApiGoto
<1>2. /\ \A w \in Workers : pc[w] \in Handed
      /\ NoMessage(outbox, queue, delayed)
      /\ \A b \in Apis \ {a} : apiPc[b] = "idle"
  BY <1>1, DeadLetterRests DEF TokenInv, RequestInv, OneAtATime
<1>3. /\ first \in Workflow /\ first \in StepIds /\ Position(first) = 1
      /\ gen + 1 \in Nat /\ MAX_RETRY \in Nat
      /\ Position("script_generation") \in Nat /\ Position("script_generation") >= 1
  <2>1. 1 \in DOMAIN WORKFLOW_STEPS
    BY WorkflowAssumption
  <2>2. first \in Workflow /\ Position(first) = 1
    BY <2>1, PositionType, WorkflowAssumption DEF Workflow
  <2>. QED BY <2>2, StepSets, Positions, OrchestratorAssumption DEF TypeOK, HistoryTypeOK
<1>4. /\ row \in Row /\ row.msg = Msg(first, NoStep, gen + 1) /\ row.msg.step = first
      /\ row.msg \in Message
  <2>1. Msg(first, NoStep, gen + 1) \in Message
    BY <1>3, MsgType
  <2>2. row \in Row
    BY <2>1, NewRowType DEF TypeOK
  <2>. QED BY <2>1, <2>2 DEF NewRow, Msg
<1>5. outbox' = {row} /\ OnlyMessage(row.msg, outbox', queue', delayed')
  <2>. HIDE DEF row
  <2>. QED BY <1>1, <1>2, <1>4, Enqueued
<1>6. Startable(row.msg, status', retries', steps', out', gen')
  <2>1. \A t \in StepsFrom(first) : steps'[t] = "pending"
    BY <1>1, StepSets DEF ClearSteps, StepsFrom
  <2>. HIDE DEF row, first
  <2>2. /\ Stands(row.msg, steps', out', gen') /\ steps'[row.msg.step] = "pending"
        /\ Chain(row.msg) = first /\ first # "repair"
    BY <1>1, <1>3, <1>4, <2>1, Restart
  <2>3. Within(0, Slack(row.msg))
    BY <1>3, <1>4, <2>2 DEF Within, Slack
  <2>. QED BY <1>1, <2>2, <2>3 DEF Startable
<1>7. ASSUME NEW w \in Workers PROVE SlotInv(w)'
  <2>1. pc'[w] \in Handed /\ ~raised'[w]
    BY <1>1, <1>2 DEF TokenInv, SlotInv, workerVars
  <2>. QED BY <2>1 DEF SlotInv, Holding, Handed
<1>8. TransitInv'
  BY <1>4, <1>5, <1>6 DEF TransitInv
<1>9. ASSUME NEW b \in Apis PROVE RequestInv(b)'
  <2>1. \A w \in Workers : pc'[w] \in Handed
    BY <1>1, <1>2 DEF workerVars
  <2>2. /\ apiEvent'[a] = row /\ apiPc'[a] = "unlock"
        /\ b # a => apiPc'[b] = "idle"
    <3>. HIDE DEF row
    <3>. QED BY <1>1, <1>2, <1>4 DEF TypeOK, ApisTypeOK
  <2>. HIDE DEF row
  <2>. QED BY <1>5, <2>1, <2>2 DEF RequestInv
<1>10. ResultsAreCurrent' /\ (MAX_RETRY > 0 => RetryBudget)'
  BY <1>1, Positions, OrchestratorAssumption DEF ResultsAreCurrent, RetryBudget
<1>. QED BY <1>7, <1>8, <1>9, <1>10 DEF TokenInv

LEMMA RequestToken ==
  ASSUME TypeOK, TokenInv, OneAtATime, NEW a \in Apis
  PROVE  /\ Resume(a) => TokenInv'
         /\ ResumeUnlock(a) => TokenInv'
         /\ ApiPublish(a) => TokenInv'
         /\ ApiCrash(a) => TokenInv'
<1>. /\ apiPc \in [Apis -> {"idle", "resume_write", "unlock", "publish"}]
     /\ apiEvent \in [Apis -> Row \cup {NoRow}]
  BY DEF TypeOK, ApisTypeOK
<1> DEFINE Same == UNCHANGED <<status, retries, steps, out, gen, workerVars>>
<1>0. ASSUME apiPc[a] # "idle" \/ status = "dead_letter"
      PROVE  \A w \in Workers : pc[w] \in Handed /\ pc[w] \notin Holding \cup {"publish"}
  BY <1>0, DeadLetterRests DEF TokenInv, RequestInv, Handed, Holding
<1>1. ASSUME Resume(a) PROVE TokenInv'
  <2>1. /\ Same /\ UNCHANGED <<outbox, queue, delayed, apiEvent>>
        /\ status = "dead_letter" /\ apiPc' = [apiPc EXCEPT ![a] = "resume_write"]
    BY <1>1 DEF Resume, ApiGoto, taskVars, stepVars, outboxVars, brokerVars,
                history
  <2>2. \A b \in Apis : RequestInv(b)'
    BY <1>0, <2>1 DEF TokenInv, RequestInv, workerVars
  <2>3. TransitInv'
    BY <2>1 DEF TokenInv, TransitInv, workerVars
  <2>. QED BY <1>0, <2>1, <2>2, <2>3, SameSlots DEF TokenInv
<1>2. ASSUME ResumeUnlock(a) PROVE TokenInv'
  <2>1. /\ Same /\ UNCHANGED <<outbox, queue, delayed, apiEvent>>
        /\ apiPc[a] = "unlock"
        /\ \/ apiPc' = [apiPc EXCEPT ![a] = "publish"]
           \/ apiPc' = [apiPc EXCEPT ![a] = "unlock"]
    BY <1>2 DEF ResumeUnlock, ApiGoto, taskVars, stepVars, outboxVars, brokerVars, history
  <2>2. \A b \in Apis : RequestInv(b)'
    BY <1>0, <2>1 DEF TokenInv, RequestInv, workerVars
  <2>3. TransitInv'
    BY <2>1 DEF TokenInv, TransitInv, workerVars
  <2>. QED BY <1>0, <2>1, <2>2, <2>3, SameSlots DEF TokenInv
<1>3. ASSUME ApiPublish(a) PROVE TokenInv'
  <2>1. /\ Same /\ apiPc[a] = "publish" /\ apiPc' = [apiPc EXCEPT ![a] = "idle"]
        /\ PublishStep(apiEvent[a]) /\ outbox' = outbox \ {apiEvent[a]}
    BY <1>3 DEF ApiPublish, ApiGoto, taskVars, stepVars, history
  <2>2. /\ outbox = {apiEvent[a]} /\ apiEvent[a] \in Row
        /\ \A b \in Apis \ {a} : apiPc[b] = "idle"
    BY <2>1 DEF TokenInv, RequestInv, OneAtATime, TypeOK, ApisTypeOK
  <2>3. PICK m \in Message : /\ OnlyMessage(m, outbox, queue, delayed)
                             /\ Startable(m, status, retries, steps, out, gen)
    BY <1>0, <2>1, <2>2 DEF TokenInv, TransitInv, NoMessage
  <2>4. OnlyMessage(m, outbox', queue', delayed')
    BY <2>1, <2>2, <2>3, OnePlace, Published DEF TypeOK
  <2>5. \A b \in Apis : RequestInv(b)'
    BY <2>1, <2>2 DEF RequestInv
  <2>6. TransitInv'
    BY <2>1, <2>3, <2>4 DEF TransitInv
  <2>. QED BY <1>0, <2>1, <2>5, <2>6, SameSlots DEF TokenInv
<1>4. ASSUME ApiCrash(a) PROVE TokenInv'
  <2>1. /\ Same /\ UNCHANGED <<outbox, queue, delayed>> /\ apiPc[a] # "idle"
        /\ apiPc' = [apiPc EXCEPT ![a] = "idle"]
        /\ \A b \in Apis \ {a} : apiEvent'[b] = apiEvent[b]
    BY <1>4 DEF ApiCrash, ApiGoto, taskVars, stepVars, outboxVars, brokerVars, history
  <2>2. \A b \in Apis : RequestInv(b)'
    BY <2>1 DEF TokenInv, RequestInv, workerVars
  <2>3. TransitInv'
    BY <2>1 DEF TokenInv, TransitInv, workerVars
  <2>. QED BY <1>0, <2>1, <2>2, <2>3, SameSlots DEF TokenInv
<1>. QED BY <1>1, <1>2, <1>3, <1>4

\* A slot that is handed the message finds the task where the message says.
LEMMA ReceiveToken ==
  ASSUME TypeOK, TokenInv, OneAtATime', NEW w \in Workers, NEW s \in StepIds,
         Receive(w, s)
  PROVE  TokenInv'
<1>1. /\ queue[s] # <<>> /\ pc[w] = "idle" /\ pc' = [pc EXCEPT ![w] = "acquire"]
      /\ pc \in [Workers -> ProgramPoints]
      /\ held' = [held EXCEPT ![w] = Head(queue[s])]
      /\ held \in [Workers -> Delivery \cup {NoDelivery}]
      /\ UNCHANGED <<status, retries, steps, out, gen, res, raised, apiPc>>
  BY DEF Receive, Goto, taskVars, stepVars, apiVars, history, TypeOK, SlotsTypeOK
<1>2. \A v \in Workers \ {w} : pc'[v] = "idle" /\ pc[v] = "idle"
  <2>1. pc'[w] # "idle"
    BY <1>1
  <2>. QED BY <1>1, <2>1 DEF OneAtATime
<1>3. PICK m \in Message : /\ OnlyMessage(m, outbox, queue, delayed)
                           /\ Startable(m, status, retries, steps, out, gen)
  <2>1. \A v \in Workers : pc[v] \notin Holding
    BY <1>1, <1>2 DEF Holding
  <2>2. ~NoMessage(outbox, queue, delayed)
    BY <1>1 DEF NoMessage, BrokerEmpty
  <2>. QED BY <2>1, <2>2 DEF TokenInv, TransitInv
<1>4. held'[w].msg = m /\ NoMessage(outbox', queue', delayed')
  BY <1>1, <1>3, Taken DEF TypeOK
<1>5. ASSUME NEW a \in Apis PROVE apiPc[a] = "idle"
  <2>1. apiPc[a] # "resume_write"
    BY <1>3 DEF TokenInv, RequestInv, Startable
  <2>2. apiPc[a] \notin {"unlock", "publish"}
    <3>1. outbox = {}
      <4>1. ASSUME NEW row \in outbox PROVE FALSE
        BY <1>1, <1>3, OnePlace DEF BrokerEmpty
      <4>. QED BY <4>1
    <3>. QED BY <3>1 DEF TokenInv, RequestInv
  <2>. QED BY <2>1, <2>2 DEF TypeOK, ApisTypeOK
<1>6. SlotInv(w)'
  <2>1. Facts("acquire", m, res[w], status, retries, steps, out, gen)
    BY <1>3 DEF Facts
  <2>2. pc'[w] = "acquire" /\ ~raised'[w]
    BY <1>1 DEF TokenInv, SlotInv
  <2>. QED BY <1>1, <1>4, <2>1, <2>2 DEF SlotInv, Knows, Holding
<1>7. ASSUME NEW v \in Workers \ {w} PROVE SlotInv(v)'
  <2>1. pc'[v] = "idle" /\ ~raised'[v]
    BY <1>1, <1>2 DEF TokenInv, SlotInv
  <2>. QED BY <2>1 DEF SlotInv, Holding, Handed
<1>8. TransitInv'
  BY <1>1 DEF TransitInv, Holding
<1>9. \A a \in Apis : RequestInv(a)'
  BY <1>1, <1>5 DEF RequestInv
<1>10. ResultsAreCurrent' /\ (MAX_RETRY > 0 => RetryBudget)'
  BY <1>1 DEF ResultsAreCurrent, RetryBudget, TokenInv
<1>. QED BY <1>6, <1>7, <1>8, <1>9, <1>10 DEF TokenInv

\* The outbox worker and the delay queue move the one message along.
LEMMA RelayToken ==
  ASSUME TypeOK, TokenInv
  PROVE  /\ \A row \in outbox : Relay(row) => TokenInv'
         /\ DelayElapsed => TokenInv'
         /\ \A s \in StepIds : LeaseExpires(s) \/ LeaseOverrun(s) => TokenInv'
<1> DEFINE Same == UNCHANGED <<status, retries, steps, out, gen, workerVars, apiPc, apiEvent>>
<1>1. ASSUME NEW row \in outbox, Relay(row) PROVE TokenInv'
  <2>1. /\ Same /\ ~InHand(row) /\ PublishStep(row) /\ outbox' = outbox \ {row}
        /\ row \in Row
    BY <1>1 DEF Relay, taskVars, stepVars, apiVars, history, TypeOK, MessagesTypeOK
  <2>2. \A w \in Workers : pc[w] \notin Holding
    BY DEF TokenInv, SlotInv, NoMessage
  <2>3. PICK m \in Message : /\ OnlyMessage(m, outbox, queue, delayed)
                             /\ Startable(m, status, retries, steps, out, gen)
    BY <2>2 DEF TokenInv, TransitInv, NoMessage
  <2>4. outbox = {row} /\ row.msg = m /\ BrokerEmpty(queue, delayed)
    BY <2>3, OnePlace
  <2>5. OnlyMessage(m, outbox', queue', delayed')
    BY <2>1, <2>4, Published DEF TypeOK
  <2>6. /\ \A w \in Workers : pc[w] # "publish"
        /\ \A a \in Apis : apiPc[a] \notin {"unlock", "publish"}
    BY <2>1, <2>4 DEF TokenInv, SlotInv, RequestInv, InHand
  <2>7. \A a \in Apis : RequestInv(a)'
    BY <2>1, <2>6 DEF TokenInv, RequestInv, workerVars
  <2>8. TransitInv'
    BY <2>1, <2>3, <2>5 DEF TransitInv
  <2>. QED BY <2>1, <2>2, <2>6, <2>7, <2>8, SameSlots DEF TokenInv
<1>2. ASSUME DelayElapsed PROVE TokenInv'
  <2>1. Same /\ UNCHANGED outbox /\ delayed # <<>>
    BY <1>2 DEF DelayElapsed, taskVars, stepVars, outboxVars, apiVars, history
  <2>2. \A w \in Workers : pc[w] \notin Holding
    BY <2>1 DEF TokenInv, SlotInv, NoMessage, BrokerEmpty
  <2>3. PICK m \in Message : /\ OnlyMessage(m, outbox, queue, delayed)
                             /\ Startable(m, status, retries, steps, out, gen)
    BY <2>1, <2>2 DEF TokenInv, TransitInv, NoMessage, BrokerEmpty
  <2>4. OnlyMessage(m, outbox', queue', delayed')
    BY <1>2, <2>3, Elapsed DEF TypeOK
  <2>5. outbox = {}
    <3>1. ASSUME NEW row \in outbox PROVE FALSE
      BY <2>1, <2>3, OnePlace DEF BrokerEmpty
    <3>. QED BY <3>1
  <2>6. \A w \in Workers : pc[w] # "publish"
    BY <2>5 DEF TokenInv, SlotInv
  <2>7. \A a \in Apis : RequestInv(a)'
    BY <2>1 DEF TokenInv, RequestInv, workerVars
  <2>8. TransitInv'
    BY <2>1, <2>3, <2>4 DEF TransitInv
  <2>. QED BY <2>1, <2>2, <2>6, <2>7, <2>8, SameSlots DEF TokenInv
<1>3. ASSUME NEW s \in StepIds, LeaseExpires(s) \/ LeaseOverrun(s) PROVE TokenInv'
  <2>1. Same /\ UNCHANGED <<outbox, queue, delayed>>
    BY <1>3 DEF LeaseExpires, LeaseOverrun, taskVars, stepVars, outboxVars, brokerVars,
                apiVars, history
  <2>. QED BY <2>1 DEF TokenInv, SlotInv, Knows, TransitInv, RequestInv, workerVars,
                       ResultsAreCurrent, RetryBudget
<1>. QED BY <1>1, <1>2, <1>3
-----------------------------------------------------------------------------
(* The theorem *)

LEMMA TokenInit == Init => TokenInv
<1>. SUFFICES ASSUME Init PROVE TokenInv
  OBVIOUS
<1>1. PICK s \in StartSteps, a \in Apis :
        LET row == [id |-> 0, msg |-> Msg(s, NoStep, 1), delayed |-> FALSE] IN
        /\ apiEvent = [b \in Apis |-> IF b = a THEN row ELSE NoRow]
        /\ apiPc = [b \in Apis |-> IF b = a THEN "publish" ELSE "idle"]
        /\ outbox = {row}
  BY DEF Init
<1> DEFINE row == [id |-> 0, msg |-> Msg(s, NoStep, 1), delayed |-> FALSE]
<1>2. /\ s \in Workflow /\ s \in StepIds /\ Position(s) \in Nat /\ Position(s) >= 1
      /\ Position(s) <= Position("script_generation") /\ MAX_RETRY \in Nat
  <2>1. 1 \in DOMAIN WORKFLOW_STEPS
    BY WorkflowAssumption
  <2>2. WORKFLOW_STEPS[1] \in Workflow /\ Position(WORKFLOW_STEPS[1]) = 1
    BY <2>1, PositionType, WorkflowAssumption DEF Workflow
  <2>. QED BY <2>2, StepSets, Positions, OrchestratorAssumption
<1>3. /\ row \in Row /\ row.msg = Msg(s, NoStep, 1) /\ row.msg.step = s
      /\ row.msg \in Message
  <2>1. Msg(s, NoStep, 1) \in Message
    BY <1>2, MsgType
  <2>. QED BY <2>1 DEF Row, Msg
<1>4. OnlyMessage(row.msg, outbox, queue, delayed)
  <2>1. outbox = {row}
    BY <1>1
  <2>. HIDE DEF row
  <2>. QED BY <1>3, <2>1 DEF Init, OnlyMessage, BrokerEmpty
<1>5. Startable(row.msg, status, retries, steps, out, gen)
  <2>1. /\ steps = [t \in StepIds |-> "pending"] /\ retries = 0 /\ gen = 1
        /\ status = "created"
    BY DEF Init
  <2>2. \A t \in StepsFrom(s) : steps[t] = "pending"
    BY <2>1, StepSets DEF StepsFrom
  <2>. HIDE DEF row
  <2>3. /\ Stands(row.msg, steps, out, gen) /\ steps[row.msg.step] = "pending"
        /\ Chain(row.msg) = s /\ s # "repair"
    BY <1>2, <1>3, <2>1, <2>2, Restart
  <2>4. Within(0, Slack(row.msg))
    BY <1>2, <1>3, <2>3 DEF Within, Slack
  <2>. QED BY <2>1, <2>3, <2>4 DEF Startable
<1>6. ASSUME NEW w \in Workers PROVE SlotInv(w)
  BY DEF Init, SlotInv, Holding, Handed
<1>7. ASSUME NEW b \in Apis PROVE RequestInv(b)
  <2>1. /\ apiEvent[b] = (IF b = a THEN row ELSE NoRow)
        /\ apiPc[b] = (IF b = a THEN "publish" ELSE "idle")
        /\ outbox = {row}
    BY <1>1
  <2>2. \A w \in Workers : pc[w] \in Handed
    BY DEF Init, Handed
  <2>. HIDE DEF row
  <2>. QED BY <2>1, <2>2 DEF RequestInv
<1>8. ResultsAreCurrent /\ RetryBudget
  BY Positions, OrchestratorAssumption DEF Init, ResultsAreCurrent, RetryBudget
<1>. QED BY <1>3, <1>4, <1>5, <1>6, <1>7, <1>8 DEF TokenInv, TransitInv

\* The faults that overtake or repeat somebody are excluded.
LEMMA NoOvertaking ==
  ASSUME HistoryTypeOK, OneAtATime, OneAtATime'
  PROVE  /\ \A w \in Workers :
              /\ ~MarkFails(w) /\ ~ReleaseFails(w) /\ ~WorkerCrash(w)
              /\ ~AcquireFails(w) /\ ~CallFails(w)
         /\ \A row \in outbox : ~RelayDuplicate(row)
<1>1. ASSUME NEW k \in {"crash", "call", "duplicate"}, Spend(k) PROVE FALSE
  <2>1. k \in FaultKinds /\ faults[k] = 0 /\ faults'[k] = 0
    BY DEF FaultKinds, OneAtATime
  <2>2. faults'[k] = faults[k] + 1
    BY <1>1, <2>1 DEF HistoryTypeOK, Spend
  <2>. QED BY <2>1, <2>2
<1>. QED BY <1>1 DEF MarkFails, ReleaseFails, WorkerCrash, AcquireFails, CallFails,
                     RelayDuplicate

LEMMA TokenNext ==
  TypeOK /\ TokenInv /\ OneAtATime /\ OneAtATime' /\ [Next]_vars => TokenInv'
<1>. SUFFICES ASSUME TypeOK, TokenInv, OneAtATime, OneAtATime', [Next]_vars
              PROVE  TokenInv'
  OBVIOUS
<1>0. HistoryTypeOK
  BY DEF TypeOK
<1>1. ASSUME NEW w \in Workers, WorkerStep(w) PROVE TokenInv'
  <2>1. CASE DeadLetterPublish(w) \/ LateRunning(w) \/ Release(w) \/ Settle(w)
    BY <2>1, QuietToken
  <2>2. CASE LateRunningWrite(w)
    BY <2>2 DEF LateRunningWrite, TokenInv, SlotInv, Holding, Handed
  <2>3. CASE \/ Acquire(w) \/ CheckStep(w) \/ TaskRunning(w) \/ TaskRunningWrite(w)
             \/ StepRunning(w) \/ StepRunningWrite(w) \/ RunAgent(w)
    <3>1. pc[w] \notin Handed
      BY <2>3 DEF Acquire, CheckStep, TaskRunning, TaskRunningWrite, StepRunning,
                  StepRunningWrite, RunAgent, Handed
    <3>. QED BY <2>3, <3>1, AtWorkAlone, RunToken
  <2>4. CASE \/ SuccessCommit(w) \/ RepairApply(w) \/ FailureCommit(w) \/ MarkRetrying(w)
             \/ ScheduleRetry(w) \/ ScheduleRetryWrite(w) \/ ScheduleRepair(w)
             \/ DeadLetterCommit(w)
    <3>1. pc[w] \notin Handed
      BY <2>4 DEF SuccessCommit, RepairApply, FailureCommit, MarkRetrying, ScheduleRetry,
                  ScheduleRetryWrite, ScheduleRepair, DeadLetterCommit, Handed
    <3>. QED BY <2>4, <3>1, AtWorkAlone, SuccessToken, RepairToken, FailureToken,
                RetryToken, RepairRequestToken
  <2>5. CASE \/ Evaluate(w) \/ EvaluateWrite(w) \/ Verdict(w) \/ EvalRetry(w)
             \/ EvalReset(w) \/ Finalize(w) \/ FinalizeWrite(w) \/ Publish(w)
    <3>1. pc[w] \notin Handed
      BY <2>5 DEF Evaluate, EvaluateWrite, Verdict, EvalRetry, EvalReset, Finalize,
                  FinalizeWrite, Publish, Handed
    <3>. QED BY <2>5, <3>1, AtWorkAlone, EvaluationToken, ResetToken, PublishToken
  <2>. QED BY <1>1, <2>1, <2>2, <2>3, <2>4, <2>5 DEF WorkerStep
<1>2. ASSUME NEW w \in Workers, WorkerFault(w) PROVE TokenInv'
  <2>1. PublishFails(w) /\ pc[w] \notin Handed
    BY <1>0, <1>2, NoOvertaking DEF WorkerFault, PublishFails, Handed
  <2>. QED BY <2>1, AtWorkAlone, PublishToken
<1>3. ASSUME NEW w \in Workers, ReceiveAny(w) PROVE TokenInv'
  BY <1>3, ReceiveToken DEF ReceiveAny
<1>4. ASSUME NEW a \in Apis, Resume(a) \/ ApiStep(a) \/ ApiCrash(a) PROVE TokenInv'
  BY <1>4, ResumeToken, RequestToken DEF ApiStep
<1>5. ASSUME NEW row \in outbox, Relay(row) \/ RelayDuplicate(row) PROVE TokenInv'
  BY <1>0, <1>5, NoOvertaking, RelayToken
<1>6. CASE DelayElapsed \/ \E s \in StepIds : LeaseExpires(s) \/ LeaseOverrun(s)
  BY <1>6, RelayToken
<1>7. CASE UNCHANGED vars
  BY <1>7 DEF vars, taskVars, stepVars, outboxVars, brokerVars, workerVars, apiVars,
              history, TokenInv, SlotInv, Knows, TransitInv, RequestInv,
              ResultsAreCurrent, RetryBudget
<1>. QED BY <1>1, <1>2, <1>3, <1>4, <1>5, <1>6, <1>7 DEF Next

\* As long as nobody is overtaken, the task, its steps and its one message agree.
LEMMA Token == Spec /\ []OneAtATime => [](TypeOK /\ TokenInv)
BY InitType, NextType, TokenInit, TokenNext, PTL DEF Spec

\* With a positive max_retry the counter passes it by repairs only, and however
\* steps fail, are repaired and are started over by the evaluation it never passes
\* it by as many as the chain has steps.  With max_retry = 0 a first repair already
\* starts above it.
THEOREM BoundedRetries ==
  ASSUME MAX_RETRY > 0 PROVE Spec /\ []OneAtATime => []RetryBudget
<1>1. TokenInv => RetryBudget
  BY DEF TokenInv
<1>. QED BY <1>1, Token, PTL
=============================================================================
