# Verification project for AdAgentFlow-RT

AdAgentFlow-RT turns a product brief into an advertising video by a chain of
eight agent steps. PostgreSQL holds the facts, RabbitMQ carries one message per
step to run, Redis holds one execution lease per step, and a transactional
outbox joins the database to the broker. A single-page web front end submits
tasks and follows them. This directory holds TLA+ modules
translated from that code, TLC configurations that check them on small
instances, and proofs of their main theorems for the TLA+ proof system. Paths
are relative to the repository; `app/` is `src/app/`.

    tlasany M.tla                          parse
    tlc -workers 2 -config X.cfg MCOrchestrator.tla    check one run (MCOutbox for Outbox and BadTakeover, MCAgentExecutor for Agents, MCWebApp for Browsing and BadRefresh, MCSubmitPage for Creating)
    tlapm OrchestratorProofs.tla           check the proofs of a module

## 1. Inventory

### Components

| Component | State it keeps | Operations |
|---|---|---|
| State machine (`app/core/state_machine.py`) | none: two transition tables and the step chain | `can_transition_task`, `can_transition_step`, `next_step` |
| Orchestrator (`app/services/orchestrator.py`) | rows `tasks`, `task_steps`, executions, evaluations | `create_task`, `execute_step` with its success, failure, repair and evaluation branches, `resume_dead_letter` |
| Retry (`app/services/retry.py`) | `tasks.retry_count`, `dead_letter_records` | `mark_task_retrying`, `should_retry`, `compute_retry_delay`, `send_to_dead_letter` |
| Lease (`app/services/idempotency.py`) | one Redis key per task and step, owner token, TTL | acquire (SET NX EX), release by owner (Lua compare and delete), forced release |
| Outbox (`app/services/outbox.py`, `app/workers/outbox_worker.py`) | rows `outbox_events` | enqueue with the business transaction, publish at once, claim a batch, mark |
| Broker client (`app/services/queue.py`) | a work queue per step, a TTL delay queue, a dead-letter queue | publish, publish delayed, publish dead letter, consume |
| Workers (`app/workers/light_worker.py`, `heavy_worker.py`) | one delivery per slot | receive, run, acknowledge, requeue once, reject, graceful stop |
| Agent executor (`app/agents/executor.py`, `base.py`) | step executions, metrics | run under a timeout, validate, repair inline, return a result |
| Agents, prompts, LLM client, JSON validator | none | calls to model services |
| Submission API (`app/api/task_router.py`) | rows `tasks` with a unique `request_id` | submit, list, read |
| Dead-letter API (`app/api/dead_letter_router.py`) | `resolved` flag | list, resume |
| Dashboard, traces, assets, metrics | append-only or read-only | queries |
| Web router and banner (`app/web/main.js`) | the mounted page, the hash, the banner | mount and unmount by hash, follow the browser's offline and online events |
| Web API client (`app/web/api.js`) | `isOnline` | fetch with one retry, poll a task until it is done |
| Task page (`app/web/pages/TaskDetailPage.js`) | the task on display, its poll | poll, cancel, generate again |
| Task list (`app/web/pages/TaskListPage.js`) | rows, filter, page, interval | load, refresh, filter, turn pages |
| Submission form, gallery (`app/web/pages/SubmitPage.js`, `InspirationPage.js`) | fields, assets, request key, a template in `localStorage` | upload, submit, take a template over |
| Home page and view components (`app/web/components/`) | none shared | render |

### How they interact

The API commits the task, its steps and its first outbox row in one
transaction, then publishes the row itself. A worker slot receives a message,
takes the lease of (task, step), and runs `execute_step`: a sequence of short
transactions around the agent call. Each branch that must hand work on writes
the next outbox row in the transaction that makes it necessary and publishes it
immediately afterwards, *while it still holds the lease*. The outbox worker
publishes what its creator did not. The slot releases the lease in a `finally`
block and only then is the message acknowledged; an exception requeues it once
and rejects it the second time. A message that finds its lease held, or its
step successful, is acknowledged and has no effect.

The browser mounts one page at a time, by the hash. The form uploads files, then
posts the brief with a key of its own; the server answers with the task of that
key, which it creates if there is none, and the browser goes to the task's page.
That page polls the task every three seconds; the list loads a window of tasks
and repeats that every five seconds while a row is unfinished. Callbacks of a
page that has gone still run: they are cut off by an abort signal (the poll), by
their effects having stopped (the list), or not at all (a submission's answer still
navigates). Browser and server share nothing but requests, each repeated
once after a failure without an HTTP status.

### What is hard

* Several slots work on one task at once: a slot has published its successor
  and still has statements to run (`orchestrator.py:346`).
* A status is read without a row lock and written later (`orchestrator.py:692`);
  two other functions write it without consulting the table (`retry.py`).
* The lease is never renewed, and a manual resume deletes leases of others.
* Redelivery, duplicates, a TTL queue and a repair that resets downstream steps
  bring old messages back into a newer history.
* Handing over work is several transactions and a broker call; any of them may
  fail or be the last thing a process does.
* The outbox marks a row without comparing who owns the claim.
* A request and its retry are handled at the same time, by two processes, long
  after the browser has given one of them up.
* Answers overtake each other, and arrive for pages that have gone; a fetch may
  fail before or after the server has done its part.
* Flags and counters (`loading`, `uploadingCount`, `isOnline`, the banner) are shared by
  callbacks that overlap.

`PROJECT.json` lists each hazard at its line with the properties that cover it.

### What makes each component correct

* State machine: statuses move along the tables, whoever writes them.
* Orchestrator: no restart of a task disappears; a successful task is complete
  and consists of results of its current history; a success is final; a task
  comes to rest.
* Retry: the counter is bounded; a scheduled retry runs.
* Lease: one slot per step; nobody deletes another's live lease; a dead slot's
  step is run again.
* Outbox: an event is not settled unsent, is not lost, is sent a bounded number
  of times, and an abandoned claim is taken over.
* Submission: a key stands for one task, whatever is lost or repeated, and every
  answer names the task of its key; what the user picked is part of what is sent;
  the form is released.
* Pages: nothing of a page outlives it; a poll stops only for a reason the user
  sees; the list catches up with the server.
* Dead letters: a resolved record stays resolved (planned).

## 2. Plan

Order of the modules, most important behaviour first. Rows marked planned do
not exist yet.

| Module | Composes | Content |
|---|---|---|
| `StateMachine` | | tables and chain, used by `Orchestrator` |
| `Orchestrator` | `StateMachine`, with lease, retry, broker, slots, API and an abstract outbox | one task from submission to rest, with all faults |
| `Outbox` | | the outbox table, creators and relays in detail |
| `OrchestratorProofs`, `SerialProofs`, `LeaseProofs`, `DeliveryProofs`, `OutboxProofs`, `AgentExecutorProofs`, `WebAppProofs`, `SubmitPageProofs` | the modules they are named for | theorems |
| `TaskLifecycle` | implemented by `Orchestrator` | what a client of the API is promised |
| `AtLeastOnce` | implemented by `Outbox` | events that are sent at least once: the abstraction `Orchestrator` uses |
| `AgentExecutor` | refines `Orchestrator`'s `RunAgent` informally | deadline, validation, both repairs, the outcomes, and the shared metric row |
| `Browser` | | hash router, banner, network state, how a fetch ends |
| `TaskDetailPage`, `TaskListPage` | extend `Browser` one after the other; the first uses `StateMachine` | poll; loads, interval, filter, pages |
| `WebApp` | all three pages' modules and a server whose tasks move by the table | browsing |
| `Submission` | extends `Browser` | the server's half of a submission, with a handler per request |
| `SubmitPage` | `Submission`, `Browser` | form, gallery, uploads, retry, regeneration |
| `IdempotentCreation` | implemented by `SubmitPage` | what a key promises |
| `DeadLetters` (planned) | | the `resolved` flag that is set and not committed |
| shutdown and prefetch of the workers (planned) | in `Orchestrator` | cancellation at a stop |

Section 7 lists what no theorem states: liveness, the life cycle of a task and the table of
its statuses, and the modules marked planned.

## 3. The modules

### `StateMachine`

`TASK_TRANSITIONS` and `STEP_TRANSITIONS` are the two dictionaries; the full
list of steps and the `Producing` steps (those before the evaluation) are the
enumerations. `WORKFLOW_STEPS` is a constant whose value may be any ordered part of
the chain that contains script generation and the evaluation, with the
evaluation last: `execute_step` treats the other producing steps alike, so short
chains show the same interactions. `NextStep`, `StepsFrom` are the functions on
the chain.

### `Orchestrator`: one task

The state of one task is spread over four systems, and the variables follow
them: the task row (`status`, `retries`, `taskOut`), the step rows (`steps`,
`out`), the dead letters, the outbox rows still to publish, the broker's queues,
the leases, the local variables of every slot (`pc` with the program point,
`held`, `res`, `rc`, `raised`, `ev`) and of the API requests, and history
variables (`gen`, `ended`, `discarded`) that only properties read, apart from the
stamp that messages carry. `faults` counts the environment's faults.

Tasks share no row, lease or message (queues carry the task's id, and nothing is
decided by another task's message), so one task is the whole state of interest.
A queue shared with other tasks only delays messages, which interleaving covers.

*Grain.* One action is one database statement with its commit, one Redis
command, or one broker call. A check of a status that is read without a row lock
is an action (`TaskRunning`, `Evaluate`, `Finalize`, `LateRunning`, ...), and the
blind write it leads to is the next (`...Write`). `mark_task_retrying` locks its row
and is one action. Transactions that write without deciding on a re-read row
are one action.

| Actions | Code |
|---|---|
| `Receive`, `Settle` | a consumer with prefetch 1 slot; `message.process(requeue=True, reject_on_redelivered=True)` |
| `Acquire`, `CheckStep`, `TaskRunning(Write)`, `StepRunning(Write)`, `RunAgent` | `execute_step` up to the agent's result |
| `SuccessCommit`, `Publish`, `LateRunning(Write)` | `_on_step_success` |
| `RepairApply` | `_handle_repair_success` |
| `FailureCommit`, `MarkRetrying`, `ScheduleRetry(Write)`, `ScheduleRepair`, `DeadLetterCommit`, `DeadLetterPublish` | `_on_step_failure`, `_schedule_*`, `send_to_dead_letter` |
| `Evaluate(Write)`, `Verdict`, `EvalRetry`, `EvalReset`, `Finalize(Write)` | `_handle_evaluation` |
| `Release` | the `finally` block |
| `Resume`, `ResumeWrite`, `ResumeUnlock`, `ApiPublish` | `resume_dead_letter`; `create_task` has committed in `Init` |
| `Relay`, `DelayElapsed`, `LeaseExpires` | outbox worker, TTL queue, lease TTL |
| `AcquireFails`, `CallFails`, `PublishFails`, `MarkFails`, `ReleaseFails`, `WorkerCrash`, `ApiCrash`, `RelayDuplicate`, `LeaseOverrun` | faults |

*Generations.* `gen` numbers the histories of the task: 1 at creation, one more
at each restart by an evaluation or a manual resume. A message carries the
generation its payload descends from, and `out[s]` the one of a step's stored
output. The code has no such number: it is what lets a property say that a
result is stale. It influences no guard.

*Abstractions.* Payloads are reduced to step, repair target and generation.
An agent's answer is one of success, failure, or failure with a repair payload;
an evaluation's is passed, review or retry. A slot may consume any step: the
split into light and heavy queues only restricts interleavings. The owner token,
a fresh uuid in the code, is the slot's name: a slot cannot acquire a step while
a lease of an earlier run of its own is alive, so the two are never confused. Each step's queue is first in, first out, and a requeued message
goes back to its head. Delays are either none or some: the delay queue is one
FIFO. An outbox row exhausted after 20 attempts is `Outbox`'s concern; here a row
is published eventually. A refused `ApiPublish` leaves the row exactly as
`ApiCrash` at that point does, which stands for both.

*Faults* have budgets: `MaxFaults` is a set of budgets by kind, and a behaviour
keeps to one of them. The theorems hold for every such set, hence for faults in
any number. A call may fail at every statement of a handler, before its effect or
after it: a lost answer is the call followed by a failure at the next program point
(`CallFails`). The first call, the SET of the lease, has its own action
(`AcquireFails`): it stands outside the `try`, so nothing is released, the message is
requeued, and if only the answer was lost the lease is taken by a token nobody has,
until its TTL. Where the code catches the exception the fault is another one:
`PublishFails`, `ReleaseFails`. A dead owner's lease expires at no cost (`LeaseExpires`); a lease
that reaches its TTL under a working owner is the fault `expiry`.

### `Outbox`

One row per event, its creator (identified by the row's id) that publishes it
right after the commit, and relays that claim batches. `lockedAt` is abstracted
to null, recent or stale against `outbox_lock_timeout`; the `lock_owner` column
is written and never compared, so it is left out. `Claim` takes any nonempty set
of claimable rows up to the batch size, which is what `skip_locked` can leave.
`_mark_result` is two actions, `MarkRead` and `MarkWrite`: the object is loaded
without a lock, and the update writes only the columns that differ from what was
read. The Python values assigned and the columns sent are different things here,
and `BadTakeover` depends on that. A lost confirmation is
a publication that fails with the message taken. `Abandon` is a crash, or an
exception of a mark, either of which leaves the rest of the batch. Crashes and
refusals are not budgeted: attempts bound the state.

`Orchestrator` and `Outbox` meet in what the first assumes of the second: a
committed row is published at least once, now or later, maybe more often. Its
safety half is `AtLeastOnce`, which `Outbox` implements: `committed` are the rows
that exist, `copies` the copies the broker has taken, `settled` the rows marked
published. That a row is tried at all is `PendingIsTried`.

### `TaskLifecycle`

What a client sees: a task is open, starts over any number of times, closes as a
success, for review or as a dead letter, and opens again only by a resume. The
mapping takes the three resting statuses as they are and every other status as
open, `gen` as the number of starts, and the generations of the task's stored
outputs as the parts of a success. That an open task closes is a conjunct of the
abstract specification.

### `AgentExecutor`

Runs of one agent for different tasks in different processes. A model's text is
one of valid, invalid (JSON of another shape), damaged (cut off or fenced) and
garbage, which is what parsing, validation and the local repair tell apart.
`Generate` is the first answer with its validation and the local repair (there is no
await in between), `Repair` the second answer, `Deadline` the cancellation by
`asyncio.timeout`, `GenerateFails` and `RepairFails` the exceptions of the calls. The
metric row is read (`MetricRead`), inserted under its unique name when it is
missing (`MetricInsert`, which waits for another uncommitted insert, or
`MetricConflict`), and written with the values computed from what was read
(`MetricWrite`). The sums of tokens and latencies behave like the total. A run is
`Orchestrator`'s `RunAgent`: success, failure with `needs_repair_agent` (the payload is
always there then) and any other failure are its three outcomes.

### `Browser`

JavaScript runs one callback at a time, so an action is one callback with the
microtasks that follow. `hash` and `events` are `location.hash` and the `hashchange`
events the browser has queued: a hash may change again before the first event is
handled, and `dispatch` then mounts the last page twice. `Dispatched` is `dispatch()`:
unmount, mount, or the redirection to `#/`. `mount` numbers the mounted pages; the
code has no such number, but each page's closures are its own, and that is what the
number tells apart.

`online` is `navigator.onLine`, `isOnline` the variable of `api.js` that requests set,
`banner` what the user sees; `SetOnline` calls the banner's listener only when the
value changes. A fetch ends in one of four ways (`Endings`): with its body, without a
response, with an HTTP error, with a body that cannot be read. Only the second is
retried, since the body is parsed outside the `try`. `MayEnd` says which endings are possible
before and after the server has read the data. `troubles` counts lost
connections and requests that fail while the browser is online; requests that fail
while it is offline are free.

### `TaskDetailPage`

`polls[m]` is the closure of `pollTaskUntilDone` started by mount `m`: the request it
waits for (`task`, `timeline`), the three-second `pause`, or `off`; `stage` and `left` are
the fetch and its retry, `late` the deadline. `TaskReceived` shows the task
before it decides to go on, as `onUpdate` does. An abort ends the poll at
once, in whatever it waits for (`DetailDispatched`, `CancelPolling`). Step details of the
task are left out: the page only draws them.

### `TaskListPage`

`loads` are the calls of `load()` in flight, each with the filter and the offset it was
asked for, its mount, and the answer the server read. `LoadEnds` displays whichever
answers last. `Matching`, `Window` are the query of `list_tasks` (filter, newest first,
offset, limit) and the total is counted in the same handler. `TimersFor` is the watcher of
`hasActive` with `startPolling` and `stopPolling`; it depends only on the rows after the
change because the interval is always in step with the rows before it, which is
`TimerIffActive`. Two watchers load: a filter change on a later page loads twice.
The interval would also clear itself if it found no active row (`Tick`); by the same invariant it
never does, in the code as in the model. What an unmounted page's load would bring is dropped (`Orphan`): its effects are over.

### `WebApp`

The two pages, a user who follows links, and a server whose tasks move along
`TASK_TRANSITIONS`. It stands for `Orchestrator` towards the browser: there the moves are
what the workers do; here any legal move may happen at any time.

### `Submission` and `SubmitPage`

A call of `submitTask` sends a request and possibly one more with the same key. Each request has
a handler on the server (`submit_task`): the check for the key, the insert, the conflict
with the unique index and the second read are separate actions, because the session is
another one in between and replicas share only the index. When the browser sees a network
failure the handler goes on, never arrives, or dies (`GivenUp`). A task is named by the request
that created it.

The form counts its assets and knows whether it is filled in; a batch of
uploads is over when all its files are (`Promise.allSettled`), with any number of them good.
`template` is the item in `localStorage`. `Regenerate` is both buttons of a task page, which send
no key. A success navigates even if its page has gone.

`IdempotentCreation` is the promise: calls are made with a key or none; a row is created
only if its key has none; an answer names a row of the call's key, or without a key one
the call itself made. The mapping takes calls, keys, rows and results as they are.

## 4. The runs

Every passing run is exhaustive for its instance. Symmetry is used only where
no liveness is checked and the slots or relays are interchangeable. `Redelivery` tells states
apart by a `VIEW` without dead letters and the histories `ended` and `discarded`, which neither a
guard nor its properties read.
`CHECK_DEADLOCK FALSE` everywhere: a task at rest has nothing to do.

### Passing

| Run | Instance | Shows |
|---|---|---|
| `Serial` | 1 slot, 3 steps, 3 retries, one each of a refused publish, an API crash, a manual resume | through repairs, delays, restarts, refused publishes and the resume the task settles (`Settles`), its retry counter stays within its bound (`RetryBudget`), and to a client it is `TaskLifecycle` (`ImplementsLifecycle`) |
| `Redelivery` | 2 slots, 2 steps, 2 retries, a crash, a duplicate or an overrun lease | the lease admits one slot per step (`ExclusiveExecution`); late or repeated messages do not change a step whose lease another slot holds (`StepsChangeUnderLease`); a late owner never deletes its successor's lease (`LiveLeaseKept`); while no slot works on a message from before a restart or a repair, a success consists of results of the last restart, however the slots overlap (`OnlyStaleWorkSpoils`) |
| `FailingCalls` | 1 slot, 2 steps, 2 retries, a failing call at any statement together with a crash, a duplicated publication, a manual resume or a second failing call | types; no generation disappears without a discarded message to show for it (`GenerationsAccountedFor`); every change of the status is in the table, requeued and repeated messages and the writes that do not consult the table included (`LegalTaskTransitions`) |
| `Outbox` | 1 row, its creator, 2 relays, 3 attempts, crashes and refusals in any number | `PublishedWasSent`, `CopiesAreBounded`, `PendingIsTried`, types, and the refinement `ImplementsDelivery` |
| `Browsing` | a task page and the list, 2 tasks with one active and one settled status (`retrying`, `manual_review`), 1 move, page size 1, 2 loads at once, 2 mounts, 1 trouble, 2 clicks | the poll and the interval belong to the mounted page (`OneLivePoll`, `TimerIffActive`), the busy button tells the truth (`SpinnerIsHonest`), a poll stops only for a reason (`StopsForAReason`) and always ends (`PollsEnd`), and a settled task does not stay active on the screen (`ListCatchesUp`) |
| `Creating` | form and gallery, 2 calls with a retry each, 2 batches of up to 2 files, 2 assets at most, 2 edits, 2 mounts, 1 trouble | a key makes one task (`ImplementsCreation`) and a refused insert finds the winner (`ConflictsResolve`); nothing picked is left behind (`NoUploadLeftBehind`); the form is released (`FormComesBack`); a template is applied to one form (in `TypeOK`) |
| `Agents` | 3 runs of an agent, all answers, errors, deadlines, failing transactions and crashes | outcomes are told apart (`FailuresAreClassified`); the metric row loses runs only to overlapping transactions (`MetricExactAlone`) and never invents one (`MetricNeverOvercounts`); nobody waits for ever for another's insert (`RunsFinish`); types |

*Why these bounds are enough to mean something.* Two slots are needed for every
race the code has on one step, and a race of three is two races of two at this grain
for properties about pairs. Chains of two or three steps contain each kind:
the first, the script (restart target), the evaluation (last), the repair.
With two steps the script is also first. `MAX_RETRY = 3` is the code's default; 2
still has a delayed retry and an evaluation restart. The faults of
`Redelivery` do not appear in one behaviour because two of them exceed what TLC
finishes, and a manual resume, which deletes leases, is in `Serial` and `FailingCalls` only;
the theorems cover their combinations. What needs two slots *and* a resume, or two
requests, is in no run: the overlap after a resume has deleted a working slot's lease, two
resumes at once. What needs more than one row of the outbox, the rest of a batch that is
abandoned, is in no run either. Rows of the outbox meet only in batches;
the single row of `Outbox` has all the races of claims and marks, and the
theorems cover any number of rows and any batch size. Three runs of an agent are
what a stale write needs to take back what others have counted; the theorems
cover any number.

In `Browsing`, two mounts are a page and its successor; a third would only repeat the pair, since closures of one mount
never meet those of another. Page size 1 with two tasks gives a second page, and
rows that leave a filtered page. Two loads are what it takes for an answer to be
overtaken. One trouble is a lost connection, or a request that fails and is retried; a second
failure is free while offline. In `Creating`, a call has two requests, which is every race
with the index, two batches overlap, and one trouble loses an answer or a request. Every bound is in a guard and named in a
`CONSTANT`, and the theorems hold for all their values.

### Disagreements with the repository's documents

Each of these runs checks one sentence of the repository and TLC shows the
behaviour that breaks it.

| Run | Statement | What the code does |
|---|---|---|
| `BadSuccessFinal` | transitions are validated, which avoids a task running again after success (`docs/ARCHITECTURE.md:281-283`) | the late transition to running reads before, and writes after, the successor's success |
| `BadIncompleteSuccess` | a submission runs completely through the chain, and the final output contains script, storyboard, assets and score (`README.md:7`, `docs/NEXT_STEPS.md:409`) | two slots, no fault: the late transition (`orchestrator.py:346`) finds the task evaluating and raises, its finished message is requeued, the evaluation's retry resets the chain, and the requeued message runs a later step and its successors; the task is a success with its script pending |
| `BadCrashedRun` | after a hard exit the step runs again when the lease has expired (`docs/FAULT_MATRIX.md:8`) | the redelivery comes first, finds the lease, and is acknowledged |
| `BadRefresh` | the connection is interrupted, refreshing goes on when it is back (`app/web/main.js:92`) | two failing requests end the poll for good; unless the browser itself was offline no event starts it again |
| `BadTakeover` | a publishing row that timed out can be taken over (`outbox.py:120`) | a late failure mark erases the lock time of a newer claim |

`BadCrashedRun` is temporal and is checked under `FairSpec`; the lost message is the
last one there was, so no fairness could bring it back.

More disagreements were found with the same modules and instances close
to these (two slots, with the properties named):

* `SuccessIsComplete` and `ResultsAreCurrent`, **one** slot, two steps and one failing call
  (the instance of `FailingCalls`): the evaluation answers retry and resets the chain, its
  event is published, and the `_finish_execution` that follows
  (`orchestrator.py:258`) raises. The message is requeued, the evaluation's step is
  pending again, and its run on the old history passes: the task is a success while its
  script is pending. No second slot is involved, only a call that fails after the commit
  it follows.
* `ResultsAreCurrent`, two slots, no fault: the requeued message of `BadIncompleteSuccess`
  may also bring the result of an older generation into a success, on chains too short to lose
  the script. The comment at `orchestrator.py:632` says that a changed script
  invalidates all later results. A lease that reaches its TTL with a duplicated message, or with
  a failing call, leads there too.
* A step goes from pending to success, two slots, four steps, no fault: a repair resets a
  step that another slot is running (`orchestrator.py:512`), and that slot then commits its
  success over the reset. `docs/ARCHITECTURE.md:282` says that the table rules out
  "节点从 PENDING 直接跳到 SUCCESS".
* `SuccessIsComplete`, two slots, a duplicate: two steps are enough when an evaluation
  message is duplicated and arrives after the reset. `docs/FAULT_MATRIX.md:13`
  promises that duplicate messages make no duplicate results.
* A completed step is run again, two slots, two steps, three retries and a duplicate: a repair
  completes the step between another slot's check and its write of running. The lease
  does not cover it, because a repair holds the lease of the step `repair`.
  With two retries TLC finds no such behaviour.
* `Settles`, two slots, no fault: the first retry is published before the lease is
  released, and whoever receives it in between acknowledges it; the step stays `retrying`.
  `retry.py:4` says that the first retry is immediate.

`OnlyStaleWorkSpoils` is the other side of the first two: it says that there is no other way.
All of them have a slot run an agent, or write its result, for a history that a
restart has discarded, or repair a step that is not failed any more. As long as no slot
does, nothing that slots, crashes, failing calls and duplicates do to each other
spoils a result, and a check of the message's generation in `execute_step`, which the
code does not have, would exclude it.

Observations made on the way without a run of their own: a resume deletes the
leases of slots that are still working; a row claimed for its last attempt by a
process that dies stays `publishing` for ever; a row may be `failed` with no
attempt left, and then nobody marks it exhausted; with `max_retry` 3 the third failure is
dead-lettered, so the third delay of `retry.py:6-7` is never used; with
`max_retry_count` set to 0 the counter exceeds the bound of `RetryBudget` by one, because the
first failure is counted before it is compared and a repair is not compared at
all; `RetryBudget` holds only without failing calls and crashes, since a message that is
requeued after `mark_task_retrying` has its failure counted again; with several slots
`LegalTaskTransitions` fails by the late transition, and a finalization may be refused
by the table (`orchestrator.py:668`) with no message left to move the task; two resume
requests on two replicas both read `dead_letter` and the later one writes `queued` over
whatever the first one's run has reached, a success included (the code's check of the
table at `orchestrator.py:173` is of the status it has read).

Of the agent executor: an answer that does not parse is raised by
`llm_client.py:122` without its text and before the response is merged, so
`executor.py:100-106` gives `quick_json_repair` an empty text. The local repair can
therefore not repair what it was written for (`docs/ARCHITECTURE.md:477` and
`tests/test_agents.py:174` say that it comes first), the repair prompt and the repair
agent get an empty original (`json_validator.py:111` says it is sent back), and the
tokens of that answer are not counted. `needs_retry` is set but the orchestrator
never reads it: a refused request (`AUTH_ERROR`) is retried like a time-out. Stale
writes can make the counters of one metric row disagree with each other, so the
dashboard's success rate can exceed 100 %: the runs it is computed from are each at most
the truth (`MetricNeverOvercounts`), their quotient is not.

Of the front end (the first seven are counterexamples of `WebApp` or `SubmitPage`, the
others were read in the code while modelling it):

* A regenerate button sends no key (`TaskDetailPage.js:100`), and its request is retried like any other:
  one click can make two tasks.
* A form whose answers were both lost makes a new key (`SubmitPage.js:166`), so the next
  click makes a second task although the first exists.
* `uploadProductFiles` compares the limit with the assets that have arrived
  (`SubmitPage.js:87`): two overlapping batches exceed twelve images, which the server
  then refuses.
* After `online` has hidden the banner, `isOnline` is still false until a request
  succeeds; requests that fail meanwhile do not show the banner again (`api.js:21`).
* The `online` event mounts the page again (`main.js:100-103`): a form loses what was filled in, and the
  inspiration it had taken over.
* An older answer of the list may stay on the screen, with rows of the previous
  filter, until something else loads: if no row is active nothing does.
* The list says that there are no tasks (`TaskListPage.js:170`) also when its offset lies
  beyond a total that has shrunk.
* A submission that succeeds after its page has gone still navigates to its task
  (`SubmitPage.js:164`).
* Two gallery items have a duration the form does not offer and silently drops
  (`InspirationPage.js:18,67`, `SubmitPage.js:62`).
* A task page stops at `dead_letter`, which the client holds for final, although a resume may
  start the task again.

## 5. Fairness

`FairSpec` assumes weak fairness of: receiving (the broker pushes to an idle
consumer), each slot's next step (a handler is a coroutine with no unbounded
wait: agents run under a timeout, database and broker calls return or raise),
each API request, the outbox worker's polling loop, the delay queue's TTL and
the TTL of a dead lease. No fault has fairness, and neither has the manual
resume, which a person may never request. In `Outbox`, weak fairness of polling,
of each live publisher and of time; none of creation or of crashes. In
`AgentExecutor`, weak fairness of each run: calls return, raise or reach the
deadline, and a flush that waits goes on when the other transaction is over.

`Settles` uses all of it. `Serial` has one slot on purpose: with two, or with a
crash, the discarded messages above leave tasks unfinished.

In `WebApp` and `SubmitPage`: every queued `hashchange` event is dispatched, every fetch ends
in some way (the browser's own time-outs see to that), back-offs, pauses and intervals
fire, the deadline passes, and handlers of a running server go on. None of it says
that a request succeeds. The user, the server's tasks and the network have no
fairness; `ListCatchesUp` states its need of a lasting connection itself, and the budget of
troubles makes requests succeed in the end.

## 6. What is proved

All theorems are about every behaviour of `Spec`, except `BoundedRetries`, which is about
the behaviours in which nobody is overtaken (below), for every value of the constants that satisfies
`WorkflowAssumption`, `OrchestratorAssumption`, `OutboxAssumption`, `RunsAssumption`, `BrowserAssumption`,
`TasksAssumption`, `ListAssumption`, `WebAppAssumption`, `SubmissionAssumption` and `SubmitPageAssumption`: any
chain, any number of slots, request handlers, relays and rows, any budget of
faults, any number of tasks, pages, loads, calls and batches. TLC evaluates those assumptions on every run.

| Theorem | Module | States |
|---|---|---|
| `TypeCorrect` | `OrchestratorProofs` | `Spec => []TypeOK` |
| `Exclusion` | `LeaseProofs` | `Spec => []ExclusiveExecution` |
| `LeasesKept` | `LeaseProofs` | `Spec => LiveLeaseKept` |
| `UnderLease` | `LeaseProofs` | `Spec => StepsChangeUnderLease` |
| `CurrentResults` | `LeaseProofs` | `Spec => OnlyStaleWorkSpoils` |
| `BoundedRetries` | `SerialProofs` | `MAX_RETRY > 0` proves `Spec /\ []OneAtATime => []RetryBudget` |
| `NothingLost` | `DeliveryProofs` | `Spec => []GenerationsAccountedFor` |
| `OutboxTypeCorrect` | `OutboxProofs` | `Spec => []TypeOK` |
| `NothingSettledUnsent` | `OutboxProofs` | `Spec => []PublishedWasSent` |
| `BoundedDuplicates` | `OutboxProofs` | `Spec => []CopiesAreBounded` |
| `OutboxImplementsDelivery` | `OutboxProofs` | `Spec => ImplementsDelivery` (refinement of `AtLeastOnce`) |
| `AgentTypeCorrect` | `AgentExecutorProofs` | `Spec => []TypeOK` |
| `ClassifiedFailures` | `AgentExecutorProofs` | `Spec => []FailuresAreClassified` |
| `NoOvercount` | `AgentExecutorProofs` | `Spec => []MetricNeverOvercounts` |
| `ExactAlone` | `AgentExecutorProofs` | `Spec => []MetricExactAlone` |
| `WebTypeCorrect` | `WebAppProofs` | `Spec => []TypeOK` |
| `OnePoll` | `WebAppProofs` | `Spec => []OneLivePoll` |
| `TimerMatchesRows` | `WebAppProofs` | `Spec => []TimerIffActive` |
| `HonestSpinner` | `WebAppProofs` | `Spec => []SpinnerIsHonest` |
| `StopsAccounted` | `WebAppProofs` | `Spec => StopsForAReason` |
| `SubmitTypeCorrect` | `SubmitPageProofs` | `Spec => []TypeOK` |
| `RefusedFindsRow` | `SubmitPageProofs` | `Spec => []ConflictsResolve` |
| `SubmissionRefines` | `SubmitPageProofs` | `Spec => ImplementsCreation` (refinement of `IdempotentCreation`) |
| `UploadsFirst` | `SubmitPageProofs` | `Spec => NoUploadLeftBehind` |

*Types.* `TypeOK` is inductive because it also says what the program points
imply: a slot at work holds a delivery, whoever publishes has a row, only
producing steps are repaired. Action groups have a lemma each.

*Exclusion.* The property alone is not inductive: it says nothing of the lease.
`LeaseInv` says that, as long as no lease was overrun and no resume begun, every slot
inside its critical section *is* the owner in Redis, and no request is unlocking. Two
slots in one step would then both be the owner. `InsideSteps` shows that the
steps inside the section keep the lease.

*Kept leases.* An action property. From `TypeOK`, each action that writes a lease
is one of the three exceptions, or finds the lease free, or is the TTL of
an owner that is not working.

*Steps change under their lease.* An action property, from `LeaseInv`. Every write of a step's
status names its slot and its program point, and a slot at such a point owns the lease in Redis
(`LeaseInv`, until a lease is overrun or a task resumed). The two other writers are exceptions of
the property because the code has them: a restart resets steps whoever runs them, and a
repair completes its target under the lease of the step `repair`, not of the target.

*Only stale work spoils results.* That a success is complete and current is false as it stands
(section 4), with one slot and a failing call as well as with two slots and no fault. What is
proved is what it takes: `FreshWork` says that no slot runs an agent, or writes its
result, for a discarded history or for the repair of a step that is not failed any more,
and `LeasesHold` that no lease has been overrun or deleted by a resume. The theorem has any number of
slots, which overlap, die, fail at any call, repeat and reorder messages and write statuses over
each other. `FreshWork` is about the moments of the agent and its commit only: messages of every age
may be received, checked, acknowledged, requeued and rejected, and may move the task's status.

`ResultsAreCurrent` looks at the end of a run, so the invariant `FreshInv` says what
keeps the chain true on the way. There is a first step (the one the task was created with)
such that: every message *afoot* (at the broker, in a row, held by a slot, about to be
published) is `Grounded`, that is, a message of the current generation has all steps of the
chain before its own done in this generation, and a repair has a failed target or one that
another copy has repaired; every slot is `Undisturbed`, that is, the step it is busy with is
neither done nor being repaired, and an evaluation judges a finished chain of its own
generation; and a success is `Completed`: the whole chain is done, and nobody judges it
again. It is not inductive alone. `Exclusive`, from `LeaseInv`, says that two slots are
never in one step, so nobody else completes the step a slot is busy with, and a finalization
is the only one. `FreshWork` says that a success is committed on a current message, and a repair
on a failed step: then no current message is beyond the repaired step, so the steps it
resets are nobody's ground (`RepairDone`), and a restart makes every older message
one of the past (`Restarted`). The lemmas `...Brings` show for each action which messages are
afoot after it: those before it, and at most the one it enqueues. A step of a slot that changes
neither chain nor messages is `CarryOn`.

*Nobody is overtaken.* The bound of the retry counter needs more: it is false as soon as a
failure is counted twice. `BoundedRetries` is therefore about behaviours under `OneAtATime`: at every
moment at most one slot and one request are at work, and no slot has died, no call has
failed and no row has been published twice. Publishing may fail, leases may expire or be
overrun, requests may die, and dead letters may be resumed. The hypothesis is about the behaviour,
not the constants: it also holds of many slots that happen never to overlap, and `Serial`
is an instance of it. It is not a description of a deployment, where processes do die.

The invariant is `TokenInv`. Under the hypothesis one message carries the task: it is in one place (a row, a
queue, the delay queue, or a slot), and there is no second one. `Stands` relates it to the
step rows: what comes before the message's step is done in this generation, what comes after is
pending, and a repair has a failed target. `Startable` adds the task's status and the step's own, such
that every check of the table on the way succeeds; so nothing raises, and
nothing is requeued, which is where a failure would be counted again. `Facts` says at each program
point of a slot how much of that is still true. `TransitInv` says that a message nobody
holds is `Startable`; `RequestInv` that a request at work finds a dead letter or has
just restarted the chain. Each group of actions has its lemma.

*Bounded retries.* The counter has no bound of its own: a repair adds to it without comparing it, and only a
delayed or immediate retry asks for `retries < MAX_RETRY`. `Slack` is the strengthening: before the message at
position p of the chain the counter is at most `MAX_RETRY + p - 2`, one more for a repair
that is under way, because each step can be repaired once after its last permitted
retry. It starts at `MAX_RETRY - 1` at the first step, hence the hypothesis that
`MAX_RETRY` is positive, as it is by default (`max_retry_count = 3`).

*Nothing lost.* `GenerationsAccountedFor` is inductive with `TypeOK`. The lemma
`AdvanceSteps` shows for every step of a slot that the slot goes on carrying its
message, or has handed its generation over (to an outbox row, to `ended`, to
`discarded`); `SendLands`, `RequeueLands` and `PublishLands` show that a message
given to the broker is in a queue afterwards and that none of the others
disappears. What the theorem permits is the last disjunct, a discarded message: a slot
acknowledges it because the lease is held or the step is done, or the broker rejects it after
its redelivery has failed. These are the ways a task may stop for ever, and the theorem says
that there are no others: `BadCrashedRun` is the first, and a slot that dies between
the commit of a success and what follows it (`orchestrator.py:336`) the second. That work is
not lost although the SET of the lease fails, or takes the lease and loses the answer,
is part of it.

*Nothing settled unsent.* A mark is a read and a later write, and a publisher
that succeeded may meet a row anyone has touched. The strengthening
`SuccessWasSent` says that whoever remembers a successful publication is about to
mark the very row whose message the broker has taken; copies are never taken
back, so any later mark it makes is true.

*Bounded duplicates.* Attempts are counted when a row is claimed, copies when it
is published, and claims of dead relays must not be forgotten. The invariant
counts, per event, the publishers that still owe a copy (`Owing`, a finite set):
`CopiesInv`: copies sent plus copies owed are at most the attempts and the
creator's one.

*Refinement of at-least-once delivery.* `DeliveryStep` maps each action: a creation
is a `Commit`, a publication whose message is taken a `Send`, a mark a `Settle` or
a `Reopen`, everything else a stutter. A `Send` needs copies left, which is
`CopiesAreBounded` of the *next* state with `WorkIsCommitted` (no row is claimed
beyond the limit, rows in work exist); a `Settle` needs a copy sent, which is
`PublishedWasSent` of the next state.

*Classified failures.* Inductive with `CallsInv`: before the first answer the result
is empty, and a run in its second call holds a failed validation and nothing
else. So a deadline or an exception that hits either call finds a result it can
overwrite without leaving two ways out.

*No overcount.* Counters are written as what was read plus one. `CountInv` bounds
both the row and every value any run has read of it by the number of counted
runs the counter is about; those sets only grow, and a writer adds itself to
exactly the sets whose counters it increments (`CountedIsAbout`, which needs
`FailuresAreClassified`: a repaired success is a JSON failure by its reason, not
only by its number of repairs).

*Exact alone.* As long as no two transactions have overlapped, every counter equals the number of runs it is
about, at most one transaction is under way, and what it has read is still the row (`ExactInv`). Its
write then adds the run to exactly the counters it belongs to (`AboutIsCounted`, the converse of
`CountedIsAbout`).

*Pages.* `WebAppInv` is the conjunction of the types, the fact that nothing is mounted
before the first dispatch, `DetailInv` and `ListInv`. To `OneLivePoll` the first
adds what makes an end accountable: a poll that asks for the timeline has shown a
settled task, and a poll that is off waits for nothing. `StopsForAReason` follows
step by step: of the ways a poll ends, the timeline's needs exactly that addition.
`ListInv` adds to `TimerIffActive` and `SpinnerIsHonest` that loads in
flight belong to a mount there has been, so that a new page owns none of the old
loads. The flag is shared, but whoever clears it clears it for all, hence it can only be
false while loads are in flight, never true while there are none; the proof
needs that a mounted page's load is replaced only by the page itself.

*Idempotent creation.* `ServerInv` relates the two halves. Of handlers (`HandlerInv`): a request
that was sent carries the key of its call; one that has not inserted is not in the table;
one that was refused has a row of its key there; one that answers names a row that is
there, its own or one of its key. Of calls (`CallInv`): the second request is not sent before
the first has failed, a call that is not over has no result, and a result is a row. Rows are never
deleted and keys of requests never change, so a conflict finds its row in the second read
(`RefusedFindsRow`), and each action is a step of `IdempotentCreation`: the start of
a call is `Ask`, an insert that is not refused is `Create`, the end of a call with success
is `Answer`, anything else a stutter.

*Uploads first.* The button looks at a counter, the property at batches. `UploadInv` says that the counter of
the mounted form is the number of files of the batches that belong to it, as the cardinality of a set of
pairs (batch, file), so that starting a batch adds a disjoint finite set and ending one removes it.

## 7. Only model-checked

* Liveness (`Settles`, `PendingIsTried`, `RunsFinish`, `PollsEnd`, `ListCatchesUp`, `FormComesBack`):
  temporal reasoning under fairness is out of the prover's reach.
* `ImplementsLifecycle`: that an open task closes is liveness, and the rest holds only without
  failing calls and crashes, since a success may be incomplete with them (section 4).
* `LegalTaskTransitions`, which is false of two slots: `FailingCalls` checks it with one slot and
  faults.
* The counterexamples of section 4, which are behaviours of the instances named there.

Every other invariant and action property that a passing run checks is the statement of a theorem, with the hypotheses above.

## 8. Not modelled

* Execution records, evaluation rows and traces: append-only; the per-step
  `retry_count` is written and never read. The run number of an execution
  record is a count taken under the row lock of its step, so two runs of a step do
  not compute the same number.
* Prompts, model calls, JSON schemas, asset files: pure data or I/O. Their
  outcomes are the classes of answer and error of `AgentExecutor`, and
  `RunAgent`'s and `Verdict`'s.
* `choose_repair_strategy`, `sleep_retry` and the message deduplication of
  `idempotency.py`: called by nothing in the flow.
* Malformed messages, unknown tasks, prefetch beyond one message per slot,
  reconnection: they do not touch the task's state.
* Cancellation of a handler at shutdown: planned; until then a crash is the
  nearest fault (it differs in that the `finally` block may run).
* Read-only APIs (dashboard, traces, executions). The dead-letter flag is planned.
* What the front end only draws: the home page, the step cards, the stepper, badges and shell, the
  list's search box and counters, the gallery's filters and saved items. They
  read props or refs and write nothing that another step reads.
* Toasts, field contents and validation messages of the form, the body of
  a brief and its validation by the server. The files' upload on the server
  (a file per request, no shared row).
* Text of the URL beyond the route: a task's hash names a task that exists.
* A manual resume's overlap with working slots whose leases it deletes: the properties of the
  lease, and `OnlyStaleWorkSpoils`, are stated until the first resume.
* The unique index on `task_id`, a fresh uuid. The count and the rows of a listing, two
  statements in the code and one action here. An abort while the body of an HTTP error is
  read (`api.js:49`), which surfaces as that error. A failure of `localStorage`
  after a submission that succeeded.
* Two API replicas resuming at once: the module has any number of request
  handlers and the proofs cover them; the runs have one.
