------------------------------ MODULE Submission ------------------------------
(***************************************************************************)
(* The server's half of a submission: submit_task in                       *)
(* app/api/task_router.py over the unique index on tasks.request_id.  The  *)
(* request of a call and its retry may be handled at the same time, by two *)
(* API replicas, long after the browser has given one of them up.          *)
(***************************************************************************)
EXTENDS Browser

CONSTANTS
  Calls           \* bound: calls of submitTask(), in the order they are made

Keys == Nat \ {0}           \* idempotency keys
NoKey == 0                  \* the header is absent
Attempts == {0, 1}          \* a request by the retries its call has left: 1, then 0
Requests == Calls \X Attempts
NoTask == <<0, 0>>          \* a task is named by the request that created it

ASSUME SubmissionAssumption ==
  Calls \subseteq Nat \ {0} /\ IsFiniteSet(Calls)

VARIABLES
  handlers,       \* the handler of every request that was sent
  tasks           \* the rows of the tasks table

serverVars == <<handlers, tasks>>

\* "over": never sent, answered, or dead
Handler == [pc : {"over", "check", "create", "conflict", "answer", "raise"},
            key : Keys \cup {NoKey}, found : Requests \cup {NoTask}]
Idle == [pc |-> "over", key |-> NoKey, found |-> NoTask]

\* the rows with the handler's key; without a key the index does not apply
Same(h, r) == handlers[h].key # NoKey /\ handlers[r].key = handlers[h].key
Existing(h) == {r \in tasks : Same(h, r)}
Found(h) == CHOOSE r \in Existing(h) : TRUE

SubmissionInit ==
  /\ handlers = [h \in Requests |-> Idle] /\ tasks = {}

\* the request is on its way
Sent(h, k) == [handlers EXCEPT ![h] = [Idle EXCEPT !.pc = "check", !.key = k]]

Goes(h, pc, r) == handlers' = [handlers EXCEPT ![h].pc = pc, ![h].found = r]

\* a task with the key already exists
Check(h) ==
  /\ handlers[h].pc = "check"
  /\ IF Existing(h) # {} THEN Goes(h, "answer", Found(h)) ELSE Goes(h, "create", NoTask)
  /\ UNCHANGED tasks

\* mutant: request_id has an index, but not a unique one
NoConflict(h) == FALSE
\* mutant: the conflict is about another column
ConflictAny(h) == tasks # {}
Conflict(h) == Existing(h) # {}

\* create_task commits the task and publishes its first step, or the unique index
\* refuses it
Create(h) ==
  /\ handlers[h].pc = "create"
  /\ IF Conflict(h)
     THEN Goes(h, "conflict", NoTask) /\ UNCHANGED tasks
     ELSE Goes(h, "answer", h) /\ tasks' = tasks \cup {h}

\* after the rollback the row that won is read; if there is none the error goes on
Reread(h) ==
  /\ handlers[h].pc = "conflict"
  /\ IF Existing(h) # {} THEN Goes(h, "answer", Found(h)) ELSE Goes(h, "raise", NoTask)
  /\ UNCHANGED tasks

Handles(h) == Check(h) \/ Create(h) \/ Reread(h)

\* what becomes of a request whose browser has given up: it goes on, or it never
\* arrived, or its process died
GivenUp(h) == {handlers, [handlers EXCEPT ![h].pc = "over"]}
-----------------------------------------------------------------------------
SubmissionTypeOK ==
  /\ handlers \in [Requests -> Handler]
  /\ tasks \subseteq Requests
=============================================================================
