-------------------------- MODULE IdempotentCreation --------------------------
(***************************************************************************)
(* What POST /tasks/submit promises: a key stands for at most one task, and *)
(* every answer to a call names a task that exists and was created for the *)
(* call's key; without a key, for that very call.                          *)
(***************************************************************************)
EXTENDS Naturals

CONSTANTS
  Calls,          \* calls of submitTask()
  Attempts,       \* the requests a call may send
  Keys, NoKey     \* idempotency keys, and the absence of one

Ids == Calls \X Attempts      \* a task, by the request that created it
Rows == [id : Ids, key : Keys \cup {NoKey}]
NoRow == [id |-> <<0, 0>>, key |-> NoKey]

VARIABLES
  asked,          \* the calls made so far
  keyOf,          \* their keys
  rows,           \* the tasks
  answers         \* answers[c]: the task call c was told of

abstractVars == <<asked, keyOf, rows, answers>>

Init ==
  /\ asked = {} /\ keyOf = [c \in Calls |-> NoKey]
  /\ rows = {} /\ answers = [c \in Calls |-> NoRow]

\* a row may be the answer to call c
Belongs(r, c) ==
  /\ r.key = keyOf[c]
  /\ keyOf[c] = NoKey => r.id[1] = c

Ask(c) ==
  /\ c \notin asked /\ asked' = asked \cup {c}
  /\ keyOf'[c] \in Keys \cup {NoKey}
  /\ keyOf' = [keyOf EXCEPT ![c] = keyOf'[c]]
  /\ UNCHANGED <<rows, answers>>

Create(r) ==
  /\ \A q \in rows : q.id # r.id /\ (r.key = NoKey \/ q.key # r.key)
  /\ \E c \in asked : Belongs(r, c)
  /\ rows' = rows \cup {r}
  /\ UNCHANGED <<asked, keyOf, answers>>

Answer(c, r) ==
  /\ c \in asked /\ answers[c] = NoRow
  /\ Belongs(r, c)
  /\ answers' = [answers EXCEPT ![c] = r]
  /\ UNCHANGED <<asked, keyOf, rows>>

Next ==
  \/ \E c \in Calls : Ask(c)
  \/ \E r \in rows' \ rows : r \in Rows /\ Create(r)
  \/ \E c \in Calls, r \in rows : Answer(c, r)

Spec == Init /\ [][Next]_abstractVars
=============================================================================
