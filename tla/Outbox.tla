-------------------------------- MODULE Outbox --------------------------------
(***************************************************************************)
(* The transactional outbox in detail (app/services/outbox.py): the rows   *)
(* of outbox_events, the creators that publish their own row right after   *)
(* their commit, and the relays (outbox workers) that claim rows in        *)
(* batches.  Orchestrator abstracts all of it to a set of rows that are    *)
(* published at least once.                                                *)
(*                                                                         *)
(* One action is one transaction, one broker call, or one half of          *)
(* _mark_result, which reads the row without a lock and updates only the   *)
(* columns that differ from what it read.                                  *)
(***************************************************************************)
EXTENDS Naturals, FiniteSets

CONSTANTS
  Events,                \* outbox rows, by id; the creator of a row has its id
  Relays,                \* outbox worker processes
  OUTBOX_MAX_ATTEMPTS, OUTBOX_BATCH_SIZE

ASSUME OutboxAssumption ==
  /\ Events \subseteq Nat /\ IsFiniteSet(Events) /\ IsFiniteSet(Relays)
  /\ Relays \cap Events = {}
  /\ OUTBOX_MAX_ATTEMPTS \in Nat \ {0} /\ OUTBOX_BATCH_SIZE \in Nat \ {0}

VARIABLES
  status, attempts, lockedAt,  \* OutboxEvent rows
  pc, batch, outcome, seen,    \* publishers: rows to publish, last call's result, row read
  sent                         \* history: copies of each event the broker has taken

rowVars       == <<status, attempts, lockedAt>>
publisherVars == <<pc, batch, outcome, seen>>
vars == <<rowVars, publisherVars, sent>>

Publishers  == Events \cup Relays
EventStatus == {"absent", "pending", "publishing", "failed", "published", "exhausted"}
LockTimes   == {"null", "recent", "stale"}   \* locked_at against outbox_lock_timeout
Snapshot    == [status : EventStatus, attempts : Nat, lockedAt : LockTimes]

\* rows are published in the order of their ids
Current(p) == CHOOSE e \in batch[p] : \A d \in batch[p] : e <= d
Row(e) == [status |-> status[e], attempts |-> attempts[e], lockedAt |-> lockedAt[e]]
Absent == [status |-> "absent", attempts |-> 0, lockedAt |-> "null"]

\* the local variables of a call that is over
Forget(p) ==
  /\ outcome' = [outcome EXCEPT ![p] = "none"]
  /\ seen' = [seen EXCEPT ![p] = Absent]

Init ==
  /\ status = [e \in Events |-> "absent"]
  /\ attempts = [e \in Events |-> 0]
  /\ lockedAt = [e \in Events |-> "null"]
  /\ pc = [p \in Publishers |-> "idle"]
  /\ batch = [p \in Publishers |-> {}]
  /\ outcome = [p \in Publishers |-> "none"]
  /\ seen = [p \in Publishers |-> Absent]
  /\ sent = [e \in Events |-> 0]
-----------------------------------------------------------------------------
\* enqueue_step_event, committed with the business transaction; the creator
\* goes on to try_publish_event
Enqueue(e) ==
  /\ status[e] = "absent" /\ pc[e] = "idle"
  /\ status' = [status EXCEPT ![e] = "pending"]
  /\ pc' = [pc EXCEPT ![e] = "publish"]
  /\ batch' = [batch EXCEPT ![e] = {e}]
  /\ UNCHANGED <<attempts, lockedAt, outcome, seen, sent>>

\* mutant: only rows whose publication failed are claimed
ClaimableFailed(e) == attempts[e] < OUTBOX_MAX_ATTEMPTS /\ status[e] = "failed"
\* mutant: the limit is compared off by one
ClaimableOnceMore(e) ==
  /\ attempts[e] <= OUTBOX_MAX_ATTEMPTS
  /\ \/ status[e] \in {"pending", "failed"}
     \/ status[e] = "publishing" /\ lockedAt[e] = "stale"
Claimable(e) ==
  /\ attempts[e] < OUTBOX_MAX_ATTEMPTS
  /\ \/ status[e] \in {"pending", "failed"}
     \/ status[e] = "publishing" /\ lockedAt[e] = "stale"

\* mutant: a claim is not counted as an attempt
AttemptsKept(S) == attempts
AttemptsCounted(S) == [e \in Events |-> IF e \in S THEN attempts[e] + 1 ELSE attempts[e]]

\* claim_pending_events: rows another transaction has locked are skipped, so any
\* claimable rows up to the limit
Claim(r, S) ==
  /\ pc[r] = "idle"
  /\ S # {} /\ Cardinality(S) <= OUTBOX_BATCH_SIZE /\ \A e \in S : Claimable(e)
  /\ status' = [e \in Events |-> IF e \in S THEN "publishing" ELSE status[e]]
  /\ lockedAt' = [e \in Events |-> IF e \in S THEN "recent" ELSE lockedAt[e]]
  /\ attempts' = AttemptsCounted(S)
  /\ batch' = [batch EXCEPT ![r] = S]
  /\ pc' = [pc EXCEPT ![r] = "publish"]
  /\ UNCHANGED <<outcome, seen, sent>>

\* the broker confirms the message
Publish(p) ==
  /\ pc[p] = "publish"
  /\ sent' = [sent EXCEPT ![Current(p)] = @ + 1]
  /\ outcome' = [outcome EXCEPT ![p] = "success"]
  /\ pc' = [pc EXCEPT ![p] = "mark_read"]
  /\ UNCHANGED <<rowVars, batch, seen>>

\* the broker refuses it, or takes it and the confirmation is lost
PublishFails(p) ==
  /\ pc[p] = "publish"
  /\ \E taken \in {0, 1} : sent' = [sent EXCEPT ![Current(p)] = @ + taken]
  /\ outcome' = [outcome EXCEPT ![p] = "failure"]
  /\ pc' = [pc EXCEPT ![p] = "mark_read"]
  /\ UNCHANGED <<rowVars, batch, seen>>

MarkRead(p) ==
  /\ pc[p] = "mark_read"
  /\ seen' = [seen EXCEPT ![p] = Row(Current(p))]
  /\ pc' = [pc EXCEPT ![p] = "mark_write"]
  /\ UNCHANGED <<rowVars, batch, outcome, sent>>

\* mutant: the outcome of the publication is ignored
MarkedAlways(p) == "published"
Marked(p) ==
  IF outcome[p] = "success" THEN "published"
  ELSE IF seen[p].attempts >= OUTBOX_MAX_ATTEMPTS THEN "exhausted" ELSE "failed"

\* _mark_result commits: whoever owns the claim by now is not compared
MarkWrite(p) ==
  LET e == Current(p) IN
  /\ pc[p] = "mark_write"
  /\ status' = [status EXCEPT ![e] = IF Marked(p) = seen[p].status THEN @ ELSE Marked(p)]
  /\ lockedAt' = [lockedAt EXCEPT ![e] = IF seen[p].lockedAt = "null" THEN @ ELSE "null"]
  /\ batch' = [batch EXCEPT ![p] = @ \ {e}]
  /\ pc' = [pc EXCEPT ![p] = IF batch[p] = {e} THEN "idle" ELSE "publish"]
  /\ Forget(p)
  /\ UNCHANGED <<attempts, sent>>

\* mutant: a relay that failed polls again with rows left in its batch
AbandonKept(p) ==
  /\ pc[p] # "idle"
  /\ pc' = [pc EXCEPT ![p] = "idle"]
  /\ UNCHANGED <<rowVars, batch, outcome, seen, sent>>

\* the process dies, or _mark_result raises: the rest of the batch is abandoned
Abandon(p) ==
  /\ pc[p] # "idle"
  /\ pc' = [pc EXCEPT ![p] = "idle"]
  /\ batch' = [batch EXCEPT ![p] = {}]
  /\ Forget(p)
  /\ UNCHANGED <<rowVars, sent>>

\* outbox_lock_timeout passes while the row waits for its publisher
LockAges(e) ==
  /\ status[e] = "publishing" /\ lockedAt[e] = "recent"
  /\ lockedAt' = [lockedAt EXCEPT ![e] = "stale"]
  /\ UNCHANGED <<status, attempts, publisherVars, sent>>
-----------------------------------------------------------------------------
ClaimAny(r) == \E S \in SUBSET Events : Claim(r, S)
TryPublish(p) == Publish(p) \/ PublishFails(p) \/ MarkRead(p) \/ MarkWrite(p)

Next ==
  \/ \E e \in Events : Enqueue(e) \/ LockAges(e)
  \/ \E r \in Relays : ClaimAny(r)
  \/ \E p \in Publishers : TryPublish(p) \/ Abandon(p)

Spec == Init /\ [][Next]_vars

\* A live publisher goes on (the broker answers or raises), relays poll, time
\* passes.  No fairness on new rows and none on crashes.
Fairness ==
  /\ \A r \in Relays : WF_vars(ClaimAny(r))
  /\ \A p \in Publishers : WF_vars(TryPublish(p))
  /\ \A e \in Events : WF_vars(LockAges(e))

FairSpec == Spec /\ Fairness
-----------------------------------------------------------------------------
(* Properties *)

\* Every variable has its type, a publisher at work has a row to publish and an
\* idle one none, and a creator publishes only its own row.
TypeOK ==
  /\ status \in [Events -> EventStatus] /\ attempts \in [Events -> Nat]
  /\ lockedAt \in [Events -> LockTimes]
  /\ pc \in [Publishers -> {"idle", "publish", "mark_read", "mark_write"}]
  /\ batch \in [Publishers -> SUBSET Events]
  /\ outcome \in [Publishers -> {"none", "success", "failure"}]
  /\ seen \in [Publishers -> Snapshot]
  /\ sent \in [Events -> Nat]
  /\ \A p \in Publishers : pc[p] = "idle" <=> batch[p] = {}
  /\ \A e \in Events : batch[e] \subseteq {e}

\* A row is marked published only if the broker has taken its message, whatever
\* stale marks and takeovers happened before: nothing is settled unsent.
PublishedWasSent == \A e \in Events : status[e] = "published" => sent[e] > 0

\* At least once is not arbitrarily often: every copy but the creator's costs an
\* attempt, so an event is sent at most outbox_max_attempts + 1 times.
CopiesAreBounded == \A e \in Events : sent[e] <= attempts[e] + 1

\* A committed event does not wait for ever for a creator that died or whose mark
\* failed: somebody tries to publish it.
PendingIsTried ==
  \A e \in Events : status[e] = "pending" ~> status[e] # "pending"
-----------------------------------------------------------------------------
(* The outbox implements at-least-once delivery *)

Committed == {e \in Events : status[e] # "absent"}
Settled   == {e \in Events : status[e] = "published"}

Delivery == INSTANCE AtLeastOnce WITH
  MaxCopies <- OUTBOX_MAX_ATTEMPTS + 1,
  committed <- Committed, copies <- sent, settled <- Settled

\* Seen from outside the table is at-least-once delivery: only committed events
\* are sent, at most outbox_max_attempts + 1 times, and an event is settled only
\* after it was sent, whatever claims, takeovers and stale marks interleave.
ImplementsDelivery == Delivery!Spec
-----------------------------------------------------------------------------
(* What the repository's documents say and the code does not do *)

Held(e) == \E p \in Publishers : e \in batch[p]

\* "A publishing event that timed out can be taken over by another worker"
\* (claim_pending_events), while it has attempts left.
AbandonedRowsTakenOver ==
  \A e \in Events :
    status[e] = "publishing" /\ ~Held(e) /\ attempts[e] < OUTBOX_MAX_ATTEMPTS =>
      lockedAt[e] # "null"
=============================================================================
