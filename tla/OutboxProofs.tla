---------------------------- MODULE OutboxProofs ----------------------------
(***************************************************************************)
(* Theorems about Outbox, for every set of rows, every number of outbox    *)
(* workers, every limit and batch size, and crashes in any number.         *)
(***************************************************************************)
EXTENDS Outbox, TLAPS, FiniteSetTheorems, WellFoundedInduction

\* Of finitely many rows one has the lowest id: the sets of the rows up to each
\* one are ordered by inclusion, which is well-founded.
LEMMA LowestId ==
  ASSUME NEW S \in SUBSET Nat, IsFiniteSet(S), S # {}
  PROVE  \E e \in S : \A d \in S : e <= d
<1>. DEFINE upTo == [e \in S |-> {d \in S : d <= e}]
            T == {upTo[e] : e \in S}
<1>1. \A e \in S : upTo[e] \in SUBSET S /\ \A d : d \in upTo[e] <=> d \in S /\ d <= e
  OBVIOUS
<1>. HIDE DEF upTo
<1>2. T \subseteq SUBSET S /\ T # {}
  BY <1>1
<1>3. IsWellFoundedOn(StrictSubsetOrdering(S), SUBSET S)
  BY FS_FiniteSubsetsOfFinite, FS_StrictSubsetOrderingWellFounded
<1>4. \E U \in T : \A V \in T : <<V, U>> \notin StrictSubsetOrdering(S)
  <2>. HIDE DEF T
  <2>. QED BY <1>2, <1>3, WFMin
<1>5. PICK e \in S : \A d \in S : <<upTo[d], upTo[e]>> \notin StrictSubsetOrdering(S)
  BY <1>4
<1>. HIDE DEF T
<1>6. ASSUME NEW d \in S, d < e PROVE FALSE
  <2>1. \A x \in S : x \in Nat
    OBVIOUS
  <2>2. \A x \in S : x <= d => x <= e
    BY <1>6, <2>1
  <2>3. e \in upTo[e] /\ e \notin upTo[d]
    BY <1>1, <1>6, <2>1
  <2>4. upTo[d] \subseteq upTo[e] /\ upTo[d] # upTo[e]
    BY <1>1, <2>2, <2>3
  <2>5. <<upTo[d], upTo[e]>> \in StrictSubsetOrdering(S)
    BY <1>1, <2>4 DEF StrictSubsetOrdering
  <2>. QED BY <1>5, <2>5
<1>. QED BY <1>6

\* The publishers are finitely many.
LEMMA FinitePublishers == IsFiniteSet(Publishers)
BY OutboxAssumption, FS_Union DEF Publishers

\* A publisher at work publishes a row of its batch.
LEMMA CurrentType ==
  ASSUME TypeOK, NEW p \in Publishers, pc[p] # "idle"
  PROVE  Current(p) \in batch[p] /\ Current(p) \in Events
<1>1. batch[p] \in SUBSET Events /\ batch[p] # {}
  BY DEF TypeOK
<1>2. batch[p] \in SUBSET Nat /\ IsFiniteSet(batch[p])
  BY <1>1, OutboxAssumption, FS_Subset
<1>3. \E e \in batch[p] : \A d \in batch[p] : e <= d
  BY <1>1, <1>2, LowestId
<1>. QED BY <1>1, <1>3 DEF Current

\* The row in work changes only with the batch.
LEMMA CurrentKept ==
  ASSUME NEW p, batch'[p] = batch[p]
  PROVE  Current(p)' = Current(p)
BY DEF Current

-----------------------------------------------------------------------------
(* Types *)

LEMMA RowType ==
  ASSUME TypeOK, NEW e \in Events
  PROVE  Row(e) \in Snapshot
BY DEF TypeOK, Row, Snapshot

LEMMA InitType == Init => TypeOK
BY OutboxAssumption DEF Init, TypeOK, Publishers, EventStatus, LockTimes, Absent, Snapshot

LEMMA NextType ==
  ASSUME TypeOK, [Next]_vars
  PROVE  TypeOK'
<1>. USE DEF TypeOK, Publishers
<1>. Absent \in Snapshot /\ Relays \cap Events = {}
  BY OutboxAssumption DEF Absent, Snapshot, EventStatus, LockTimes
<1>1. ASSUME NEW e \in Events, Enqueue(e) PROVE TypeOK'
  BY <1>1 DEF Enqueue, EventStatus
<1>2. ASSUME NEW r \in Relays, NEW S \in SUBSET Events, Claim(r, S) PROVE TypeOK'
  BY <1>2 DEF Claim, AttemptsCounted, EventStatus, LockTimes
<1>3. ASSUME NEW p \in Publishers, Publish(p) \/ PublishFails(p) PROVE TypeOK'
  <2>1. Current(p) \in Events
    BY <1>3, CurrentType DEF Publish, PublishFails
  <2>. QED BY <1>3, <2>1 DEF Publish, PublishFails, rowVars
<1>4. ASSUME NEW p \in Publishers, MarkRead(p) PROVE TypeOK'
  <2>1. Row(Current(p)) \in Snapshot
    BY <1>4, CurrentType, RowType DEF MarkRead
  <2>. QED BY <1>4, <2>1 DEF MarkRead, rowVars
<1>5. ASSUME NEW p \in Publishers, MarkWrite(p) PROVE TypeOK'
  <2>1. Marked(p) \in EventStatus
    BY DEF Marked, EventStatus
  <2>2. Current(p) \in batch[p] /\ Current(p) \in Events
    BY <1>5, CurrentType DEF MarkWrite
  <2>. QED BY <1>5, <2>1, <2>2 DEF MarkWrite, Forget, LockTimes
<1>6. ASSUME NEW p \in Publishers, Abandon(p) PROVE TypeOK'
  BY <1>6 DEF Abandon, Forget, rowVars
<1>7. ASSUME NEW e \in Events, LockAges(e) PROVE TypeOK'
  BY <1>7 DEF LockAges, LockTimes, publisherVars
<1>8. CASE UNCHANGED vars
  BY <1>8 DEF vars, rowVars, publisherVars
<1>. QED BY <1>1, <1>2, <1>3, <1>4, <1>5, <1>6, <1>7, <1>8
         DEF Next, ClaimAny, TryPublish

\* In every reachable state of the outbox each variable has its type, and a
\* publisher is at work exactly when it has rows to publish.
THEOREM OutboxTypeCorrect == Spec => []TypeOK
<1>1. TypeOK /\ [Next]_vars => TypeOK'
  BY NextType
<1>. QED BY <1>1, InitType, PTL DEF Spec

-----------------------------------------------------------------------------
(* Published rows were sent *)

\* Whoever remembers a successful publication is about to mark the row it sent.
SuccessWasSent ==
  \A p \in Publishers :
    outcome[p] = "success" =>
      pc[p] \in {"mark_read", "mark_write"} /\ sent[Current(p)] > 0

LEMMA SentNext ==
  ASSUME TypeOK, SuccessWasSent, PublishedWasSent, [Next]_vars
  PROVE  SuccessWasSent' /\ PublishedWasSent'
<1>. USE DEF SuccessWasSent, PublishedWasSent
<1>. /\ sent \in [Events -> Nat] /\ status \in [Events -> EventStatus]
     /\ outcome \in [Publishers -> {"none", "success", "failure"}]
     /\ pc \in [Publishers -> {"idle", "publish", "mark_read", "mark_write"}]
     /\ batch \in [Publishers -> SUBSET Events]
  BY DEF TypeOK
<1>0. Events \subseteq Publishers /\ Relays \subseteq Publishers
  BY DEF Publishers
<1>1. ASSUME NEW e \in Events, Enqueue(e) PROVE SuccessWasSent' /\ PublishedWasSent'
  <2>1. ASSUME NEW p \in Publishers, outcome[p] = "success"
        PROVE  pc'[p] = pc[p] /\ Current(p)' = Current(p)
    <3>1. p # e
      BY <1>1, <2>1, <1>0 DEF Enqueue, TypeOK
    <3>. QED BY <1>1, <3>1, CurrentKept DEF Enqueue
  <2>. QED BY <1>1, <2>1 DEF Enqueue
<1>2. ASSUME NEW r \in Relays, NEW S \in SUBSET Events, Claim(r, S)
      PROVE  SuccessWasSent' /\ PublishedWasSent'
  <2>1. ASSUME NEW p \in Publishers, outcome[p] = "success"
        PROVE  pc'[p] = pc[p] /\ Current(p)' = Current(p)
    <3>1. p # r
      BY <1>2, <2>1 DEF Claim
    <3>. QED BY <1>2, <3>1, CurrentKept DEF Claim
  <2>. QED BY <1>2, <2>1 DEF Claim
<1>3. ASSUME NEW p \in Publishers, Publish(p) \/ PublishFails(p)
      PROVE  SuccessWasSent' /\ PublishedWasSent'
  <2>1. UNCHANGED batch /\ UNCHANGED status
    BY <1>3 DEF Publish, PublishFails, rowVars
  <2>2. Current(p) \in Events
    BY <1>3, CurrentType DEF Publish, PublishFails
  <2>3. \A q \in Publishers : Current(q)' = Current(q)
    BY <2>1, CurrentKept
  <2>4. \A e \in Events : sent'[e] \in Nat /\ sent'[e] >= sent[e]
    BY <1>3, <2>2 DEF Publish, PublishFails
  <2>5. ASSUME NEW q \in Publishers \ {p}, outcome[q] = "success"
        PROVE  Current(q) \in Events
    BY <2>5, CurrentType
  <2>6. \A q \in Publishers \ {p} : outcome'[q] = outcome[q] /\ pc'[q] = pc[q]
    BY <1>3 DEF Publish, PublishFails
  <2>7. outcome'[p] = "success" => pc'[p] = "mark_read" /\ sent'[Current(p)] > 0
    BY <1>3, <2>2 DEF Publish, PublishFails
  <2>8. SuccessWasSent'
    BY <2>2, <2>3, <2>4, <2>5, <2>6, <2>7
  <2>. QED BY <2>1, <2>4, <2>8
<1>4. ASSUME NEW p \in Publishers, MarkRead(p) PROVE SuccessWasSent' /\ PublishedWasSent'
  <2>1. UNCHANGED <<batch, status, sent, outcome>>
    BY <1>4 DEF MarkRead, rowVars
  <2>2. \A q \in Publishers : Current(q)' = Current(q)
    BY <2>1, CurrentKept
  <2>. QED BY <1>4, <2>1, <2>2 DEF MarkRead
<1>5. ASSUME NEW p \in Publishers, MarkWrite(p) PROVE SuccessWasSent' /\ PublishedWasSent'
  <2>1. Current(p) \in Events
    BY <1>5, CurrentType DEF MarkWrite
  <2>2. Marked(p) = "published" => sent[Current(p)] > 0
    BY DEF Marked
  <2>3. PublishedWasSent'
    BY <1>5, <2>1, <2>2 DEF MarkWrite
  <2>4. outcome'[p] # "success" /\ UNCHANGED sent
    BY <1>5 DEF MarkWrite, Forget
  <2>5. ASSUME NEW q \in Publishers \ {p}
        PROVE  outcome'[q] = outcome[q] /\ pc'[q] = pc[q] /\ Current(q)' = Current(q)
    BY <1>5, CurrentKept DEF MarkWrite, Forget
  <2>. QED BY <2>3, <2>4, <2>5
<1>6. ASSUME NEW p \in Publishers, Abandon(p) PROVE SuccessWasSent' /\ PublishedWasSent'
  <2>1. outcome'[p] # "success" /\ UNCHANGED <<sent, status>>
    BY <1>6 DEF Abandon, Forget, rowVars
  <2>2. ASSUME NEW q \in Publishers \ {p}
        PROVE  outcome'[q] = outcome[q] /\ pc'[q] = pc[q] /\ Current(q)' = Current(q)
    BY <1>6, CurrentKept DEF Abandon, Forget
  <2>. QED BY <2>1, <2>2
<1>7. CASE (\E e \in Events : LockAges(e)) \/ UNCHANGED vars
  <2>1. UNCHANGED <<status, sent, publisherVars>>
    BY <1>7 DEF LockAges, vars, rowVars
  <2>. QED BY <2>1 DEF publisherVars, Current
<1>. QED BY <1>1, <1>2, <1>3, <1>4, <1>5, <1>6, <1>7 DEF Next, ClaimAny, TryPublish

\* A row is marked published only after the broker has taken its message, under
\* stale marks, takeovers of live claims and crashes in any number and order.
THEOREM NothingSettledUnsent == Spec => []PublishedWasSent
<1>1. Init => SuccessWasSent /\ PublishedWasSent
  BY DEF Init, SuccessWasSent, PublishedWasSent
<1>2. TypeOK /\ SuccessWasSent /\ PublishedWasSent /\ [Next]_vars
        => SuccessWasSent' /\ PublishedWasSent'
  BY SentNext
<1>. QED BY <1>1, <1>2, OutboxTypeCorrect, PTL DEF Spec

-----------------------------------------------------------------------------
(* Copies are bounded *)

\* The publishers that may still send a row: it is in their batch and they have
\* not tried it yet.
Owing(e) == {p \in Publishers : e \in batch[p] /\ (pc[p] = "publish" \/ e # Current(p))}

\* A copy that was sent or may still be sent is paid for by a claim, or is the
\* creator's.
CopiesInv ==
  \A e \in Events :
    sent[e] + Cardinality(Owing(e)) <= attempts[e] + (IF status[e] = "absent" THEN 0 ELSE 1)

LEMMA OwingCount ==
  ASSUME NEW e \in Events
  PROVE  /\ IsFiniteSet(Owing(e)) /\ Cardinality(Owing(e)) \in Nat
         /\ Cardinality(Owing(e)') \in Nat
         /\ Owing(e)' \subseteq Owing(e) => Cardinality(Owing(e)') <= Cardinality(Owing(e))
         /\ \A p : Owing(e)' \subseteq Owing(e) \cup {p} =>
                     Cardinality(Owing(e)') <= Cardinality(Owing(e)) + 1
         /\ \A p \in Owing(e) : Owing(e)' \subseteq Owing(e) \ {p} =>
                     Cardinality(Owing(e)') <= Cardinality(Owing(e)) - 1
<1>1. Owing(e) \in SUBSET Publishers /\ Owing(e)' \in SUBSET Publishers
  BY DEF Owing
<1>. DEFINE S == Owing(e)
            T == Owing(e)'
<1>2. IsFiniteSet(S) /\ IsFiniteSet(T)
  BY <1>1, FinitePublishers, FS_Subset
<1>. HIDE DEF S, T
<1>3. Cardinality(S) \in Nat /\ Cardinality(T) \in Nat
  BY <1>2, FS_CardinalityType
<1>4. T \subseteq S => Cardinality(T) <= Cardinality(S)
  BY <1>2, FS_Subset
<1>5. ASSUME NEW p, T \subseteq S \cup {p} PROVE Cardinality(T) <= Cardinality(S) + 1
  <2>1. IsFiniteSet(S \cup {p}) /\ Cardinality(S \cup {p}) <= Cardinality(S) + 1
    BY <1>2, <1>3, FS_AddElement
  <2>2. Cardinality(T) <= Cardinality(S \cup {p}) /\ Cardinality(S \cup {p}) \in Nat
    BY <1>5, <2>1, FS_Subset, FS_CardinalityType
  <2>. QED BY <1>3, <2>1, <2>2
<1>6. ASSUME NEW p \in S, T \subseteq S \ {p} PROVE Cardinality(T) <= Cardinality(S) - 1
  <2>1. IsFiniteSet(S \ {p}) /\ Cardinality(S \ {p}) = Cardinality(S) - 1
    BY <1>2, <1>6, FS_RemoveElement
  <2>2. Cardinality(T) <= Cardinality(S \ {p})
    BY <1>6, <2>1, FS_Subset
  <2>. QED BY <2>1, <2>2
<1>. QED BY <1>2, <1>3, <1>4, <1>5, <1>6 DEF S, T

\* A step that sends nothing and adds nobody to a row's publishers.
LEMMA CopiesKept ==
  ASSUME TypeOK, TypeOK', CopiesInv, NEW e \in Events,
         Owing(e)' \subseteq Owing(e), sent'[e] = sent[e], attempts'[e] = attempts[e],
         status[e] # "absent" => status'[e] # "absent"
  PROVE  sent'[e] + Cardinality(Owing(e)')
           <= attempts'[e] + (IF status'[e] = "absent" THEN 0 ELSE 1)
<1>1. sent[e] \in Nat /\ attempts[e] \in Nat
  BY DEF TypeOK
<1>. QED BY <1>1, OwingCount DEF CopiesInv

LEMMA CopiesNext ==
  ASSUME TypeOK, TypeOK', CopiesInv, [Next]_vars
  PROVE  CopiesInv'
<1>. SUFFICES ASSUME NEW e \in Events
              PROVE  sent'[e] + Cardinality(Owing(e)')
                       <= attempts'[e] + (IF status'[e] = "absent" THEN 0 ELSE 1)
  BY DEF CopiesInv
<1>. /\ sent \in [Events -> Nat] /\ attempts \in [Events -> Nat]
     /\ status \in [Events -> EventStatus] /\ batch \in [Publishers -> SUBSET Events]
     /\ pc \in [Publishers -> {"idle", "publish", "mark_read", "mark_write"}]
     /\ Events \subseteq Publishers /\ Relays \subseteq Publishers
  BY DEF TypeOK, Publishers
<1>0. sent[e] + Cardinality(Owing(e)) <= attempts[e] + (IF status[e] = "absent" THEN 0 ELSE 1)
      /\ sent[e] \in Nat /\ attempts[e] \in Nat
  BY DEF CopiesInv
<1>1. ASSUME NEW d \in Events, Enqueue(d)
      PROVE  sent'[e] + Cardinality(Owing(e)')
               <= attempts'[e] + (IF status'[e] = "absent" THEN 0 ELSE 1)
  <2>1. \A p \in Publishers \ {d} : Current(p)' = Current(p) /\ pc'[p] = pc[p]
                                    /\ batch'[p] = batch[p]
    BY <1>1, CurrentKept DEF Enqueue
  <2>2. CASE e = d
    <3>1. Owing(e)' \subseteq Owing(e) \cup {d}
      BY <2>1 DEF Owing
    <3>2. /\ sent'[e] = sent[e] /\ attempts'[e] = attempts[e]
          /\ status[e] = "absent" /\ status'[e] = "pending"
      BY <1>1, <2>2 DEF Enqueue
    <3>3. Cardinality(Owing(e)') <= Cardinality(Owing(e)) + 1
      BY <3>1, OwingCount
    <3>4. Cardinality(Owing(e)') \in Nat /\ Cardinality(Owing(e)) \in Nat
      BY OwingCount
    <3>. HIDE DEF Owing
    <3>. QED BY <1>0, <3>2, <3>3, <3>4
  <2>3. CASE e # d
    <3>1. Owing(e)' \subseteq Owing(e)
      BY <1>1, <2>1, <2>3 DEF Owing, Enqueue
    <3>. QED BY <1>1, <2>3, <3>1, CopiesKept DEF Enqueue
  <2>. QED BY <2>2, <2>3
<1>2. ASSUME NEW r \in Relays, NEW S \in SUBSET Events, Claim(r, S)
      PROVE  sent'[e] + Cardinality(Owing(e)')
               <= attempts'[e] + (IF status'[e] = "absent" THEN 0 ELSE 1)
  <2>1. \A p \in Publishers \ {r} : Current(p)' = Current(p) /\ pc'[p] = pc[p]
                                    /\ batch'[p] = batch[p]
    BY <1>2, CurrentKept DEF Claim
  <2>2. CASE e \in S
    <3>1. Owing(e)' \subseteq Owing(e) \cup {r}
      BY <2>1 DEF Owing
    <3>2. sent'[e] = sent[e] /\ attempts'[e] = attempts[e] + 1 /\ status'[e] = "publishing"
      BY <1>2, <2>2 DEF Claim, AttemptsCounted
    <3>3. Cardinality(Owing(e)') <= Cardinality(Owing(e)) + 1
      BY <3>1, OwingCount
    <3>4. Cardinality(Owing(e)') \in Nat /\ Cardinality(Owing(e)) \in Nat
      BY OwingCount
    <3>. HIDE DEF Owing
    <3>. QED BY <1>0, <3>2, <3>3, <3>4
  <2>3. CASE e \notin S
    <3>1. Owing(e)' \subseteq Owing(e)
      BY <1>2, <2>1, <2>3 DEF Owing, Claim
    <3>2. sent'[e] = sent[e] /\ attempts'[e] = attempts[e] /\ status'[e] = status[e]
      BY <1>2, <2>3 DEF Claim, AttemptsCounted
    <3>. QED BY <3>1, <3>2, CopiesKept
  <2>. QED BY <2>2, <2>3
<1>3. ASSUME NEW p \in Publishers, Publish(p) \/ PublishFails(p)
      PROVE  sent'[e] + Cardinality(Owing(e)')
               <= attempts'[e] + (IF status'[e] = "absent" THEN 0 ELSE 1)
  <2>1. /\ UNCHANGED <<batch, status, attempts>> /\ pc[p] = "publish"
        /\ pc' = [pc EXCEPT ![p] = "mark_read"]
    BY <1>3 DEF Publish, PublishFails, rowVars
  <2>2. Current(p) \in batch[p] /\ \A q : Current(q)' = Current(q)
    BY <2>1, CurrentKept, CurrentType
  <2>3. CASE e = Current(p)
    <3>1. p \in Owing(e) /\ Owing(e)' \subseteq Owing(e) \ {p}
      BY <2>1, <2>2, <2>3 DEF Owing
    <3>2. sent'[e] \in {sent[e], sent[e] + 1}
      BY <1>3, <2>3 DEF Publish, PublishFails
    <3>. QED BY <1>0, <2>1, <3>1, <3>2, OwingCount
  <2>4. CASE e # Current(p)
    <3>1. Owing(e)' \subseteq Owing(e)
      BY <2>1, <2>2, <2>4 DEF Owing
    <3>2. sent'[e] = sent[e]
      BY <1>3, <2>4 DEF Publish, PublishFails
    <3>. QED BY <2>1, <3>1, <3>2, CopiesKept
  <2>. QED BY <2>3, <2>4
<1>4. ASSUME NEW p \in Publishers, MarkRead(p)
      PROVE  sent'[e] + Cardinality(Owing(e)')
               <= attempts'[e] + (IF status'[e] = "absent" THEN 0 ELSE 1)
  <2>1. UNCHANGED <<batch, status, attempts, sent>>
    BY <1>4 DEF MarkRead, rowVars
  <2>2. Owing(e)' \subseteq Owing(e)
    BY <1>4, <2>1, CurrentKept DEF Owing, MarkRead
  <2>. QED BY <2>1, <2>2, CopiesKept
<1>5. ASSUME NEW p \in Publishers, MarkWrite(p)
      PROVE  sent'[e] + Cardinality(Owing(e)')
               <= attempts'[e] + (IF status'[e] = "absent" THEN 0 ELSE 1)
  <2>1. /\ UNCHANGED <<attempts, sent>>
        /\ status[e] # "absent" => status'[e] # "absent"
    BY <1>5 DEF MarkWrite, Marked
  <2>2. batch'[p] = batch[p] \ {Current(p)}
    BY <1>5 DEF MarkWrite
  <2>3. \A q \in Publishers \ {p} : Current(q)' = Current(q) /\ pc'[q] = pc[q]
                                    /\ batch'[q] = batch[q]
    BY <1>5, CurrentKept DEF MarkWrite
  <2>4. Owing(e)' \subseteq Owing(e)
    BY <2>2, <2>3 DEF Owing
  <2>. QED BY <2>1, <2>4, CopiesKept
<1>6. ASSUME NEW p \in Publishers, Abandon(p)
      PROVE  sent'[e] + Cardinality(Owing(e)')
               <= attempts'[e] + (IF status'[e] = "absent" THEN 0 ELSE 1)
  <2>1. UNCHANGED <<attempts, sent, status>> /\ batch'[p] = {}
    BY <1>6 DEF Abandon, rowVars
  <2>2. \A q \in Publishers \ {p} : Current(q)' = Current(q) /\ pc'[q] = pc[q]
                                    /\ batch'[q] = batch[q]
    BY <1>6, CurrentKept DEF Abandon
  <2>3. Owing(e)' \subseteq Owing(e)
    BY <2>1, <2>2 DEF Owing
  <2>. QED BY <2>1, <2>3, CopiesKept
<1>7. CASE (\E d \in Events : LockAges(d)) \/ UNCHANGED vars
  <2>1. UNCHANGED <<status, attempts, sent, publisherVars>>
    BY <1>7 DEF LockAges, vars, rowVars
  <2>2. Owing(e)' \subseteq Owing(e)
    BY <2>1 DEF Owing, Current, publisherVars
  <2>. QED BY <2>1, <2>2, CopiesKept
<1>. QED BY <1>1, <1>2, <1>3, <1>4, <1>5, <1>6, <1>7 DEF Next, ClaimAny, TryPublish

\* An event is sent at most once per claim and once by its creator, whatever is
\* refused, abandoned, taken over or marked late.
THEOREM BoundedDuplicates == Spec => []CopiesAreBounded
<1>1. Init => CopiesInv
  <2>. SUFFICES ASSUME Init, NEW e \in Events PROVE Owing(e) = {}
    BY FS_EmptySet DEF Init, CopiesInv
  <2>. QED BY DEF Init, Owing
<1>2. TypeOK /\ TypeOK' /\ CopiesInv /\ [Next]_vars => CopiesInv'
  BY CopiesNext
<1>3. TypeOK /\ CopiesInv => CopiesAreBounded
  <2>. SUFFICES ASSUME TypeOK, CopiesInv, NEW e \in Events PROVE sent[e] <= attempts[e] + 1
    BY DEF CopiesAreBounded
  <2>1. sent[e] \in Nat /\ attempts[e] \in Nat
    BY DEF TypeOK
  <2>. QED BY <2>1, OwingCount DEF CopiesInv
<1>. QED BY <1>1, <1>2, <1>3, OutboxTypeCorrect, PTL DEF Spec

-----------------------------------------------------------------------------
(* The outbox implements at-least-once delivery *)

\* Rows in work exist, and no row is claimed more often than the limit allows.
WorkIsCommitted ==
  /\ \A p \in Publishers : batch[p] \subseteq Committed
  /\ \A e \in Events : attempts[e] <= OUTBOX_MAX_ATTEMPTS

LEMMA WorkNext ==
  ASSUME TypeOK, WorkIsCommitted, [Next]_vars
  PROVE  WorkIsCommitted'
<1>. USE DEF WorkIsCommitted, Committed
<1>. /\ attempts \in [Events -> Nat] /\ status \in [Events -> EventStatus]
     /\ batch \in [Publishers -> SUBSET Events] /\ OUTBOX_MAX_ATTEMPTS \in Nat
     /\ Events \subseteq Publishers /\ Relays \subseteq Publishers
  BY OutboxAssumption DEF TypeOK, Publishers
<1>1. ASSUME NEW e \in Events, Enqueue(e) PROVE WorkIsCommitted'
  BY <1>1 DEF Enqueue
<1>2. ASSUME NEW r \in Relays, NEW S \in SUBSET Events, Claim(r, S) PROVE WorkIsCommitted'
  <2>1. \A e \in S : attempts[e] + 1 <= OUTBOX_MAX_ATTEMPTS
    BY <1>2 DEF Claim, Claimable
  <2>2. \A e \in Events : attempts'[e] <= OUTBOX_MAX_ATTEMPTS
    BY <1>2, <2>1 DEF Claim, AttemptsCounted
  <2>3. Committed \subseteq Committed' /\ S \subseteq Committed'
    BY <1>2 DEF Claim
  <2>. QED BY <1>2, <2>2, <2>3 DEF Claim
<1>3. ASSUME NEW p \in Publishers, Publish(p) \/ PublishFails(p) \/ MarkRead(p)
      PROVE  WorkIsCommitted'
  BY <1>3 DEF Publish, PublishFails, MarkRead, rowVars
<1>4. ASSUME NEW p \in Publishers, MarkWrite(p) PROVE WorkIsCommitted'
  <2>1. \A e \in Events : status[e] # "absent" => status'[e] # "absent"
    BY <1>4 DEF MarkWrite, Marked
  <2>2. Committed \subseteq Committed'
    BY <2>1
  <2>3. \A q \in Publishers : batch'[q] \subseteq batch[q]
    BY <1>4 DEF MarkWrite
  <2>. QED BY <1>4, <2>2, <2>3 DEF MarkWrite
<1>5. ASSUME NEW p \in Publishers, Abandon(p) PROVE WorkIsCommitted'
  BY <1>5 DEF Abandon, rowVars
<1>6. CASE (\E e \in Events : LockAges(e)) \/ UNCHANGED vars
  BY <1>6 DEF LockAges, vars, rowVars, publisherVars
<1>. QED BY <1>1, <1>2, <1>3, <1>4, <1>5, <1>6 DEF Next, ClaimAny, TryPublish

\* A step of the outbox is a step of at-least-once delivery, or none.
LEMMA DeliveryStep ==
  ASSUME TypeOK, TypeOK', WorkIsCommitted, WorkIsCommitted', PublishedWasSent',
         CopiesAreBounded', [Next]_vars
  PROVE  [Delivery!Next]_(Delivery!vars)
<1>. USE DEF Delivery!vars
<1>. /\ status \in [Events -> EventStatus] /\ sent \in [Events -> Nat]
     /\ batch \in [Publishers -> SUBSET Events]
  BY DEF TypeOK
<1>1. ASSUME NEW e \in Events, Enqueue(e) PROVE Delivery!Commit(e)
  BY <1>1 DEF Enqueue, Delivery!Commit, Committed, Settled
<1>2. ASSUME NEW r \in Relays, NEW S \in SUBSET Events, Claim(r, S)
      PROVE  UNCHANGED Delivery!vars
  <2>1. \A e \in S : status[e] \notin {"absent", "published"}
    BY <1>2 DEF Claim, Claimable
  <2>2. \A e \in Events : /\ status'[e] = "absent" <=> status[e] = "absent"
                          /\ status'[e] = "published" <=> status[e] = "published"
    BY <1>2, <2>1 DEF Claim
  <2>. QED BY <1>2, <2>2 DEF Claim, Committed, Settled
<1>3. ASSUME NEW p \in Publishers, Publish(p) \/ PublishFails(p)
      PROVE  Delivery!Send(Current(p)) \/ UNCHANGED Delivery!vars
  <2>1. Current(p) \in Committed /\ Current(p) \in Events
    BY <1>3, CurrentType DEF Publish, PublishFails, WorkIsCommitted
  <2>2. UNCHANGED <<Committed, Settled>>
    BY <1>3 DEF Publish, PublishFails, rowVars, Committed, Settled
  <2>3. sent' = [sent EXCEPT ![Current(p)] = @ + 1] \/ UNCHANGED sent
    BY <1>3 DEF Publish, PublishFails
  <2>4. ASSUME sent' = [sent EXCEPT ![Current(p)] = @ + 1]
        PROVE  sent[Current(p)] < OUTBOX_MAX_ATTEMPTS + 1
    <3>1. sent'[Current(p)] = sent[Current(p)] + 1
      BY <2>1, <2>4
    <3>2. \A e \in Events : /\ sent'[e] <= attempts'[e] + 1 /\ attempts'[e] \in Nat
                            /\ attempts'[e] <= OUTBOX_MAX_ATTEMPTS
      BY DEF CopiesAreBounded, WorkIsCommitted, TypeOK
    <3>3. sent[Current(p)] \in Nat /\ OUTBOX_MAX_ATTEMPTS \in Nat
      BY <2>1, OutboxAssumption
    <3>. QED BY <2>1, <3>1, <3>2, <3>3
  <2>. QED BY <2>1, <2>2, <2>3, <2>4 DEF Delivery!Send
<1>4. ASSUME NEW p \in Publishers, MarkWrite(p)
      PROVE  \/ Delivery!Settle(Current(p)) \/ Delivery!Reopen(Current(p))
             \/ UNCHANGED Delivery!vars
  <2>. DEFINE e == Current(p)
  <2>1. e \in Events /\ status[e] # "absent"
    BY <1>4, CurrentType DEF MarkWrite, WorkIsCommitted, Committed
  <2>2. status' = [status EXCEPT ![e] = IF Marked(p) = seen[p].status THEN @ ELSE Marked(p)]
    BY <1>4 DEF MarkWrite
  <2>3. Marked(p) \in EventStatus /\ Marked(p) # "absent"
    BY DEF Marked, EventStatus
  <2>4. UNCHANGED <<sent, Committed>>
    BY <1>4, <2>1, <2>2, <2>3 DEF MarkWrite, Committed
  <2>5. CASE status'[e] = "published"
    <3>1. Settled' = Settled \cup {e} /\ sent[e] > 0
      BY <2>1, <2>2, <2>4, <2>5 DEF Settled, PublishedWasSent
    <3>. QED BY <2>4, <3>1 DEF Delivery!Settle
  <2>6. CASE status'[e] # "published"
    <3>1. Settled' = Settled \ {e}
      BY <2>1, <2>2, <2>6 DEF Settled
    <3>. QED BY <2>4, <3>1 DEF Delivery!Reopen
  <2>. QED BY <2>5, <2>6
<1>5. ASSUME NEW p \in Publishers, MarkRead(p) \/ Abandon(p) PROVE UNCHANGED Delivery!vars
  BY <1>5 DEF MarkRead, Abandon, rowVars, Committed, Settled
<1>6. CASE (\E e \in Events : LockAges(e)) \/ UNCHANGED vars
  BY <1>6 DEF LockAges, vars, rowVars, Committed, Settled
<1>7. \A p \in Publishers : pc[p] # "idle" => Current(p) \in Events
  BY CurrentType
<1>. QED BY <1>1, <1>2, <1>3, <1>4, <1>5, <1>6, <1>7
         DEF Next, ClaimAny, TryPublish, Delivery!Next, Publish, PublishFails, MarkWrite

\* The outbox table, with its claims, takeovers and stale marks, implements
\* at-least-once delivery for every number of rows, workers and attempts.
THEOREM OutboxImplementsDelivery == Spec => ImplementsDelivery
<1>1. Init => Delivery!Init
  BY DEF Init, Delivery!Init, Committed, Settled
<1>2. Init => WorkIsCommitted
  BY OutboxAssumption DEF Init, WorkIsCommitted
<1>3. TypeOK /\ WorkIsCommitted /\ [Next]_vars => WorkIsCommitted'
  BY WorkNext
<1>4. TypeOK /\ TypeOK' /\ WorkIsCommitted /\ WorkIsCommitted' /\ PublishedWasSent'
        /\ CopiesAreBounded' /\ [Next]_vars => [Delivery!Next]_(Delivery!vars)
  BY DeliveryStep
<1>. QED BY <1>1, <1>2, <1>3, <1>4, OutboxTypeCorrect, NothingSettledUnsent,
            BoundedDuplicates, PTL DEF Spec, ImplementsDelivery, Delivery!Spec
=============================================================================
