----------------------------- MODULE AtLeastOnce -----------------------------
(***************************************************************************)
(* What the outbox promises, without its table: an event whose transaction *)
(* has committed may be sent, more than once but not for ever, and counts  *)
(* as settled only after it was sent.  A late failure may put a settled    *)
(* event back, which allows another copy and takes none back.              *)
(***************************************************************************)
EXTENDS Naturals

CONSTANTS Events, MaxCopies

VARIABLES
  committed,   \* events whose transaction has committed
  copies,      \* how often the broker has taken each event
  settled      \* events nobody needs to send any more

vars == <<committed, copies, settled>>

Init ==
  /\ committed = {}
  /\ copies = [e \in Events |-> 0]
  /\ settled = {}

Commit(e) ==
  /\ e \notin committed
  /\ committed' = committed \cup {e}
  /\ UNCHANGED <<copies, settled>>

Send(e) ==
  /\ e \in committed /\ copies[e] < MaxCopies
  /\ copies' = [copies EXCEPT ![e] = @ + 1]
  /\ UNCHANGED <<committed, settled>>

Settle(e) ==
  /\ copies[e] > 0
  /\ settled' = settled \cup {e}
  /\ UNCHANGED <<committed, copies>>

Reopen(e) ==
  /\ settled' = settled \ {e}
  /\ UNCHANGED <<committed, copies>>

Next == \E e \in Events : Commit(e) \/ Send(e) \/ Settle(e) \/ Reopen(e)

Spec == Init /\ [][Next]_vars
=============================================================================
