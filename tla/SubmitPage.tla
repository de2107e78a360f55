------------------------------ MODULE SubmitPage ------------------------------
(***************************************************************************)
(* How tasks come into being: the form (app/web/pages/SubmitPage.js), the  *)
(* inspiration gallery that fills it in through localStorage               *)
(* (InspirationPage.js), and the two buttons of a task page that generate  *)
(* again (TaskDetailPage.js), composed with the router, the monitor and    *)
(* the server's half (Submission).                                         *)
(***************************************************************************)
EXTENDS Submission, Integers

CONSTANTS
  Batches,        \* bound: uploads in flight at once
  Picks,          \* how many files a user picks
  MaxAssets,      \* twelve
  DemoAssets,     \* the two images of the demo product
  MaxEdits        \* bound: changes of the form by hand

ASSUME SubmitPageAssumption ==
  /\ IsFiniteSet(Batches) /\ Picks \subseteq Nat \ {0}
  /\ MaxAssets \in Nat /\ DemoAssets \in Nat \ {0} /\ MaxEdits \in Nat

VARIABLES
  form,           \* the refs of the mounted form
  regenerating,   \* the ref of the mounted task page
  uploads,        \* batches of files on their way
  calls,          \* calls of submitTask()
  keys,           \* request keys made so far
  template,       \* localStorage holds an inspiration_template
  edits

pageVars == <<form, regenerating, uploads, calls, keys, template, edits>>
vars == <<monitorVars, routerVars, serverVars, pageVars>>

\* The text fields count only by being filled in or not, the assets by number;
\* applied: the form tells the user it carries an inspiration.
Form == [filled : BOOLEAN, assets : Nat, reference : BOOLEAN, uploading : Int,
         submitting : BOOLEAN, key : Nat, applied : BOOLEAN]
Upload == [stage : {"free", "product", "reference"}, mount : Nat, files : Nat]
Call == [stage : {"none", "sent", "backoff", "over"}, page : {"submit", "task"},
         mount : Nat, key : Nat, left : Attempts, result : Requests \cup {NoTask}]

NoForm == [filled |-> FALSE, assets |-> 0, reference |-> FALSE, uploading |-> 0,
           submitting |-> FALSE, key |-> NoKey, applied |-> FALSE]
NoUpload == [stage |-> "free", mount |-> 0, files |-> 0]
NoCall == [stage |-> "none", page |-> "submit", mount |-> 0, key |-> NoKey,
           left |-> 0, result |-> NoTask]

Init ==
  /\ BrowserInit /\ SubmissionInit
  /\ form = NoForm /\ regenerating = FALSE
  /\ uploads = [b \in Batches |-> NoUpload]
  /\ calls = [c \in Calls |-> NoCall]
  /\ keys = 0 /\ template = FALSE /\ edits = 0
-----------------------------------------------------------------------------
(* The router mounts a page *)

\* mutant: the template stays in localStorage
TemplateKept == template
\* setup() of the form takes the template out of localStorage
TemplateTaken == template /\ ~MountsPage("submit")

PagesDispatched ==
  IF Remounts
  THEN /\ form' = IF MountsPage("submit")
                  THEN [NoForm EXCEPT !.key = keys + 1, !.applied = template]
                  ELSE NoForm
       /\ keys' = IF MountsPage("submit") THEN keys + 1 ELSE keys
       /\ template' = TemplateTaken
       /\ regenerating' = FALSE
       /\ UNCHANGED <<uploads, calls, edits>>
  ELSE UNCHANGED pageVars

Navigate(h) ==
  /\ h # hash /\ MayNavigate /\ SetHash(h)
  /\ UNCHANGED <<monitorVars, serverVars, pageVars>>

Dispatch == HashChanged /\ PagesDispatched /\ UNCHANGED serverVars

Connection ==
  \/ GoesOffline /\ UNCHANGED <<serverVars, pageVars>>
  \/ GoesOnline /\ PagesDispatched /\ UNCHANGED serverVars

\* useInspiration on the gallery
UseInspiration ==
  /\ route.page = "inspiration" /\ MayNavigate
  /\ template' = TRUE
  /\ SetHash(PageHash("submit"))
  /\ UNCHANGED <<form, regenerating, uploads, calls, keys, edits, monitorVars,
                 serverVars>>
-----------------------------------------------------------------------------
(* The form *)

Edited(f) ==
  /\ route.page = "submit" /\ edits < MaxEdits
  /\ form' = f /\ edits' = edits + 1
  /\ UNCHANGED <<regenerating, calls, keys, template, monitorVars, routerVars,
                 serverVars>>

Types == Edited([form EXCEPT !.filled = ~@]) /\ UNCHANGED uploads

Removes ==
  /\ \/ form.assets > 0 /\ Edited([form EXCEPT !.assets = @ - 1])
     \/ form.reference /\ Edited([form EXCEPT !.reference = FALSE])
  /\ UNCHANGED uploads

\* loadDemo: also while files are being uploaded
LoadDemo ==
  /\ Edited([form EXCEPT !.filled = TRUE, !.assets = DemoAssets, !.reference = FALSE])
  /\ UNCHANGED uploads

\* mutant: the reference video is not counted
CountedProducts(kind, n) == IF kind = "product" THEN n ELSE 0
\* uploadingCount
Counted(kind, n) == n

Uploads(b, kind, n) ==
  /\ uploads[b].stage = "free"
  /\ Edited([form EXCEPT !.uploading = @ + Counted(kind, n)])
  /\ uploads' = [uploads EXCEPT
       ![b] = [stage |-> kind, mount |-> mount, files |-> n]]

\* uploadProductFiles: what is still on its way does not count against the limit
Remaining == IF form.assets < MaxAssets THEN MaxAssets - form.assets ELSE 0
PicksImages(b, n) ==
  /\ Remaining > 0
  /\ Uploads(b, "product", IF n < Remaining THEN n ELSE Remaining)

PicksReference(b) == Uploads(b, "reference", 1)

\* A batch is over when all its files are, good of them with success; ending is
\* what the last of them tells the monitor.  No file is sent twice.
UploadEnds(b, good, ending) ==
  LET n == uploads[b].files  kind == uploads[b].stage IN
  /\ kind # "free" /\ good \in 0..n
  /\ good = n => ending = "ok"
  /\ good = 0 => ending # "ok"
  /\ Ends(ending)
  /\ uploads' = [uploads EXCEPT ![b] = NoUpload]
  /\ form' = IF uploads[b].mount # mount THEN form
             ELSE [form EXCEPT !.uploading = @ - Counted(kind, n),
                     !.assets = IF kind = "product" THEN @ + good ELSE @,
                     !.reference = @ \/ (kind = "reference" /\ good = 1)]
  /\ UNCHANGED <<regenerating, calls, keys, template, edits, routerVars, serverVars>>

CanSubmit == form.filled /\ form.assets > 0 /\ form.uploading = 0
-----------------------------------------------------------------------------
(* submitTask *)

Begins(c, k) ==
  /\ calls[c].stage = "none" /\ \A d \in Calls : d < c => calls[d].stage # "none"
  /\ calls' = [calls EXCEPT ![c] =
       [stage |-> "sent", page |-> route.page, mount |-> mount, key |-> k,
        left |-> 1, result |-> NoTask]]
  /\ handlers' = Sent(<<c, 1>>, k)
  /\ UNCHANGED <<uploads, keys, template, edits, tasks, monitorVars, routerVars>>

\* onSubmit: the button is disabled while the form is incomplete or submitting
Submit(c) ==
  /\ route.page = "submit" /\ CanSubmit /\ ~form.submitting
  /\ Begins(c, form.key)
  /\ form' = [form EXCEPT !.submitting = TRUE]
  /\ UNCHANGED regenerating

\* regenerateStyle, regenerateWithFeedback: no key.  The buttons are there once
\* the task is settled, which is up to the server.
Regenerate(c) ==
  /\ route.page = "task" /\ ~regenerating
  /\ Begins(c, NoKey)
  /\ regenerating' = TRUE
  /\ UNCHANGED form

\* the request of call c that the browser is waiting for
Waiting(c) == <<c, calls[c].left>>

\* a server error may strike at any point of the handler
CallMayEnd(c, ending) ==
  /\ calls[c].stage = "sent"
  /\ \/ MayEnd(IF handlers[Waiting(c)].pc = "answer" THEN "answered" ELSE "sent", ending)
     \/ ending = "http"

\* only a network failure leaves the handler running
Abandons(c, ending) ==
  IF ending = "network" THEN handlers' \in GivenUp(Waiting(c))
  ELSE handlers' = [handlers EXCEPT ![Waiting(c)].pc = "over"]

CallRetries(c, ending) ==
  /\ CallMayEnd(c, ending) /\ Retried(ending, calls[c].left)
  /\ Ends(ending) /\ Abandons(c, ending)
  /\ calls' = [calls EXCEPT ![c].stage = "backoff"]
  /\ UNCHANGED <<form, regenerating, uploads, keys, template, edits, tasks, routerVars>>

\* a second later the same request, with the same key, is sent again
CallResumes(c) ==
  /\ calls[c].stage = "backoff"
  /\ calls' = [calls EXCEPT ![c].stage = "sent", ![c].left = 0]
  /\ handlers' = Sent(<<c, 0>>, calls[c].key)
  /\ UNCHANGED <<form, regenerating, uploads, keys, template, edits, tasks,
                 monitorVars, routerVars>>

\* mutant: only a success ends the submission
SubmittingUnlessOk(ending) == ending # "ok"
SubmittingAfter(ending) == FALSE

\* a success opens the new task, even if its page has gone; a failure makes a new
\* key for the next try
CallEnds(c, ending) ==
  LET ok == ending = "ok"
      result == handlers[Waiting(c)].found
      mine == calls[c].mount = mount
      renewed == calls[c].page = "submit" /\ ~ok
  IN
  /\ CallMayEnd(c, ending) /\ ~Retried(ending, calls[c].left)
  /\ Ends(ending) /\ Abandons(c, ending)
  /\ calls' = [calls EXCEPT ![c].stage = "over",
                            ![c].result = IF ok THEN result ELSE NoTask]
  /\ IF ok THEN SetHash(TaskHash(2 * result[1] + result[2])) ELSE UNCHANGED routerVars
  /\ keys' = IF renewed THEN keys + 1 ELSE keys
  /\ form' = IF mine /\ calls[c].page = "submit"
             THEN [form EXCEPT !.submitting = SubmittingAfter(ending),
                               !.key = IF renewed THEN keys + 1 ELSE @]
             ELSE form
  /\ regenerating' = (regenerating /\ ~(mine /\ calls[c].page = "task"))
  /\ UNCHANGED <<uploads, template, edits, tasks>>

Server(h) == Handles(h) /\ UNCHANGED <<monitorVars, routerVars, pageVars>>

Calling(c) ==
  CallResumes(c) \/ \E ending \in Endings : CallRetries(c, ending) \/ CallEnds(c, ending)

Uploading(b) == \E good \in 0..uploads[b].files, ending \in Endings :
                  UploadEnds(b, good, ending)

Next ==
  \/ \E h \in Hashes : Navigate(h)
  \/ Dispatch \/ Connection \/ UseInspiration
  \/ Types \/ Removes \/ LoadDemo
  \/ \E b \in Batches : PicksReference(b) \/ Uploading(b) \/ \E n \in Picks : PicksImages(b, n)
  \/ \E c \in Calls : Submit(c) \/ Regenerate(c) \/ Calling(c)
  \/ \E h \in Requests : Server(h)

Spec == Init /\ [][Next]_vars

\* Every fetch ends, the handlers of a running server go on, and hash changes are
\* dispatched.  No fairness on the user.
Fairness ==
  /\ WF_vars(Dispatch)
  /\ \A c \in Calls : WF_vars(Calling(c))
  /\ \A h \in Requests : WF_vars(Server(h))
  /\ \A b \in Batches : WF_vars(Uploading(b))

FairSpec == Spec /\ Fairness
-----------------------------------------------------------------------------
(* Properties *)

\* Every variable has its type, and a mounted form has taken the template there
\* was: no brief is applied to two forms.
TypeOK ==
  /\ BrowserTypeOK /\ SubmissionTypeOK
  /\ form \in Form /\ regenerating \in BOOLEAN
  /\ uploads \in [Batches -> Upload] /\ calls \in [Calls -> Call]
  /\ keys \in Nat /\ template \in BOOLEAN /\ edits \in 0..MaxEdits
  /\ route.page = "submit" => ~template

\* The server's `raise` after a conflict is never reached: whoever is refused by
\* the unique index finds the row that won (submit_task).
ConflictsResolve == \A h \in Requests : handlers[h].pc # "raise"

\* A submission never starts while a file of its form is still on its way, however
\* batches, reference videos, failures and the demo button overlap: what the user
\* has picked is part of what is sent (uploadingCount in SubmitPage.js).
InFlight == {b \in Batches : uploads[b].stage # "free" /\ uploads[b].mount = mount}
NoUploadLeftBehind ==
  [][\A c \in Calls : Submit(c) => InFlight = {}]_vars

\* A form that is submitting is released again, whatever becomes of the request.
FormComesBack == form.submitting ~> ~form.submitting
-----------------------------------------------------------------------------
(* The submission implements idempotent creation *)

Row(h) == [id |-> h, key |-> handlers[h].key]

Creation == INSTANCE IdempotentCreation WITH
  asked <- {c \in Calls : calls[c].stage # "none"},
  keyOf <- [c \in Calls |-> calls[c].key],
  rows <- {Row(h) : h \in tasks},
  answers <- [c \in Calls |-> IF calls[c].result = NoTask
                              THEN [id |-> NoTask, key |-> NoKey]
                              ELSE Row(calls[c].result)]

\* Seen from the browser a key stands for one task: a lost answer, a retry handled
\* next to the request it repeats, and two replicas that check at the same time
\* never make a second one, and every answer names the task of its key.
ImplementsCreation == Creation!Spec
=============================================================================
