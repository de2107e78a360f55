--------------------------- MODULE SubmitPageProofs ---------------------------
(***************************************************************************)
(* Theorems about SubmitPage and Submission, for every number of calls,    *)
(* batches, files and failures.                                            *)
(***************************************************************************)
EXTENDS SubmitPage, TLAPS, FiniteSetTheorems

-----------------------------------------------------------------------------
(* Types *)

\* The types of the monitor and the router, without those of the pages.
MonitorOK ==
  /\ online \in BOOLEAN /\ isOnline \in BOOLEAN /\ banner \in BOOLEAN
  /\ troubles \in 0..MaxTroubles
RouterOK ==
  /\ hash \in Hash /\ route \in Hash /\ events \in Nat /\ mount \in 0..MaxMounts
PageOK ==
  /\ form \in Form /\ regenerating \in BOOLEAN
  /\ uploads \in [Batches -> Upload] /\ calls \in [Calls -> Call]
  /\ keys \in Nat /\ template \in BOOLEAN /\ edits \in 0..MaxEdits
Fresh == route.page = "submit" => ~template

LEMMA TypeParts ==
  TypeOK <=> MonitorOK /\ RouterOK /\ SubmissionTypeOK /\ PageOK /\ Fresh
BY DEF TypeOK, BrowserTypeOK, MonitorOK, RouterOK, PageOK, Fresh

LEMMA Hashing ==
  /\ \A p \in Pages : PageHash(p) \in Hash
  /\ \A t \in Nat : TaskHash(t) \in Hash
  /\ \A p \in Pages : PageHash(p).page = p
BY DEF PageHash, TaskHash, Hash, Pages

LEMMA Records ==
  /\ NoForm \in Form /\ NoForm.uploading = 0
  /\ NoUpload \in Upload /\ NoUpload.stage = "free"
  /\ NoCall \in Call /\ NoCall.stage = "none" /\ NoCall.key = NoKey /\ NoCall.result = NoTask
  /\ Idle \in Handler /\ Idle.pc = "over"
<1>1. NoForm \in Form /\ NoForm.uploading = 0
  BY DEF NoForm, Form, NoKey
<1>2. NoUpload \in Upload /\ NoUpload.stage = "free"
  BY DEF NoUpload, Upload
<1>3. NoCall \in Call /\ NoCall.stage = "none" /\ NoCall.key = NoKey /\ NoCall.result = NoTask
  BY DEF NoCall, Call, NoKey, Attempts
<1>4. Idle \in Handler /\ Idle.pc = "over"
  BY DEF Idle, Handler
<1>. QED BY <1>1, <1>2, <1>3, <1>4

LEMMA InitSubmitType == Init => TypeOK
<1>. SUFFICES ASSUME Init PROVE TypeOK
  OBVIOUS
<1>1. MonitorOK
  <2>1. troubles \in 0..MaxTroubles
    BY BrowserAssumption DEF Init, BrowserInit
  <2>. QED BY <2>1 DEF Init, BrowserInit, MonitorOK
<1>2. RouterOK
  BY BrowserAssumption, Hashing DEF Init, BrowserInit, RouterOK, Pages
<1>3. SubmissionTypeOK
  BY Records DEF Init, SubmissionInit, SubmissionTypeOK
<1>4. PageOK /\ Fresh
  <2>1. edits \in 0..MaxEdits /\ keys \in Nat
    BY SubmitPageAssumption DEF Init
  <2>. QED BY <2>1, Records DEF Init, PageOK, Fresh
<1>. QED BY <1>1, <1>2, <1>3, <1>4, TypeParts

\* The monitor and the router keep their types in whatever the pages do.
LEMMA EndsMonitorOK ==
  ASSUME MonitorOK, NEW ending, Ends(ending) PROVE MonitorOK'
<1>1. troubles' \in 0..MaxTroubles
  BY BrowserAssumption DEF MonitorOK, Ends
<1>2. Hears(ending) \in BOOLEAN
  BY DEF Hears
<1>. QED BY <1>1, <1>2 DEF MonitorOK, Ends, SetOnline

LEMMA MountRouterOK ==
  ASSUME RouterOK, NEW e \in Nat, Dispatched(e), Remounts => mount < MaxMounts
  PROVE  RouterOK'
<1>. USE DEF RouterOK, Dispatched
<1>1. CASE Remounts
  BY <1>1, BrowserAssumption
<1>2. CASE ~Remounts
  BY <1>2, Hashing DEF Pages
<1>. QED BY <1>1, <1>2

\* A page that is mounted takes the template there was.
LEMMA MountPageOK ==
  ASSUME RouterOK, PageOK, Fresh, NEW e, Dispatched(e), PagesDispatched
  PROVE  PageOK' /\ Fresh'
<1>1. CASE Remounts
  <2>1. PICK f : f = [NoForm EXCEPT !.key = keys + 1, !.applied = template]
    OBVIOUS
  <2>2. f \in Form
    <3>1. PICK g \in Form : g = NoForm
      BY Records
    <3>2. keys + 1 \in Nat /\ template \in BOOLEAN
      BY DEF PageOK
    <3>3. [g EXCEPT !.key = keys + 1, !.applied = template] \in Form
      BY <3>2 DEF Form
    <3>. QED BY <2>1, <3>1, <3>3
  <2>3. form' \in Form /\ keys' \in Nat
    BY <1>1, <2>1, <2>2, Records DEF PagesDispatched, PageOK
  <2>4. template' \in BOOLEAN /\ (route'.page = "submit" => ~template')
    BY <1>1 DEF PagesDispatched, Dispatched, TemplateTaken, MountsPage, PageOK
  <2>. QED BY <1>1, <2>3, <2>4 DEF PagesDispatched, PageOK, Fresh
<1>2. CASE ~Remounts
  BY <1>2 DEF PagesDispatched, pageVars, Dispatched, PageOK, Fresh
<1>. QED BY <1>1, <1>2

\* Changes by hand.
LEMMA EditPageOK ==
  ASSUME PageOK, Fresh, NEW f \in Form, Edited(f)
  PROVE  /\ form' = f /\ edits' \in 0..MaxEdits /\ UNCHANGED <<regenerating, calls, keys, template>>
         /\ UNCHANGED <<monitorVars, routerVars, serverVars>> /\ Fresh'
BY SubmitPageAssumption DEF Edited, PageOK, Fresh, routerVars

LEMMA FormOK ==
  ASSUME PageOK, Fresh, RouterOK,
         \/ Types \/ Removes \/ LoadDemo
         \/ \E b \in Batches : PicksReference(b) \/ \E n \in Picks : PicksImages(b, n)
  PROVE  PageOK' /\ Fresh' /\ UNCHANGED <<monitorVars, routerVars, serverVars, calls>>
<1>. form \in Form
  BY DEF PageOK
<1>1. CASE Types
  <2>1. PICK f : f = [form EXCEPT !.filled = ~@]
    OBVIOUS
  <2>2. f \in Form
    BY <2>1 DEF Form
  <2>. QED BY <1>1, <2>1, <2>2, EditPageOK DEF Types, PageOK
<1>2. CASE Removes
  <2>1. CASE form.assets > 0 /\ Edited([form EXCEPT !.assets = @ - 1])
    <3>1. PICK f : f = [form EXCEPT !.assets = @ - 1]
      OBVIOUS
    <3>2. f \in Form
      BY <2>1, <3>1 DEF Form
    <3>. QED BY <1>2, <2>1, <3>1, <3>2, EditPageOK DEF Removes, PageOK
  <2>2. CASE form.reference /\ Edited([form EXCEPT !.reference = FALSE])
    <3>1. PICK f : f = [form EXCEPT !.reference = FALSE]
      OBVIOUS
    <3>2. f \in Form
      BY <3>1 DEF Form
    <3>. QED BY <1>2, <2>2, <3>1, <3>2, EditPageOK DEF Removes, PageOK
  <2>. QED BY <1>2, <2>1, <2>2 DEF Removes
<1>3. CASE LoadDemo
  <2>1. PICK f : f = [form EXCEPT !.filled = TRUE, !.assets = DemoAssets, !.reference = FALSE]
    OBVIOUS
  <2>2. f \in Form
    BY <2>1, SubmitPageAssumption DEF Form
  <2>. QED BY <1>3, <2>1, <2>2, EditPageOK DEF LoadDemo, PageOK
<1>4. ASSUME NEW b \in Batches, NEW kind \in {"product", "reference"}, NEW n \in Nat,
             Uploads(b, kind, n)
      PROVE  PageOK' /\ Fresh' /\ UNCHANGED <<monitorVars, routerVars, serverVars, calls>>
  <2>1. PICK f : f = [form EXCEPT !.uploading = @ + n]
    OBVIOUS
  <2>2. f \in Form
    BY <2>1 DEF Form
  <2>3. Edited(f)
    BY <1>4, <2>1 DEF Uploads, Counted
  <2>4. [stage |-> kind, mount |-> mount, files |-> n] \in Upload
    <3>1. mount \in Nat
      BY BrowserAssumption DEF RouterOK
    <3>. QED BY <3>1 DEF Upload
  <2>5. uploads' \in [Batches -> Upload]
    BY <1>4, <2>4 DEF Uploads, PageOK
  <2>. QED BY <2>2, <2>3, <2>5, EditPageOK DEF PageOK
<1>5. ASSUME NEW b \in Batches, PicksReference(b)
      PROVE  PageOK' /\ Fresh' /\ UNCHANGED <<monitorVars, routerVars, serverVars, calls>>
  BY <1>4, <1>5 DEF PicksReference
<1>6. ASSUME NEW b \in Batches, NEW n \in Picks, PicksImages(b, n)
      PROVE  PageOK' /\ Fresh' /\ UNCHANGED <<monitorVars, routerVars, serverVars, calls>>
  <2>1. (IF n < Remaining THEN n ELSE Remaining) \in Nat
    BY <1>6, SubmitPageAssumption DEF PicksImages, Remaining, Form
  <2>. QED BY <1>4, <1>6, <2>1 DEF PicksImages
<1>. QED BY <1>1, <1>2, <1>3, <1>5, <1>6

LEMMA UploadingOK ==
  ASSUME PageOK, Fresh, MonitorOK, NEW b \in Batches, Uploading(b)
  PROVE  /\ PageOK' /\ Fresh' /\ MonitorOK'
         /\ UNCHANGED <<routerVars, serverVars, calls>>
<1>1. PICK good \in 0..uploads[b].files, ending \in Endings : UploadEnds(b, good, ending)
  BY DEF Uploading
<1>. form \in Form /\ uploads[b] \in Upload
  BY DEF PageOK
<1>2. uploads' \in [Batches -> Upload]
  BY <1>1, Records DEF UploadEnds, PageOK
<1>3. form' \in Form
  <2>. DEFINE n == uploads[b].files
              assets == IF uploads[b].stage = "product" THEN form.assets + good ELSE form.assets
              ref == form.reference \/ (uploads[b].stage = "reference" /\ good = 1)
  <2>1. n \in Nat /\ assets \in Nat /\ ref \in BOOLEAN /\ form.uploading - n \in Int
    BY DEF Upload, Form
  <2>2. form' = IF uploads[b].mount # mount THEN form
                ELSE [form EXCEPT !.uploading = @ - n, !.assets = assets, !.reference = ref]
    BY <1>1 DEF UploadEnds, Counted
  <2>. HIDE DEF n, assets, ref
  <2>3. [form EXCEPT !.uploading = @ - n, !.assets = assets, !.reference = ref] \in Form
    BY <2>1 DEF Form
  <2>. QED BY <2>2, <2>3
<1>. QED BY <1>1, <1>2, <1>3, EndsMonitorOK DEF UploadEnds, PageOK, Fresh, routerVars
-----------------------------------------------------------------------------
(* Requests and handlers *)

Started(h) == handlers[h].pc # "over" \/ h \in tasks

\* A handler runs for a call that was made and with its key; a retry is not sent
\* before its turn; a handler that creates has not created yet, one that was
\* refused has a row to find, and one that answers has a row with its key.
HandlerInv(h) ==
  /\ Started(h) => calls[h[1]].stage # "none" /\ handlers[h].key = calls[h[1]].key
  /\ handlers[h].pc \in {"check", "create"} => h \notin tasks
  /\ handlers[h].pc = "conflict" => Existing(h) # {}
  /\ handlers[h].pc # "raise"
  /\ handlers[h].pc = "answer" =>
       /\ handlers[h].found \in tasks
       /\ handlers[h].found = h \/ Same(h, handlers[h].found)

CallInv(c) ==
  /\ calls[c].left = 1 => ~Started(<<c, 0>>)
  /\ calls[c].stage = "backoff" => calls[c].left = 1
  /\ calls[c].stage # "over" => calls[c].result = NoTask
  /\ calls[c].stage = "none" => calls[c].key = NoKey
  /\ calls[c].result # NoTask => calls[c].result \in tasks

ServerInv ==
  /\ SubmissionTypeOK /\ PageOK
  /\ \A h \in Requests : HandlerInv(h)
  /\ \A c \in Calls : CallInv(c)

LEMMA RequestFacts ==
  /\ \A c \in Calls : <<c, 0>> \in Requests /\ <<c, 1>> \in Requests
  /\ \A h \in Requests : h[1] \in Calls /\ h[2] \in {0, 1} /\ h = <<h[1], h[2]>>
  /\ NoTask \notin Requests
BY SubmissionAssumption DEF Requests, Attempts, NoTask

LEMMA SentType ==
  ASSUME SubmissionTypeOK, NEW h \in Requests, NEW k \in Nat
  PROVE  /\ Sent(h, k) \in [Requests -> Handler]
         /\ Sent(h, k)[h].pc = "check" /\ Sent(h, k)[h].key = k
         /\ \A g \in Requests : g # h => Sent(h, k)[g] = handlers[g]
<1>1. PICK i \in Handler : i = Idle
  BY Records
<1>2. PICK j : j = [i EXCEPT !.pc = "check", !.key = k]
  OBVIOUS
<1>3. j \in Handler /\ j.pc = "check" /\ j.key = k
  BY <1>2 DEF Handler, Keys, NoKey
<1>4. Sent(h, k) = [handlers EXCEPT ![h] = j]
  BY <1>1, <1>2 DEF Sent
<1>. QED BY <1>3, <1>4 DEF SubmissionTypeOK

\* What a handler finds depends on the rows and the keys only.
LEMMA ExistingStays ==
  ASSUME NEW h \in Requests, tasks \subseteq Requests, tasks \subseteq tasks',
         handlers'[h].key = handlers[h].key,
         \A g \in tasks : handlers'[g].key = handlers[g].key
  PROVE  /\ Existing(h) \subseteq Existing(h)'
         /\ \A g \in tasks : Same(h, g) => Same(h, g)'
BY DEF Existing, Same

\* A request that is sent has not been sent before.
LEMMA SentInv ==
  ASSUME ServerInv, NEW c \in Calls, NEW l \in {0, 1}, NEW k \in Nat, NEW q \in Call,
         ~Started(<<c, l>>), handlers' = Sent(<<c, l>>, k), tasks' = tasks,
         calls' = [calls EXCEPT ![c] = q],
         q.stage = "sent", q.key = k, q.left = l, q.result = NoTask,
         \/ calls[c].stage = "none"
         \/ calls[c].key = k,
         l = 1 => ~Started(<<c, 0>>),
         PageOK'
  PROVE  ServerInv' /\ \A g \in tasks : handlers'[g].key = handlers[g].key
<1>. DEFINE r == <<c, l>>
<1>. r \in Requests /\ <<c, 0>> \in Requests
  BY RequestFacts
<1>1. /\ handlers' \in [Requests -> Handler]
      /\ handlers'[r].pc = "check" /\ handlers'[r].key = k
      /\ \A g \in Requests : g # r => handlers'[g] = handlers[g]
  <2>1. SubmissionTypeOK
    BY DEF ServerInv
  <2>2. \A h \in Requests :
          /\ Sent(h, k) \in [Requests -> Handler]
          /\ Sent(h, k)[h].pc = "check" /\ Sent(h, k)[h].key = k
          /\ \A g \in Requests : g # h => Sent(h, k)[g] = handlers[g]
    BY <2>1, SentType
  <2>3. handlers' = Sent(r, k)
    OBVIOUS
  <2>. HIDE DEF r
  <2>. QED BY <2>2, <2>3
<1>2. \A g \in tasks : g \in Requests /\ handlers'[g].key = handlers[g].key
  BY <1>1 DEF ServerInv, SubmissionTypeOK, Started
<1>3. /\ calls'[c] = q /\ \A d \in Calls : d # c => calls'[d] = calls[d]
  BY DEF ServerInv, PageOK
<1>4. \A g \in Requests : g # r => (Started(g)' <=> Started(g))
  BY <1>1 DEF Started
<1>5. ASSUME NEW g \in Requests PROVE HandlerInv(g)'
  <2>1. CASE g = r
    <3>1. g[1] = c
      BY <2>1
    <3>. QED BY <1>1, <1>3, <2>1, <3>1 DEF HandlerInv, Started
  <2>2. CASE g # r
    <3>1. handlers'[g] = handlers[g] /\ (Started(g)' <=> Started(g)) /\ HandlerInv(g)
      BY <1>1, <1>4, <2>2 DEF ServerInv
    <3>2. Existing(g) \subseteq Existing(g)' /\ \A t \in tasks : Same(g, t) => Same(g, t)'
      BY <1>2, <3>1, ExistingStays DEF ServerInv, SubmissionTypeOK
    <3>3. Started(g) => calls'[g[1]].stage # "none" /\ handlers[g].key = calls'[g[1]].key
      BY <1>3, <3>1, RequestFacts DEF HandlerInv
    <3>. QED BY <3>1, <3>2, <3>3 DEF HandlerInv
  <2>. QED BY <2>1, <2>2
<1>6. ASSUME NEW d \in Calls PROVE CallInv(d)'
  <2>1. CASE d = c
    <3>1. l = 1 => ~Started(<<c, 0>>)'
      <4>1. l = 1 => <<c, 0>> # r
        OBVIOUS
      <4>. QED BY <1>4, <4>1
    <3>. QED BY <1>3, <2>1, <3>1 DEF CallInv
  <2>2. CASE d # c
    <3>1. <<d, 0>> \in Requests /\ <<d, 0>> # r
      BY <2>2, RequestFacts
    <3>. QED BY <1>3, <1>4, <2>2, <3>1 DEF ServerInv, CallInv
  <2>. QED BY <2>1, <2>2
<1>. QED BY <1>1, <1>2, <1>5, <1>6 DEF ServerInv, SubmissionTypeOK

\* A call that a response or a failure reaches leaves its handler or ends it.
LEMMA AbandonInv ==
  ASSUME ServerInv, NEW c \in Calls, NEW ending, Abandons(c, ending), tasks' = tasks,
         NEW q \in Call, calls' = [calls EXCEPT ![c] = q], calls[c].stage = "sent",
         q.stage \in {"backoff", "over"}, q.key = calls[c].key, q.left = calls[c].left,
         q.stage = "backoff" => q.left = 1 /\ q.result = NoTask,
         q.result # NoTask => q.result \in tasks,
         PageOK'
  PROVE  ServerInv' /\ \A g \in Requests : handlers'[g].key = handlers[g].key
<1>1. Waiting(c) \in Requests
  BY RequestFacts DEF Waiting, ServerInv, PageOK, Call, Attempts, Requests
<1>2. handlers' = handlers \/ handlers' = [handlers EXCEPT ![Waiting(c)].pc = "over"]
  BY DEF Abandons, GivenUp
<1>3. PICK o : o = [handlers[Waiting(c)] EXCEPT !.pc = "over"]
  OBVIOUS
<1>4. /\ o \in Handler /\ o.pc = "over" /\ o.key = handlers[Waiting(c)].key
      /\ handlers' = handlers \/ handlers' = [handlers EXCEPT ![Waiting(c)] = o]
  BY <1>1, <1>2, <1>3 DEF Handler, ServerInv, SubmissionTypeOK
<1>5. /\ handlers' \in [Requests -> Handler]
      /\ \A g \in Requests : /\ handlers'[g].key = handlers[g].key
                             /\ handlers'[g] = handlers[g] \/ handlers'[g].pc = "over"
  BY <1>1, <1>4 DEF ServerInv, SubmissionTypeOK
<1>6. \A g \in Requests : Started(g)' => Started(g)
  BY <1>5 DEF Started
<1>7. calls'[c] = q /\ \A d \in Calls : d # c => calls'[d] = calls[d]
  BY DEF ServerInv, PageOK
<1>8. \A g \in Requests, t \in tasks : t \in Requests /\ (Same(g, t) => Same(g, t)')
  BY <1>5 DEF Same, ServerInv, SubmissionTypeOK
<1>9. ASSUME NEW g \in Requests PROVE HandlerInv(g)'
  <2>1. Started(g)' => calls'[g[1]].stage # "none" /\ handlers'[g].key = calls'[g[1]].key
    BY <1>5, <1>6, <1>7, RequestFacts DEF ServerInv, HandlerInv
  <2>2. Existing(g) # {} => Existing(g)' # {}
    BY <1>8 DEF Existing
  <2>. QED BY <1>5, <1>8, <2>1, <2>2 DEF ServerInv, HandlerInv
<1>10. ASSUME NEW d \in Calls PROVE CallInv(d)'
  <2>1. CallInv(d) /\ <<d, 0>> \in Requests
    BY RequestFacts DEF ServerInv
  <2>2. CASE d = c
    BY <1>6, <1>7, <2>1, <2>2 DEF CallInv
  <2>3. CASE d # c
    BY <1>6, <1>7, <2>1, <2>3 DEF CallInv
  <2>. QED BY <2>2, <2>3
<1>. QED BY <1>5, <1>9, <1>10 DEF ServerInv, SubmissionTypeOK

\* A handler's step: only Create adds a row, and it is the handler's own.
LEMMA HandlesInv ==
  ASSUME ServerInv, NEW h \in Requests, Handles(h), UNCHANGED pageVars
  PROVE  /\ ServerInv'
         /\ \A g \in Requests : handlers'[g].key = handlers[g].key
         /\ \/ tasks' = tasks
            \/ tasks' = tasks \cup {h} /\ Started(h) /\ h \notin tasks /\ Existing(h) = {}
<1>. handlers \in [Requests -> Handler] /\ tasks \subseteq Requests
  BY DEF ServerInv, SubmissionTypeOK
<1>. UNCHANGED calls
  BY DEF pageVars
<1>1. PICK pc \in {"create", "answer", "conflict"}, r \in Requests \cup {NoTask} :
        /\ Goes(h, pc, r)
        /\ tasks' = tasks \/ tasks' = tasks \cup {h}
        /\ tasks' # tasks => handlers[h].pc = "create" /\ Existing(h) = {}
        /\ pc = "create" => handlers[h].pc = "check" /\ tasks' = tasks
        /\ pc = "conflict" => Existing(h) # {} /\ tasks' = tasks
        /\ pc = "answer" => r \in tasks' /\ (r = h \/ r \in Existing(h))
        /\ handlers[h].pc # "over"
  <2>1. Existing(h) # {} => Found(h) \in Existing(h) /\ Found(h) \in tasks /\ Found(h) \in Requests
    BY DEF Found, Existing
  <2>2. CASE Check(h)
    BY <2>1, <2>2 DEF Check
  <2>3. CASE Create(h)
    BY <2>3 DEF Create, Conflict
  <2>4. CASE Reread(h)
    BY <2>1, <2>4 DEF Reread, ServerInv, HandlerInv
  <2>. QED BY <2>2, <2>3, <2>4 DEF Handles
<1>2. PICK o : o = [handlers[h] EXCEPT !.pc = pc, !.found = r]
  OBVIOUS
<1>3. o \in Handler /\ o.pc = pc /\ o.found = r /\ o.key = handlers[h].key
  BY <1>2 DEF Handler
<1>4. handlers' = [handlers EXCEPT ![h] = o]
  BY <1>1, <1>2 DEF Goes
<1>5. /\ handlers' \in [Requests -> Handler] /\ handlers'[h] = o
      /\ \A g \in Requests : /\ handlers'[g].key = handlers[g].key
                             /\ g # h => handlers'[g] = handlers[g]
  BY <1>3, <1>4
<1>6. \A g \in Requests : Started(g)' <=> Started(g)
  BY <1>1, <1>3, <1>5 DEF Started
<1>7. \A g \in Requests, t \in Requests : Same(g, t)' <=> Same(g, t)
  BY <1>5 DEF Same
<1>8. \A g \in Requests : Existing(g) \subseteq Existing(g)'
  BY <1>1, <1>7 DEF Existing
<1>9. Started(h)
  BY <1>1 DEF Started
<1>10. tasks' # tasks => h \notin tasks
  BY <1>1 DEF ServerInv, HandlerInv
<1>11. ASSUME NEW g \in Requests PROVE HandlerInv(g)'
  <2>1. HandlerInv(g)
    BY DEF ServerInv
  <2>2. Started(g)' => calls'[g[1]].stage # "none" /\ handlers'[g].key = calls'[g[1]].key
    BY <1>5, <1>6, <2>1 DEF HandlerInv
  <2>3. CASE g = h
    <3>1. handlers'[g].pc \in {"check", "create"} => g \notin tasks'
      BY <1>1, <1>3, <1>5, <2>1, <2>3 DEF HandlerInv
    <3>2. handlers'[g].pc = "conflict" => Existing(g)' # {}
      BY <1>1, <1>3, <1>5, <1>8, <2>3
    <3>3. handlers'[g].found = r /\ handlers'[g].pc = pc
      BY <1>3, <1>5, <2>3
    <3>4. pc = "answer" => r \in tasks' /\ (r = g \/ (Same(g, r) /\ r \in Requests))
      BY <1>1, <2>3 DEF Existing
    <3>5. pc = "answer" => r \in tasks' /\ (r = g \/ Same(g, r)')
      BY <1>7, <3>4
    <3>6. handlers'[g].pc = "answer" =>
            handlers'[g].found \in tasks' /\ (handlers'[g].found = g \/ Same(g, handlers[g].found)')
      BY <3>3, <3>5 DEF Same
    <3>7. handlers'[g].pc # "raise"
      BY <1>1, <3>3
    <3>. QED BY <2>2, <3>1, <3>2, <3>6, <3>7 DEF HandlerInv
  <2>4. CASE g # h
    <3>1. handlers'[g] = handlers[g] /\ (g \in tasks' <=> g \in tasks)
      BY <1>1, <1>5, <2>4
    <3>2. Existing(g) # {} => Existing(g)' # {}
      BY <1>8
    <3>3. \A t \in tasks : t \in tasks' /\ (Same(g, t) => Same(g, t)')
      BY <1>1, <1>7
    <3>. QED BY <2>1, <2>2, <3>1, <3>2, <3>3 DEF HandlerInv
  <2>. QED BY <2>3, <2>4
<1>12. ASSUME NEW d \in Calls PROVE CallInv(d)'
  BY <1>1, <1>6, RequestFacts DEF ServerInv, CallInv
<1>13. PageOK'
  BY DEF ServerInv, PageOK, pageVars
<1>. QED BY <1>1, <1>5, <1>9, <1>10, <1>11, <1>12, <1>13 DEF ServerInv, SubmissionTypeOK
-----------------------------------------------------------------------------
(* The refinement *)

\* The mapping of ImplementsCreation, component by component.
Asked == {c \in Calls : calls[c].stage # "none"}
KeyOf == [c \in Calls |-> calls[c].key]
TaskRows == {Row(h) : h \in tasks}
AnswerOf(c) == IF calls[c].result = NoTask
               THEN [id |-> NoTask, key |-> NoKey] ELSE Row(calls[c].result)
Answers == [c \in Calls |-> AnswerOf(c)]

\* Rows and answers stay while the tasks keep their keys.
LEMMA RowsStay ==
  ASSUME ServerInv, NEW c \in Calls, calls'[c].result = calls[c].result,
         \A g \in tasks : handlers'[g].key = handlers[g].key
  PROVE  AnswerOf(c)' = AnswerOf(c) /\ \A g \in tasks : Row(g)' = Row(g)
<1>1. \A g \in tasks : Row(g)' = Row(g)
  BY DEF Row
<1>2. calls[c].result # NoTask => calls[c].result \in tasks
  BY DEF ServerInv, CallInv
<1>. QED BY <1>1, <1>2 DEF AnswerOf, Row

\* A step that changes no task, key, result or set of calls is invisible.
LEMMA Invisible ==
  ASSUME ServerInv, ServerInv', tasks' = tasks,
         \A g \in tasks : handlers'[g].key = handlers[g].key,
         \A c \in Calls : /\ calls'[c].stage = "none" <=> calls[c].stage = "none"
                          /\ calls'[c].key = calls[c].key
                          /\ calls'[c].result = calls[c].result
  PROVE  UNCHANGED Creation!abstractVars
<1>1. UNCHANGED <<Asked, KeyOf>>
  BY DEF Asked, KeyOf
<1>2. \A g \in tasks : Row(g)' = Row(g)
  BY DEF Row
<1>3. UNCHANGED TaskRows
  BY <1>2 DEF TaskRows
<1>4. \A c \in Calls : AnswerOf(c)' = AnswerOf(c)
  BY RowsStay
<1>5. UNCHANGED Answers
  BY <1>4 DEF Answers
<1>. QED BY <1>1, <1>3, <1>5 DEF Creation!abstractVars, Asked, KeyOf, TaskRows, Answers, AnswerOf

\* A call is made.
LEMMA BeginsAsks ==
  ASSUME ServerInv, RouterOK, NEW c \in Calls, NEW k \in Nat, Begins(c, k),
         route.page \in {"submit", "task"}, form' \in Form, regenerating' \in BOOLEAN
  PROVE  ServerInv' /\ Creation!Ask(c)
<1>1. PICK q : q = [stage |-> "sent", page |-> route.page, mount |-> mount, key |-> k,
                    left |-> 1, result |-> NoTask]
  OBVIOUS
<1>2. mount \in Nat
  BY BrowserAssumption DEF RouterOK
<1>3. /\ q \in Call /\ q.stage = "sent" /\ q.key = k /\ q.left = 1 /\ q.result = NoTask
      /\ calls' = [calls EXCEPT ![c] = q]
  BY <1>1, <1>2 DEF Call, Attempts, Begins
<1>4. ~Started(<<c, 1>>) /\ ~Started(<<c, 0>>)
  BY RequestFacts DEF Begins, ServerInv, HandlerInv
<1>5. PageOK'
  BY <1>3 DEF ServerInv, PageOK, Begins
<1>6. ServerInv' /\ \A g \in tasks : handlers'[g].key = handlers[g].key
  <2>1. 1 \in {0, 1} /\ handlers' = Sent(<<c, 1>>, k) /\ tasks' = tasks /\ calls[c].stage = "none"
    BY DEF Begins
  <2>. QED BY <1>3, <1>4, <1>5, <2>1, SentInv
<1>7. /\ calls'[c] = q /\ calls[c].stage = "none" /\ calls[c].result = NoTask
      /\ \A d \in Calls : d # c => calls'[d] = calls[d]
  BY <1>3 DEF ServerInv, PageOK, Begins, CallInv
<1>8. Asked' = Asked \cup {c} /\ c \notin Asked
  BY <1>3, <1>7 DEF Asked
<1>9. KeyOf'[c] \in Keys \cup {NoKey} /\ KeyOf' = [KeyOf EXCEPT ![c] = KeyOf'[c]]
  <2>1. k \in Keys \cup {NoKey}
    BY DEF Keys, NoKey
  <2>2. KeyOf' = [d \in Calls |-> calls'[d].key]
    BY DEF KeyOf
  <2>3. \A d \in Calls : calls'[d].key = IF d = c THEN k ELSE calls[d].key
    BY <1>3, <1>7
  <2>4. KeyOf'[c] = k /\ KeyOf' = [KeyOf EXCEPT ![c] = k]
    BY <2>2, <2>3 DEF KeyOf
  <2>. QED BY <2>1, <2>4
<1>10. \A d \in Calls : calls'[d].result = calls[d].result
  BY <1>3, <1>7
<1>11. (\A g \in tasks : Row(g)' = Row(g)) /\ \A d \in Calls : AnswerOf(d)' = AnswerOf(d)
  BY <1>6, <1>10, RowsStay DEF Row
<1>12. UNCHANGED <<TaskRows, Answers>>
  BY <1>11 DEF TaskRows, Answers, Begins
<1>. QED
  BY <1>6, <1>8, <1>9, <1>12
  DEF Creation!Ask, Asked, KeyOf, TaskRows, Answers, AnswerOf

\* The server's steps: a new row is the first of its key, all others are invisible.
LEMMA ServerCreates ==
  ASSUME ServerInv, NEW h \in Requests, Server(h)
  PROVE  ServerInv' /\ (Creation!Next \/ UNCHANGED Creation!abstractVars)
<1>. Handles(h) /\ UNCHANGED pageVars /\ UNCHANGED calls
  BY DEF Server, pageVars
<1>1. /\ ServerInv'
      /\ \A g \in Requests : handlers'[g].key = handlers[g].key
      /\ \/ tasks' = tasks
         \/ tasks' = tasks \cup {h} /\ Started(h) /\ h \notin tasks /\ Existing(h) = {}
  BY HandlesInv
<1>2. tasks \subseteq Requests
  BY DEF ServerInv, SubmissionTypeOK
<1>3. CASE tasks' = tasks
  BY <1>1, <1>2, <1>3, Invisible
<1>4. CASE tasks' = tasks \cup {h} /\ Started(h) /\ h \notin tasks /\ Existing(h) = {}
  <2>1. (\A g \in tasks : Row(g)' = Row(g)) /\ Row(h)' = Row(h)
    BY <1>1, <1>2 DEF Row
  <2>2. TaskRows' = TaskRows \cup {Row(h)}
    BY <1>4, <2>1 DEF TaskRows
  <2>3. \A g \in tasks : Row(g) # Row(h)
    BY <1>4 DEF Row
  <2>4. Row(h) \in TaskRows' \ TaskRows
    BY <2>2, <2>3 DEF TaskRows
  <2>5. UNCHANGED <<Asked, KeyOf, Answers>>
    <3>1. \A d \in Calls : AnswerOf(d)' = AnswerOf(d)
      BY <1>1, <1>2, RowsStay
    <3>. QED BY <3>1 DEF Asked, KeyOf, Answers
  <2>6. Row(h) \in Creation!Rows
    BY DEF Row, Creation!Rows, Creation!Ids, Requests, ServerInv, SubmissionTypeOK, Handler
  <2>7. \A g \in tasks : Row(g).id # Row(h).id /\ (Row(h).key = NoKey \/ Row(g).key # Row(h).key)
    BY <1>4 DEF Row, Existing, Same
  <2>8. h[1] \in Asked /\ Row(h).key = KeyOf[h[1]] /\ Row(h).id[1] = h[1]
    BY <1>4, RequestFacts DEF ServerInv, HandlerInv, Asked, KeyOf, Row
  <2>9. Creation!Create(Row(h))
    BY <2>2, <2>5, <2>7, <2>8
    DEF Creation!Create, Creation!Belongs, Asked, KeyOf, TaskRows, Answers, AnswerOf
  <2>. QED BY <1>1, <2>4, <2>6, <2>9 DEF Creation!Next, TaskRows
<1>. QED BY <1>1, <1>3, <1>4

\* A retry is the same call.
LEMMA CallResumesInv ==
  ASSUME ServerInv, NEW c \in Calls, CallResumes(c)
  PROVE  ServerInv' /\ UNCHANGED Creation!abstractVars
<1>1. PICK q : q = [calls[c] EXCEPT !.stage = "sent", !.left = 0]
  OBVIOUS
<1>2. calls[c] \in Call /\ CallInv(c) /\ calls[c].stage = "backoff"
  BY DEF ServerInv, PageOK, CallResumes
<1>3. /\ q \in Call /\ q.stage = "sent" /\ q.left = 0
      /\ q.key = calls[c].key /\ q.result = calls[c].result
  BY <1>1, <1>2 DEF Call, Attempts
<1>4. calls' = [calls EXCEPT ![c] = q] /\ tasks' = tasks
      /\ handlers' = Sent(<<c, 0>>, calls[c].key)
  BY <1>1 DEF CallResumes, ServerInv, PageOK
<1>5. ~Started(<<c, 0>>) /\ q.result = NoTask /\ calls[c].key \in Nat
  BY <1>2, <1>3 DEF CallInv, Call
<1>6. PageOK'
  BY <1>3, <1>4 DEF ServerInv, PageOK, CallResumes
<1>7. ServerInv' /\ \A g \in tasks : handlers'[g].key = handlers[g].key
  <2>1. 0 \in {0, 1} /\ (0 = 1 => ~Started(<<c, 0>>))
    OBVIOUS
  <2>. QED BY <1>3, <1>4, <1>5, <1>6, <2>1, SentInv
<1>8. \A d \in Calls : /\ calls'[d].stage = "none" <=> calls[d].stage = "none"
                       /\ calls'[d].key = calls[d].key
                       /\ calls'[d].result = calls[d].result
  BY <1>2, <1>3, <1>4 DEF ServerInv, PageOK
<1>. QED BY <1>4, <1>7, <1>8, Invisible

\* So is one that fails and will be retried.
LEMMA CallRetriesInv ==
  ASSUME ServerInv, NEW c \in Calls, NEW ending, CallRetries(c, ending)
  PROVE  ServerInv' /\ UNCHANGED Creation!abstractVars
<1>1. PICK q : q = [calls[c] EXCEPT !.stage = "backoff"]
  OBVIOUS
<1>2. calls[c] \in Call /\ CallInv(c) /\ calls[c].stage = "sent" /\ calls[c].left > 0
  BY DEF ServerInv, PageOK, CallRetries, CallMayEnd, Retried
<1>3. /\ q \in Call /\ q.stage = "backoff" /\ q.left = calls[c].left
      /\ q.key = calls[c].key /\ q.result = calls[c].result
  BY <1>1, <1>2 DEF Call
<1>4. calls' = [calls EXCEPT ![c] = q] /\ tasks' = tasks /\ Abandons(c, ending)
  BY <1>1 DEF CallRetries
<1>5. q.left = 1 /\ q.result = NoTask
  BY <1>2, <1>3 DEF CallInv, Call, Attempts
<1>6. PageOK'
  BY <1>3, <1>4 DEF ServerInv, PageOK, CallRetries
<1>7. ServerInv' /\ \A g \in Requests : handlers'[g].key = handlers[g].key
  BY <1>2, <1>3, <1>4, <1>5, <1>6, AbandonInv
<1>8. \A d \in Calls : /\ calls'[d].stage = "none" <=> calls[d].stage = "none"
                       /\ calls'[d].key = calls[d].key
                       /\ calls'[d].result = calls[d].result
  BY <1>2, <1>3, <1>4 DEF ServerInv, PageOK
<1>9. \A g \in tasks : handlers'[g].key = handlers[g].key
  BY <1>7 DEF ServerInv, SubmissionTypeOK
<1>. QED BY <1>4, <1>7, <1>8, <1>9, Invisible

\* A call that ends with an answer was told of a row that is its own.
LEMMA CallEndsInv ==
  ASSUME ServerInv, NEW c \in Calls, NEW ending, CallEnds(c, ending)
  PROVE  /\ ServerInv' /\ (Creation!Next \/ UNCHANGED Creation!abstractVars)
         /\ ending = "ok" => handlers[Waiting(c)].found \in Requests
<1>. DEFINE w == Waiting(c)
            found == handlers[w].found
<1>1. calls[c] \in Call /\ CallInv(c) /\ calls[c].stage = "sent" /\ form \in Form /\ keys \in Nat
  BY DEF ServerInv, PageOK, CallEnds, CallMayEnd
<1>2. w \in Requests /\ w[1] = c
  BY <1>1, RequestFacts DEF Waiting, Call, Attempts, Requests
<1>3. ending = "ok" => handlers[w].pc = "answer"
  BY DEF CallEnds, CallMayEnd, MayEnd
<1>4. /\ ending = "ok" => found \in tasks /\ found \in Requests /\ (found = w \/ Same(w, found))
      /\ Started(w) => handlers[w].key = calls[c].key
      /\ handlers[w].pc = "answer" => Started(w)
  BY <1>2, <1>3 DEF ServerInv, HandlerInv, SubmissionTypeOK, Started
<1>. HIDE DEF w, found
<1>5. PICK q : q = [calls[c] EXCEPT !.stage = "over",
                      !.result = IF ending = "ok" THEN found ELSE NoTask]
  OBVIOUS
<1>6. /\ q \in Call /\ q.stage = "over" /\ q.left = calls[c].left /\ q.key = calls[c].key
      /\ q.result = IF ending = "ok" THEN found ELSE NoTask
  BY <1>1, <1>4, <1>5 DEF Call
<1>7. calls' = [calls EXCEPT ![c] = q] /\ tasks' = tasks /\ Abandons(c, ending)
  BY <1>5 DEF CallEnds, w, found
<1>8. form' \in Form /\ keys' \in Nat
  <2>. DEFINE k == IF calls[c].page = "submit" /\ ~(ending = "ok") THEN keys + 1 ELSE form.key
  <2>1. keys' \in Nat /\ k \in Nat
    BY <1>1 DEF CallEnds, Form
  <2>2. form' = IF calls[c].mount = mount /\ calls[c].page = "submit"
                THEN [form EXCEPT !.submitting = FALSE, !.key = k] ELSE form
    BY DEF CallEnds, SubmittingAfter
  <2>. HIDE DEF k
  <2>3. [form EXCEPT !.submitting = FALSE, !.key = k] \in Form
    BY <1>1, <2>1 DEF Form
  <2>. QED BY <1>1, <2>1, <2>2, <2>3
<1>9. PageOK'
  <2>1. regenerating' \in BOOLEAN /\ UNCHANGED <<uploads, template, edits>>
    BY DEF CallEnds
  <2>. QED BY <1>6, <1>7, <1>8, <2>1 DEF ServerInv, PageOK
<1>10. ServerInv' /\ \A g \in Requests : handlers'[g].key = handlers[g].key
  BY <1>1, <1>4, <1>6, <1>7, <1>9, AbandonInv
<1>11. tasks \subseteq Requests /\ \A g \in tasks : handlers'[g].key = handlers[g].key
  BY <1>10 DEF ServerInv, SubmissionTypeOK
<1>12. \A d \in Calls : /\ calls'[d].stage = "none" <=> calls[d].stage = "none"
                        /\ calls'[d].key = calls[d].key
                        /\ d # c => calls'[d].result = calls[d].result
  BY <1>1, <1>6, <1>7 DEF ServerInv, PageOK
<1>13. calls'[c].result = q.result /\ calls[c].result = NoTask
  BY <1>1, <1>7 DEF CallInv, ServerInv, PageOK
<1>14. CASE ending # "ok"
  <2>1. \A d \in Calls : calls'[d].result = calls[d].result
    BY <1>6, <1>12, <1>13, <1>14
  <2>. QED BY <1>7, <1>10, <1>11, <1>12, <1>14, <2>1, Invisible
<1>15. CASE ending = "ok"
  <2>1. found \in tasks /\ (found = w \/ Same(w, found)) /\ handlers[w].key = calls[c].key
    BY <1>3, <1>4, <1>15
  <2>2. Row(found) \in TaskRows
    BY <2>1 DEF TaskRows
  <2>3. found # NoTask
    BY <1>11, <2>1, RequestFacts
  <2>4. AnswerOf(c) = [id |-> NoTask, key |-> NoKey] /\ AnswerOf(c)' = Row(found)
    BY <1>6, <1>11, <1>13, <1>15, <2>1, <2>3 DEF AnswerOf, Row
  <2>5. \A d \in Calls : d # c => AnswerOf(d)' = AnswerOf(d)
    BY <1>11, <1>12, RowsStay
  <2>6. Answers' = [Answers EXCEPT ![c] = Row(found)]
    BY <2>4, <2>5 DEF Answers
  <2>7. UNCHANGED <<Asked, KeyOf, TaskRows>>
    BY <1>7, <1>11, <1>12 DEF Asked, KeyOf, TaskRows, Row
  <2>8. Row(found).key = KeyOf[c] /\ (KeyOf[c] = NoKey => Row(found).id[1] = c)
    BY <1>2, <2>1 DEF KeyOf, Row, Same
  <2>9. c \in Asked /\ Answers[c] = [id |-> <<0, 0>>, key |-> NoKey]
    BY <1>1, <2>4 DEF Asked, Answers, NoTask
  <2>10. PICK r \in TaskRows : r = Row(found)
    BY <2>2
  <2>11. /\ c \in Asked /\ Answers[c] = [id |-> <<0, 0>>, key |-> NoKey]
         /\ r.key = KeyOf[c] /\ (KeyOf[c] = NoKey => r.id[1] = c)
         /\ Answers' = [Answers EXCEPT ![c] = r]
         /\ UNCHANGED <<Asked, KeyOf, TaskRows>>
    BY <2>6, <2>7, <2>8, <2>9, <2>10
  <2>12. Creation!Next
    BY <2>11 DEF Creation!Next, Creation!Answer, Creation!Belongs, Creation!NoRow,
                 Asked, KeyOf, TaskRows, Answers, AnswerOf
  <2>13. handlers[Waiting(c)].found \in Requests
    BY <1>11, <2>1 DEF w, found
  <2>. QED BY <1>10, <2>12, <2>13
<1>. QED BY <1>14, <1>15
-----------------------------------------------------------------------------
(* The whole *)

SubmitInv == MonitorOK /\ RouterOK /\ Fresh /\ ServerInv

LEMMA SubmitInit == Init => SubmitInv /\ Creation!Init
<1>. SUFFICES ASSUME Init PROVE SubmitInv /\ Creation!Init
  OBVIOUS
<1>1. MonitorOK /\ RouterOK /\ SubmissionTypeOK /\ PageOK /\ Fresh
  BY InitSubmitType, TypeParts
<1>2. tasks = {} /\ \A h \in Requests : handlers[h].pc = "over"
  BY Records DEF Init, SubmissionInit
<1>3. \A c \in Calls : /\ calls[c].stage = "none" /\ calls[c].key = NoKey
                       /\ calls[c].result = NoTask /\ calls[c].left = 0
  BY DEF Init, NoCall, NoKey
<1>4. \A h \in Requests : HandlerInv(h)
  BY <1>2 DEF HandlerInv, Started
<1>5. \A c \in Calls : CallInv(c)
  BY <1>3 DEF CallInv
<1>6. Creation!Init
  <2>1. Asked = {} /\ KeyOf = [c \in Calls |-> NoKey] /\ TaskRows = {}
        /\ Answers = [c \in Calls |-> [id |-> NoTask, key |-> NoKey]]
    BY <1>2, <1>3 DEF Asked, KeyOf, TaskRows, Answers, AnswerOf
  <2>. QED BY <2>1 DEF Creation!Init, Creation!NoRow, Asked, KeyOf, TaskRows, Answers,
                       AnswerOf, NoTask
<1>. QED BY <1>1, <1>4, <1>5, <1>6 DEF SubmitInv, ServerInv

\* Steps of the browser that send nothing.
LEMMA PageSteps ==
  ASSUME ServerInv, PageOK', UNCHANGED <<calls, serverVars>>
  PROVE  ServerInv' /\ UNCHANGED Creation!abstractVars
<1>1. tasks' = tasks /\ handlers' = handlers /\ calls' = calls
  BY DEF serverVars
<1>2. ServerInv'
  BY <1>1 DEF ServerInv, SubmissionTypeOK, HandlerInv, CallInv, Started, Existing, Same
<1>. QED BY <1>1, <1>2, Invisible

LEMMA SubmitNext ==
  ASSUME SubmitInv, [Next]_vars
  PROVE  SubmitInv' /\ (Creation!Next \/ UNCHANGED Creation!abstractVars)
<1>. USE DEF SubmitInv
<1>. PageOK
  BY DEF ServerInv
<1>0. /\ UNCHANGED monitorVars => MonitorOK'
      /\ UNCHANGED routerVars => RouterOK'
      /\ UNCHANGED <<routerVars, template>> => Fresh'
      /\ UNCHANGED pageVars => PageOK' /\ UNCHANGED <<calls, template>>
  BY DEF monitorVars, MonitorOK, routerVars, RouterOK, Fresh, pageVars, PageOK
<1>1. ASSUME NEW h \in Hashes, Navigate(h)
      PROVE  SubmitInv' /\ UNCHANGED Creation!abstractVars
  <2>1. RouterOK' /\ route' = route
    BY <1>1, BrowserAssumption DEF Navigate, SetHash, RouterOK
  <2>2. Fresh'
    BY <1>0, <1>1, <2>1 DEF Navigate, Fresh
  <2>. QED BY <1>0, <1>1, <2>1, <2>2, PageSteps DEF Navigate
<1>2. CASE Dispatch
  <2>1. /\ events - 1 \in Nat /\ Dispatched(events - 1) /\ PagesDispatched
        /\ Remounts => mount < MaxMounts
    BY <1>2 DEF Dispatch, HashChanged, RouterOK
  <2>2. RouterOK' /\ PageOK' /\ Fresh'
    BY <2>1, MountRouterOK, MountPageOK
  <2>3. UNCHANGED <<calls, serverVars, monitorVars>>
    BY <1>2, <2>1 DEF Dispatch, PagesDispatched, pageVars, HashChanged
  <2>. QED BY <1>0, <2>2, <2>3, PageSteps
<1>3. CASE Connection
  <2>1. CASE GoesOffline /\ UNCHANGED <<serverVars, pageVars>>
    <3>1. troubles' \in 0..MaxTroubles
      BY <2>1, BrowserAssumption DEF GoesOffline, MonitorOK
    <3>2. MonitorOK'
      BY <2>1, <3>1 DEF GoesOffline, MonitorOK
    <3>. QED BY <1>0, <2>1, <3>2, PageSteps DEF GoesOffline
  <2>2. CASE GoesOnline /\ PagesDispatched /\ UNCHANGED serverVars
    <3>1. events \in Nat /\ mount < MaxMounts
      BY <2>2, BrowserAssumption DEF GoesOnline, MayNavigate, RouterOK
    <3>2. Dispatched(events) /\ MonitorOK'
      BY <2>2 DEF GoesOnline, MonitorOK
    <3>3. RouterOK' /\ PageOK' /\ Fresh'
      BY <2>2, <3>1, <3>2, MountRouterOK, MountPageOK
    <3>4. UNCHANGED calls
      BY <2>2 DEF PagesDispatched, pageVars
    <3>. QED BY <2>2, <3>2, <3>3, <3>4, PageSteps
  <2>. QED BY <1>3, <2>1, <2>2 DEF Connection
<1>4. CASE UseInspiration
  <2>1. RouterOK'
    BY <1>4, Hashing DEF UseInspiration, SetHash, RouterOK, Pages
  <2>2. PageOK' /\ Fresh'
    BY <1>4 DEF UseInspiration, SetHash, PageOK, Fresh
  <2>. QED BY <1>0, <1>4, <2>1, <2>2, PageSteps DEF UseInspiration
<1>5. ASSUME \/ Types \/ Removes \/ LoadDemo
             \/ \E b \in Batches : PicksReference(b) \/ \E n \in Picks : PicksImages(b, n)
      PROVE  SubmitInv' /\ UNCHANGED Creation!abstractVars
  <2>1. PageOK' /\ Fresh' /\ UNCHANGED <<monitorVars, routerVars, serverVars, calls>>
    BY <1>5, FormOK
  <2>. QED BY <1>0, <2>1, PageSteps
<1>6. ASSUME NEW b \in Batches, Uploading(b) PROVE SubmitInv' /\ UNCHANGED Creation!abstractVars
  <2>1. PageOK' /\ Fresh' /\ MonitorOK' /\ UNCHANGED <<routerVars, serverVars, calls>>
    BY <1>6, UploadingOK
  <2>. QED BY <1>0, <2>1, PageSteps
<1>7. ASSUME NEW c \in Calls, NEW k \in Nat, Begins(c, k), route.page \in {"submit", "task"},
             form' \in Form, regenerating' \in BOOLEAN
      PROVE  SubmitInv' /\ Creation!Next
  <2>1. ServerInv' /\ Creation!Ask(c)
    BY <1>7, BeginsAsks
  <2>2. Creation!Next
    BY <2>1 DEF Creation!Next
  <2>. QED BY <1>0, <1>7, <2>1, <2>2 DEF Begins
<1>8. ASSUME NEW c \in Calls, Submit(c) PROVE SubmitInv' /\ Creation!Next
  <2>1. form \in Form /\ form.key \in Nat
    BY DEF PageOK, Form
  <2>2. [form EXCEPT !.submitting = TRUE] \in Form
    BY <2>1 DEF Form
  <2>. QED BY <1>7, <1>8, <2>1, <2>2 DEF Submit, PageOK
<1>9. ASSUME NEW c \in Calls, Regenerate(c) PROVE SubmitInv' /\ Creation!Next
  <2>1. NoKey \in Nat
    BY DEF NoKey
  <2>. QED BY <1>7, <1>9, <2>1 DEF Regenerate, PageOK
<1>10. ASSUME NEW c \in Calls, Calling(c)
       PROVE  SubmitInv' /\ (Creation!Next \/ UNCHANGED Creation!abstractVars)
  <2>1. CASE CallResumes(c)
    BY <1>0, <2>1, CallResumesInv DEF CallResumes
  <2>2. ASSUME NEW ending \in Endings, CallRetries(c, ending)
        PROVE  SubmitInv' /\ UNCHANGED Creation!abstractVars
    <3>1. MonitorOK'
      BY <2>2, EndsMonitorOK DEF CallRetries
    <3>. QED BY <1>0, <2>2, <3>1, CallRetriesInv DEF CallRetries
  <2>3. ASSUME NEW ending \in Endings, CallEnds(c, ending)
        PROVE  SubmitInv' /\ (Creation!Next \/ UNCHANGED Creation!abstractVars)
    <3>1. MonitorOK'
      BY <2>3, EndsMonitorOK DEF CallEnds
    <3>2. ServerInv' /\ (Creation!Next \/ UNCHANGED Creation!abstractVars)
          /\ (ending = "ok" => handlers[Waiting(c)].found \in Requests)
      BY <2>3, CallEndsInv
    <3>3. RouterOK' /\ route' = route
      <4>1. CASE ending = "ok"
        <5>. DEFINE r == handlers[Waiting(c)].found
        <5>1. r[1] \in Nat /\ r[2] \in {0, 1}
          BY <3>2, <4>1, RequestFacts, SubmissionAssumption
        <5>2. SetHash(TaskHash(2 * r[1] + r[2]))
          BY <2>3, <4>1 DEF CallEnds
        <5>. HIDE DEF r
        <5>3. TaskHash(2 * r[1] + r[2]) \in Hash
          BY <5>1, Hashing
        <5>. QED BY <5>2, <5>3 DEF SetHash, RouterOK
      <4>2. CASE ending # "ok"
        BY <1>0, <2>3, <4>2 DEF CallEnds, routerVars
      <4>. QED BY <4>1, <4>2
    <3>4. Fresh'
      BY <2>3, <3>3 DEF CallEnds, Fresh
    <3>. QED BY <3>1, <3>2, <3>3, <3>4
  <2>. QED BY <1>10, <2>1, <2>2, <2>3 DEF Calling
<1>11. ASSUME NEW h \in Requests, Server(h)
       PROVE  SubmitInv' /\ (Creation!Next \/ UNCHANGED Creation!abstractVars)
  BY <1>0, <1>11, ServerCreates DEF Server
<1>12. CASE UNCHANGED vars
  BY <1>0, <1>12, PageSteps DEF vars
<1>. QED
  BY <1>1, <1>2, <1>3, <1>4, <1>5, <1>6, <1>8, <1>9, <1>10, <1>11, <1>12 DEF Next

LEMMA SubmitInvariant == Spec => []SubmitInv
<1>1. Init => SubmitInv
  BY SubmitInit
<1>2. SubmitInv /\ [Next]_vars => SubmitInv'
  BY SubmitNext
<1>. QED BY <1>1, <1>2, PTL DEF Spec

\* The type invariant of the form, its uploads, the calls and their handlers; and a
\* form that is mounted has taken the inspiration there was (setup in SubmitPage.js).
THEOREM SubmitTypeCorrect == Spec => []TypeOK
<1>1. SubmitInv => TypeOK
  BY TypeParts DEF SubmitInv, ServerInv
<1>. QED BY <1>1, SubmitInvariant, PTL

\* Whoever is refused by the unique index finds the row that won: the `raise` of
\* submit_task (task_router.py) is never reached.
THEOREM RefusedFindsRow == Spec => []ConflictsResolve
<1>1. SubmitInv => ConflictsResolve
  BY DEF SubmitInv, ServerInv, HandlerInv, ConflictsResolve
<1>. QED BY <1>1, SubmitInvariant, PTL

\* Submissions with their retries, lost answers and concurrent replicas implement
\* IdempotentCreation: one task a key, and every answer is the caller's own task.
THEOREM SubmissionRefines == Spec => ImplementsCreation
<1>1. Init => Creation!Init
  BY SubmitInit
<1>2. SubmitInv /\ [Next]_vars => [Creation!Next]_(Creation!abstractVars)
  BY SubmitNext
<1>. QED
  BY <1>1, <1>2, SubmitInvariant, PTL DEF Spec, ImplementsCreation, Creation!Spec
-----------------------------------------------------------------------------
(* Uploads *)

\* The files of the mounted page that are on their way, and what uploadingCount
\* says about them.
Mine(b) == uploads[b].stage # "free" /\ uploads[b].mount = mount
Files == {p \in Batches \X Nat : Mine(p[1]) /\ p[2] \in 1..uploads[p[1]].files}
FilesOf(b, n) == {b} \X (1..n)

UploadInv ==
  /\ \A b \in Batches : uploads[b].stage # "free" =>
       uploads[b].files >= 1 /\ uploads[b].mount <= mount
  /\ IsFiniteSet(Files) /\ form.uploading = Cardinality(Files)

LEMMA FilesOfCount ==
  ASSUME NEW b, NEW n \in Nat
  PROVE  IsFiniteSet(FilesOf(b, n)) /\ Cardinality(FilesOf(b, n)) = n
<1>1. IsFiniteSet({b}) /\ Cardinality({b}) = 1
  BY FS_Singleton
<1>2. IsFiniteSet(1..n) /\ Cardinality(1..n) = n
  BY FS_Interval
<1>3. /\ IsFiniteSet({b} \X (1..n))
      /\ Cardinality({b} \X (1..n)) = Cardinality({b}) * Cardinality(1..n)
  BY <1>1, <1>2, FS_Product
<1>. QED BY <1>1, <1>2, <1>3 DEF FilesOf

\* As long as neither the uploads nor the counter change there is nothing to show.
LEMMA UploadsStay ==
  ASSUME UploadInv, UNCHANGED <<uploads, mount>>, form'.uploading = form.uploading
  PROVE  UploadInv'
<1>1. Files' = Files
  BY DEF Files, Mine
<1>. QED BY <1>1 DEF UploadInv

\* A page that is mounted has nothing on its way.
LEMMA MountUploads ==
  ASSUME RouterOK, PageOK, UploadInv, NEW e, Dispatched(e), PagesDispatched
  PROVE  UploadInv'
<1>1. CASE Remounts
  <2>1. mount' = mount + 1 /\ mount \in Nat /\ uploads' = uploads
    BY <1>1, BrowserAssumption DEF Dispatched, PagesDispatched, RouterOK
  <2>2. \A b \in Batches : uploads'[b].stage # "free" => uploads'[b].mount < mount'
    BY <2>1 DEF UploadInv, PageOK, Upload
  <2>3. Files' = {}
    BY <2>1, <2>2 DEF Files, Mine, PageOK, Upload
  <2>4. form'.uploading = 0
    <3>1. PICK g \in Form : g = NoForm /\ g.uploading = 0
      BY Records
    <3>2. [g EXCEPT !.key = keys + 1, !.applied = template].uploading = 0
      BY <3>1 DEF Form
    <3>. QED BY <1>1, <3>1, <3>2 DEF PagesDispatched
  <2>5. \A b \in Batches : uploads'[b].stage # "free" =>
          uploads'[b].files >= 1 /\ uploads'[b].mount <= mount'
    BY <2>1 DEF UploadInv, PageOK, Upload
  <2>. QED BY <2>3, <2>4, <2>5, FS_EmptySet DEF UploadInv
<1>2. CASE ~Remounts
  BY <1>2, UploadsStay DEF Dispatched, PagesDispatched, pageVars
<1>. QED BY <1>1, <1>2

\* The user picks n files.
LEMMA PickUploads ==
  ASSUME RouterOK, PageOK, UploadInv, NEW b \in Batches, NEW n \in Nat \ {0},
         NEW kind \in {"product", "reference"}, Uploads(b, kind, n)
  PROVE  UploadInv'
<1>. DEFINE New == FilesOf(b, n)
<1>1. /\ mount' = mount /\ uploads[b].stage = "free"
      /\ uploads' = [uploads EXCEPT ![b] = [stage |-> kind, mount |-> mount, files |-> n]]
      /\ form' = [form EXCEPT !.uploading = @ + n]
  BY DEF Uploads, Edited, Counted, routerVars
<1>2. form'.uploading = form.uploading + n
  BY <1>1 DEF PageOK, Form
<1>3. /\ uploads'[b].stage = kind /\ uploads'[b].mount = mount /\ uploads'[b].files = n
      /\ \A a \in Batches : a # b => uploads'[a] = uploads[a]
  BY <1>1 DEF PageOK
<1>4. Mine(b)' /\ ~Mine(b) /\ \A a \in Batches : a # b => (Mine(a)' <=> Mine(a))
  BY <1>1, <1>3 DEF Mine
<1>5. Files' = Files \cup New /\ Files \cap New = {}
  <2>1. ASSUME NEW a \in Batches, NEW i \in Nat
        PROVE  <<a, i>> \in Files' <=> <<a, i>> \in Files \/ (a = b /\ i \in 1..n)
    BY <1>3, <1>4 DEF Files
  <2>2. \A p \in Batches \X Nat : p = <<p[1], p[2]>> /\ p[1] \in Batches /\ p[2] \in Nat
    OBVIOUS
  <2>3. Files \subseteq Batches \X Nat /\ Files' \subseteq Batches \X Nat
    BY DEF Files
  <2>4. New \subseteq Batches \X Nat
        /\ \A a \in Batches, i \in Nat : <<a, i>> \in New <=> a = b /\ i \in 1..n
    BY DEF FilesOf
  <2>5. \A i \in Nat : <<b, i>> \notin Files
    BY <1>4 DEF Files
  <2>. HIDE DEF New
  <2>. QED BY <2>1, <2>2, <2>3, <2>4, <2>5
<1>6. IsFiniteSet(New) /\ Cardinality(New) = n
  BY FilesOfCount
<1>. HIDE DEF New
<1>7. /\ IsFiniteSet(Files')
      /\ Cardinality(Files') = Cardinality(Files) + n - 0
  BY <1>5, <1>6, FS_Union, FS_EmptySet DEF UploadInv
<1>8. Cardinality(Files) \in Nat
  BY FS_CardinalityType DEF UploadInv
<1>9. mount \in Nat
  BY BrowserAssumption DEF RouterOK
<1>10. \A a \in Batches : uploads'[a].stage # "free" =>
         uploads'[a].files >= 1 /\ uploads'[a].mount <= mount'
  BY <1>1, <1>3, <1>9 DEF UploadInv
<1>. QED BY <1>2, <1>7, <1>8, <1>10 DEF UploadInv

\* A batch is over.
LEMMA EndUploads ==
  ASSUME RouterOK, PageOK, UploadInv, NEW b \in Batches, Uploading(b)
  PROVE  UploadInv'
<1>1. PICK good \in 0..uploads[b].files, ending \in Endings : UploadEnds(b, good, ending)
  BY DEF Uploading
<1>. DEFINE n == uploads[b].files
            Old == FilesOf(b, n)
<1>2. n \in Nat /\ uploads[b].stage # "free" /\ mount' = mount
  BY <1>1 DEF UploadEnds, PageOK, Upload, routerVars
<1>3. uploads'[b].stage = "free" /\ \A a \in Batches : a # b => uploads'[a] = uploads[a]
  BY <1>1, Records DEF UploadEnds, PageOK
<1>4. ~Mine(b)' /\ \A a \in Batches : a # b => (Mine(a)' <=> Mine(a))
  BY <1>2, <1>3 DEF Mine
<1>5. \A a \in Batches : uploads'[a].stage # "free" =>
         uploads'[a].files >= 1 /\ uploads'[a].mount <= mount'
  BY <1>2, <1>3 DEF UploadInv
<1>6. \A p \in Batches \X Nat : p = <<p[1], p[2]>> /\ p[1] \in Batches /\ p[2] \in Nat
  OBVIOUS
<1>7. Files \subseteq Batches \X Nat /\ Files' \subseteq Batches \X Nat
  BY DEF Files
<1>8. \A a \in Batches, i \in Nat : <<a, i>> \in Files' <=> <<a, i>> \in Files /\ a # b
  BY <1>3, <1>4 DEF Files
<1>9. CASE uploads[b].mount = mount
  <2>1. form'.uploading = form.uploading - n
    BY <1>1, <1>9 DEF UploadEnds, Counted, PageOK, Form
  <2>2. Mine(b)
    BY <1>2, <1>9 DEF Mine
  <2>3. Old \subseteq Batches \X Nat /\ IsFiniteSet(Old) /\ Cardinality(Old) = n
        /\ \A a \in Batches, i \in Nat : <<a, i>> \in Old <=> a = b /\ i \in 1..n
    <3>1. IsFiniteSet(Old) /\ Cardinality(Old) = n
      BY <1>2, FilesOfCount
    <3>2. Old = {b} \X (1..n)
      BY DEF FilesOf
    <3>. HIDE DEF n, Old
    <3>3. Old \subseteq Batches \X Nat
          /\ \A a \in Batches, i \in Nat : <<a, i>> \in Old <=> a = b /\ i \in 1..n
      BY <1>2, <3>2
    <3>. QED BY <3>1, <3>3
  <2>4. \A i \in Nat : <<b, i>> \in Files <=> i \in 1..n
    BY <2>2 DEF Files
  <2>. HIDE DEF Old, n
  <2>5. Files' = Files \ Old /\ Files \cap Old = Old
    BY <1>6, <1>7, <1>8, <2>3, <2>4
  <2>6. IsFiniteSet(Files)
    BY DEF UploadInv
  <2>7. IsFiniteSet(Files \ Old)
        /\ Cardinality(Files \ Old) = Cardinality(Files) - Cardinality(Files \cap Old)
    BY <2>6, FS_Difference
  <2>8. IsFiniteSet(Files') /\ Cardinality(Files') = Cardinality(Files) - n
    BY <2>3, <2>5, <2>7
  <2>. QED BY <1>5, <2>1, <2>8 DEF UploadInv
<1>10. CASE uploads[b].mount # mount
  <2>1. form' = form /\ ~Mine(b)
    BY <1>1, <1>10 DEF UploadEnds, Mine
  <2>2. \A i \in Nat : <<b, i>> \notin Files
    BY <2>1 DEF Files
  <2>3. Files' = Files
    BY <1>6, <1>7, <1>8, <2>2
  <2>. QED BY <1>5, <2>1, <2>3 DEF UploadInv
<1>. QED BY <1>9, <1>10

LEMMA UploadInit == Init => UploadInv
<1>. SUFFICES ASSUME Init PROVE UploadInv
  OBVIOUS
<1>1. \A b \in Batches : uploads[b].stage = "free"
  BY Records DEF Init
<1>2. Files = {} /\ form.uploading = 0
  BY <1>1, Records DEF Init, Files, Mine
<1>. QED BY <1>1, <1>2, FS_EmptySet DEF UploadInv

LEMMA UploadNext ==
  ASSUME SubmitInv, UploadInv, [Next]_vars
  PROVE  UploadInv' /\ \A c \in Calls : Submit(c) => InFlight = {}
<1>. RouterOK /\ PageOK /\ form \in Form
  BY DEF SubmitInv, ServerInv, PageOK
<1>1. ASSUME NEW c \in Calls, Submit(c) PROVE InFlight = {}
  <2>1. Cardinality(Files) = 0 /\ IsFiniteSet(Files)
    BY <1>1 DEF Submit, CanSubmit, UploadInv
  <2>2. Files = {}
    BY <2>1, FS_EmptySet
  <2>3. ASSUME NEW b \in Batches, Mine(b) PROVE FALSE
    <3>1. <<b, 1>> \in Files
      BY <2>3 DEF Files, Mine, UploadInv, PageOK, Upload
    <3>. QED BY <2>2, <3>1
  <2>. QED BY <2>3 DEF InFlight, Mine
<1>. SUFFICES UploadInv'
  BY <1>1
<1>2. ASSUME UNCHANGED <<uploads, routerVars>>, form'.uploading = form.uploading PROVE UploadInv'
  BY <1>2, UploadsStay DEF routerVars
<1>3. ASSUME NEW h \in Hashes, Navigate(h) PROVE UploadInv'
  BY <1>3, UploadsStay DEF Navigate, SetHash, pageVars
<1>4. CASE Dispatch
  BY <1>4, MountUploads DEF Dispatch, HashChanged
<1>5. CASE Connection
  <2>1. CASE GoesOffline /\ UNCHANGED <<serverVars, pageVars>>
    BY <1>2, <2>1 DEF GoesOffline, pageVars
  <2>2. CASE GoesOnline /\ PagesDispatched
    BY <2>2, MountUploads DEF GoesOnline
  <2>. QED BY <1>5, <2>1, <2>2 DEF Connection
<1>6. CASE UseInspiration
  BY <1>6, UploadsStay DEF UseInspiration, SetHash
<1>7. CASE Types \/ Removes \/ LoadDemo
  <2>1. form'.uploading = form.uploading
    <3>1. CASE Types
      BY <3>1 DEF Types, Edited, Form
    <3>2. CASE Removes
      BY <3>2 DEF Removes, Edited, Form
    <3>3. CASE LoadDemo
      BY <3>3 DEF LoadDemo, Edited, Form
    <3>. QED BY <1>7, <3>1, <3>2, <3>3
  <2>. QED BY <1>2, <1>7, <2>1 DEF Types, Removes, LoadDemo, Edited
<1>8. ASSUME NEW b \in Batches, NEW n \in Picks, PicksImages(b, n) PROVE UploadInv'
  <2>1. (IF n < Remaining THEN n ELSE Remaining) \in Nat \ {0}
    BY <1>8, SubmitPageAssumption DEF PicksImages, Remaining, Form
  <2>. QED BY <1>8, <2>1, PickUploads DEF PicksImages
<1>9. ASSUME NEW b \in Batches, PicksReference(b) PROVE UploadInv'
  <2>1. 1 \in Nat \ {0}
    OBVIOUS
  <2>. QED BY <1>9, <2>1, PickUploads DEF PicksReference
<1>10. ASSUME NEW b \in Batches, Uploading(b) PROVE UploadInv'
  BY <1>10, EndUploads
<1>11. ASSUME NEW c \in Calls, Submit(c) \/ Regenerate(c) PROVE UploadInv'
  <2>1. form'.uploading = form.uploading
    BY <1>11 DEF Submit, Regenerate, Form
  <2>. QED BY <1>2, <1>11, <2>1 DEF Submit, Regenerate, Begins
<1>12. ASSUME NEW c \in Calls, Calling(c) PROVE UploadInv'
  <2>1. CASE CallResumes(c)
    BY <1>2, <2>1 DEF CallResumes
  <2>2. ASSUME NEW ending \in Endings, CallRetries(c, ending) PROVE UploadInv'
    BY <1>2, <2>2 DEF CallRetries
  <2>3. ASSUME NEW ending \in Endings, CallEnds(c, ending) PROVE UploadInv'
    <3>1. form'.uploading = form.uploading
      BY <2>3 DEF CallEnds, Form
    <3>2. uploads' = uploads /\ mount' = mount
      BY <2>3 DEF CallEnds, SetHash, routerVars
    <3>. QED BY <3>1, <3>2, UploadsStay
  <2>. QED BY <1>12, <2>1, <2>2, <2>3 DEF Calling
<1>13. ASSUME NEW h \in Requests, Server(h) PROVE UploadInv'
  BY <1>2, <1>13 DEF Server, pageVars
<1>14. CASE UNCHANGED vars
  BY <1>2, <1>14 DEF vars, pageVars
<1>. QED
  BY <1>1, <1>3, <1>4, <1>5, <1>6, <1>7, <1>8, <1>9, <1>10, <1>11, <1>12, <1>13, <1>14
  DEF Next

\* No submission starts while a file of its form is on its way: the counter of
\* uploads is exact, however many batches overlap and fail (SubmitPage.js).
THEOREM UploadsFirst == Spec => NoUploadLeftBehind
<1>1. Init => UploadInv
  BY UploadInit
<1>2. SubmitInv /\ UploadInv /\ [Next]_vars => UploadInv'
  BY UploadNext
<1>3. SubmitInv /\ UploadInv /\ [Next]_vars =>
        [\A c \in Calls : Submit(c) => InFlight = {}]_vars
  BY UploadNext
<1>. QED
  BY <1>1, <1>2, <1>3, SubmitInvariant, PTL DEF Spec, NoUploadLeftBehind
=============================================================================
