----------------------------- MODULE WebAppProofs -----------------------------
(***************************************************************************)
(* Theorems about WebApp, for every set of tasks and hashes, every page    *)
(* size, and any number of mounts, overlapping loads, failures and clicks. *)
(***************************************************************************)
EXTENDS WebApp, TLAPS, FiniteSetTheorems

-----------------------------------------------------------------------------
(* Types *)

LEMMA InitType == Init => TypeOK
<1>. SUFFICES ASSUME Init PROVE TypeOK
  OBVIOUS
<1>1. BrowserTypeOK
  <2>1. PageHash("unknown") \in Hash
    BY DEF PageHash, Hash, Pages
  <2>2. hash \in Hash /\ troubles \in 0..MaxTroubles /\ mount \in 0..MaxMounts /\ events \in Nat
    BY BrowserAssumption DEF Init, BrowserInit
  <2>. QED BY <2>1, <2>2 DEF Init, BrowserInit, BrowserTypeOK
<1>2. DetailTypeOK
  BY DEF Init, DetailInit, DetailTypeOK, Poll, Off
<1>3. ListTypeOK
  <2>1. NoRows \in Listings
    BY DEF NoRows, Listings
  <2>. QED BY <2>1, ListAssumption DEF Init, ListInit, ListTypeOK, Load, NoLoad
<1>. QED
  BY <1>1, <1>2, <1>3, WebAppAssumption DEF Init, BrowserInit, TypeOK, PageHash

\* The monitor keeps its types, however a request ends.
LEMMA MonitorType ==
  ASSUME BrowserTypeOK, NEW ending, Ends(ending)
  PROVE  /\ online' \in BOOLEAN /\ isOnline' \in BOOLEAN /\ banner' \in BOOLEAN
         /\ troubles' \in 0..MaxTroubles
<1>1. troubles' \in 0..MaxTroubles
  BY BrowserAssumption DEF BrowserTypeOK, Ends
<1>2. Hears(ending) \in BOOLEAN
  BY DEF Hears
<1>. QED BY <1>1, <1>2 DEF BrowserTypeOK, Ends, SetOnline

\* A dispatch mounts the page of a known hash or goes home.
LEMMA DispatchedType ==
  ASSUME TypeOK, NEW e \in Nat, Dispatched(e), Remounts => mount < MaxMounts
  PROVE  /\ hash' \in Hash /\ route' \in Hash /\ events' \in Nat /\ mount' \in 0..MaxMounts
         /\ {hash, route}' \subseteq Hashes \cup {PageHash("home"), PageHash("unknown")}
<1>. USE BrowserAssumption DEF TypeOK, BrowserTypeOK, Dispatched
<1>. PageHash("home") \in Hash
  BY DEF PageHash, Hash, Pages
<1>1. CASE Remounts
  BY <1>1
<1>2. CASE ~Remounts
  BY <1>2
<1>. QED BY <1>1, <1>2

\* The poll of a page that is left ends, the one of a new task page starts.
LEMMA DetailDispatchedType ==
  ASSUME TypeOK, DetailDispatched
  PROVE  DetailTypeOK'
<1>. USE DEF TypeOK, DetailTypeOK
<1>1. CASE ~Remounts
  BY <1>1 DEF DetailDispatched, detailVars
<1>2. CASE Remounts
  <2>1. Off \in Poll
    BY DEF Off, Poll
  <2>2. hash.page = "task" =>
          /\ Asks([Off EXCEPT !.task = hash.task], "task") \in Poll
          /\ Asks([Off EXCEPT !.task = hash.task], "task").task \in Tasks
    <3>. SUFFICES ASSUME hash.page = "task"
         PROVE  /\ Asks([Off EXCEPT !.task = hash.task], "task") \in Poll
                /\ Asks([Off EXCEPT !.task = hash.task], "task").task \in Tasks
      OBVIOUS
    <3>1. hash \in Hashes
      BY DEF PageHash
    <3>2. hash.task \in Tasks /\ hash.task \in Nat
      BY <3>1, TasksAssumption
    <3>3. PICK q : q = [Off EXCEPT !.task = hash.task]
      OBVIOUS
    <3>4. q \in Poll /\ q.task = hash.task
      BY <3>2, <3>3 DEF Off, Poll
    <3>5. Asks(q, "task") \in Poll /\ Asks(q, "task").task = q.task
      BY <3>4 DEF Asks, Poll
    <3>. QED BY <3>2, <3>3, <3>4, <3>5
  <2>3. \A m \in Mounts : polls'[m] \in Poll
    BY <1>2, <2>1, <2>2 DEF DetailDispatched
  <2>4. \A m \in Mounts : polls'[m].pc # "off" => polls'[m].task \in Tasks
    BY <1>2, <2>2 DEF DetailDispatched, Off
  <2>5. polls' = [m \in Mounts |-> polls'[m]]
    BY <1>2 DEF DetailDispatched
  <2>. QED BY <1>2, <2>3, <2>4, <2>5 DEF DetailDispatched
<1>. QED BY <1>1, <1>2

\* One step of a poll: its record and the page keep their types.
LEMMA PollType ==
  ASSUME TypeOK, NEW m \in Mounts, PollAny(m) \/ DeadlinePasses(m) \/ CancelPolling
  PROVE  DetailTypeOK'
<1>. USE DEF TypeOK, DetailTypeOK, SetPage
<1>. DEFINE Kept(q) == q \in Poll /\ (q.pc # "off" => q.task \in Tasks)
<1>1. Kept(Off) /\ Kept(polls[m])
  BY DEF Off, Poll
<1>2. ASSUME NEW i \in Mounts, NEW q, Kept(q), polls' = [polls EXCEPT ![i] = q]
      PROVE  /\ polls' \in [Mounts -> Poll]
             /\ \A n \in Mounts : polls'[n].pc # "off" => polls'[n].task \in Tasks
  BY <1>2
<1>. HIDE DEF Kept
<1>3. CASE PollAnswered(m)
  <2>. DEFINE q == [polls[m] EXCEPT !.stage = "answered",
                      !.data = IF polls[m].pc = "task"
                               THEN server[polls[m].task] ELSE "none"]
  <2>1. polls' = [polls EXCEPT ![m] = q]
    BY <1>3 DEF PollAnswered
  <2>2. Kept(q)
    BY <1>1, <1>3 DEF PollAnswered, Poll, Kept
  <2>. QED BY <1>2, <1>3, <2>1, <2>2 DEF PollAnswered
<1>4. ASSUME NEW ending \in Endings, PollRetries(m, ending) PROVE DetailTypeOK'
  <2>. DEFINE q == [polls[m] EXCEPT !.stage = "backoff", !.left = 0, !.data = "none"]
  <2>1. polls' = [polls EXCEPT ![m] = q]
    BY <1>4 DEF PollRetries
  <2>2. Kept(q)
    BY <1>1 DEF Poll, Kept
  <2>. QED BY <1>2, <1>4, <2>1, <2>2 DEF PollRetries
<1>5. CASE BackoffEnds(m)
  <2>. DEFINE q == [polls[m] EXCEPT !.stage = "sent"]
  <2>1. polls' = [polls EXCEPT ![m] = q]
    BY <1>5 DEF BackoffEnds
  <2>2. Kept(q)
    BY <1>1 DEF Poll, Kept
  <2>. QED BY <1>2, <1>5, <2>1, <2>2 DEF BackoffEnds
<1>6. CASE TaskReceived(m)
  <2>. DEFINE p == [polls[m] EXCEPT !.pc = "pause", !.stage = "sent", !.data = "none"]
              q == IF IsTerminal(polls[m].data) THEN Asks(polls[m], "timeline")
                   ELSE IF TimesOut(m) THEN Off ELSE p
  <2>1. Kept(Asks(polls[m], "timeline")) /\ Kept(p)
    BY <1>1, <1>6 DEF Poll, Kept, Asks, TaskReceived
  <2>2. polls' = [polls EXCEPT ![m] = q]
    BY <1>6 DEF TaskReceived
  <2>3. Kept(q)
    BY <1>1, <2>1
  <2>4. polls[m].data \in Statuses \cup {"none"}
    BY DEF Poll
  <2>5. shown' \in Statuses \cup {"none"} /\ error' \in BOOLEAN /\ polling' \in BOOLEAN
    BY <1>6, <2>4 DEF TaskReceived
  <2>. QED BY <1>2, <2>2, <2>3, <2>5
<1>7. ASSUME NEW ending \in Endings, TaskFails(m, ending) \/ TimelineEnds(m, ending)
      PROVE  DetailTypeOK'
  BY <1>1, <1>2, <1>7 DEF TaskFails, TimelineEnds, FailsOpenly
<1>8. CASE PauseEnds(m)
  <2>1. Kept(Asks(polls[m], "task"))
    BY <1>1, <1>8 DEF Poll, Kept, Asks, PauseEnds
  <2>. QED BY <1>2, <1>8, <2>1 DEF PauseEnds
<1>9. CASE DeadlinePasses(m)
  <2>. DEFINE q == [polls[m] EXCEPT !.late = TRUE]
  <2>1. polls' = [polls EXCEPT ![m] = q]
    BY <1>9 DEF DeadlinePasses
  <2>2. Kept(q)
    BY <1>1 DEF Poll, Kept
  <2>. QED BY <1>2, <1>9, <2>1, <2>2 DEF DeadlinePasses
<1>10. CASE CancelPolling
  <2>1. CASE mount \in Mounts
    BY <1>1, <1>2, <1>10, <2>1 DEF CancelPolling
  <2>2. CASE mount \notin Mounts
    BY <1>10, <2>2 DEF CancelPolling
  <2>. QED BY <2>1, <2>2
<1>. QED BY <1>3, <1>4, <1>5, <1>6, <1>7, <1>8, <1>9, <1>10 DEF PollAny
-----------------------------------------------------------------------------
(* The list *)

\* The inductive invariant of the list: besides the two properties, a load that
\* is in flight belongs to a page that was mounted.
ListInv ==
  /\ ListTypeOK
  /\ \A l \in LoadIds : loads[l].stage # "free" => loads[l].mount \in Mounts
  /\ TimerIffActive /\ SpinnerIsHonest

LEMMA NoLoadType == NoLoad \in Load /\ NoRows \in Listings /\ NoRows = [t \in {} |-> "none"]
<1>1. NoRows \in Listings
  BY DEF NoRows, Listings
<1>. QED BY <1>1, ListAssumption DEF NoLoad, Load, NoRows

\* The loads L are well formed, and one of them is the page's of mount m.
LoadsOf(L, m) ==
  /\ L \in [LoadIds -> Load]
  /\ \A l \in LoadIds : L[l].stage # "free" => L[l].mount \in Mounts
  /\ \E l \in LoadIds : L[l].stage # "free" /\ L[l].mount = m

\* What load() leaves in flight: its own requests and those of before.
LEMMA LoadingFacts ==
  ASSUME ListTypeOK, NEW n \in Nat \ {0}, NEW m \in Mounts, NEW f \in Filters,
         NEW o \in Nat, MayLoad(n),
         \A l \in LoadIds : loads[l].stage # "free" => loads[l].mount \in Mounts
  PROVE  LoadsOf(Loading(n, m, f, o), m)
<1>. DEFINE S == CHOOSE S \in Rooms(n) : TRUE
            L == Loading(n, m, f, o)
            new == [NoLoad EXCEPT !.stage = "sent", !.left = 1, !.mount = m,
                                  !.filter = f, !.offset = o]
<1>1. S \in Rooms(n)
  BY DEF MayLoad
<1>2. S \subseteq LoadIds /\ S # {}
  BY <1>1, FS_EmptySet DEF Rooms
<1>3. new \in Load /\ new.stage = "sent" /\ new.mount = m
  <2>1. m \in Nat /\ 1 \in {0, 1}
    BY DEF Mounts
  <2>2. PICK q \in Load : q = NoLoad
    BY NoLoadType
  <2>3. PICK r \in Load : r = [q EXCEPT !.stage = "sent", !.left = 1, !.mount = m]
    BY <2>1 DEF Load
  <2>4. new = [r EXCEPT !.filter = f, !.offset = o]
    BY <2>2, <2>3
  <2>. HIDE DEF new
  <2>5. new \in Load
    BY <2>4 DEF Load
  <2>. QED BY <2>3, <2>4, <2>5 DEF Load
<1>4. ASSUME NEW l \in LoadIds
      PROVE  /\ Orphan(l) \in Load
             /\ Orphan(l).stage = loads[l].stage /\ Orphan(l).mount = loads[l].mount
  BY NoLoadType DEF Orphan, Load, ListTypeOK
<1>5. L = [l \in LoadIds |-> IF l \in S THEN new
                            ELSE IF loads[l].mount # m THEN Orphan(l) ELSE loads[l]]
  BY DEF Loading
<1>. HIDE DEF S, L, new
<1>6. L \in [LoadIds -> Load]
  BY <1>3, <1>4, <1>5 DEF ListTypeOK
<1>7. \A l \in LoadIds : L[l].stage # "free" => L[l].mount \in Mounts
  BY <1>3, <1>4, <1>5
<1>8. \E l \in LoadIds : L[l].stage # "free" /\ L[l].mount = m
  BY <1>2, <1>3, <1>5
<1>. QED BY <1>6, <1>7, <1>8 DEF L, LoadsOf

\* A page that is mounted starts with an empty list, no timer, and, if it is the
\* list, with its first load.
LEMMA ListDispatchedInv ==
  ASSUME BrowserTypeOK, ListInv, NEW e, Dispatched(e), ListDispatched,
         Remounts => mount < MaxMounts
  PROVE  ListInv'
<1>. USE DEF ListInv
<1>1. CASE ~Remounts
  BY <1>1 DEF Dispatched, ListDispatched, listVars, ListTypeOK, TimerIffActive, HasActive,
              SpinnerIsHonest
<1>2. CASE Remounts
  <2>1. mount' = mount + 1 /\ mount + 1 \in Mounts
    BY <1>2, BrowserAssumption DEF Dispatched, BrowserTypeOK, Mounts
  <2>2. /\ rows' = NoRows /\ total' = 0 /\ filter' = "" /\ offset' = 0
        /\ timers' = timers \ {mount} /\ loading' = (hash.page = "ops")
    BY <1>2 DEF ListDispatched
  <2>3. timers' = {} /\ ~ActiveRows(rows')
    BY <2>2, NoLoadType DEF TimerIffActive, ActiveRows
  <2>4. /\ loads' \in [LoadIds -> Load]
        /\ \A l \in LoadIds : loads'[l].stage # "free" => loads'[l].mount \in Mounts
        /\ loading' => \E l \in LoadIds : loads'[l].stage # "free" /\ loads'[l].mount = mount'
    <3>1. CASE hash.page = "ops"
      <4>1. MayLoad(1) /\ loads' = Loading(1, mount + 1, "", 0)
        BY <1>2, <3>1 DEF ListDispatched
      <4>2. PICK f \in Filters : loads' = Loading(1, mount + 1, f, 0)
        BY <4>1, ListAssumption, Zenon
      <4>3. 1 \in Nat \ {0} /\ 0 \in Nat /\ f \in Filters
        BY <4>2
      <4>4. LoadsOf(Loading(1, mount + 1, f, 0), mount + 1)
        BY <2>1, <4>1, <4>3, LoadingFacts
      <4>. QED BY <2>1, <4>2, <4>4 DEF LoadsOf
    <3>2. CASE hash.page # "ops"
      <4>1. loads' = [l \in LoadIds |-> Orphan(l)]
        BY <1>2, <3>2 DEF ListDispatched
      <4>2. ASSUME NEW l \in LoadIds
            PROVE  /\ Orphan(l) \in Load
                   /\ Orphan(l).stage = loads[l].stage /\ Orphan(l).mount = loads[l].mount
        BY NoLoadType DEF Orphan, Load, ListTypeOK
      <4>. QED BY <2>2, <3>2, <4>1, <4>2
    <3>. QED BY <3>1, <3>2
  <2>5. ListTypeOK'
    BY <2>2, <2>3, <2>4, NoLoadType, ListAssumption DEF ListTypeOK
  <2>6. TimerIffActive'
    BY <2>3 DEF TimerIffActive, HasActive
  <2>7. SpinnerIsHonest'
    BY <2>4 DEF SpinnerIsHonest
  <2>. QED BY <2>4, <2>5, <2>6, <2>7
<1>. QED BY <1>1, <1>2

\* A load that goes on keeps its page and disturbs nothing else.
LEMMA LoadGoesOn ==
  ASSUME ListInv, NEW l \in LoadIds, NEW r \in Load, r.stage # "free",
         loads[l].stage # "free", r.mount = loads[l].mount,
         loads' = [loads EXCEPT ![l] = r],
         UNCHANGED <<rows, total, filter, offset, loading, timers, mount>>
  PROVE  ListInv'
<1>. USE DEF ListInv
<1>1. ListTypeOK'
  BY DEF ListTypeOK
<1>2. \A k \in LoadIds : /\ loads'[k].stage = "free" <=> loads[k].stage = "free"
                          /\ loads'[k].mount = loads[k].mount
  BY DEF ListTypeOK
<1>3. TimerIffActive'
  BY DEF TimerIffActive, HasActive
<1>4. SpinnerIsHonest'
  BY <1>2 DEF SpinnerIsHonest
<1>. QED BY <1>1, <1>2, <1>3, <1>4

\* What the server answers is well typed.
LEMMA AnswerType ==
  ASSUME ListTypeOK, server \in [Tasks -> Statuses], NEW f, NEW w \in SUBSET Tasks
  PROVE  /\ [t \in w |-> server[t]] \in Listings
         /\ Cardinality(Matching(f)) \in Nat
<1>1. [t \in w |-> server[t]] \in [w -> Statuses]
  OBVIOUS
<1>2. [w -> Statuses] \in {[S -> Statuses] : S \in SUBSET Tasks}
  OBVIOUS
<1>3. Matching(f) \subseteq Tasks
  BY DEF Matching
<1>4. IsFiniteSet(Matching(f))
  BY <1>3, TasksAssumption, FS_Subset
<1>. QED BY <1>1, <1>2, <1>4, FS_CardinalityType DEF Listings

\* A load keeps the flag, the timer and the rows together, however it ends and
\* whosever it is.
LEMMA LoadAnyInv ==
  ASSUME TypeOK, ListInv, NEW l \in LoadIds, LoadAny(l), UNCHANGED routerVars
  PROVE  ListInv'
<1>. USE DEF TypeOK, routerVars
<1>. loads[l] \in Load
  BY DEF ListTypeOK
<1>1. CASE LoadAnswered(l)
  <2>. DEFINE A(w, n) == [loads[l] EXCEPT !.stage = "answered", !.total = n,
                                          !.rows = [t \in w |-> server[t]]]
  <2>1. PICK w \in SUBSET Tasks, n \in Nat :
          loads' = [loads EXCEPT ![l].stage = "answered", ![l].total = n,
                                 ![l].rows = [t \in w |-> server[t]]]
    <3>1. CASE loads[l].mount = mount
      <4>1. /\ Window(loads[l].filter, loads[l].offset) \in SUBSET Tasks
            /\ Cardinality(Matching(loads[l].filter)) \in Nat
        BY AnswerType DEF Window, Matching
      <4>. QED BY <1>1, <3>1, <4>1 DEF LoadAnswered
    <3>2. CASE loads[l].mount # mount
      BY <1>1, <3>2 DEF LoadAnswered
    <3>. QED BY <3>1, <3>2
  <2>2. PICK v \in Listings : v = [t \in w |-> server[t]]
    BY AnswerType
  <2>3. PICK r : r = [loads[l] EXCEPT !.stage = "answered", !.total = n, !.rows = v]
    OBVIOUS
  <2>4. loads' = [loads EXCEPT ![l] = r]
    BY <2>1, <2>2, <2>3 DEF ListTypeOK
  <2>5. r \in Load /\ r.stage # "free" /\ r.mount = loads[l].mount
    BY <2>3 DEF Load
  <2>6. loads[l].stage # "free"
    BY <1>1 DEF LoadAnswered
  <2>. QED BY <1>1, <2>4, <2>5, <2>6, LoadGoesOn DEF LoadAnswered
<1>2. ASSUME NEW ending \in Endings, LoadRetries(l, ending) PROVE ListInv'
  <2>1. PICK r : r = [loads[l] EXCEPT !.stage = "backoff", !.left = 0,
                                     !.rows = NoRows, !.total = 0]
    OBVIOUS
  <2>2. loads' = [loads EXCEPT ![l] = r]
    BY <1>2, <2>1 DEF LoadRetries, ListTypeOK
  <2>3. r \in Load /\ r.stage # "free" /\ r.mount = loads[l].mount
    BY <2>1, NoLoadType DEF Load
  <2>4. loads[l].stage # "free"
    BY <1>2 DEF LoadRetries, MayEnd
  <2>. QED BY <1>2, <2>2, <2>3, <2>4, LoadGoesOn DEF LoadRetries
<1>3. CASE LoadBackoffEnds(l)
  <2>1. PICK r : r = [loads[l] EXCEPT !.stage = "sent"]
    OBVIOUS
  <2>2. loads' = [loads EXCEPT ![l] = r]
    BY <1>3, <2>1 DEF LoadBackoffEnds, ListTypeOK
  <2>3. r \in Load /\ r.stage # "free" /\ r.mount = loads[l].mount
    BY <2>1 DEF Load
  <2>4. loads[l].stage # "free"
    BY <1>3 DEF LoadBackoffEnds
  <2>. QED BY <1>3, <2>2, <2>3, <2>4, LoadGoesOn DEF LoadBackoffEnds
<1>4. ASSUME NEW ending \in Endings, LoadEnds(l, ending) PROVE ListInv'
  <2>1. loads' = [loads EXCEPT ![l] = NoLoad] /\ UNCHANGED <<filter, offset, mount>>
    BY <1>4 DEF LoadEnds
  <2>2. loads[l].stage # "free" /\ loads[l].mount \in Mounts
    BY <1>4 DEF LoadEnds, MayEnd, ListInv
  <2>3. NoLoad.stage = "free"
    BY DEF NoLoad
  <2>4. /\ loads' \in [LoadIds -> Load]
        /\ \A k \in LoadIds : loads'[k].stage # "free" => loads'[k].mount \in Mounts
    BY <2>1, <2>3, NoLoadType DEF ListInv, ListTypeOK
  <2>5. CASE loads[l].mount = mount /\ ending = "ok"
    <3>1. /\ rows' = loads[l].rows /\ total' = loads[l].total
          /\ timers' = TimersFor(rows') /\ loading' = FALSE
      BY <1>4, <2>5 DEF LoadEnds, LoadingAfter
    <3>2. timers' = IF ActiveRows(rows') THEN {mount'} ELSE {}
      BY <2>1, <3>1 DEF TimersFor, TimerIffActive, ListInv
    <3>3. loads[l].rows \in Listings /\ loads[l].total \in Nat
      BY DEF Load
    <3>4. ListTypeOK'
      BY <2>1, <2>2, <2>4, <2>5, <3>1, <3>2, <3>3 DEF ListInv, ListTypeOK
    <3>. QED BY <2>4, <3>1, <3>2, <3>4 DEF ListInv, TimerIffActive, HasActive, SpinnerIsHonest
  <2>6. CASE ~(loads[l].mount = mount /\ ending = "ok")
    <3>1. UNCHANGED <<rows, total, timers>> /\ loading' \in BOOLEAN
      BY <1>4, <2>6 DEF LoadEnds, LoadingAfter, ListInv, ListTypeOK
    <3>2. ListTypeOK' /\ TimerIffActive'
      BY <2>1, <2>4, <3>1 DEF ListInv, ListTypeOK, TimerIffActive, HasActive
    <3>3. SpinnerIsHonest'
      <4>1. CASE loads[l].mount = mount
        BY <1>4, <4>1 DEF LoadEnds, LoadingAfter, SpinnerIsHonest
      <4>2. CASE loads[l].mount # mount
        <5>1. loading' = loading
          BY <1>4, <4>2 DEF LoadEnds
        <5>2. \A k \in LoadIds : loads[k].mount = mount => loads'[k] = loads[k]
          BY <2>1, <4>2 DEF ListInv, ListTypeOK
        <5>. QED BY <2>1, <5>1, <5>2 DEF ListInv, SpinnerIsHonest
      <4>. QED BY <4>1, <4>2
    <3>. QED BY <2>4, <3>2, <3>3 DEF ListInv
  <2>. QED BY <2>5, <2>6
<1>. QED BY <1>1, <1>2, <1>3, <1>4 DEF LoadAny

\* The interval and the user's clicks: they start loads of the mounted page.
LEMMA StartsInv ==
  ASSUME ListInv, NEW n \in Nat \ {0}, NEW f \in Filters, NEW o \in Nat,
         mount \in Mounts, Starts(n, f, o), mount' = mount, filter' \in Filters,
         offset' \in Nat, UNCHANGED <<rows, total, timers>>
  PROVE  ListInv'
<1>1. loads' = Loading(n, mount, f, o) /\ MayLoad(n) /\ loading' = TRUE
  BY DEF Starts
<1>2. LoadsOf(loads', mount)
  BY <1>1, LoadingFacts DEF ListInv
<1>. QED BY <1>1, <1>2 DEF ListInv, ListTypeOK, LoadsOf, TimerIffActive, HasActive, SpinnerIsHonest

LEMMA PageInv ==
  ASSUME BrowserTypeOK, ListInv, mount = 0 => route.page = "unknown", UNCHANGED routerVars,
         \/ \E m \in Mounts : Tick(m)
         \/ Refresh \/ NextPage \/ PreviousPage
         \/ \E f \in Filters : ChangeFilter(f)
  PROVE  ListInv'
<1>. USE DEF routerVars
<1>1. filter \in Filters /\ offset \in Nat /\ PageSize \in Nat \ {0} /\ timers \subseteq Mounts
  BY ListAssumption DEF ListInv, ListTypeOK
<1>2. route.page = "ops" => mount \in Mounts
  BY BrowserAssumption DEF BrowserTypeOK, Mounts
<1>3. ASSUME NEW m \in Mounts, Tick(m) PROVE ListInv'
  <2>1. m \in timers
    BY <1>3 DEF Tick
  <2>2. CASE HasActive
    <3>1. Starts(1, filter, offset) /\ UNCHANGED <<rows, total, filter, offset, timers>>
      BY <1>3, <2>2 DEF Tick
    <3>2. mount \in Mounts
      BY <1>1, <2>2 DEF ListInv, TimerIffActive
    <3>3. 1 \in Nat \ {0}
      OBVIOUS
    <3>. QED BY <1>1, <3>1, <3>2, <3>3, StartsInv
  <2>3. CASE ~HasActive
    BY <2>1, <2>3 DEF ListInv, TimerIffActive
  <2>. QED BY <2>2, <2>3
<1>4. CASE Refresh
  <2>1. 1 \in Nat \ {0}
    OBVIOUS
  <2>. QED BY <1>1, <1>2, <1>4, <2>1, StartsInv DEF Refresh
<1>5. ASSUME NEW o \in Nat, TurnsTo(o) PROVE ListInv'
  <2>1. 1 \in Nat \ {0}
    OBVIOUS
  <2>. QED BY <1>1, <1>2, <1>5, <2>1, StartsInv DEF TurnsTo
<1>6. CASE NextPage
  BY <1>1, <1>5, <1>6 DEF NextPage
<1>7. CASE PreviousPage
  <2>1. (IF offset < PageSize THEN 0 ELSE offset - PageSize) \in Nat
    BY <1>1
  <2>. QED BY <1>5, <1>7, <2>1 DEF PreviousPage
<1>8. ASSUME NEW f \in Filters, ChangeFilter(f) PROVE ListInv'
  <2>1. (IF offset = 0 THEN 1 ELSE 2) \in Nat \ {0} /\ 0 \in Nat
    OBVIOUS
  <2>2. /\ Starts(IF offset = 0 THEN 1 ELSE 2, f, 0)
        /\ filter' = f /\ offset' = 0 /\ UNCHANGED <<rows, total, timers>>
        /\ mount \in Mounts
    BY <1>2, <1>8 DEF ChangeFilter
  <2>. QED BY <2>1, <2>2, StartsInv
<1>. QED BY <1>3, <1>4, <1>6, <1>7, <1>8
-----------------------------------------------------------------------------
(* The poll *)

\* The inductive invariant of the task page: besides the property, the timeline
\* is fetched only for a task that is settled on the screen, and a poll that has
\* ended waits for nothing.
DetailInv ==
  /\ OneLivePoll
  /\ \A m \in Mounts : polls[m].pc = "off" => polls[m].stage # "backoff"
  /\ \A m \in Mounts : polls[m].pc = "timeline" => IsTerminal(shown)

\* A poll that goes on stays the page's.
GoesOn(m, q) ==
  /\ polls[m].pc # "off" /\ q.pc # "off" /\ q.task = polls[m].task
  /\ q.pc = "timeline" => IsTerminal(shown')
  /\ polls' = [polls EXCEPT ![m] = q] /\ polling' = polling

LEMMA PollGoesOn ==
  ASSUME DetailTypeOK, DetailInv, NEW m \in Mounts, NEW q, GoesOn(m, q),
         UNCHANGED <<mount, route>>
  PROVE  DetailInv'
<1>. USE DEF GoesOn
<1>1. polls'[m] = q /\ \A n \in Mounts : n # m => polls'[n] = polls[n]
  BY DEF DetailTypeOK
<1>2. m = mount /\ polling /\ \A n \in Mounts : n # m => polls[n].pc = "off"
  BY DEF DetailInv, OneLivePoll
<1>. QED BY <1>1, <1>2 DEF DetailInv, OneLivePoll

\* A poll that ends leaves the page without one.
LEMMA PollStops ==
  ASSUME DetailTypeOK, DetailInv, NEW m \in Mounts, m = mount,
         polls' = [polls EXCEPT ![m] = Off], polling' = FALSE, UNCHANGED <<mount, route>>
  PROVE  DetailInv'
<1>1. \A n \in Mounts : polls'[n].pc = "off" /\ polls'[n].stage # "backoff"
  BY DEF DetailTypeOK, DetailInv, OneLivePoll, Off
<1>. QED BY <1>1 DEF DetailInv, OneLivePoll

\* The page that is mounted is the only one whose poll is alive.
LEMMA DetailDispatchedInv ==
  ASSUME BrowserTypeOK, DetailTypeOK, DetailInv, NEW e, Dispatched(e), DetailDispatched,
         Remounts => mount < MaxMounts
  PROVE  DetailInv'
<1>1. CASE ~Remounts
  BY <1>1 DEF Dispatched, DetailDispatched, detailVars, DetailInv, OneLivePoll
<1>2. CASE Remounts
  <2>1. mount' = mount + 1 /\ mount + 1 \in Mounts /\ mount \in Nat /\ route' = hash
    BY <1>2, BrowserAssumption DEF Dispatched, BrowserTypeOK, Mounts
  <2>2. ASSUME NEW m \in Mounts, m # mount + 1 
        PROVE  polls'[m].pc = "off" /\ polls'[m].stage # "backoff"
    BY <1>2, <2>1, <2>2 DEF DetailDispatched, CancelsPoll, DetailInv, OneLivePoll, Off
  <2>3. hash.page = "task" => hash = TaskHash(hash.task)
    BY DEF BrowserTypeOK, Hash, TaskHash
  <2>4. CASE hash.page = "task"
    <3>1. PICK q : q = [Off EXCEPT !.task = hash.task]
      OBVIOUS
    <3>2. polls'[mount + 1] = Asks(q, "task")
      BY <1>2, <2>1, <2>4, <3>1 DEF DetailDispatched
    <3>3. /\ q.task = hash.task
          /\ q = [pc |-> "off", task |-> hash.task, stage |-> "sent", left |-> 0,
                  data |-> "none", late |-> FALSE]
      BY <3>1 DEF Off
    <3>4. polls'[mount + 1].pc = "task" /\ polls'[mount + 1].task = hash.task
      BY <3>2, <3>3 DEF Asks
    <3>5. polling'
      BY <1>2, <2>4 DEF DetailDispatched
    <3>. QED BY <2>1, <2>2, <2>3, <2>4, <3>4, <3>5 DEF DetailInv, OneLivePoll
  <2>5. CASE hash.page # "task"
    <3>1. polls'[mount + 1] = polls[mount + 1]
      BY <1>2, <2>1, <2>5 DEF DetailDispatched, CancelsPoll
    <3>2. polls[mount + 1].pc = "off" /\ polls[mount + 1].stage # "backoff"
      BY <2>1 DEF DetailInv, OneLivePoll
    <3>3. ~polling'
      BY <1>2, <2>5 DEF DetailDispatched
    <3>. QED BY <2>2, <3>1, <3>2, <3>3 DEF DetailInv, OneLivePoll
  <2>. QED BY <2>4, <2>5
<1>. QED BY <1>1, <1>2

\* A poll that ends by itself leaves an error or a settled task on the screen.
Accounted == polling /\ ~polling' => error' \/ IsTerminal(shown')

LEMMA PollInv ==
  ASSUME DetailTypeOK, DetailInv, NEW m \in Mounts, PollAny(m) \/ DeadlinePasses(m),
         UNCHANGED <<mount, route>>
  PROVE  DetailInv' /\ Accounted
<1>. USE DEF SetPage
<1>. polls[m] \in Poll
  BY DEF DetailTypeOK
<1>1. polls[m].pc # "off" => m = mount
  BY DEF DetailInv, OneLivePoll
<1>2. polls[m].pc = "timeline" => IsTerminal(shown)
  BY DEF DetailInv
<1>3. polls[m].stage = "backoff" => polls[m].pc # "off"
  BY DEF DetailInv
<1>4. ASSUME NEW q, GoesOn(m, q) PROVE DetailInv' /\ Accounted
  BY <1>4, PollGoesOn DEF Accounted, GoesOn
<1>5. ASSUME polls[m].pc # "off", polls' = [polls EXCEPT ![m] = Off], polling' = FALSE,
             error' \/ IsTerminal(shown')
      PROVE  DetailInv' /\ Accounted
  BY <1>1, <1>5, PollStops DEF Accounted
<1>6. CASE PollAnswered(m)
  <2>1. PICK q : q = [polls[m] EXCEPT !.stage = "answered",
                        !.data = IF polls[m].pc = "task"
                                 THEN server[polls[m].task] ELSE "none"]
    OBVIOUS
  <2>2. polls' = [polls EXCEPT ![m] = q]
    BY <1>6, <2>1 DEF PollAnswered, DetailTypeOK
  <2>3. q.pc = polls[m].pc /\ q.task = polls[m].task
    BY <2>1 DEF Poll
  <2>4. GoesOn(m, q)
    BY <1>2, <1>6, <2>2, <2>3 DEF GoesOn, PollAnswered
  <2>. QED BY <1>4, <2>4
<1>7. ASSUME NEW ending \in Endings, PollRetries(m, ending) PROVE DetailInv' /\ Accounted
  <2>1. PICK q : q = [polls[m] EXCEPT !.stage = "backoff", !.left = 0, !.data = "none"]
    OBVIOUS
  <2>2. polls' = [polls EXCEPT ![m] = q]
    BY <1>7, <2>1 DEF PollRetries, DetailTypeOK
  <2>3. q.pc = polls[m].pc /\ q.task = polls[m].task
    BY <2>1 DEF Poll
  <2>4. GoesOn(m, q)
    BY <1>2, <1>7, <2>2, <2>3 DEF GoesOn, PollRetries
  <2>. QED BY <1>4, <2>4
<1>8. CASE BackoffEnds(m)
  <2>1. PICK q : q = [polls[m] EXCEPT !.stage = "sent"]
    OBVIOUS
  <2>2. polls' = [polls EXCEPT ![m] = q]
    BY <1>8, <2>1 DEF BackoffEnds, DetailTypeOK
  <2>3. q.pc = polls[m].pc /\ q.task = polls[m].task
    BY <2>1 DEF Poll
  <2>4. GoesOn(m, q)
    BY <1>2, <1>3, <1>8, <2>2, <2>3 DEF GoesOn, BackoffEnds
  <2>. QED BY <1>4, <2>4
<1>9. CASE TaskReceived(m)
  <2>1. polls[m].pc # "off" /\ m = mount
    BY <1>1, <1>9 DEF TaskReceived
  <2>2. CASE IsTerminal(polls[m].data)
    <3>1. PICK q : q = Asks(polls[m], "timeline")
      OBVIOUS
    <3>2. polls' = [polls EXCEPT ![m] = q] /\ shown' = polls[m].data /\ polling' = polling
      BY <1>9, <2>1, <2>2, <3>1 DEF TaskReceived, DetailTypeOK
    <3>3. q.pc = "timeline" /\ q.task = polls[m].task
      BY <3>1 DEF Asks, Poll
    <3>4. GoesOn(m, q)
      BY <2>1, <2>2, <3>2, <3>3 DEF GoesOn
    <3>. QED BY <1>4, <3>4
  <2>3. CASE ~IsTerminal(polls[m].data) /\ TimesOut(m)
    BY <1>5, <1>9, <2>1, <2>3 DEF TaskReceived
  <2>4. CASE ~IsTerminal(polls[m].data) /\ ~TimesOut(m)
    <3>1. PICK q : q = [polls[m] EXCEPT !.pc = "pause", !.stage = "sent", !.data = "none"]
      OBVIOUS
    <3>2. polls' = [polls EXCEPT ![m] = q] /\ polling' = polling
      BY <1>9, <2>1, <2>4, <3>1 DEF TaskReceived, DetailTypeOK
    <3>3. q.pc = "pause" /\ q.task = polls[m].task
      BY <3>1 DEF Poll
    <3>4. GoesOn(m, q)
      BY <2>1, <3>2, <3>3 DEF GoesOn
    <3>. QED BY <1>4, <3>4
  <2>. QED BY <2>2, <2>3, <2>4
<1>10. ASSUME NEW ending \in Endings, TaskFails(m, ending) PROVE DetailInv' /\ Accounted
  BY <1>1, <1>5, <1>10 DEF TaskFails, FailsOpenly
<1>11. ASSUME NEW ending \in Endings, TimelineEnds(m, ending) PROVE DetailInv' /\ Accounted
  BY <1>1, <1>2, <1>5, <1>11 DEF TimelineEnds
<1>12. CASE PauseEnds(m)
  <2>1. PICK q : q = Asks(polls[m], "task")
    OBVIOUS
  <2>2. polls' = [polls EXCEPT ![m] = q]
    BY <1>12, <2>1 DEF PauseEnds, DetailTypeOK
  <2>3. q.pc = "task" /\ q.task = polls[m].task
    BY <2>1 DEF Asks, Poll
  <2>4. GoesOn(m, q)
    BY <1>12, <2>2, <2>3 DEF GoesOn, PauseEnds
  <2>. QED BY <1>4, <2>4
<1>13. CASE DeadlinePasses(m)
  <2>1. PICK q : q = [polls[m] EXCEPT !.late = TRUE]
    OBVIOUS
  <2>2. polls' = [polls EXCEPT ![m] = q]
    BY <1>13, <2>1 DEF DeadlinePasses, DetailTypeOK
  <2>3. q.pc = polls[m].pc /\ q.task = polls[m].task
    BY <2>1 DEF Poll
  <2>4. GoesOn(m, q)
    BY <1>2, <1>13, <2>2, <2>3 DEF GoesOn, DeadlinePasses
  <2>. QED BY <1>4, <2>4
<1>. QED
  BY <1>6, <1>7, <1>8, <1>9, <1>10, <1>11, <1>12, <1>13 DEF PollAny

\* The cancel button ends the only poll there is.
LEMMA CancelInv ==
  ASSUME DetailTypeOK, DetailInv, CancelPolling, UNCHANGED <<mount, route>>
  PROVE  DetailInv'
<1>1. mount \in Mounts
  BY DEF CancelPolling, DetailInv, OneLivePoll
<1>. QED BY <1>1, PollStops DEF CancelPolling
-----------------------------------------------------------------------------
(* The whole *)

WebAppInv ==
  /\ TypeOK
  /\ mount = 0 => route.page = "unknown"
  /\ DetailInv /\ ListInv

LEMMA InitInv == Init => WebAppInv
<1>. SUFFICES ASSUME Init PROVE WebAppInv
  OBVIOUS
<1>1. TypeOK
  BY InitType
<1>2. route.page = "unknown" /\ mount = 0
  BY DEF Init, BrowserInit, PageHash
<1>3. DetailInv
  <2>1. \A m \in Mounts : polls[m].pc = "off" /\ polls[m].stage = "sent"
    BY DEF Init, DetailInit, Off
  <2>. QED BY <2>1 DEF Init, DetailInit, DetailInv, OneLivePoll
<1>4. ListInv
  <2>1. ~HasActive /\ timers = {} /\ ~loading
    BY NoLoadType DEF Init, ListInit, HasActive, ActiveRows
  <2>2. \A l \in LoadIds : loads[l].stage = "free"
    BY DEF Init, ListInit, NoLoad
  <2>. QED BY <1>1, <2>1, <2>2 DEF TypeOK, ListInv, TimerIffActive, SpinnerIsHonest
<1>. QED BY <1>1, <1>2, <1>3, <1>4 DEF WebAppInv

\* A page is mounted: the router's part and both pages'.
LEMMA DispatchInv ==
  ASSUME WebAppInv, NEW e \in Nat, Dispatched(e), Remounts => mount < MaxMounts,
         DetailDispatched, ListDispatched, UNCHANGED <<serverVars, clicks>>,
         online' \in BOOLEAN, isOnline' \in BOOLEAN, banner' \in BOOLEAN,
         troubles' \in 0..MaxTroubles
  PROVE  WebAppInv'
<1>. USE DEF WebAppInv
<1>1. BrowserTypeOK /\ DetailTypeOK
  BY DEF TypeOK
<1>2. DetailInv' /\ ListInv' /\ DetailTypeOK'
  BY <1>1, DetailDispatchedInv, ListDispatchedInv, DetailDispatchedType
<1>3. /\ hash' \in Hash /\ route' \in Hash /\ events' \in Nat /\ mount' \in 0..MaxMounts
      /\ {hash, route}' \subseteq Hashes \cup {PageHash("home"), PageHash("unknown")}
  BY DispatchedType
<1>4. TypeOK'
  BY <1>2, <1>3 DEF TypeOK, BrowserTypeOK, ListInv, serverVars
<1>5. mount' = 0 => route'.page = "unknown"
  <2>1. CASE Remounts
    BY <1>1, <2>1 DEF Dispatched, BrowserTypeOK
  <2>2. CASE ~Remounts
    BY <2>2 DEF Dispatched
  <2>. QED BY <2>1, <2>2
<1>. QED BY <1>2, <1>4, <1>5

\* Steps that leave a page alone.
LEMMA DetailStays ==
  ASSUME DetailTypeOK, DetailInv, UNCHANGED <<detailVars, mount, route>>
  PROVE  DetailTypeOK' /\ DetailInv' /\ Accounted
  BY DEF detailVars, DetailTypeOK, DetailInv, OneLivePoll, Accounted

LEMMA ListStays ==
  ASSUME ListInv, UNCHANGED <<listVars, mount>>
  PROVE  ListInv'
  BY DEF listVars, ListInv, ListTypeOK, TimerIffActive, HasActive, SpinnerIsHonest

\* Only a dispatch changes the page that is mounted.
LEMMA NextInv ==
  ASSUME WebAppInv, [Next]_vars
  PROVE  WebAppInv' /\ (mount' = mount => Accounted \/ CancelPolling)
<1>. USE DEF WebAppInv
<1>. BrowserTypeOK /\ DetailTypeOK /\ DetailInv /\ ListInv
  BY DEF TypeOK
<1>1. ASSUME UNCHANGED <<mount, route, serverVars, clicks>>, BrowserTypeOK',
             {hash, route}' \subseteq Hashes \cup {PageHash("home"), PageHash("unknown")},
             DetailTypeOK', DetailInv', ListInv'
      PROVE  WebAppInv'
  BY <1>1 DEF TypeOK, ListInv, serverVars
<1>2. ASSUME UNCHANGED routerVars, online' \in BOOLEAN, isOnline' \in BOOLEAN,
             banner' \in BOOLEAN, troubles' \in 0..MaxTroubles
      PROVE  /\ BrowserTypeOK'
             /\ {hash, route}' \subseteq Hashes \cup {PageHash("home"), PageHash("unknown")}
  BY <1>2 DEF TypeOK, BrowserTypeOK, routerVars
<1>3. ASSUME UNCHANGED monitorVars
      PROVE  /\ online' \in BOOLEAN /\ isOnline' \in BOOLEAN
             /\ banner' \in BOOLEAN /\ troubles' \in 0..MaxTroubles
  BY <1>3 DEF BrowserTypeOK, monitorVars
<1>4. UNCHANGED routerVars => UNCHANGED <<mount, route>>
  BY DEF routerVars
<1>5. ASSUME NEW t \in Tasks, NEW s \in Statuses, ServerMoves(t, s)
      PROVE  WebAppInv' /\ Accounted
  <2>1. server' \in [Tasks -> Statuses] /\ moves' \in 0..MaxMoves
    BY <1>5, WebAppAssumption DEF ServerMoves, TypeOK
  <2>2. UNCHANGED <<monitorVars, routerVars, detailVars, listVars, clicks, mount, route>>
    BY <1>4, <1>5 DEF ServerMoves
  <2>3. DetailTypeOK' /\ DetailInv' /\ Accounted /\ ListInv'
    BY <2>2, DetailStays, ListStays
  <2>4. BrowserTypeOK'
        /\ {hash, route}' \subseteq Hashes \cup {PageHash("home"), PageHash("unknown")}
    BY <1>2, <1>3, <2>2
  <2>. QED BY <2>1, <2>2, <2>3, <2>4 DEF TypeOK, ListInv
<1>6. ASSUME NEW h \in Hashes, Navigate(h) PROVE WebAppInv' /\ Accounted
  <2>1. /\ hash' = h /\ events' \in Nat
        /\ UNCHANGED <<monitorVars, mount, route, serverVars, detailVars, listVars, clicks>>
    BY <1>6 DEF Navigate, SetHash, BrowserTypeOK
  <2>2. DetailTypeOK' /\ DetailInv' /\ Accounted /\ ListInv'
    BY <2>1, DetailStays, ListStays
  <2>3. BrowserTypeOK'
        /\ {hash, route}' \subseteq Hashes \cup {PageHash("home"), PageHash("unknown")}
    BY <1>3, <2>1, BrowserAssumption DEF TypeOK, BrowserTypeOK
  <2>. QED BY <1>1, <2>1, <2>2, <2>3
<1>7. CASE Dispatch
  <2>1. events - 1 \in Nat
    BY <1>7 DEF Dispatch, HashChanged, BrowserTypeOK
  <2>2. WebAppInv'
    BY <1>3, <1>7, <2>1, DispatchInv DEF Dispatch, HashChanged
  <2>3. mount' = mount => UNCHANGED detailVars
    BY <1>7 DEF Dispatch, HashChanged, Dispatched, DetailDispatched, BrowserTypeOK
  <2>. QED BY <2>2, <2>3 DEF Accounted, detailVars
<1>8. CASE Connection
  <2>1. CASE GoesOffline /\ UNCHANGED <<detailVars, listVars>>
    <3>1. /\ online' \in BOOLEAN /\ isOnline' \in BOOLEAN /\ banner' \in BOOLEAN
          /\ troubles' \in 0..MaxTroubles
      <4>1. troubles' \in 0..MaxTroubles
        BY <2>1, BrowserAssumption DEF GoesOffline, BrowserTypeOK
      <4>. QED BY <2>1, <4>1 DEF GoesOffline, BrowserTypeOK
    <3>2. UNCHANGED <<routerVars, mount, route, serverVars, clicks, detailVars, listVars>>
      BY <1>4, <1>8, <2>1 DEF GoesOffline, Connection
    <3>3. DetailTypeOK' /\ DetailInv' /\ Accounted /\ ListInv'
      BY <3>2, DetailStays, ListStays
    <3>. QED BY <1>1, <1>2, <3>1, <3>2, <3>3
  <2>2. CASE GoesOnline /\ DetailDispatched /\ ListDispatched
    <3>1. /\ online' \in BOOLEAN /\ isOnline' \in BOOLEAN /\ banner' \in BOOLEAN
          /\ troubles' \in 0..MaxTroubles /\ events \in Nat /\ Dispatched(events)
          /\ UNCHANGED <<serverVars, clicks>> /\ mount < MaxMounts
      <4>1. events \in Nat /\ mount < MaxMounts
        BY <2>2, BrowserAssumption DEF GoesOnline, MayNavigate, BrowserTypeOK
      <4>. QED BY <1>8, <2>2, <4>1 DEF GoesOnline, Connection, BrowserTypeOK
    <3>2. WebAppInv'
      BY <2>2, <3>1, DispatchInv
    <3>3. mount' = mount => UNCHANGED detailVars
      BY <2>2, <3>1 DEF Dispatched, DetailDispatched, BrowserTypeOK
    <3>. QED BY <3>2, <3>3 DEF Accounted, detailVars
  <2>. QED BY <1>8, <2>1, <2>2 DEF Connection
<1>9. ASSUME NEW m \in Mounts, Polling(m) \/ TimeLimit(m) \/ Cancel
      PROVE  WebAppInv' /\ (Accounted \/ CancelPolling)
  <2>1. /\ PollAny(m) \/ DeadlinePasses(m) \/ CancelPolling
        /\ UNCHANGED <<routerVars, mount, route, serverVars, listVars, clicks>>
    BY <1>4, <1>9 DEF Polling, TimeLimit, Cancel
  <2>2. DetailTypeOK' /\ ListInv'
    BY <2>1, PollType, ListStays
  <2>3. DetailInv' /\ (Accounted \/ CancelPolling)
    BY <2>1, PollInv, CancelInv
  <2>4. /\ online' \in BOOLEAN /\ isOnline' \in BOOLEAN
        /\ banner' \in BOOLEAN /\ troubles' \in 0..MaxTroubles
    <3>1. UNCHANGED monitorVars \/ \E ending \in Endings : Ends(ending)
      <4>1. CASE \E ending \in Endings :
                   PollRetries(m, ending) \/ TaskFails(m, ending) \/ TimelineEnds(m, ending)
        BY <4>1 DEF PollRetries, TaskFails, TimelineEnds
      <4>2. CASE TaskReceived(m)
        BY <4>2 DEF TaskReceived, Endings
      <4>3. CASE \/ PollAnswered(m) \/ BackoffEnds(m) \/ PauseEnds(m)
                 \/ DeadlinePasses(m) \/ CancelPolling
        BY <4>3 DEF PollAnswered, BackoffEnds, PauseEnds, DeadlinePasses, CancelPolling
      <4>. QED BY <2>1, <4>1, <4>2, <4>3 DEF PollAny
    <3>. QED BY <1>3, <3>1, MonitorType
  <2>. QED BY <1>1, <1>2, <2>1, <2>2, <2>3, <2>4
<1>10. ASSUME NEW l \in LoadIds, Listing(l) PROVE WebAppInv' /\ Accounted
  <2>1. /\ LoadAny(l)
        /\ UNCHANGED <<routerVars, mount, route, serverVars, detailVars, clicks>>
    BY <1>4, <1>10 DEF Listing
  <2>2. DetailTypeOK' /\ DetailInv' /\ Accounted /\ ListInv'
    BY <2>1, DetailStays, LoadAnyInv
  <2>3. /\ online' \in BOOLEAN /\ isOnline' \in BOOLEAN
        /\ banner' \in BOOLEAN /\ troubles' \in 0..MaxTroubles
    <3>1. UNCHANGED monitorVars \/ \E ending \in Endings : Ends(ending)
      BY <2>1 DEF LoadAny, LoadAnswered, LoadBackoffEnds, LoadRetries, LoadEnds
    <3>. QED BY <1>3, <3>1, MonitorType
  <2>. QED BY <1>1, <1>2, <2>1, <2>2, <2>3
<1>11. ASSUME NEW m \in Mounts, Interval(m) PROVE WebAppInv' /\ Accounted
  <2>1. /\ Tick(m)
        /\ UNCHANGED <<monitorVars, routerVars, mount, route, serverVars, detailVars, clicks>>
    BY <1>4, <1>11 DEF Interval, Tick
  <2>2. DetailTypeOK' /\ DetailInv' /\ Accounted /\ ListInv'
    BY <2>1, DetailStays, PageInv
  <2>. QED BY <1>1, <1>2, <1>3, <2>1, <2>2
<1>12. CASE Click
  <2>1. /\ Refresh \/ NextPage \/ PreviousPage \/ \E f \in Filters : ChangeFilter(f)
        /\ UNCHANGED <<monitorVars, routerVars, mount, route, serverVars, detailVars>>
        /\ clicks' \in 0..MaxClicks
    BY <1>4, <1>12, WebAppAssumption
    DEF Click, Refresh, NextPage, PreviousPage, TurnsTo, ChangeFilter, TypeOK
  <2>2. DetailTypeOK' /\ DetailInv' /\ Accounted /\ ListInv'
    BY <2>1, DetailStays, PageInv
  <2>3. BrowserTypeOK'
        /\ {hash, route}' \subseteq Hashes \cup {PageHash("home"), PageHash("unknown")}
    BY <1>2, <1>3, <2>1
  <2>. QED BY <2>1, <2>2, <2>3 DEF TypeOK, ListInv, serverVars
<1>13. CASE UNCHANGED vars
  <2>1. UNCHANGED <<monitorVars, routerVars, mount, route, serverVars, detailVars, listVars, clicks>>
    BY <1>4, <1>13 DEF vars
  <2>2. DetailTypeOK' /\ DetailInv' /\ Accounted /\ ListInv'
    BY <2>1, DetailStays, ListStays
  <2>. QED BY <1>1, <1>2, <1>3, <2>1, <2>2
<1>14. ASSUME Cancel PROVE WebAppInv' /\ (Accounted \/ CancelPolling)
  <2>1. PICK m \in Mounts : m = mount
    BY <1>14 DEF Cancel, CancelPolling, DetailInv, OneLivePoll
  <2>. QED BY <1>9, <1>14, <2>1
<1>. QED
  BY <1>5, <1>6, <1>7, <1>8, <1>9, <1>10, <1>11, <1>12, <1>13, <1>14 DEF Next

LEMMA WebAppInvariant == Spec => []WebAppInv
<1>1. Init => WebAppInv
  BY InitInv
<1>2. WebAppInv /\ [Next]_vars => WebAppInv'
  BY NextInv
<1>. QED BY <1>1, <1>2, PTL DEF Spec

\* The type invariant of the browsing composition: the router, the monitor, every
\* poll and every load stay within their records.
THEOREM WebTypeCorrect == Spec => []TypeOK
<1>1. WebAppInv => TypeOK
  BY DEF WebAppInv
<1>. QED BY <1>1, WebAppInvariant, PTL

\* At most one poll is alive, and it is the mounted page's: navigation, the online
\* event and the cancel button never leave one behind (onUnmounted and the abort
\* signal of TaskDetailPage.js).
THEOREM OnePoll == Spec => []OneLivePoll
<1>1. WebAppInv => OneLivePoll
  BY DEF WebAppInv, DetailInv
<1>. QED BY <1>1, WebAppInvariant, PTL

\* The interval of the list is set exactly while the list that is mounted shows an
\* active row (the watcher of hasActive and onUnmounted in TaskListPage.js).
THEOREM TimerMatchesRows == Spec => []TimerIffActive
<1>1. WebAppInv => TimerIffActive
  BY DEF WebAppInv, ListInv
<1>. QED BY <1>1, WebAppInvariant, PTL

\* A refresh button that is busy has a load of its own page in flight (the finally
\* block of load() in TaskListPage.js), whatever loads overlap.
THEOREM HonestSpinner == Spec => []SpinnerIsHonest
<1>1. WebAppInv => SpinnerIsHonest
  BY DEF WebAppInv, ListInv
<1>. QED BY <1>1, WebAppInvariant, PTL

\* A task page that stops polling shows an error or a settled task, or was told to
\* stop (the branches of pollTaskUntilDone in api.js).
THEOREM StopsAccounted == Spec => StopsForAReason
<1>1. WebAppInv /\ [Next]_vars =>
        [mount' = mount /\ polling /\ ~polling' =>
           error' \/ IsTerminal(shown') \/ CancelPolling]_vars
  BY NextInv DEF Accounted
<1>. QED BY <1>1, WebAppInvariant, PTL DEF Spec, StopsForAReason
=============================================================================
