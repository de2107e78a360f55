----------------------------- MODULE TaskListPage -----------------------------
(***************************************************************************)
(* The task list (app/web/pages/TaskListPage.js) and the query behind it   *)
(* (list_tasks in app/api/task_router.py).  Loads overlap: the interval,   *)
(* the two watchers and the refresh button all start one, and whichever    *)
(* answers last is displayed.                                              *)
(***************************************************************************)
EXTENDS TaskDetailPage

CONSTANTS
  Filters,        \* statuses a user filters by, and "" for all of them
  PageSize,       \* limit
  LoadIds         \* bound: loads in flight at once

ASSUME ListAssumption ==
  /\ Filters \subseteq Statuses \cup {""} /\ "" \in Filters
  /\ PageSize \in Nat \ {0} /\ IsFiniteSet(LoadIds)

VARIABLES
  rows,           \* tasks.value: the status displayed for each task of the page
  total, filter, offset, loading,   \* the other refs
  timers,         \* mounts whose interval is set
  loads           \* calls of load() that have not ended

listVars == <<rows, total, filter, offset, loading, timers, loads>>

\* every task of the server and the page of the window [o, o + PageSize),
\* newest first
Matching(f) == {t \in Tasks : f = "" \/ server[t] = f}
Newer(f, t) == {u \in Matching(f) : u > t}
Window(f, o) ==
  {t \in Matching(f) : Cardinality(Newer(f, t)) \in o..(o + PageSize - 1)}

Listings == UNION {[S -> Statuses] : S \in SUBSET Tasks}
NoRows == [t \in {} |-> "none"]

Load == [stage : {"free", "sent", "answered", "backoff"}, mount : Nat,
         filter : Filters, offset : Nat, left : {0, 1},
         rows : Listings, total : Nat]

NoLoad == [stage |-> "free", mount |-> 0, filter |-> "", offset |-> 0,
           left |-> 0, rows |-> NoRows, total |-> 0]

\* room for n more loads within the bound
Rooms(n) == {S \in SUBSET LoadIds :
               Cardinality(S) = n /\ \A l \in S : loads[l].stage = "free"}
MayLoad(n) == Rooms(n) # {}

\* what an unmounted page has asked for no longer matters
Orphan(l) == [NoLoad EXCEPT !.stage = loads[l].stage, !.left = loads[l].left,
                            !.mount = loads[l].mount]

\* load(), called n times by the page of mount m
Loading(n, m, f, o) ==
  LET S == CHOOSE S \in Rooms(n) : TRUE IN
  [l \in LoadIds |->
     IF l \in S THEN [NoLoad EXCEPT !.stage = "sent", !.left = 1, !.mount = m,
                                    !.filter = f, !.offset = o]
     ELSE IF loads[l].mount # m THEN Orphan(l) ELSE loads[l]]

\* mutant: a task that waits for its retry does not count as active
ActiveRowsNarrow(r) == \E t \in DOMAIN r : ~IsTerminal(r[t]) /\ r[t] # "retrying"
ActiveRows(r) == \E t \in DOMAIN r : ~IsTerminal(r[t])
HasActive == ActiveRows(rows)

ListInit ==
  /\ rows = NoRows /\ total = 0 /\ filter = "" /\ offset = 0
  /\ loading = FALSE /\ timers = {}
  /\ loads = [l \in LoadIds |-> NoLoad]

\* the list's half of dispatch(): stopPolling of the old page; a new list page loads at once
ListDispatched ==
  IF Remounts
  THEN /\ rows' = NoRows /\ total' = 0 /\ filter' = "" /\ offset' = 0
       /\ timers' = timers \ {mount}
       /\ loading' = (hash.page = "ops")
       /\ IF hash.page = "ops"
          THEN MayLoad(1) /\ loads' = Loading(1, mount + 1, "", 0)
          ELSE loads' = [l \in LoadIds |-> Orphan(l)]
  ELSE UNCHANGED listVars
-----------------------------------------------------------------------------
(* load() *)

LoadAnswered(l) ==
  LET f == loads[l].filter  o == loads[l].offset
      answer(w, n) == [loads EXCEPT ![l].stage = "answered", ![l].total = n,
                                    ![l].rows = [t \in w |-> server[t]]]
  IN
  /\ loads[l].stage = "sent"
  /\ loads' = IF loads[l].mount = mount
              THEN answer(Window(f, o), Cardinality(Matching(f)))
              ELSE answer({}, 0)
  /\ UNCHANGED <<rows, total, filter, offset, loading, timers, monitorVars>>

LoadRetries(l, ending) ==
  /\ MayEnd(loads[l].stage, ending) /\ Retried(ending, loads[l].left)
  /\ Ends(ending)
  /\ loads' = [loads EXCEPT ![l].stage = "backoff", ![l].left = 0,
                            ![l].rows = NoRows, ![l].total = 0]
  /\ UNCHANGED <<rows, total, filter, offset, loading, timers>>

LoadBackoffEnds(l) ==
  /\ loads[l].stage = "backoff"
  /\ loads' = [loads EXCEPT ![l].stage = "sent"]
  /\ UNCHANGED <<rows, total, filter, offset, loading, timers, monitorVars>>

\* mutant: the watcher only ever starts the interval
TimersStarted(r) == IF ActiveRows(r) THEN timers \cup {mount} ELSE timers
\* the watcher of hasActive, in the microtask after the rows have changed
TimersFor(r) == IF ActiveRows(r) THEN timers \cup {mount} ELSE timers \ {mount}

\* mutant: only a load that succeeds ends the spinner
LoadingUnlessOk(ending) == loading /\ ending # "ok"
LoadingAfter(ending) == FALSE

\* the rows of whichever load answers last are displayed, whatever filter and
\* offset it was asked for; the effects of an unmounted page are over
LoadEnds(l, ending) ==
  LET mine == loads[l].mount = mount IN
  /\ MayEnd(loads[l].stage, ending) /\ ~Retried(ending, loads[l].left)
  /\ Ends(ending)
  /\ loads' = [loads EXCEPT ![l] = NoLoad]
  /\ IF mine /\ ending = "ok"
     THEN /\ rows' = loads[l].rows /\ total' = loads[l].total
          /\ timers' = TimersFor(loads[l].rows)
     ELSE UNCHANGED <<rows, total, timers>>
  /\ loading' = IF mine THEN LoadingAfter(ending) ELSE loading
  /\ UNCHANGED <<filter, offset>>
-----------------------------------------------------------------------------
(* The page *)

Starts(n, f, o) ==
  /\ MayLoad(n)
  /\ loading' = TRUE
  /\ loads' = Loading(n, mount, f, o)

\* the interval; when no row is active it clears itself
Tick(m) ==
  /\ m \in timers
  /\ \/ HasActive /\ Starts(1, filter, offset) /\ UNCHANGED timers
     \/ ~HasActive /\ timers' = timers \ {m} /\ UNCHANGED <<loading, loads>>
  /\ UNCHANGED <<rows, total, filter, offset, monitorVars>>

\* the button is busy while a load is believed to be in flight
Refresh ==
  /\ route.page = "ops" /\ ~loading
  /\ Starts(1, filter, offset)
  /\ UNCHANGED <<rows, total, filter, offset, timers, monitorVars>>

\* The filter's watcher resets the offset and loads; if that changes the offset
\* its own watcher loads the same page once more.
ChangeFilter(f) ==
  /\ route.page = "ops" /\ f # filter
  /\ filter' = f /\ offset' = 0
  /\ Starts(IF offset = 0 THEN 1 ELSE 2, f, 0)
  /\ UNCHANGED <<rows, total, timers, monitorVars>>

TurnsTo(o) ==
  /\ route.page = "ops" /\ total > PageSize
  /\ offset' = o
  /\ Starts(1, filter, o)
  /\ UNCHANGED <<rows, total, filter, timers, monitorVars>>

NextPage == offset + PageSize < total /\ TurnsTo(offset + PageSize)
PreviousPage ==
  offset # 0 /\ TurnsTo(IF offset < PageSize THEN 0 ELSE offset - PageSize)
-----------------------------------------------------------------------------
LoadAny(l) ==
  \/ LoadAnswered(l) \/ LoadBackoffEnds(l)
  \/ \E ending \in Endings : LoadRetries(l, ending) \/ LoadEnds(l, ending)

ListTypeOK ==
  /\ rows \in Listings /\ total \in Nat
  /\ filter \in Filters /\ offset \in Nat /\ loading \in BOOLEAN
  /\ timers \subseteq Mounts
  /\ loads \in [LoadIds -> Load]
=============================================================================
