-------------------------------- MODULE WebApp --------------------------------
(***************************************************************************)
(* The pages that follow the server's tasks, composed with the router, the *)
(* network monitor and a server whose tasks move through the transition    *)
(* table.  Pages without state of their own (home, gallery, form) are left *)
(* to SubmitPage: here they only take the place of another page.           *)
(***************************************************************************)
EXTENDS TaskListPage

CONSTANTS
  MaxMoves,       \* bound: status changes on the server
  MaxClicks       \* bound: clicks on the list

ASSUME WebAppAssumption == MaxMoves \in Nat /\ MaxClicks \in Nat

VARIABLES moves, clicks

serverVars == <<server, moves>>
vars == <<monitorVars, routerVars, serverVars, detailVars, listVars, clicks>>

Init ==
  /\ BrowserInit /\ DetailInit /\ ListInit
  /\ server \in [Tasks -> Statuses] /\ moves = 0 /\ clicks = 0

ServerMoves(t, s) ==
  /\ moves < MaxMoves /\ Tables!CanTransitionTask(server[t], s)
  /\ server' = [server EXCEPT ![t] = s] /\ moves' = moves + 1
  /\ UNCHANGED <<monitorVars, routerVars, detailVars, listVars, clicks>>

Navigate(h) ==
  /\ h # hash /\ MayNavigate /\ SetHash(h)
  /\ UNCHANGED <<monitorVars, serverVars, detailVars, listVars, clicks>>

Dispatch ==
  /\ HashChanged /\ DetailDispatched /\ ListDispatched
  /\ UNCHANGED <<serverVars, clicks>>

Connection ==
  /\ \/ GoesOffline /\ UNCHANGED <<detailVars, listVars>>
     \/ GoesOnline /\ DetailDispatched /\ ListDispatched
  /\ UNCHANGED <<serverVars, clicks>>

Polling(m) == PollAny(m) /\ UNCHANGED <<routerVars, serverVars, listVars, clicks>>
TimeLimit(m) ==
  DeadlinePasses(m) /\ UNCHANGED <<routerVars, serverVars, listVars, clicks>>
Cancel == CancelPolling /\ UNCHANGED <<routerVars, serverVars, listVars, clicks>>

Listing(l) == LoadAny(l) /\ UNCHANGED <<routerVars, serverVars, detailVars, clicks>>
Interval(m) == Tick(m) /\ UNCHANGED <<routerVars, serverVars, detailVars, clicks>>

Click ==
  /\ clicks < MaxClicks /\ clicks' = clicks + 1
  /\ \/ Refresh \/ NextPage \/ PreviousPage
     \/ \E f \in Filters : ChangeFilter(f)
  /\ UNCHANGED <<routerVars, serverVars, detailVars>>

Next ==
  \/ \E t \in Tasks, s \in Statuses : ServerMoves(t, s)
  \/ \E h \in Hashes : Navigate(h)
  \/ Dispatch \/ Connection \/ Cancel \/ Click
  \/ \E m \in Mounts : Polling(m) \/ TimeLimit(m) \/ Interval(m)
  \/ \E l \in LoadIds : Listing(l)

Spec == Init /\ [][Next]_vars

\* Every fetch ends and every timer fires.  No fairness on the user, on the
\* server's tasks, and none on the network.
Fairness ==
  /\ WF_vars(Dispatch)
  /\ WF_vars(\E m \in Mounts : Polling(m))
  /\ WF_vars(\E m \in Mounts : TimeLimit(m))
  /\ WF_vars(\E m \in Mounts : Interval(m))
  /\ \A l \in LoadIds : WF_vars(Listing(l))

FairSpec == Spec /\ Fairness
-----------------------------------------------------------------------------
(* Properties *)

TypeOK ==
  /\ BrowserTypeOK /\ DetailTypeOK /\ ListTypeOK
  /\ {hash, route} \subseteq Hashes \cup {PageHash("home"), PageHash("unknown")}
  /\ server \in [Tasks -> Statuses] /\ moves \in 0..MaxMoves /\ clicks \in 0..MaxClicks

\* A poll that is alive belongs to the page that is mounted and asks for the task
\* of its route, however fast the user moves between tasks, goes back, or loses
\* and regains the connection: no abandoned page keeps polling, and the cancel
\* button is there exactly as long as there is a poll to cancel (the onUnmounted
\* hook, the abort signal and the finally block in TaskDetailPage.js).
OneLivePoll ==
  /\ \A m \in Mounts : polls[m].pc # "off" =>
       m = mount /\ route = TaskHash(polls[m].task)
  /\ polling <=> \E m \in Mounts : polls[m].pc # "off"

\* A task page stops refreshing only with an error on the screen, with a settled
\* task on the screen, or because the user asked for it: it never freezes on a
\* task that is still running (the branches of pollTaskUntilDone).
StopsForAReason ==
  [][mount' = mount /\ polling /\ ~polling' =>
       error' \/ IsTerminal(shown') \/ CancelPolling]_vars

\* A task page always comes to rest, even if its task never settles: the deadline
\* of five minutes, checked only between two answers, is enough.
PollsEnd == []<>(\A m \in Mounts : polls[m].pc = "off")

\* The interval of the list is set exactly while the mounted list shows an active
\* row, whatever loads overlap, fail or arrive for a page that is gone: "only
\* while there are unfinished tasks" of the design document, and no leaked timer.
TimerIffActive == timers = IF HasActive THEN {mount} ELSE {}

\* Overlapping loads share one loading flag; still the refresh button is never
\* busy with no load of this page in flight.
SpinnerIsHonest ==
  loading => \E l \in LoadIds : loads[l].stage # "free" /\ loads[l].mount = mount

\* An active row the server has settled does not stay on the screen once the
\* connection is there for good: the interval replaces it, though an older answer
\* may overtake a newer one.
StaleRow == \E t \in DOMAIN rows : ~IsTerminal(rows[t]) /\ IsTerminal(server[t])
ListCatchesUp == <>[]online => []<>~StaleRow
-----------------------------------------------------------------------------
(* What the banner says and the page does not do *)

\* The banner promises that refreshing goes on after the network is back: while it
\* is displayed on a task page, the page is still polling or waits for the
\* browser's online event, which mounts it again.
PromisedRefresh ==
  banner /\ route.page = "task" /\ error => ~online
=============================================================================
