---------------------------- MODULE TaskDetailPage ----------------------------
(***************************************************************************)
(* The task page (app/web/pages/TaskDetailPage.js) and the poll it starts  *)
(* when it is mounted (pollTaskUntilDone in app/web/api.js).  A poll is a  *)
(* closure: it may outlive its page and then touches only the network      *)
(* monitor.                                                                *)
(***************************************************************************)
EXTENDS Browser

CONSTANTS
  Tasks,          \* task ids, in the order of their creation
  Statuses        \* the statuses the server's tasks go through

Tables == INSTANCE StateMachine
            WITH WORKFLOW_STEPS <- <<"script_generation", "quality_evaluation">>

ASSUME TasksAssumption ==
  /\ Tasks \subseteq Nat \ {0} /\ IsFiniteSet(Tasks)
  /\ Statuses \subseteq Tables!TaskStatus
  /\ \A h \in Hashes : h.page = "task" => h.task \in Tasks

VARIABLES
  server,         \* the status of every task on the server
  polls,          \* the poll of every mount
  shown,          \* task.value.status of the mounted page; "none" before
  error, polling  \* its two other refs

detailVars == <<polls, shown, error, polling>>

IsTerminal(s) == s \in {"success", "failed", "dead_letter", "manual_review"}

Poll == [pc : {"off", "task", "timeline", "pause"}, task : Nat,
         stage : {"sent", "answered", "backoff"}, left : {0, 1},
         data : Statuses \cup {"none"}, late : BOOLEAN]

Off == [pc |-> "off", task |-> 0, stage |-> "sent", left |-> 0,
        data |-> "none", late |-> FALSE]

\* mutant: two retries
AsksThrice(p, pc) == [p EXCEPT !.pc = pc, !.stage = "sent", !.left = 2, !.data = "none"]
\* the poll sends a request, with one retry
Asks(p, pc) == [p EXCEPT !.pc = pc, !.stage = "sent", !.left = 1, !.data = "none"]

DetailInit ==
  /\ polls = [m \in Mounts |-> Off]
  /\ shown = "none" /\ error = FALSE /\ polling = FALSE

\* mutant: the page that goes away does not cancel its poll
CancelsNothing(m) == FALSE
\* onUnmounted, for the poll of the page that is mounted
CancelsPoll(m) == m = mount

\* the page half of dispatch(): cancelPoll of the old page, startPolling of a new
\* task page; an aborted poll ends at once, in whatever it was waiting for
DetailDispatched ==
  IF Remounts
  THEN /\ polls' = [m \in Mounts |->
             IF m = mount + 1 /\ hash.page = "task"
               THEN Asks([Off EXCEPT !.task = hash.task], "task")
             ELSE IF CancelsPoll(m) THEN Off ELSE polls[m]]
       /\ shown' = "none" /\ error' = FALSE
       /\ polling' = (hash.page = "task")
  ELSE UNCHANGED detailVars
-----------------------------------------------------------------------------
(* pollTaskUntilDone *)

\* the refs of the page that owns poll m, if it is still mounted
SetPage(m, s, e, p) ==
  IF m = mount THEN shown' = s /\ error' = e /\ polling' = p
  ELSE UNCHANGED <<shown, error, polling>>

\* the server reads the task
PollAnswered(m) ==
  /\ polls[m].pc \in {"task", "timeline"} /\ polls[m].stage = "sent"
  /\ polls' = [polls EXCEPT ![m].stage = "answered",
                            ![m].data = IF polls[m].pc = "task"
                                          THEN server[polls[m].task] ELSE "none"]
  /\ UNCHANGED <<shown, error, polling, monitorVars>>

PollRetries(m, ending) ==
  /\ polls[m].pc \in {"task", "timeline"} /\ MayEnd(polls[m].stage, ending)
  /\ Retried(ending, polls[m].left)
  /\ Ends(ending)
  /\ polls' = [polls EXCEPT ![m].stage = "backoff", ![m].left = 0,
                            ![m].data = "none"]
  /\ UNCHANGED <<shown, error, polling>>

BackoffEnds(m) ==
  /\ polls[m].stage = "backoff"
  /\ polls' = [polls EXCEPT ![m].stage = "sent"]
  /\ UNCHANGED <<shown, error, polling, monitorVars>>

\* mutant: the deadline is never looked at
NeverTimesOut(m) == FALSE
TimesOut(m) == polls[m].late

\* a response with the task: shown first, then the poll goes on or ends
TaskReceived(m) ==
  LET s == polls[m].data IN
  /\ polls[m].pc = "task" /\ polls[m].stage = "answered"
  /\ Ends("ok")
  /\ \/ /\ IsTerminal(s)
        /\ polls' = [polls EXCEPT ![m] = Asks(@, "timeline")]
        /\ SetPage(m, s, error, polling)
     \/ /\ ~IsTerminal(s) /\ TimesOut(m)
        /\ polls' = [polls EXCEPT ![m] = Off]
        /\ SetPage(m, s, TRUE, FALSE)
     \/ /\ ~IsTerminal(s) /\ ~TimesOut(m)
        /\ polls' = [polls EXCEPT ![m].pc = "pause", ![m].stage = "sent",
                                  ![m].data = "none"]
        /\ SetPage(m, s, error, polling)

\* mutant: an error ends the poll and tells nobody
FailsSilently(m) == SetPage(m, shown, error, FALSE)
FailsOpenly(m) == SetPage(m, shown, TRUE, FALSE)

TaskFails(m, ending) ==
  /\ polls[m].pc = "task" /\ MayEnd(polls[m].stage, ending)
  /\ ending # "ok" /\ ~Retried(ending, polls[m].left)
  /\ Ends(ending)
  /\ polls' = [polls EXCEPT ![m] = Off]
  /\ FailsOpenly(m)

\* the timeline's errors are swallowed: the poll is done either way
TimelineEnds(m, ending) ==
  /\ polls[m].pc = "timeline" /\ MayEnd(polls[m].stage, ending)
  /\ ~Retried(ending, polls[m].left)
  /\ Ends(ending)
  /\ polls' = [polls EXCEPT ![m] = Off]
  /\ SetPage(m, shown, error, FALSE)

\* three seconds later
PauseEnds(m) ==
  /\ polls[m].pc = "pause"
  /\ polls' = [polls EXCEPT ![m] = Asks(@, "task")]
  /\ UNCHANGED <<shown, error, polling, monitorVars>>

\* five minutes after its start
DeadlinePasses(m) ==
  /\ polls[m].pc # "off" /\ ~polls[m].late
  /\ polls' = [polls EXCEPT ![m].late = TRUE]
  /\ UNCHANGED <<shown, error, polling, monitorVars>>
-----------------------------------------------------------------------------
(* The page *)

\* which of the template's three branches is rendered
Screen == IF error THEN "error" ELSE IF shown = "none" THEN "loading" ELSE "task"

\* the cancel button
CancelPolling ==
  /\ route.page = "task" /\ Screen = "task" /\ polling
  /\ polls' = [polls EXCEPT ![mount] = Off]
  /\ polling' = FALSE
  /\ UNCHANGED <<shown, error, monitorVars>>
-----------------------------------------------------------------------------
PollAny(m) ==
  \/ PollAnswered(m) \/ TaskReceived(m) \/ BackoffEnds(m) \/ PauseEnds(m)
  \/ \E ending \in Endings :
       PollRetries(m, ending) \/ TaskFails(m, ending) \/ TimelineEnds(m, ending)

DetailTypeOK ==
  /\ polls \in [Mounts -> Poll]
  /\ \A m \in Mounts : polls[m].pc # "off" => polls[m].task \in Tasks
  /\ shown \in Statuses \cup {"none"}
  /\ error \in BOOLEAN /\ polling \in BOOLEAN
=============================================================================
