---------------------------- MODULE TaskLifecycle ----------------------------
(***************************************************************************)
(* What a client of the API is promised about a task, without steps,       *)
(* messages or slots: it is open, starts over as often as the evaluation   *)
(* asks for it, and closes as a success, for review or as a dead letter.   *)
(* Only a dead letter is opened again, on request, and a success consists  *)
(* of results of the last start.                                           *)
(***************************************************************************)
EXTENDS Naturals

VARIABLES
  phase,       \* "open" or how the task has closed
  version,     \* how often the task was started
  parts        \* the versions the results of a success belong to

vars == <<phase, version, parts>>

Init == phase = "open" /\ version = 1 /\ parts = {}

StartOver ==
  /\ phase = "open"
  /\ version' = version + 1
  /\ UNCHANGED <<phase, parts>>

Succeed ==
  /\ phase = "open"
  /\ phase' = "success"
  /\ parts' = {version}
  /\ UNCHANGED version

GiveUp ==
  /\ phase = "open"
  /\ phase' \in {"manual_review", "dead_letter"}
  /\ UNCHANGED <<version, parts>>

Resume ==
  /\ phase = "dead_letter"
  /\ phase' = "open"
  /\ version' = version + 1
  /\ UNCHANGED parts

Next == StartOver \/ Succeed \/ GiveUp \/ Resume

\* an open task closes
Closes == phase = "open" ~> phase # "open"

Spec == Init /\ [][Next]_vars /\ Closes
=============================================================================
