---------------------------- MODULE StateMachine ----------------------------
(***************************************************************************)
(* app/core/state_machine.py: the task-level and step-level transition     *)
(* tables, and the linear workflow.  Pure operators, no state.             *)
(***************************************************************************)
EXTENDS Naturals, Sequences

CONSTANT WORKFLOW_STEPS   \* the ordered step names; a shorter chain in model checking

Workflow == {WORKFLOW_STEPS[i] : i \in DOMAIN WORKFLOW_STEPS}

\* The orchestrator names three steps literally: the chain ends with the
\* evaluation, an evaluation retry restarts at the script, and "repair" is a
\* step outside the chain.
ASSUME WorkflowAssumption ==
  /\ WORKFLOW_STEPS \in Seq(STRING)
  /\ \A i, j \in DOMAIN WORKFLOW_STEPS :
        WORKFLOW_STEPS[i] = WORKFLOW_STEPS[j] => i = j
  /\ Len(WORKFLOW_STEPS) > 1
  /\ WORKFLOW_STEPS[Len(WORKFLOW_STEPS)] = "quality_evaluation"
  /\ "script_generation" \in Workflow
  /\ "repair" \notin Workflow
  /\ "none" \notin Workflow

TaskStatus == {"created", "queued", "running", "evaluating", "retrying",
               "success", "failed", "dead_letter", "manual_review"}

StepStatus == {"pending", "running", "success", "failed", "retrying", "skipped"}

TASK_TRANSITIONS ==
  [created       |-> {"queued", "running", "failed"},
   queued        |-> {"running", "failed", "dead_letter"},
   running       |-> {"evaluating", "success", "failed", "retrying",
                      "dead_letter", "queued"},
   evaluating    |-> {"success", "retrying", "failed", "manual_review",
                      "dead_letter", "queued"},
   retrying      |-> {"queued", "running", "dead_letter", "failed",
                      "manual_review"},
   manual_review |-> {"queued", "success", "failed", "dead_letter"},
   success       |-> {},
   failed        |-> {"retrying", "dead_letter", "manual_review"},
   dead_letter   |-> {"queued", "manual_review", "success"}]

STEP_TRANSITIONS ==
  [pending  |-> {"running", "skipped"},
   running  |-> {"success", "failed", "retrying"},
   success  |-> {},
   failed   |-> {"retrying", "skipped"},
   retrying |-> {"running", "skipped"},
   skipped  |-> {}]

CanTransitionTask(from, to) == to \in TASK_TRANSITIONS[from]
CanTransitionStep(from, to) == to \in STEP_TRANSITIONS[from]

Position(s) == CHOOSE i \in DOMAIN WORKFLOW_STEPS : WORKFLOW_STEPS[i] = s

\* WORKFLOW_STEPS[:-1]: every step but the evaluation
Producing == Workflow \ {"quality_evaluation"}

\* WORKFLOW_STEPS[idx(s):]
\* mutant: the first step of the range is left out
StepsAfter(s) == {t \in Workflow : Position(t) > Position(s)}
StepsFrom(s) == {t \in Workflow : Position(t) >= Position(s)}

\* next_step_or_done, for the steps that have a successor
\* mutant: no step at all
NextStepNone(s) == "none"
NextStep(s) == WORKFLOW_STEPS[Position(s) + 1]
=============================================================================
