--------------------------- MODULE MCOrchestrator ---------------------------
(***************************************************************************)
(* Small instances of Orchestrator: chains of two to four of the eight     *)
(* steps, and small budgets of faults.                                     *)
(***************************************************************************)
EXTENDS Orchestrator, TLC

ShortWorkflow == <<"product_analysis", "script_generation", "quality_evaluation">>
FourStepWorkflow ==
  <<"product_analysis", "script_generation", "storyboard_planning", "quality_evaluation">>
TwoStepWorkflow == <<"script_generation", "quality_evaluation">>
DefaultDelays == <<0, 5, 15>>

EitherStart == {"product_analysis", "script_generation"}
ScriptOnly == {"script_generation"}

\* one fault of each of these kinds
OneOf(kinds) == [k \in FaultKinds |-> IF k \in kinds THEN 1 ELSE 0]

NoFaults == {OneOf({})}
OneCrash == {OneOf({"crash"})}
OneDuplicate == {OneOf({"duplicate"})}
OneRepeatedRun == OneCrash \cup OneDuplicate \cup {OneOf({"expiry"})}
TwoOf(kind) == [OneOf({}) EXCEPT ![kind] = 2]
CallFaults ==
  {OneOf({"call", kind}) : kind \in {"crash", "duplicate", "resume"}} \cup {TwoOf("call")}
PublishFaults == {OneOf({"publish", "api_crash", "resume"})}

Symmetry == Permutations(Workers)

\* No guard reads what is left out here: dead letters and the history variables
\* but the generation.  Sound for properties that do not read it either.
WithoutHistory ==
  <<status, retries, taskOut, stepVars, outboxVars, queue, delayed, lock,
    workerVars, apiVars, gen, faults>>
=============================================================================
