CONSTANTS
  WORKFLOW_STEPS <- TwoStepWorkflow
  Workers = {w1, w2}
  Apis = {a1}
  MAX_RETRY = 2
  RETRY_DELAYS <- DefaultDelays
  StartSteps <- ScriptOnly
  MaxFaults <- OneRepeatedRun
  NoDelivery = NoDelivery
  NoRow = NoRow
SPECIFICATION Spec
INVARIANTS ExclusiveExecution
PROPERTIES StepsChangeUnderLease LiveLeaseKept OnlyStaleWorkSpoils
VIEW WithoutHistory
\* a settled task leaves nothing to do
CHECK_DEADLOCK FALSE
