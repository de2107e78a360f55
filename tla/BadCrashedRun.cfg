CONSTANTS
  WORKFLOW_STEPS <- TwoStepWorkflow
  Workers = {w1}
  Apis = {a1}
  MAX_RETRY = 1
  RETRY_DELAYS <- DefaultDelays
  StartSteps <- ScriptOnly
  MaxFaults <- OneCrash
  NoDelivery = NoDelivery
  NoRow = NoRow
SPECIFICATION FairSpec
PROPERTIES AbandonedStepsRerun
\* a settled task leaves nothing to do
CHECK_DEADLOCK FALSE
