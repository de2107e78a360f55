CONSTANTS
  WORKFLOW_STEPS <- TwoStepWorkflow
  Workers = {w1, w2}
  Apis = {a1}
  MAX_RETRY = 2
  RETRY_DELAYS <- DefaultDelays
  StartSteps <- ScriptOnly
  MaxFaults <- NoFaults
  NoDelivery = NoDelivery
  NoRow = NoRow
SYMMETRY Symmetry
SPECIFICATION Spec
PROPERTIES SuccessIsFinal
\* a settled task leaves nothing to do
CHECK_DEADLOCK FALSE
