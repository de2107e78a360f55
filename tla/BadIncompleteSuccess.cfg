CONSTANTS
  WORKFLOW_STEPS <- FourStepWorkflow
  Workers = {w1, w2}
  Apis = {a1}
  MAX_RETRY = 3
  RETRY_DELAYS <- DefaultDelays
  StartSteps <- ScriptOnly
  MaxFaults <- NoFaults
  NoDelivery = NoDelivery
  NoRow = NoRow
SYMMETRY Symmetry
SPECIFICATION Spec
INVARIANTS SuccessIsComplete
\* a settled task leaves nothing to do
CHECK_DEADLOCK FALSE
