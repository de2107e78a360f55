CONSTANTS
  WORKFLOW_STEPS <- TwoStepWorkflow
  Workers = {w1}
  Apis = {a1}
  MAX_RETRY = 2
  RETRY_DELAYS <- DefaultDelays
  StartSteps <- ScriptOnly
  MaxFaults <- CallFaults
  NoDelivery = NoDelivery
  NoRow = NoRow
SPECIFICATION Spec
INVARIANTS TypeOK GenerationsAccountedFor
PROPERTIES LegalTaskTransitions
\* a settled task leaves nothing to do
CHECK_DEADLOCK FALSE
