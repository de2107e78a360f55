CONSTANTS
  WORKFLOW_STEPS <- ShortWorkflow
  Workers = {w1}
  Apis = {a1}
  MAX_RETRY = 3
  RETRY_DELAYS <- DefaultDelays
  StartSteps <- EitherStart
  MaxFaults <- PublishFaults
  NoDelivery = NoDelivery
  NoRow = NoRow
SPECIFICATION FairSpec
INVARIANTS RetryBudget
PROPERTIES Settles ImplementsLifecycle
\* a settled task leaves nothing to do
CHECK_DEADLOCK FALSE
