CONSTANTS
  Events = {1}
  Relays = {r1, r2}
  OUTBOX_MAX_ATTEMPTS = 3
  OUTBOX_BATCH_SIZE = 1
SPECIFICATION FairSpec
INVARIANTS TypeOK PublishedWasSent CopiesAreBounded
PROPERTIES PendingIsTried ImplementsDelivery
\* once every row is published, exhausted or out of attempts nothing is left to do
CHECK_DEADLOCK FALSE
