CONSTANTS
  Hashes <- OneTaskAndTheList
  Tasks = {1, 2}
  Statuses = {"retrying", "manual_review"}
  Filters = {""}
  PageSize = 1
  LoadIds = {1, 2}
  MaxMounts = 2
  MaxTroubles = 2
  MaxMoves = 1
  MaxClicks = 0
SPECIFICATION Spec
INVARIANTS PromisedRefresh
CHECK_DEADLOCK FALSE
