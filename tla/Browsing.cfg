CONSTANTS
  Hashes <- OneTaskAndTheList
  Tasks = {1, 2}
  Statuses = {"retrying", "manual_review"}
  Filters = {"", "retrying"}
  PageSize = 1
  LoadIds = {1, 2}
  MaxMounts = 2
  MaxTroubles = 1
  MaxMoves = 1
  MaxClicks = 2
SPECIFICATION FairSpec
INVARIANTS TypeOK OneLivePoll TimerIffActive SpinnerIsHonest
PROPERTIES StopsForAReason PollsEnd ListCatchesUp
CHECK_DEADLOCK FALSE
