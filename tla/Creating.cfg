CONSTANTS
  Hashes <- FormAndGallery
  Calls = {1, 2}
  Batches = {1, 2}
  Picks = {2}
  MaxAssets = 2
  DemoAssets = 1
  MaxEdits = 2
  MaxMounts = 2
  MaxTroubles = 1
SPECIFICATION FairSpec
INVARIANTS TypeOK ConflictsResolve
PROPERTIES NoUploadLeftBehind FormComesBack ImplementsCreation
CHECK_DEADLOCK FALSE
