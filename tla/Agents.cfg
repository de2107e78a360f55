CONSTANTS
  Runs = {r1, r2, r3}
  NoRun = NoRun
SPECIFICATION FairSpec
INVARIANTS TypeOK FailuresAreClassified MetricNeverOvercounts MetricExactAlone
PROPERTIES RunsFinish
\* once every run is over nothing is left to do
CHECK_DEADLOCK FALSE
