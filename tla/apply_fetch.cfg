SPECIFICATION Spec
CONSTANTS
  t1 = t1
  t2 = t2
  Tables = {t1, t2}
  MaxServer = 2
  Changes <- MCTwoCommits
  OntoTracking = TRUE
  Materialized = FALSE
  MaxAttempts = 3
  MaxHistory = 2
  Faults <- CrashesAndFailures
INVARIANTS
  TypeOK
  InServerOrder
  SyncedIsRecorded
  PulledCommitIsExact
PROPERTIES
  WholeBatchOrNothing
  LocalRowsSurvive
  ImplementsPullLog
CHECK_DEADLOCK FALSE
