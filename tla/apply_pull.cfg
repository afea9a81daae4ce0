SPECIFICATION FairSpec
CONSTANTS
  t1 = t1
  t2 = t2
  Tables = {t1, t2}
  MaxServer = 3
  Changes <- MCChanges
  OntoTracking = FALSE
  Materialized = TRUE
  MaxAttempts = 2
  MaxHistory = 2
  Faults <- RollbackWorks
INVARIANTS
  FailedApplyLeavesNoRows
PROPERTIES
  CallEnds
CHECK_DEADLOCK FALSE
