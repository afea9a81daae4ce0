SPECIFICATION Spec
CONSTANTS
  a = a
  b = b
  c = c
  Table = {a, b, c}
  Key <- Values
  Source <- MCSource
  Binary = {c}
  NotNull = {a}
  AutoIncrement = {a, c}
  EdgeSets <- MCEdges
  Uses = {}
  Faults = {"toolFails"}
INVARIANTS
  ParentsComeFirst
  CommitsTheSource
CHECK_DEADLOCK FALSE
