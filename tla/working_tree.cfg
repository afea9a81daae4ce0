SPECIFICATION Spec
CONSTANTS
  a = a
  b = b
  Table = {a, b}
  Altered = {a}
  MaxSchema = 3
  Keyless <- MCKeyless
  MaxRows = 1
  Uses = {}
  Faults = {"unmappable", "toolFails", "dies"}
INVARIANTS
  TypeOK
  NoStrayScratch
PROPERTIES
  RowChangesAreTold
  NamedCommitIsNarrow
  ResetKeepsSchema
  ResetReachesEveryTable
CHECK_DEADLOCK FALSE
