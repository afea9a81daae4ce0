SPECIFICATION Spec
CONSTANTS
  c1 = c1
  c2 = c2
  Clients = {c1, c2}
  Seed = Seed
  Seeded = TRUE
  Readers = {}
  MaxServer = 4
  MaxStore = 6
  MaxEdits = 2
  Uses = {}
  Faults <- AllButLostSidecar
INVARIANTS
  TypeOK
  SyncedIsTracked
PROPERTIES
  ServerKeepsRows
  UnmarkedRowsSurvive
SYMMETRY Swaps
CHECK_DEADLOCK FALSE
