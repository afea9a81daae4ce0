SPECIFICATION Spec
CONSTANTS
  c1 = c1
  c2 = c2
  Clients = {c1, c2}
  Seed = Seed
  Seeded = TRUE
  Readers = {}
  MaxServer = 4
  MaxStore = 5
  MaxEdits = 1
  Uses = {}
  Faults <- AnyFault
INVARIANTS
  ServerTakesOnce
SYMMETRY Swaps
CHECK_DEADLOCK FALSE
