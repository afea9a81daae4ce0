SPECIFICATION FairSpec
CONSTANTS
  c1 = c1
  c2 = c2
  Clients = {c1, c2}
  Seed = Seed
  Seeded = TRUE
  Readers = {c2}
  MaxServer = 5
  MaxStore = 7
  MaxEdits = 3
  Uses = {"fetch"}
  Faults = {}
PROPERTIES
  UnmarkedRowsSurvive
  ReadersCatchUp
CHECK_DEADLOCK FALSE
