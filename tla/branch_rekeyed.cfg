SPECIFICATION Spec
CONSTANTS
  main = main
  dev = dev
  temp1 = temp1
  t1 = t1
  Main = main
  Branch = {main, dev}
  Temps = {temp1}
  Terminals = {t1}
  MaxOwn = 1
  MaxOthers = 1
  Uses = {"plainCheckout"}
  Faults = {}
INVARIANTS
  SyncedHeadIsPresent
CHECK_DEADLOCK FALSE
