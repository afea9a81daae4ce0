SPECIFICATION FairSpec
CONSTANTS
  alice = alice
  bob = bob
  t1 = t1
  t2 = t2
  Users = {alice, bob}
  Terminals = {t1, t2}
  MaxToken = 5
  Uses = {}
  Faults = {"expires", "offline", "answerLost"}
INVARIANTS
  StoredTokenWorks
  RunsAtMostOnce
PROPERTIES
  LogoutClears
  CommandsEnd
CHECK_DEADLOCK FALSE
