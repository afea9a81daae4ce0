SPECIFICATION FairSpec
CONSTANTS
  t1 = t1
  t2 = t2
  shopA = shopA
  shopB = shopB
  shop = shop
  blog = blog
  Shop = Shop
  Blog = Blog
  Other = Other
  NoFile = NoFile
  Repos = {Shop, Blog}
  RepoOf <- RepoNames
  Callers = {t1}
  Projects = {shopA, shopB, blog}
  Rooted = {shopA, shopB, blog}
  Commands = {"start", "stop", "status", "checkout"}
  MaxPids = 4
  MaxMishaps = 2
  Faults = {"slow", "dies", "lsof", "pidReuse"}
INVARIANTS
  TypeOK
  NoLostServer
  RunFilesNameOwnServers
  PortInUseByOthers
PROPERTIES
  CommandsEnd
CHECK_DEADLOCK FALSE
