SPECIFICATION BusySpec
CONSTANTS
  t1 = t1
  t2 = t2
  shopA = shopA
  shopB = shopB
  shop = shop
  blog = blog
  Shop = Shop
  Blog = Blog
  Other = Other
  NoFile = NoFile
  Repos = {Shop, Blog}
  RepoOf <- RepoNames
  Callers = {t1, t2}
  Projects = {shopA}
  Rooted = {shopA}
  Commands = {"start", "status"}
  MaxPids = 5
  MaxMishaps = 1
  Faults = {"dies", "fileLost", "crash", "foreign"}
PROPERTIES
  StartsConverge
CHECK_DEADLOCK FALSE
