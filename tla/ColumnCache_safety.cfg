SPECIFICATION Spec
CONSTANTS
  Names = {a}
  Handles <- AllHandles
  Stored0 = {1}
  NewPids = {2}
  MaxPid = 4
  Readers = {r1}
  Loaders = {l1, l2}
  Queries = {q1}
  Evictors = {e1}
  Stores = {s1}
  ReadThreads = 1
  OtherTables = TRUE
  NoThread = NoThread
  NoHandle = NoHandle
INVARIANTS
  TypeOK
  ResidentIffPresent
  LoadedIsEvictable
  ListedIsLoaded
  PointLookupFinds
  PermitsConserved
  PromiseCovered
CHECK_DEADLOCK FALSE
