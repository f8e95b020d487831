SPECIFICATION FairSpec
CONSTANTS
  Names = {a}
  Handles <- AllHandles
  Stored0 = {1, 2}
  NewPids = {}
  MaxPid = 4
  Readers = {r1}
  Loaders = {l1}
  Queries = {q1}
  Evictors = {}
  Stores = {}
  ReadThreads = 1
  OtherTables = FALSE
  NoThread = NoThread
  NoHandle = NoHandle
PROPERTIES
  PromiseFulfilled
