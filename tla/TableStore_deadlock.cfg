SPECIFICATION FairSpec
CONSTANTS
  t1 = t1  t2 = t2  meta = meta  c1 = c1  c2 = c2  c3 = c3
  r1 = r1  r2 = r2  r3 = r3  r4 = r4  l0 = l0  l1 = l1  l2 = l2  l3 = l3
  Tables <- MCTables
  Meta = meta
  Clients <- MCClients2
  Rows <- TwoRows
  Loads <- MCLoads
  TableOf <- Home
  BatchSize <- Batches
  Setups <- SnapshotSetups
PROPERTIES CallsReturn
CHECK_DEADLOCK FALSE
