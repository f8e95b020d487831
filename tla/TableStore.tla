----------------------------- MODULE TableStore -----------------------------
(***************************************************************************)
(* The tables of a database (scheduler/inner_locustdb.rs, mem_store/        *)
(* table.rs): rows are ingested one by one into a table's buffer, which     *)
(* becomes a partition when it is full, or whole partitions are stored on   *)
(* disk and loaded; queries take snapshots; columns are evicted and read    *)
(* back; the process may crash and open its disk store again.               *)
(*                                                                          *)
(* A table is created on first use, which records its name as a row of      *)
(* _meta_tables, which is created in the same way.  A client's calls nest:  *)
(* jobs[c] is its stack of calls, the innermost first.  Who holds which     *)
(* lock follows from the stages of the calls.  A row is an identifier, and  *)
(* a partition has one column.                                              *)
(***************************************************************************)
EXTENDS Integers, Sequences, FiniteSetsExt

CONSTANTS
  Tables,    \* names of tables
  Meta,      \* "_meta_tables"
  Clients,   \* threads that ingest, store partitions and take snapshots
  Rows,      \* rows to ingest
  Loads,     \* partitions to store, each named by its rows
  TableOf,   \* table of a row to ingest or a partition to store
  BatchSize, \* Table.batch_size, by table
  Setups     \* databases and what is done to them; a setup has the fields:
             \*   items       the rows and partitions that are ingested and stored
             \*   clients     bound on the number of clients in a call at a time
             \*   persistent  a disk store other than NoopStorage
             \*   existing    what the disk store holds at the start, by partition id
             \*   memoryTight the memory limit is exceeded
             \*   snapshots   bound on the number of snapshots
             \*   restarts    bound on the number of crashes
             \*   oneCreator  clients do not use a missing table together

Items == Rows \cup Loads
NameRow(t) == <<"name", t>>
AllRows == Items \cup {NameRow(t) : t \in Tables}

ASSUME TablesAssumption ==
  /\ Meta \in Tables /\ Rows \cap Loads = {} /\ TableOf \in [Items -> Tables \ {Meta}]
  /\ BatchSize \in [Tables -> Nat \ {0}] /\ BatchSize[Meta] = 1
ASSUME SetupsAssumption ==
  \A s \in Setups :
    /\ s.items \subseteq Items /\ s.clients \in Nat
    /\ s.persistent \in BOOLEAN /\ s.memoryTight \in BOOLEAN /\ s.oneCreator \in BOOLEAN
    /\ s.snapshots \in Nat /\ s.restarts \in Nat
ASSUME ExistingAssumption ==
  \A s \in Setups :
    /\ IsFiniteSet(DOMAIN s.existing) /\ DOMAIN s.existing \subseteq Nat \ {0}
    /\ s.existing \in [DOMAIN s.existing -> [table : Tables, rows : SUBSET Loads]]
    /\ \A p \in DOMAIN s.existing : \A l \in s.existing[p].rows : TableOf[l] = s.existing[p].table

VARIABLES
  setup,     \* the database, a member of Setups
  catalog,   \* InnerLocustDB.tables: the tables that exist
  parts,     \* Table.partitions, by table: what each partition id stands for
  buffer,    \* Table.buffer, by table
  nextPid,   \* InnerLocustDB.next_partition_id
  disk,      \* the disk store: table and rows, by partition id
  lru,       \* the partition ids in the keys of the LRU list
  jobs,      \* the calls each client is in, innermost first
  view,      \* the partitions a client's snapshot has collected
  begun,     \* items whose ingestion has begun
  acked,     \* rows whose call has returned
  before,    \* rows acknowledged when a client's snapshot began
  snapshots, \* number of snapshots
  restarts   \* number of crashes

tableVars == <<catalog, parts, buffer>>
storeVars == <<nextPid, disk, lru>>
queryVars == <<view, before, snapshots>>
vars == <<setup, tableVars, storeVars, queryVars, jobs, begun, acked, restarts>>

\* ColumnHandles keep the id they were made with (hid), also when the partition's changes.
Partition(rows, hid, resident) == [rows |-> rows, hid |-> hid, resident |-> resident]

\* HashMap::insert, and a put into the disk store: an entry of that key is replaced.
Insert(f, key, value) == [k \in DOMAIN f \cup {key} |-> IF k = key THEN value ELSE f[k]]

Job(op, table, item, stage) ==
  [op |-> op, table |-> table, item |-> item, stage |-> stage, rows |-> {}, pid |-> 0, todo |-> {}]

Busy(c) == jobs[c] # <<>>
Top(c) == jobs[c][1]
At(c, op, stage) == Busy(c) /\ Top(c).op = op /\ Top(c).stage = stage
SetTop(c, job) == jobs' = [jobs EXCEPT ![c] = <<job>> \o Tail(@)]
SetStage(c, stage) == SetTop(c, [Top(c) EXCEPT !.stage = stage])
Return(c) ==
  /\ jobs' = [jobs EXCEPT ![c] = Tail(@)]
  /\ acked' = acked \cup {Top(c).item}

\* A client holds the read guard of `tables` from its lookup of the table to its return.
ReadsTables(c) == Busy(c) /\ Top(c).stage \notin {"exists", "insert", "enter"}

\* A batching client holds the table's buffer.
BufferFree(t) ==
  \A c \in Clients : Busy(c) /\ Top(c).table = t => Top(c).stage \notin {"batch", "put_key"}

\* A snapshot that waits for the buffer holds the read guard of the table's partitions.
NoReader(t) == \A c \in Clients : At(c, "snapshot", "peek") => Top(c).table # t

\* load_table_metadata: the tables and partitions that a disk store's metadata describes.
TablesOn(d) == {d[p].table : p \in DOMAIN d}
PartitionsOn(d, t) ==
  [p \in {q \in DOMAIN d : d[q].table = t} |-> Partition(d[p].rows, p, FALSE)]

\* Fault: the largest id is handed out again.
FirstPidReused(d) == Max(DOMAIN d \cup {0})

\* next_partition_id starts above the largest id of any table.
FirstPid(d) == Max(DOMAIN d \cup {0}) + 1

RowsOn(d) == UNION {d[p].rows : p \in DOMAIN d}

Init ==
  /\ setup \in Setups
  /\ disk = setup.existing
  /\ catalog = TablesOn(disk)
  /\ parts = [t \in Tables |-> PartitionsOn(disk, t)]
  /\ buffer = [t \in Tables |-> {}]
  /\ nextPid = FirstPid(disk) /\ lru = {}
  /\ jobs = [c \in Clients |-> <<>>]
  /\ view = [c \in Clients |-> {}] /\ before = [c \in Clients |-> {}]
  /\ begun = RowsOn(disk) /\ acked = RowsOn(disk)
  /\ snapshots = 0 /\ restarts = 0

-----------------------------------------------------------------------------
(* Creating tables.                                                          *)

\* An idle client makes a call while fewer than setup.clients are in one.
MayCall(c) == ~Busy(c) /\ Cardinality({d \in Clients : Busy(d)}) < setup.clients

\* With oneCreator, a client that creates a table is the only one to write meanwhile.
Writes(c) == Busy(c) /\ Top(c).op # "snapshot"
Creates(c) == Writes(c) /\ (Len(jobs[c]) > 1 \/ Top(c).table \notin catalog)
MayBegin(c, t) ==
  setup.oneCreator => \A d \in Clients \ {c} : IF t \in catalog THEN ~Creates(d) ELSE ~Writes(d)

\* ingest and store_partition are called.
Begin(c) ==
  /\ MayCall(c)
  /\ \E item \in setup.items \ begun :
       /\ MayBegin(c, TableOf[item])
       /\ begun' = begun \cup {item}
       /\ jobs' = [jobs EXCEPT ![c] =
            <<Job(IF item \in Rows THEN "ingest" ELSE "store", TableOf[item], item, "exists")>>]
  /\ UNCHANGED <<tableVars, storeVars, queryVars, acked, restarts>>

\* Fault: the table is created without a look.
CheckExistsNever(c) ==
  /\ Busy(c) /\ Top(c).stage = "exists"
  /\ SetStage(c, IF Top(c).op = "store" THEN "insert" ELSE "enter")
  /\ UNCHANGED <<tableVars, storeVars, queryVars, begun, acked, restarts>>

\* create_if_empty: looks the table up, and lets go of the read guard.
CheckExists(c) ==
  /\ Busy(c) /\ Top(c).stage = "exists"
  /\ SetStage(c, IF Top(c).table \in catalog THEN "enter" ELSE "insert")
  /\ UNCHANGED <<tableVars, storeVars, queryVars, begun, acked, restarts>>

\* create_if_empty: inserts an empty table, then ingests its name into Meta.
InsertTable(c) ==
  LET t == Top(c).table
  IN /\ Busy(c) /\ Top(c).stage = "insert"
     /\ \A d \in Clients : ~ReadsTables(d)
     /\ catalog' = catalog \cup {t}
     /\ parts' = [parts EXCEPT ![t] = <<>>]
     /\ buffer' = [buffer EXCEPT ![t] = {}]
     /\ jobs' = [jobs EXCEPT ![c] =
          <<Job("ingest", Meta, NameRow(t), "exists"), [Top(c) EXCEPT !.stage = "enter"]>> \o Tail(@)]
  /\ UNCHANGED <<storeVars, queryVars, begun, acked, restarts>>

-----------------------------------------------------------------------------
(* Ingestion.                                                                *)

\* InnerLocustDB::ingest: takes the read guard of `tables` and finds the table.
EnterIngest(c) ==
  /\ At(c, "ingest", "enter")
  /\ SetStage(c, "buffer")
  /\ UNCHANGED <<tableVars, storeVars, queryVars, begun, acked, restarts>>

\* Table::ingest: pushes the row, and takes the buffer's contents if it is full.
PushRow(c) ==
  LET t == Top(c).table
      pushed == buffer[t] \cup {Top(c).item}
  IN /\ At(c, "ingest", "buffer") /\ BufferFree(t)
     /\ IF Cardinality(pushed) < BatchSize[t]
        THEN buffer' = [buffer EXCEPT ![t] = pushed] /\ Return(c)
        ELSE /\ buffer' = [buffer EXCEPT ![t] = {}]
             /\ SetTop(c, [Top(c) EXCEPT !.stage = "batch", !.rows = pushed])
             /\ UNCHANGED acked
     /\ UNCHANGED <<catalog, parts, storeVars, queryVars, begun, restarts>>

\* Fault: ids of batches start below 0.
BatchIdBelow(t) == Cardinality(DOMAIN parts[t]) - 1

\* The id of the next batch.
BatchId(t) == Cardinality(DOMAIN parts[t])

\* Table::batch: the number of partitions becomes the id of the new one.
Batch(c) ==
  LET t == Top(c).table
  IN /\ At(c, "ingest", "batch") /\ NoReader(t)
     /\ parts' = [parts EXCEPT ![t] = Insert(@, BatchId(t), Partition(Top(c).rows, 0, TRUE))]
     /\ SetTop(c, [Top(c) EXCEPT !.stage = "put_key", !.rows = {}])
     /\ UNCHANGED <<catalog, buffer, storeVars, queryVars, begun, acked, restarts>>

\* The keys of a batch were made with partition id 0.
PutKey(c) ==
  /\ At(c, "ingest", "put_key")
  /\ lru' = lru \cup {0}
  /\ Return(c)
  /\ UNCHANGED <<tableVars, nextPid, disk, queryVars, begun, restarts>>

-----------------------------------------------------------------------------
(* Storing partitions.                                                       *)

\* Fault: the id is read, and advanced by another thread's call.
EnterStoreStale(c) ==
  /\ At(c, "store", "enter")
  /\ nextPid' \in {nextPid, nextPid + 1}
  /\ SetTop(c, [Top(c) EXCEPT !.stage = "write", !.pid = nextPid])
  /\ UNCHANGED <<tableVars, disk, lru, queryVars, begun, acked, restarts>>

\* store_partition: takes the read guard of `tables` and the next id.
EnterStore(c) ==
  /\ At(c, "store", "enter")
  /\ nextPid' = nextPid + 1
  /\ SetTop(c, [Top(c) EXCEPT !.stage = "write", !.pid = nextPid])
  /\ UNCHANGED <<tableVars, disk, lru, queryVars, begun, acked, restarts>>

\* DiskStore::store_partition: metadata and columns in one write batch.
WritePartition(c) ==
  /\ At(c, "store", "write")
  /\ disk' = IF setup.persistent
             THEN Insert(disk, Top(c).pid, [table |-> Top(c).table, rows |-> {Top(c).item}])
             ELSE disk
  /\ SetStage(c, "load")
  /\ UNCHANGED <<tableVars, nextPid, lru, queryVars, begun, acked, restarts>>

\* Table::load_partition.
LoadPartition(c) ==
  LET t == Top(c).table
      pid == Top(c).pid
  IN /\ At(c, "store", "load") /\ NoReader(t)
     /\ parts' = [parts EXCEPT ![t] = Insert(@, pid, Partition({Top(c).item}, pid, TRUE))]
     /\ SetStage(c, "put_keys")
     /\ UNCHANGED <<catalog, buffer, storeVars, queryVars, begun, acked, restarts>>

\* The keys go into the LRU list, and store_partition returns.
PutKeys(c) ==
  /\ At(c, "store", "put_keys")
  /\ lru' = lru \cup {Top(c).pid}
  /\ Return(c)
  /\ UNCHANGED <<tableVars, nextPid, disk, queryVars, begun, restarts>>

-----------------------------------------------------------------------------
(* Snapshots.                                                                *)

\* InnerLocustDB::snapshot of one table, or full_snapshot of all.
BeginSnapshot(c) ==
  /\ MayCall(c) /\ snapshots < setup.snapshots
  /\ \E ts \in {{t} : t \in catalog} \cup {catalog} :
       /\ ts # {}
       /\ jobs' = [jobs EXCEPT ![c] =
            <<[Job("snapshot", CHOOSE t \in ts : TRUE, Meta, "partitions") EXCEPT !.todo = ts]>>]
       /\ before' = [before EXCEPT ![c] =
            {r \in acked : \/ r \in Items /\ TableOf[r] \in ts
                           \/ r \notin Items /\ Meta \in ts}]
  /\ view' = [view EXCEPT ![c] = {}]
  /\ snapshots' = snapshots + 1
  /\ UNCHANGED <<tableVars, storeVars, begun, acked, restarts>>

Collected(t, pid, rows) == [table |-> t, pid |-> pid, rows |-> rows]

\* Fault: evicted partitions are left out.
CopyPartitionsResident(c) ==
  /\ At(c, "snapshot", "partitions")
  /\ \E t \in Top(c).todo :
       /\ view' = [view EXCEPT ![c] = @ \cup
            {Collected(t, p, parts[t][p].rows) : p \in {q \in DOMAIN parts[t] : parts[t][q].resident}}]
       /\ SetTop(c, [Top(c) EXCEPT !.stage = "peek", !.table = t])
  /\ UNCHANGED <<tableVars, storeVars, before, snapshots, begun, acked, restarts>>

\* Table::snapshot: copies the partitions, and keeps their read guard.
CopyPartitions(c) ==
  /\ At(c, "snapshot", "partitions")
  /\ \E t \in Top(c).todo :
       /\ view' = [view EXCEPT ![c] = @ \cup
            {Collected(t, p, parts[t][p].rows) : p \in DOMAIN parts[t]}]
       /\ SetTop(c, [Top(c) EXCEPT !.stage = "peek", !.table = t])
  /\ UNCHANGED <<tableVars, storeVars, before, snapshots, begun, acked, restarts>>

\* Table::snapshot: makes a partition of the buffer, with id u64::MAX.
BufferPid == -1

CopyBuffer(c) ==
  LET t == Top(c).table
      rest == Top(c).todo \ {t}
  IN /\ At(c, "snapshot", "peek") /\ BufferFree(t)
     /\ view' = [view EXCEPT ![c] = @ \cup
          (IF buffer[t] = {} THEN {} ELSE {Collected(t, BufferPid, buffer[t])})]
     /\ IF rest = {}
        THEN jobs' = [jobs EXCEPT ![c] = <<>>]
        ELSE SetTop(c, [Top(c) EXCEPT !.stage = "partitions", !.todo = rest])
     /\ UNCHANGED <<tableVars, storeVars, before, snapshots, begun, acked, restarts>>

-----------------------------------------------------------------------------
(* Eviction, lookups and crashes.                                            *)

\* enforce_mem_limit: a key of the LRU list is evicted from every table that has a
\* partition of its id; Partition::evict removes the key of the handle.
Evict ==
  /\ setup.memoryTight
  /\ \E key \in lru :
       LET hit == {t \in catalog : key \in DOMAIN parts[t]}
       IN /\ parts' = [t \in Tables |-> IF t \in hit
                                        THEN [parts[t] EXCEPT ![key].resident = FALSE]
                                        ELSE parts[t]]
          /\ lru' = (lru \ {key}) \ {parts[t][key].hid : t \in hit}
  /\ UNCHANGED <<catalog, buffer, nextPid, disk, queryVars, jobs, begun, acked, restarts>>

\* get_or_load: a point lookup of an evicted column, by the id of its handle; without an
\* entry on disk it panics, and nothing changes here.
Lookup ==
  /\ \E t \in catalog : \E p \in DOMAIN parts[t] :
       LET hid == parts[t][p].hid
       IN /\ ~parts[t][p].resident /\ hid \in DOMAIN disk
          /\ parts' = [parts EXCEPT ![t][p] = Partition(disk[hid].rows, hid, TRUE)]
          /\ lru' = lru \cup {hid}
  /\ UNCHANGED <<catalog, buffer, nextPid, disk, queryVars, jobs, begun, acked, restarts>>

\* The process dies and is started on the same disk store.  Rows that were not on disk are
\* forgotten, also by the clients.
Restart ==
  /\ restarts < setup.restarts /\ restarts' = restarts + 1
  /\ catalog' = TablesOn(disk)
  /\ parts' = [t \in Tables |-> PartitionsOn(disk, t)]
  /\ buffer' = [t \in Tables |-> {}]
  /\ nextPid' = FirstPid(disk) /\ disk' = disk /\ lru' = {}
  /\ jobs' = [c \in Clients |-> <<>>]
  /\ view' = [c \in Clients |-> {}] /\ before' = [c \in Clients |-> {}]
  /\ acked' = acked \cap (IF setup.persistent THEN Loads ELSE {})
  /\ UNCHANGED <<begun, snapshots>>

Step(c) ==
  \/ CheckExists(c) \/ InsertTable(c)
  \/ EnterIngest(c) \/ PushRow(c) \/ Batch(c) \/ PutKey(c)
  \/ EnterStore(c) \/ WritePartition(c) \/ LoadPartition(c) \/ PutKeys(c)
  \/ CopyPartitions(c) \/ CopyBuffer(c)

Next ==
  /\ \/ Evict \/ Lookup \/ Restart
     \/ \E c \in Clients : Begin(c) \/ BeginSnapshot(c) \/ Step(c)
  /\ UNCHANGED setup

Spec == Init /\ [][Next]_vars

\* A client's thread is scheduled, and a lock that is free again and again is granted.
FairSpec == Spec /\ \A c \in Clients : SF_vars(Step(c) /\ UNCHANGED setup)

-----------------------------------------------------------------------------
(* Properties.                                                               *)

\* The rows of a table: in partitions, in the buffer, or on their way from the one to the
\* other in the hands of a client that holds the buffer.
Contents(t) ==
  UNION {parts[t][p].rows : p \in DOMAIN parts[t]} \cup buffer[t]
  \cup UNION {Top(c).rows : c \in {d \in Clients : Busy(d) /\ Top(d).table = t}}

HomeOf(r) == IF r \in Items THEN TableOf[r] ELSE Meta

Stages == {"exists", "insert", "enter", "buffer", "batch", "put_key", "write", "load", "put_keys",
           "partitions", "peek"}

\* Every variable has its type (inner_locustdb.rs, InnerLocustDB; table.rs, Table).
TypeOK ==
  /\ catalog \subseteq Tables
  /\ \A t \in Tables : /\ DOMAIN parts[t] \subseteq Nat
                        /\ \A p \in DOMAIN parts[t] : parts[t][p].rows \subseteq AllRows
  /\ buffer \in [Tables -> SUBSET AllRows]
  /\ nextPid \in Nat /\ DOMAIN disk \subseteq Nat /\ lru \subseteq Nat
  /\ \A c \in Clients : Busy(c) => Top(c).stage \in Stages /\ Top(c).table \in Tables
  /\ begun \subseteq Items /\ acked \subseteq AllRows

\* "All data is append only and can only be deleted/expired in bulk" (README.md): a row whose
\* ingest or store_partition has returned stays in its table.
AppendOnly == \A r \in acked : HomeOf(r) \in catalog /\ r \in Contents(HomeOf(r))

\* A partition whose column has been evicted can be read back: the disk store has the rows
\* of that partition under the id of its handle (get_or_load's point lookup).
Readable ==
  \A t \in catalog : \A p \in DOMAIN parts[t] :
    LET part == parts[t][p]
    IN ~part.resident =>
         part.hid \in DOMAIN disk /\ disk[part.hid] = [table |-> t, rows |-> part.rows]

\* A finished snapshot has every row that had been acknowledged when it began, and has no
\* row twice, although it copies partitions and buffer one after the other (Table::snapshot).
SnapshotExact ==
  \A c \in Clients : ~Busy(c) =>
    /\ before[c] \subseteq UNION {v.rows : v \in view[c]}
    /\ \A v, w \in view[c] : v # w => v.rows \cap w.rows = {}

\* A partition on disk is never written again: ids are not handed out twice, also across a
\* restart (next_partition_id, max_partition_id).
DiskImmutable == [][\A p \in DOMAIN disk : p \in DOMAIN disk' /\ disk'[p] = disk[p]]_disk

\* Calls return: "New data is available for queries within seconds" (README.md).
CallsReturn == \A c \in Clients : Busy(c) ~> ~Busy(c)

=============================================================================
