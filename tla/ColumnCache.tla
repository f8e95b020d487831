----------------------------- MODULE ColumnCache -----------------------------
(***************************************************************************)
(* The in-memory column cache of one LocustDB table: the column handles of  *)
(* its partitions (src/mem_store/partition.rs), the LRU list of loaded      *)
(* columns (src/mem_store/lru.rs), the scheduler of reads from disk         *)
(* (src/scheduler/disk_read_scheduler.rs), the thread that enforces the     *)
(* memory limit and store_partition (src/scheduler/inner_locustdb.rs).      *)
(*                                                                         *)
(* A step is one critical section or one access to shared memory between    *)
(* two of them.  The contents of a column are abstracted to its presence    *)
(* (a handle's column never changes), byte counts to a nondeterministic     *)
(* choice wherever they are compared with a limit, and the order of the LRU *)
(* list to a set from which the evictor may take any key.                   *)
(***************************************************************************)
EXTENDS Integers, Sequences, FiniteSets

CONSTANTS
  Names,         \* column names
  Handles,       \* the column handles, pairs <<partition id, column name>>
  Stored0,       \* ids of the partitions on disk when the database is opened
  NewPids,       \* ids store_partition may hand out
  MaxPid,        \* u64::MAX, the id of the snapshot of the ingestion buffer
  Readers,       \* worker threads that call get_or_load
  Loaders,       \* worker threads that run service_reads
  Queries,       \* run_query / bulk_load calls that schedule reads
  Evictors,      \* threads that run enforce_mem_limit
  Stores,        \* store_partition calls
  ReadThreads,   \* permits of reader_semaphore (opts.read_threads)
  OtherTables,   \* TRUE iff there may be other tables
  NoThread, NoHandle

Pids == Stored0 \cup NewPids
Threads == Readers \cup Loaders \cup Queries \cup Evictors \cup Stores

ASSUME HandlesAssumption == Handles \subseteq (Pids \X Names) /\ Names # {}
ASSUME PidsAssumption ==
  /\ Pids \subseteq Nat \ {0} /\ MaxPid \in Nat
  /\ \A p \in Pids : p < MaxPid
  /\ \A p \in Stored0, q \in NewPids : p < q
ASSUME ThreadsAssumption ==
  /\ NoThread \notin Threads /\ NoHandle \notin Handles
  /\ Readers \cap Loaders = {} /\ Readers \cap Queries = {}
  /\ Readers \cap Evictors = {} /\ Readers \cap Stores = {}
  /\ Loaders \cap Queries = {} /\ Loaders \cap Evictors = {}
  /\ Loaders \cap Stores = {} /\ Queries \cap Evictors = {}
  /\ Queries \cap Stores = {} /\ Evictors \cap Stores = {}
ASSUME ReadThreadsAssumption == ReadThreads \in Nat \ {0}
ASSUME OtherTablesAssumption == OtherTables \in BOOLEAN

VARIABLES
  live,       \* ids in Table.partitions
  disk,       \* ids of the partitions in the disk store
  col,        \* ColumnHandle.col is Some
  resident,   \* ColumnHandle.resident
  scheduled,  \* ColumnHandle.load_scheduled
  hlock,      \* holder of the mutex around ColumnHandle.col
  lru,        \* keys in the LRU list
  queue,      \* DiskReadScheduler.task_queue
  qlock,      \* holder of the mutex around it
  inProgress, \* background_load_in_progress
  bgLock,     \* holder of the mutex around it
  permits,    \* free permits of reader_semaphore
  services,   \* service_reads tasks that no worker has picked up yet
  nextPid,    \* next_partition_id
  pc,         \* control state of every thread
  target,     \* the handle a reader was asked for
  victim,     \* the key an evictor took from the LRU list
  job,        \* the run a loader is reading
  plan,       \* locals of schedule_sequential_read (under qlock)
  bulk,       \* locals of schedule_bulk_load (under qlock)
  stored      \* locals of store_partition

handleVars == <<col, resident, scheduled, hlock, lru>>
loadVars == <<inProgress, bgLock, permits, services>>
planVars == <<queue, qlock, plan, bulk>>
storeVars == <<live, disk, nextPid, stored>>
vars == <<handleVars, loadVars, planVars, storeVars, pc, target, victim, job>>

-----------------------------------------------------------------------------
(* Data.                                                                   *)

Run == [start : Nat, end : Nat, columns : SUBSET Names]
EmptyRun == [start |-> 0, end |-> 0, columns |-> {}]
Job == [run : Run, cols : SUBSET Names, name : Names, todo : SUBSET Pids]

ColumnsOf(p) == {n \in Names : <<p, n>> \in Handles}
HandlesOf(p) == {h \in Handles : h[1] = p}
IsSmallest(p, S) == p \in S /\ \A q \in S : p <= q
Goto(t, label) == pc' = [pc EXCEPT ![t] = label]

\* A run makes load_column_range visit the handle.
Covers(run, h) == h[1] \in run.start .. run.end /\ h[2] \in run.columns

Init ==
  /\ live = Stored0 /\ disk = Stored0
  /\ col = [h \in Handles |-> FALSE]
  /\ resident = [h \in Handles |-> FALSE]
  /\ scheduled = [h \in Handles |-> FALSE]
  /\ hlock = [h \in Handles |-> NoThread]
  /\ lru = {}
  /\ queue = <<>> /\ qlock = NoThread
  /\ inProgress = FALSE /\ bgLock = NoThread
  /\ permits = ReadThreads /\ services = 0
  /\ nextPid \in 1 .. MaxPid /\ \A p \in Stored0 : p < nextPid
  /\ nextPid - 1 \in Stored0 \cup (IF Stored0 = {} THEN {0} ELSE {})
  /\ pc = [t \in Threads |-> "idle"]
  /\ target = [r \in Readers |-> NoHandle]
  /\ victim = [e \in Evictors |-> NoHandle]
  /\ job = [l \in Loaders |-> [run |-> EmptyRun, cols |-> {}, name |-> CHOOSE n \in Names : TRUE, todo |-> {}]]
  /\ plan = [cols |-> {}, buffer |-> {}, todo |-> {}, run |-> EmptyRun, prev |-> 0]
  /\ bulk = [todo |-> {}, runs |-> [n \in Names |-> EmptyRun]]
  /\ stored = [s \in Stores |-> [pid |-> 0, keys |-> {}]]

-----------------------------------------------------------------------------
(* The LRU list.  touch reorders a key that is present and never adds one.  *)

LruTouch(h) == lru
LruPut(h) == lru \cup {h}
LruRemove(h) == lru \ {h}

(* get_or_load(handle), called by a worker for every column of a query.     *)

GetOrLoad(r, h) ==
  /\ pc[r] = "idle" /\ h[1] \in live
  /\ target' = [target EXCEPT ![r] = h]
  /\ Goto(r, "check_resident")
  /\ UNCHANGED <<handleVars, loadVars, planVars, storeVars, victim, job>>

CheckResident(r) ==
  /\ pc[r] = "check_resident"
  /\ Goto(r, IF resident[target[r]] THEN "try_get" ELSE "check_scheduled")
  /\ UNCHANGED <<handleVars, loadVars, planVars, storeVars, target, victim, job>>

\* The flag was read without the mutex: the column may be gone again.
TryGet(r) ==
  /\ pc[r] = "try_get" /\ hlock[target[r]] = NoThread
  /\ lru' = IF col[target[r]] THEN LruTouch(target[r]) ELSE lru
  /\ Goto(r, IF col[target[r]] THEN "idle" ELSE "check_resident")
  /\ UNCHANGED <<col, resident, scheduled, hlock, loadVars, planVars, storeVars, target, victim, job>>

CheckScheduled(r) ==
  /\ pc[r] = "check_scheduled"
  /\ Goto(r, IF scheduled[target[r]] THEN "await_load" ELSE "point_lookup")
  /\ UNCHANGED <<handleVars, loadVars, planVars, storeVars, target, victim, job>>

\* The condition of the wait loop, evaluated with background_load_in_progress locked.
AwaitLoad(r) ==
  /\ pc[r] = "await_load" /\ bgLock = NoThread
  /\ IF inProgress /\ ~resident[target[r]] /\ scheduled[target[r]]
     THEN bgLock' = r /\ Goto(r, "park")
     ELSE bgLock' = bgLock /\ Goto(r, "check_resident")
  /\ UNCHANGED <<handleVars, inProgress, permits, services, planVars, storeVars, target, victim, job>>

\* Condvar::wait gives up the mutex and starts waiting in one step.
Park(r) ==
  /\ pc[r] = "park"
  /\ bgLock' = NoThread
  /\ Goto(r, "asleep")
  /\ UNCHANGED <<handleVars, inProgress, permits, services, planVars, storeVars, target, victim, job>>

SpuriousWakeup(r) ==
  /\ pc[r] = "asleep"
  /\ Goto(r, "await_load")
  /\ UNCHANGED <<handleVars, loadVars, planVars, storeVars, target, victim, job>>

\* Fault: the semaphore is not waited for.
PointLookupUnlimited(r) ==
  /\ pc[r] = "point_lookup"
  /\ permits' = permits - 1
  /\ Goto(r, "load_column")
  /\ UNCHANGED <<handleVars, inProgress, bgLock, services, planVars, storeVars, target, victim, job>>

PointLookup(r) ==
  /\ pc[r] = "point_lookup" /\ permits > 0
  /\ permits' = permits - 1
  /\ Goto(r, "load_column")
  /\ UNCHANGED <<handleVars, inProgress, bgLock, services, planVars, storeVars, target, victim, job>>

LoadColumn(r) ==
  /\ pc[r] = "load_column"
  /\ permits' = permits + 1
  /\ Goto(r, "lock_column")
  /\ UNCHANGED <<handleVars, inProgress, bgLock, services, planVars, storeVars, target, victim, job>>

\* The mutex is taken before the key goes into the LRU list ...
LockColumn(r) ==
  /\ pc[r] = "lock_column" /\ hlock[target[r]] = NoThread
  /\ hlock' = [hlock EXCEPT ![target[r]] = r]
  /\ lru' = LruPut(target[r])
  /\ Goto(r, "set_column")
  /\ UNCHANGED <<col, resident, scheduled, loadVars, planVars, storeVars, target, victim, job>>

\* ... and released after the column is in place.
SetColumn(r) ==
  /\ pc[r] = "set_column"
  /\ col' = [col EXCEPT ![target[r]] = TRUE]
  /\ resident' = [resident EXCEPT ![target[r]] = TRUE]
  /\ hlock' = [hlock EXCEPT ![target[r]] = NoThread]
  /\ Goto(r, "idle")
  /\ UNCHANGED <<scheduled, lru, loadVars, planVars, storeVars, target, victim, job>>

-----------------------------------------------------------------------------
(* schedule_sequential_read(snapshot, columns), called by run_query, groups  *)
(* the partitions of a snapshot into runs.  The queue stays locked           *)
(* throughout; the residency flags it reads are changed by other threads.    *)
(* live only grows, so taking the snapshot when the lock is taken stands for *)
(* taking it any time before.  The last partition of the snapshot may be a   *)
(* copy of the ingestion buffer, which has id MaxPid and is always resident. *)

BeginPlan(q, columns, buffered) ==
  /\ pc[q] = "idle" /\ qlock = NoThread
  /\ qlock' = q
  /\ plan' = [cols |-> columns, buffer |-> buffered, run |-> EmptyRun, prev |-> 0,
              todo |-> live \cup (IF buffered = {} THEN {} ELSE {MaxPid})]
  /\ Goto(q, "match")
  /\ UNCHANGED <<handleVars, loadVars, queue, bulk, storeVars, target, victim, job>>

PlanColumns(p) == IF p = MaxPid THEN plan.buffer ELSE ColumnsOf(p)
IsResident(p, n) == p = MaxPid \/ resident[<<p, n>>]

NonResidents(p) == {n \in PlanColumns(p) : ~IsResident(p, n) /\ n \in plan.cols}

NonResidentsMatch(p) ==
  \A n \in PlanColumns(p) :
    IF IsResident(p, n) THEN n \notin plan.run.columns
    ELSE n \in plan.cols => n \in plan.run.columns

PromiseLoad(p, columns) ==
  scheduled' = [h \in Handles |-> scheduled[h] \/ (h[1] = p /\ h[2] \in columns)]

\* overReadahead stands for current_run.bytes > readahead.
MatchPartition(q, p, overReadahead) ==
  /\ pc[q] = "match" /\ IsSmallest(p, plan.todo)
  /\ IF overReadahead \/ ~NonResidentsMatch(p)
     THEN /\ queue' = IF plan.run.columns = {} THEN queue
                      ELSE Append(queue, [plan.run EXCEPT !.end = plan.prev])
          /\ plan' = [plan EXCEPT !.run = EmptyRun]
          /\ Goto(q, "begin_run")
     ELSE UNCHANGED <<queue, plan>> /\ Goto(q, "extend_run")
  /\ UNCHANGED <<handleVars, loadVars, qlock, bulk, storeVars, target, victim, job>>

\* The residency flags are read a second time for the columns of the new run.
BeginRun(q, p) ==
  LET columns == NonResidents(p)
  IN /\ pc[q] = "begin_run" /\ IsSmallest(p, plan.todo)
     /\ PromiseLoad(p, columns)
     /\ plan' = [plan EXCEPT !.run = [start |-> p, end |-> 0, columns |-> columns],
                             !.prev = p, !.todo = @ \ {p}]
     /\ Goto(q, "match")
     /\ UNCHANGED <<col, resident, hlock, lru, loadVars, queue, qlock, bulk, storeVars, target, victim, job>>

ExtendRun(q, p) ==
  /\ pc[q] = "extend_run" /\ IsSmallest(p, plan.todo)
  /\ PromiseLoad(p, plan.run.columns)
  /\ plan' = [plan EXCEPT !.prev = p, !.todo = @ \ {p}]
  /\ Goto(q, "match")
  /\ UNCHANGED <<col, resident, hlock, lru, loadVars, queue, qlock, bulk, storeVars, target, victim, job>>

\* The last run is queued even when it is empty; run_query then schedules service_reads.
EndPlan(q) ==
  /\ pc[q] = "match" /\ plan.todo = {}
  /\ queue' = Append(queue, [plan.run EXCEPT !.end = plan.prev])
  /\ plan' = [plan EXCEPT !.run = EmptyRun]
  /\ qlock' = NoThread
  /\ services' = services + 1
  /\ Goto(q, "done")
  /\ UNCHANGED <<handleVars, inProgress, bgLock, permits, bulk, storeVars, target, victim, job>>

(* schedule_bulk_load(snapshot), called by bulk_load, keeps one run per      *)
(* column and promises every column, whether it is resident or not.          *)

BeginBulk(q, buffered) ==
  /\ pc[q] = "idle" /\ qlock = NoThread
  /\ qlock' = q
  /\ bulk' = [todo |-> {h \in Handles : h[1] \in live} \cup ({MaxPid} \X buffered),
              runs |-> [n \in Names |-> EmptyRun]]
  /\ Goto(q, "bulk")
  /\ UNCHANGED <<handleVars, loadVars, queue, plan, storeVars, target, victim, job>>

\* overChunk stands for run.bytes > chunk_size.
BulkColumn(q, h, overChunk) ==
  LET run == [start |-> IF bulk.runs[h[2]].columns = {} THEN h[1] ELSE bulk.runs[h[2]].start,
              end |-> h[1], columns |-> {h[2]}]
  IN /\ pc[q] = "bulk"
     /\ h \in bulk.todo /\ \A g \in bulk.todo : h[1] <= g[1]
     /\ PromiseLoad(h[1], {h[2]})
     /\ queue' = IF overChunk THEN Append(queue, run) ELSE queue
     /\ bulk' = [todo |-> bulk.todo \ {h},
                 runs |-> [bulk.runs EXCEPT ![h[2]] = IF overChunk THEN EmptyRun ELSE run]]
     /\ UNCHANGED <<col, resident, hlock, lru, loadVars, qlock, plan, storeVars, pc, target, victim, job>>

\* The runs that are left over are queued in no particular order.
FlushBulk(q, n) ==
  /\ pc[q] = "bulk" /\ bulk.todo = {}
  /\ bulk.runs[n].columns # {}
  /\ queue' = Append(queue, bulk.runs[n])
  /\ bulk' = [bulk EXCEPT !.runs[n] = EmptyRun]
  /\ UNCHANGED <<handleVars, loadVars, qlock, plan, storeVars, pc, target, victim, job>>

\* Fault: bulk_load starts no service_reads task.
EndBulkUnserved(q) ==
  /\ pc[q] = "bulk" /\ bulk.todo = {}
  /\ \A n \in Names : bulk.runs[n].columns = {}
  /\ qlock' = NoThread
  /\ Goto(q, "done")
  /\ UNCHANGED <<handleVars, loadVars, queue, plan, bulk, storeVars, target, victim, job>>

EndBulk(q) ==
  /\ pc[q] = "bulk" /\ bulk.todo = {}
  /\ \A n \in Names : bulk.runs[n].columns = {}
  /\ qlock' = NoThread
  /\ services' = services + ReadThreads
  /\ Goto(q, "done")
  /\ UNCHANGED <<handleVars, inProgress, bgLock, permits, queue, plan, bulk, storeVars, target, victim, job>>

-----------------------------------------------------------------------------
(* service_reads, run by a worker as a task of its own.                      *)

StartService(l) ==
  /\ pc[l] = "idle" /\ services > 0
  /\ services' = services - 1
  /\ Goto(l, "mark")
  /\ UNCHANGED <<handleVars, inProgress, bgLock, permits, planVars, storeVars, target, victim, job>>

MarkInProgress(l) ==
  /\ pc[l] = "mark" /\ bgLock = NoThread
  /\ inProgress' = TRUE
  /\ Goto(l, "next_read")
  /\ UNCHANGED <<handleVars, bgLock, permits, services, planVars, storeVars, target, victim, job>>

PopRun(l) ==
  /\ pc[l] = "next_read" /\ qlock = NoThread /\ queue # <<>>
  /\ job' = [job EXCEPT ![l].run = Head(queue), ![l].cols = Head(queue).columns, ![l].todo = {}]
  /\ queue' = Tail(queue)
  /\ Goto(l, "acquire")
  /\ UNCHANGED <<handleVars, loadVars, qlock, plan, bulk, storeVars, target, victim>>

\* The flag is cleared with the queue still locked, and nobody is notified.
StopService(l) ==
  /\ pc[l] = "next_read" /\ qlock = NoThread /\ queue = <<>>
  /\ bgLock = NoThread
  /\ inProgress' = FALSE
  /\ Goto(l, "idle")
  /\ UNCHANGED <<handleVars, bgLock, permits, services, planVars, storeVars, target, victim, job>>

AcquireRead(l) ==
  /\ pc[l] = "acquire" /\ permits > 0
  /\ permits' = permits - 1
  /\ Goto(l, "next_column")
  /\ UNCHANGED <<handleVars, inProgress, bgLock, services, planVars, storeVars, target, victim, job>>

\* Fault: the end of a run is taken to be exclusive.
LoadColumnRangeExclusive(l, n) ==
  /\ pc[l] = "next_column" /\ n \in job[l].cols
  /\ job' = [job EXCEPT ![l].cols = @ \ {n}, ![l].name = n,
               ![l].todo = {p \in disk : <<p, n>> \in Handles /\ p \in job[l].run.start .. (job[l].run.end - 1)}]
  /\ Goto(l, "restore")
  /\ UNCHANGED <<handleVars, loadVars, planVars, storeVars, target, victim>>

\* load_column_range iterates over what the disk store held when the iterator was made.
LoadColumnRange(l, n) ==
  /\ pc[l] = "next_column" /\ n \in job[l].cols
  /\ job' = [job EXCEPT ![l].cols = @ \ {n}, ![l].name = n,
               ![l].todo = {p \in disk : <<p, n>> \in Handles /\ p \in job[l].run.start .. job[l].run.end}]
  /\ Goto(l, "restore")
  /\ UNCHANGED <<handleVars, loadVars, planVars, storeVars, target, victim>>

\* Partition::restore, under the mutex of the handle.
LockRestore(l, p) ==
  LET h == <<p, job[l].name>>
  IN /\ pc[l] = "restore" /\ IsSmallest(p, job[l].todo)
     /\ p \in live /\ hlock[h] = NoThread
     /\ hlock' = [hlock EXCEPT ![h] = l]
     /\ lru' = IF col[h] THEN lru ELSE LruPut(h)
     /\ Goto(l, "set_restored")
     /\ UNCHANGED <<col, resident, scheduled, loadVars, planVars, storeVars, target, victim, job>>

\* Where a loader goes once a table has restored its column: to another table, if there is
\* one, which may lack the partition id.
AfterRestore == IF OtherTables THEN {"restore", "restore_other"} ELSE {"restore"}

\* Fault: restore does not set the resident flag.
SetRestoredQuietly(l, p) ==
  LET h == <<p, job[l].name>>
  IN /\ pc[l] = "set_restored" /\ IsSmallest(p, job[l].todo)
     /\ col' = [col EXCEPT ![h] = TRUE]
     /\ scheduled' = [scheduled EXCEPT ![h] = FALSE]
     /\ hlock' = [hlock EXCEPT ![h] = NoThread]
     /\ job' = [job EXCEPT ![l].todo = @ \ {p}]
     /\ \E label \in AfterRestore : Goto(l, label)
     /\ UNCHANGED <<resident, lru, loadVars, planVars, storeVars, target, victim>>

\* Partition::restore puts the column in place, and InnerLocustDB::restore goes on.
SetRestored(l, p) ==
  LET h == <<p, job[l].name>>
  IN /\ pc[l] = "set_restored" /\ IsSmallest(p, job[l].todo)
     /\ col' = [col EXCEPT ![h] = TRUE]
     /\ resident' = [resident EXCEPT ![h] = TRUE]
     /\ scheduled' = [scheduled EXCEPT ![h] = FALSE]
     /\ hlock' = [hlock EXCEPT ![h] = NoThread]
     /\ job' = [job EXCEPT ![l].todo = @ \ {p}]
     /\ \E label \in AfterRestore : Goto(l, label)
     /\ UNCHANGED <<lru, loadVars, planVars, storeVars, target, victim>>

\* Fault: the permit is not returned by a guard that unwinding drops.
RestorePanicKeepsPermit(l) ==
  /\ \/ pc[l] = "restore_other"
     \/ /\ pc[l] = "restore" /\ job[l].todo # {}
        /\ (\E p \in Pids \ live : IsSmallest(p, job[l].todo)) \/ OtherTables
  /\ Goto(l, "panicked")
  /\ UNCHANGED <<handleVars, loadVars, planVars, storeVars, target, victim, job>>

\* partitions[&id] panics in a table without that id: the worker thread dies, its
\* permit is returned by the guard, and background_load_in_progress stays set.  After
\* the last partition of the table it is restore_other that panics.
RestorePanic(l) ==
  /\ \/ pc[l] = "restore_other"
     \/ /\ pc[l] = "restore" /\ job[l].todo # {}
        /\ (\E p \in Pids \ live : IsSmallest(p, job[l].todo)) \/ OtherTables
  /\ permits' = permits + 1
  /\ Goto(l, "panicked")
  /\ UNCHANGED <<handleVars, inProgress, bgLock, services, planVars, storeVars, target, victim, job>>

RangeDone(l) ==
  /\ pc[l] = "restore" /\ job[l].todo = {}
  /\ Goto(l, "next_column")
  /\ UNCHANGED <<handleVars, loadVars, planVars, storeVars, target, victim, job>>

\* The permit is returned, then notify_all wakes every thread in the wait queue.
RunDone(l) ==
  /\ pc[l] = "next_column" /\ job[l].cols = {}
  /\ permits' = permits + 1
  /\ pc' = [t \in Threads |-> IF t = l THEN "next_read"
                              ELSE IF t \in Readers /\ pc[t] = "asleep" THEN "await_load" ELSE pc[t]]
  /\ UNCHANGED <<handleVars, inProgress, bgLock, services, planVars, storeVars, target, victim, job>>

-----------------------------------------------------------------------------
(* enforce_mem_limit: whenever memory usage exceeds the limit (any time).    *)

EvictLru(e, h) ==
  /\ pc[e] = "idle" /\ h \in lru
  /\ lru' = LruRemove(h)
  /\ victim' = [victim EXCEPT ![e] = h]
  /\ Goto(e, "evict")
  /\ UNCHANGED <<col, resident, scheduled, hlock, loadVars, planVars, storeVars, target, job>>

\* A key whose partition is not in the table is dropped without effect.
LockEvict(e) ==
  /\ pc[e] = "evict" /\ hlock[victim[e]] = NoThread
  /\ IF victim[e][1] \in live
     THEN /\ hlock' = [hlock EXCEPT ![victim[e]] = e]
          /\ resident' = [resident EXCEPT ![victim[e]] = FALSE]
          /\ Goto(e, "drop_column")
     ELSE UNCHANGED <<hlock, resident>> /\ Goto(e, "idle")
  /\ UNCHANGED <<col, scheduled, lru, loadVars, planVars, storeVars, target, victim, job>>

DropColumn(e) ==
  /\ pc[e] = "drop_column"
  /\ col' = [col EXCEPT ![victim[e]] = FALSE]
  /\ lru' = LruRemove(victim[e])
  /\ hlock' = [hlock EXCEPT ![victim[e]] = NoThread]
  /\ Goto(e, "idle")
  /\ UNCHANGED <<resident, scheduled, loadVars, planVars, storeVars, target, victim, job>>

(* store_partition: id, disk, table, and only then the LRU list.             *)

\* Fault: the partition is never written to disk.
AllocatePidSkipsWrite(s) ==
  /\ pc[s] = "idle" /\ nextPid \in NewPids
  /\ stored' = [stored EXCEPT ![s].pid = nextPid]
  /\ nextPid' = nextPid + 1
  /\ Goto(s, "load_partition")
  /\ UNCHANGED <<handleVars, loadVars, planVars, live, disk, target, victim, job>>

AllocatePid(s) ==
  /\ pc[s] = "idle" /\ nextPid \in NewPids
  /\ stored' = [stored EXCEPT ![s].pid = nextPid]
  /\ nextPid' = nextPid + 1
  /\ Goto(s, "write")
  /\ UNCHANGED <<handleVars, loadVars, planVars, live, disk, target, victim, job>>

\* Fault: the keys go into the LRU list before the partition is in the table.
WritePartitionListsKeys(s) ==
  /\ pc[s] = "write"
  /\ disk' = disk \cup {stored[s].pid}
  /\ lru' = lru \cup HandlesOf(stored[s].pid)
  /\ Goto(s, "load_partition")
  /\ UNCHANGED <<col, resident, scheduled, hlock, loadVars, planVars, live, nextPid, stored, target, victim, job>>

WritePartition(s) ==
  /\ pc[s] = "write"
  /\ disk' = disk \cup {stored[s].pid}
  /\ Goto(s, "load_partition")
  /\ UNCHANGED <<handleVars, loadVars, planVars, live, nextPid, stored, target, victim, job>>

LoadPartition(s) ==
  LET p == stored[s].pid
  IN /\ pc[s] = "load_partition"
     /\ live' = live \cup {p}
     /\ col' = [h \in Handles |-> col[h] \/ h[1] = p]
     /\ resident' = [h \in Handles |-> resident[h] \/ h[1] = p]
     /\ stored' = [stored EXCEPT ![s].keys = HandlesOf(p)]
     /\ Goto(s, "put_keys")
     /\ UNCHANGED <<scheduled, hlock, lru, loadVars, planVars, disk, nextPid, target, victim, job>>

\* Fault: the keys never reach the LRU list.
PutKeyNowhere(s, h) ==
  /\ pc[s] = "put_keys" /\ h \in stored[s].keys
  /\ stored' = [stored EXCEPT ![s].keys = @ \ {h}]
  /\ Goto(s, IF stored[s].keys = {h} THEN "done" ELSE "put_keys")
  /\ UNCHANGED <<handleVars, loadVars, planVars, live, disk, nextPid, target, victim, job>>

PutKey(s, h) ==
  /\ pc[s] = "put_keys" /\ h \in stored[s].keys
  /\ lru' = LruPut(h)
  /\ stored' = [stored EXCEPT ![s].keys = @ \ {h}]
  /\ Goto(s, IF stored[s].keys = {h} THEN "done" ELSE "put_keys")
  /\ UNCHANGED <<col, resident, scheduled, hlock, loadVars, planVars, live, disk, nextPid, target, victim, job>>

-----------------------------------------------------------------------------
ReaderStep(r) ==
  \/ \E h \in Handles : GetOrLoad(r, h)
  \/ CheckResident(r)
  \/ TryGet(r)
  \/ CheckScheduled(r)
  \/ AwaitLoad(r)
  \/ Park(r)
  \/ SpuriousWakeup(r)
  \/ PointLookup(r)
  \/ LoadColumn(r)
  \/ LockColumn(r)
  \/ SetColumn(r)

PlanStep(q) ==
  \/ \E columns, buffered \in SUBSET Names : BeginPlan(q, columns, buffered)
  \/ \E p \in Pids \cup {MaxPid}, over \in BOOLEAN : MatchPartition(q, p, over)
  \/ \E p \in Pids \cup {MaxPid} : BeginRun(q, p) \/ ExtendRun(q, p)
  \/ EndPlan(q)

BulkStep(q) ==
  \/ \E buffered \in SUBSET Names : BeginBulk(q, buffered)
  \/ \E h \in Handles \cup ({MaxPid} \X Names), over \in BOOLEAN : BulkColumn(q, h, over)
  \/ \E n \in Names : FlushBulk(q, n)
  \/ EndBulk(q)

LoaderStep(l) ==
  \/ StartService(l)
  \/ MarkInProgress(l)
  \/ PopRun(l)
  \/ StopService(l)
  \/ AcquireRead(l)
  \/ \E n \in Names : LoadColumnRange(l, n)
  \/ \E p \in Pids : LockRestore(l, p) \/ SetRestored(l, p)
  \/ RestorePanic(l)
  \/ RangeDone(l)
  \/ RunDone(l)

EvictorStep(e) ==
  \/ \E h \in Handles : EvictLru(e, h)
  \/ LockEvict(e)
  \/ DropColumn(e)

StoreStep(s) ==
  \/ AllocatePid(s)
  \/ WritePartition(s)
  \/ LoadPartition(s)
  \/ \E h \in Handles : PutKey(s, h)

Next ==
  \/ \E r \in Readers : ReaderStep(r)
  \/ \E q \in Queries : PlanStep(q) \/ BulkStep(q)
  \/ \E l \in Loaders : LoaderStep(l)
  \/ \E e \in Evictors : EvictorStep(e)
  \/ \E s \in Stores : StoreStep(s)

Spec == Init /\ [][Next]_vars

(* A thread that can take a step takes it; a thread that waits for a mutex   *)
(* or for a permit gets it if it becomes free again and again.  Calls,       *)
(* evictions and spurious wakeups need never happen, and an error is no      *)
(* progress: there is no fairness for GetOrLoad, SpuriousWakeup, BeginPlan,  *)
(* BeginBulk, EvictLru, AllocatePid and RestorePanic.                        *)

ReaderFairness(r) ==
  /\ WF_vars(CheckResident(r) \/ CheckScheduled(r) \/ Park(r) \/ LoadColumn(r) \/ SetColumn(r))
  /\ SF_vars(TryGet(r)) /\ SF_vars(AwaitLoad(r))
  /\ SF_vars(PointLookup(r)) /\ SF_vars(LockColumn(r))

LoaderFairness(l) ==
  /\ WF_vars(StartService(l) \/ (\E n \in Names : LoadColumnRange(l, n))
             \/ (\E p \in Pids : SetRestored(l, p)) \/ RangeDone(l) \/ RunDone(l))
  /\ SF_vars(MarkInProgress(l)) /\ SF_vars(PopRun(l) \/ StopService(l))
  /\ SF_vars(AcquireRead(l)) /\ SF_vars(\E p \in Pids : LockRestore(l, p))

QueryFairness(q) ==
  /\ WF_vars((\E p \in Pids \cup {MaxPid}, over \in BOOLEAN :
                MatchPartition(q, p, over) \/ BeginRun(q, p) \/ ExtendRun(q, p)) \/ EndPlan(q))
  /\ WF_vars(EndBulk(q) \/ (\E n \in Names : FlushBulk(q, n))
             \/ (\E h \in Handles \cup ({MaxPid} \X Names), over \in BOOLEAN : BulkColumn(q, h, over)))

EvictorFairness(e) == WF_vars(DropColumn(e)) /\ SF_vars(LockEvict(e))

StoreFairness(s) ==
  WF_vars(WritePartition(s) \/ LoadPartition(s) \/ (\E h \in Handles : PutKey(s, h)))

FairSpec ==
  /\ Spec
  /\ \A r \in Readers : ReaderFairness(r)
  /\ \A l \in Loaders : LoaderFairness(l)
  /\ \A q \in Queries : QueryFairness(q)
  /\ \A e \in Evictors : EvictorFairness(e)
  /\ \A s \in Stores : StoreFairness(s)

-----------------------------------------------------------------------------
(* Properties.                                                             *)

Labels ==
  {"idle", "check_resident", "try_get", "check_scheduled", "await_load", "park", "asleep",
   "point_lookup", "load_column", "lock_column", "set_column",
   "match", "begin_run", "extend_run", "bulk", "done",
   "mark", "next_read", "acquire", "next_column", "restore", "set_restored", "restore_other",
   "panicked", "evict", "drop_column", "write", "load_partition", "put_keys"}

\* Every variable has its type.
TypeOK ==
  /\ live \subseteq Pids /\ disk \subseteq Pids /\ nextPid \in Nat
  /\ col \in [Handles -> BOOLEAN] /\ resident \in [Handles -> BOOLEAN]
  /\ scheduled \in [Handles -> BOOLEAN] /\ hlock \in [Handles -> Threads \cup {NoThread}]
  /\ lru \subseteq Handles
  /\ queue \in Seq(Run) /\ qlock \in Queries \cup {NoThread}
  /\ inProgress \in BOOLEAN /\ bgLock \in Readers \cup {NoThread}
  /\ permits \in Nat /\ services \in Nat
  /\ pc \in [Threads -> Labels]
  /\ target \in [Readers -> Handles \cup {NoHandle}]
  /\ victim \in [Evictors -> Handles \cup {NoHandle}]
  /\ job \in [Loaders -> Job]
  /\ plan \in [cols : SUBSET Names, buffer : SUBSET Names, run : Run, prev : Nat,
               todo : SUBSET (Pids \cup {MaxPid})]
  /\ bulk \in [todo : SUBSET ((Pids \cup {MaxPid}) \X Names), runs : [Names -> Run]]
  /\ stored \in [Stores -> [pid : Pids \cup {0}, keys : SUBSET Handles]]

\* Whenever no thread is inside the critical section of a handle, its resident flag, which
\* get_or_load and the read planner test without the mutex, says whether the column is there.
ResidentIffPresent ==
  \A h \in Handles : hlock[h] = NoThread => (resident[h] <=> col[h])

Chosen(h) == \E e \in Evictors : pc[e] \in {"evict", "drop_column"} /\ victim[e] = h
Unlisted(h) == \E s \in Stores : pc[s] = "put_keys" /\ h \in stored[s].keys

\* The memory limit can reclaim every loaded column: its key is in the LRU list, or an
\* evictor has just taken it from there, or store_partition is about to put it there.
LoadedIsEvictable ==
  \A h \in Handles : col[h] => h \in lru \/ Chosen(h) \/ Unlisted(h)

\* The LRU list has no key whose column is gone, so that an eviction always frees
\* memory; between two critical sections of the handle the two agree.
ListedIsLoaded ==
  \A h \in lru : hlock[h] = NoThread => col[h]

\* load_column unwraps what the disk store returns: a handle that get_or_load can be
\* asked for is on disk, also while its partition is being stored.
PointLookupFinds ==
  \A r \in Readers : pc[r] \in {"point_lookup", "load_column"} => target[r][1] \in disk

\* What a loader still has to restore of its run.
Loading(l, h) ==
  \/ Covers([job[l].run EXCEPT !.columns = job[l].cols], h)
  \/ h[2] = job[l].name /\ h[1] \in job[l].todo

\* get_or_load waits for a column whose load_scheduled flag is set instead of reading it.
\* Such a promise is always kept by somebody: a run in the queue or in the hands of the
\* planner that made it, or a loader (one that panicked included) that has not come to it.
PromiseCovered ==
  \A h \in Handles : scheduled[h] =>
    \/ \E i \in DOMAIN queue : Covers(queue[i], h)
    \/ Covers([plan.run EXCEPT !.end = plan.prev], h)
    \/ Covers(bulk.runs[h[2]], h)
    \/ \E l \in Loaders : Loading(l, h)

\* A thread that reads from disk holds one of the read_threads permits of the semaphore,
\* and a permit is never lost, not even by a loader that panics.
PermitsConserved ==
  permits + Cardinality({t \in Threads :
      pc[t] \in {"load_column", "next_column", "restore", "set_restored", "restore_other"}})
    = ReadThreads

\* A promise to load a column is kept: a column promised to the readers of a query is
\* restored in the end, as long as a worker is there to run service_reads.
PromiseFulfilled ==
  \A h \in Handles : scheduled[h] ~> ~scheduled[h]

\* get_or_load returns, provided the memory limit does not evict for ever (a reader that
\* sees the flag and not the column starts over, and eviction may take it away again).
GetReturns ==
  (\A e \in Evictors : <>[](pc[e] = "idle")) =>
    \A r \in Readers : (pc[r] = "check_resident") ~> (pc[r] = "idle")

-----------------------------------------------------------------------------
(* The inductive invariant behind the residency properties.                  *)

\* Thread t is in the critical section of handle h.
Inside(t, h) ==
  \/ t \in Readers /\ pc[t] = "set_column" /\ target[t] = h
  \/ t \in Evictors /\ pc[t] = "drop_column" /\ victim[t] = h
  \/ /\ t \in Loaders /\ pc[t] = "set_restored"
     /\ h[2] = job[t].name /\ IsSmallest(h[1], job[t].todo)

\* A mutex of a handle is held by exactly the thread that is in its critical section.
LockOwnership ==
  \A h \in Handles : \A t \in Threads : hlock[h] = t <=> Inside(t, h)

\* What a thread works on is a handle of a partition in the table, and is on disk.
WorksOnLive ==
  /\ live \subseteq disk
  /\ \A h \in Handles : col[h] \/ resident[h] \/ hlock[h] # NoThread => h[1] \in live
  /\ \A r \in Readers : pc[r] # "idle" => target[r] \in Handles /\ target[r][1] \in live
  /\ \A e \in Evictors : pc[e] # "idle" => victim[e] \in Handles /\ victim[e][1] \in live
  /\ \A l \in Loaders : \A p \in job[l].todo : <<p, job[l].name>> \in Handles

\* Partition ids are unique: a partition that is being stored is not in the table yet,
\* and two stores have different ids.
FreshPids ==
  /\ \A p \in disk : p < nextPid
  /\ \A s \in Stores : pc[s] \in {"write", "load_partition", "put_keys"} =>
       /\ stored[s].pid \in NewPids /\ stored[s].pid < nextPid
       /\ pc[s] # "put_keys" => stored[s].pid \notin live
       /\ pc[s] # "write" => stored[s].pid \in disk
       /\ pc[s] = "put_keys" => /\ stored[s].pid \in live
                                /\ stored[s].keys \subseteq HandlesOf(stored[s].pid)
  /\ \A s, t \in Stores :
       /\ s # t
       /\ pc[s] \in {"write", "load_partition", "put_keys"}
       /\ pc[t] \in {"write", "load_partition", "put_keys"}
       => stored[s].pid # stored[t].pid

\* In the middle of an eviction the flag is already cleared.
FlagInside ==
  \A h \in Handles :
    /\ hlock[h] \in Evictors => ~resident[h]
    /\ hlock[h] \notin Evictors => (resident[h] <=> col[h])

\* The key is listed before the column is there, and unlisted after it has gone.
ListedInside ==
  \A h \in Handles :
    /\ col[h] \/ hlock[h] \in Readers \cup Loaders => h \in lru \/ Chosen(h) \/ Unlisted(h)
    /\ h \in lru => col[h] \/ hlock[h] \in Readers \cup Loaders

\* Nobody touches the LRU entry of a stored column before store_partition has made it.
UnlistedIsLoaded ==
  \A h \in Handles : Unlisted(h) =>
    /\ col[h] /\ resident[h] /\ h \notin lru /\ ~Chosen(h)
    /\ \A r \in Readers : target[r] = h => pc[r] \in {"idle", "check_resident", "try_get"}

CacheInv ==
  /\ TypeOK /\ LockOwnership /\ WorksOnLive /\ FreshPids
  /\ FlagInside /\ ListedInside /\ UnlistedIsLoaded

=============================================================================
