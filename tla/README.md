# A verification of LocustDB

LocustDB is an in-memory column store. Clients ingest rows or whole partitions
into tables and run queries; worker threads share the partitions of a query;
columns are evicted under memory pressure and read back from a disk store. The
modules here model the concurrent core of that program and what its queries
compute, from the encoded columns to the answer. TLC checks them on small
instances, and TLAPS proves the invariants of the concurrent parts for every
instance. File names below are relative to `src/src/`.

## The system

| part | state | operations | modelled by |
| --- | --- | --- | --- |
| worker pool (`scheduler/inner_locustdb.rs`, `task.rs`) | task queue, `running`, condition variable | `schedule`, `await_task`, `worker_loop`, `stop`, `recover` | `WorkerPool` |
| column cache (`scheduler/disk_read_scheduler.rs`, `mem_store/partition.rs`, `lru.rs`) | column handles, LRU list, queue of reads, reader semaphore | `get_or_load`, `schedule_sequential_read`, `schedule_bulk_load`, `service_reads`, eviction | `ColumnCache` |
| tables (`mem_store/table.rs`, `inner_locustdb.rs`) | catalog, partitions, ingestion buffer, next partition id | `create_if_empty`, `ingest`, `batch`, `store_partition`, `snapshot`, restart | `TableStore` |
| one query (`engine/execution/query_task.rs`) | partition counter, partial results, oneshot sender | `run`, `push_result`, `push_colstack`, `fail_with` | `QueryTask`, its promise in `QueryAnswer` |
| merging of results (`engine/execution/batch_merging.rs`, `operators/merge_*.rs`) | result columns of partitions | `combine`, final pass | `BatchMerge`, `PartitionQuery`, `QueryData` |
| column encodings (`mem_store/integers.rs`, `strings.rs`, `column_builder.rs`, `codec.rs`, `stringpack.rs`) | sections and codec of a column | building, compressing, decoding | `Columns` |
| query plans (`engine/planning/`) | operators and their buffers | `run`, `run_aggregate`, `compile_expr`, null propagation | `Planner` |
| executor (`engine/execution/executor.rs`, `scratchpad.rs`, `engine/operators/`) | stages, buffers, local state of operators | `partition`, `init_stage`, `run_stage`, every operator's `execute` | `Executor` on top of `Operators` |
| disk store (`disk_store/`) | partitions by id | write and read | a variable of `TableStore` and of `ColumnCache` |
| parsing and normalisation, CSV loading, server, logging client, REPL | | | not modelled, see the end |

A client call becomes a task (`WorkerPool`). A query runs on a snapshot of a
table (`TableStore`), claims its partitions (`QueryTask`), fetches each column
through `get_or_load` (`ColumnCache`), plans and executes operators on it
(`Planner`, `Executor`), and merges the results (`QueryData`). A thread of its
own enforces the memory limit by evicting from the LRU list.

What makes this hard: flags that are read without the mutex that guards what
they describe; waits on condition variables; two locks taken in two orders;
table creation as test-then-insert; two schemes for partition ids; panics that
poison a mutex and unwind a worker; answers that may leave by several doors;
crashes between a write and its publication; buffers that are reused, aliased
and replaced batch by batch. `PROJECT.json` lists each such hazard with its line
and the properties that would catch it.

## Modules

**ColumnCache.** One table's column handles. `col` is the slot, `resident` and
`scheduled` are the flags read without its mutex, `hlock` the mutex, `lru` the
list as a set. A step is one critical section or one access to shared memory.
Contents of columns are reduced to presence, byte comparisons to a free choice.
`GetOrLoad` to `SetColumn` is `get_or_load`; `BeginPlan` to `EndPlan` and
`BeginBulk` to `EndBulk` are the two planners; `StartService` to `RunDone` is
`service_reads`; `EvictLru`, `LockEvict`, `DropColumn` are an eviction;
`AllocatePid` to `PutKey` is `store_partition`. `RestorePanic` is the panic of
`partitions[&id]` in a table that lacks the id.

**WorkerPool.** A task is the number of work units it has left; `job` is what a
thread executes, and `LockFree` is the queue's mutex. With sequential reads a
query comes with a task that reads the columns it promised, and a worker that
needs a promised column waits for it (`Blocked`). Of two such reading tasks, the
second returns together with the first, where the code lets it return as soon as
no run is queued.

**TableStore.** A client's nested calls (`create_if_empty` ingests into
`_meta_tables`, which may itself be created) are a stack of jobs; who holds
which lock follows from their stages. A partition has one column. The variable
`setup` is the database of a behaviour: what is ingested, whether it is
persistent, what is on disk at the start, whether memory is tight, and how many
snapshots and crashes there are. Its field `oneCreator` says that clients do not
use a missing table together.

**QueryTask, QueryAnswer.** A result is the set of partitions behind it, its
level, batch count and number of rows. What happens under `unsafe_state` is one
step. `query` is the query of a behaviour; its failing and panicking partitions
are those that *may* fail or panic. `QueryAnswer` is the caller's view: one
answer, made from the whole snapshot unless an unordered query stops early, an
error only if something can fail, "canceled" only if something panics or
`recover()` is called. `Promise` is the refinement, with the mapping `outcome`
to `answer`.

**BatchMerge, PartitionQuery, QueryData.** Columns are sequences of integers;
strings and floats are integers too, because only their order counts. A null is
`I64Min`, which is what `fuse_nulls` makes of it. `PartitionQuery` has what one
partition computes: `Run` is `NormalFormQuery::run` and yields every outcome an
unstable sort can have, `RunAggregate` is `run_aggregate` from the encoding of
the group columns over single, packed or row keys, raw or hashed, to compacted
accumulators. `BatchMerge` has `combine` and its operators. Neither has state.
`QueryData` is the state machine: partitions are executed in any order and any
two results are combined either way round, which includes every order the
threads of a `QueryTask` can produce. Overflows, errors and panics are outcomes.

**Columns, Operators, Planner, Executor, ExecutorAnswer.** A query on one
partition, step by step. `Columns` encodes the values: offsets, differences,
dictionaries, packed and hex-packed strings, null maps, compression, and the
codec that undoes them. `Planner` is a stack machine over the tokens of the
query; it gives the operators that `compile_expr`, `run` and `run_aggregate` make,
with their types, and rewrites them for nulls. `Operators` has the scratchpad
(aliases, pinned buffers, null maps) and each operator's effect on it for one
batch. `Executor` forms stages out of the operators, orders them (one step per
operator that is visited or sorted), runs them batch by batch (one step per
operator), and collects the answer. `ExecutorAnswer` says row by row what the
answer should be. Arithmetic wraps as it does in a release build.

**MC modules.** They give the constants small values: sets of threads, queries,
setups and cases. Definitions whose comment starts with "Fault:" are not part of
any specification. Each is a plausible mistake in the definition below it; put
in its place, it makes the property named in `PROJECT.json` fail.

## Runs

| run | instance | distinct states | shows |
| --- | --- | --- | --- |
| cache_safety | a reader, 2 loaders, a planner, an evictor, a store, 2 partitions, other tables | 336,297 | flags, slots, LRU list, disk, permits and promises agree |
| cache_live | a reader, a loader, a planner, 2 partitions | 11,252 | promised columns are restored |
| pool | 2 workers and a spare, 2 queries with their reads, panics, `recover()`, `stop()` | 212,420 | no lost wakeup, tasks taken once and served, workers exit |
| tables | 3 clients ingest 4 rows in batches of 2 in memory, or 2 clients load partitions under eviction and a crash; up to 2 snapshots | 191,822 | append only, readable, exact snapshots, nothing on disk overwritten |
| query | 8 queries over 3 to 5 partitions and 2 or 3 workers: early stop, failure, clash of types, panics, `recover()`, OFFSET too large | 298,422 | the answer is complete and of the right size, each partition counts once, merges stay balanced, results stay valid, the promise is kept, the receiver resolves |
| query_data | 10,122 queries with their tables: ORDER BY one to three columns, top-n, WHERE, GROUP BY one or two columns of every encoding, sums at the edges of i64, a final pass; up to 3 partitions | 86,958 | every intermediate result and the answer are what the query means; errors are overflows |
| executor | some 1,300 queries on one partition, with a column in each of 15 encodings and up to two batches | 129,135 | the answer is what the rows say, failures have a reason, stages and in-place operators are in order, operands are aligned, batches end |

Five runs look for a counterexample and find one. Each is a disagreement between
the code and what the repository says of it, quoted in `PROJECT.json`:

- `cache_wakeup`: with sequential reads, a reader between its test and its wait
  misses the last `notify_all` and sleeps for ever.
- `tables_deadlock`: `Table::snapshot` keeps the read guard of `partitions`
  while it locks `buffer`; `batch` takes them the other way round.
- `tables_batch_ids`: a batch takes the id of a stored partition.
- `query_floats`: `ORDER BY` a float column ascending with a `LIMIT` below half
  the partition returns other rows, in descending order.
- `executor_lengths`: of a column that is selected beside an expression of it,
  only the last batch is left.

### Bounds

They are the least at which the interesting cases meet: two threads that race
with each other and with one of every other kind, a full and a part-filled
batch, a stack of two merge levels, an early stop before and after the last
partition, a crash so that ids are handed out again. The integer types are
narrow, so that small numbers meet their edges: in `executor` an i64 is -64 to
63, the unsigned types end at 3, 7 and 15, a byte of a null map has 2 bits
(`ByteBits`), a packed string of length 2 needs a second length byte
(`LengthMarker`), a batch has 4 rows (`BatchSize`) and a partition up to 8; keys up
to `MaxRawGroups` are grouped without a hash map. In `query_data`, `NarrowMax`,
`RawKeyLimit` and `KeyBits` do the same. `clients`, `snapshots` and `restarts` of a
setup bound what happens to a table store. Symmetry is used where clients and
rows are interchangeable and no liveness is checked. Deadlock checking is off
where the system may rest: all calls made, query answered, pool stopped, loaders
dead.

### What the passing runs keep clear of

Where a known fault would hide everything else, the passing runs avoid it.

- `tables`: a setup either ingests or loads (`tables_batch_ids` has both).
  `oneCreator` is TRUE: without it two threads that create one table at the same
  time can lose what the first has stored, and `AppendOnly` fails. `memoryTight`
  is FALSE for the database in memory: the columns of a batch, which no disk store
  has, could be evicted, and `Readable` fails.
- `pool`: `TaskServed` and `WorkersExit` except workers that are stranded (a later
  query promised the column they wait for, and its read is behind them) and, for
  the former, columns that stay promised after `recover()` dropped their reads
  (`Stranded`, `Orphaned`).
- `query_data`: as many sort columns as make the loop of `combine` end in bounds,
  a matching row in every partition for an aggregate without groups, `LIMIT`
  above 0, `OFFSET` within the rows, no nullable narrow column with its largest
  value, no nullable column under `top_n`. `FailsOnlyOnOverflow` or
  `PartialGroupsRight` fails with a case of any of these shapes. The maximum and
  minimum of no value are taken to be the units of the code, `i64::MIN` and
  `i64::MAX`. `CasesAssumption` says that every partition has every column and
  that no column spans more than `i64::MAX`.

The executor run does have the faulty cases. `ExecutorAnswer` names each defect,
and a property excepts only those that break it:

| defect | source | what happens | excepted by |
| --- | --- | --- | --- |
| `GroupsByZero` | `query_plan.rs:1254` | `GROUP BY x / 0` panics in the planner, which divides the key's range | nobody: `FailsRightly` says that it panics |
| `DividesLeast` | `numeric_operators.rs:103` | `i64::MIN / -1` panics; only zero is looked for | nobody: `FailsRightly` says that it panics |
| `InPlaceCycle`, `InPlaceTwice` | `executor.rs:341`, `bool_op.rs:27` | `a AND b OR a` and `a AND a` panic: one buffer is changed and read | `ProducersFirst` and `InPlaceLast` (`InPlaceCycle`); `FailsRightly` says that they panic |
| `NullTestFilter` | `query.rs:184` | an aggregation over `IS NULL` takes every row | nobody: `AnswerRight` says that it does |
| `SlicesNullMap` | `column_ops.rs:17` | a null map is cut into batches like a column of bytes: a panic in the second batch | `FailsRightly` |
| `KeyTooWide` | `query_plan.rs:1328` | the range of a grouping key is wider than i64: wraps, mostly a panic | `FailsRightly` |
| `CutsPacked` | `column.rs:123` | packed strings are cut when a column is decompressed after loading: a panic or missing strings | `AnswerRight`, `FailsRightly`, `OperandsAligned` |
| `KeyWraps` | `fuse_nulls.rs:167` | a nullable u8 key has no room for null: the largest key joins the nulls | `AnswerRight` |
| `StringNotFound` | `dict_lookup.rs:56` | `<` with a string that is not in the dictionary takes it for the least | `AnswerRight` |
| `LosesBatches` | `executor.rs:160` | of a streamed buffer that is part of the answer the last batch is left (`executor_lengths`) | `AnswerRight` |
| `ReadsTemp` | `executor.rs:376` | a streaming stage reads a whole temporary result with every batch; the code says so, "TODO(#98)" | `AnswerRight`, `OperandsAligned` |

The first, second and fourth contradict an error message or a test and are
findings of the executor run.

## Fairness

Threads that can run do run (weak fairness). A mutex or permit that is free
again and again is granted to a waiting thread (strong fairness); the standard
library does not promise this, but the schedulers it runs on do not starve a
thread for ever. Nothing obliges a client to call, a sleeper to wake without a
notification, memory to run short, or a thread to panic. `GetReturns` assumes
that evictors rest in the end. `PromiseFulfilled` assumes a worker that is free
to run `service_reads`, and that `restore` does not panic. `QueryResolves`
assumes that idle workers return to the queue. `QueryData` and `Executor` have no
liveness property; `BatchesBounded` bounds the executor's loop instead.

## Proofs

The theorems hold for any number of threads, columns, partitions, tables, rows
and tasks, under the assumptions on the constants that the modules name and TLC
evaluates: kinds of threads are disjoint, partition ids are numbers and new ones
are larger than old ones, batch sizes are positive, a setup's disk holds what
belongs to its tables, and the fields of a query have their types.

**The column cache** (`ColumnCacheSteps`, `ColumnCacheProofs`). `CacheInvariant`:
`Spec` implies always `CacheInv`, and from it follow `TypeOK`,
`ResidentIffPresent`, `LoadedIsEvictable`, `ListedIsLoaded` and
`PointLookupFinds`. These properties are not inductive by themselves.
`ResidentIffPresent` speaks of free mutexes, so the step that releases one must
know what holds inside the critical section: `FlagInside` and `ListedInside` say
that, and `LockOwnership` says that only one thread is inside. `WorksOnLive`
keeps threads on partitions of the table, `FreshPids` keeps two stores apart, and
`UnlistedIsLoaded` covers the moment between a partition's publication and its
entry in the LRU list. `PromisesKept` proves `PromiseCovered` by `PromiseInv`:
the planner's run and the bulk runs grow in the order of ids, so that closing one
loses no partition, and a loader between two runs has nothing left to restore. `PermitsKept`
proves `PermitsConserved` by `PermitInv`, which counts the threads that read.

**The worker pool** (`WorkerPoolProofs`). `PoolInv` adds to `NoIdleSleeper` and the
type that a thread that executes has a task, that the queue stays empty from a
thread's test to its wait, and that a task is queued once and is not queued while
a thread has it, unless it is multithreaded.
From it follow `TasksTakenOnce` and `NotificationsSuffice`.

**Tables** (`TableStoreProofs`). `StoreInv` is the types, the shape of the stack of
calls (`CallersWait`) and that ids on disk and on their way there are below the
next one and distinct (`IdsTaken`). From it follow `StoreTypeCorrect` and
`PartitionsWrittenOnce`, the action property `DiskImmutable`.

**The query task** (`QueryTaskSteps`, `QueryTaskInvariant`, `QueryTaskRows`,
`QueryTaskProofs`). `TaskInv` says who owns which partition: a claimed
partition is with one thread or in one shared result, and with one of them as long
as nothing has failed or panicked (`Ownership`, `Counted`, `Covered`, `Causes`). `TaskNeat` adds how many rows each
result has, wherever it was cut off, and that levels fall along a stack. From both
follow `TypeOK`, `EachPartitionOnce`, `CanceledOnlyByPanic`, `AnswerComplete`,
`AnswerSize`, `ReferencedAlive` and `MergesBalanced`. `TaskKeepsPromise` is the
refinement: the first state maps to a first state of `QueryAnswer`, and every step
answers or stutters. `Library` collects the facts about numbers and finite sets
that the steps use; `QueryTaskProofs` proves them from the library's theorems.

Only model-checked: `AppendOnly`, `Readable` and `SnapshotExact` of `TableStore`,
whose invariant relates every call on every stack to every lock and would need a
strengthening far larger than `StoreInv`; everything about `QueryData` and
`ExecutorAnswer`, whose definitions fold and recurse over data, where the prover
has no induction; and all liveness, which is beyond the prover.

## Not modelled, and why

- Parsing and normalisation: pure functions from a text to a syntax tree, over an
  external SQL parser. The cases of `query_data` and `executor` are normalised
  queries.
- In queries: floats but for `query_floats`, columns that some partitions lack or
  store in another type, mixed columns, `LIKE`, regular expressions, `LENGTH`,
  `TO_YEAR`, `FLOOR`. They are kernels per row, or need types that the models
  reduce to integers.
- The byte counts of the memory limit: when the evictor starts and stops is a free
  choice, which includes what the counts would decide.
- The contents of columns in `ColumnCache`: a column is there or not.
- RocksDB, serialisation and the LZ4 bytes: external.
- CSV loading and table generation: parsing and random data; what they store goes
  through `store_partition` and the column builders.
- Server, logging client, REPL, formatting and explain texts: I/O. The client
  sends without acknowledgement or retry and promises nothing that could be
  checked.
- Torn writes: `store_partition` writes one batch to RocksDB, which is one step
  here.
