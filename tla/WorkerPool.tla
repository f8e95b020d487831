----------------------------- MODULE WorkerPool -----------------------------
(***************************************************************************)
(* The thread pool (scheduler/inner_locustdb.rs, scheduler/task.rs): a      *)
(* queue of tasks, worker threads that sleep on a condition variable while  *)
(* it is empty, multithreaded tasks that stay at the front of the queue     *)
(* until they are completed, stop() and recover().                          *)
(*                                                                          *)
(* A task is abstracted to the units of work it has left: the partitions    *)
(* of a query that nobody has claimed, or the one call of any other task.   *)
(*                                                                          *)
(* With sequential reads (seq_disk_read) run_query first promises the       *)
(* columns of the query and schedules a task that reads them, and a worker  *)
(* that needs a promised column keeps its thread until the column is there. *)
(* How a column gets there is ColumnCache's subject; here a read restores   *)
(* one column after another.                                                *)
(***************************************************************************)
EXTENDS Integers, Sequences, SequencesExt, FiniteSetsExt

CONSTANTS
  Workers,  \* threads started with the database
  Spare,    \* threads that recover() starts
  Tasks,    \* tasks that clients schedule
  Multi,    \* multithreaded tasks: queries
  Units,    \* units of work, by task
  Panics,   \* tasks whose execution may panic
  Columns,  \* columns on disk
  Needs,    \* the columns of a query, by task
  ReadOf,   \* the service_reads task that run_query schedules for a query
  Stops,    \* the database may be dropped
  NoTask    \* what a thread executes between tasks

Threads == Workers \cup Spare

ASSUME PoolAssumption ==
  /\ Workers \cap Spare = {} /\ Multi \subseteq Tasks /\ Panics \subseteq Tasks
  /\ NoTask \notin Tasks /\ Stops \in BOOLEAN
  /\ Units \in [Tasks -> Nat] /\ \A t \in Tasks \ Multi : Units[t] = 1
  /\ Needs \in [Tasks -> SUBSET Columns] /\ \A t \in Tasks \ Multi : Needs[t] = {}
  /\ ReadOf \in [Multi -> Tasks \ Multi]

VARIABLES
  queue,     \* InnerLocustDB.task_queue
  running,   \* InnerLocustDB.running
  scheduled, \* tasks that have been scheduled
  dropped,   \* tasks that drop_pending_tasks has removed
  left,      \* units of work left, by task
  promised,  \* columns with ColumnHandle.load_scheduled, in a run of the disk reader's queue
  resident,  \* columns in memory
  pc,        \* control state of a thread
  job        \* the task a thread executes

taskVars == <<scheduled, dropped, left>>
readVars == <<promised, resident>>
vars == <<queue, running, taskVars, readVars, pc, job>>

ReadTasks == Range(ReadOf)

Init ==
  /\ queue = <<>> /\ running = TRUE
  /\ scheduled = {} /\ dropped = {} /\ left = Units
  /\ promised = {} /\ resident = {}
  /\ pc = [w \in Threads |-> IF w \in Workers THEN "loop" ELSE "unborn"]
  /\ job = [w \in Threads |-> NoTask]

\* Task::completed.
Completed(t) == t \in Multi /\ left[t] = 0

\* The queue's mutex is free unless a thread is between its test of `running` and its wait.
LockFree == \A w \in Threads : pc[w] # "park"

Asleep == {w \in Threads : pc[w] = "asleep"}

\* Condvar::notify_one, given what the calling thread does to pc: wakes a sleeper, if any.
NotifyOne(p) ==
  IF Asleep = {} THEN pc' = p ELSE \E w \in Asleep : pc' = [p EXCEPT ![w] = "await"]

-----------------------------------------------------------------------------
(* Clients.                                                                  *)

\* Fault: the query is scheduled before its reads.
QueryFirst(t) == \A q \in Multi : ReadOf[q] = t => q \in scheduled

\* run_query schedules the reads of a query, then the query.
InOrder(t) == t \in Multi => ReadOf[t] \in scheduled

\* schedule_sequential_read, before the task that reads is scheduled: promises the columns
\* that are not in memory.
Promised(t) == UNION {Needs[q] \ resident : q \in {p \in Multi : ReadOf[p] = t}}

\* schedule.  A promise made some steps earlier than the read is scheduled would only make
\* a worker wait earlier.
Schedule(t) ==
  /\ t \notin scheduled /\ LockFree /\ running /\ InOrder(t)
  /\ queue' = Append(queue, t) /\ scheduled' = scheduled \cup {t}
  /\ promised' = promised \cup Promised(t)
  /\ NotifyOne(pc)
  /\ UNCHANGED <<running, dropped, left, resident, job>>

\* Fault: `running` is cleared without the queue's mutex.
StopUnlocked ==
  /\ Stops /\ running /\ running' = FALSE
  /\ pc' = [w \in Threads |-> IF pc[w] = "asleep" THEN "await" ELSE pc[w]]
  /\ UNCHANGED <<queue, taskVars, readVars, job>>

\* stop(), called when the LocustDB is dropped.
Stop ==
  /\ Stops /\ running /\ LockFree
  /\ running' = FALSE
  /\ pc' = [w \in Threads |-> IF pc[w] = "asleep" THEN "await" ELSE pc[w]]
  /\ UNCHANGED <<queue, taskVars, readVars, job>>

\* recover(): drop_pending_tasks, then start_worker_threads.
Recover ==
  /\ running /\ LockFree /\ \E w \in Spare : pc[w] = "unborn"
  /\ queue' = <<>> /\ dropped' = dropped \cup Range(queue)
  /\ pc' = [w \in Threads |-> IF pc[w] = "unborn" THEN "loop" ELSE pc[w]]
  /\ UNCHANGED <<running, scheduled, left, readVars, job>>

\* enforce_mem_limit: evicts a column.
Evict(c) ==
  /\ c \in resident /\ resident' = resident \ {c}
  /\ UNCHANGED <<queue, running, taskVars, promised, pc, job>>

-----------------------------------------------------------------------------
(* Workers.                                                                  *)

\* worker_loop's condition.
CheckRunning(w) ==
  /\ pc[w] = "loop"
  /\ pc' = [pc EXCEPT ![w] = IF running THEN "await" ELSE "exited"]
  /\ UNCHANGED <<queue, running, taskVars, readVars, job>>

\* await_task with an empty queue: gives up, or goes to sleep with the mutex held until then.
AwaitEmpty(w) ==
  /\ pc[w] = "await" /\ LockFree /\ queue = <<>>
  /\ pc' = [pc EXCEPT ![w] = IF running THEN "park" ELSE "loop"]
  /\ UNCHANGED <<queue, running, taskVars, readVars, job>>

\* Condvar::wait: releases the mutex and sleeps, in one step.
Park(w) ==
  /\ pc[w] = "park"
  /\ pc' = [pc EXCEPT ![w] = "asleep"]
  /\ UNCHANGED <<queue, running, taskVars, readVars, job>>

\* A sleeper may also wake up without a notification.
WakeUp(w) ==
  /\ pc[w] = "asleep"
  /\ pc' = [pc EXCEPT ![w] = "await"]
  /\ UNCHANGED <<queue, running, taskVars, readVars, job>>

\* The queue from its first task that is not completed.
Pending == LET live == {i \in DOMAIN queue : ~Completed(queue[i])}
           IN IF live = {} THEN <<>> ELSE SubSeq(queue, Min(live), Len(queue))

\* Fault: the thread that takes a task leaves the others asleep.
AwaitTaskAlone(w) ==
  /\ pc[w] = "await" /\ LockFree /\ queue # <<>>
  /\ IF Pending = <<>>
     THEN queue' = <<>> /\ pc' = [pc EXCEPT ![w] = "loop"] /\ UNCHANGED job
     ELSE /\ queue' = IF Head(Pending) \in Multi THEN Pending ELSE Tail(Pending)
          /\ job' = [job EXCEPT ![w] = Head(Pending)]
          /\ pc' = [pc EXCEPT ![w] = "execute"]
  /\ UNCHANGED <<running, taskVars, readVars>>

\* Fault: every task goes back to the front of the queue.
AwaitTaskKeeps(w) ==
  /\ pc[w] = "await" /\ LockFree /\ queue # <<>>
  /\ IF Pending = <<>>
     THEN queue' = <<>> /\ pc' = [pc EXCEPT ![w] = "loop"] /\ UNCHANGED job
     ELSE /\ queue' = Pending
          /\ job' = [job EXCEPT ![w] = Head(Pending)]
          /\ NotifyOne([pc EXCEPT ![w] = "execute"])
  /\ UNCHANGED <<running, taskVars, readVars>>

\* await_task: drops completed tasks, takes the next, leaves a multithreaded one in place
\* and passes the notification on if the queue is not empty.
AwaitTask(w) ==
  /\ pc[w] = "await" /\ LockFree /\ queue # <<>>
  /\ IF Pending = <<>>
     THEN queue' = <<>> /\ pc' = [pc EXCEPT ![w] = "loop"] /\ UNCHANGED job
     ELSE LET t == Head(Pending)
              rest == IF t \in Multi THEN Pending ELSE Tail(Pending)
              p == [pc EXCEPT ![w] = "execute"]
          IN /\ queue' = rest
             /\ job' = [job EXCEPT ![w] = t]
             /\ IF rest = <<>> THEN pc' = p ELSE NotifyOne(p)
  /\ UNCHANGED <<running, taskVars, readVars>>

\* Fault: a unit is claimed of a task that has none left.
ClaimPast(w) ==
  LET t == job[w]
  IN /\ pc[w] = "execute"
     /\ left' = [left EXCEPT ![t] = @ - 1]
     /\ pc' = [pc EXCEPT ![w] = IF left[t] > 0 THEN "unit" ELSE "loop"]
     /\ job' = [job EXCEPT ![w] = IF left[t] > 0 THEN t ELSE NoTask]
     /\ UNCHANGED <<queue, running, scheduled, dropped, readVars>>

\* Task::execute: claims a unit of work, or returns when there is none left.
Claim(w) ==
  LET t == job[w]
  IN /\ pc[w] = "execute"
     /\ left' = [left EXCEPT ![t] = IF @ > 0 THEN @ - 1 ELSE 0]
     /\ pc' = [pc EXCEPT ![w] = IF left[t] > 0 THEN "unit" ELSE "loop"]
     /\ job' = [job EXCEPT ![w] = IF left[t] > 0 THEN t ELSE NoTask]
     /\ UNCHANGED <<queue, running, scheduled, dropped, readVars>>

\* get_or_load waits, or spins, while a column it needs is promised.
Blocked(w) == pc[w] = "unit" /\ Needs[job[w]] \cap promised # {}

\* service_reads takes a run of the disk reader's queue and restores its columns, whoever
\* has planned it.
ServiceRead(w) ==
  /\ pc[w] = "unit" /\ job[w] \in ReadTasks
  /\ \E c \in promised : promised' = promised \ {c} /\ resident' = resident \cup {c}
  /\ UNCHANGED <<queue, running, taskVars, pc, job>>

\* The end of a unit.  A query has loaded the columns nobody had promised; service_reads
\* returns when the disk reader's queue is empty; if another thread is still restoring
\* the last run, it returns with it here.
FinishUnit(w) ==
  LET more == job[w] \in Multi
  IN /\ pc[w] = "unit" /\ ~Blocked(w) /\ (job[w] \in ReadTasks => promised = {})
     /\ resident' = resident \cup Needs[job[w]]
     /\ pc' = [pc EXCEPT ![w] = IF more THEN "execute" ELSE "loop"]
     /\ job' = [job EXCEPT ![w] = IF more THEN @ ELSE NoTask]
     /\ UNCHANGED <<queue, running, taskVars, promised>>

\* A panic ends the thread; the unit it had claimed is not claimed again.
Panic(w) ==
  /\ pc[w] = "unit" /\ job[w] \in Panics /\ ~Blocked(w)
  /\ pc' = [pc EXCEPT ![w] = "dead"]
  /\ job' = [job EXCEPT ![w] = NoTask]
  /\ UNCHANGED <<queue, running, taskVars, readVars>>

Work(w) ==
  \/ CheckRunning(w) \/ AwaitEmpty(w) \/ Park(w) \/ AwaitTask(w)
  \/ Claim(w) \/ ServiceRead(w) \/ FinishUnit(w)

Next ==
  \/ Stop \/ Recover
  \/ \E t \in Tasks : Schedule(t)
  \/ \E c \in Columns : Evict(c)
  \/ \E w \in Threads : Work(w) \/ WakeUp(w) \/ Panic(w)

Spec == Init /\ [][Next]_vars

\* Threads are scheduled, and the queue's mutex is granted to whom it is free again and
\* again.  Nothing obliges a sleeper to wake up by itself.
FairSpec == Spec /\ \A w \in Threads : SF_vars(Work(w))

-----------------------------------------------------------------------------
(* Properties.                                                               *)

\* Every variable has its type (inner_locustdb.rs, InnerLocustDB).
TypeOK ==
  /\ queue \in Seq(Tasks) /\ running \in BOOLEAN
  /\ scheduled \subseteq Tasks /\ dropped \subseteq Tasks /\ left \in [Tasks -> Nat]
  /\ promised \subseteq Columns /\ resident \subseteq Columns
  /\ pc \in [Threads -> {"unborn", "loop", "await", "park", "asleep", "execute", "unit", "exited", "dead"}]
  /\ job \in [Threads -> Tasks \cup {NoTask}]

\* No worker sleeps beside waiting work unless another one is on its way to the queue: the
\* notifications of schedule and of await_task together reach enough sleepers.
NoIdleSleeper ==
  running /\ queue # <<>> /\ Asleep # {} => \E w \in Threads : pc[w] \in {"loop", "await"}

\* A task is in the hands of one thread at most, unless it is multithreaded, and is then
\* not in the queue (await_task's pop_front and push_front).
TakenOnce ==
  \A t \in Tasks \ Multi :
    /\ Cardinality({w \in Threads : job[w] = t}) <= 1
    /\ \A w \in Threads : job[w] = t => t \notin Range(queue)

Living == {w \in Threads : pc[w] \notin {"unborn", "dead", "exited"}}

\* Nobody will execute, or go on executing, the task.
Over(t) == t \in dropped \/ (left[t] = 0 /\ \A w \in Threads : job[w] # t)

\* A worker waits for a column although the read that its own query scheduled is over: a
\* later query has promised the column, or recover() has dropped the read.
Stranded(w) == Blocked(w) /\ Over(ReadOf[job[w]])

\* recover() has dropped the reads of columns that stay promised.
Orphaned == promised # {} /\ \A t \in ReadTasks \cap scheduled : Over(t)

\* Every scheduled task is worked off, also behind multithreaded ones and with workers that
\* wait for promised columns, since run_query schedules the reads before the query: again
\* and again all is done.  Excepted are a stopped database, tasks that recover() drops and
\* what they leave promised, panics that have ended all workers, and workers that are all
\* stranded.
TaskServed ==
  []<>(\/ \A t \in scheduled : Over(t)
       \/ ~running \/ Orphaned \/ \A w \in Living : Stranded(w))

\* "make sure that there are no threads that have checked self.running but not waited on
\* idle_queue yet" (stop): after stop() every worker ends that is not stranded.
WorkersExit == ~running ~> \A w \in Living : Stranded(w)

=============================================================================
