-------------------------- MODULE ColumnCacheProofs --------------------------
(***************************************************************************)
(* The theorems about ColumnCache, for any sets of partitions, columns and  *)
(* threads.  On top of CacheInv two more invariants are needed:             *)
(*   PromiseInv  the columns that are marked load_scheduled are on their     *)
(*               way: the order in which the planners visit partitions is   *)
(*               what makes a run cover them;                               *)
(*   PermitInv   the permits of the semaphore of disk reads.                *)
(***************************************************************************)
EXTENDS ColumnCacheSteps

USE DEF handleVars, loadVars, planVars, storeVars, Goto

-----------------------------------------------------------------------------
(* Promises to load a column.                                                *)

\* The planners work under the queue's mutex, on partitions of the table; what they have
\* not queued yet ends before what they have still to visit; a run that is in nobody's
\* hands is empty; and only columns of the table are promised.
PlanOrder ==
  /\ \A q \in Queries : pc[q] \in {"match", "begin_run", "extend_run", "bulk"} => qlock = q
  /\ (\A q \in Queries : pc[q] \notin {"match", "extend_run"}) => plan.run.columns = {}
  /\ plan.run.start <= plan.prev /\ \A p \in plan.todo : plan.prev <= p
  /\ plan.todo \subseteq live \cup {MaxPid}
  /\ \A h \in Handles : scheduled[h] => h[1] \in live

BulkOrder ==
  /\ (\A q \in Queries : pc[q] # "bulk") => \A n \in Names : bulk.runs[n].columns = {}
  /\ \A n \in Names : bulk.runs[n].columns # {} =>
       bulk.runs[n].start <= bulk.runs[n].end /\ \A g \in bulk.todo : bulk.runs[n].end <= g[1]
  /\ \A g \in bulk.todo : g[1] \in live \cup {MaxPid}

\* A loader between two runs, or two columns, has nothing left to restore.
LoadersDone ==
  \A l \in Loaders :
    /\ pc[l] \in {"idle", "mark", "next_read"} => job[l].cols = {}
    /\ pc[l] \notin {"restore", "set_restored", "restore_other", "panicked"} => job[l].todo = {}

PromiseInv == PlanOrder /\ BulkOrder /\ LoadersDone /\ PromiseCovered

\* Some run of the queue covers a handle.
Queued(runs, h) == \E i \in DOMAIN runs : Covers(runs[i], h)

\* Somebody will restore the column.
Kept(h) ==
  \/ Queued(queue, h)
  \/ Covers([plan.run EXCEPT !.end = plan.prev], h)
  \/ Covers(bulk.runs[h[2]], h)
  \/ \E l \in Loaders : Loading(l, h)

\* PromiseCovered, before and after a step.
LEMMA KeptCovers ==
  /\ PromiseCovered <=> \A h \in Handles : scheduled[h] => Kept(h)
  /\ PromiseCovered' <=> \A h \in Handles : scheduled'[h] => Kept(h)'
  BY Zenon DEF PromiseCovered, Kept, Queued

\* A queue covers what it covered before a run was appended, and what the run covers.
LEMMA AppendCovers ==
  ASSUME NEW runs \in Seq(Run), NEW run \in Run, NEW h, Queued(runs, h) \/ Covers(run, h)
  PROVE  Queued(Append(runs, run), h)
<1> DEFINE new == Append(runs, run)
<1>1. /\ Len(runs) \in Nat /\ DOMAIN runs = 1..Len(runs) /\ DOMAIN new = 1..(Len(runs) + 1)
      /\ new[Len(runs) + 1] = run /\ \A i \in DOMAIN runs : new[i] = runs[i]
  OBVIOUS
<1> HIDE DEF new
<1>2. \A i \in DOMAIN runs : i \in DOMAIN new
  BY <1>1
<1>3. Len(runs) + 1 \in DOMAIN new
  BY <1>1
<1>4. Queued(new, h)
  BY Zenon, <1>1, <1>2, <1>3 DEF Queued
<1> QED
  BY <1>4 DEF new

\* What a queue covers, its first run covers, or the rest of it.
LEMMA TailCovers ==
  ASSUME NEW runs \in Seq(Run), runs # <<>>, NEW h, Queued(runs, h)
  PROVE  Covers(Head(runs), h) \/ Queued(Tail(runs), h)
<1>1. PICK i \in DOMAIN runs : Covers(runs[i], h)
  BY DEF Queued
<1>2. CASE i = 1
  <2>1. Head(runs) = runs[i]
    BY <1>2
  <2> QED
    BY Zenon, <1>1, <2>1
<1>3. CASE i # 1
  <2>1. i - 1 \in DOMAIN Tail(runs) /\ Tail(runs)[i - 1] = runs[i]
    BY <1>3
  <2> QED
    BY Zenon, <1>1, <2>1 DEF Queued
<1> QED
  BY <1>2, <1>3

\* The identifiers and the runs that a planner works with.
LEMMA PlanTypes ==
  ASSUME TypeOK
  PROVE  /\ queue \in Seq(Run) /\ plan.run \in Run /\ plan.prev \in Nat /\ EmptyRun \in Run
         /\ plan.run.start \in Nat /\ plan.run.columns \subseteq Names
         /\ [plan.run EXCEPT !.end = plan.prev] \in Run
         /\ \A n \in Names : bulk.runs[n] \in Run
         /\ \A p \in plan.todo : p \in Nat
         /\ \A h \in Handles : h[1] \in Pids /\ h[2] \in Names /\ h = <<h[1], h[2]>>
         /\ \A p \in Pids : p \in Nat /\ p # MaxPid
<1>1. /\ queue \in Seq(Run) /\ plan.run \in Run /\ plan.prev \in Nat /\ EmptyRun \in Run
      /\ \A n \in Names : bulk.runs[n] \in Run
  BY Zenon DEF TypeOK, EmptyRun, Run
<1>2. \A p \in Pids : p \in Nat /\ p # MaxPid
  BY PidsAssumption
<1>3. \A p \in plan.todo : p \in Nat
  BY PidsAssumption DEF TypeOK
<1>4. \A h \in Handles : h[1] \in Pids /\ h[2] \in Names /\ h = <<h[1], h[2]>>
  BY HandlesAssumption
<1>5. plan.run.start \in Nat /\ plan.run.columns \subseteq Names /\ [plan.run EXCEPT !.end = plan.prev] \in Run
  BY <1>1 DEF Run
<1> QED
  BY Zenon, <1>1, <1>2, <1>3, <1>4, <1>5

\* A step that plans, promises and restores nothing.
LEMMA PromiseFrame ==
  ASSUME PromiseInv, UNCHANGED <<scheduled, queue, qlock, plan, bulk, job>>, live \subseteq live',
         \A q \in Queries : pc'[q] = pc[q],
         \A l \in Loaders :
           /\ pc'[l] \in {"idle", "mark", "next_read"} => job[l].cols = {}
           /\ pc'[l] \notin {"restore", "set_restored", "restore_other", "panicked"} => job[l].todo = {}
  PROVE  PromiseInv'
<1>1. PlanOrder'
  BY Zenon DEF PromiseInv, PlanOrder
<1>2. BulkOrder'
  BY Zenon DEF PromiseInv, BulkOrder
<1>3. LoadersDone'
  BY Zenon DEF LoadersDone
<1>4. PromiseCovered'
  BY Zenon DEF PromiseInv, PromiseCovered, Covers, Loading
<1> QED
  BY <1>1, <1>2, <1>3, <1>4 DEF PromiseInv

\* Steps of schedule_sequential_read keep the promises.
LEMMA PlanPromise ==
  ASSUME TypeOK, PromiseInv, NEW q \in Queries, PlanStep(q) PROVE PromiseInv'
<1>0. /\ q \in Threads /\ Queries \subseteq Threads /\ Loaders \subseteq Threads /\ q \notin Loaders
      /\ pc \in [Threads -> Labels] /\ NoThread \notin Threads
  BY Zenon, ThreadsAssumption DEF TypeOK, Threads
<1>a. ASSUME pc[q] \in {"match", "begin_run", "extend_run", "bulk"}
      PROVE  qlock = q /\ \A u \in Queries \ {q} : pc[u] \notin {"match", "begin_run", "extend_run", "bulk"}
  BY Zenon, <1>0, <1>a DEF PromiseInv, PlanOrder
<1>b. ASSUME qlock = NoThread
      PROVE  \A u \in Queries : pc[u] \notin {"match", "begin_run", "extend_run", "bulk"}
  BY Zenon, <1>0, <1>b DEF PromiseInv, PlanOrder
<1>c. ASSUME NEW label \in Labels, pc' = [pc EXCEPT ![q] = label]
      PROVE  pc'[q] = label /\ \A u \in Threads \ {q} : pc'[u] = pc[u]
  BY Zenon, <1>0, <1>c, OthersKeepPc
<1>d. ASSUME UNCHANGED job, \A u \in Threads \ {q} : pc'[u] = pc[u] PROVE LoadersDone'
  BY Zenon, <1>0, <1>d DEF PromiseInv, LoadersDone
<1>e. ASSUME UNCHANGED <<bulk, live>>, pc[q] # "bulk", pc'[q] # "bulk", \A u \in Threads \ {q} : pc'[u] = pc[u]
      PROVE  BulkOrder'
  BY Zenon, <1>0, <1>e DEF PromiseInv, BulkOrder
<1>f. \A h \in Handles : scheduled[h] => Kept(h)
  BY Zenon, KeptCovers DEF PromiseInv
<1>1. ASSUME NEW columns \in SUBSET Names, NEW buffered \in SUBSET Names, BeginPlan(q, columns, buffered)
      PROVE  PromiseInv'
  <2>1. /\ pc[q] = "idle" /\ qlock = NoThread /\ qlock' = q /\ pc'[q] = "match"
        /\ \A u \in Threads \ {q} : pc'[u] = pc[u]
        /\ UNCHANGED <<scheduled, queue, bulk, live, job>>
    BY <1>1, <1>c DEF BeginPlan, Labels
  <2>2. plan'.run = EmptyRun /\ plan'.prev = 0 /\ plan'.todo \subseteq live \cup {MaxPid}
    BY <1>1 DEF BeginPlan
  <2>3. plan.run.columns = {}
    BY Zenon, <1>b, <2>1 DEF PromiseInv, PlanOrder
  <2>4. PlanOrder'
    <3>1. \A u \in Queries : pc'[u] \in {"match", "begin_run", "extend_run", "bulk"} => u = q
      BY Zenon, <1>0, <1>b, <2>1
    <3>2. plan'.run.start <= plan'.prev /\ \A p \in plan'.todo : plan'.prev <= p
      <4>1. \A p \in live \cup {MaxPid} : p \in Nat
        BY PidsAssumption DEF TypeOK
      <4> QED
        BY <2>2, <4>1 DEF EmptyRun
    <3> QED
      BY Zenon, <2>1, <2>2, <3>1, <3>2 DEF PromiseInv, PlanOrder
  <2>5. \A h \in Handles : Kept(h) => Kept(h)'
    <3>1. \A h \in Handles : ~Covers([plan.run EXCEPT !.end = plan.prev], h)
      BY <2>3, PlanTypes DEF Covers, Run
    <3> QED
      BY Zenon, <2>1, <3>1 DEF Kept, Queued, Loading, Covers
  <2>6. PromiseCovered'
    BY Zenon, <1>f, <2>1, <2>5, KeptCovers
  <2> QED
    BY Zenon, <1>d, <1>e, <2>1, <2>4, <2>6 DEF PromiseInv
<1>2. ASSUME NEW p \in Pids \cup {MaxPid}, NEW over \in BOOLEAN, MatchPartition(q, p, over) PROVE PromiseInv'
  <2>1. pc[q] = "match" /\ UNCHANGED <<scheduled, qlock, bulk, live, job>>
    BY <1>2 DEF MatchPartition
  <2>2. CASE pc' = [pc EXCEPT ![q] = "extend_run"] /\ UNCHANGED <<queue, plan>>
    <3>1. pc'[q] = "extend_run" /\ \A u \in Threads \ {q} : pc'[u] = pc[u]
      BY <1>c, <2>2 DEF Labels
    <3>2. PlanOrder'
      BY Zenon, <1>0, <1>a, <2>1, <2>2, <3>1 DEF PromiseInv, PlanOrder
    <3>3. PromiseCovered'
      BY Zenon, <2>1, <2>2 DEF PromiseInv, PromiseCovered, Loading, Covers
    <3> QED
      BY Zenon, <1>d, <1>e, <2>1, <3>1, <3>2, <3>3 DEF PromiseInv
  <2>3. CASE /\ pc' = [pc EXCEPT ![q] = "begin_run"] /\ plan' = [plan EXCEPT !.run = EmptyRun]
             /\ queue' = IF plan.run.columns = {} THEN queue ELSE Append(queue, [plan.run EXCEPT !.end = plan.prev])
    <3>1. pc'[q] = "begin_run" /\ \A u \in Threads \ {q} : pc'[u] = pc[u]
      BY <1>c, <2>3 DEF Labels
    <3>2. plan'.run = EmptyRun /\ plan'.prev = plan.prev /\ plan'.todo = plan.todo
      BY <2>3 DEF TypeOK
    <3>3. PlanOrder'
      <4>1. EmptyRun.columns = {} /\ EmptyRun.start <= plan.prev
        BY PlanTypes DEF EmptyRun
      <4> QED
        BY Zenon, <1>0, <1>a, <2>1, <3>1, <3>2, <4>1 DEF PromiseInv, PlanOrder
    <3>4. ASSUME NEW h \in Handles, Kept(h) PROVE Kept(h)'
      <4>1. Queued(queue, h) \/ Covers([plan.run EXCEPT !.end = plan.prev], h) => Queued(queue', h)
        <5>1. CASE plan.run.columns = {}
          BY <2>3, <5>1, PlanTypes DEF Covers, Run
        <5>2. CASE plan.run.columns # {}
          BY <2>3, <5>2, PlanTypes, AppendCovers
        <5> QED
          BY <5>1, <5>2
      <4>2. UNCHANGED <<bulk, job>>
        BY <2>1
      <4> QED
        BY Zenon, <3>4, <4>1, <4>2 DEF Kept, Loading, Covers
    <3>5. PromiseCovered'
      BY Zenon, <1>f, <2>1, <3>4, KeptCovers
    <3> QED
      BY Zenon, <1>d, <1>e, <2>1, <3>1, <3>3, <3>5 DEF PromiseInv
  <2> QED
    BY <1>2, <2>2, <2>3 DEF MatchPartition
<1>g. ASSUME NEW p \in plan.todo, NEW columns \in SUBSET Names, IsSmallest(p, plan.todo),
             PromiseLoad(p, columns), plan'.prev = p, plan'.todo = plan.todo \ {p},
             plan'.run.start <= p, plan'.run.columns = columns, plan'.run.start \in Nat,
             plan'.run \in Run,
             \A h \in Handles : Covers([plan.run EXCEPT !.end = plan.prev], h) => Covers([plan'.run EXCEPT !.end = p], h),
             pc[q] \in {"begin_run", "extend_run"}, pc' = [pc EXCEPT ![q] = "match"],
             UNCHANGED <<queue, qlock, bulk, live, job>>
      PROVE  PromiseInv'
  <2>1. pc'[q] = "match" /\ \A u \in Threads \ {q} : pc'[u] = pc[u]
    BY <1>c, <1>g DEF Labels
  <2>2. p \in Nat /\ p \in live \cup {MaxPid}
    BY Zenon, <1>g, PlanTypes DEF PromiseInv, PlanOrder
  <2>3. \A h \in Handles : scheduled'[h] = (scheduled[h] \/ (h[1] = p /\ h[2] \in columns))
    BY <1>g DEF PromiseLoad
  <2>4. PlanOrder'
    <3>1. \A h \in Handles : scheduled'[h] => h[1] \in live
      BY Zenon, <2>2, <2>3, PlanTypes DEF PromiseInv, PlanOrder
    <3>2. \A r \in plan'.todo : plan'.prev <= r
      BY Zenon, <1>g DEF IsSmallest
    <3> QED
      BY Zenon, <1>0, <1>a, <1>g, <2>1, <3>1, <3>2 DEF PromiseInv, PlanOrder
  <2>5. ASSUME NEW h \in Handles, scheduled'[h] PROVE Kept(h)'
    <3>1. CASE Kept(h)
      BY Zenon, <1>g, <3>1 DEF Kept, Loading, Covers
    <3>2. CASE h[1] = p /\ h[2] \in columns
      <4>1. Covers([plan'.run EXCEPT !.end = plan'.prev], h)
        BY <1>g, <2>2, <3>2 DEF Covers, Run
      <4> QED
        BY Zenon, <4>1 DEF Kept
    <3> QED
      BY Zenon, <1>f, <2>3, <2>5, <3>1, <3>2
  <2>6. PromiseCovered'
    BY Zenon, <2>5, KeptCovers
  <2> QED
    BY Zenon, <1>d, <1>e, <1>g, <2>1, <2>4, <2>6 DEF PromiseInv
<1>3. ASSUME NEW p \in Pids \cup {MaxPid}, BeginRun(q, p) PROVE PromiseInv'
  <2>1. /\ pc[q] = "begin_run" /\ IsSmallest(p, plan.todo) /\ PromiseLoad(p, NonResidents(p))
        /\ pc' = [pc EXCEPT ![q] = "match"] /\ UNCHANGED <<queue, qlock, bulk, live, job>>
    BY <1>3 DEF BeginRun
  <2>2. p \in plan.todo /\ p \in Nat
    BY <2>1, PlanTypes DEF IsSmallest
  <2>3. NonResidents(p) \in SUBSET Names
    BY DEF NonResidents, PlanColumns, ColumnsOf, TypeOK
  <2>4. /\ plan'.run = [start |-> p, end |-> 0, columns |-> NonResidents(p)]
        /\ plan'.prev = p /\ plan'.todo = plan.todo \ {p}
    BY <1>3 DEF BeginRun, TypeOK
  <2>5. plan'.run \in Run /\ plan'.run.start = p /\ plan'.run.columns = NonResidents(p) /\ p <= p
    BY <2>2, <2>3, <2>4 DEF Run
  <2>6. plan.run.columns = {}
    BY Zenon, <1>0, <1>a, <2>1 DEF PromiseInv, PlanOrder
  <2>7. \A h \in Handles : ~Covers([plan.run EXCEPT !.end = plan.prev], h)
    BY <2>6, PlanTypes DEF Covers, Run
  <2> QED
    BY Zenon, <1>g, <2>1, <2>2, <2>3, <2>4, <2>5, <2>7
<1>4. ASSUME NEW p \in Pids \cup {MaxPid}, ExtendRun(q, p) PROVE PromiseInv'
  <2>1. /\ pc[q] = "extend_run" /\ IsSmallest(p, plan.todo) /\ PromiseLoad(p, plan.run.columns)
        /\ pc' = [pc EXCEPT ![q] = "match"] /\ UNCHANGED <<queue, qlock, bulk, live, job>>
    BY <1>4 DEF ExtendRun
  <2>2. p \in plan.todo /\ p \in Nat
    BY <2>1, PlanTypes DEF IsSmallest
  <2>3. plan'.run = plan.run /\ plan'.prev = p /\ plan'.todo = plan.todo \ {p}
    BY <1>4 DEF ExtendRun, TypeOK
  <2>4. plan.prev \in Nat /\ plan.run.start \in Nat /\ plan.run \in Run /\ plan.run.columns \in SUBSET Names
    BY PlanTypes
  <2>5. plan.run.start <= plan.prev /\ plan.prev <= p
    BY Zenon, <2>2 DEF PromiseInv, PlanOrder
  <2>6. plan.run.start <= p
    BY <2>2, <2>4, <2>5
  <2>7. \A h \in Handles : Covers([plan.run EXCEPT !.end = plan.prev], h) => Covers([plan.run EXCEPT !.end = p], h)
    <3>1. \A h \in Handles : h[1] \in Nat
      BY PlanTypes
    <3> QED
      BY <2>2, <2>4, <2>5, <3>1 DEF Covers, Run
  <2> QED
    BY Zenon, <1>g, <2>1, <2>2, <2>3, <2>4, <2>6, <2>7
<1>5. CASE EndPlan(q)
  <2>1. /\ pc[q] = "match" /\ qlock' = NoThread /\ queue' = Append(queue, [plan.run EXCEPT !.end = plan.prev])
        /\ pc' = [pc EXCEPT ![q] = "done"] /\ UNCHANGED <<scheduled, bulk, live, job>>
    BY <1>5 DEF EndPlan
  <2>2. pc'[q] = "done" /\ \A u \in Threads \ {q} : pc'[u] = pc[u]
    BY <1>c, <2>1 DEF Labels
  <2>3. plan'.run = EmptyRun /\ plan'.prev = plan.prev /\ plan'.todo = plan.todo
    BY <1>5 DEF EndPlan, TypeOK
  <2>4. PlanOrder'
    <3>1. EmptyRun.columns = {} /\ EmptyRun.start <= plan.prev
      BY PlanTypes DEF EmptyRun
    <3>2. \A u \in Queries : pc'[u] \notin {"match", "begin_run", "extend_run", "bulk"}
      BY Zenon, <1>0, <1>a, <2>1, <2>2
    <3> QED
      BY Zenon, <2>1, <2>3, <3>1, <3>2 DEF PromiseInv, PlanOrder
  <2>5. ASSUME NEW h \in Handles, Kept(h) PROVE Kept(h)'
    <3>1. Queued(queue, h) \/ Covers([plan.run EXCEPT !.end = plan.prev], h) => Queued(queue', h)
      BY <2>1, PlanTypes, AppendCovers
    <3>2. UNCHANGED <<bulk, job>>
      BY <2>1
    <3> QED
      BY Zenon, <2>5, <3>1, <3>2 DEF Kept, Loading, Covers
  <2>6. PromiseCovered'
    BY Zenon, <1>f, <2>1, <2>5, KeptCovers
  <2> QED
    BY Zenon, <1>d, <1>e, <2>1, <2>2, <2>4, <2>6 DEF PromiseInv
<1> QED
  BY <1>1, <1>2, <1>3, <1>4, <1>5 DEF PlanStep

\* The steps of schedule_bulk_load keep the promises.
LEMMA BulkPromise ==
  ASSUME TypeOK, PromiseInv, NEW q \in Queries, BulkStep(q) PROVE PromiseInv'
<1>0. /\ q \in Threads /\ Queries \subseteq Threads /\ Loaders \subseteq Threads /\ q \notin Loaders
      /\ pc \in [Threads -> Labels] /\ NoThread \notin Threads
  BY Zenon, ThreadsAssumption DEF TypeOK, Threads
<1>a. ASSUME pc[q] = "bulk"
      PROVE  qlock = q /\ \A u \in Queries \ {q} : pc[u] \notin {"match", "begin_run", "extend_run", "bulk"}
  BY Zenon, <1>0, <1>a DEF PromiseInv, PlanOrder
<1>b. ASSUME qlock = NoThread
      PROVE  \A u \in Queries : pc[u] \notin {"match", "begin_run", "extend_run", "bulk"}
  BY Zenon, <1>0, <1>b DEF PromiseInv, PlanOrder
<1>c. ASSUME NEW label \in Labels, pc' = [pc EXCEPT ![q] = label]
      PROVE  pc'[q] = label /\ \A u \in Threads \ {q} : pc'[u] = pc[u]
  BY Zenon, <1>0, <1>c, OthersKeepPc
<1>d. ASSUME UNCHANGED job, \A u \in Threads \ {q} : pc'[u] = pc[u] PROVE LoadersDone'
  BY Zenon, <1>0, <1>d DEF PromiseInv, LoadersDone
<1>f. \A h \in Handles : scheduled[h] => Kept(h)
  BY Zenon, KeptCovers DEF PromiseInv
<1>h. \A g \in bulk.todo : g[1] \in Nat /\ g[2] \in Names
  BY PidsAssumption, Zenon DEF TypeOK
<1>1. ASSUME NEW buffered \in SUBSET Names, BeginBulk(q, buffered) PROVE PromiseInv'
  <2>1. /\ pc[q] = "idle" /\ qlock = NoThread /\ qlock' = q /\ pc'[q] = "bulk"
        /\ \A u \in Threads \ {q} : pc'[u] = pc[u]
        /\ UNCHANGED <<scheduled, queue, plan, live, job>>
    BY <1>1, <1>c DEF BeginBulk, Labels
  <2>2. /\ bulk'.todo = {h \in Handles : h[1] \in live} \cup ({MaxPid} \X buffered)
        /\ bulk'.runs = [n \in Names |-> EmptyRun]
    BY <1>1 DEF BeginBulk
  <2>3. \A n \in Names : bulk.runs[n].columns = {} /\ bulk'.runs[n].columns = {}
    <3>1. \A n \in Names : bulk.runs[n].columns = {}
      BY Zenon, <1>b, <2>1 DEF PromiseInv, BulkOrder
    <3> QED
      BY <2>2, <3>1 DEF EmptyRun
  <2>4. PlanOrder'
    BY Zenon, <1>0, <1>b, <2>1 DEF PromiseInv, PlanOrder
  <2>5. BulkOrder'
    <3>1. \A g \in bulk'.todo : g[1] \in live' \cup {MaxPid}
      BY <2>1, <2>2
    <3> QED
      BY Zenon, <2>3, <3>1 DEF BulkOrder
  <2>6. \A h \in Handles : Kept(h) => Kept(h)'
    <3>1. \A h \in Handles : h[2] \in Names
      BY PlanTypes
    <3>2. \A h \in Handles : ~Covers(bulk.runs[h[2]], h)
      BY <2>3, <3>1 DEF Covers
    <3> QED
      BY Zenon, <2>1, <3>2 DEF Kept, Queued, Loading, Covers
  <2>7. PromiseCovered'
    BY Zenon, <1>f, <2>1, <2>6, KeptCovers
  <2> QED
    BY Zenon, <1>d, <2>1, <2>4, <2>5, <2>7 DEF PromiseInv
<1>2. ASSUME NEW a \in Handles \cup ({MaxPid} \X Names), NEW over \in BOOLEAN, BulkColumn(q, a, over)
      PROVE  PromiseInv'
  <2> DEFINE p == a[1]
             n == a[2]
             old == bulk.runs[n]
             run == [start |-> IF old.columns = {} THEN p ELSE old.start, end |-> p, columns |-> {n}]
  <2>1. /\ pc[q] = "bulk" /\ a \in bulk.todo /\ \A g \in bulk.todo : p <= g[1]
        /\ PromiseLoad(p, {n}) /\ queue' = IF over THEN Append(queue, run) ELSE queue
        /\ UNCHANGED <<pc, qlock, plan, live, job>>
    BY <1>2 DEF BulkColumn
  <2>2. p \in Nat /\ n \in Names /\ p \in live \cup {MaxPid}
    BY Zenon, <1>h, <2>1 DEF PromiseInv, BulkOrder
  <2>3. /\ bulk'.todo = bulk.todo \ {a} /\ bulk'.runs[n] = IF over THEN EmptyRun ELSE run
        /\ \A m \in Names \ {n} : bulk'.runs[m] = bulk.runs[m]
    BY <1>2, <2>2, Zenon DEF BulkColumn, TypeOK
  <2>4. old \in Run /\ (old.columns # {} => old.start <= old.end /\ old.end <= p)
    BY Zenon, <2>1, <2>2, PlanTypes DEF PromiseInv, BulkOrder
  <2>5. run \in Run /\ run.start <= p /\ run.end = p /\ run.columns = {n}
    BY <2>2, <2>4 DEF Run
  <2>6. \A h \in Handles : scheduled'[h] = (scheduled[h] \/ (h[1] = p /\ h[2] \in {n}))
    BY <2>1 DEF PromiseLoad
  <2>7. PlanOrder'
    <3>1. \A h \in Handles : scheduled'[h] => h[1] \in live
      BY Zenon, <2>2, <2>6, PlanTypes DEF PromiseInv, PlanOrder
    <3> QED
      BY Zenon, <2>1, <3>1 DEF PromiseInv, PlanOrder
  <2>8. BulkOrder'
    <3>1. bulk'.runs[n].columns # {} =>
            bulk'.runs[n].start <= bulk'.runs[n].end /\ \A g \in bulk'.todo : bulk'.runs[n].end <= g[1]
      <4>1. CASE over
        BY <2>3, <4>1 DEF EmptyRun
      <4>2. CASE ~over
        <5>1. bulk'.runs[n] = run
          BY <2>3, <4>2
        <5> HIDE DEF run
        <5> QED
          BY Zenon, <2>1, <2>3, <2>5, <5>1
      <4> QED
        BY <4>1, <4>2
    <3>2. \A m \in Names \ {n} : bulk'.runs[m].columns # {} =>
            bulk'.runs[m].start <= bulk'.runs[m].end /\ \A g \in bulk'.todo : bulk'.runs[m].end <= g[1]
      BY Zenon, <2>3 DEF PromiseInv, BulkOrder
    <3>3. \A g \in bulk'.todo : g[1] \in live' \cup {MaxPid}
      BY Zenon, <2>1, <2>3 DEF PromiseInv, BulkOrder
    <3> HIDE DEF n
    <3> QED
      BY Zenon, <2>1, <3>1, <3>2, <3>3 DEF BulkOrder
  <2>9. ASSUME NEW h \in Handles, scheduled'[h] PROVE Kept(h)'
    <3>0. h[1] \in Nat /\ h[2] \in Names
      BY PlanTypes
    <3>1. ASSUME Covers(run, h) PROVE Kept(h)'
      <4>1. h[2] = n
        BY <2>5, <3>1 DEF Covers
      <4>2. CASE over
        <5>1. Queued(queue', h)
          BY <2>1, <2>5, <3>1, <4>2, PlanTypes, AppendCovers
        <5> QED
          BY Zenon, <5>1 DEF Kept
      <4>3. CASE ~over
        BY Zenon, <2>3, <3>1, <4>1, <4>3 DEF Kept
      <4> QED
        BY <4>2, <4>3
    <3>2. CASE h[1] = p /\ h[2] \in {n}
      <4>1. Covers(run, h)
        BY <2>2, <2>5, <3>2 DEF Covers, Run
      <4> QED
        BY <3>1, <4>1
    <3>3. CASE Kept(h)
      <4>1. CASE Queued(queue, h)
        <5>1. Queued(queue', h)
          BY <2>1, <2>5, <4>1, PlanTypes, AppendCovers
        <5> QED
          BY Zenon, <5>1 DEF Kept
      <4>2. CASE Covers([plan.run EXCEPT !.end = plan.prev], h) \/ \E l \in Loaders : Loading(l, h)
        BY Zenon, <2>1, <4>2 DEF Kept, Loading, Covers
      <4>3. CASE Covers(bulk.runs[h[2]], h)
        <5>1. CASE h[2] = n
          <6>1. Covers(old, h)
            BY <4>3, <5>1
          <6>2. Covers(run, h)
            BY <2>2, <2>4, <3>0, <5>1, <6>1 DEF Covers, Run
          <6> QED
            BY <3>1, <6>2
        <5>2. CASE h[2] # n
          BY Zenon, <2>3, <3>0, <4>3, <5>2 DEF Kept
        <5> QED
          BY <5>1, <5>2
      <4> QED
        BY Zenon, <3>3, <4>1, <4>2, <4>3 DEF Kept
    <3> QED
      BY Zenon, <1>f, <2>6, <2>9, <3>2, <3>3
  <2>10. PromiseCovered'
    BY Zenon, <2>9, KeptCovers
  <2> QED
    BY Zenon, <1>d, <2>1, <2>7, <2>8, <2>10 DEF PromiseInv
<1>3. ASSUME NEW n \in Names, FlushBulk(q, n) PROVE PromiseInv'
  <2>1. /\ pc[q] = "bulk" /\ queue' = Append(queue, bulk.runs[n])
        /\ UNCHANGED <<scheduled, pc, qlock, plan, live, job>>
    BY <1>3 DEF FlushBulk
  <2>2. /\ bulk'.todo = bulk.todo /\ bulk'.runs[n] = EmptyRun
        /\ \A m \in Names \ {n} : bulk'.runs[m] = bulk.runs[m]
    BY <1>3 DEF FlushBulk, TypeOK
  <2>3. PlanOrder'
    BY Zenon, <2>1 DEF PromiseInv, PlanOrder
  <2>4. BulkOrder'
    <3>1. bulk'.runs[n].columns = {}
      BY <2>2 DEF EmptyRun
    <3> QED
      BY Zenon, <2>1, <2>2, <3>1 DEF PromiseInv, BulkOrder
  <2>5. ASSUME NEW h \in Handles, Kept(h) PROVE Kept(h)'
    <3>0. h[2] \in Names
      BY PlanTypes
    <3>1. Queued(queue, h) \/ Covers(bulk.runs[n], h) => Queued(queue', h)
      BY <2>1, PlanTypes, AppendCovers
    <3>2. h[2] # n => bulk'.runs[h[2]] = bulk.runs[h[2]]
      BY <2>2, <3>0
    <3>3. UNCHANGED <<plan, job>>
      BY <2>1
    <3> QED
      BY Zenon, <2>5, <3>1, <3>2, <3>3 DEF Kept, Loading, Covers
  <2>6. PromiseCovered'
    BY Zenon, <1>f, <2>1, <2>5, KeptCovers
  <2> QED
    BY Zenon, <1>d, <2>1, <2>3, <2>4, <2>6 DEF PromiseInv
<1>4. CASE EndBulk(q)
  <2>1. /\ pc[q] = "bulk" /\ qlock' = NoThread /\ pc' = [pc EXCEPT ![q] = "done"]
        /\ \A n \in Names : bulk.runs[n].columns = {}
        /\ UNCHANGED <<scheduled, queue, plan, bulk, live, job>>
    BY <1>4 DEF EndBulk
  <2>2. pc'[q] = "done" /\ \A u \in Threads \ {q} : pc'[u] = pc[u]
    BY <1>c, <2>1 DEF Labels
  <2>3. PlanOrder'
    BY Zenon, <1>0, <1>a, <2>1, <2>2 DEF PromiseInv, PlanOrder
  <2>4. BulkOrder'
    BY Zenon, <2>1 DEF PromiseInv, BulkOrder
  <2>5. PromiseCovered'
    BY Zenon, <2>1 DEF PromiseInv, PromiseCovered, Loading, Covers
  <2> QED
    BY Zenon, <1>d, <2>1, <2>2, <2>3, <2>4, <2>5 DEF PromiseInv
<1> QED
  BY <1>1, <1>2, <1>3, <1>4 DEF BulkStep

\* The steps of service_reads keep the promises.
LEMMA LoaderPromise ==
  ASSUME TypeOK, WorksOnLive, PromiseInv, NEW l \in Loaders, LoaderStep(l) PROVE PromiseInv'
<1>0. /\ l \in Threads /\ Queries \subseteq Threads /\ Loaders \subseteq Threads /\ l \notin Queries
      /\ pc \in [Threads -> Labels]
  BY Zenon, ThreadsAssumption DEF TypeOK, Threads
<1>a. Queries \subseteq Threads \ {l}
  BY Zenon, <1>0
<1>b. ASSUME NEW label \in Labels, pc' = [pc EXCEPT ![l] = label]
      PROVE  /\ pc'[l] = label /\ \A u \in Threads \ {l} : pc'[u] = pc[u]
             /\ \A q \in Queries : pc'[q] = pc[q]
  BY Zenon, <1>0, <1>b, OthersKeepPc
<1>c. /\ pc[l] \in {"idle", "mark", "next_read"} => job[l].cols = {}
      /\ pc[l] \notin {"restore", "set_restored", "restore_other", "panicked"} => job[l].todo = {}
      /\ \A m \in Loaders \ {l} :
           /\ pc[m] \in {"idle", "mark", "next_read"} => job[m].cols = {}
           /\ pc[m] \notin {"restore", "set_restored", "restore_other", "panicked"} => job[m].todo = {}
  BY Zenon DEF PromiseInv, LoadersDone
<1>d. ASSUME UNCHANGED <<scheduled, queue, qlock, plan, bulk, job, live>>,
             NEW label \in Labels, pc' = [pc EXCEPT ![l] = label],
             label \in {"idle", "mark", "next_read"} => job[l].cols = {},
             label \notin {"restore", "set_restored", "restore_other", "panicked"} => job[l].todo = {}
      PROVE  PromiseInv'
  BY Zenon, <1>0, <1>b, <1>c, <1>d, PromiseFrame
<1>e. ASSUME UNCHANGED <<qlock, plan, bulk, live>>, \A q \in Queries : pc'[q] = pc[q],
             \A h \in Handles : scheduled'[h] => scheduled[h]
      PROVE  PlanOrder' /\ BulkOrder'
  BY Zenon, <1>e DEF PromiseInv, PlanOrder, BulkOrder
<1>f. \A h \in Handles : scheduled[h] => Kept(h)
  BY Zenon, KeptCovers DEF PromiseInv
<1>1. CASE StartService(l) \/ MarkInProgress(l) \/ StopService(l)
  BY Zenon, <1>1, <1>c, <1>d DEF StartService, MarkInProgress, StopService, Labels
<1>2. CASE AcquireRead(l) \/ RangeDone(l)
  BY Zenon, <1>2, <1>c, <1>d DEF AcquireRead, RangeDone, Labels
<1>3. CASE RestorePanic(l)
  BY Zenon, <1>3, <1>c, <1>d DEF RestorePanic, Labels
<1>4. ASSUME NEW p \in Pids, LockRestore(l, p) PROVE PromiseInv'
  BY Zenon, <1>4, <1>c, <1>d DEF LockRestore, Labels
<1>5. CASE RunDone(l)
  <2>1. /\ pc[l] = "next_column" /\ job[l].cols = {}
        /\ UNCHANGED <<scheduled, queue, qlock, plan, bulk, job, live>>
    BY <1>5 DEF RunDone
  <2>2. pc'[l] = "next_read" /\ \A u \in Threads \ {l} : u \notin Readers => pc'[u] = pc[u]
    BY <1>0, <1>5 DEF RunDone
  <2>3. \A q \in Queries \cup (Loaders \ {l}) : pc'[q] = pc[q]
    BY Zenon, <1>0, <2>2, ThreadsAssumption
  <2> QED
    BY Zenon, <1>c, <2>1, <2>2, <2>3, PromiseFrame
<1>6. CASE PopRun(l)
  <2>1. /\ pc[l] = "next_read" /\ queue # <<>> /\ queue' = Tail(queue) /\ pc' = [pc EXCEPT ![l] = "acquire"]
        /\ UNCHANGED <<scheduled, qlock, plan, bulk, live>>
    BY <1>6 DEF PopRun
  <2>2. /\ job'[l].run = Head(queue) /\ job'[l].cols = Head(queue).columns /\ job'[l].todo = {}
        /\ \A m \in Loaders \ {l} : job'[m] = job[m]
    BY <1>6 DEF PopRun, TypeOK, Job
  <2>3. /\ pc'[l] = "acquire" /\ \A u \in Threads \ {l} : pc'[u] = pc[u]
        /\ \A q \in Queries : pc'[q] = pc[q]
    BY <1>b, <2>1 DEF Labels
  <2>4. LoadersDone'
    BY Zenon, <1>0, <1>c, <2>2, <2>3 DEF LoadersDone
  <2>5. job[l].cols = {} /\ job[l].todo = {}
    BY Zenon, <1>c, <2>1
  <2>6. ASSUME NEW h \in Handles, Kept(h) PROVE Kept(h)'
    <3>1. CASE Queued(queue, h)
      <4>1. Covers(Head(queue), h) \/ Queued(queue', h)
        BY <2>1, <3>1, PlanTypes, TailCovers
      <4>2. Covers(Head(queue), h) => Loading(l, h)'
        <5>1. Head(queue) \in Run
          BY <2>1, PlanTypes
        <5> QED
          BY <2>2, <5>1 DEF Loading, Covers, Run
      <4> QED
        BY Zenon, <4>1, <4>2 DEF Kept
    <3>2. CASE Covers([plan.run EXCEPT !.end = plan.prev], h) \/ Covers(bulk.runs[h[2]], h)
      BY Zenon, <2>1, <3>2 DEF Kept
    <3>3. ASSUME NEW m \in Loaders, Loading(m, h) PROVE Kept(h)'
      <4>1. m # l
        <5>1. job[l].run \in Run
          BY DEF TypeOK, Job
        <5> QED
          BY <2>5, <3>3, <5>1 DEF Loading, Covers, Run
      <4>2. Loading(m, h)'
        BY Zenon, <2>2, <3>3, <4>1 DEF Loading, Covers
      <4> QED
        BY Zenon, <4>2 DEF Kept
    <3> QED
      BY Zenon, <2>6, <3>1, <3>2, <3>3 DEF Kept
  <2>7. PromiseCovered'
    BY Zenon, <1>f, <2>1, <2>6, KeptCovers
  <2> QED
    BY Zenon, <1>e, <2>1, <2>3, <2>4, <2>7 DEF PromiseInv
<1>7. ASSUME NEW n \in Names, LoadColumnRange(l, n) PROVE PromiseInv'
  <2>1. /\ pc[l] = "next_column" /\ n \in job[l].cols /\ pc' = [pc EXCEPT ![l] = "restore"]
        /\ UNCHANGED <<scheduled, queue, qlock, plan, bulk, live>>
    BY <1>7 DEF LoadColumnRange
  <2>2. /\ job'[l].run = job[l].run /\ job'[l].cols = job[l].cols \ {n} /\ job'[l].name = n
        /\ job'[l].todo = {p \in disk : <<p, n>> \in Handles /\ p \in job[l].run.start .. job[l].run.end}
        /\ \A m \in Loaders \ {l} : job'[m] = job[m]
    BY <1>7 DEF LoadColumnRange, TypeOK, Job
  <2>3. /\ pc'[l] = "restore" /\ \A u \in Threads \ {l} : pc'[u] = pc[u]
        /\ \A q \in Queries : pc'[q] = pc[q]
    BY <1>b, <2>1 DEF Labels
  <2>4. LoadersDone'
    BY Zenon, <1>0, <1>c, <2>2, <2>3 DEF LoadersDone
  <2>5. job[l].todo = {} /\ job[l].run \in Run
    BY Zenon, <1>c, <2>1 DEF TypeOK, Job
  <2>6. ASSUME NEW h \in Handles, scheduled[h], Kept(h) PROVE Kept(h)'
    <3>1. CASE Queued(queue, h) \/ Covers([plan.run EXCEPT !.end = plan.prev], h) \/ Covers(bulk.runs[h[2]], h)
      BY Zenon, <2>1, <3>1 DEF Kept
    <3>2. ASSUME NEW m \in Loaders, Loading(m, h), m # l PROVE Kept(h)'
      <4>1. Loading(m, h)'
        BY Zenon, <2>2, <3>2 DEF Loading, Covers
      <4> QED
        BY Zenon, <4>1 DEF Kept
    <3>3. ASSUME Loading(l, h) PROVE Kept(h)'
      <4>1. h[1] \in job[l].run.start .. job[l].run.end /\ h[2] \in job[l].cols
        BY <2>5, <3>3 DEF Loading, Covers, Run
      <4>2. h[1] \in disk /\ h = <<h[1], h[2]>>
        BY Zenon, <2>6, PlanTypes DEF PromiseInv, PlanOrder, WorksOnLive
      <4>3. CASE h[2] = n
        <5>1. h[2] = job'[l].name /\ h[1] \in job'[l].todo
          BY <2>2, <4>1, <4>2, <4>3
        <5> QED
          BY Zenon, <5>1 DEF Kept, Loading
      <4>4. CASE h[2] # n
        <5>1. Covers([job'[l].run EXCEPT !.columns = job'[l].cols], h)
          BY <2>2, <2>5, <4>1, <4>4 DEF Covers, Run
        <5> QED
          BY Zenon, <5>1 DEF Kept, Loading
      <4> QED
        BY <4>3, <4>4
    <3> QED
      BY Zenon, <2>6, <3>1, <3>2, <3>3 DEF Kept
  <2>7. PromiseCovered'
    BY Zenon, <1>f, <2>1, <2>6, KeptCovers
  <2> QED
    BY Zenon, <1>e, <2>1, <2>3, <2>4, <2>7 DEF PromiseInv
<1>8. ASSUME NEW p \in Pids, SetRestored(l, p) PROVE PromiseInv'
  <2> DEFINE a == <<p, job[l].name>>
  <2>1. /\ pc[l] = "set_restored" /\ IsSmallest(p, job[l].todo)
        /\ scheduled' = [scheduled EXCEPT ![a] = FALSE]
        /\ UNCHANGED <<queue, qlock, plan, bulk, live>>
    BY <1>8 DEF SetRestored
  <2>2. PICK label \in {"restore", "restore_other"} : pc' = [pc EXCEPT ![l] = label]
    BY <1>8, Zenon DEF SetRestored, AfterRestore
  <2>3. /\ pc'[l] \in {"restore", "restore_other"} /\ \A u \in Threads \ {l} : pc'[u] = pc[u]
        /\ \A q \in Queries : pc'[q] = pc[q]
    BY <1>b, <2>2, Zenon DEF Labels
  <2>4. /\ job'[l].run = job[l].run /\ job'[l].cols = job[l].cols /\ job'[l].name = job[l].name
        /\ job'[l].todo = job[l].todo \ {p} /\ \A m \in Loaders \ {l} : job'[m] = job[m]
    BY <1>8 DEF SetRestored, TypeOK, Job
  <2>5. \A h \in Handles : scheduled'[h] = IF h = a THEN FALSE ELSE scheduled[h]
    BY <2>1 DEF TypeOK
  <2>6. LoadersDone'
    BY Zenon, <1>0, <1>c, <2>1, <2>3, <2>4 DEF LoadersDone
  <2>7. ASSUME NEW h \in Handles, h # a, Kept(h) PROVE Kept(h)'
    <3>1. CASE Queued(queue, h) \/ Covers([plan.run EXCEPT !.end = plan.prev], h) \/ Covers(bulk.runs[h[2]], h)
      BY Zenon, <2>1, <3>1 DEF Kept
    <3>2. ASSUME NEW m \in Loaders, Loading(m, h) PROVE Kept(h)'
      <4>1. h = <<h[1], h[2]>>
        BY Zenon, PlanTypes
      <4>2. m = l => ~(h[1] = p /\ h[2] = job[l].name)
        BY Zenon, <2>7, <4>1
      <4>3. Loading(m, h)'
        BY Zenon, <2>4, <3>2, <4>2 DEF Loading, Covers
      <4> QED
        BY Zenon, <4>3 DEF Kept
    <3> QED
      BY Zenon, <2>7, <3>1, <3>2 DEF Kept
  <2>8. PromiseCovered'
    BY Zenon, <1>f, <2>5, <2>7, KeptCovers
  <2> QED
    BY Zenon, <1>e, <2>1, <2>3, <2>5, <2>6, <2>8 DEF PromiseInv
<1> QED
  BY <1>1, <1>2, <1>3, <1>4, <1>5, <1>6, <1>7, <1>8 DEF LoaderStep

\* Readers, evictors and stores leave the plans and the promises alone.
LEMMA OthersPromise ==
  ASSUME TypeOK, PromiseInv, NEW t \in Readers \cup Evictors \cup Stores,
         \/ t \in Readers /\ ReaderStep(t)
         \/ t \in Evictors /\ EvictorStep(t)
         \/ t \in Stores /\ StoreStep(t)
  PROVE  PromiseInv'
<1>0. t \in Threads /\ Queries \cup Loaders \subseteq Threads \ {t}
  BY SMT, ThreadsAssumption DEF Threads
<1>1. /\ UNCHANGED <<scheduled, queue, qlock, plan, bulk, job>> /\ live \subseteq live'
      /\ \E label \in Labels : pc' = [pc EXCEPT ![t] = label]
  <2>1. CASE t \in Readers /\ ReaderStep(t)
    BY <2>1, Zenon DEF ReaderStep, GetOrLoad, CheckResident, TryGet, CheckScheduled, AwaitLoad, Park,
                SpuriousWakeup, PointLookup, LoadColumn, LockColumn, SetColumn, Labels
  <2>2. CASE t \in Evictors /\ EvictorStep(t)
    BY <2>2 DEF EvictorStep, EvictLru, LockEvict, DropColumn, Labels
  <2>3. CASE t \in Stores /\ StoreStep(t)
    BY <2>3 DEF StoreStep, AllocatePid, WritePartition, LoadPartition, PutKey, Labels
  <2> QED
    BY <2>1, <2>2, <2>3
<1>2. \A u \in Queries \cup Loaders : pc'[u] = pc[u]
  BY Zenon, <1>0, <1>1, OthersKeepPc
<1> QED
  BY Zenon, <1>1, <1>2, PromiseFrame DEF PromiseInv, LoadersDone

\* Nothing is promised at the start.
LEMMA InitPromise == Init => PromiseInv
<1> SUFFICES ASSUME Init PROVE PromiseInv
  OBVIOUS
<1>1. /\ \A t \in Threads : pc[t] = "idle"
      /\ \A h \in Handles : ~scheduled[h]
      /\ \A l \in Loaders : job[l].cols = {} /\ job[l].todo = {}
      /\ plan.run = EmptyRun /\ plan.todo = {} /\ plan.prev = 0
      /\ bulk.todo = {} /\ \A n \in Names : bulk.runs[n] = EmptyRun
  BY DEF Init
<1>2. EmptyRun.columns = {} /\ EmptyRun.start = 0 /\ 0 <= 0
  BY DEF EmptyRun
<1>3. Queries \subseteq Threads /\ Loaders \subseteq Threads
  BY DEF Threads
<1>4. PlanOrder
  BY Zenon, <1>1, <1>2, <1>3 DEF PlanOrder
<1>5. BulkOrder /\ LoadersDone /\ PromiseCovered
  BY Zenon, <1>1, <1>2, <1>3 DEF BulkOrder, LoadersDone, PromiseCovered
<1> QED
  BY <1>4, <1>5 DEF PromiseInv

\* Every step keeps the promises.
LEMMA NextPromise == TypeOK /\ WorksOnLive /\ PromiseInv /\ [Next]_vars => PromiseInv'
<1> SUFFICES ASSUME TypeOK, WorksOnLive, PromiseInv, [Next]_vars PROVE PromiseInv'
  OBVIOUS
<1>1. ASSUME NEW r \in Readers, ReaderStep(r) PROVE PromiseInv'
  BY <1>1, OthersPromise
<1>2. ASSUME NEW q \in Queries, PlanStep(q) \/ BulkStep(q) PROVE PromiseInv'
  BY <1>2, PlanPromise, BulkPromise
<1>3. ASSUME NEW l \in Loaders, LoaderStep(l) PROVE PromiseInv'
  BY <1>3, LoaderPromise
<1>4. ASSUME NEW e \in Evictors, EvictorStep(e) PROVE PromiseInv'
  BY <1>4, OthersPromise
<1>5. ASSUME NEW s \in Stores, StoreStep(s) PROVE PromiseInv'
  BY <1>5, OthersPromise
<1>6. CASE UNCHANGED vars
  <2>1. UNCHANGED <<scheduled, queue, qlock, plan, bulk, job, live, pc>>
    BY <1>6 DEF vars
  <2> QED
    BY Zenon, <2>1, PromiseFrame DEF PromiseInv, LoadersDone
<1> QED
  BY <1>1, <1>2, <1>3, <1>4, <1>5, <1>6 DEF Next

-----------------------------------------------------------------------------
(* Permits of the semaphore.                                                 *)

INSTANCE FiniteSetTheorems

\* Where a thread is inside DiskReadScheduler's reads.
Reading == {"load_column", "next_column", "restore", "set_restored", "restore_other"}

\* The threads that read from disk.
Holders == {t \in Threads : pc[t] \in Reading}

\* There are finitely many, and each holds a permit.
PermitInv == IsFiniteSet(Holders) /\ PermitsConserved

\* A thread starts to read, goes on, or stops.
LEMMA PermitStep ==
  ASSUME TypeOK, PermitInv, permits' \in Nat, NEW t \in Threads,
         \A u \in Threads \ {t} : pc'[u] \in Reading <=> pc[u] \in Reading,
         \/ permits' = permits /\ (pc'[t] \in Reading <=> pc[t] \in Reading)
         \/ permits' = permits - 1 /\ pc[t] \notin Reading /\ pc'[t] \in Reading
         \/ permits' = permits + 1 /\ pc[t] \in Reading /\ pc'[t] \notin Reading
  PROVE  PermitInv'
<1> DEFINE H == Holders
           K == Holders'
<1>1. /\ H = {u \in Threads : pc[u] \in Reading} /\ K = {u \in Threads : pc'[u] \in Reading}
      /\ IsFiniteSet(H) /\ permits + Cardinality(H) = ReadThreads
      /\ PermitsConserved' <=> permits' + Cardinality(K) = ReadThreads
  BY Zenon DEF PermitInv, PermitsConserved, Holders, Reading
<1>2. PermitInv' <=> IsFiniteSet(K) /\ PermitsConserved'
  BY Zenon DEF PermitInv
<1> HIDE DEF H, K
<1>3. permits \in Nat /\ ReadThreads \in Nat /\ Cardinality(H) \in Nat
  BY <1>1, ReadThreadsAssumption, FS_CardinalityType DEF TypeOK
<1>4. CASE permits' = permits /\ (pc'[t] \in Reading <=> pc[t] \in Reading)
  <2>1. K = H
    BY Zenon, <1>1, <1>4
  <2> QED
    BY <1>1, <1>2, <1>4, <2>1, Zenon
<1>5. CASE permits' = permits - 1 /\ pc[t] \notin Reading /\ pc'[t] \in Reading
  <2>1. K = H \cup {t} /\ t \notin H
    BY Zenon, <1>1, <1>5
  <2>2. IsFiniteSet(K) /\ Cardinality(K) = Cardinality(H) + 1
    <3>1. IsFiniteSet(H \cup {t}) /\ Cardinality(H \cup {t}) = IF t \in H THEN Cardinality(H) ELSE Cardinality(H) + 1
      BY <1>1, FS_AddElement, Zenon
    <3> QED
      BY <2>1, <3>1, Zenon
  <2> QED
    BY <1>1, <1>2, <1>3, <1>5, <2>2
<1>6. CASE permits' = permits + 1 /\ pc[t] \in Reading /\ pc'[t] \notin Reading
  <2>1. K = H \ {t} /\ t \in H
    BY Zenon, <1>1, <1>6
  <2>2. IsFiniteSet(K) /\ Cardinality(K) = Cardinality(H) - 1
    <3>1. IsFiniteSet(H \ {t}) /\ Cardinality(H \ {t}) = IF t \in H THEN Cardinality(H) - 1 ELSE Cardinality(H)
      BY <1>1, FS_RemoveElement, Zenon
    <3> QED
      BY <2>1, <3>1, Zenon
  <2> QED
    BY <1>1, <1>2, <1>3, <1>6, <2>2
<1> QED
  BY <1>4, <1>5, <1>6

\* Every step of a thread but RunDone moves that thread alone.
LEMMA NextPermit == TypeOK /\ PermitInv /\ [Next]_vars /\ TypeOK' => PermitInv'
<1> SUFFICES ASSUME TypeOK, PermitInv, [Next]_vars, TypeOK' PROVE PermitInv'
  OBVIOUS
<1>0. permits' \in Nat
  BY DEF TypeOK
<1>a. ASSUME NEW t \in Threads, NEW label \in Labels, pc' = [pc EXCEPT ![t] = label],
             \/ permits' = permits /\ (label \in Reading <=> pc[t] \in Reading)
             \/ permits' = permits - 1 /\ pc[t] \notin Reading /\ label \in Reading
             \/ permits' = permits + 1 /\ pc[t] \in Reading /\ label \notin Reading
      PROVE  PermitInv'
  <2>1. pc'[t] = label /\ \A u \in Threads \ {t} : pc'[u] = pc[u]
    BY <1>a, OthersKeepPc, Zenon
  <2> QED
    BY Zenon, <1>0, <1>a, <2>1, PermitStep
<1>b. ASSUME UNCHANGED <<pc, permits>> PROVE PermitInv'
  BY Zenon, <1>b DEF PermitInv, PermitsConserved, Holders
<1>1. ASSUME NEW r \in Readers, ReaderStep(r) PROVE PermitInv'
  <2>0. r \in Threads
    BY DEF Threads
  <2>1. \E label \in Labels : /\ pc' = [pc EXCEPT ![r] = label]
             /\ \/ permits' = permits /\ (label \in Reading <=> pc[r] \in Reading)
                \/ permits' = permits - 1 /\ pc[r] \notin Reading /\ label \in Reading
                \/ permits' = permits + 1 /\ pc[r] \in Reading /\ label \notin Reading
    BY <1>1, Zenon DEF ReaderStep, GetOrLoad, CheckResident, TryGet, CheckScheduled, AwaitLoad, Park,
                SpuriousWakeup, PointLookup, LoadColumn, LockColumn, SetColumn, Labels, Reading
  <2> QED
    BY Zenon, <1>a, <2>0, <2>1
<1>2. ASSUME NEW q \in Queries, PlanStep(q) PROVE PermitInv'
  <2>0. q \in Threads
    BY DEF Threads
  <2>1. \E label \in Labels : /\ pc' = [pc EXCEPT ![q] = label]
                              /\ permits' = permits /\ (label \in Reading <=> pc[q] \in Reading)
    BY <1>2, Zenon DEF PlanStep, BeginPlan, MatchPartition, BeginRun, ExtendRun, EndPlan, Labels, Reading
  <2> QED
    BY Zenon, <1>a, <2>0, <2>1
<1>3. ASSUME NEW q \in Queries, BulkStep(q) PROVE PermitInv'
  <2>0. q \in Threads
    BY DEF Threads
  <2>1. \/ UNCHANGED <<pc, permits>>
        \/ \E label \in Labels : /\ pc' = [pc EXCEPT ![q] = label]
                                 /\ permits' = permits /\ (label \in Reading <=> pc[q] \in Reading)
    BY <1>3, Zenon DEF BulkStep, BeginBulk, BulkColumn, FlushBulk, EndBulk, Labels, Reading
  <2> QED
    BY Zenon, <1>a, <1>b, <2>0, <2>1
<1>4. ASSUME NEW l \in Loaders, LoaderStep(l) PROVE PermitInv'
  <2>0. l \in Threads /\ l \notin Readers
    BY ThreadsAssumption DEF Threads
  <2>1. CASE RunDone(l)
    <3>1. /\ permits' = permits + 1 /\ pc[l] \in Reading /\ pc'[l] \notin Reading
          /\ \A u \in Threads \ {l} : pc'[u] \in Reading <=> pc[u] \in Reading
      BY <2>0, <2>1 DEF RunDone, Reading
    <3> QED
      BY Zenon, <1>0, <2>0, <3>1, PermitStep
  <2>2. CASE ~RunDone(l)
    <3>1. \E label \in Labels : /\ pc' = [pc EXCEPT ![l] = label]
             /\ \/ permits' = permits /\ (label \in Reading <=> pc[l] \in Reading)
                \/ permits' = permits - 1 /\ pc[l] \notin Reading /\ label \in Reading
                \/ permits' = permits + 1 /\ pc[l] \in Reading /\ label \notin Reading
      BY <1>4, <2>2, Zenon DEF LoaderStep, StartService, MarkInProgress, PopRun, StopService, AcquireRead,
           LoadColumnRange, LockRestore, SetRestored, AfterRestore, RestorePanic, RangeDone, Labels, Reading
    <3> QED
      BY Zenon, <1>a, <2>0, <3>1
  <2> QED
    BY <2>1, <2>2
<1>5. ASSUME NEW e \in Evictors, EvictorStep(e) PROVE PermitInv'
  <2>0. e \in Threads
    BY DEF Threads
  <2>1. \E label \in Labels : /\ pc' = [pc EXCEPT ![e] = label]
                              /\ permits' = permits /\ (label \in Reading <=> pc[e] \in Reading)
    BY <1>5 DEF EvictorStep, EvictLru, LockEvict, DropColumn, Labels, Reading
  <2> QED
    BY Zenon, <1>a, <2>0, <2>1
<1>6. ASSUME NEW s \in Stores, StoreStep(s) PROVE PermitInv'
  <2>0. s \in Threads
    BY DEF Threads
  <2>1. \E label \in Labels : /\ pc' = [pc EXCEPT ![s] = label]
                              /\ permits' = permits /\ (label \in Reading <=> pc[s] \in Reading)
    BY <1>6 DEF StoreStep, AllocatePid, WritePartition, LoadPartition, PutKey, Labels, Reading
  <2> QED
    BY Zenon, <1>a, <2>0, <2>1
<1>7. CASE UNCHANGED vars
  BY Zenon, <1>7, <1>b DEF vars
<1> QED
  BY <1>1, <1>2, <1>3, <1>4, <1>5, <1>6, <1>7 DEF Next

\* At the start nobody reads, and all permits are free.
LEMMA InitPermit == Init => PermitInv
<1> SUFFICES ASSUME Init PROVE PermitInv
  OBVIOUS
<1>1. Holders = {}
  BY DEF Init, Holders, Reading
<1>2. permits = ReadThreads /\ ReadThreads \in Nat
  BY ReadThreadsAssumption DEF Init
<1>3. IsFiniteSet({}) /\ Cardinality({}) = 0
  BY FS_EmptySet
<1>4. PermitsConserved <=> permits + Cardinality(Holders) = ReadThreads
  BY Zenon DEF PermitsConserved, Holders, Reading
<1>5. ReadThreads + 0 = ReadThreads
  BY <1>2
<1> QED
  BY <1>1, <1>2, <1>3, <1>4, <1>5 DEF PermitInv

-----------------------------------------------------------------------------
(* The theorems.                                                             *)

\* The invariant behind everything below: it holds in every reachable state of the cache,
\* whatever the number of partitions, columns, workers, evictors and stores.
THEOREM CacheInvariant == Spec => []CacheInv
  BY InitInv, NextInv, PTL DEF Spec

\* Every variable always has its type.
THEOREM TypeCorrect == Spec => []TypeOK
<1>1. CacheInv => TypeOK
  BY DEF CacheInv
<1> QED
  BY <1>1, CacheInvariant, PTL

\* Outside the critical section of a handle the resident flag that get_or_load tests
\* without the mutex tells whether the column is loaded.
THEOREM ResidencyConsistent == Spec => []ResidentIffPresent
<1>1. CacheInv => ResidentIffPresent
  BY ThreadsAssumption DEF CacheInv, FlagInside, ResidentIffPresent, Threads
<1> QED
  BY <1>1, CacheInvariant, PTL

\* No loaded column escapes the memory limit: it is listed, chosen, or about to be listed.
THEOREM NoColumnLeaks == Spec => []LoadedIsEvictable
<1>1. CacheInv => LoadedIsEvictable
  BY DEF CacheInv, ListedInside, LoadedIsEvictable
<1> QED
  BY <1>1, CacheInvariant, PTL

\* The LRU list holds no key of a column that is gone, so every eviction frees memory.
THEOREM NoGhostKeys == Spec => []ListedIsLoaded
<1>1. CacheInv => ListedIsLoaded
  BY ThreadsAssumption DEF CacheInv, ListedInside, ListedIsLoaded, TypeOK, Threads
<1> QED
  BY <1>1, CacheInvariant, PTL

\* What get_or_load reads from disk is there, also while partitions are being stored.
THEOREM LookupsSucceed == Spec => []PointLookupFinds
<1>1. CacheInv => PointLookupFinds
  BY Zenon DEF CacheInv, WorksOnLive, PointLookupFinds
<1> QED
  BY <1>1, CacheInvariant, PTL

\* A column that is marked load_scheduled, which get_or_load waits for, is covered by a run
\* in the queue, by one that a planner is making, or by the work of a loader.
THEOREM PromisesKept == Spec => []PromiseCovered
<1>. DEFINE Inv == CacheInv /\ PromiseInv
<1>1. Init => Inv
  BY InitInv, InitPromise
<1>2. Inv /\ [Next]_vars => Inv'
  <2>1. CacheInv => TypeOK /\ WorksOnLive
    BY DEF CacheInv
  <2>. QED
    BY <2>1, NextInv, NextPromise
<1>3. Inv => PromiseCovered
  BY DEF PromiseInv
<1>. QED
  BY <1>1, <1>2, <1>3, PTL DEF Spec

\* The semaphore of disk reads loses no permit and hands out none twice: those that are
\* free and those that threads hold are always as many as there were.
THEOREM PermitsKept == Spec => []PermitsConserved
<1>. DEFINE Inv == CacheInv /\ PermitInv
<1>1. Init => Inv
  BY InitInv, InitPermit
<1>2. Inv /\ [Next]_vars => Inv'
  <2>1. (CacheInv => TypeOK) /\ (CacheInv' => TypeOK')
    BY DEF CacheInv
  <2>. QED
    BY <2>1, NextInv, NextPermit
<1>3. Inv => PermitsConserved
  BY DEF PermitInv
<1>. QED
  BY <1>1, <1>2, <1>3, PTL DEF Spec

=============================================================================
