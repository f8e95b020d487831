-------------------------- MODULE ColumnCacheSteps ---------------------------
(***************************************************************************)
(* CacheInv is an invariant of ColumnCache, for any sets of partitions,     *)
(* columns and threads.  A thread between two steps has a handle to work    *)
(* on only by WorksOnLive, and store_partition writes a partition that was  *)
(* not there only by FreshPids, so the lemmas about types assume these      *)
(* parts of CacheInv too.                                                   *)
(***************************************************************************)
EXTENDS ColumnCache, TLAPS

\* The tuples of variables in UNCHANGED and the shorthand for pc' are always expanded.
USE DEF handleVars, loadVars, planVars, storeVars, Goto

\* Init establishes the types.
LEMMA InitTypeOK == Init => TypeOK
<1> SUFFICES ASSUME Init PROVE TypeOK
  OBVIOUS
<1>1. EmptyRun \in Run
  BY DEF EmptyRun, Run
<1>2. \A l \in Loaders : job[l] \in Job
  BY <1>1, HandlesAssumption DEF Init, Job
<1>3. job \in [Loaders -> Job]
  BY <1>2 DEF Init
<1>4. nextPid \in Nat /\ permits \in Nat /\ services \in Nat
  BY PidsAssumption, ReadThreadsAssumption DEF Init
<1>5. queue \in Seq(Run) /\ plan.run \in Run
  BY <1>1 DEF Init
<1>6. /\ plan \in [cols : SUBSET Names, buffer : SUBSET Names, run : Run, prev : Nat,
                   todo : SUBSET (Pids \cup {MaxPid})]
      /\ bulk \in [todo : SUBSET ((Pids \cup {MaxPid}) \X Names), runs : [Names -> Run]]
  BY <1>1 DEF Init
<1>7. pc \in [Threads -> Labels]
  BY DEF Init, Labels
<1>8. stored \in [Stores -> [pid : Pids \cup {0}, keys : SUBSET Handles]]
  BY DEF Init
<1> QED
  BY Zenon, <1>3, <1>4, <1>5, <1>6, <1>7, <1>8 DEF Init, TypeOK, Pids

\* The steps of get_or_load keep the types.
LEMMA ReaderTypeOK ==
  ASSUME TypeOK, WorksOnLive, NEW r \in Readers, ReaderStep(r) PROVE TypeOK'
<1>0. r \in Threads /\ pc \in [Threads -> Labels]
  BY DEF TypeOK, Threads
<1>1. ASSUME NEW h \in Handles, GetOrLoad(r, h) PROVE TypeOK'
  BY <1>0, <1>1 DEF GetOrLoad, TypeOK, Labels
<1>2. CASE CheckResident(r)
  BY <1>0, <1>2 DEF CheckResident, TypeOK, Labels
<1>3. CASE TryGet(r)
  BY <1>0, <1>3 DEF TryGet, LruTouch, TypeOK, Labels
<1>4. CASE CheckScheduled(r)
  BY <1>0, <1>4 DEF CheckScheduled, TypeOK, Labels
<1>5. CASE AwaitLoad(r)
  <2>1. bgLock' \in {r, bgLock} /\ \E label \in Labels : pc' = [pc EXCEPT ![r] = label]
    BY <1>5 DEF AwaitLoad, Labels
  <2> QED
    BY <1>0, <1>5, <2>1 DEF AwaitLoad, TypeOK
<1>6. CASE Park(r)
  BY <1>0, <1>6 DEF Park, TypeOK, Labels
<1>7. CASE SpuriousWakeup(r)
  BY <1>0, <1>7 DEF SpuriousWakeup, TypeOK, Labels
<1>8. CASE PointLookup(r)
  BY <1>0, <1>8 DEF PointLookup, TypeOK, Labels
<1>9. CASE LoadColumn(r)
  BY <1>0, <1>9 DEF LoadColumn, TypeOK, Labels
<1>10. CASE LockColumn(r)
  <2>1. target[r] \in Handles
    BY Zenon, <1>10 DEF LockColumn, WorksOnLive
  <2> QED
    BY <1>0, <1>10, <2>1 DEF LockColumn, LruPut, TypeOK, Labels
<1>11. CASE SetColumn(r)
  BY Zenon, <1>0, <1>11 DEF SetColumn, TypeOK, Labels
<1> QED
  BY <1>1, <1>2, <1>3, <1>4, <1>5, <1>6, <1>7, <1>8, <1>9, <1>10, <1>11 DEF ReaderStep

\* A run appended to the queue leaves a queue of runs.
LEMMA AppendRun ==
  ASSUME TypeOK, NEW run \in Run PROVE Append(queue, run) \in Seq(Run)
  BY DEF TypeOK

\* The steps of schedule_sequential_read keep the types.
LEMMA PlanTypeOK ==
  ASSUME TypeOK, NEW q \in Queries, PlanStep(q) PROVE TypeOK'
<1>0. /\ q \in Threads /\ pc \in [Threads -> Labels] /\ EmptyRun \in Run
      /\ plan.run \in Run /\ plan.prev \in Nat
      /\ [plan.run EXCEPT !.end = plan.prev] \in Run
  BY Zenon DEF TypeOK, Threads, EmptyRun, Run
<1>1. ASSUME NEW columns \in SUBSET Names, NEW buffered \in SUBSET Names,
             BeginPlan(q, columns, buffered)
      PROVE TypeOK'
  BY <1>0, <1>1 DEF BeginPlan, TypeOK, Labels
<1>2. ASSUME NEW p \in Pids \cup {MaxPid}, NEW over \in BOOLEAN, MatchPartition(q, p, over)
      PROVE TypeOK'
  <2>1. queue' \in Seq(Run)
    <3>1. queue \in Seq(Run) /\ Append(queue, [plan.run EXCEPT !.end = plan.prev]) \in Seq(Run)
      BY <1>0, AppendRun DEF TypeOK
    <3> QED
      BY Zenon, <1>2, <3>1 DEF MatchPartition
  <2>2. plan' \in [cols : SUBSET Names, buffer : SUBSET Names, run : Run, prev : Nat,
                   todo : SUBSET (Pids \cup {MaxPid})]
    BY ZenonT(60), <1>0, <1>2 DEF MatchPartition, TypeOK
  <2>3. pc' \in [Threads -> Labels]
    BY <1>0, <1>2 DEF MatchPartition, Labels
  <2> QED
    BY <1>2, <2>1, <2>2, <2>3 DEF MatchPartition, TypeOK
<1>3. ASSUME NEW p \in Pids \cup {MaxPid}, BeginRun(q, p) PROVE TypeOK'
  <2>1. p \in Nat /\ NonResidents(p) \subseteq Names
    BY PidsAssumption DEF NonResidents, PlanColumns, ColumnsOf, TypeOK, Pids
  <2>2. [start |-> p, end |-> 0, columns |-> NonResidents(p)] \in Run
    BY <2>1 DEF Run
  <2>3. plan' \in [cols : SUBSET Names, buffer : SUBSET Names, run : Run, prev : Nat,
                   todo : SUBSET (Pids \cup {MaxPid})]
    BY Zenon, <1>3, <2>1, <2>2 DEF BeginRun, TypeOK
  <2>4. scheduled' \in [Handles -> BOOLEAN] /\ pc' \in [Threads -> Labels]
    BY <1>0, <1>3 DEF BeginRun, PromiseLoad, Labels
  <2> QED
    BY <1>3, <2>3, <2>4 DEF BeginRun, TypeOK
<1>4. ASSUME NEW p \in Pids \cup {MaxPid}, ExtendRun(q, p) PROVE TypeOK'
  <2>1. p \in Nat
    BY PidsAssumption DEF Pids
  <2>2. scheduled' \in [Handles -> BOOLEAN] /\ pc' \in [Threads -> Labels]
    BY <1>0, <1>4 DEF ExtendRun, PromiseLoad, Labels
  <2> QED
    BY Zenon, <1>4, <2>1, <2>2 DEF ExtendRun, TypeOK
<1>5. CASE EndPlan(q)
  <2>1. queue' \in Seq(Run)
    BY <1>0, <1>5, AppendRun DEF EndPlan
  <2>2. plan' \in [cols : SUBSET Names, buffer : SUBSET Names, run : Run, prev : Nat,
                   todo : SUBSET (Pids \cup {MaxPid})]
    BY Zenon, <1>0, <1>5 DEF EndPlan, TypeOK
  <2>3. pc' \in [Threads -> Labels]
    BY <1>0, <1>5 DEF EndPlan, Labels
  <2> QED
    <3>1. /\ services' \in Nat /\ qlock' = NoThread
          /\ UNCHANGED <<handleVars, inProgress, bgLock, permits, bulk, storeVars, target, victim, job>>
      BY <1>5 DEF EndPlan, TypeOK
    <3> QED
      BY <2>1, <2>2, <2>3, <3>1 DEF TypeOK
<1> QED
  BY <1>1, <1>2, <1>3, <1>4, <1>5 DEF PlanStep

\* The steps of schedule_bulk_load keep the types.
LEMMA BulkTypeOK ==
  ASSUME TypeOK, NEW q \in Queries, BulkStep(q) PROVE TypeOK'
<1>0. /\ q \in Threads /\ pc \in [Threads -> Labels] /\ EmptyRun \in Run
      /\ \A n \in Names : bulk.runs[n] \in Run
  BY DEF TypeOK, Threads, EmptyRun, Run
<1>1. ASSUME NEW buffered \in SUBSET Names, BeginBulk(q, buffered) PROVE TypeOK'
  <2>1. {h \in Handles : h[1] \in live} \subseteq (Pids \cup {MaxPid}) \X Names
    BY HandlesAssumption
  <2>2. [n \in Names |-> EmptyRun] \in [Names -> Run]
    BY <1>0
  <2> QED
    BY <1>0, <1>1, <2>1, <2>2 DEF BeginBulk, TypeOK, Labels
<1>2. ASSUME NEW h \in Handles \cup ({MaxPid} \X Names), NEW over \in BOOLEAN, BulkColumn(q, h, over)
      PROVE TypeOK'
  <2> DEFINE run == [start |-> IF bulk.runs[h[2]].columns = {} THEN h[1] ELSE bulk.runs[h[2]].start,
                     end |-> h[1], columns |-> {h[2]}]
  <2>1. h[1] \in Nat /\ h[2] \in Names
    BY HandlesAssumption, PidsAssumption DEF Pids
  <2>2. run \in Run
    BY <1>0, <2>1 DEF Run
  <2>3. queue' \in Seq(Run) /\ bulk'.runs \in [Names -> Run]
    BY SMTT(60), <1>0, <1>2, <2>2 DEF BulkColumn, TypeOK
  <2>4. bulk' \in [todo : SUBSET ((Pids \cup {MaxPid}) \X Names), runs : [Names -> Run]]
    BY Zenon, <1>2, <2>3 DEF BulkColumn, TypeOK
  <2>5. scheduled' \in [Handles -> BOOLEAN]
    BY <1>2 DEF BulkColumn, PromiseLoad
  <2> QED
    BY Zenon, <1>2, <2>3, <2>4, <2>5 DEF BulkColumn, TypeOK
<1>3. ASSUME NEW n \in Names, FlushBulk(q, n) PROVE TypeOK'
  <2>1. queue' \in Seq(Run)
    BY <1>0, <1>3, AppendRun DEF FlushBulk
  <2>2. bulk' \in [todo : SUBSET ((Pids \cup {MaxPid}) \X Names), runs : [Names -> Run]]
    BY Zenon, <1>0, <1>3 DEF FlushBulk, TypeOK
  <2> QED
    BY Zenon, <1>3, <2>1, <2>2 DEF FlushBulk, TypeOK
<1>4. CASE EndBulk(q)
  BY SMTT(60), <1>0, <1>4, ReadThreadsAssumption DEF EndBulk, TypeOK, Labels
<1> QED
  BY <1>1, <1>2, <1>3, <1>4 DEF BulkStep

\* The steps of service_reads keep the types.
LEMMA LoaderTypeOK ==
  ASSUME TypeOK, WorksOnLive, NEW l \in Loaders, LoaderStep(l) PROVE TypeOK'
<1>0. l \in Threads /\ pc \in [Threads -> Labels] /\ job \in [Loaders -> Job]
  BY DEF TypeOK, Threads
<1>1. CASE StartService(l)
  BY <1>0, <1>1 DEF StartService, TypeOK, Labels
<1>2. CASE MarkInProgress(l)
  BY <1>0, <1>2 DEF MarkInProgress, TypeOK, Labels
<1>3. CASE PopRun(l)
  <2>1. Head(queue) \in Run /\ Tail(queue) \in Seq(Run)
    BY <1>3 DEF PopRun, TypeOK
  <2>2. [job[l] EXCEPT !.run = Head(queue), !.cols = Head(queue).columns, !.todo = {}] \in Job
    BY Zenon, <1>0, <2>1 DEF Job, Run
  <2>3. job' \in [Loaders -> Job]
    BY <1>0, <1>3, <2>2 DEF PopRun
  <2> QED
    BY Zenon, <1>0, <1>3, <2>1, <2>3 DEF PopRun, TypeOK, Labels
<1>4. CASE StopService(l)
  BY Zenon, <1>0, <1>4 DEF StopService, TypeOK, Labels
<1>5. CASE AcquireRead(l)
  BY SMTT(60), <1>0, <1>5 DEF AcquireRead, TypeOK, Labels
<1>6. ASSUME NEW n \in Names, LoadColumnRange(l, n) PROVE TypeOK'
  <2> DEFINE found == {p \in disk : <<p, n>> \in Handles /\ p \in job[l].run.start .. job[l].run.end}
  <2>1. found \subseteq Pids
    BY Zenon DEF TypeOK
  <2>2. [job[l] EXCEPT !.cols = @ \ {n}, !.name = n, !.todo = found] \in Job
    BY Zenon, <1>0, <2>1 DEF Job
  <2>3. job' \in [Loaders -> Job]
    BY <1>0, <1>6, <2>2 DEF LoadColumnRange
  <2> QED
    BY Zenon, <1>0, <1>6, <2>3 DEF LoadColumnRange, TypeOK, Labels
<1>7. ASSUME NEW p \in Pids, LockRestore(l, p) PROVE TypeOK'
  <2>1. <<p, job[l].name>> \in Handles
    BY Zenon, <1>7 DEF LockRestore, IsSmallest, WorksOnLive
  <2> QED
    BY Zenon, <1>0, <1>7, <2>1 DEF LockRestore, LruPut, TypeOK, Labels
<1>8. ASSUME NEW p \in Pids, SetRestored(l, p) PROVE TypeOK'
  <2>1. job' \in [Loaders -> Job]
    BY Zenon, <1>0, <1>8 DEF SetRestored, Job
  <2>2. pc' \in [Threads -> Labels]
    <3>1. PICK label \in {"restore", "restore_other"} : pc' = [pc EXCEPT ![l] = label]
      BY <1>8, Zenon DEF SetRestored, AfterRestore
    <3> QED
      BY <1>0, <3>1 DEF Labels
  <2> QED
    BY Zenon, <1>8, <2>1, <2>2 DEF SetRestored, TypeOK
<1>9. CASE RestorePanic(l)
  BY SMTT(60), <1>0, <1>9 DEF RestorePanic, TypeOK, Labels
<1>10. CASE RangeDone(l)
  BY Zenon, <1>0, <1>10 DEF RangeDone, TypeOK, Labels
<1>11. CASE RunDone(l)
  <2>1. pc' \in [Threads -> Labels]
    BY Zenon, <1>0, <1>11 DEF RunDone, Labels
  <2> QED
    BY SMTT(60), <1>11, <2>1 DEF RunDone, TypeOK
<1> QED
  BY <1>1, <1>2, <1>3, <1>4, <1>5, <1>6, <1>7, <1>8, <1>9, <1>10, <1>11 DEF LoaderStep

\* The steps of enforce_mem_limit keep the types.
LEMMA EvictorTypeOK ==
  ASSUME TypeOK, WorksOnLive, NEW e \in Evictors, EvictorStep(e) PROVE TypeOK'
<1>0. e \in Threads /\ pc \in [Threads -> Labels]
  BY DEF TypeOK, Threads
<1>1. ASSUME NEW h \in Handles, EvictLru(e, h) PROVE TypeOK'
  BY <1>0, <1>1 DEF EvictLru, LruRemove, TypeOK, Labels
<1>2. CASE LockEvict(e)
  <2>1. /\ hlock' \in [Handles -> Threads \cup {NoThread}]
        /\ resident' \in [Handles -> BOOLEAN]
    <3>1. CASE victim[e][1] \in live
      <4>1. /\ hlock' = [hlock EXCEPT ![victim[e]] = e]
            /\ resident' = [resident EXCEPT ![victim[e]] = FALSE]
        BY Zenon, <1>2, <3>1 DEF LockEvict
      <4> QED
        BY Zenon, <1>0, <4>1 DEF TypeOK
    <3>2. CASE victim[e][1] \notin live
      BY <1>2, <3>2 DEF LockEvict, TypeOK
    <3> QED
      BY <3>1, <3>2
  <2>2. pc' \in [Threads -> Labels]
    BY SMTT(60), <1>0, <1>2 DEF LockEvict, Labels
  <2> QED
    BY <1>2, <2>1, <2>2 DEF LockEvict, TypeOK
<1>3. CASE DropColumn(e)
  BY Zenon, <1>0, <1>3 DEF DropColumn, LruRemove, TypeOK, Labels
<1> QED
  BY <1>1, <1>2, <1>3 DEF EvictorStep

\* The steps of store_partition keep the types.
LEMMA StoreTypeOK ==
  ASSUME TypeOK, FreshPids, NEW s \in Stores, StoreStep(s) PROVE TypeOK'
<1>0. s \in Threads /\ pc \in [Threads -> Labels] /\ NewPids \subseteq Pids
  BY Zenon DEF TypeOK, Threads, Pids
<1>1. CASE AllocatePid(s)
  <2>1. stored' \in [Stores -> [pid : Pids \cup {0}, keys : SUBSET Handles]]
    BY SMTT(60), <1>0, <1>1 DEF AllocatePid, TypeOK
  <2>2. pc' \in [Threads -> Labels]
    BY <1>0, <1>1 DEF AllocatePid, Labels
  <2> QED
    BY SMTT(60), <1>1, <2>1, <2>2 DEF AllocatePid, TypeOK
<1>2. CASE WritePartition(s)
  <2>1. pc' \in [Threads -> Labels]
    BY <1>0, <1>2 DEF WritePartition, Labels
  <2>2. stored[s].pid \in NewPids
    BY Zenon, <1>2 DEF WritePartition, FreshPids
  <2> QED
    BY Zenon, <1>0, <1>2, <2>1, <2>2 DEF WritePartition, TypeOK
<1>3. CASE LoadPartition(s)
  <2>1. HandlesOf(stored[s].pid) \subseteq Handles /\ stored[s].pid \in Pids
    BY Zenon, <1>0, <1>3 DEF HandlesOf, LoadPartition, FreshPids
  <2> QED
    BY SMTT(60), <1>0, <1>3, <2>1 DEF LoadPartition, TypeOK, Labels
<1>4. ASSUME NEW h \in Handles, PutKey(s, h) PROVE TypeOK'
  <2>1. stored' \in [Stores -> [pid : Pids \cup {0}, keys : SUBSET Handles]]
    BY SMTT(60), <1>4 DEF PutKey, TypeOK
  <2>2. pc' \in [Threads -> Labels]
    BY <1>0, <1>4 DEF PutKey, Labels
  <2> QED
    BY <1>4, <2>1, <2>2 DEF PutKey, LruPut, TypeOK
<1> QED
  BY <1>1, <1>2, <1>3, <1>4 DEF StoreStep

\* The threads of one kind keep their control state when a thread of another kind moves.
LEMMA OthersKeepPc ==
  ASSUME TypeOK, NEW t \in Threads, NEW label \in Labels, pc' = [pc EXCEPT ![t] = label]
  PROVE  /\ pc'[t] = label
         /\ \A u \in Threads \ {t} : pc'[u] = pc[u]
  BY DEF TypeOK

\* What is still to be listed depends on the stores alone ...
LEMMA UnlistedFrame ==
  ASSUME UNCHANGED stored, \A s \in Stores : pc'[s] = pc[s]
  PROVE  \A h \in Handles : Unlisted(h)' <=> Unlisted(h)
  BY DEF Unlisted

\* ... and what is chosen on the evictors alone.
LEMMA ChosenFrame ==
  ASSUME UNCHANGED victim, \A e \in Evictors : pc'[e] = pc[e]
  PROVE  \A h \in Handles : Chosen(h)' <=> Chosen(h)
  BY DEF Chosen

\* Partition ids are the business of store_partition.
LEMMA FreshPidsFrame ==
  ASSUME FreshPids, UNCHANGED <<live, disk, nextPid, stored>>, \A s \in Stores : pc'[s] = pc[s]
  PROVE  FreshPids'
  BY Zenon DEF FreshPids

\* Who is inside depends on its control state and what it works on.
LEMMA InsideFrame ==
  ASSUME NEW t, pc'[t] = pc[t], t \in Readers => target'[t] = target[t],
         t \in Evictors => victim'[t] = victim[t], t \in Loaders => job'[t] = job[t]
  PROVE  \A h \in Handles : Inside(t, h)' <=> Inside(t, h)
  BY Zenon DEF Inside, IsSmallest

\* The mutexes stay with their owners ...
LEMMA LockKept ==
  ASSUME LockOwnership, UNCHANGED hlock,
         \A t \in Threads : \A h \in Handles : Inside(t, h)' <=> Inside(t, h)
  PROVE  LockOwnership'
  BY Zenon DEF LockOwnership

\* ... or thread u enters with the free mutex of handle a ...
LEMMA LockTaken ==
  ASSUME LockOwnership, NoThread \notin Threads, NEW u \in Threads, NEW a \in Handles,
         hlock[a] = NoThread, hlock'[a] = u, \A h \in Handles \ {a} : hlock'[h] = hlock[h],
         \A h \in Handles : ~Inside(u, h) /\ (Inside(u, h)' <=> h = a),
         \A t \in Threads \ {u} : \A h \in Handles : Inside(t, h)' <=> Inside(t, h)
  PROVE  LockOwnership'
<1> SUFFICES ASSUME NEW h \in Handles, NEW t \in Threads
             PROVE  hlock'[h] = t <=> Inside(t, h)'
  BY Zenon DEF LockOwnership
<1>1. hlock[h] = t <=> Inside(t, h)
  BY Zenon DEF LockOwnership
<1>2. CASE h = a
  BY Zenon, <1>1, <1>2
<1>3. CASE h # a
  BY Zenon, <1>1, <1>3
<1> QED
  BY Zenon, <1>2, <1>3

\* ... or leaves and frees it.
LEMMA LockReleased ==
  ASSUME LockOwnership, NoThread \notin Threads, NEW u \in Threads, NEW a \in Handles,
         hlock[a] = u, hlock'[a] = NoThread, \A h \in Handles \ {a} : hlock'[h] = hlock[h],
         \A h \in Handles : (Inside(u, h) => h = a) /\ ~Inside(u, h)',
         \A t \in Threads \ {u} : \A h \in Handles : Inside(t, h)' <=> Inside(t, h)
  PROVE  LockOwnership'
  BY Zenon DEF LockOwnership

\* A step that changes no handle, no LRU entry and no partition keeps the invariant if it
\* enters or leaves no critical section, and sends no reader of an unlisted column to disk.
LEMMA FrameInv ==
  ASSUME CacheInv, TypeOK',
         UNCHANGED <<col, resident, hlock, lru, live, disk, nextPid, stored, target, victim>>,
         \A t \in Evictors \cup Stores : pc'[t] = pc[t],
         \A r \in Readers : pc'[r] = "set_column" <=> pc[r] = "set_column",
         \A r \in Readers : pc[r] = "idle" => pc'[r] = "idle",
         \A r \in Readers : Unlisted(target[r]) => pc'[r] \in {"idle", "check_resident", "try_get"},
         \A l \in Loaders : pc'[l] = "set_restored" <=> pc[l] = "set_restored",
         \A l \in Loaders : pc[l] = "set_restored" => job'[l] = job[l],
         \A l \in Loaders : \A p \in job'[l].todo : <<p, job'[l].name>> \in Handles
  PROVE  CacheInv'
<1>1. /\ \A h \in Handles : Unlisted(h)' <=> Unlisted(h)
      /\ \A h \in Handles : Chosen(h)' <=> Chosen(h)
  BY UnlistedFrame, ChosenFrame
<1>2. LockOwnership'
  <2> SUFFICES ASSUME NEW t \in Threads, NEW h \in Handles PROVE Inside(t, h)' <=> Inside(t, h)
    BY Zenon, LockKept DEF CacheInv
  <2>1. CASE t \in Readers
    BY Zenon, <2>1, ThreadsAssumption DEF Inside
  <2>2. CASE t \in Evictors
    BY Zenon, <2>2, ThreadsAssumption DEF Inside
  <2>3. CASE t \in Loaders
    BY Zenon, <2>3, ThreadsAssumption DEF Inside, IsSmallest
  <2> QED
    BY Zenon, <2>1, <2>2, <2>3 DEF Inside
<1>3. WorksOnLive'
  BY Zenon DEF CacheInv, WorksOnLive
<1>4. FreshPids'
  BY FreshPidsFrame DEF CacheInv
<1>5. FlagInside'
  BY Zenon DEF CacheInv, FlagInside
<1>6. ListedInside'
  BY Zenon, <1>1 DEF CacheInv, ListedInside
<1>7. UnlistedIsLoaded'
  <2>1. UnlistedIsLoaded /\ lru' = lru /\ resident' = resident /\ col' = col /\ target' = target
    BY Zenon DEF CacheInv
  <2>2. ASSUME NEW h \in Handles, NEW q \in Readers, Unlisted(h), target[q] = h
        PROVE  pc'[q] \in {"idle", "check_resident", "try_get"}
    BY SMT, <2>2
  <2>3. ASSUME NEW h \in Handles, Unlisted(h)'
        PROVE  /\ col'[h] /\ resident'[h] /\ h \notin lru' /\ ~Chosen(h)'
               /\ \A q \in Readers : target'[q] = h => pc'[q] \in {"idle", "check_resident", "try_get"}
    <3>1. Unlisted(h) /\ (Chosen(h)' <=> Chosen(h))
      BY Zenon, <1>1, <2>3
    <3>2. col[h] /\ resident[h] /\ h \notin lru /\ ~Chosen(h)
      BY Zenon, <2>1, <3>1 DEF UnlistedIsLoaded
    <3> QED
      BY Zenon, <2>1, <2>2, <3>1, <3>2
  <2> QED
    BY Zenon, <2>3 DEF UnlistedIsLoaded
<1> QED
  BY <1>2, <1>3, <1>4, <1>5, <1>6, <1>7 DEF CacheInv

\* The steps of get_or_load keep the invariant.
LEMMA ReaderInv ==
  ASSUME CacheInv, TypeOK', NEW r \in Readers, ReaderStep(r) PROVE CacheInv'
<1>0. /\ r \in Threads /\ Readers \subseteq Threads /\ pc \in [Threads -> Labels] /\ TypeOK
      /\ \A t \in Evictors \cup Stores \cup Loaders : t \in Threads \ {r}
      /\ \A h \in Handles : h # NoHandle
      /\ NoThread \notin Threads /\ r \notin Evictors /\ r \notin Loaders
  BY SMTT(60), ThreadsAssumption DEF CacheInv, TypeOK, Threads
<1>a. \A l \in Loaders : \A p \in job[l].todo : <<p, job[l].name>> \in Handles
  BY Zenon DEF CacheInv, WorksOnLive
<1>b. pc[r] # "idle" => target[r] \in Handles /\ target[r][1] \in live
  BY Zenon DEF CacheInv, WorksOnLive
<1>c. ASSUME NEW label \in Labels, pc' = [pc EXCEPT ![r] = label],
             pc[r] \notin {"idle", "set_column"}, label # "set_column",
             UNCHANGED <<col, resident, hlock, lru, storeVars, target, victim, job>>,
             Unlisted(target[r]) => label \in {"idle", "check_resident", "try_get"}
      PROVE  CacheInv'
  <2>1. pc'[r] = label /\ \A u \in Threads \ {r} : pc'[u] = pc[u]
    BY <1>0, <1>c, OthersKeepPc
  <2>2. \A g \in Readers : Unlisted(target[g]) => pc'[g] \in {"idle", "check_resident", "try_get"}
    BY Zenon, <1>0, <1>b, <1>c, <2>1 DEF CacheInv, UnlistedIsLoaded, WorksOnLive, Unlisted, FreshPids, HandlesOf
  <2> QED
    BY Zenon, <1>0, <1>a, <1>c, <2>1, <2>2, FrameInv
<1>d. pc[r] \notin {"idle", "check_resident", "try_get"} => ~Unlisted(target[r])
  BY Zenon, <1>b DEF CacheInv, UnlistedIsLoaded
<1>1. ASSUME NEW h \in Handles, GetOrLoad(r, h) PROVE CacheInv'
  <2>1. pc'[r] = "check_resident" /\ \A u \in Threads \ {r} : pc'[u] = pc[u]
    BY Zenon, <1>0, <1>1, OthersKeepPc DEF GetOrLoad, Labels
  <2>2. target'[r] = h /\ \A g \in Readers \ {r} : target'[g] = target[g]
    BY Zenon, <1>0, <1>1 DEF GetOrLoad, TypeOK
  <2>3. /\ \A g \in Handles : Unlisted(g)' <=> Unlisted(g)
        /\ \A g \in Handles : Chosen(g)' <=> Chosen(g)
    BY <1>0, <1>1, <2>1, UnlistedFrame, ChosenFrame DEF GetOrLoad
  <2>4. LockOwnership'
    <3>1. \A t \in Threads \ {r} : \A g \in Handles : Inside(t, g)' <=> Inside(t, g)
      BY Zenon, <1>0, <1>1, <2>1, <2>2, InsideFrame DEF GetOrLoad
    <3>2. \A g \in Handles : ~Inside(r, g) /\ ~Inside(r, g)'
      BY Zenon, <1>0, <1>1, <2>1 DEF GetOrLoad, Inside
    <3> QED
      BY Zenon, <1>1, <3>1, <3>2, LockKept DEF GetOrLoad, CacheInv
  <2>5. WorksOnLive'
    <3>1. WorksOnLive /\ UNCHANGED <<live, disk, col, resident, hlock, victim, job>> /\ h[1] \in live
      BY Zenon, <1>1 DEF GetOrLoad, CacheInv
    <3>2. \A q \in Readers : pc'[q] # "idle" => target'[q] \in Handles /\ target'[q][1] \in live
      BY Zenon, <1>0, <1>1, <2>1, <2>2, <3>1 DEF WorksOnLive
    <3>3. \A d \in Evictors : pc'[d] = pc[d]
      BY Zenon, <1>0, <2>1
    <3> QED
      BY Zenon, <3>1, <3>2, <3>3 DEF WorksOnLive
  <2>6. FreshPids'
    BY <1>0, <1>1, <2>1, FreshPidsFrame DEF GetOrLoad, CacheInv
  <2>7. FlagInside' /\ ListedInside'
    BY Zenon, <1>1, <2>3 DEF GetOrLoad, CacheInv, FlagInside, ListedInside
  <2>8. UnlistedIsLoaded'
    <3>1. UnlistedIsLoaded /\ lru' = lru /\ resident' = resident /\ col' = col
      BY Zenon, <1>1 DEF GetOrLoad, CacheInv
    <3>2. \A q \in Readers : (pc'[q] = pc[q] /\ target'[q] = target[q]) \/ pc'[q] = "check_resident"
      BY Zenon, <1>0, <2>1, <2>2
    <3> QED
      BY Zenon, <2>3, <3>1, <3>2 DEF UnlistedIsLoaded
  <2> QED
    BY <2>4, <2>5, <2>6, <2>7, <2>8 DEF CacheInv
<1>2. CASE CheckResident(r)
  <2>1. Unlisted(target[r]) => resident[target[r]]
    BY Zenon, <1>2, <1>b DEF CheckResident, CacheInv, UnlistedIsLoaded
  <2> QED
    BY Zenon, <1>2, <1>c, <2>1 DEF CheckResident, Labels
<1>3. CASE TryGet(r)
  BY Zenon, <1>3, <1>c DEF TryGet, LruTouch, Labels
<1>4. CASE CheckScheduled(r)
  BY Zenon, <1>4, <1>c, <1>d DEF CheckScheduled, Labels
<1>5. CASE AwaitLoad(r)
  <2>1. \E label \in {"park", "check_resident"} : pc' = [pc EXCEPT ![r] = label]
    BY <1>5, Zenon DEF AwaitLoad
  <2> QED
    BY Zenon, <1>5, <1>c, <1>d, <2>1 DEF AwaitLoad, Labels
<1>6. CASE Park(r)
  BY <1>6, <1>c, <1>d DEF Park, Labels
<1>7. CASE SpuriousWakeup(r)
  BY <1>7, <1>c, <1>d DEF SpuriousWakeup, Labels
<1>8. CASE PointLookup(r)
  BY <1>8, <1>c, <1>d DEF PointLookup, Labels
<1>9. CASE LoadColumn(r)
  BY <1>9, <1>c, <1>d DEF LoadColumn, Labels
<1>10. CASE LockColumn(r)
  <2> DEFINE a == target[r]
  <2>1. pc'[r] = "set_column" /\ \A u \in Threads \ {r} : pc'[u] = pc[u]
    BY Zenon, <1>0, <1>10, OthersKeepPc DEF LockColumn, Labels
  <2>2. a \in Handles /\ a[1] \in live /\ ~Unlisted(a)
    BY Zenon, <1>10, <1>b, <1>d DEF LockColumn
  <2>3. /\ hlock[a] = NoThread /\ hlock'[a] = r
        /\ \A h \in Handles \ {a} : hlock'[h] = hlock[h]
    BY Zenon, <1>0, <1>10, <2>2 DEF LockColumn, TypeOK
  <2>4. /\ \A g \in Handles : Unlisted(g)' <=> Unlisted(g)
        /\ \A g \in Handles : Chosen(g)' <=> Chosen(g)
    BY <1>0, <1>10, <2>1, UnlistedFrame, ChosenFrame DEF LockColumn
  <2>5. LockOwnership'
    <3>1. \A t \in Threads \ {r} : \A g \in Handles : Inside(t, g)' <=> Inside(t, g)
      BY Zenon, <1>0, <1>10, <2>1, InsideFrame DEF LockColumn
    <3>2. \A g \in Handles : ~Inside(r, g) /\ (Inside(r, g)' <=> g = a)
      BY Zenon, <1>0, <1>10, <2>1 DEF LockColumn, Inside
    <3> QED
      BY Zenon, <1>0, <2>2, <2>3, <3>1, <3>2, LockTaken DEF CacheInv
  <2>6. WorksOnLive'
    BY Zenon, <1>0, <1>10, <2>1, <2>2, <2>3 DEF LockColumn, CacheInv, WorksOnLive
  <2>7. FreshPids'
    BY <1>0, <1>10, <2>1, FreshPidsFrame DEF LockColumn, CacheInv
  <2>8. FlagInside'
    BY Zenon, <1>10, <2>2, <2>3, ThreadsAssumption DEF LockColumn, CacheInv, FlagInside, Threads
  <2>9. ListedInside'
    BY Zenon, <1>10, <2>2, <2>3, <2>4 DEF LockColumn, LruPut, CacheInv, ListedInside
  <2>10. UnlistedIsLoaded'
    <3>1. UnlistedIsLoaded /\ target' = target /\ lru' = lru \cup {a} /\ resident' = resident /\ col' = col
      BY Zenon, <1>10 DEF LockColumn, LruPut, CacheInv
    <3>2. \A q \in Readers : pc'[q] = pc[q] \/ target[q] = a
      BY Zenon, <1>0, <2>1
    <3>3. \A h \in Handles : Unlisted(h)' => h # a /\ Unlisted(h) /\ (Chosen(h)' <=> Chosen(h))
      BY Zenon, <2>2, <2>4
    <3> HIDE DEF a
    <3> QED
      BY Zenon, <3>1, <3>2, <3>3 DEF UnlistedIsLoaded
  <2> QED
    BY <2>5, <2>6, <2>7, <2>8, <2>9, <2>10 DEF CacheInv
<1>11. CASE SetColumn(r)
  <2> DEFINE a == target[r]
  <2>1. pc'[r] = "idle" /\ \A u \in Threads \ {r} : pc'[u] = pc[u]
    BY Zenon, <1>0, <1>11, OthersKeepPc DEF SetColumn, Labels
  <2>2. a \in Handles /\ a[1] \in live /\ ~Unlisted(a)
    BY <1>11, <1>b, <1>d DEF SetColumn
  <2>3. /\ hlock[a] = r /\ hlock'[a] = NoThread
        /\ \A h \in Handles \ {a} : hlock'[h] = hlock[h] /\ hlock[h] # r
    <3>1. \A h \in Handles : Inside(r, h) <=> h = a
      BY Zenon, <1>0, <1>11 DEF SetColumn, Inside
    <3> QED
      BY ZenonT(60), <1>0, <1>11, <2>2, <3>1 DEF SetColumn, CacheInv, TypeOK, LockOwnership
  <2>4. /\ \A g \in Handles : Unlisted(g)' <=> Unlisted(g)
        /\ \A g \in Handles : Chosen(g)' <=> Chosen(g)
    BY <1>0, <1>11, <2>1, UnlistedFrame, ChosenFrame DEF SetColumn
  <2>a. /\ col'[a] /\ resident'[a]
        /\ \A h \in Handles \ {a} : col'[h] = col[h] /\ resident'[h] = resident[h]
    BY Zenon, <1>0, <1>11, <2>2 DEF SetColumn, TypeOK
  <2>5. LockOwnership'
    <3>1. \A t \in Threads \ {r} : \A g \in Handles : Inside(t, g)' <=> Inside(t, g)
      BY Zenon, <1>0, <1>11, <2>1, InsideFrame DEF SetColumn
    <3>2. \A g \in Handles : (Inside(r, g) => g = a) /\ ~Inside(r, g)'
      BY Zenon, <1>0, <2>1 DEF Inside
    <3> QED
      BY Zenon, <1>0, <2>2, <2>3, <3>1, <3>2, LockReleased DEF CacheInv
  <2>6. WorksOnLive'
    BY Zenon, <1>0, <1>11, <2>1, <2>2, <2>3, <2>a DEF SetColumn, CacheInv, WorksOnLive
  <2>7. FreshPids'
    BY <1>0, <1>11, <2>1, FreshPidsFrame DEF SetColumn, CacheInv
  <2>8. FlagInside'
    BY Zenon, <1>0, <1>11, <2>3, <2>a, ThreadsAssumption DEF CacheInv, FlagInside, Threads
  <2>9. ListedInside'
    <3>1. ListedInside /\ lru' = lru
      BY Zenon, <1>11 DEF SetColumn, CacheInv
    <3>2. a \in lru \/ Chosen(a) \/ Unlisted(a)
      BY Zenon, <2>2, <2>3, <3>1 DEF ListedInside
    <3> HIDE DEF a
    <3>3. ASSUME NEW h \in Handles PROVE
            /\ col'[h] \/ hlock'[h] \in Readers \cup Loaders => h \in lru' \/ Chosen(h)' \/ Unlisted(h)'
            /\ h \in lru' => col'[h] \/ hlock'[h] \in Readers \cup Loaders
      <4>1. CASE h = a
        BY Zenon, <4>1, <2>4, <2>a, <3>1, <3>2
      <4>2. CASE h # a
        BY Zenon, <4>2, <2>3, <2>4, <2>a, <3>1 DEF ListedInside
      <4> QED
        BY <4>1, <4>2
    <3> QED
      BY Zenon, <3>3 DEF ListedInside
  <2>10. UnlistedIsLoaded'
    <3>1. UnlistedIsLoaded /\ target' = target /\ lru' = lru
      BY Zenon, <1>11 DEF SetColumn, CacheInv
    <3>2. \A q \in Readers : pc'[q] = pc[q] \/ pc'[q] = "idle"
      BY Zenon, <1>0, <2>1
    <3>3. \A h \in Handles : Unlisted(h)' =>
            /\ Unlisted(h) /\ (Chosen(h)' <=> Chosen(h))
            /\ col'[h] = col[h] /\ resident'[h] = resident[h]
      BY Zenon, <2>2, <2>4, <2>a
    <3> HIDE DEF a
    <3>4. ASSUME NEW h \in Handles, Unlisted(h)'
          PROVE  /\ col'[h] /\ resident'[h] /\ h \notin lru' /\ ~Chosen(h)'
                 /\ \A q \in Readers : target'[q] = h => pc'[q] \in {"idle", "check_resident", "try_get"}
      BY Zenon, <3>1, <3>2, <3>3, <3>4 DEF UnlistedIsLoaded
    <3> QED
      BY Zenon, <3>4 DEF UnlistedIsLoaded
  <2> QED
    BY <2>5, <2>6, <2>7, <2>8, <2>9, <2>10 DEF CacheInv
<1> QED
  BY <1>1, <1>2, <1>3, <1>4, <1>5, <1>6, <1>7, <1>8, <1>9, <1>10, <1>11 DEF ReaderStep

\* The steps of the read planners keep the invariant.
LEMMA QueryInv ==
  ASSUME CacheInv, TypeOK', NEW q \in Queries, PlanStep(q) \/ BulkStep(q) PROVE CacheInv'
<1>0. /\ q \in Threads /\ pc \in [Threads -> Labels] /\ TypeOK
      /\ \A t \in Readers \cup Loaders \cup Evictors \cup Stores : t \in Threads \ {q}
  BY SMTT(60), ThreadsAssumption DEF CacheInv, TypeOK, Threads
<1>1. /\ UNCHANGED <<col, resident, hlock, lru, live, disk, nextPid, stored, target, victim, job>>
      /\ \A u \in Threads \ {q} : pc'[u] = pc[u]
  <2>1. CASE PlanStep(q)
    BY Zenon, <1>0, <2>1 DEF PlanStep, BeginPlan, MatchPartition, BeginRun, ExtendRun, EndPlan
  <2>2. CASE BulkStep(q)
    BY Zenon, <1>0, <2>2 DEF BulkStep, BeginBulk, BulkColumn, FlushBulk, EndBulk
  <2> QED
    BY Zenon, <2>1, <2>2
<1>2. \A g \in Readers : Unlisted(target[g]) => pc'[g] \in {"idle", "check_resident", "try_get"}
  BY Zenon, <1>0, <1>1 DEF CacheInv, UnlistedIsLoaded, Unlisted, FreshPids, HandlesOf
<1>3. \A l \in Loaders : \A p \in job'[l].todo : <<p, job'[l].name>> \in Handles
  BY Zenon, <1>1 DEF CacheInv, WorksOnLive
<1> QED
  BY Zenon, <1>0, <1>1, <1>2, <1>3, FrameInv

\* The steps of service_reads keep the invariant.
LEMMA LoaderInv ==
  ASSUME CacheInv, TypeOK', NEW l \in Loaders, LoaderStep(l) PROVE CacheInv'
<1>0. /\ l \in Threads /\ pc \in [Threads -> Labels] /\ TypeOK
      /\ \A t \in Readers \cup Evictors \cup Stores : t \in Threads \ {l}
      /\ Loaders \subseteq Threads /\ NoThread \notin Threads
      /\ l \notin Readers /\ l \notin Evictors
  BY SMTT(60), ThreadsAssumption DEF CacheInv, TypeOK, Threads
<1>a. \A g \in Readers : Unlisted(target[g]) => pc[g] \in {"idle", "check_resident", "try_get"}
  BY Zenon, <1>0 DEF CacheInv, UnlistedIsLoaded, Unlisted, FreshPids, HandlesOf
<1>b. \A k \in Loaders : \A p \in job[k].todo : <<p, job[k].name>> \in Handles
  BY Zenon DEF CacheInv, WorksOnLive
<1>c. ASSUME NEW label \in Labels, pc' = [pc EXCEPT ![l] = label],
             pc[l] # "set_restored", label # "set_restored",
             UNCHANGED <<col, resident, hlock, lru, storeVars, target, victim>>,
             \A k \in Loaders \ {l} : job'[k] = job[k],
             \A p \in job'[l].todo : <<p, job'[l].name>> \in Handles
      PROVE  CacheInv'
  <2>1. pc'[l] = label /\ \A u \in Threads \ {l} : pc'[u] = pc[u]
    BY Zenon, <1>0, <1>c, OthersKeepPc
  <2> QED
    BY Zenon, <1>0, <1>a, <1>b, <1>c, <2>1, FrameInv
<1>1. CASE StartService(l)
  BY Zenon, <1>1, <1>b, <1>c DEF StartService, Labels
<1>2. CASE MarkInProgress(l)
  BY Zenon, <1>2, <1>b, <1>c DEF MarkInProgress, Labels
<1>3. CASE PopRun(l)
  <2>1. job'[l].todo = {} /\ \A k \in Loaders \ {l} : job'[k] = job[k]
    BY Zenon, <1>0, <1>3 DEF PopRun, TypeOK, Job
  <2> QED
    BY Zenon, <1>3, <1>c, <2>1 DEF PopRun, Labels
<1>4. CASE StopService(l)
  BY Zenon, <1>4, <1>b, <1>c DEF StopService, Labels
<1>5. CASE AcquireRead(l)
  BY Zenon, <1>5, <1>b, <1>c DEF AcquireRead, Labels
<1>6. ASSUME NEW n \in Names, LoadColumnRange(l, n) PROVE CacheInv'
  <2>1. /\ \A p \in job'[l].todo : <<p, job'[l].name>> \in Handles
        /\ \A k \in Loaders \ {l} : job'[k] = job[k]
    BY ZenonT(60), <1>0, <1>6 DEF LoadColumnRange, TypeOK, Job
  <2> QED
    BY Zenon, <1>6, <1>c, <2>1 DEF LoadColumnRange, Labels
<1>9. CASE RestorePanic(l)
  BY Zenon, <1>9, <1>b, <1>c DEF RestorePanic, Labels
<1>10. CASE RangeDone(l)
  BY Zenon, <1>10, <1>b, <1>c DEF RangeDone, Labels
<1>11. CASE RunDone(l)
  <2>1. /\ \A t \in Evictors \cup Stores : pc'[t] = pc[t]
        /\ \A g \in Readers : pc'[g] = pc[g] \/ (pc[g] = "asleep" /\ pc'[g] = "await_load")
        /\ \A k \in Loaders : pc'[k] = "set_restored" <=> pc[k] = "set_restored"
    BY Zenon, <1>0, <1>11, ThreadsAssumption DEF RunDone
  <2> QED
    BY Zenon, <1>0, <1>11, <1>a, <1>b, <2>1, FrameInv DEF RunDone
<1>7. ASSUME NEW p \in Pids, LockRestore(l, p) PROVE CacheInv'
  <2> DEFINE a == <<p, job[l].name>>
  <2>1. pc'[l] = "set_restored" /\ \A u \in Threads \ {l} : pc'[u] = pc[u]
    BY Zenon, <1>0, <1>7, OthersKeepPc DEF LockRestore, Labels
  <2>2. a \in Handles /\ a[1] = p /\ a[2] = job[l].name /\ p \in live /\ IsSmallest(p, job[l].todo)
    BY <1>7, <1>b DEF LockRestore, IsSmallest
  <2>3. /\ hlock[a] = NoThread /\ hlock'[a] = l
        /\ \A h \in Handles \ {a} : hlock'[h] = hlock[h]
    BY Zenon, <1>0, <1>7, <2>2 DEF LockRestore, TypeOK
  <2>4. /\ \A g \in Handles : Unlisted(g)' <=> Unlisted(g)
        /\ \A g \in Handles : Chosen(g)' <=> Chosen(g)
    BY Zenon, <1>0, <1>7, <2>1, UnlistedFrame, ChosenFrame DEF LockRestore
  <2>a. /\ a \in lru' \/ (col[a] /\ lru' = lru)
        /\ \A h \in Handles \ {a} : h \in lru' <=> h \in lru
        /\ Unlisted(a) => lru' = lru
        /\ UNCHANGED <<col, resident, storeVars, target, victim, job>>
    BY Zenon, <1>7, <2>2 DEF LockRestore, LruPut, CacheInv, UnlistedIsLoaded
  <2>5. LockOwnership'
    <3>1. \A t \in Threads \ {l} : \A g \in Handles : Inside(t, g)' <=> Inside(t, g)
      BY Zenon, <1>0, <2>1, <2>a, InsideFrame
    <3>2. \A g \in Handles : g[2] = job[l].name /\ IsSmallest(g[1], job[l].todo) <=> g = a
      BY <2>2, HandlesAssumption, PidsAssumption DEF IsSmallest, Pids
    <3>3. \A g \in Handles : ~Inside(l, g) /\ (Inside(l, g)' <=> g = a)
      BY Zenon, <1>0, <1>7, <2>1, <2>a, <3>2 DEF LockRestore, Inside, IsSmallest
    <3> QED
      BY Zenon, <1>0, <2>2, <2>3, <3>1, <3>3, LockTaken DEF CacheInv
  <2>6. WorksOnLive'
    BY Zenon, <1>0, <2>1, <2>2, <2>3, <2>a DEF CacheInv, WorksOnLive
  <2>7. FreshPids'
    BY Zenon, <1>0, <2>1, <2>a, FreshPidsFrame DEF CacheInv
  <2>8. FlagInside'
    BY Zenon, <1>0, <2>3, <2>a, ThreadsAssumption DEF CacheInv, FlagInside, Threads
  <2>9. ListedInside'
    BY Zenon, <1>0, <2>3, <2>4, <2>a DEF CacheInv, ListedInside
  <2>10. UnlistedIsLoaded'
    <3> SUFFICES ASSUME NEW h \in Handles, Unlisted(h)
                 PROVE  /\ col[h] /\ resident[h] /\ h \notin lru' /\ ~Chosen(h)
                        /\ \A r \in Readers : target[r] = h => pc'[r] \in {"idle", "check_resident", "try_get"}
      BY Zenon, <2>4, <2>a DEF UnlistedIsLoaded
    <3> QED
      BY Zenon, <1>0, <2>1, <2>a DEF CacheInv, UnlistedIsLoaded
  <2> QED
    BY <2>5, <2>6, <2>7, <2>8, <2>9, <2>10 DEF CacheInv
<1>8. ASSUME NEW p \in Pids, SetRestored(l, p) PROVE CacheInv'
  <2> DEFINE a == <<p, job[l].name>>
  <2>1. pc'[l] \in {"restore", "restore_other"} /\ \A u \in Threads \ {l} : pc'[u] = pc[u]
    <3>1. PICK label \in {"restore", "restore_other"} : pc' = [pc EXCEPT ![l] = label]
      BY <1>8, Zenon DEF SetRestored, AfterRestore
    <3> QED
      BY <1>0, <3>1, OthersKeepPc, Zenon DEF Labels
  <2>2. a \in Handles /\ a[1] = p /\ a[2] = job[l].name /\ IsSmallest(p, job[l].todo)
    BY <1>8, <1>b DEF SetRestored, IsSmallest
  <2>3. \A g \in Handles : g[2] = job[l].name /\ IsSmallest(g[1], job[l].todo) <=> g = a
    BY <2>2, HandlesAssumption, PidsAssumption DEF IsSmallest, Pids
  <2>4. a \in Handles /\ hlock[a] = l
    BY Zenon, <1>0, <1>8, <2>2 DEF SetRestored, CacheInv, LockOwnership, Inside
  <2>5. \A g \in Handles : Inside(l, g) => g = a
    BY Zenon, <1>0, <2>3 DEF Inside
  <2>6. a[1] \in live
    BY Zenon, <1>0, <2>4 DEF CacheInv, WorksOnLive
  <2>7. /\ hlock'[a] = NoThread /\ col'[a] /\ resident'[a]
        /\ \A g \in Handles \ {a} : hlock'[g] = hlock[g] /\ col'[g] = col[g] /\ resident'[g] = resident[g]
        /\ UNCHANGED <<lru, storeVars, target, victim>>
    BY ZenonT(60), <1>0, <1>8, <2>4 DEF SetRestored, TypeOK
  <2>8. /\ \A g \in Handles : Unlisted(g)' <=> Unlisted(g)
        /\ \A g \in Handles : Chosen(g)' <=> Chosen(g)
    BY Zenon, <1>0, <2>1, <2>7, UnlistedFrame, ChosenFrame
  <2>9. /\ \A k \in Loaders \ {l} : job'[k] = job[k]
        /\ job'[l].name = job[l].name /\ job'[l].todo \subseteq job[l].todo
    BY <1>0, <1>8 DEF SetRestored, TypeOK, Job
  <2>10. LockOwnership'
    <3>1. \A t \in Threads \ {l} : \A g \in Handles : Inside(t, g)' <=> Inside(t, g)
      BY Zenon, <1>0, <2>1, <2>7, <2>9, InsideFrame
    <3>2. \A g \in Handles : ~Inside(l, g)'
      BY Zenon, <1>0, <2>1 DEF Inside
    <3> QED
      BY Zenon, <1>0, <2>4, <2>5, <2>7, <3>1, <3>2, LockReleased DEF CacheInv
  <2>11. WorksOnLive'
    BY Zenon, <1>0, <2>1, <2>6, <2>7, <2>9 DEF CacheInv, WorksOnLive
  <2>12. FreshPids'
    BY Zenon, <1>0, <2>1, <2>7, FreshPidsFrame DEF CacheInv
  <2>13. FlagInside'
    BY Zenon, <1>0, <2>7, ThreadsAssumption DEF CacheInv, FlagInside, Threads
  <2>14. ListedInside'
    BY Zenon, <1>0, <2>4, <2>7, <2>8 DEF CacheInv, ListedInside
  <2>15. UnlistedIsLoaded'
    BY Zenon, <1>0, <2>1, <2>7, <2>8 DEF CacheInv, UnlistedIsLoaded
  <2> QED
    BY <2>10, <2>11, <2>12, <2>13, <2>14, <2>15 DEF CacheInv
<1> QED
  BY <1>1, <1>2, <1>3, <1>4, <1>5, <1>6, <1>7, <1>8, <1>9, <1>10, <1>11 DEF LoaderStep

\* The steps of enforce_mem_limit keep the invariant.
LEMMA EvictorInv ==
  ASSUME CacheInv, TypeOK', NEW e \in Evictors, EvictorStep(e) PROVE CacheInv'
<1>0. /\ e \in Threads /\ Evictors \subseteq Threads /\ pc \in [Threads -> Labels] /\ TypeOK
      /\ \A t \in Readers \cup Loaders \cup Stores : t \in Threads \ {e}
      /\ NoThread \notin Threads /\ \A h \in Handles : h # NoHandle
      /\ e \notin Readers /\ e \notin Loaders
  BY SMTT(60), ThreadsAssumption DEF CacheInv, TypeOK, Threads
<1>1. ASSUME NEW a \in Handles, EvictLru(e, a) PROVE CacheInv'
  <2>1. pc[e] = "idle" /\ pc'[e] = "evict" /\ \A u \in Threads \ {e} : pc'[u] = pc[u]
    BY Zenon, <1>0, <1>1, OthersKeepPc DEF EvictLru, Labels
  <2>2. victim'[e] = a /\ \A d \in Evictors \ {e} : victim'[d] = victim[d]
    BY Zenon, <1>0, <1>1 DEF EvictLru, TypeOK
  <2>3. \A h \in Handles : Unlisted(h)' <=> Unlisted(h)
    BY <1>0, <1>1, <2>1, UnlistedFrame DEF EvictLru
  <2>4. Chosen(a)' /\ \A h \in Handles \ {a} : Chosen(h)' <=> Chosen(h)
    BY Zenon, <1>0, <2>1, <2>2 DEF Chosen
  <2>5. a \in lru /\ ~Unlisted(a) /\ a[1] \in live
    BY Zenon, <1>0, <1>1 DEF EvictLru, CacheInv, UnlistedIsLoaded, ListedInside, WorksOnLive, Threads
  <2>6. LockOwnership'
    <3>1. \A t \in Threads \ {e} : \A h \in Handles : Inside(t, h)' <=> Inside(t, h)
      BY Zenon, <1>0, <1>1, <2>1, <2>2, InsideFrame DEF EvictLru
    <3>2. \A h \in Handles : ~Inside(e, h) /\ ~Inside(e, h)'
      BY Zenon, <1>0, <2>1 DEF Inside
    <3> QED
      BY Zenon, <1>1, <3>1, <3>2, LockKept DEF EvictLru, CacheInv
  <2>7. WorksOnLive'
    <3>1. WorksOnLive /\ UNCHANGED <<live, disk, col, resident, hlock, target, job>>
      BY Zenon, <1>1 DEF EvictLru, CacheInv
    <3>2. \A q \in Readers : pc'[q] = pc[q]
      BY Zenon, <1>0, <2>1
    <3>3. \A d \in Evictors \ {e} : pc'[d] = pc[d] /\ victim'[d] = victim[d]
      BY Zenon, <1>0, <2>1, <2>2
    <3>4. \A d \in Evictors : pc'[d] # "idle" => victim'[d] \in Handles /\ victim'[d][1] \in live
      BY Zenon, <1>1, <2>2, <2>5, <3>1, <3>3 DEF WorksOnLive
    <3> QED
      BY Zenon, <3>1, <3>2, <3>4 DEF WorksOnLive
  <2>8. FreshPids'
    BY <1>0, <1>1, <2>1, FreshPidsFrame DEF EvictLru, CacheInv
  <2>9. FlagInside'
    BY <1>1, Zenon DEF EvictLru, CacheInv, FlagInside
  <2>10. ListedInside'
    BY Zenon, <1>1, <2>3, <2>4 DEF EvictLru, LruRemove, CacheInv, ListedInside
  <2>11. UnlistedIsLoaded'
    BY Zenon, <1>0, <1>1, <2>1, <2>3, <2>4, <2>5 DEF EvictLru, LruRemove, CacheInv, UnlistedIsLoaded
  <2> QED
    BY <2>6, <2>7, <2>8, <2>9, <2>10, <2>11 DEF CacheInv
<1>2. CASE LockEvict(e)
  <2> DEFINE a == victim[e]
  <2>1. a \in Handles /\ a[1] \in live /\ hlock[a] = NoThread /\ pc[e] = "evict"
    BY Zenon, <1>2 DEF LockEvict, CacheInv, WorksOnLive
  <2>2. /\ hlock' = [hlock EXCEPT ![a] = e] /\ resident' = [resident EXCEPT ![a] = FALSE]
        /\ pc' = [pc EXCEPT ![e] = "drop_column"]
        /\ UNCHANGED <<col, lru, storeVars, target, victim, job>>
    BY <1>2, <2>1 DEF LockEvict
  <2>3. pc'[e] = "drop_column" /\ \A u \in Threads \ {e} : pc'[u] = pc[u]
    BY Zenon, <1>0, <2>2, OthersKeepPc DEF Labels
  <2>4. /\ hlock'[a] = e /\ ~resident'[a]
        /\ \A h \in Handles \ {a} : hlock'[h] = hlock[h] /\ resident'[h] = resident[h]
    BY ZenonT(60), <1>0, <2>1, <2>2 DEF TypeOK
  <2>5. \A h \in Handles : (Unlisted(h)' <=> Unlisted(h)) /\ (Chosen(h)' <=> Chosen(h))
    BY Zenon, <1>0, <2>1, <2>2, <2>3, UnlistedFrame DEF Chosen
  <2>6. ~Unlisted(a)
    BY Zenon, <2>1 DEF CacheInv, UnlistedIsLoaded, Chosen
  <2>7. LockOwnership'
    <3>1. \A t \in Threads \ {e} : \A h \in Handles : Inside(t, h)' <=> Inside(t, h)
      BY Zenon, <1>0, <2>2, <2>3, InsideFrame
    <3>2. \A h \in Handles : ~Inside(e, h) /\ (Inside(e, h)' <=> h = a)
      BY Zenon, <1>0, <2>1, <2>2, <2>3 DEF Inside
    <3>3. hlock'[a] = e /\ \A h \in Handles \ {a} : hlock'[h] = hlock[h]
      BY Zenon, <2>4
    <3>4. LockOwnership /\ NoThread \notin Threads /\ e \in Threads /\ a \in Handles /\ hlock[a] = NoThread
      BY Zenon, <1>0, <2>1 DEF CacheInv
    <3> HIDE DEF a
    <3> QED
      BY Zenon, <3>1, <3>2, <3>3, <3>4, LockTaken
  <2>8. WorksOnLive'
    BY Zenon, <1>0, <2>1, <2>2, <2>3, <2>4 DEF CacheInv, WorksOnLive
  <2>9. FreshPids'
    BY <1>0, <2>2, <2>3, FreshPidsFrame, Zenon DEF CacheInv
  <2>10. FlagInside'
    BY Zenon, <2>2, <2>4 DEF CacheInv, FlagInside
  <2>11. ListedInside'
    BY Zenon, <1>0, <2>1, <2>2, <2>4, <2>5 DEF CacheInv, ListedInside, Threads
  <2>12. UnlistedIsLoaded'
    <3>1. UnlistedIsLoaded /\ lru' = lru /\ col' = col /\ target' = target
      BY Zenon, <2>2 DEF CacheInv
    <3>2. \A q \in Readers : pc'[q] = pc[q]
      BY Zenon, <1>0, <2>3
    <3>3. \A h \in Handles : Unlisted(h)' => Unlisted(h) /\ resident'[h] = resident[h] /\ (Chosen(h)' <=> Chosen(h))
      BY Zenon, <2>4, <2>5, <2>6
    <3> HIDE DEF a
    <3> QED
      BY Zenon, <3>1, <3>2, <3>3 DEF UnlistedIsLoaded
  <2> QED
    BY <2>7, <2>8, <2>9, <2>10, <2>11, <2>12 DEF CacheInv
<1>3. CASE DropColumn(e)
  <2> DEFINE a == victim[e]
  <2>1. a \in Handles /\ a[1] \in live /\ hlock[a] = e /\ pc[e] = "drop_column"
    BY Zenon, <1>0, <1>3 DEF DropColumn, CacheInv, WorksOnLive, LockOwnership, Inside
  <2>2. pc'[e] = "idle" /\ \A u \in Threads \ {e} : pc'[u] = pc[u]
    BY Zenon, <1>0, <1>3, OthersKeepPc DEF DropColumn, Labels
  <2>3. /\ hlock'[a] = NoThread /\ ~col'[a] /\ lru' = lru \ {a}
        /\ \A h \in Handles \ {a} : hlock'[h] = hlock[h] /\ col'[h] = col[h]
        /\ UNCHANGED <<resident, storeVars, target, victim, job>>
    BY <1>0, <1>3, <2>1, Zenon DEF DropColumn, LruRemove, TypeOK
  <2>4. /\ \A h \in Handles : Unlisted(h)' <=> Unlisted(h)
        /\ \A h \in Handles \ {a} : Chosen(h)' <=> Chosen(h)
        /\ Chosen(a)' => Chosen(a)
    BY Zenon, <1>0, <2>2, <2>3, UnlistedFrame DEF Chosen
  <2>5. ~Unlisted(a) /\ ~resident[a]
    BY Zenon, <2>1 DEF CacheInv, UnlistedIsLoaded, Chosen, FlagInside
  <2>6. LockOwnership'
    <3>1. \A t \in Threads \ {e} : \A h \in Handles : Inside(t, h)' <=> Inside(t, h)
      BY Zenon, <1>0, <2>2, <2>3, InsideFrame
    <3>2. \A h \in Handles : (Inside(e, h) => h = a) /\ ~Inside(e, h)'
      BY Zenon, <1>0, <2>2 DEF Inside
    <3> QED
      BY ZenonT(60), <1>0, <2>1, <2>3, <3>1, <3>2, LockReleased DEF CacheInv
  <2>7. WorksOnLive'
    BY Zenon, <1>0, <2>1, <2>2, <2>3 DEF CacheInv, WorksOnLive
  <2>8. FreshPids'
    BY <1>0, <2>2, <2>3, FreshPidsFrame, Zenon DEF CacheInv
  <2>9. FlagInside'
    BY Zenon, <1>0, <2>3, <2>5, ThreadsAssumption DEF CacheInv, FlagInside, Threads
  <2>10. ListedInside'
    BY Zenon, <1>0, <2>3, <2>4, ThreadsAssumption DEF CacheInv, ListedInside, Threads
  <2>11. UnlistedIsLoaded'
    <3>1. UnlistedIsLoaded /\ target' = target /\ lru' \subseteq lru /\ resident' = resident
      BY Zenon, <2>3 DEF CacheInv
    <3>2. \A q \in Readers : pc'[q] = pc[q]
      BY Zenon, <1>0, <2>2
    <3>3. \A h \in Handles : Unlisted(h)' => Unlisted(h) /\ col'[h] = col[h] /\ (Chosen(h)' <=> Chosen(h))
      BY Zenon, <2>3, <2>4, <2>5
    <3> HIDE DEF a
    <3> QED
      BY Zenon, <3>1, <3>2, <3>3 DEF UnlistedIsLoaded
  <2> QED
    BY <2>6, <2>7, <2>8, <2>9, <2>10, <2>11 DEF CacheInv
<1> QED
  BY <1>1, <1>2, <1>3 DEF EvictorStep

\* The steps of store_partition keep the invariant.
LEMMA StoreInv ==
  ASSUME CacheInv, TypeOK', NEW s \in Stores, StoreStep(s) PROVE CacheInv'
<1>0. /\ s \in Threads /\ Stores \subseteq Threads /\ pc \in [Threads -> Labels] /\ TypeOK
      /\ \A t \in Readers \cup Loaders \cup Evictors : t \in Threads \ {s}
      /\ NoThread \notin Threads
  BY SMTT(60), ThreadsAssumption DEF CacheInv, TypeOK, Threads
<1>a. ASSUME \A u \in Threads \ {s} : pc'[u] = pc[u], UNCHANGED <<hlock, target, victim, job>>
      PROVE  LockOwnership' /\ \A h \in Handles : Chosen(h)' <=> Chosen(h)
  <2>1. \A t \in Threads : \A h \in Handles : Inside(t, h)' <=> Inside(t, h)
    BY ZenonT(60), <1>0, <1>a, InsideFrame, ThreadsAssumption DEF Inside, Threads
  <2> QED
    BY Zenon, <1>0, <1>a, <2>1, LockKept, ChosenFrame DEF CacheInv
<1>b. /\ \A p \in Pids : p \in Nat
      /\ stored[s].pid \in Pids \cup {0} /\ \A t \in Stores : stored[t].pid \in Pids \cup {0}
      /\ NewPids \subseteq Pids /\ nextPid \in Nat
  BY <1>0, PidsAssumption DEF TypeOK, Pids
<1>1. CASE AllocatePid(s)
  <2>1. pc[s] = "idle" /\ pc'[s] = "write" /\ \A u \in Threads \ {s} : pc'[u] = pc[u]
    BY Zenon, <1>0, <1>1, OthersKeepPc DEF AllocatePid, Labels
  <2>2. /\ stored'[s].pid = nextPid /\ \A t \in Stores \ {s} : stored'[t] = stored[t]
        /\ nextPid \in NewPids /\ nextPid' = nextPid + 1
        /\ UNCHANGED <<handleVars, live, disk, target, victim, job>>
    BY <1>0, <1>1 DEF AllocatePid, TypeOK
  <2>3. \A h \in Handles : Unlisted(h)' <=> Unlisted(h)
    BY Zenon, <1>0, <2>1, <2>2 DEF Unlisted
  <2>4. LockOwnership' /\ \A h \in Handles : Chosen(h)' <=> Chosen(h)
    BY Zenon, <1>a, <2>1, <2>2
  <2>5. WorksOnLive'
    BY Zenon, <1>0, <2>1, <2>2 DEF CacheInv, WorksOnLive
  <2>6. FreshPids'
    <3>1. \A p \in disk : p < nextPid'
      <4>1. \A p \in disk : p \in Nat /\ p < nextPid
        BY Zenon, <1>0, <1>b DEF CacheInv, FreshPids, TypeOK
      <4> QED
        <5>1. \A n \in Nat : n < nextPid => n < nextPid'
          BY <1>b, <2>2
        <5> QED
          BY Zenon, <4>1, <5>1
    <3>2. stored'[s].pid \notin live
      <4>1. \A p \in live : p \in Nat /\ p < nextPid
        BY Zenon, <1>0, <1>b DEF CacheInv, FreshPids, WorksOnLive, TypeOK
      <4>2. \A n \in Nat : n < nextPid => n # nextPid
        BY <1>b
      <4> QED
        BY Zenon, <2>2, <4>1, <4>2
    <3>3. \A t \in Stores \ {s} : pc[t] \in {"write", "load_partition", "put_keys"} =>
            stored[t].pid < nextPid /\ stored[t].pid # nextPid /\ stored[t].pid < nextPid'
      <4>1. \A t \in Stores : pc[t] \in {"write", "load_partition", "put_keys"} => stored[t].pid < nextPid
        BY Zenon DEF CacheInv, FreshPids
      <4>2. \A n \in Nat : n < nextPid => n # nextPid /\ n < nextPid'
        BY <1>b, <2>2
      <4>3. \A t \in Stores : stored[t].pid \in Nat
        BY <1>b
      <4> QED
        BY <4>1, <4>2, <4>3
    <3>4. stored'[s].pid \in NewPids /\ stored'[s].pid < nextPid'
      BY <1>b, <2>2
    <3> QED
      <4>1. FreshPids /\ disk' = disk /\ live' = live /\ NewPids \subseteq Nat
        BY Zenon, <1>b, <2>2 DEF CacheInv
      <4>2. \A t \in Stores \ {s} : pc'[t] = pc[t] /\ stored'[t] = stored[t]
        BY Zenon, <1>0, <2>1, <2>2
      <4>3. \A t \in Stores : pc'[t] \in {"write", "load_partition", "put_keys"} =>
              /\ stored'[t].pid \in NewPids /\ stored'[t].pid < nextPid'
              /\ pc'[t] # "put_keys" => stored'[t].pid \notin live'
              /\ pc'[t] # "write" => stored'[t].pid \in disk'
              /\ pc'[t] = "put_keys" => /\ stored'[t].pid \in live'
                                        /\ stored'[t].keys \subseteq HandlesOf(stored'[t].pid)
        BY ZenonT(30), <2>1, <3>2, <3>3, <3>4, <4>1, <4>2 DEF FreshPids
      <4>4. \A t \in Stores \ {s} : pc'[t] \in {"write", "load_partition", "put_keys"} =>
              stored'[t].pid # stored'[s].pid
        BY Zenon, <2>2, <3>3, <4>2
      <4>5. \A t, u \in Stores :
              /\ t # u
              /\ pc'[t] \in {"write", "load_partition", "put_keys"}
              /\ pc'[u] \in {"write", "load_partition", "put_keys"}
              => stored'[t].pid # stored'[u].pid
        BY ZenonT(30), <4>1, <4>2, <4>4 DEF FreshPids
      <4> QED
        BY Zenon, <3>1, <4>1, <4>3, <4>5 DEF FreshPids
  <2>7. FlagInside' /\ ListedInside'
    BY Zenon, <2>2, <2>3, <2>4 DEF CacheInv, FlagInside, ListedInside
  <2>8. UnlistedIsLoaded'
    BY Zenon, <1>0, <2>1, <2>2, <2>3, <2>4 DEF CacheInv, UnlistedIsLoaded
  <2> QED
    BY <2>4, <2>5, <2>6, <2>7, <2>8 DEF CacheInv
<1>2. CASE WritePartition(s)
  <2>1. pc[s] = "write" /\ pc'[s] = "load_partition" /\ \A u \in Threads \ {s} : pc'[u] = pc[u]
    BY Zenon, <1>0, <1>2, OthersKeepPc DEF WritePartition, Labels
  <2>2. disk' = disk \cup {stored[s].pid} /\ UNCHANGED <<handleVars, live, nextPid, stored, target, victim, job>>
    BY <1>2 DEF WritePartition
  <2>3. \A h \in Handles : Unlisted(h)' <=> Unlisted(h)
    BY Zenon, <1>0, <2>1, <2>2 DEF Unlisted
  <2>4. LockOwnership' /\ \A h \in Handles : Chosen(h)' <=> Chosen(h)
    BY Zenon, <1>a, <2>1, <2>2
  <2>5. WorksOnLive'
    BY Zenon, <1>0, <2>1, <2>2 DEF CacheInv, WorksOnLive
  <2>6. FreshPids'
    <3>1. FreshPids /\ disk' = disk \cup {stored[s].pid} /\ UNCHANGED <<live, nextPid, stored>>
      BY Zenon, <2>2 DEF CacheInv
    <3>2. stored[s].pid < nextPid
      BY Zenon, <2>1, <3>1 DEF FreshPids
    <3>3. \A t \in Stores : pc'[t] = pc[t] \/ (t = s /\ pc[t] = "write" /\ pc'[t] = "load_partition")
      BY Zenon, <1>0, <2>1
    <3> QED
      BY ZenonT(30), <3>1, <3>2, <3>3 DEF FreshPids
  <2>7. FlagInside' /\ ListedInside'
    BY Zenon, <2>2, <2>3, <2>4 DEF CacheInv, FlagInside, ListedInside
  <2>8. UnlistedIsLoaded'
    BY Zenon, <1>0, <2>1, <2>2, <2>3, <2>4 DEF CacheInv, UnlistedIsLoaded
  <2> QED
    BY <2>4, <2>5, <2>6, <2>7, <2>8 DEF CacheInv
<1>3. CASE LoadPartition(s)
  <2> DEFINE p == stored[s].pid
  <2>1. /\ pc[s] = "load_partition" /\ pc'[s] = "put_keys"
        /\ \A u \in Threads \ {s} : pc'[u] = pc[u]
    BY Zenon, <1>0, <1>3, OthersKeepPc DEF LoadPartition, Labels
  <2>2. /\ live' = live \cup {p} /\ UNCHANGED <<hlock, lru, disk, nextPid, target, victim, job>>
        /\ \A h \in Handles : col'[h] = (col[h] \/ h[1] = p) /\ resident'[h] = (resident[h] \/ h[1] = p)
    BY <1>3 DEF LoadPartition
  <2>3. /\ stored'[s].keys = HandlesOf(p) /\ stored'[s].pid = p
        /\ \A t \in Stores \ {s} : stored'[t] = stored[t]
    BY <1>0, <1>3 DEF LoadPartition, TypeOK
  <2>4. p \in disk /\ p \notin live /\ p \in NewPids /\ p < nextPid
    BY Zenon, <2>1 DEF CacheInv, FreshPids
  <2>5. \A h \in Handles : h[1] = p => hlock[h] = NoThread /\ h \notin lru /\ ~Chosen(h)
    BY Zenon, <1>0, <2>4 DEF CacheInv, WorksOnLive, ListedInside, Chosen, Threads
  <2>6. \A h \in Handles : Unlisted(h)' <=> (Unlisted(h) \/ h[1] = p)
    BY <1>0, <2>1, <2>3 DEF Unlisted, HandlesOf
  <2>7. LockOwnership' /\ \A h \in Handles : Chosen(h)' <=> Chosen(h)
    BY Zenon, <1>a, <2>1, <2>2
  <2>8. WorksOnLive'
    BY Zenon, <1>0, <2>1, <2>2, <2>4 DEF CacheInv, WorksOnLive
  <2>9. FreshPids'
    <3>1. \A t \in Stores \ {s} : pc[t] \in {"write", "load_partition", "put_keys"} => stored[t].pid # p
      BY Zenon, <2>1 DEF CacheInv, FreshPids
    <3>2. \A t \in Stores \ {s} : pc'[t] \in {"write", "load_partition", "put_keys"} =>
            /\ stored'[t].pid \in NewPids /\ stored'[t].pid < nextPid'
            /\ pc'[t] # "put_keys" => stored'[t].pid \notin live'
            /\ pc'[t] # "write" => stored'[t].pid \in disk'
            /\ pc'[t] = "put_keys" => /\ stored'[t].pid \in live'
                                      /\ stored'[t].keys \subseteq HandlesOf(stored'[t].pid)
      <4>1. \A t \in Stores \ {s} : pc'[t] = pc[t] /\ stored'[t] = stored[t]
        BY Zenon, <1>0, <2>1, <2>3
      <4>2. FreshPids /\ disk' = disk /\ nextPid' = nextPid /\ live' = live \cup {p}
        BY Zenon, <2>2 DEF CacheInv
      <4> HIDE DEF p
      <4> QED
        BY ZenonT(30), <3>1, <4>1, <4>2 DEF FreshPids
    <3>3. stored'[s].keys \subseteq HandlesOf(stored'[s].pid)
      BY Zenon, <2>3
    <3>4. \A t, u \in Stores :
            /\ t # u
            /\ pc'[t] \in {"write", "load_partition", "put_keys"}
            /\ pc'[u] \in {"write", "load_partition", "put_keys"}
            => stored'[t].pid # stored'[u].pid
      <4>1. \A t \in Stores : pc'[t] \in {"write", "load_partition", "put_keys"} =>
              pc[t] \in {"write", "load_partition", "put_keys"} /\ stored'[t].pid = stored[t].pid
        BY Zenon, <1>0, <2>1, <2>3
      <4> QED
        BY Zenon, <4>1 DEF CacheInv, FreshPids
    <3> QED
      BY Zenon, <2>1, <2>2, <2>3, <2>4, <3>2, <3>3, <3>4 DEF CacheInv, FreshPids, HandlesOf
  <2>10. FlagInside'
    BY Zenon, <1>0, <2>2, <2>5 DEF CacheInv, FlagInside, Threads
  <2>11. ListedInside'
    BY Zenon, <1>0, <2>2, <2>5, <2>6, <2>7 DEF CacheInv, ListedInside, Threads
  <2>12. UnlistedIsLoaded'
    <3> SUFFICES ASSUME NEW h \in Handles, Unlisted(h)'
                 PROVE  /\ col'[h] /\ resident'[h] /\ h \notin lru' /\ ~Chosen(h)'
                        /\ \A r \in Readers : target'[r] = h => pc'[r] \in {"idle", "check_resident", "try_get"}
      BY Zenon DEF UnlistedIsLoaded
    <3>1. CASE Unlisted(h)
      BY Zenon, <1>0, <2>1, <2>2, <2>7, <3>1 DEF CacheInv, UnlistedIsLoaded
    <3>2. CASE h[1] = p
      BY Zenon, <1>0, <2>1, <2>2, <2>4, <2>5, <2>7, <3>2 DEF CacheInv, WorksOnLive
    <3> QED
      BY Zenon, <2>6, <3>1, <3>2
  <2> QED
    BY <2>7, <2>8, <2>9, <2>10, <2>11, <2>12 DEF CacheInv
<1>4. ASSUME NEW a \in Handles, PutKey(s, a) PROVE CacheInv'
  <2>1. /\ pc[s] = "put_keys" /\ a \in stored[s].keys /\ pc'[s] \in {"put_keys", "done"}
        /\ \A u \in Threads \ {s} : pc'[u] = pc[u]
    BY Zenon, <1>0, <1>4, OthersKeepPc DEF PutKey, Labels
  <2>2. lru' = lru \cup {a} /\ UNCHANGED <<col, resident, hlock, live, disk, nextPid, target, victim, job>>
    BY <1>4 DEF PutKey, LruPut
  <2>3. /\ stored'[s].keys = stored[s].keys \ {a} /\ stored'[s].pid = stored[s].pid
        /\ \A t \in Stores \ {s} : stored'[t] = stored[t]
        /\ stored[s].keys # {a} => pc'[s] = "put_keys"
    BY <1>0, <1>4 DEF PutKey, TypeOK
  <2>4. Unlisted(a)
    BY <2>1 DEF Unlisted
  <2>5. /\ ~Unlisted(a)'
        /\ \A h \in Handles \ {a} : Unlisted(h)' <=> Unlisted(h)
    <3>1. \A t \in Stores \ {s} : pc[t] = "put_keys" => a \notin stored[t].keys
      BY Zenon, <2>1 DEF CacheInv, FreshPids, HandlesOf
    <3>2. ~Unlisted(a)'
      BY <1>0, <2>1, <2>3, <3>1 DEF Unlisted
    <3>3. \A h \in Handles \ {a} : Unlisted(h)' <=> Unlisted(h)
      BY <1>0, <2>1, <2>3 DEF Unlisted
    <3> QED
      BY <3>2, <3>3
  <2>6. LockOwnership' /\ \A h \in Handles : Chosen(h)' <=> Chosen(h)
    BY Zenon, <1>a, <2>1, <2>2
  <2>7. WorksOnLive'
    BY Zenon, <1>0, <2>1, <2>2 DEF CacheInv, WorksOnLive
  <2>8. FreshPids'
    <3>1. FreshPids /\ nextPid' = nextPid /\ disk' = disk /\ live' = live
      BY Zenon, <2>2 DEF CacheInv
    <3>2. \A t \in Stores : pc'[t] \in {"write", "load_partition", "put_keys"} =>
            /\ pc[t] \in {"write", "load_partition", "put_keys"} /\ pc'[t] = pc[t]
            /\ stored'[t].pid = stored[t].pid /\ stored'[t].keys \subseteq stored[t].keys
      BY Zenon, <1>0, <2>1, <2>3
    <3> HIDE <2>1, <2>2, <2>3
    <3> QED
      BY ZenonT(30), <3>1, <3>2 DEF FreshPids
  <2>9. FlagInside'
    BY Zenon, <2>2 DEF CacheInv, FlagInside
  <2>10. ListedInside'
    BY Zenon, <2>2, <2>4, <2>5, <2>6 DEF CacheInv, ListedInside, UnlistedIsLoaded
  <2>11. UnlistedIsLoaded'
    BY <1>0, <2>1, <2>2, <2>5, <2>6, Zenon DEF CacheInv, UnlistedIsLoaded
  <2> QED
    BY <2>6, <2>7, <2>8, <2>9, <2>10, <2>11 DEF CacheInv
<1> QED
  BY <1>1, <1>2, <1>3, <1>4 DEF StoreStep

\* Init establishes the invariant.
LEMMA InitInv == Init => CacheInv
<1> SUFFICES ASSUME Init PROVE CacheInv
  OBVIOUS
<1>1. TypeOK
  BY InitTypeOK
<1>2. /\ \A t \in Readers \cup Loaders \cup Evictors \cup Stores : pc[t] = "idle"
      /\ \A h \in Handles : hlock[h] = NoThread /\ ~col[h] /\ ~resident[h]
      /\ \A l \in Loaders : job[l].todo = {}
      /\ lru = {} /\ live = disk
  BY DEF Init, Threads
<1>3. \A p \in disk : p < nextPid
  BY DEF Init
<1>4. \A h \in Handles : hlock[h] \notin Readers \cup Loaders \cup Evictors
  BY <1>2, ThreadsAssumption DEF Threads
<1>5. \A h \in Handles : ~Unlisted(h)
  BY <1>2 DEF Unlisted
<1>6. LockOwnership
  BY Zenon, <1>2, ThreadsAssumption DEF LockOwnership, Inside
<1>7. WorksOnLive /\ FreshPids
  BY Zenon, <1>2, <1>3 DEF WorksOnLive, FreshPids
<1>8. FlagInside /\ ListedInside /\ UnlistedIsLoaded
  BY Zenon, <1>2, <1>4, <1>5 DEF FlagInside, ListedInside, UnlistedIsLoaded
<1> QED
  BY Zenon, <1>1, <1>6, <1>7, <1>8 DEF CacheInv

\* Every step keeps the invariant.
LEMMA NextInv == CacheInv /\ [Next]_vars => CacheInv'
<1> SUFFICES ASSUME CacheInv, [Next]_vars PROVE CacheInv'
  OBVIOUS
<1>0. TypeOK /\ WorksOnLive /\ FreshPids
  BY DEF CacheInv
<1>1. ASSUME NEW r \in Readers, ReaderStep(r) PROVE CacheInv'
  BY <1>0, <1>1, ReaderTypeOK, ReaderInv
<1>2. ASSUME NEW q \in Queries, PlanStep(q) \/ BulkStep(q) PROVE CacheInv'
  BY <1>0, <1>2, PlanTypeOK, BulkTypeOK, QueryInv
<1>3. ASSUME NEW l \in Loaders, LoaderStep(l) PROVE CacheInv'
  BY <1>0, <1>3, LoaderTypeOK, LoaderInv
<1>4. ASSUME NEW e \in Evictors, EvictorStep(e) PROVE CacheInv'
  BY <1>0, <1>4, EvictorTypeOK, EvictorInv
<1>5. ASSUME NEW s \in Stores, StoreStep(s) PROVE CacheInv'
  BY <1>0, <1>5, StoreTypeOK, StoreInv
<1>6. CASE UNCHANGED vars
  <2>1. /\ \A h \in Handles : Unlisted(h)' <=> Unlisted(h)
        /\ \A h \in Handles : Chosen(h)' <=> Chosen(h)
    BY Zenon, <1>6, UnlistedFrame, ChosenFrame DEF vars
  <2>2. TypeOK'
    BY Zenon, <1>0, <1>6 DEF vars, TypeOK
  <2>3. LockOwnership'
    BY Zenon, <1>6, InsideFrame, LockKept DEF vars, CacheInv
  <2>a. WorksOnLive'
    BY Zenon, <1>6 DEF vars, CacheInv, WorksOnLive
  <2>4. FreshPids' /\ FlagInside'
    BY Zenon, <1>6 DEF vars, CacheInv, FreshPids, FlagInside
  <2>5. ListedInside' /\ UnlistedIsLoaded'
    BY Zenon, <1>6, <2>1 DEF vars, CacheInv, ListedInside, UnlistedIsLoaded
  <2> QED
    BY Zenon, <2>2, <2>3, <2>a, <2>4, <2>5 DEF CacheInv
<1> QED
  BY <1>1, <1>2, <1>3, <1>4, <1>5, <1>6 DEF Next

=============================================================================
