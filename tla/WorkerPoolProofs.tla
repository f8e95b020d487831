-------------------------- MODULE WorkerPoolProofs ---------------------------
(***************************************************************************)
(* The safety properties of the worker pool, for any number of workers and  *)
(* tasks.                                                                   *)
(***************************************************************************)
EXTENDS WorkerPool, TLAPS, SequenceTheorems, FiniteSetTheorems, WellFoundedInduction

USE PoolAssumption DEF taskVars, readVars, Threads

\* The control states of a thread.
Labels == {"unborn", "loop", "await", "park", "asleep", "execute", "unit", "exited", "dead"}

\* A thread that executes has a task in hand.
Holding == \A w \in Threads : pc[w] \in {"execute", "unit"} => job[w] \in Tasks

\* The mutex is kept from the test of the queue to the wait (await_task).
ParkedEmpty == \A w \in Threads : pc[w] = "park" => queue = <<>>

\* A task is in the queue once, and was scheduled; so was what a thread has in hand.
QueuedOnce == \A i, j \in DOMAIN queue : queue[i] = queue[j] => i = j
KnownTasks ==
  /\ \A i \in DOMAIN queue : queue[i] \in scheduled
  /\ \A w \in Threads : job[w] # NoTask => job[w] \in scheduled

\* TakenOnce without counting.
TakenAlone ==
  \A t \in Tasks \ Multi : \A w \in Threads : job[w] = t =>
    /\ \A v \in Threads : job[v] = t => v = w
    /\ \A i \in DOMAIN queue : queue[i] # t

\* The inductive invariant: what threads have in hand and what is queued never overlap,
\* because a task is scheduled once and await_task moves it under the mutex; and a
\* notification is passed on with every task, because nobody falls asleep beside one.
PoolInv == TypeOK /\ Holding /\ ParkedEmpty /\ QueuedOnce /\ KnownTasks /\ TakenAlone /\ NoIdleSleeper

-----------------------------------------------------------------------------
(* The queue.                                                                *)

\* A non-empty set of positions has a first one.
LEMMA FirstPosition ==
  ASSUME NEW n \in Nat, NEW S \in SUBSET (1..n), S # {}
  PROVE  Min(S) \in S
  <1>1. PICK x \in S : \A y \in S : ~(<<y, x>> \in OpToRel(<, Nat))
    <2>1. S \subseteq Nat
      OBVIOUS
    <2>. QED
      BY <2>1, NatLessThanWellFounded, WFMin, Zenon
  <1>2. \A y \in S : x <= y
    <2>. SUFFICES ASSUME NEW y \in S, ~(x <= y) PROVE FALSE
      OBVIOUS
    <2>1. x \in Nat /\ y \in Nat /\ y < x
      OBVIOUS
    <2>2. <<y, x>> \in OpToRel(<, Nat)
      BY <2>1 DEF OpToRel
    <2>. QED
      BY <1>1, <2>2, Zenon
  <1>. QED
    BY <1>1, <1>2, Zenon DEF Min

\* What await_task leaves of the queue is the end of it.
LEMMA PendingIsSuffix ==
  ASSUME TypeOK
  PROVE  \/ Pending = <<>>
         \/ \E m \in 1..Len(queue) : Pending = SubSeq(queue, m, Len(queue))
  <1>. DEFINE live == {i \in DOMAIN queue : ~Completed(queue[i])}
  <1>1. Len(queue) \in Nat /\ live \in SUBSET (1..Len(queue))
    BY LenProperties DEF TypeOK
  <1>2. CASE live = {}
    BY <1>2 DEF Pending
  <1>3. CASE live # {}
    <2>1. Min(live) \in 1..Len(queue)
      BY <1>1, <1>3, FirstPosition, Zenon
    <2>2. Pending = SubSeq(queue, Min(live), Len(queue))
      BY <1>3, Zenon DEF Pending
    <2>. QED
      BY <2>1, <2>2, Zenon
  <1>. QED
    BY <1>2, <1>3

\* A suffix of the queue has the queue's tasks, in their order.
LEMMA SuffixOfQueue ==
  ASSUME TypeOK, NEW m \in 1..(Len(queue) + 1)
  PROVE  LET q == SubSeq(queue, m, Len(queue))
         IN  /\ q \in Seq(Tasks) /\ DOMAIN q = 1..Len(q)
             /\ \A i \in DOMAIN q : i + m - 1 \in DOMAIN queue /\ q[i] = queue[i + m - 1]
  <1>. DEFINE q == SubSeq(queue, m, Len(queue))
  <1>1. Len(queue) \in Nat /\ DOMAIN queue = 1..Len(queue) /\ \A i \in 1..Len(queue) : queue[i] \in Tasks
    BY LenProperties, ElementOfSeq DEF TypeOK
  <1>2. \A i \in m..Len(queue) : queue[i] \in Tasks
    BY <1>1
  <1>3. /\ SubSeq(queue, m, Len(queue)) \in Seq(Tasks)
        /\ Len(SubSeq(queue, m, Len(queue))) = IF m <= Len(queue) THEN Len(queue) - m + 1 ELSE 0
        /\ \A i \in 1..(Len(queue) - m + 1) : SubSeq(queue, m, Len(queue))[i] = queue[m + i - 1]
    BY <1>1, <1>2, SubSeqProperties
  <1>4. DOMAIN q = 1..Len(q)
    BY <1>3, LenProperties
  <1>5. \A i \in DOMAIN q : i + m - 1 \in DOMAIN queue /\ q[i] = queue[i + m - 1]
    BY <1>1, <1>3, <1>4
  <1>. QED
    BY <1>3, <1>4, <1>5
-----------------------------------------------------------------------------
(* The steps.                                                                *)

\* Steps that leave queue and tasks in hand alone.
LEMMA ControlStep ==
  ASSUME PoolInv, UNCHANGED <<queue, scheduled, dropped, left, job>>,
         Stop \/ (\E c \in Columns : Evict(c)) \/
         \E w \in Threads : CheckRunning(w) \/ AwaitEmpty(w) \/ Park(w) \/ WakeUp(w) \/ ServiceRead(w)
  PROVE  PoolInv'
  <1>. USE DEF PoolInv
  <1>1. QueuedOnce' /\ KnownTasks' /\ TakenAlone'
    BY DEF QueuedOnce, KnownTasks, TakenAlone
  <1>2. CASE Stop
    <2>1. TypeOK' /\ Holding' /\ ParkedEmpty'
      BY <1>2, Zenon DEF Stop, TypeOK, Holding, ParkedEmpty
    <2>2. NoIdleSleeper'
      BY <1>2 DEF Stop, NoIdleSleeper
    <2>. QED
      BY <1>1, <2>1, <2>2
  <1>3. CASE \E c \in Columns : Evict(c)
    <2>1. TypeOK' /\ Holding' /\ ParkedEmpty'
      BY <1>3 DEF Evict, TypeOK, Holding, ParkedEmpty
    <2>2. NoIdleSleeper'
      BY <1>3 DEF Evict, NoIdleSleeper, Asleep
    <2>. QED
      BY <1>1, <2>1, <2>2
  <1>4. ASSUME NEW w \in Threads, CheckRunning(w) PROVE PoolInv'
    <2>1. TypeOK' /\ Holding' /\ ParkedEmpty'
      BY <1>4 DEF CheckRunning, TypeOK, Holding, ParkedEmpty
    <2>2. NoIdleSleeper'
      BY <1>4 DEF CheckRunning, NoIdleSleeper, Asleep, TypeOK
    <2>. QED
      BY <1>1, <2>1, <2>2
  <1>5. ASSUME NEW w \in Threads, AwaitEmpty(w) PROVE PoolInv'
    <2>1. TypeOK' /\ Holding' /\ ParkedEmpty'
      BY <1>5 DEF AwaitEmpty, TypeOK, Holding, ParkedEmpty
    <2>2. NoIdleSleeper'
      BY <1>5 DEF AwaitEmpty, NoIdleSleeper
    <2>. QED
      BY <1>1, <2>1, <2>2
  <1>6. ASSUME NEW w \in Threads, Park(w) PROVE PoolInv'
    <2>1. TypeOK' /\ Holding' /\ ParkedEmpty'
      BY <1>6 DEF Park, TypeOK, Holding, ParkedEmpty
    <2>2. NoIdleSleeper'
      BY <1>6 DEF Park, NoIdleSleeper, ParkedEmpty
    <2>. QED
      BY <1>1, <2>1, <2>2
  <1>7. ASSUME NEW w \in Threads, WakeUp(w) PROVE PoolInv'
    <2>1. TypeOK' /\ Holding' /\ ParkedEmpty'
      BY <1>7 DEF WakeUp, TypeOK, Holding, ParkedEmpty
    <2>2. NoIdleSleeper'
      BY <1>7 DEF WakeUp, NoIdleSleeper, TypeOK
    <2>. QED
      BY <1>1, <2>1, <2>2
  <1>8. ASSUME NEW w \in Threads, ServiceRead(w) PROVE PoolInv'
    <2>1. TypeOK' /\ Holding' /\ ParkedEmpty'
      BY <1>8 DEF ServiceRead, TypeOK, Holding, ParkedEmpty
    <2>2. NoIdleSleeper'
      BY <1>8 DEF ServiceRead, NoIdleSleeper, Asleep
    <2>. QED
      BY <1>1, <2>1, <2>2
  <1>. QED
    BY <1>2, <1>3, <1>4, <1>5, <1>6, <1>7, <1>8

\* Steps in which a thread keeps its task or puts it down.
LEMMA UnitStep ==
  ASSUME PoolInv, NEW w \in Threads, Claim(w) \/ FinishUnit(w) \/ Panic(w)
  PROVE  PoolInv'
  <1>. USE DEF PoolInv
  <1>1. /\ UNCHANGED <<queue, running, scheduled, dropped>>
        /\ \E x \in {job[w], NoTask} : job' = [job EXCEPT ![w] = x]
    BY DEF Claim, FinishUnit, Panic
  <1>2. \A v \in Threads : job'[v] # NoTask => job'[v] = job[v]
    BY <1>1 DEF TypeOK
  <1>3. QueuedOnce' /\ KnownTasks' /\ TakenAlone'
    <2>1. QueuedOnce' /\ KnownTasks'
      BY <1>1, <1>2 DEF QueuedOnce, KnownTasks
    <2>2. TakenAlone'
      BY <1>1, <1>2 DEF TakenAlone
    <2>. QED
      BY <2>1, <2>2
  <1>4. /\ pc[w] \in {"execute", "unit"}
        /\ \E l \in {"execute", "unit", "loop", "dead"} : pc' = [pc EXCEPT ![w] = l]
    BY DEF Claim, FinishUnit, Panic
  <1>5. job[w] \in Tasks
    BY <1>4 DEF Holding
  <1>6. TypeOK'
    <2>1. CASE Claim(w)
      <3>. DEFINE n == IF left[job[w]] > 0 THEN left[job[w]] - 1 ELSE 0
      <3>0. n \in Nat /\ left' = [left EXCEPT ![job[w]] = n]
        BY <1>5, <2>1 DEF Claim, TypeOK
      <3>1. left' \in [Tasks -> Nat]
        BY <3>0, Zenon DEF TypeOK
      <3>2. pc' \in [Threads -> Labels] /\ job' \in [Threads -> Tasks \cup {NoTask}]
        BY <2>1 DEF Claim, TypeOK, Labels
      <3>. QED
        BY <2>1, <3>1, <3>2 DEF Claim, TypeOK, Labels
    <2>2. CASE FinishUnit(w)
      BY <1>5, <2>2 DEF FinishUnit, TypeOK
    <2>3. CASE Panic(w)
      BY <2>3 DEF Panic, TypeOK
    <2>. QED
      BY <2>1, <2>2, <2>3
  <1>7. ParkedEmpty'
    BY <1>1, <1>4 DEF ParkedEmpty, TypeOK
  <1>8. Holding'
    <2>1. CASE Claim(w)
      BY <1>5, <2>1 DEF Claim, Holding, TypeOK
    <2>2. CASE FinishUnit(w)
      BY <1>5, <2>2 DEF FinishUnit, Holding, TypeOK
    <2>3. CASE Panic(w)
      BY <2>3 DEF Panic, Holding, TypeOK
    <2>. QED
      BY <2>1, <2>2, <2>3
  <1>9. NoIdleSleeper'
    BY <1>1, <1>4 DEF NoIdleSleeper, Asleep, TypeOK
  <1>. QED
    BY <1>3, <1>6, <1>7, <1>8, <1>9
\* notify_one turns at most one sleeper into a waiter.
LEMMA Notified ==
  ASSUME NEW p, p \in [Threads -> Labels], NotifyOne(p)
  PROVE  /\ pc' \in [Threads -> Labels]
         /\ \A w \in Threads : pc'[w] = p[w] \/ (w \in Asleep /\ pc'[w] = "await")
         /\ Asleep # {} => \E w \in Asleep : pc'[w] = "await"
  BY DEF NotifyOne, Asleep, Labels

\* schedule: the task is not queued and in nobody's hands, since it is new.
LEMMA ScheduleStep ==
  ASSUME PoolInv, NEW t \in Tasks, Schedule(t)
  PROVE  PoolInv'
  <1>. USE DEF PoolInv
  <1>1. /\ pc \in [Threads -> Labels] /\ NotifyOne(pc)
        /\ UNCHANGED <<running, dropped, left, resident, job>>
        /\ queue' = Append(queue, t) /\ scheduled' = scheduled \cup {t} /\ t \notin scheduled
    BY DEF Schedule, TypeOK, Labels
  <1>2. /\ pc' \in [Threads -> Labels]
        /\ \A w \in Threads : pc'[w] = pc[w] \/ pc'[w] = "await"
        /\ Asleep # {} => \E w \in Threads : pc'[w] = "await"
    BY <1>1, Notified, Zenon DEF Asleep
  <1>3. /\ queue' \in Seq(Tasks) /\ Len(queue') = Len(queue) + 1 /\ Len(queue) \in Nat
        /\ DOMAIN queue' = 1..(Len(queue) + 1) /\ DOMAIN queue = 1..Len(queue)
        /\ \A i \in 1..Len(queue) : queue'[i] = queue[i]
        /\ queue'[Len(queue) + 1] = t
    BY <1>1, AppendProperties, LenProperties DEF TypeOK
  <1>4. \A i \in DOMAIN queue' : (i \in DOMAIN queue /\ queue'[i] = queue[i]) \/ (i = Len(queue) + 1 /\ queue'[i] = t)
    BY <1>3
  <1>5. TypeOK'
    <2>1. promised' \subseteq Columns
      BY DEF Schedule, Promised, TypeOK
    <2>. QED
      BY <1>1, <1>2, <1>3, <2>1 DEF TypeOK, Labels
  <1>6. Holding'
    BY <1>1, <1>2 DEF Holding
  <1>7. ParkedEmpty'
    BY <1>2 DEF Schedule, LockFree, ParkedEmpty
  <1>8. QueuedOnce'
    BY <1>1, <1>4 DEF QueuedOnce, KnownTasks
  <1>9. KnownTasks'
    BY <1>1, <1>4 DEF KnownTasks
  <1>10. TakenAlone'
    BY <1>1, <1>4 DEF TakenAlone, KnownTasks
  <1>11. NoIdleSleeper'
    <2>1. Asleep' # {} => Asleep # {}
      BY <1>2 DEF Asleep
    <2>. QED
      BY <1>2, <2>1 DEF NoIdleSleeper
  <1>. QED
    BY <1>5, <1>6, <1>7, <1>8, <1>9, <1>10, <1>11

\* recover() empties the queue.
LEMMA RecoverStep ==
  ASSUME PoolInv, Recover
  PROVE  PoolInv'
  <1>. USE DEF PoolInv
  <1>1. /\ queue' = <<>> /\ UNCHANGED <<running, scheduled, left, readVars, job>>
        /\ pc' = [w \in Threads |-> IF pc[w] = "unborn" THEN "loop" ELSE pc[w]]
    BY DEF Recover
  <1>2. DOMAIN queue' = {}
    BY <1>1
  <1>3. TypeOK'
    <2>1. Range(queue) \subseteq Tasks
      BY LenProperties, ElementOfSeq DEF TypeOK, Range
    <2>2. dropped' \subseteq Tasks
      BY <2>1 DEF Recover, TypeOK
    <2>. QED
      BY <1>1, <2>2 DEF TypeOK
  <1>4. Holding' /\ ParkedEmpty'
    BY <1>1 DEF Holding, ParkedEmpty
  <1>5. QueuedOnce' /\ KnownTasks'
    BY <1>1, <1>2 DEF QueuedOnce, KnownTasks
  <1>6. TakenAlone'
    BY <1>1, <1>2 DEF TakenAlone
  <1>7. NoIdleSleeper'
    BY <1>1 DEF NoIdleSleeper
  <1>. QED
    BY <1>3, <1>4, <1>5, <1>6, <1>7
\* await_task: the task that a thread takes leaves the queue, if it is not multithreaded,
\* and the notification is passed on if there is another one.
LEMMA AwaitTaskStep ==
  ASSUME PoolInv, NEW w \in Threads, AwaitTask(w)
  PROVE  PoolInv'
  <1>. USE DEF PoolInv
  <1>0. /\ UNCHANGED <<running, scheduled, dropped, left, readVars>> /\ pc[w] = "await"
        /\ pc \in [Threads -> Labels] /\ job \in [Threads -> Tasks \cup {NoTask}]
        /\ \A v \in Threads : pc[v] # "park"
    BY DEF AwaitTask, LockFree, TypeOK, Labels
  <1>1. CASE Pending = <<>>
    <2>1. queue' = <<>> /\ pc' = [pc EXCEPT ![w] = "loop"] /\ UNCHANGED job
      BY <1>1 DEF AwaitTask
    <2>2. DOMAIN queue' = {}
      BY <2>1
    <2>3. TypeOK'
      BY <1>0, <2>1 DEF TypeOK, Labels
    <2>4. Holding' /\ ParkedEmpty' /\ NoIdleSleeper'
      BY <1>0, <2>1 DEF Holding, ParkedEmpty, NoIdleSleeper
    <2>5. QueuedOnce' /\ KnownTasks' /\ TakenAlone'
      BY <1>0, <2>1, <2>2 DEF QueuedOnce, KnownTasks, TakenAlone
    <2>. QED
      BY <2>3, <2>4, <2>5
  <1>2. CASE Pending # <<>>
    <2>. DEFINE t == Head(Pending)
                rest == IF t \in Multi THEN Pending ELSE Tail(Pending)
                p == [pc EXCEPT ![w] = "execute"]
    <2>1. PICK m \in 1..Len(queue) : Pending = SubSeq(queue, m, Len(queue))
      BY <1>2, PendingIsSuffix
    <2>2. Len(queue) \in Nat /\ DOMAIN queue = 1..Len(queue)
      BY LenProperties DEF TypeOK
    <2>3. t = queue[m] /\ Tail(Pending) = SubSeq(queue, m + 1, Len(queue)) /\ t \in Tasks
      BY <2>1, <2>2, HeadTailOfSubSeq, ElementOfSeq DEF TypeOK
    <2>4. PICK n \in 1..(Len(queue) + 1) :
            rest = SubSeq(queue, n, Len(queue)) /\ n = IF t \in Multi THEN m ELSE m + 1
      BY <2>1, <2>2, <2>3
    <2>5. /\ queue' = rest /\ job' = [job EXCEPT ![w] = t]
          /\ IF rest = <<>> THEN pc' = p ELSE NotifyOne(p)
      BY <1>2 DEF AwaitTask
    <2>6. p \in [Threads -> Labels]
      BY <1>0 DEF Labels
    <2>. HIDE DEF t, rest, p
    <2>7. /\ rest \in Seq(Tasks)
          /\ \A i \in DOMAIN rest : i + n - 1 \in DOMAIN queue /\ rest[i] = queue[i + n - 1] /\ i \in Nat \ {0}
      <3>1. /\ rest \in Seq(Tasks)
            /\ DOMAIN rest = 1..Len(rest)
            /\ \A i \in DOMAIN rest : i + n - 1 \in DOMAIN queue /\ rest[i] = queue[i + n - 1]
        <4>1. TypeOK /\ rest = SubSeq(queue, n, Len(queue))
          BY <2>4
        <4>. QED
          BY <4>1, SuffixOfQueue
      <3>2. Len(rest) \in Nat
        BY <3>1, LenProperties
      <3>. QED
        BY <3>1, <3>2
    <2>8. /\ pc' \in [Threads -> Labels]
          /\ \A v \in Threads : pc'[v] = p[v] \/ (v \in Asleep /\ pc'[v] = "await")
          /\ rest # <<>> /\ Asleep # {} => \E v \in Asleep : pc'[v] = "await"
      <3>1. CASE rest = <<>>
        BY <2>5, <2>6, <3>1
      <3>2. CASE rest # <<>>
        BY <2>5, <2>6, <3>2, Notified, Zenon
      <3>. QED
        BY <3>1, <3>2
    <2>9. TypeOK'
      BY <1>0, <2>3, <2>7, <2>5, <2>8, Zenon DEF TypeOK, Labels
    <2>10. /\ \A v \in Threads \ {w} : job'[v] = job[v]
           /\ job'[w] = t
      BY <1>0, <2>5
    <2>11. Holding'
      <3>1. \A v \in Threads \ {w} : pc'[v] \in {"execute", "unit"} => pc[v] \in {"execute", "unit"}
        BY <1>0, <2>8 DEF p
      <3>. QED
        BY <2>3, <2>10, <3>1 DEF Holding
    <2>12. ParkedEmpty'
      BY <1>0, <2>8 DEF ParkedEmpty, p
    <2>13. QueuedOnce'
      <3>. SUFFICES ASSUME NEW i \in DOMAIN rest, NEW j \in DOMAIN rest, rest[i] = rest[j] PROVE i = j
        BY <2>5 DEF QueuedOnce
      <3>1. i + n - 1 = j + n - 1
        BY <2>7 DEF QueuedOnce
      <3>. QED
        BY <2>4, <2>7, <3>1
    <2>14. KnownTasks'
      BY <1>0, <2>2, <2>3, <2>7, <2>5, <2>10 DEF KnownTasks
    <2>15. TakenAlone'
      <3>1. \A v \in Threads : t \in Tasks \ Multi => job[v] # t
        BY <2>2, <2>3 DEF TakenAlone
      <3>2. t \in Tasks \ Multi => \A i \in DOMAIN rest : rest[i] # t
        <4>. SUFFICES ASSUME t \in Tasks \ Multi, NEW i \in DOMAIN rest, rest[i] = t PROVE FALSE
          OBVIOUS
        <4>1. i + n - 1 = m
          BY <2>2, <2>3, <2>7, Zenon DEF QueuedOnce
        <4>. QED
          BY <2>4, <2>7, <4>1
      <3>. QED
        BY <2>7, <2>5, <2>10, <3>1, <3>2 DEF TakenAlone
    <2>16. NoIdleSleeper'
      <3>1. Asleep' # {} => Asleep # {}
        BY <1>0, <2>8 DEF Asleep, p
      <3>. QED
        BY <2>5, <2>8, <3>1 DEF NoIdleSleeper, Asleep
    <2>. QED
      BY <2>9, <2>11, <2>12, <2>13, <2>14, <2>15, <2>16
  <1>. QED
    BY <1>1, <1>2

-----------------------------------------------------------------------------
(* The results.                                                              *)

LEMMA PoolInvInit == Init => PoolInv
  <1>. SUFFICES ASSUME Init PROVE PoolInv
    OBVIOUS
  <1>1. TypeOK
    BY DEF Init, TypeOK
  <1>2. Holding /\ ParkedEmpty /\ NoIdleSleeper
    BY DEF Init, Holding, ParkedEmpty, NoIdleSleeper
  <1>3. QueuedOnce /\ KnownTasks /\ TakenAlone
    BY DEF Init, QueuedOnce, KnownTasks, TakenAlone
  <1>. QED
    BY <1>1, <1>2, <1>3 DEF PoolInv

LEMMA PoolInvNext == PoolInv /\ [Next]_vars => PoolInv'
  <1>. SUFFICES ASSUME PoolInv, [Next]_vars PROVE PoolInv'
    OBVIOUS
  <1>1. CASE UNCHANGED vars
    BY <1>1 DEF PoolInv, vars, TypeOK, Holding, ParkedEmpty, QueuedOnce, KnownTasks, TakenAlone, NoIdleSleeper, Asleep
  <1>2. CASE Stop
    BY <1>2, ControlStep, Zenon DEF Stop
  <1>3. CASE Recover
    BY <1>3, RecoverStep
  <1>4. ASSUME NEW t \in Tasks, Schedule(t) PROVE PoolInv'
    BY <1>4, ScheduleStep
  <1>5. ASSUME NEW c \in Columns, Evict(c) PROVE PoolInv'
    BY <1>5, ControlStep DEF Evict
  <1>6. ASSUME NEW w \in Threads, CheckRunning(w) \/ AwaitEmpty(w) \/ Park(w) \/ WakeUp(w) \/ ServiceRead(w)
        PROVE  PoolInv'
    BY <1>6, ControlStep DEF CheckRunning, AwaitEmpty, Park, WakeUp, ServiceRead
  <1>7. ASSUME NEW w \in Threads, Claim(w) \/ FinishUnit(w) \/ Panic(w) PROVE PoolInv'
    BY <1>7, UnitStep
  <1>8. ASSUME NEW w \in Threads, AwaitTask(w) PROVE PoolInv'
    BY <1>8, AwaitTaskStep
  <1>. QED
    BY <1>1, <1>2, <1>3, <1>4, <1>5, <1>6, <1>7, <1>8 DEF Next, Work

\* A set of threads of which no two differ has at most one member.
LEMMA AtMostOne ==
  ASSUME NEW S, \A v, w \in S : v = w
  PROVE  Cardinality(S) <= 1
  <1>1. S = {} \/ \E w : S = {w}
    OBVIOUS
  <1>2. CASE S = {}
    BY <1>2, FS_EmptySet
  <1>3. CASE \E w : S = {w}
    <2>1. Cardinality(S) = 1
      BY <1>3, FS_Singleton, Zenon
    <2>. QED
      BY <2>1
  <1>. QED
    BY <1>1, <1>2, <1>3

LEMMA TakenAloneOnce == TypeOK /\ TakenAlone => TakenOnce
  <1>. SUFFICES ASSUME TypeOK, TakenAlone, NEW t \in Tasks \ Multi
                PROVE  /\ Cardinality({w \in Threads : job[w] = t}) <= 1
                       /\ \A w \in Threads : job[w] = t => t \notin Range(queue)
    BY DEF TakenOnce
  <1>1. \A v, w \in {u \in Threads : job[u] = t} : v = w
    BY DEF TakenAlone
  <1>2. \A w \in Threads : job[w] = t => t \notin Range(queue)
    BY DEF TakenAlone, Range
  <1>. QED
    BY <1>1, <1>2, AtMostOne

\* For any workers, tasks and reads: every variable keeps its type (InnerLocustDB).
THEOREM PoolTypeCorrect == Spec => []TypeOK
  <1>1. PoolInv => TypeOK
    BY DEF PoolInv
  <1>. QED
    BY <1>1, PoolInvInit, PoolInvNext, PTL DEF Spec

\* For any workers, tasks and reads: await_task hands a task to one thread only, unless it
\* is multithreaded.
THEOREM TasksTakenOnce == Spec => []TakenOnce
  <1>1. PoolInv => TakenOnce
    BY TakenAloneOnce DEF PoolInv
  <1>. QED
    BY <1>1, PoolInvInit, PoolInvNext, PTL DEF Spec

\* For any workers, tasks and reads: no worker sleeps beside waiting work unless another one
\* is on its way, through all of schedule, await_task, recover and stop.
THEOREM NotificationsSuffice == Spec => []NoIdleSleeper
  <1>1. PoolInv => NoIdleSleeper
    BY DEF PoolInv
  <1>. QED
    BY <1>1, PoolInvInit, PoolInvNext, PTL DEF Spec
=============================================================================
