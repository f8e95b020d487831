----------------------------- MODULE QueryTask -----------------------------
(***************************************************************************)
(* One query (engine/execution/query_task.rs): a multithreaded task that    *)
(* every worker may enter.  Workers claim partitions from a shared counter, *)
(* merge the results of equal level on a stack of their own, and push what  *)
(* they have into the shared state; the push that completes the query       *)
(* merges the pushed results and sends the answer through a sender that     *)
(* works once.  A result is abstracted to the partitions that went into it, *)
(* their number (batch_count), its level and its number of rows.            *)
(*                                                                          *)
(* What a thread does with unsafe_state locked is one step: completed and   *)
(* batch_index, the only shared state read without the lock, are written    *)
(* under it and at its end, except for the fetch_add of next_partition,     *)
(* which a critical section never reads.                                    *)
(***************************************************************************)
EXTENDS Integers, Sequences, FiniteSets

CONSTANTS
  Queries,  \* the queries to run, one of them in a behaviour
  Threads   \* the threads there can be

\* workers are the threads started with the database, the others can be started by recover();
\* n is the number of partitions in the snapshot and rowsOf the rows each contributes;
\* executing the partitions in failing may return an error, in panicking it may panic, and
\* the results of two partitions in clashes cannot be combined; the second pass over an
\* aggregate may fail, and unwrap panic, if finalPanics.
ASSUME QueriesAssumption ==
  \A q \in Queries : LET parts == 0..(q.n - 1) IN
    /\ q.workers \subseteq Threads /\ q.workers # {}
    /\ q.n \in Nat /\ q.rowsOf \in [parts -> Nat]
    /\ q.failing \subseteq parts /\ q.panicking \subseteq parts
    /\ \A c \in q.clashes : \E p, r \in parts : p # r /\ c = {p, r}
    /\ q.kind \in {"select", "sorted", "aggregate"}
    /\ q.finalPanics \in BOOLEAN /\ (q.finalPanics => q.kind = "aggregate")
    /\ q.limit \in Nat \ {0} /\ q.offset \in Nat

VARIABLES
  query,            \* the query
  queued,           \* the task is in the task queue
  batchIndex,       \* QueryTask.batch_index
  completed,        \* QueryTask.completed
  poisoned,         \* a thread has panicked while it held unsafe_state's mutex
  completedBatches, \* QueryState.completed_batches
  partial,          \* QueryState.partial_results
  rowsCollected,    \* QueryState.rows_collected
  colstacks,        \* partitions whose columns QueryState.colstacks keeps alive
  outcome,          \* what the receiver of the oneshot channel has got
  pc,               \* control state of a thread
  idx,              \* partition a thread has claimed
  result,           \* the batch_result of run()
  stack,            \* batch_results of run()
  rows,             \* rows_collected of run()
  cols              \* partitions whose columns the colstack of run() keeps alive

stateVars == <<completedBatches, partial, rowsCollected>>
localVars == <<idx, result, stack, rows, cols>>
vars == <<query, queued, batchIndex, completed, poisoned, stateVars, colstacks, outcome,
          pc, localVars>>

Workers == query.workers
Spare == Threads \ Workers
N == query.n
Pids == 0..(N - 1)
RowsOf == query.rowsOf
Failing == query.failing
Panicking == query.panicking
Clashes == query.clashes
Kind == query.kind
Limit == query.limit
Offset == query.offset
FinalPanics == query.finalPanics

\* BatchResult.
Result(parts, level, len, count) == [parts |-> parts, level |-> level, len |-> len, count |-> count]
NoResult == Result({}, 0, 0, 0)

\* What the receiver may see.
Pending == [kind |-> "pending", parts |-> {}, len |-> 0]
Error == [kind |-> "error", parts |-> {}, len |-> 0]
Canceled == [kind |-> "canceled", parts |-> {}, len |-> 0]
Rows(parts, len) == [kind |-> "rows", parts |-> parts, len |-> len]

\* SharedSender::send: only the first value goes out.
Send(value) == outcome' = IF outcome = Pending THEN value ELSE outcome

Least(m, n) == IF m <= n THEN m ELSE n

\* Fault: OFFSET is left out of the limit for partial results.
LimitOnly == Limit

CombinedLimit == Limit + Offset

\* Fault: a query may stop with enough rows for LIMIT alone.
SufficientRowsLimit(n) == Kind = "select" /\ Limit < n

\* Fault: sorted queries and aggregates stop early too.
SufficientRowsAny(n) == CombinedLimit < n

SufficientRows(n) == Kind = "select" /\ CombinedLimit < n

\* Task::completed.
TaskCompleted == completed \/ batchIndex >= N

-----------------------------------------------------------------------------
(* combine: a select appends rows up to the limit, a sorted one merges up to *)
(* the limit.  The groups of a partition are the first RowsOf ones, so that  *)
(* two partitions together have as many groups as the larger one.            *)

CombineFails(a, b) == \E p \in a.parts, q \in b.parts : {p, q} \in Clashes

CombinedLen(m, n) ==
  CASE Kind = "select"    -> IF m >= CombinedLimit THEN m ELSE Least(m + n, CombinedLimit)
    [] Kind = "sorted"    -> Least(m + n, CombinedLimit)
    [] Kind = "aggregate" -> IF m >= n THEN m ELSE n

Combine(a, b) ==
  Result(a.parts \cup b.parts, a.level + 1, CombinedLen(a.len, b.len), a.count + b.count)

\* combine_results over the pushed results, from left to right.
PartsOf(s) == UNION {s[i].parts : i \in DOMAIN s}

\* Fault: only the last result is compared with the others' types.
CombineResultsFailsLast(s) ==
  \E i \in DOMAIN s : i + 1 = Len(s) /\ CombineFails(s[i], s[Len(s)])

CombineResultsFails(s) ==
  \E i, j \in DOMAIN s : i < j /\ CombineFails(s[i], s[j])

LenOf(s) ==
  LET len[i \in 1..Len(s)] == IF i = 1 THEN s[1].len ELSE CombinedLen(len[i - 1], s[i].len)
  IN len[Len(s)]

-----------------------------------------------------------------------------

Init ==
  /\ query \in Queries
  /\ queued = TRUE /\ batchIndex = 0 /\ completed = FALSE
  /\ poisoned = FALSE
  /\ completedBatches = 0 /\ partial = <<>> /\ rowsCollected = 0 /\ colstacks = {}
  /\ outcome = IF N = 0 THEN Rows({}, 0) ELSE Pending
  /\ pc = [w \in Threads |-> IF w \in Workers THEN "idle" ELSE "unborn"]
  /\ idx = [w \in Threads |-> 0]
  /\ result = [w \in Threads |-> NoResult]
  /\ stack = [w \in Threads |-> <<>>]
  /\ rows = [w \in Threads |-> 0]
  /\ cols = [w \in Threads |-> {}]

Goto(w, label) == pc' = [pc EXCEPT ![w] = label]

\* The threads that hold a reference to the task.
Holders == {w \in Threads : pc[w] \notin {"idle", "dead", "unborn"}}

\* Dropping the last reference drops the sender, the results and the columns.
DropTask(last) ==
  IF last THEN Send(Canceled) /\ partial' = <<>> /\ colstacks' = {}
  ELSE UNCHANGED <<outcome, partial, colstacks>>

\* Fault: a completed task stays in the queue.
TakeTaskKeeps(w) ==
  /\ pc[w] = "idle" /\ queued /\ ~TaskCompleted
  /\ Goto(w, "next")
  /\ UNCHANGED <<queued, batchIndex, completed, poisoned, stateVars, colstacks, outcome, localVars>>

\* await_task: a completed task is popped and dropped, any other goes back to the front.
TakeTask(w) ==
  /\ pc[w] = "idle" /\ queued
  /\ IF TaskCompleted
     THEN queued' = FALSE /\ pc' = pc /\ DropTask(Holders = {})
     ELSE queued' = TRUE /\ Goto(w, "next") /\ DropTask(FALSE)
  /\ UNCHANGED <<batchIndex, completed, poisoned, completedBatches, rowsCollected, localVars>>

\* Fault: the counter is read and advanced in two steps, here at two threads' leisure.
NextPartitionStale(w) ==
  /\ pc[w] = "next"
  /\ batchIndex' \in {batchIndex, batchIndex + 1}
  /\ idx' = [idx EXCEPT ![w] = batchIndex]
  /\ Goto(w, IF batchIndex < N THEN "execute" ELSE "combine")
  /\ UNCHANGED <<queued, completed, poisoned, stateVars, colstacks, outcome,
                 result, stack, rows, cols>>

\* next_partition: fetch_add, and a bounds check.
NextPartition(w) ==
  /\ pc[w] = "next"
  /\ batchIndex' = batchIndex + 1
  /\ idx' = [idx EXCEPT ![w] = batchIndex]
  /\ Goto(w, IF batchIndex < N THEN "execute" ELSE "combine")
  /\ UNCHANGED <<queued, completed, poisoned, stateVars, colstacks, outcome,
                 result, stack, rows, cols>>

\* A panic unwinds run(): everything it owns is dropped, and the thread ends.
Unwind(w) ==
  /\ Goto(w, "unwind")
  /\ result' = [result EXCEPT ![w] = NoResult]
  /\ stack' = [stack EXCEPT ![w] = <<>>]
  /\ cols' = [cols EXCEPT ![w] = {}]
  /\ UNCHANGED <<idx, rows>>

\* get_cols and NormalFormQuery::run or run_aggregate on the claimed partition.
ExecutePartition(w) ==
  LET p == idx[w]
  IN /\ pc[w] = "execute"
     /\ \/ p \in Panicking /\ Unwind(w)
        \/ p \in Failing /\ Goto(w, "fail") /\ UNCHANGED localVars
        \/ /\ result' = [result EXCEPT ![w] = Result({p}, 0, RowsOf[p], 1)]
           /\ rows' = [rows EXCEPT ![w] = @ + RowsOf[p]]
           /\ cols' = [cols EXCEPT ![w] = @ \cup {p}]
           /\ Goto(w, "merge")
           /\ UNCHANGED <<idx, stack>>
     /\ UNCHANGED <<queued, batchIndex, completed, poisoned, stateVars, colstacks, outcome>>

\* Fault: a result is merged with the one below it whatever their levels.
MergeLevelsAlways(w) ==
  LET s == stack[w]
      top == s[Len(s)]
  IN /\ pc[w] = "merge"
     /\ IF s # <<>>
        THEN /\ stack' = [stack EXCEPT ![w] = SubSeq(s, 1, Len(s) - 1)]
             /\ result' = [result EXCEPT ![w] = Combine(top, @)] /\ UNCHANGED pc
        ELSE /\ stack' = [stack EXCEPT ![w] = Append(s, result[w])]
             /\ result' = [result EXCEPT ![w] = NoResult]
             /\ Goto(w, "check")
     /\ UNCHANGED <<queued, batchIndex, completed, poisoned, stateVars, colstacks, outcome,
                    idx, rows, cols>>

\* The loop that merges with previous results of the same level.
MergeLevels(w) ==
  LET s == stack[w]
      top == s[Len(s)]
  IN /\ pc[w] = "merge"
     /\ IF s # <<>> /\ top.level = result[w].level
        THEN /\ stack' = [stack EXCEPT ![w] = SubSeq(s, 1, Len(s) - 1)]
             /\ IF CombineFails(top, result[w])
                THEN Goto(w, "fail") /\ UNCHANGED result
                ELSE result' = [result EXCEPT ![w] = Combine(top, @)] /\ UNCHANGED pc
        ELSE /\ stack' = [stack EXCEPT ![w] = Append(s, result[w])]
             /\ result' = [result EXCEPT ![w] = NoResult]
             /\ Goto(w, "check")
     /\ UNCHANGED <<queued, batchIndex, completed, poisoned, stateVars, colstacks, outcome,
                    idx, rows, cols>>

\* The end of the loop's body.
CheckCompleted(w) ==
  /\ pc[w] = "check"
  /\ Goto(w, CASE completed -> "leave"
               [] ~completed /\ SufficientRows(rows[w]) -> "combine"
               [] OTHER -> "next")
  /\ UNCHANGED <<queued, batchIndex, completed, poisoned, stateVars, colstacks, outcome, localVars>>

\* combine_results over the thread's own stack, one result at a time, bottom first.
CombineLocal(w) ==
  LET s == stack[w]
  IN /\ pc[w] = "combine"
     /\ IF s = <<>>
        THEN /\ Goto(w, IF result[w] = NoResult THEN "colstack" ELSE "push")
             /\ UNCHANGED <<stack, result>>
        ELSE /\ stack' = [stack EXCEPT ![w] = Tail(s)]
             /\ IF result[w] # NoResult /\ CombineFails(result[w], s[1])
                THEN Goto(w, "fail_late") /\ UNCHANGED result
                ELSE /\ result' = [result EXCEPT ![w] =
                                     IF @ = NoResult THEN s[1] ELSE Combine(@, s[1])]
                     /\ UNCHANGED pc
     /\ UNCHANGED <<queued, batchIndex, completed, poisoned, stateVars, colstacks, outcome,
                    idx, rows, cols>>

\* fail_with_no_lock.
FailWithNoLock == completed' = TRUE /\ batchIndex' = N /\ Send(Error)

\* Fault: an error ends the thread's work and nothing else.
FailWithSilent(w) ==
  /\ pc[w] \in {"fail", "fail_late"}
  /\ Goto(w, IF pc[w] = "fail" THEN "leave" ELSE "colstack")
  /\ UNCHANGED <<queued, batchIndex, completed, poisoned, stateVars, colstacks, outcome, localVars>>

\* fail_with: inside the loop run() returns after it, later it still pushes its columns.
FailWith(w) ==
  /\ pc[w] \in {"fail", "fail_late"}
  /\ IF poisoned
     THEN Unwind(w) /\ UNCHANGED <<completed, batchIndex, outcome>>
     ELSE /\ IF completed THEN UNCHANGED <<completed, batchIndex, outcome>> ELSE FailWithNoLock
          /\ Goto(w, IF pc[w] = "fail" THEN "leave" ELSE "colstack")
          /\ UNCHANGED localVars
  /\ UNCHANGED <<queued, poisoned, stateVars, colstacks>>

\* Fault: the rows are not compared with Offset.
OutputPanicsNever(len) == FALSE

\* convert_to_output_format: the rows from Offset on, at most Limit of them; with fewer
\* than Offset rows the subtraction, or the row access after it, panics.
OutputPanics(len) == Offset > len
OutputLen(len) == Least(Limit, len - Offset)

\* The thread's result has been moved out of run().
Moved(w) == result' = [result EXCEPT ![w] = NoResult] /\ UNCHANGED <<idx, stack, rows, cols>>

\* push_result once it has recorded the thread's result: the query is complete.
Complete(w, s) ==
  IF CombineResultsFails(s)
  THEN FailWithNoLock /\ Goto(w, "colstack") /\ Moved(w) /\ UNCHANGED poisoned
  ELSE \/ /\ FinalPanics \/ OutputPanics(LenOf(s))
          /\ poisoned' = TRUE /\ Unwind(w)
          /\ UNCHANGED <<completed, batchIndex, outcome>>
       \/ /\ ~OutputPanics(LenOf(s))
          /\ Send(Rows(PartsOf(s), OutputLen(LenOf(s))))
          /\ completed' = TRUE
          /\ Goto(w, "colstack") /\ Moved(w)
          /\ UNCHANGED <<batchIndex, poisoned>>

PushResult(w) ==
  LET batches == completedBatches + result[w].count
      collected == rowsCollected + rows[w]
      results == Append(partial, result[w])
  IN /\ pc[w] = "push"
     /\ IF poisoned
        THEN Unwind(w) /\ UNCHANGED <<completed, batchIndex, outcome, poisoned, stateVars>>
        ELSE IF completed
        THEN /\ Goto(w, "colstack") /\ Moved(w)
             /\ UNCHANGED <<completed, batchIndex, outcome, poisoned, stateVars>>
        ELSE /\ completedBatches' = batches
             /\ rowsCollected' = collected
             /\ IF batches = N \/ SufficientRows(collected)
                THEN partial' = <<>> /\ Complete(w, results)
                ELSE /\ partial' = results /\ Goto(w, "colstack") /\ Moved(w)
                     /\ UNCHANGED <<completed, batchIndex, outcome, poisoned>>
     /\ UNCHANGED <<queued, colstacks>>

\* Fault: the columns are dropped when run() returns.
PushColstackDrops(w) ==
  /\ pc[w] = "colstack"
  /\ Goto(w, "leave")
  /\ UNCHANGED <<queued, batchIndex, completed, poisoned, stateVars, colstacks, outcome, localVars>>

\* push_colstack.
PushColstack(w) ==
  /\ pc[w] = "colstack"
  /\ IF poisoned
     THEN Unwind(w) /\ UNCHANGED colstacks
     ELSE /\ colstacks' = colstacks \cup cols[w]
          /\ Goto(w, "leave")
          /\ UNCHANGED localVars
  /\ UNCHANGED <<queued, batchIndex, completed, poisoned, stateVars, outcome>>

\* run() returns, or has unwound, and the thread drops its reference to the task.
Leave(w) ==
  /\ pc[w] \in {"leave", "unwind"}
  /\ Goto(w, IF pc[w] = "leave" THEN "idle" ELSE "dead")
  /\ DropTask(~queued /\ Holders = {w})
  /\ result' = [result EXCEPT ![w] = NoResult]
  /\ stack' = [stack EXCEPT ![w] = <<>>]
  /\ rows' = [rows EXCEPT ![w] = 0]
  /\ cols' = [cols EXCEPT ![w] = {}]
  /\ idx' = [idx EXCEPT ![w] = 0]
  /\ UNCHANGED <<queued, batchIndex, completed, poisoned, completedBatches, rowsCollected>>

\* recover(): drop_pending_tasks, then new worker threads.
Recover ==
  /\ \E w \in Spare : pc[w] = "unborn"
  /\ queued' = FALSE
  /\ DropTask(queued /\ Holders = {})
  /\ pc' = [w \in Threads |-> IF pc[w] = "unborn" THEN "idle" ELSE pc[w]]
  /\ UNCHANGED <<batchIndex, completed, poisoned, completedBatches, rowsCollected, localVars>>

Run(w) ==
  \/ NextPartition(w) \/ ExecutePartition(w) \/ MergeLevels(w) \/ CheckCompleted(w)
  \/ CombineLocal(w) \/ FailWith(w) \/ PushResult(w) \/ PushColstack(w) \/ Leave(w)

Next == UNCHANGED query /\ (Recover \/ \E w \in Threads : TakeTask(w) \/ Run(w))

Spec == Init /\ [][Next]_vars

\* Threads are scheduled, an idle one comes back to the queue, and unsafe_state's mutex
\* is held only for a bounded time.
FairSpec ==
  Spec /\ \A w \in Threads :
    WF_vars(UNCHANGED query /\ TakeTask(w)) /\ WF_vars(UNCHANGED query /\ Run(w))

-----------------------------------------------------------------------------
(* Properties.                                                               *)

Labels == {"unborn", "idle", "next", "execute", "merge", "check", "combine", "push", "fail",
           "fail_late", "colstack", "leave", "unwind", "dead"}

Results == [parts : SUBSET Pids, level : Nat, len : Nat, count : Nat]

\* Every variable has its type (query_task.rs, QueryTask, QueryState and run()'s locals).
TypeOK ==
  /\ query \in Queries
  /\ queued \in BOOLEAN /\ completed \in BOOLEAN /\ poisoned \in BOOLEAN
  /\ batchIndex \in Nat /\ completedBatches \in Nat /\ rowsCollected \in Nat
  /\ partial \in Seq(Results) /\ colstacks \subseteq Pids
  /\ outcome \in [kind : {"pending", "error", "canceled", "rows"}, parts : SUBSET Pids, len : Nat]
  /\ pc \in [Threads -> Labels] /\ idx \in [Threads -> Nat]
  /\ result \in [Threads -> Results] /\ stack \in [Threads -> Seq(Results)]
  /\ rows \in [Threads -> Nat] /\ cols \in [Threads -> SUBSET Pids]

\* The rows of some partitions, and their number.
RowsIn(parts) == UNION {{p} \X (1..RowsOf[p]) : p \in parts}
TotalRows(parts) == Cardinality(RowsIn(parts))

\* An answer with rows is made from every partition of the snapshot; only a query without
\* aggregates and ORDER BY may leave partitions out, and only with more than LIMIT plus
\* OFFSET rows in hand (push_result).
AnswerComplete ==
  outcome.kind = "rows" =>
    \/ outcome.parts = Pids
    \/ Kind = "select" /\ TotalRows(outcome.parts) > CombinedLimit

\* Rows the query has without its LIMIT clause.
FullLen ==
  IF Kind = "aggregate"
  THEN CHOOSE m \in {RowsOf[p] : p \in Pids} : \A p \in Pids : RowsOf[p] <= m
  ELSE TotalRows(Pids)

\* However the partitions were shared among the threads, and wherever the query stopped
\* early, the answer has the rows that LIMIT and OFFSET select from the whole table
\* (combine's truncation, sufficient_rows and convert_to_output_format).
AnswerSize ==
  outcome.kind = "rows" /\ N > 0 => outcome.len = Least(Limit, FullLen - Offset)

\* The partitions a thread answers for: the one it executes and those in its results.
Claimed(w) == IF pc[w] = "execute" THEN {idx[w]} ELSE {}
Held(w) == result[w].parts \cup PartsOf(stack[w])

\* No partition is counted twice: a claimed partition is with one thread, in one of its
\* results, or in one pushed result, and completed_batches counts the pushed ones
\* (next_partition's fetch_add, BatchResult.batch_count).
EachPartitionOnce ==
  /\ \A v, w \in Threads :
       v # w => (Claimed(v) \cup Held(v)) \cap (Claimed(w) \cup Held(w)) = {}
  /\ \A w \in Threads : (Claimed(w) \cup Held(w)) \cap PartsOf(partial) = {}
  /\ outcome = Pending /\ ~poisoned => completedBatches = Cardinality(PartsOf(partial))

\* A pushed result refers to column data that some colstack keeps alive, although the
\* thread that pushed it pushes its columns later: "need to keep colstack alive, otherwise
\* results may reference freed data" (query_task.rs, run).
ReferencedAlive == PartsOf(partial) \subseteq colstacks \cup UNION {cols[w] : w \in Threads}

\* "Merge only with previous batch results of same level to get O(n log n) complexity": the
\* levels on a thread's stack fall strictly, and a result of level k is made of 2^k
\* partitions, so that a partition's rows are copied at most log n times.
MergesBalanced ==
  \A w \in Threads : LET s == stack[w]
    IN pc[w] \in {"next", "execute", "merge", "check"} =>
       /\ \A i, j \in DOMAIN s : i < j => s[i].level > s[j].level
       /\ \A i \in DOMAIN s : s[i].count = 2^s[i].level

\* The client sees "canceled" only when a thread has panicked or recover() has dropped the
\* task: partial results, failures and early exits never leave a query without an answer.
CanceledOnlyByPanic ==
  outcome = Canceled =>
    \/ \E w \in Threads : pc[w] \in {"unwind", "dead"}
    \/ \E w \in Spare : pc[w] # "unborn"

Answer == INSTANCE QueryAnswer WITH
  terms <- [parts |-> Pids,
            earlyStop |-> Kind = "select",
            clashes |-> Clashes,
            fallible |-> Failing # {} \/ Clashes # {},
            cancelable |-> Panicking # {} \/ FinalPanics \/ Offset > 0 \/ Spare # {}],
  answer <- [kind |-> outcome.kind, parts |-> outcome.parts]

\* The task keeps run_query's promise: one answer, from the whole snapshot unless it may
\* stop early, an error only if something fails and "canceled" only if something panics or
\* recover() is called (query_task.rs, shared_sender.rs).
Promise == Answer!AnswerSpec

\* The client's receiver resolves, unless panics have ended every worker (run_query awaits
\* the receiver; the last reference to the task sends or drops the sender).
QueryResolves == <>(outcome # Pending \/ \A w \in Workers : pc[w] = "dead")

=============================================================================
