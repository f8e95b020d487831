---------------------------- MODULE QueryTaskRows ----------------------------
(***************************************************************************)
(* The rows of results: combine's truncation loses none that LIMIT and      *)
(* OFFSET select, rows are counted once, and levels fall.  TaskNeat is the  *)
(* invariant that says so of every thread and of the shared state.          *)
(***************************************************************************)
EXTENDS QueryTaskInvariant

\* What is true of a thread at label l, with batch_result r, batch_results s, n rows collected
\* and the columns c: the columns its results refer to are its own, the results have the right
\* lengths, and the rows are those of its results until it has pushed them.
Loop == {"unborn", "idle", "next", "execute", "merge", "check"}
Falling(s) ==
  /\ \A i, j \in DOMAIN s : i < j => s[i].level > s[j].level
  /\ \A i \in DOMAIN s : s[i].count = Pow(s[i].level)
Neat(q, l, r, s, n, c) ==
  /\ r.parts \cup PartsOf(s) \subseteq c
  /\ FitsLen(q, r.len, r.parts) /\ \A i \in DOMAIN s : FitsLen(q, s[i].len, s[i].parts)
  /\ l \in Loop \cup Active => n = Total(q, r.parts \cup PartsOf(s))
  /\ l \in Loop => Falling(s)
  /\ l = "merge" => r.count = Pow(r.level) /\ (s # <<>> => s[Len(s)].level >= r.level)
NeatThreads == \A w \in Threads : Neat(query, pc[w], result[w], stack[w], rows[w], cols[w])

\* What is true of the shared state: the results have the right lengths, the rows are those of
\* the results until there is an answer, and the columns a result refers to have been pushed or
\* are about to be.
NeatShared ==
  /\ poisoned => partial = <<>>
  /\ \A i \in DOMAIN partial : FitsLen(query, partial[i].len, partial[i].parts)
  /\ outcome = Pending /\ ~poisoned => rowsCollected = Total(query, PartsOf(partial))
  /\ \A p \in PartsOf(partial) : p \in colstacks \/ \E w \in Threads : pc[w] = "colstack" /\ p \in cols[w]

\* The invariant that the answer's rows rest on.
TaskNeat == NeatThreads /\ NeatShared /\ AnswerComplete /\ AnswerSize

\* A thread goes to another label with what it has.
LEMMA NeatLabel ==
  ASSUME Library, NEW q, NEW l, NEW r, NEW s, NEW n, NEW c, NEW k, Neat(q, l, r, s, n, c), k # "merge",
         k \in Loop => l \in Loop, k \in Active => l \in Loop \cup Active
  PROVE  Neat(q, k, r, s, n, c)
  BY Zenon DEF Neat

\* A thread has no results.
LEMMA NeatEmpty ==
  ASSUME Library, query \in Queries, NEW l, NEW n, NEW c, l # "merge", l \in Loop \cup Active => n = 0
  PROVE  Neat(query, l, NoResult, <<>>, n, c)
  <1>1. NoResult.parts = {} /\ NoResult.len = 0
    BY DEF NoResult, Result
  <1>2. PartsOf(<<>>) = {} /\ DOMAIN <<>> = {}
    BY NoParts
  <1>3. Total(query, {}) = 0
    BY RowsAdd
  <1>4. FitsLen(query, 0, {})
    BY <1>3 DEF FitsLen
  <1>5. Falling(<<>>)
    BY DEF Falling
  <1>6. NoResult.parts \cup PartsOf(<<>>) = {}
    BY <1>1, <1>2
  <1>. QED
    BY <1>1, <1>2, <1>3, <1>4, <1>5, <1>6, Zenon DEF Neat

\* The other threads stay as they are.
Others(w) ==
  \A v \in Threads \ {w} :
    pc'[v] = pc[v] /\ result'[v] = result[v] /\ stack'[v] = stack[v] /\ rows'[v] = rows[v] /\ cols'[v] = cols[v]

\* The answer stays right while the query has none, or the one it had.
LEMMA AnswerKept ==
  ASSUME Library, AnswerComplete, AnswerSize, query' = query, outcome' = outcome \/ outcome'.kind # "rows"
  PROVE  AnswerComplete' /\ AnswerSize'
  <1>1. /\ N' = N /\ Pids' = Pids /\ Kind' = Kind /\ Limit' = Limit /\ Offset' = Offset
        /\ CombinedLimit' = CombinedLimit /\ RowsOf' = RowsOf
    BY SameQuery DEF Kind, Limit, Offset, CombinedLimit, RowsOf
  <1>2. FullLen' = FullLen
    BY <1>1 DEF FullLen, TotalRows, RowsIn
  <1>3. CASE outcome' = outcome
    <2>1. TotalRows(outcome.parts)' = TotalRows(outcome.parts)
      BY <1>1, <1>3 DEF TotalRows, RowsIn
    <2>. QED
      BY <1>1, <1>2, <1>3, <2>1 DEF AnswerComplete, AnswerSize
  <1>4. CASE outcome'.kind # "rows"
    BY <1>4 DEF AnswerComplete, AnswerSize
  <1>. QED
    BY <1>3, <1>4

\* Threads stay neat when only thread w moves.
LEMMA ThreadsNeat ==
  ASSUME Library, TaskNeat, query' = query, NEW w \in Threads, Others(w),
         Neat(query, pc'[w], result'[w], stack'[w], rows'[w], cols'[w])
  PROVE  NeatThreads'
  <1>. SUFFICES ASSUME NEW v \in Threads
               PROVE  Neat(query, pc'[v], result'[v], stack'[v], rows'[v], cols'[v])
    BY DEF NeatThreads
  <1>1. CASE v = w
    BY <1>1
  <1>2. CASE v # w
    BY <1>2 DEF Others, TaskNeat, NeatThreads
  <1>. QED
    BY <1>1, <1>2

\* The results a thread has are all that changes.
LEMMA LocalNeat ==
  ASSUME Library, TaskNeat, query' = query, AnswerStep, NEW w \in Threads, Others(w), pc[w] # "colstack",
         Neat(query, pc'[w], result'[w], stack'[w], rows'[w], cols'[w]),
         UNCHANGED <<poisoned, partial, rowsCollected, colstacks>>,
         outcome' = outcome \/ outcome'.kind # "rows"
  PROVE  TaskNeat'
  <1>1. NeatThreads'
    BY ThreadsNeat
  <1>2. NeatShared'
    <2>1. outcome' = Pending => outcome = Pending
      BY DEF AnswerStep
    <2>2. ASSUME NEW p \in PartsOf(partial), p \notin colstacks
          PROVE  \E v \in Threads : pc'[v] = "colstack" /\ p \in cols'[v]
      <3>1. PICK v \in Threads : pc[v] = "colstack" /\ p \in cols[v]
        BY <2>2 DEF TaskNeat, NeatShared
      <3>2. v # w /\ pc'[v] = pc[v] /\ cols'[v] = cols[v]
        BY <3>1 DEF Others
      <3>. QED
        BY <3>1, <3>2
    <2>. QED
      BY <2>1, <2>2 DEF TaskNeat, NeatShared, Pending
  <1>3. AnswerComplete' /\ AnswerSize'
    BY AnswerKept DEF TaskNeat
  <1>. QED
    BY <1>1, <1>2, <1>3 DEF TaskNeat

-----------------------------------------------------------------------------
(* Steps that leave a thread's results alone, or execute a partition.        *)

\* What the invariant says of a thread.
LEMMA NeatThread ==
  ASSUME Library, TaskInv, TaskNeat, NEW w \in Threads
  PROVE  /\ query \in Queries /\ Neat(query, pc[w], result[w], stack[w], rows[w], cols[w])
         /\ pc \in [Threads -> Labels] /\ result \in [Threads -> Results]
         /\ stack \in [Threads -> Seq(Results)] /\ rows \in [Threads -> Nat] /\ cols \in [Threads -> SUBSET Pids]
  BY DEF TaskInv, TypeOK, TaskNeat, NeatThreads

\* A thread goes to label l.
LEMMA GoNeat ==
  ASSUME Library, TaskInv, TaskNeat, NEW w \in Threads, NEW l, Goto(w, l), UNCHANGED <<result, stack, rows, cols>>,
         l # "merge", l \in Loop => pc[w] \in Loop, l \in Active => pc[w] \in Loop \cup Active
  PROVE  Others(w) /\ Neat(query, pc'[w], result'[w], stack'[w], rows'[w], cols'[w])
  <1>1. Neat(query, l, result[w], stack[w], rows[w], cols[w])
    BY NeatThread, NeatLabel, Zenon
  <1>2. pc' = [pc EXCEPT ![w] = l] /\ pc \in [Threads -> Labels]
    BY NeatThread DEF Goto
  <1>3. pc'[w] = l
    BY <1>2
  <1>. QED
    BY <1>1, <1>2, <1>3 DEF Others

\* A thread panics.
LEMMA UnwindNeat ==
  ASSUME Library, TaskInv, TaskNeat, NEW w \in Threads, Unwind(w)
  PROVE  Others(w) /\ Neat(query, pc'[w], result'[w], stack'[w], rows'[w], cols'[w])
  <1>1. /\ pc'[w] = "unwind" /\ result'[w] = NoResult /\ stack'[w] = <<>> /\ cols'[w] = {} /\ Others(w)
    BY NeatThread DEF Unwind, Goto, Others
  <1>2. Neat(query, "unwind", NoResult, <<>>, rows'[w], {})
    BY NeatThread, NeatEmpty, Zenon DEF Loop, Active
  <1>. QED
    BY <1>1, <1>2

\* NextPartition, CheckCompleted and FailWith leave a thread's results as they are.
LEMMA PlainNeat ==
  ASSUME Library, TaskInv, TaskNeat, query' = query, AnswerStep, NEW w \in Threads,
         NextPartition(w) \/ CheckCompleted(w) \/ FailWith(w)
  PROVE  TaskNeat'
  <1>. USE DEF Loop, Active
  <1>1. CASE NextPartition(w)
    <2>1. /\ pc[w] = "next" /\ UNCHANGED <<poisoned, partial, rowsCollected, colstacks, outcome>>
          /\ UNCHANGED <<result, stack, rows, cols>>
          /\ Goto(w, "execute") \/ Goto(w, "combine")
      BY <1>1 DEF NextPartition, stateVars
    <2>2. Others(w) /\ Neat(query, pc'[w], result'[w], stack'[w], rows'[w], cols'[w])
      BY <2>1, GoNeat
    <2>. QED
      BY <2>1, <2>2, LocalNeat
  <1>2. CASE CheckCompleted(w)
    <2>1. /\ pc[w] = "check" /\ UNCHANGED <<poisoned, partial, rowsCollected, colstacks, outcome>>
          /\ UNCHANGED <<result, stack, rows, cols>>
          /\ Goto(w, "leave") \/ Goto(w, "combine") \/ Goto(w, "next")
      BY <1>2 DEF CheckCompleted, stateVars, localVars
    <2>2. Others(w) /\ Neat(query, pc'[w], result'[w], stack'[w], rows'[w], cols'[w])
      BY <2>1, GoNeat
    <2>. QED
      BY <2>1, <2>2, LocalNeat
  <1>3. CASE FailWith(w)
    <2>1. pc[w] \in {"fail", "fail_late"} /\ UNCHANGED <<poisoned, partial, rowsCollected, colstacks>>
      BY <1>3 DEF FailWith, stateVars
    <2>2. outcome' = outcome \/ outcome'.kind # "rows"
      BY <1>3 DEF FailWith, FailWithNoLock, Send, Error
    <2>3. CASE poisoned
      BY <1>3, <2>1, <2>2, <2>3, UnwindNeat, LocalNeat DEF FailWith
    <2>4. CASE ~poisoned
      <3>1. UNCHANGED <<result, stack, rows, cols>> /\ (Goto(w, "leave") \/ Goto(w, "colstack"))
        BY <1>3, <2>4 DEF FailWith, localVars
      <3>2. Others(w) /\ Neat(query, pc'[w], result'[w], stack'[w], rows'[w], cols'[w])
        BY <2>1, <3>1, GoNeat
      <3>. QED
        BY <2>1, <2>2, <3>2, LocalNeat
    <2>. QED
      BY <2>3, <2>4
  <1>. QED
    BY <1>1, <1>2, <1>3

\* ExecutePartition: the result has the rows of its partition.
LEMMA ExecuteNeat ==
  ASSUME Library, TaskInv, TaskNeat, query' = query, AnswerStep, NEW w \in Threads, ExecutePartition(w)
  PROVE  TaskNeat'
  <1>. DEFINE p == idx[w]
              s == stack[w]
              r == Result({p}, 0, RowsOf[p], 1)
  <1>1. pc[w] = "execute" /\ UNCHANGED <<poisoned, partial, rowsCollected, colstacks, outcome>>
    BY DEF ExecutePartition, stateVars
  <1>2. CASE Unwind(w)
    BY <1>1, <1>2, UnwindNeat, LocalNeat
  <1>3. CASE Goto(w, "fail") /\ UNCHANGED localVars
    <2>1. Others(w) /\ Neat(query, pc'[w], result'[w], stack'[w], rows'[w], cols'[w])
      BY <1>1, <1>3, GoNeat DEF localVars, Loop, Active
    <2>. QED
      BY <1>1, <2>1, LocalNeat
  <1>4. CASE /\ result' = [result EXCEPT ![w] = r]
             /\ rows' = [rows EXCEPT ![w] = @ + RowsOf[p]]
             /\ cols' = [cols EXCEPT ![w] = @ \cup {p}]
             /\ Goto(w, "merge")
             /\ UNCHANGED <<idx, stack>>
    <2>1. /\ query \in Queries /\ Neat(query, "execute", result[w], s, rows[w], cols[w])
          /\ rows[w] \in Nat
      BY <1>1, NeatThread
    <2>2. /\ pc'[w] = "merge" /\ result'[w] = r /\ stack'[w] = s
          /\ rows'[w] = rows[w] + RowsOf[p] /\ cols'[w] = cols[w] \cup {p} /\ Others(w)
      BY <1>4, NeatThread DEF Goto, Others
    <2>3. result[w] = NoResult /\ NoResult.parts = {} /\ p \in Pids /\ p \notin PartsOf(s)
          /\ s \in Seq(Goods(query)) /\ PartsOf(s) \subseteq Pids
      <3>1. result[w] = NoResult /\ p \in Pids /\ p \notin Held(w) /\ s \in Seq(Goods(query))
        BY <1>1 DEF TaskInv, ThreadResults
      <3>2. PartsOf(s) \subseteq Pids
        BY <1>1, NoResultGood DEF TaskInv, Ownership, Owned, Held
      <3>. QED
        BY <3>1, <3>2 DEF Held, NoResult, Result
    <2>4. rows[w] = Total(query, PartsOf(s)) /\ PartsOf(s) \subseteq cols[w] /\ Falling(s)
          /\ \A i \in DOMAIN s : FitsLen(query, s[i].len, s[i].parts)
      <3>1. NoResult.parts \cup PartsOf(s) = PartsOf(s)
        BY <2>3
      <3>. QED
        BY <2>1, <2>3, <3>1 DEF Neat, Loop
    <2>5. Total(query, {p}) = RowsOf[p] /\ RowsOf[p] \in Nat
      BY <2>1, <2>3, RowsAdd, QueryFacts DEF Pids, N, RowsOf
    <2>6. Total(query, {p} \cup PartsOf(s)) = rows[w] + RowsOf[p]
      <3>1. {p} \subseteq 0..(query.n - 1) /\ PartsOf(s) \subseteq 0..(query.n - 1) /\ {p} \cap PartsOf(s) = {}
        BY <2>3 DEF Pids, N
      <3>2. Total(query, {p} \cup PartsOf(s)) = Total(query, {p}) + Total(query, PartsOf(s))
        BY <2>1, <3>1, RowsAdd, Zenon
      <3>. QED
        BY <2>1, <2>4, <2>5, <3>2
    <2>7. FitsLen(query, RowsOf[p], {p})
      BY <2>1, <2>5 DEF FitsLen, RowsOf
    <2>8. r.parts = {p} /\ r.level = 0 /\ r.len = RowsOf[p] /\ r.count = 1
      BY DEF Result
    <2>9. 1 = Pow(0)
      BY PowDoubles
    <2>10. s # <<>> => s[Len(s)].level >= 0
      <3>1. ASSUME s # <<>> PROVE s[Len(s)].level \in Nat
        <4>1. Len(s) \in 1..Len(s) /\ s[Len(s)] \in Goods(query)
          BY <2>3, <3>1, SeqFacts
        <4>. QED
          BY <2>1, <4>1, GoodFacts
      <3>. QED
        BY <3>1
    <2>. HIDE DEF r, s, p
    <2>11. Neat(query, "merge", r, s, rows[w] + RowsOf[p], cols[w] \cup {p})
      <3>1. {p} \cup PartsOf(s) \subseteq cols[w] \cup {p}
        BY <2>4
      <3>. QED
        BY <2>4, <2>6, <2>7, <2>8, <2>9, <2>10, <3>1, Zenon DEF Neat, Loop, Active
    <2>12. Neat(query, pc'[w], result'[w], stack'[w], rows'[w], cols'[w])
      BY <2>2, <2>11
    <2>. QED
      BY <1>1, <2>2, <2>12, LocalNeat, Zenon
  <1>. QED
    BY <1>2, <1>3, <1>4 DEF ExecutePartition

-----------------------------------------------------------------------------
(* Levels, and the merging of results.                                       *)

\* Results have the lengths of their partitions.
LensFit(s) == \A i \in DOMAIN s : FitsLen(query, s[i].len, s[i].parts)

\* The elements of a sequence without its last.
LEMMA FrontElements ==
  ASSUME NEW R, NEW s \in Seq(R), s # <<>>
  PROVE  LET t == SubSeq(s, 1, Len(s) - 1)
         IN  /\ Len(s) \in DOMAIN s /\ Len(s) \in Nat /\ t \in Seq(R)
             /\ Len(t) = Len(s) - 1 /\ DOMAIN t = 1..(Len(s) - 1)
             /\ \A i \in DOMAIN t : i \in DOMAIN s /\ t[i] = s[i] /\ i \in Nat /\ i < Len(s)
  <1>. DEFINE n == Len(s)
              t == SubSeq(s, 1, n - 1)
  <1>1. n \in Nat \ {0} /\ DOMAIN s = 1..n
    OBVIOUS
  <1>2. t \in Seq(R) /\ Len(t) = n - 1 /\ \A i \in 1..Len(t) : t[i] = s[i]
    <2>1. (\A i \in 1..(n - 1) : s[i] \in R) /\ 1 \in Int /\ n - 1 \in Int
      BY <1>1
    <2>. HIDE DEF n
    <2>2. /\ t \in Seq(R) /\ Len(t) = IF 1 <= n - 1 THEN n - 1 - 1 + 1 ELSE 0
          /\ \A i \in 1..(n - 1 - 1 + 1) : t[i] = s[1 + i - 1]
      BY <2>1
    <2>. HIDE DEF t
    <2>. QED
      BY <1>1, <2>2
  <1>3. DOMAIN t = 1..Len(t)
    BY <1>2
  <1>. HIDE DEF t, n
  <1>4. DOMAIN t = 1..(n - 1) /\ n \in DOMAIN s
        /\ \A i \in 1..(n - 1) : i \in DOMAIN s /\ i \in Nat /\ i < n
    BY <1>1, <1>2, <1>3
  <1>5. \A i \in DOMAIN t : t[i] = s[i]
    BY <1>2, <1>4
  <1>. QED
    BY <1>1, <1>2, <1>4, <1>5 DEF t, n

\* The elements of a sequence without its first.
LEMMA TailElements ==
  ASSUME NEW R, NEW s \in Seq(R), s # <<>>
  PROVE  /\ 1 \in DOMAIN s /\ Tail(s) \in Seq(R)
         /\ \A i \in DOMAIN Tail(s) : \E j \in DOMAIN s : Tail(s)[i] = s[j]
  <1>. DEFINE n == Len(s)
              t == Tail(s)
  <1>1. n \in Nat \ {0} /\ DOMAIN s = 1..n
    OBVIOUS
  <1>2. t \in Seq(R) /\ Len(t) = n - 1 /\ \A i \in 1..Len(t) : t[i] = s[i + 1]
    OBVIOUS
  <1>3. DOMAIN t = 1..Len(t)
    BY <1>2
  <1>. HIDE DEF t, n
  <1>4. \A i \in DOMAIN t : i + 1 \in DOMAIN s
    BY <1>1, <1>2, <1>3
  <1>5. \A i \in DOMAIN t : t[i] = s[i + 1]
    BY <1>2, <1>3
  <1>6. \A i \in DOMAIN t : \E j \in DOMAIN s : t[i] = s[j]
    BY <1>4, <1>5, Zenon
  <1>7. 1 \in DOMAIN s
    BY <1>1
  <1>. QED
    BY <1>2, <1>6, <1>7 DEF t, n

\* The elements of a sequence with one more at the end.
LEMMA MoreElements ==
  ASSUME NEW R, NEW s \in Seq(R), NEW r \in R
  PROVE  LET u == Append(s, r)
         IN  /\ Len(s) \in Nat /\ DOMAIN s = 1..Len(s)
             /\ \A i \in DOMAIN u : (i \in DOMAIN s /\ u[i] = s[i]) \/ (i = Len(s) + 1 /\ u[i] = r)
  <1>. DEFINE n == Len(s)
              u == Append(s, r)
  <1>1. n \in Nat /\ DOMAIN s = 1..n
    OBVIOUS
  <1>2. DOMAIN u = 1..(n + 1) /\ \A i \in 1..n : u[i] = s[i]
    OBVIOUS
  <1>3. u[n + 1] = r
    OBVIOUS
  <1>. HIDE DEF u, n
  <1>4. \A i \in 1..(n + 1) : i \in 1..n \/ i = n + 1
    BY <1>1
  <1>5. ASSUME NEW i \in DOMAIN u PROVE (i \in DOMAIN s /\ u[i] = s[i]) \/ (i = n + 1 /\ u[i] = r)
    <2>1. i \in 1..n \/ i = n + 1
      BY <1>2, <1>4, Zenon
    <2>2. CASE i \in 1..n
      BY <1>1, <1>2, <2>2, Zenon
    <2>3. CASE i = n + 1
      BY <1>3, <2>3, Zenon
    <2>. QED
      BY <2>1, <2>2, <2>3
  <1>. QED
    BY <1>1, <1>5 DEF u, n

\* Levels go on falling when the last result is taken off, and the one below it is higher.
LEMMA FallingFront ==
  ASSUME Library, query \in Queries, NEW s \in Seq(Goods(query)), s # <<>>, Falling(s), LensFit(s)
  PROVE  LET t == SubSeq(s, 1, Len(s) - 1)
             top == s[Len(s)]
         IN  /\ Falling(t) /\ LensFit(t) /\ top.count = Pow(top.level)
             /\ t # <<>> => t[Len(t)].level >= top.level + 1
  <1>. DEFINE n == Len(s)
              t == SubSeq(s, 1, n - 1)
              top == s[n]
  <1>1. /\ n \in DOMAIN s /\ n \in Nat /\ t \in Seq(Goods(query)) /\ Len(t) = n - 1 /\ DOMAIN t = 1..(n - 1)
        /\ \A i \in DOMAIN t : i \in DOMAIN s /\ t[i] = s[i] /\ i \in Nat /\ i < n
    BY FrontElements
  <1>2. \A i \in DOMAIN s : s[i].level \in Nat
    <2>1. \A i \in DOMAIN s : s[i] \in Goods(query)
      BY SeqFacts
    <2>. QED
      BY <2>1, GoodFacts
  <1>. HIDE DEF t, n
  <1>3. Falling(t) /\ LensFit(t)
    BY <1>1 DEF Falling, LensFit
  <1>4. top.count = Pow(top.level)
    BY <1>1, Zenon DEF Falling
  <1>5. ASSUME t # <<>> PROVE t[Len(t)].level >= top.level + 1
    <2>1. Len(t) \in DOMAIN t
      BY <1>1, <1>5, SeqFacts
    <2>2. t[Len(t)] = s[Len(t)] /\ Len(t) \in DOMAIN s /\ Len(t) < n
      BY <1>1, <2>1, Zenon
    <2>3. s[Len(t)].level > s[n].level
      BY <1>1, <2>2, Zenon DEF Falling
    <2>4. s[Len(t)].level \in Nat /\ s[n].level \in Nat
      BY <1>1, <1>2, <2>2, Zenon
    <2>. QED
      BY <2>2, <2>3, <2>4
  <1>. QED
    BY <1>3, <1>4, <1>5 DEF t, n

\* Levels go on falling when a result of a lower level is put on top.
LEMMA FallingAppend ==
  ASSUME Library, query \in Queries, NEW s \in Seq(Goods(query)), NEW r \in Goods(query), Falling(s), LensFit(s),
         r.count = Pow(r.level), FitsLen(query, r.len, r.parts), s # <<>> => s[Len(s)].level > r.level
  PROVE  Falling(Append(s, r)) /\ LensFit(Append(s, r))
  <1>. DEFINE n == Len(s)
              u == Append(s, r)
  <1>1. /\ n \in Nat /\ DOMAIN s = 1..n
        /\ \A i \in DOMAIN u : (i \in DOMAIN s /\ u[i] = s[i]) \/ (i = n + 1 /\ u[i] = r)
    BY MoreElements
  <1>2. r.level \in Nat /\ \A i \in DOMAIN s : s[i].level \in Nat
    <2>1. \A i \in DOMAIN s : s[i] \in Goods(query)
      BY SeqFacts
    <2>. QED
      BY <2>1, GoodFacts
  <1>3. ASSUME NEW i \in DOMAIN s PROVE s[i].level > r.level
    <2>1. s # <<>> /\ n \in DOMAIN s
      BY <1>1, <1>3
    <2>2. s[n].level > r.level /\ s[n].level \in Nat /\ s[i].level \in Nat
      BY <1>2, <1>3, <2>1
    <2>3. i = n \/ i < n
      BY <1>1, <1>3
    <2>4. i < n => s[i].level > s[n].level
      BY <1>3, <2>1, Zenon DEF Falling
    <2>. QED
      BY <1>2, <2>2, <2>3, <2>4
  <1>. HIDE DEF u, n
  <1>4. LensFit(u) /\ \A i \in DOMAIN u : u[i].count = Pow(u[i].level)
    BY <1>1, Zenon DEF LensFit, Falling
  <1>5. ASSUME NEW i \in DOMAIN u, NEW j \in DOMAIN u, i < j PROVE u[i].level > u[j].level
    <2>1. CASE j \in DOMAIN s /\ u[j] = s[j]
      <3>1. i \in DOMAIN s /\ u[i] = s[i]
        BY <1>1, <1>5, <2>1
      <3>. QED
        BY <1>5, <2>1, <3>1, Zenon DEF Falling
    <2>2. CASE j = n + 1 /\ u[j] = r
      <3>1. i \in DOMAIN s /\ u[i] = s[i]
        BY <1>1, <1>5, <2>2
      <3>. QED
        BY <1>3, <2>2, <3>1, Zenon
    <2>. QED
      BY <1>1, <2>1, <2>2
  <1>. QED
    BY <1>4, <1>5 DEF Falling, u, n

\* A combined result has the rows of its partitions.
LEMMA CombinedNeat ==
  ASSUME Library, query \in Queries, NEW a \in Goods(query), NEW b \in Goods(query), a.parts \cap b.parts = {},
         FitsLen(query, a.len, a.parts), FitsLen(query, b.len, b.parts)
  PROVE  LET r == Combine(a, b)
         IN  /\ FitsLen(query, r.len, r.parts) /\ r.parts = a.parts \cup b.parts
             /\ r.level = a.level + 1 /\ r.count = a.count + b.count
  <1>1. a.parts \subseteq Pids /\ b.parts \subseteq Pids /\ a.len \in Nat /\ b.len \in Nat
    BY GoodFacts
  <1>2. FitsLen(query, CombinedLen(a.len, b.len), a.parts \cup b.parts)
    BY <1>1, CombineFits, Zenon
  <1>. QED
    BY <1>2 DEF Combine, Result

\* MergeLevels: two results of one level make one of the next, and levels fall.
LEMMA MergeNeat ==
  ASSUME Library, TaskInv, TaskNeat, query' = query, AnswerStep, NEW w \in Threads, MergeLevels(w)
  PROVE  TaskNeat'
  <1>. DEFINE G == Goods(query)
              a == result[w]
              s == stack[w]
              n == Len(s)
              top == s[n]
              t == SubSeq(s, 1, n - 1)
  <1>1. /\ pc[w] = "merge" /\ UNCHANGED <<poisoned, partial, rowsCollected, colstacks, outcome, rows, cols>>
    BY DEF MergeLevels, stateVars
  <1>2. /\ query \in Queries /\ a \in G /\ s \in Seq(G) /\ Apart(s) /\ a.parts \cap PartsOf(s) = {}
    BY ThreadFacts DEF Fits
  <1>3. /\ a.parts \cup PartsOf(s) \subseteq cols[w] /\ FitsLen(query, a.len, a.parts) /\ LensFit(s)
        /\ rows[w] = Total(query, a.parts \cup PartsOf(s)) /\ Falling(s)
        /\ a.count = Pow(a.level) /\ (s # <<>> => top.level >= a.level)
    BY <1>1, NeatThread DEF Neat, Loop, LensFit
  <1>4. /\ pc \in [Threads -> Labels] /\ result \in [Threads -> Results] /\ stack \in [Threads -> Seq(Results)]
    BY NeatThread
  <1>5. a.level \in Nat
    BY <1>2, GoodFacts
  <1>6. CASE s # <<>> /\ top.level = a.level
    <2>1. /\ top \in G /\ t \in Seq(G) /\ Apart(t)
          /\ PartsOf(s) = PartsOf(t) \cup top.parts /\ PartsOf(t) \cap top.parts = {}
      BY <1>2, <1>6, WithoutLast
    <2>2. /\ Falling(t) /\ LensFit(t) /\ top.count = Pow(top.level)
          /\ t # <<>> => t[Len(t)].level >= top.level + 1
      BY <1>2, <1>3, <1>6, FallingFront
    <2>3. FitsLen(query, top.len, top.parts) /\ top.parts \cap a.parts = {}
      <3>1. n \in DOMAIN s
        BY <1>2, <1>6, FrontElements
      <3>. QED
        BY <1>2, <1>3, <2>1, <3>1, Zenon DEF LensFit
    <2>. HIDE DEF t, top
    <2>4. CASE CombineFails(top, a)
      <3>1. pc'[w] = "fail" /\ result'[w] = a /\ stack'[w] = t /\ Others(w)
        BY <1>1, <1>4, <1>6, <2>4 DEF MergeLevels, Goto, Others, t, top
      <3>2. a.parts \cup PartsOf(t) \subseteq cols[w]
        BY <1>3, <2>1
      <3>3. Neat(query, "fail", a, t, rows[w], cols[w])
        BY <1>3, <2>2, <3>2, Zenon DEF Neat, Loop, Active, LensFit
      <3>4. Neat(query, pc'[w], result'[w], stack'[w], rows'[w], cols'[w])
        BY <1>1, <3>1, <3>3
      <3>. QED
        BY <1>1, <3>1, <3>4, LocalNeat
    <2>5. CASE ~CombineFails(top, a)
      <3>. DEFINE r == Combine(top, a)
      <3>1. pc'[w] = "merge" /\ result'[w] = r /\ stack'[w] = t /\ Others(w)
        BY <1>1, <1>4, <1>6, <2>5 DEF MergeLevels, Goto, Others, t, top
      <3>2. /\ FitsLen(query, r.len, r.parts) /\ r.parts = top.parts \cup a.parts
            /\ r.level = top.level + 1 /\ r.count = top.count + a.count
        BY <1>2, <1>3, <2>1, <2>3, CombinedNeat, Zenon
      <3>. HIDE DEF r
      <3>3. r.count = Pow(r.level) /\ (t # <<>> => t[Len(t)].level >= r.level)
        <4>1. Pow(a.level + 1) = Pow(a.level) + Pow(a.level)
          BY <1>5, PowDoubles, Zenon
        <4>. QED
          BY <1>3, <1>6, <2>2, <3>2, <4>1
      <3>4. r.parts \cup PartsOf(t) = a.parts \cup PartsOf(s)
        BY <2>1, <3>2
      <3>5. Neat(query, "merge", r, t, rows[w], cols[w])
        BY <1>3, <2>2, <3>2, <3>3, <3>4, Zenon DEF Neat, LensFit
      <3>6. Neat(query, pc'[w], result'[w], stack'[w], rows'[w], cols'[w])
        BY <1>1, <3>1, <3>5
      <3>. QED
        BY <1>1, <3>1, <3>6, LocalNeat
    <2>. QED
      BY <2>4, <2>5
  <1>7. CASE ~(s # <<>> /\ top.level = a.level)
    <2>. DEFINE u == Append(s, a)
    <2>1. pc'[w] = "check" /\ result'[w] = NoResult /\ stack'[w] = u /\ Others(w)
      BY <1>4, <1>7 DEF MergeLevels, Goto, Others
    <2>2. s # <<>> => top.level > a.level
      <3>1. ASSUME s # <<>> PROVE top.level \in Nat
        <4>1. top \in G
          BY <1>2, <3>1, WithoutLast
        <4>. QED
          BY <1>2, <4>1, GoodFacts
      <3>. QED
        BY <1>3, <1>5, <1>7, <3>1
    <2>3. Falling(u) /\ LensFit(u)
      BY <1>2, <1>3, <2>2, FallingAppend
    <2>4. PartsOf(u) = PartsOf(s) \cup a.parts
      BY <1>2, AppendResult
    <2>. HIDE DEF u
    <2>5. Neat(query, "check", NoResult, u, rows[w], cols[w])
      <3>1. NoResult.parts = {} /\ NoResult.parts \cup PartsOf(u) = a.parts \cup PartsOf(s)
        BY <2>4 DEF NoResult, Result
      <3>2. FitsLen(query, NoResult.len, NoResult.parts)
        <4>1. Neat(query, "dead", NoResult, <<>>, 0, {})
          BY <1>2, NeatEmpty
        <4>. QED
          BY <4>1, Zenon DEF Neat
      <3>. QED
        BY <1>3, <2>3, <3>1, <3>2, Zenon DEF Neat, LensFit
    <2>6. Neat(query, pc'[w], result'[w], stack'[w], rows'[w], cols'[w])
      BY <1>1, <2>1, <2>5
    <2>. QED
      BY <1>1, <2>1, <2>6, LocalNeat
  <1>. QED
    BY <1>6, <1>7

\* CombineLocal: the results that are left have the same partitions.
LEMMA CombineNeat ==
  ASSUME Library, TaskInv, TaskNeat, query' = query, AnswerStep, NEW w \in Threads, CombineLocal(w)
  PROVE  TaskNeat'
  <1>. DEFINE G == Goods(query)
              a == result[w]
              s == stack[w]
              t == Tail(s)
  <1>1. /\ pc[w] = "combine" /\ UNCHANGED <<poisoned, partial, rowsCollected, colstacks, outcome, rows, cols>>
    BY DEF CombineLocal, stateVars
  <1>2. /\ query \in Queries /\ a \in G /\ s \in Seq(G) /\ Apart(s) /\ a.parts \cap PartsOf(s) = {}
    BY ThreadFacts DEF Fits
  <1>3. /\ a.parts \cup PartsOf(s) \subseteq cols[w] /\ FitsLen(query, a.len, a.parts) /\ LensFit(s)
        /\ rows[w] = Total(query, a.parts \cup PartsOf(s))
    BY <1>1, NeatThread, Zenon DEF Neat, Active, LensFit
  <1>4. /\ pc \in [Threads -> Labels] /\ result \in [Threads -> Results] /\ stack \in [Threads -> Seq(Results)]
    BY NeatThread
  <1>5. CASE s = <<>>
    <2>1. UNCHANGED <<result, stack, rows, cols>> /\ (Goto(w, "colstack") \/ Goto(w, "push"))
      BY <1>1, <1>5 DEF CombineLocal
    <2>2. Others(w) /\ Neat(query, pc'[w], result'[w], stack'[w], rows'[w], cols'[w])
      BY <1>1, <2>1, GoNeat DEF Loop, Active
    <2>. QED
      BY <1>1, <2>2, LocalNeat
  <1>6. CASE s # <<>>
    <2>1. /\ s[1] \in G /\ t \in Seq(G) /\ Apart(t)
          /\ PartsOf(s) = PartsOf(t) \cup s[1].parts /\ PartsOf(t) \cap s[1].parts = {}
      BY <1>2, <1>6, WithoutFirst
    <2>2. FitsLen(query, s[1].len, s[1].parts) /\ LensFit(t)
      <3>1. 1 \in DOMAIN s /\ \A i \in DOMAIN t : \E j \in DOMAIN s : t[i] = s[j]
        BY <1>2, <1>6, TailElements
      <3>. HIDE DEF s, t
      <3>. QED
        BY <1>3, <3>1, Zenon DEF LensFit
    <2>. HIDE DEF t
    <2>3. CASE a # NoResult /\ CombineFails(a, s[1])
      <3>1. pc'[w] = "fail_late" /\ result'[w] = a /\ stack'[w] = t /\ Others(w)
        BY <1>1, <1>4, <1>6, <2>3 DEF CombineLocal, Goto, Others, t
      <3>2. a.parts \cup PartsOf(t) \subseteq cols[w]
        BY <1>3, <2>1
      <3>3. Neat(query, "fail_late", a, t, rows[w], cols[w])
        BY <1>3, <2>2, <3>2, Zenon DEF Neat, Loop, Active, LensFit
      <3>4. Neat(query, pc'[w], result'[w], stack'[w], rows'[w], cols'[w])
        BY <1>1, <3>1, <3>3
      <3>. QED
        BY <1>1, <3>1, <3>4, LocalNeat
    <2>4. CASE ~(a # NoResult /\ CombineFails(a, s[1]))
      <3>. DEFINE r == IF a = NoResult THEN s[1] ELSE Combine(a, s[1])
      <3>1. pc'[w] = "combine" /\ result'[w] = r /\ stack'[w] = t /\ Others(w)
        BY <1>1, <1>4, <1>6, <2>4 DEF CombineLocal, Goto, Others, t
      <3>2. FitsLen(query, r.len, r.parts) /\ r.parts = a.parts \cup s[1].parts
        <4>1. CASE a = NoResult
          <5>1. a.parts = {}
            BY <4>1 DEF NoResult, Result
          <5>. QED
            BY <2>2, <4>1, <5>1
        <4>2. CASE a # NoResult
          <5>1. a.parts \cap s[1].parts = {}
            BY <1>2, <2>1
          <5>. QED
            BY <1>2, <1>3, <2>1, <2>2, <4>2, <5>1, CombinedNeat, Zenon
        <4>. QED
          BY <4>1, <4>2
      <3>. HIDE DEF r
      <3>3. r.parts \cup PartsOf(t) = a.parts \cup PartsOf(s)
        BY <2>1, <3>2
      <3>4. Neat(query, "combine", r, t, rows[w], cols[w])
        BY <1>3, <2>2, <3>2, <3>3, Zenon DEF Neat, Loop, LensFit
      <3>5. Neat(query, pc'[w], result'[w], stack'[w], rows'[w], cols'[w])
        BY <1>1, <3>1, <3>4
      <3>. QED
        BY <1>1, <3>1, <3>5, LocalNeat
    <2>. QED
      BY <2>3, <2>4
  <1>. QED
    BY <1>5, <1>6

-----------------------------------------------------------------------------
(* Steps on the shared state.                                                *)

\* PushColstack: the columns of the thread's results are kept in the shared state.
LEMMA ColstackNeat ==
  ASSUME Library, TaskInv, TaskNeat, query' = query, AnswerStep, NEW w \in Threads, PushColstack(w)
  PROVE  TaskNeat'
  <1>1. pc[w] = "colstack" /\ UNCHANGED <<poisoned, partial, rowsCollected, outcome>>
    BY DEF PushColstack, stateVars
  <1>2. Others(w) /\ Neat(query, pc'[w], result'[w], stack'[w], rows'[w], cols'[w])
    <2>1. CASE poisoned
      BY <2>1, UnwindNeat DEF PushColstack
    <2>2. CASE ~poisoned
      BY <2>2, GoNeat, Zenon DEF PushColstack, localVars, Loop, Active
    <2>. QED
      BY <2>1, <2>2
  <1>3. NeatThreads'
    BY <1>2, ThreadsNeat
  <1>4. ASSUME NEW p \in PartsOf(partial)
        PROVE  p \in colstacks' \/ \E v \in Threads : pc'[v] = "colstack" /\ p \in cols'[v]
    <2>1. ~poisoned
      BY <1>4, NoParts DEF TaskNeat, NeatShared
    <2>2. colstacks' = colstacks \cup cols[w]
      BY <2>1 DEF PushColstack
    <2>3. CASE p \in colstacks
      BY <2>2, <2>3
    <2>4. ASSUME NEW v \in Threads, pc[v] = "colstack", p \in cols[v]
          PROVE  p \in colstacks' \/ \E u \in Threads : pc'[u] = "colstack" /\ p \in cols'[u]
      <3>1. CASE v = w
        BY <2>2, <2>4, <3>1
      <3>2. CASE v # w
        BY <1>2, <2>4, <3>2 DEF Others
      <3>. QED
        BY <3>1, <3>2
    <2>. QED
      BY <2>3, <2>4 DEF TaskNeat, NeatShared
  <1>5. NeatShared'
    BY <1>1, <1>4 DEF TaskNeat, NeatShared, Pending
  <1>6. AnswerComplete' /\ AnswerSize'
    BY <1>1, AnswerKept DEF TaskNeat
  <1>. QED
    BY <1>3, <1>5, <1>6 DEF TaskNeat

\* The task is dropped, or not, and no thread that is about to push its columns moves.
LEMMA DropNeat ==
  ASSUME Library, TaskNeat, query' = query, AnswerStep, NEW last \in BOOLEAN, DropTask(last), NeatThreads',
         UNCHANGED <<poisoned, rowsCollected>>,
         \A v \in Threads : pc[v] = "colstack" => pc'[v] = "colstack" /\ cols'[v] = cols[v]
  PROVE  TaskNeat'
  <1>1. outcome' = outcome \/ outcome'.kind # "rows"
    BY DEF DropTask, Send, Canceled
  <1>2. AnswerComplete' /\ AnswerSize'
    BY <1>1, AnswerKept DEF TaskNeat
  <1>3. CASE last
    <2>1. partial' = <<>> /\ outcome' # Pending
      BY <1>3 DEF DropTask, Send, Canceled, Pending
    <2>2. DOMAIN partial' = {} /\ PartsOf(partial') = {}
      BY <2>1, NoParts
    <2>3. NeatShared'
      BY <2>1, <2>2 DEF NeatShared, Pending
    <2>. QED
      BY <1>2, <2>3 DEF TaskNeat
  <1>4. CASE ~last
    <2>1. UNCHANGED <<outcome, partial, colstacks>>
      BY <1>4 DEF DropTask
    <2>2. NeatShared'
      BY <2>1 DEF TaskNeat, NeatShared, Pending
    <2>. QED
      BY <1>2, <2>2 DEF TaskNeat
  <1>. QED
    BY <1>3, <1>4

\* Leave: the thread has nothing left.
LEMMA LeaveNeat ==
  ASSUME Library, TaskInv, TaskNeat, query' = query, AnswerStep, NEW w \in Threads, Leave(w)
  PROVE  TaskNeat'
  <1>1. /\ pc'[w] \in {"idle", "dead"} /\ result'[w] = NoResult /\ stack'[w] = <<>> /\ rows'[w] = 0
        /\ cols'[w] = {} /\ Others(w)
    BY NeatThread DEF Leave, Goto, Others
  <1>2. Neat(query, pc'[w], NoResult, <<>>, 0, {})
    BY <1>1, NeatThread, NeatEmpty
  <1>3. Neat(query, pc'[w], result'[w], stack'[w], rows'[w], cols'[w])
    BY <1>1, <1>2
  <1>4. NeatThreads'
    BY <1>1, <1>3, ThreadsNeat, Zenon
  <1>5. \A v \in Threads : pc[v] = "colstack" => pc'[v] = "colstack" /\ cols'[v] = cols[v]
    <2>1. pc[w] # "colstack"
      BY DEF Leave
    <2>. QED
      BY <1>1, <2>1 DEF Others
  <1>. QED
    BY <1>4, <1>5, DropNeat, Zenon DEF Leave

\* TakeTask: a thread enters the task, or the queue drops it.
LEMMA TakeNeat ==
  ASSUME Library, TaskInv, TaskNeat, query' = query, AnswerStep, NEW w \in Threads, TakeTask(w)
  PROVE  TaskNeat'
  <1>1. pc[w] = "idle" /\ UNCHANGED <<poisoned, rowsCollected>> /\ UNCHANGED <<result, stack, rows, cols>>
    BY DEF TakeTask, localVars
  <1>2. CASE TaskCompleted
    <2>1. pc' = pc /\ DropTask(Holders = {})
      BY <1>2 DEF TakeTask
    <2>2. NeatThreads'
      BY <1>1, <2>1 DEF TaskNeat, NeatThreads
    <2>. QED
      BY <1>1, <2>1, <2>2, DropNeat, Zenon
  <1>3. CASE ~TaskCompleted
    <2>1. Goto(w, "next") /\ DropTask(FALSE)
      BY <1>3, Zenon DEF TakeTask
    <2>2. Others(w) /\ Neat(query, pc'[w], result'[w], stack'[w], rows'[w], cols'[w])
      BY <1>1, <2>1, GoNeat, Zenon DEF Loop, Active
    <2>3. NeatThreads'
      BY <2>2, ThreadsNeat
    <2>4. \A v \in Threads : pc[v] = "colstack" => pc'[v] = "colstack" /\ cols'[v] = cols[v]
      BY <1>1, <2>2 DEF Others
    <2>. QED
      BY <1>1, <2>1, <2>3, <2>4, DropNeat, Zenon
  <1>. QED
    BY <1>2, <1>3

\* Recover: new threads have nothing yet.
LEMMA RecoverNeat ==
  ASSUME Library, TaskInv, TaskNeat, query' = query, AnswerStep, Recover
  PROVE  TaskNeat'
  <1>1. /\ UNCHANGED <<poisoned, rowsCollected>> /\ UNCHANGED <<result, stack, rows, cols>>
        /\ DropTask(queued /\ Holders = {})
        /\ \A v \in Threads : pc'[v] = IF pc[v] = "unborn" THEN "idle" ELSE pc[v]
    BY DEF Recover, localVars
  <1>2. NeatThreads'
    <2>. SUFFICES ASSUME NEW v \in Threads
                 PROVE  Neat(query, pc'[v], result[v], stack[v], rows[v], cols[v])
      BY <1>1 DEF NeatThreads
    <2>1. Neat(query, pc[v], result[v], stack[v], rows[v], cols[v])
      BY NeatThread
    <2>2. CASE pc[v] = "unborn"
      <3>1. pc'[v] = "idle"
        BY <1>1, <2>2
      <3>. QED
        BY <2>1, <2>2, <3>1, NeatLabel DEF Loop, Active
    <2>3. CASE pc[v] # "unborn"
      BY <1>1, <2>1, <2>3
    <2>. QED
      BY <2>2, <2>3
  <1>3. queued \in BOOLEAN
    BY DEF TaskInv, TypeOK
  <1>. QED
    BY <1>1, <1>2, <1>3, DropNeat, Zenon

\* The results in the shared state once thread w has pushed its own, and their rows.
LEMMA PushedNeat ==
  ASSUME Library, TaskInv, TaskNeat, NEW w \in Threads, pc[w] = "push"
  PROVE  LET results == Append(partial, result[w])
             collected == rowsCollected + rows[w]
         IN  /\ results \in Seq(Goods(query)) /\ results # <<>> /\ Apart(results) /\ LensFit(results)
             /\ PartsOf(results) = PartsOf(partial) \cup result[w].parts /\ PartsOf(results) \subseteq Pids
             /\ result[w].parts \subseteq cols[w]
             /\ outcome = Pending /\ ~poisoned => collected = Total(query, PartsOf(results)) /\ N > 0
  <1>. DEFINE results == Append(partial, result[w])
              collected == rowsCollected + rows[w]
              A == PartsOf(partial)
              B == result[w].parts
  <1>1. query \in Queries /\ result[w] \in Goods(query) /\ stack[w] = <<>> /\ Owned(w) = B
    BY ThreadFacts, NoParts, Zenon DEF TaskInv, ThreadResults, Fits
  <1>2. partial \in Seq(Goods(query)) /\ A \cap B = {} /\ A \subseteq Pids /\ B \subseteq Pids
    BY <1>1 DEF TaskInv, SharedResults, Ownership
  <1>3. /\ results \in Seq(Goods(query)) /\ Apart(results) /\ PartsOf(results) = A \cup B
        /\ PartsOf(results) \subseteq Pids
    BY <1>1, PushFacts DEF Pushed
  <1>4. results # <<>>
    BY <1>2
  <1>5. /\ B \subseteq cols[w] /\ FitsLen(query, result[w].len, B) /\ rows[w] = Total(query, B)
    <2>1. B \cup PartsOf(stack[w]) = B
      BY <1>1, NoParts
    <2>. QED
      BY <2>1, NeatThread, Zenon DEF Neat, Active
  <1>6. LensFit(results)
    <2>1. LensFit(partial)
      BY DEF TaskNeat, NeatShared, LensFit
    <2>2. \A i \in DOMAIN results : (i \in DOMAIN partial /\ results[i] = partial[i]) \/ results[i] = result[w]
      BY <1>1, <1>2, MoreElements
    <2>. HIDE DEF results
    <2>. QED
      BY <1>5, <2>1, <2>2, Zenon DEF LensFit
  <1>7. Total(query, A \cup B) = Total(query, A) + Total(query, B)
    <2>1. \A C, D : C \subseteq Pids /\ D \subseteq Pids /\ C \cap D = {} =>
            Total(query, C \cup D) = Total(query, C) + Total(query, D)
      BY <1>1, RowsAdd, Zenon DEF Pids, N
    <2>. QED
      BY <1>2, <2>1, Zenon
  <1>8. ASSUME outcome = Pending, ~poisoned PROVE collected = Total(query, PartsOf(results)) /\ N > 0
    <2>1. rowsCollected = Total(query, A) /\ completedBatches < N /\ completedBatches \in Nat
      BY <1>8 DEF TaskNeat, NeatShared, TaskInv, Counted, TypeOK
    <2>2. N \in Nat
      BY <1>1, QueryFacts
    <2>3. collected = Total(query, PartsOf(results))
      BY <1>3, <1>5, <1>7, <2>1, Zenon
    <2>. QED
      BY <2>1, <2>2, <2>3
  <1>. QED
    BY <1>3, <1>4, <1>5, <1>6, <1>8

\* The thread's result has been moved out of it.
LEMMA MovedNeat ==
  ASSUME Library, TaskInv, TaskNeat, NEW w \in Threads, pc[w] = "push", Goto(w, "colstack"), Moved(w)
  PROVE  /\ Others(w) /\ Neat(query, pc'[w], result'[w], stack'[w], rows'[w], cols'[w])
         /\ pc'[w] = "colstack" /\ cols'[w] = cols[w]
  <1>1. stack[w] = <<>>
    BY DEF TaskInv, ThreadResults
  <1>2. /\ pc'[w] = "colstack" /\ result'[w] = NoResult /\ stack'[w] = <<>> /\ cols'[w] = cols[w] /\ Others(w)
    BY <1>1, NeatThread DEF Goto, Moved, Others
  <1>3. Neat(query, "colstack", NoResult, <<>>, rows'[w], cols[w])
    BY NeatThread, NeatEmpty, Zenon DEF Loop, Active
  <1>. QED
    BY <1>2, <1>3

\* The answer that push_result sends has the right rows.
LEMMA SentNeat ==
  ASSUME Library, TaskInv, TaskNeat, query' = query, NEW w \in Threads, pc[w] = "push", ~poisoned,
         completedBatches + result[w].count = N \/ SufficientRows(rowsCollected + rows[w]),
         ~OutputPanics(LenOf(Append(partial, result[w]))),
         Send(Rows(PartsOf(Append(partial, result[w])), OutputLen(LenOf(Append(partial, result[w])))))
  PROVE  outcome' # Pending /\ AnswerComplete' /\ AnswerSize'
  <1>. DEFINE results == Append(partial, result[w])
              parts == PartsOf(results)
              len == LenOf(results)
  <1>1. CASE outcome # Pending
    <2>1. outcome' = outcome
      BY <1>1 DEF Send
    <2>. QED
      BY <1>1, <2>1, AnswerKept DEF TaskNeat
  <1>2. CASE outcome = Pending
    <2>1. /\ results \in Seq(Goods(query)) /\ results # <<>> /\ Apart(results) /\ LensFit(results)
          /\ parts \subseteq Pids /\ rowsCollected + rows[w] = Total(query, parts) /\ N > 0
      BY <1>2, PushedNeat
    <2>2. completedBatches + result[w].count = N => parts = Pids
      BY <1>2, PushFacts DEF Pushed
    <2>3. outcome' = Rows(parts, OutputLen(len)) /\ ~OutputPanics(len)
      BY <1>2 DEF Send
    <2>4. completedBatches + result[w].count = N \/ SufficientRows(rowsCollected + rows[w])
      OBVIOUS
    <2>. HIDE DEF results, parts, len
    <2>5. query \in Queries
      BY DEF TaskInv, TypeOK
    <2>6. FitsLen(query, len, parts) /\ len \in Nat
      <3>1. FitsLen(query, len, parts)
        BY <2>1, <2>5, LenOfFits DEF LensFit, parts, len
      <3>2. \A r \in Goods(query) : r.len \in Nat
        BY <2>5, GoodFacts
      <3>3. \A m, n \in Nat : CombinedLen(m, n) \in Nat
        BY <2>5, CombinedLenNat, Zenon
      <3>4. len \in Nat
        BY <2>1, <3>2, <3>3, LenOfNat, Zenon DEF len
      <3>. QED
        BY <3>1, <3>4
    <2>7. Offset \in Nat /\ CombinedLimit \in Nat
      BY <2>5, QueryFacts
    <2>8. Offset <= len
      BY <2>3, <2>6, <2>7 DEF OutputPanics
    <2>9. Total(query, parts) \in Nat
      BY <2>1, <2>5, RowsAdd, Zenon DEF Pids, N
    <2>10. parts = Pids \/ (Kind = "select" /\ Total(query, parts) > CombinedLimit)
      BY <2>1, <2>2, <2>4, <2>7, <2>9 DEF SufficientRows
    <2>11. OutputLen(len) = Least(Limit, FullLen - Offset)
      BY <2>1, <2>5, <2>6, <2>8, <2>10, OutputFits, Zenon
    <2>12. /\ N' = N /\ Pids' = Pids /\ Kind' = Kind /\ Limit' = Limit /\ Offset' = Offset
           /\ CombinedLimit' = CombinedLimit /\ RowsOf' = RowsOf
      BY SameQuery DEF Kind, Limit, Offset, CombinedLimit, RowsOf
    <2>13. FullLen' = FullLen
      BY <2>12 DEF FullLen, TotalRows, RowsIn
    <2>14. outcome'.kind = "rows" /\ outcome'.parts = parts /\ outcome'.len = OutputLen(len)
      BY <2>3 DEF Rows
    <2>15. TotalRows(outcome.parts)' = Total(query, parts)
      BY <2>12, <2>14 DEF TotalRows, RowsIn, Total, RowSet, RowsOf
    <2>16. AnswerComplete'
      BY <2>10, <2>12, <2>14, <2>15 DEF AnswerComplete
    <2>17. AnswerSize'
      BY <2>11, <2>12, <2>13, <2>14 DEF AnswerSize, Least
    <2>. QED
      BY <2>14, <2>16, <2>17 DEF Pending
  <1>. QED
    BY <1>1, <1>2

\* PushResult keeps the rows counted, and the answer it sends has the right rows.
LEMMA PushNeat ==
  ASSUME Library, TaskInv, TaskNeat, query' = query, AnswerStep, NEW w \in Threads, PushResult(w)
  PROVE  TaskNeat'
  <1>. DEFINE results == Append(partial, result[w])
              collected == rowsCollected + rows[w]
  <1>1. pc[w] = "push" /\ UNCHANGED colstacks
    BY DEF PushResult
  <1>2. CASE poisoned
    BY <1>1, <1>2, UnwindNeat, LocalNeat, Zenon DEF PushResult, stateVars
  <1>3. CASE ~poisoned /\ completed
    <2>1. /\ Goto(w, "colstack") /\ Moved(w) /\ UNCHANGED <<poisoned, partial, rowsCollected, outcome>>
      BY <1>3 DEF PushResult, stateVars
    <2>. QED
      BY <1>1, <2>1, MovedNeat, LocalNeat, Zenon
  <1>4. CASE /\ ~poisoned /\ partial' = results /\ rowsCollected' = collected
             /\ Goto(w, "colstack") /\ Moved(w) /\ UNCHANGED <<outcome, poisoned>>
    <2>1. /\ Others(w) /\ Neat(query, pc'[w], result'[w], stack'[w], rows'[w], cols'[w])
          /\ pc'[w] = "colstack" /\ cols'[w] = cols[w]
      BY <1>1, <1>4, MovedNeat
    <2>2. /\ LensFit(results) /\ PartsOf(results) = PartsOf(partial) \cup result[w].parts
          /\ result[w].parts \subseteq cols[w]
          /\ outcome = Pending => collected = Total(query, PartsOf(results))
      BY <1>1, <1>4, PushedNeat
    <2>. HIDE DEF results, collected
    <2>3. NeatThreads'
      BY <2>1, ThreadsNeat
    <2>4. ASSUME NEW p \in PartsOf(results)
          PROVE  p \in colstacks \/ \E v \in Threads : pc'[v] = "colstack" /\ p \in cols'[v]
      <3>1. CASE p \in result[w].parts
        BY <2>1, <2>2, <3>1
      <3>2. CASE p \in PartsOf(partial) /\ p \notin colstacks
        <4>1. PICK v \in Threads : pc[v] = "colstack" /\ p \in cols[v]
          BY <3>2 DEF TaskNeat, NeatShared
        <4>2. pc'[v] = "colstack" /\ cols'[v] = cols[v]
          BY <1>1, <2>1, <4>1 DEF Others
        <4>. QED
          BY <4>1, <4>2
      <3>. QED
        BY <2>2, <2>4, <3>1, <3>2
    <2>5. NeatShared'
      BY <1>1, <1>4, <2>2, <2>4, Zenon DEF NeatShared, LensFit, Pending
    <2>6. AnswerComplete' /\ AnswerSize'
      BY <1>4, AnswerKept DEF TaskNeat
    <2>. QED
      BY <2>3, <2>5, <2>6 DEF TaskNeat
  <1>5. CASE /\ ~poisoned /\ ~completed /\ partial' = <<>> /\ Complete(w, results)
             /\ completedBatches + result[w].count = N \/ SufficientRows(collected)
    <2>1. Others(w) /\ Neat(query, pc'[w], result'[w], stack'[w], rows'[w], cols'[w])
      BY <1>1, <1>5, UnwindNeat, MovedNeat DEF Complete
    <2>2. NeatThreads'
      BY <2>1, ThreadsNeat
    <2>3. (poisoned' \/ outcome' # Pending) /\ AnswerComplete' /\ AnswerSize'
      <3>1. CASE FailWithNoLock
        <4>1. outcome' # Pending /\ (outcome' = outcome \/ outcome'.kind # "rows")
          BY <3>1 DEF FailWithNoLock, Send, Error, Pending
        <4>. QED
          BY <4>1, AnswerKept DEF TaskNeat
      <3>2. CASE poisoned' = TRUE /\ UNCHANGED outcome
        BY <3>2, AnswerKept DEF TaskNeat
      <3>3. CASE ~OutputPanics(LenOf(results)) /\ Send(Rows(PartsOf(results), OutputLen(LenOf(results))))
        BY <1>1, <1>5, <3>3, SentNeat
      <3>. QED
        BY <1>5, <3>1, <3>2, <3>3, Zenon DEF Complete
    <2>4. DOMAIN partial' = {} /\ PartsOf(partial') = {}
      BY <1>5, NoParts
    <2>5. NeatShared'
      BY <1>5, <2>3, <2>4 DEF NeatShared, Pending
    <2>. QED
      BY <2>2, <2>3, <2>5 DEF TaskNeat
  <1>. QED
    BY <1>2, <1>3, <1>4, <1>5 DEF PushResult

-----------------------------------------------------------------------------
(* The invariant.                                                            *)

\* The invariant holds at first.
LEMMA TaskNeatInit ==
  ASSUME Library, Init
  PROVE  TaskNeat
  <1>1. /\ query \in Queries /\ partial = <<>> /\ rowsCollected = 0 /\ poisoned = FALSE
        /\ outcome = IF N = 0 THEN Rows({}, 0) ELSE Pending
    BY DEF Init
  <1>2. NeatThreads
    <2>. SUFFICES ASSUME NEW w \in Threads
                 PROVE  Neat(query, pc[w], result[w], stack[w], rows[w], cols[w])
      BY DEF NeatThreads
    <2>1. /\ pc[w] \in {"idle", "unborn"} /\ result[w] = NoResult /\ stack[w] = <<>> /\ rows[w] = 0 /\ cols[w] = {}
      BY DEF Init
    <2>2. Neat(query, pc[w], NoResult, <<>>, 0, {})
      BY <1>1, <2>1, NeatEmpty
    <2>. QED
      BY <2>1, <2>2
  <1>3. NeatShared
    <2>1. DOMAIN partial = {} /\ PartsOf(partial) = {} /\ Total(query, {}) = 0
      BY <1>1, NoParts, RowsAdd
    <2>. QED
      BY <1>1, <2>1 DEF NeatShared
  <1>4. AnswerComplete /\ AnswerSize
    <2>1. N \in Nat /\ Pids = 0..(N - 1)
      BY <1>1, QueryFacts
    <2>2. CASE N = 0
      <3>1. Pids = {} /\ ~(N > 0)
        BY <2>1, <2>2
      <3>2. outcome.parts = {}
        BY <1>1, <2>2 DEF Rows
      <3>. QED
        BY <3>1, <3>2 DEF AnswerComplete, AnswerSize
    <2>3. CASE N # 0
      BY <1>1, <2>3 DEF Pending, AnswerComplete, AnswerSize
    <2>. QED
      BY <2>2, <2>3
  <1>. QED
    BY <1>2, <1>3, <1>4 DEF TaskNeat

\* Every step preserves it.
LEMMA TaskNeatNext ==
  ASSUME Library, TaskInv, TaskNeat, [Next]_vars
  PROVE  TaskNeat'
  <1>1. AnswerStep /\ query' = query
    BY TaskInvNext
  <1>2. CASE Next
    <2>1. CASE Recover
      BY <1>1, <2>1, RecoverNeat
    <2>2. ASSUME NEW w \in Threads, TakeTask(w) \/ Run(w)
          PROVE  TaskNeat'
      <3>1. CASE TakeTask(w)
        BY <1>1, <3>1, TakeNeat
      <3>2. CASE NextPartition(w) \/ CheckCompleted(w) \/ FailWith(w)
        BY <1>1, <3>2, PlainNeat
      <3>3. CASE ExecutePartition(w)
        BY <1>1, <3>3, ExecuteNeat
      <3>4. CASE MergeLevels(w)
        BY <1>1, <3>4, MergeNeat
      <3>5. CASE CombineLocal(w)
        BY <1>1, <3>5, CombineNeat
      <3>6. CASE PushResult(w)
        BY <1>1, <3>6, PushNeat
      <3>7. CASE PushColstack(w)
        BY <1>1, <3>7, ColstackNeat
      <3>8. CASE Leave(w)
        BY <1>1, <3>8, LeaveNeat
      <3>. QED
        BY <2>2, <3>1, <3>2, <3>3, <3>4, <3>5, <3>6, <3>7, <3>8 DEF Run
    <2>. QED
      BY <1>2, <2>1, <2>2 DEF Next
  <1>3. CASE UNCHANGED vars
    <2>1. UNCHANGED <<poisoned, partial, rowsCollected, colstacks, outcome, pc, result, stack, rows, cols>>
      BY <1>3 DEF vars, stateVars, localVars
    <2>2. NeatThreads' /\ NeatShared'
      BY <1>1, <2>1, Zenon DEF TaskNeat, NeatThreads, NeatShared, Pending
    <2>. QED
      BY <1>1, <2>1, <2>2, AnswerKept DEF TaskNeat
  <1>. QED
    BY <1>2, <1>3

=============================================================================
