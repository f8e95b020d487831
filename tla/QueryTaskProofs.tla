-------------------------- MODULE QueryTaskProofs ----------------------------
(***************************************************************************)
(* The theorems about QueryTask, and the facts about natural numbers and    *)
(* finite sets they rest on.                                                *)
(***************************************************************************)
EXTENDS QueryTaskRows, FiniteSetTheorems, WellFoundedInduction

\* Rows are counted by adding up those of disjoint sets of partitions.
LEMMA RowsCounted ==
  ASSUME NEW q \in Queries
  PROVE  /\ \A A : A \subseteq 0..(q.n - 1) => Total(q, A) \in Nat
         /\ \A A, B : A \subseteq 0..(q.n - 1) /\ B \subseteq 0..(q.n - 1) /\ A \cap B = {} =>
              Total(q, A \cup B) = Total(q, A) + Total(q, B)
         /\ Total(q, {}) = 0
         /\ \A p \in 0..(q.n - 1) : Total(q, {p}) = q.rowsOf[p]
  <1>. DEFINE P == 0..(q.n - 1)
              Of(p) == {p} \X (1..q.rowsOf[p])
  <1>1. q.n \in Nat /\ q.rowsOf \in [P -> Nat]
    BY QueriesAssumption
  <1>2. ASSUME NEW p \in P PROVE IsFiniteSet(Of(p)) /\ Cardinality(Of(p)) = q.rowsOf[p]
    <2>1. q.rowsOf[p] \in Nat
      BY <1>1
    <2>2. IsFiniteSet(1..q.rowsOf[p]) /\ Cardinality(1..q.rowsOf[p]) = q.rowsOf[p]
      <3>1. \A n \in Nat : IsFiniteSet(1..n) /\ Cardinality(1..n) = n
        BY FS_Interval
      <3>. QED
        BY <2>1, <3>1, Zenon
    <2>3. IsFiniteSet({p}) /\ Cardinality({p}) = 1
      BY FS_Singleton, Zenon
    <2>. QED
      BY <2>1, <2>2, <2>3, FS_Product
  <1>3. ASSUME NEW A, A \subseteq P PROVE IsFiniteSet(RowSet(q, A)) /\ Cardinality(RowSet(q, A)) \in Nat
    <2>. DEFINE T == {Of(p) : p \in A}
                f == [p \in A |-> Of(p)]
    <2>1. IsFiniteSet(P)
      BY <1>1, FS_Interval
    <2>2. IsFiniteSet(A)
      BY <1>3, <2>1, FS_Subset, Zenon
    <2>3. f \in Surjection(A, T)
      BY Zenon DEF Surjection
    <2>4. \A t \in T : IsFiniteSet(t)
      BY <1>2, <1>3
    <2>. HIDE DEF f, Of
    <2>5. IsFiniteSet(T)
      BY <2>2, <2>3, FS_Surjection
    <2>6. IsFiniteSet(UNION T)
      BY <2>4, <2>5, FS_UNION, Zenon
    <2>7. RowSet(q, A) = UNION T
      BY DEF RowSet, Of
    <2>. QED
      BY <2>6, <2>7, FS_CardinalityType
  <1>4. ASSUME NEW A, NEW B, A \subseteq P, B \subseteq P, A \cap B = {}
        PROVE  Total(q, A \cup B) = Total(q, A) + Total(q, B)
    <2>1. RowSet(q, A \cup B) = RowSet(q, A) \cup RowSet(q, B)
      BY Zenon DEF RowSet
    <2>2. RowSet(q, A) \cap RowSet(q, B) = {}
      BY <1>4 DEF RowSet
    <2>3. /\ IsFiniteSet(RowSet(q, A)) /\ Cardinality(RowSet(q, A)) \in Nat
          /\ IsFiniteSet(RowSet(q, B)) /\ Cardinality(RowSet(q, B)) \in Nat
      BY <1>3, <1>4, Zenon
    <2>4. Cardinality(RowSet(q, A) \cap RowSet(q, B)) = 0
      BY <2>2, FS_EmptySet
    <2>5. Cardinality(RowSet(q, A) \cup RowSet(q, B))
            = Cardinality(RowSet(q, A)) + Cardinality(RowSet(q, B)) - Cardinality(RowSet(q, A) \cap RowSet(q, B))
      BY <2>3, FS_Union, Zenon
    <2>6. \A a, b \in Nat : a + b - 0 = a + b
      OBVIOUS
    <2>. QED
      BY <2>1, <2>3, <2>4, <2>5, <2>6, Zenon DEF Total
  <1>5. Total(q, {}) = 0
    <2>1. RowSet(q, {}) = {}
      BY DEF RowSet
    <2>. QED
      BY <2>1, FS_EmptySet DEF Total
  <1>6. ASSUME NEW p \in P PROVE Total(q, {p}) = q.rowsOf[p]
    <2>1. RowSet(q, {p}) = Of(p)
      BY DEF RowSet
    <2>. QED
      BY <1>2, <2>1 DEF Total
  <1>. QED
    BY <1>3, <1>4, <1>5, <1>6, Zenon DEF Total

\* A set with one more element has twice as many subsets.
LEMMA PowersDouble ==
  /\ Pow(0) = 1
  /\ \A k \in Nat : Pow(k) \in Nat /\ Pow(k + 1) = Pow(k) + Pow(k)
  <1>1. ASSUME NEW k \in Nat
        PROVE  IsFiniteSet(SUBSET (1..k)) /\ Cardinality(SUBSET (1..k)) = Pow(k) /\ Pow(k) \in Nat
    <2>1. IsFiniteSet(1..k) /\ Cardinality(1..k) = k
      BY FS_Interval
    <2>2. IsFiniteSet(SUBSET (1..k)) /\ Cardinality(SUBSET (1..k)) = 2^Cardinality(1..k)
      BY <2>1, FS_SUBSET, Zenon
    <2>3. Cardinality(SUBSET (1..k)) \in Nat
      BY <2>2, FS_CardinalityType
    <2>. QED
      BY <2>1, <2>2, <2>3, Zenon DEF Pow
  <1>2. Pow(0) = 1
    <2>1. SUBSET (1..0) = {{}}
      BY 1..0 = {}
    <2>2. Cardinality({{}}) = 1
      BY FS_Singleton, Zenon
    <2>. QED
      BY <1>1, <2>1, <2>2
  <1>3. ASSUME NEW k \in Nat PROVE Pow(k + 1) = Pow(k) + Pow(k)
    <2>. DEFINE A == SUBSET (1..k)
                B == {T \cup {k + 1} : T \in A}
                f == [T \in A |-> T \cup {k + 1}]
    <2>1. k + 1 \in Nat /\ k + 1 \notin 1..k /\ 1..(k + 1) = (1..k) \cup {k + 1}
      OBVIOUS
    <2>2. SUBSET (1..(k + 1)) = A \cup B
      <3>1. ASSUME NEW T, T \subseteq (1..k) \cup {k + 1} PROVE T \in A \cup B
        <4>1. CASE k + 1 \in T
          <5>1. T \ {k + 1} \in A /\ T = (T \ {k + 1}) \cup {k + 1}
            BY <3>1, <4>1
          <5>. QED
            BY <5>1, Zenon
        <4>2. CASE k + 1 \notin T
          BY <3>1, <4>2
        <4>. QED
          BY <4>1, <4>2
      <3>2. SUBSET ((1..k) \cup {k + 1}) \subseteq A \cup B
        BY <3>1, Zenon
      <3>3. A \cup B \subseteq SUBSET ((1..k) \cup {k + 1})
        BY Zenon
      <3>. QED
        BY <2>1, <3>2, <3>3, Zenon
    <2>3. A \cap B = {}
      BY <2>1
    <2>4. f \in Bijection(A, B)
      <3>1. f \in [A -> B] /\ \A T \in B : \E U \in A : f[U] = T
        OBVIOUS
      <3>2. ASSUME NEW T \in A, NEW U \in A, f[T] = f[U] PROVE T = U
        <4>1. T \cup {k + 1} = U \cup {k + 1}
          BY <3>2
        <4>. QED
          BY <2>1, <4>1
      <3>. QED
        BY <3>1, <3>2, Zenon DEF Bijection, Injection, Surjection, IsInjective
    <2>5. IsFiniteSet(A) /\ Cardinality(A) = Pow(k) /\ Pow(k) \in Nat
      BY <1>1
    <2>. HIDE DEF A, B, f
    <2>6. IsFiniteSet(B) /\ Cardinality(B) = Cardinality(A)
      BY <2>4, <2>5, FS_Bijection, Zenon DEF ExistsBijection
    <2>7. Cardinality(A \cup B) = Cardinality(A) + Cardinality(B)
      BY <2>3, <2>5, <2>6, FS_Union, FS_EmptySet
    <2>8. Cardinality(SUBSET (1..(k + 1))) = Pow(k + 1)
      BY <1>1, <2>1, Zenon
    <2>. QED
      BY <2>2, <2>5, <2>6, <2>7, <2>8
  <1>. QED
    BY <1>1, <1>2, <1>3, Zenon

\* The facts the lemmas assume follow from the library's theorems.
LEMMA LibraryHolds == Library
  <1>1. ASSUME NEW n \in Nat, NEW S, ~(1..n \subseteq S)
        PROVE  \E k \in 1..n : k \notin S /\ \A j \in 1..(k - 1) : j \in S
    <2>. DEFINE T == {k \in 1..n : k \notin S}
    <2>1. T \subseteq Nat /\ T # {}
      BY <1>1
    <2>2. PICK k \in T : \A j \in T : ~(<<j, k>> \in OpToRel(<, Nat))
      <3>. HIDE DEF T
      <3>. QED
        BY <2>1, NatLessThanWellFounded, WFMin, Zenon
    <2>3. ASSUME NEW j \in 1..(k - 1), j \notin S PROVE FALSE
      <3>1. j \in T /\ j \in Nat /\ k \in Nat /\ j < k
        BY <2>3
      <3>2. <<j, k>> \in OpToRel(<, Nat)
        BY <3>1 DEF OpToRel
      <3>. QED
        BY <2>2, <3>1, <3>2, Zenon
    <2>. QED
      BY <2>3
  <1>2. Cardinality({}) = 0 /\ \A x : Cardinality({x}) = 1
    BY FS_EmptySet, FS_Singleton
  <1>3. ASSUME NEW n \in Nat, NEW A, A \subseteq 0..(n - 1)
        PROVE  /\ IsFiniteSet(A) /\ Cardinality(A) \in Nat /\ Cardinality(A) <= n
               /\ Cardinality(A) = n <=> A = 0..(n - 1)
    <2>1. IsFiniteSet(0..(n - 1)) /\ Cardinality(0..(n - 1)) = n
      BY FS_Interval
    <2>2. /\ IsFiniteSet(A) /\ Cardinality(A) <= n
          /\ n = Cardinality(A) => 0..(n - 1) = A
      BY <1>3, <2>1, FS_Subset, Zenon
    <2>3. Cardinality(A) \in Nat
      BY <2>2, FS_CardinalityType
    <2>. QED
      BY <2>1, <2>2, <2>3
  <1>4. ASSUME NEW n \in Nat, NEW A, NEW B,
               A \subseteq 0..(n - 1) /\ B \subseteq 0..(n - 1) /\ A \cap B = {}
        PROVE  Cardinality(A \cup B) = Cardinality(A) + Cardinality(B)
    <2>1. IsFiniteSet(A) /\ IsFiniteSet(B) /\ Cardinality(A) \in Nat /\ Cardinality(B) \in Nat
      BY <1>3, <1>4, Zenon
    <2>2. Cardinality(A \cup B) = Cardinality(A) + Cardinality(B) - Cardinality(A \cap B)
      BY <2>1, FS_Union
    <2>3. Cardinality(A \cap B) = 0
      BY <1>2, <1>4, Zenon
    <2>. QED
      BY <2>1, <2>2, <2>3
  <1>5. FirstNumber
    BY <1>1, Zenon DEF FirstNumber
  <1>6. IntervalCounts
    BY <1>3, Zenon DEF IntervalCounts
  <1>7. UnionCounts
    BY <1>4, Zenon DEF UnionCounts
  <1>8. RowCounts
    BY RowsCounted, Zenon DEF RowCounts
  <1>9. Powers
    BY PowersDouble DEF Powers
  <1>. QED
    BY <1>2, <1>5, <1>6, <1>7, <1>8, <1>9, Zenon DEF Library, SmallCounts

-----------------------------------------------------------------------------
(* The theorems.                                                             *)

\* The two invariants hold in every state of every behaviour.
LEMMA TaskRight == Spec => [](TaskInv /\ TaskNeat)
  <1>1. Init => TaskInv /\ TaskNeat
    BY LibraryHolds, TaskInvInit, TaskNeatInit
  <1>2. TaskInv /\ TaskNeat /\ [Next]_vars => (TaskInv /\ TaskNeat)'
    BY LibraryHolds, TaskInvNext, TaskNeatNext
  <1>. QED
    BY <1>1, <1>2, PTL DEF Spec

\* Every variable of a query task has its type (query_task.rs), for any number of threads,
\* partitions and rows.
THEOREM TaskTypeCorrect == Spec => []TypeOK
  <1>1. TaskInv /\ TaskNeat => TypeOK
    BY DEF TaskInv
  <1>. QED
    BY <1>1, TaskRight, PTL

\* No partition is counted twice, however the threads interleave (next_partition's
\* fetch_add, the merging of run() and push_result).
THEOREM PartitionsCountedOnce == Spec => []EachPartitionOnce
  <1>1. TaskInv /\ TaskNeat => EachPartitionOnce
    BY DEF TaskInv, Ownership, Owned, Counted, EachPartitionOnce
  <1>. QED
    BY <1>1, TaskRight, PTL

\* The sender is dropped unused only after a panic or recover() (await_task and worker_loop
\* drop the task, SharedSender).
THEOREM DroppedOnlyByPanic == Spec => []CanceledOnlyByPanic
  <1>1. TaskInv /\ TaskNeat => CanceledOnlyByPanic
    BY DEF TaskInv, Causes, CanceledOnlyByPanic, Calm
  <1>. QED
    BY <1>1, TaskRight, PTL

\* An answer with rows is made from the whole snapshot, or the query may stop early and the
\* partitions it is made from have more than LIMIT plus OFFSET rows (push_result).
THEOREM AnswerFromSnapshot == Spec => []AnswerComplete
  <1>1. TaskInv /\ TaskNeat => AnswerComplete
    BY DEF TaskNeat
  <1>. QED
    BY <1>1, TaskRight, PTL

\* The answer has the rows that LIMIT and OFFSET select from the whole table, wherever the
\* threads have cut their partial results off (combine, sufficient_rows and
\* convert_to_output_format).
THEOREM AnswerNotCut == Spec => []AnswerSize
  <1>1. TaskInv /\ TaskNeat => AnswerSize
    BY DEF TaskNeat
  <1>. QED
    BY <1>1, TaskRight, PTL

\* No pushed result refers to columns that have been freed (push_result, push_colstack).
THEOREM ResultsKeptAlive == Spec => []ReferencedAlive
  <1>1. TaskNeat => ReferencedAlive
    <2>. SUFFICES ASSUME TaskNeat, NEW p \in PartsOf(partial), p \notin colstacks
                 PROVE  \E w \in Threads : p \in cols[w]
      BY DEF ReferencedAlive
    <2>. QED
      BY DEF TaskNeat, NeatShared
  <1>. QED
    BY <1>1, TaskRight, PTL

\* Levels fall strictly along a thread's stack, and a result of level k is made of 2^k
\* partitions (the merge loop of run()).
THEOREM MergesStayBalanced == Spec => []MergesBalanced
  <1>1. TaskNeat => MergesBalanced
    <2>. SUFFICES ASSUME TaskNeat, NEW w \in Threads, pc[w] \in {"next", "execute", "merge", "check"}
                 PROVE  /\ \A i, j \in DOMAIN stack[w] : i < j => stack[w][i].level > stack[w][j].level
                        /\ \A i \in DOMAIN stack[w] : stack[w][i].count = 2^stack[w][i].level
      BY DEF MergesBalanced
    <2>1. Falling(stack[w])
      BY Zenon DEF TaskNeat, NeatThreads, Neat, Loop
    <2>. QED
      BY <2>1 DEF Falling, Pow
  <1>. QED
    BY <1>1, TaskRight, PTL

\* The task implements what run_query promises its caller (QueryAnswer): the initial state
\* maps to an initial state, and every step answers the query or maps to a stutter.
THEOREM TaskKeepsPromise == Spec => Promise
  <1>. DEFINE terms == [parts |-> Pids, earlyStop |-> Kind = "select", clashes |-> Clashes,
                        fallible |-> Failing # {} \/ Clashes # {},
                        cancelable |-> Panicking # {} \/ FinalPanics \/ Offset > 0 \/ Spare # {}]
              answer == [kind |-> outcome.kind, parts |-> outcome.parts]
  <1>1. Init => Answer!AnswerInit
    <2>. SUFFICES ASSUME Init PROVE Answer!AnswerInit
      OBVIOUS
    <2>1. query \in Queries /\ outcome = (IF N = 0 THEN Rows({}, 0) ELSE Pending)
      BY DEF Init
    <2>2. N \in Nat /\ Pids = 0..(N - 1)
      BY <2>1, LibraryHolds, QueryFacts
    <2>3. Pids = {} <=> N = 0
      BY <2>2
    <2>. QED
      BY <2>1, <2>3 DEF Answer!AnswerInit, Answer!Unanswered, Rows, Pending
  <1>2. TaskInv /\ [Next]_vars => [Answer!AnswerOnce]_<<terms, answer>>
    <2>. SUFFICES ASSUME TaskInv, [Next]_vars PROVE Answer!AnswerOnce \/ UNCHANGED <<terms, answer>>
      OBVIOUS
    <2>1. AnswerStep /\ query' = query
      BY LibraryHolds, TaskInvNext
    <2>2. terms' = terms
      BY <2>1, SameQuery DEF Kind, Failing, Panicking, FinalPanics, Offset
    <2>3. CASE outcome' = outcome
      BY <2>2, <2>3
    <2>4. CASE outcome' # outcome
      <3>1. outcome = Pending /\ answer = Answer!Unanswered
        BY <2>1, <2>4 DEF AnswerStep, Pending, Answer!Unanswered
      <3>2. answer' \in Answer!Answers
        <4>1. CASE outcome'.kind = "rows" /\ outcome'.parts \subseteq Pids
                   /\ (Kind = "select" \/ outcome'.parts = Pids)
                   /\ \A c \in Clashes : ~(c \subseteq outcome'.parts)
          <5>1. outcome'.parts \in Answer!Sources
            BY <4>1, Zenon DEF Answer!Sources
          <5>2. answer' = [kind |-> "rows", parts |-> outcome'.parts]
            BY <4>1
          <5>. QED
            BY <5>1, <5>2 DEF Answer!Answers
        <4>2. CASE outcome' = Error /\ Fallible
          <5>1. answer' = [kind |-> "error", parts |-> {}]
            BY <4>2 DEF Error
          <5>. QED
            BY <4>2, <5>1, Zenon DEF Answer!Answers, Fallible
        <4>3. CASE outcome' = Canceled /\ Cancelable
          <5>1. answer' = [kind |-> "canceled", parts |-> {}]
            BY <4>3 DEF Canceled
          <5>. QED
            BY <4>3, <5>1, Zenon DEF Answer!Answers, Cancelable
        <4>. QED
          BY <2>1, <2>4, <4>1, <4>2, <4>3 DEF AnswerStep
      <3>. QED
        BY <2>2, <3>1, <3>2 DEF Answer!AnswerOnce
    <2>. QED
      BY <2>3, <2>4
  <1>. QED
    BY <1>1, <1>2, TaskRight, PTL DEF Spec, Promise, Answer!AnswerSpec

=============================================================================
