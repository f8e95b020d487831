-------------------------- MODULE QueryTaskSteps -----------------------------
(***************************************************************************)
(* The inductive invariant of QueryTask, and the proof that the steps a     *)
(* thread takes on its own preserve it: claiming, executing, merging and    *)
(* combining partitions, pushing columns, and panicking.                    *)
(*                                                                          *)
(* A claimed partition is with one thread or in the shared state, and       *)
(* completed_batches counts the shared ones, so that the count reaches N    *)
(* exactly when every partition is there.  Conversely, while nothing has    *)
(* failed, a claimed partition that is not shared is with a thread that is  *)
(* going to push it: the last reference to the task is dropped only when    *)
(* the answer has been sent.                                                *)
(***************************************************************************)
EXTENDS QueryTask, TLAPS

\* What is true of every result: it counts its partitions, and no two of them clash.
Goods(q) ==
  {r \in [parts : SUBSET (0..(q.n - 1)), level : Nat, len : Nat, count : Nat] :
     r.count = Cardinality(r.parts) /\ \A c \in q.clashes : ~(c \subseteq r.parts)}

\* No two results of a sequence share a partition.
Apart(s) == \A i, j \in DOMAIN s : i # j => s[i].parts \cap s[j].parts = {}

\* A thread's results, and the partition it executes, are disjoint.
ThreadResults ==
  \A w \in Threads :
    /\ result[w] \in Goods(query) /\ stack[w] \in Seq(Goods(query)) /\ Apart(stack[w])
    /\ result[w].parts \cap PartsOf(stack[w]) = {}
    /\ pc[w] \in {"unborn", "idle", "next", "execute", "check"} => result[w] = NoResult
    /\ pc[w] = "push" => stack[w] = <<>>
    /\ pc[w] = "execute" => idx[w] \in Pids /\ idx[w] \notin Held(w)

SharedResults == partial \in Seq(Goods(query)) /\ Apart(partial)

\* A claimed partition is with one thread or in the shared state.
Owned(w) == Claimed(w) \cup Held(w)
Ownership ==
  /\ \A v, w \in Threads : v # w => Owned(v) \cap Owned(w) = {}
  /\ \A w \in Threads : Owned(w) \cap PartsOf(partial) = {}
  /\ \A w \in Threads : \A p \in Owned(w) : p \in Pids /\ p < batchIndex
  /\ \A p \in PartsOf(partial) : p \in Pids /\ p < batchIndex

\* completed_batches counts the shared partitions, until the query is complete.
Counted ==
  outcome = Pending /\ ~poisoned => completedBatches = Cardinality(PartsOf(partial)) /\ completedBatches < N

\* No thread has panicked, and recover() has not been called.
Calm == (\A w \in Threads : pc[w] \notin {"unwind", "dead"}) /\ \A w \in Spare : pc[w] = "unborn"

\* While the query is unanswered and nothing has failed, a claimed partition is in the
\* shared state, or with a thread that is going to push it.
Active == {"next", "execute", "merge", "check", "combine", "push"}
Failed == \E w \in Threads : pc[w] \in {"fail", "fail_late"}
Covered ==
  Calm /\ outcome = Pending /\ ~Failed =>
    \A p \in Pids : p < batchIndex =>
      p \in PartsOf(partial) \/ \E w \in Threads : pc[w] \in Active /\ p \in Owned(w)

\* What can cancel a query, and what can fail.
Cancelable == Panicking # {} \/ FinalPanics \/ Offset > 0 \/ Spare # {}
Fallible == Failing # {} \/ Clashes # {}
Causes ==
  /\ completed => outcome # Pending
  /\ poisoned => ~Calm
  /\ ~Calm => Cancelable
  /\ Failed => Fallible
  /\ ~queued /\ Calm => TaskCompleted
  /\ outcome # Pending => outcome.kind # "pending"
  /\ outcome = Canceled => ~Calm

\* The inductive invariant.
TaskInv == TypeOK /\ ThreadResults /\ SharedResults /\ Ownership /\ Counted /\ Covered /\ Causes

-----------------------------------------------------------------------------
(* Numbers and lengths.                                                      *)

\* What the proofs use of natural numbers and of finite sets.  (The proofs are faster without
\* the library's theorems in scope: QueryTaskProofs proves these facts from them.)
FirstNumber ==
  \A n \in Nat : \A S : ~(1..n \subseteq S) =>
    \E k \in 1..n : k \notin S /\ \A j \in 1..(k - 1) : j \in S
SmallCounts == Cardinality({}) = 0 /\ \A x : Cardinality({x}) = 1
IntervalCounts ==
  \A n \in Nat : \A A : A \subseteq 0..(n - 1) =>
    Cardinality(A) \in Nat /\ Cardinality(A) <= n /\ (Cardinality(A) = n <=> A = 0..(n - 1))
UnionCounts ==
  \A n \in Nat : \A A, B : A \subseteq 0..(n - 1) /\ B \subseteq 0..(n - 1) /\ A \cap B = {} =>
    Cardinality(A \cup B) = Cardinality(A) + Cardinality(B)

\* The rows of partitions, for a query q (TotalRows is Total(query, _)), and powers of two.
RowSet(q, A) == UNION {{p} \X (1..q.rowsOf[p]) : p \in A}
Total(q, A) == Cardinality(RowSet(q, A))
RowCounts ==
  \A q \in Queries :
    /\ \A A : A \subseteq 0..(q.n - 1) => Total(q, A) \in Nat
    /\ \A A, B : A \subseteq 0..(q.n - 1) /\ B \subseteq 0..(q.n - 1) /\ A \cap B = {} =>
         Total(q, A \cup B) = Total(q, A) + Total(q, B)
    /\ Total(q, {}) = 0
    /\ \A p \in 0..(q.n - 1) : Total(q, {p}) = q.rowsOf[p]
Pow(k) == 2^k
Powers == Pow(0) = 1 /\ \A k \in Nat : Pow(k) \in Nat /\ Pow(k + 1) = Pow(k) + Pow(k)

Library == FirstNumber /\ SmallCounts /\ IntervalCounts /\ UnionCounts /\ RowCounts /\ Powers

\* Numbers that are not all in S have a first one outside.
LEMMA FirstOutside ==
  ASSUME Library, NEW n \in Nat, NEW S, ~(1..n \subseteq S)
  PROVE  \E k \in 1..n : k \notin S /\ \A j \in 1..(k - 1) : j \in S
  BY Zenon DEF Library, FirstNumber

\* A sequence over R has elements of R at 1 to its length.
LEMMA SeqFacts ==
  ASSUME NEW R, NEW s \in Seq(R)
  PROVE  /\ Len(s) \in Nat /\ DOMAIN s = 1..Len(s) /\ \A i \in 1..Len(s) : s[i] \in R
         /\ s # <<>> => Len(s) # 0
  OBVIOUS

\* LenOf is well defined: combine_results over a sequence of results has a number of rows
\* after each of them.
LEMMA LenOfSteps ==
  ASSUME Library, NEW R, \A r \in R : r.len \in Nat, NEW s \in Seq(R), s # <<>>,
         \A m, n \in Nat : CombinedLen(m, n) \in Nat
  PROVE  \E f \in [1..Len(s) -> Nat] :
           /\ \A i \in 1..Len(s) : f[i] = IF i = 1 THEN s[1].len ELSE CombinedLen(f[i - 1], s[i].len)
           /\ LenOf(s) = f[Len(s)]
  <1>. DEFINE L == Len(s)
              Rec(g, i) == IF i = 1 THEN s[1].len ELSE CombinedLen(g[i - 1], s[i].len)
              Made(n, g) == g \in [1..n -> Nat] /\ \A i \in 1..n : g[i] = Rec(g, i)
              S == {n \in 1..L : \E g : Made(n, g)}
  <1>1. L \in Nat \ {0} /\ \A i \in 1..L : s[i].len \in Nat
    <2>1. Len(s) \in Nat \ {0} /\ \A i \in 1..Len(s) : s[i] \in R
      BY SeqFacts
    <2>. QED
      BY <2>1
  <1>2. 1..L \subseteq S
    <2>. SUFFICES ASSUME ~(1..L \subseteq S) PROVE FALSE
      BY Zenon
    <2>1. PICK k \in 1..L : k \notin S /\ \A j \in 1..(k - 1) : j \in S
      <3>. HIDE DEF S, L
      <3>. QED
        BY <1>1, FirstOutside, Zenon
    <2>2. CASE k = 1
      <3>. DEFINE g == [i \in 1..1 |-> s[1].len]
      <3>1. Made(1, g)
        BY <1>1
      <3>. QED
        BY <1>1, <2>1, <2>2, <3>1, Zenon
    <2>3. CASE k # 1
      <3>1. k - 1 \in S
        <4>. HIDE DEF S, L
        <4>. QED
          BY <1>1, <2>1, <2>3
      <3>2. PICK g : Made(k - 1, g)
        BY <3>1, Zenon
      <3>. DEFINE h == [i \in 1..k |-> IF i = k THEN CombinedLen(g[k - 1], s[k].len) ELSE g[i]]
      <3>3. k \in Nat /\ k - 1 \in 1..(k - 1) /\ k - 1 \in Nat
        BY <1>1, <2>1, <2>3
      <3>4. h \in [1..k -> Nat]
        <4>1. CombinedLen(g[k - 1], s[k].len) \in Nat
          BY <1>1, <3>2, <3>3, Zenon
        <4>2. \A i \in 1..k : i # k => g[i] \in Nat
          <5>1. \A i \in 1..k : i # k => i \in 1..(k - 1)
            BY <3>3
          <5>2. \A i \in 1..(k - 1) : g[i] \in Nat
            BY <3>2, Zenon
          <5>. QED
            BY <5>1, <5>2, Zenon
        <4>. QED
          BY <4>1, <4>2
      <3>5. ASSUME NEW i \in 1..k PROVE h[i] = Rec(h, i)
        <4>1. CASE i = k
          <5>1. h[i - 1] = g[k - 1]
            BY <3>3, <4>1
          <5>. QED
            BY <4>1, <5>1, <2>3
        <4>2. CASE i = 1
          <5>1. 1 \in 1..k /\ 1 \in 1..(k - 1)
            BY <3>3, <2>3
          <5>2. h[1] = g[1] /\ g[1] = Rec(g, 1)
            BY <2>3, <3>2, <5>1
          <5>. QED
            BY <4>2, <5>2
        <4>3. CASE i # k /\ i # 1
          <5>1. i \in 1..(k - 1) /\ i - 1 \in 1..k /\ i - 1 # k
            BY <3>3, <4>3
          <5>2. h[i - 1] = g[i - 1] /\ h[i] = g[i]
            BY <5>1
          <5>3. g[i] = Rec(g, i)
            BY <3>2, <5>1, Zenon
          <5>. QED
            BY <4>3, <5>2, <5>3
        <4>. QED
          BY <4>1, <4>2, <4>3
      <3>6. Made(k, h)
        BY <3>4, <3>5, Zenon
      <3>. HIDE DEF Made
      <3>. QED
        BY <2>1, <3>6
    <2>. QED
      BY <2>2, <2>3
  <1>3. L \in S
    <2>. HIDE DEF S, L
    <2>. QED
      BY <1>1, <1>2
  <1>4. PICK g : Made(L, g)
    BY <1>3, Zenon
  <1>5. g = [i \in 1..L |-> Rec(g, i)]
    BY <1>4
  <1>. DEFINE f == CHOOSE h : h = [i \in 1..L |-> Rec(h, i)]
  <1>6. f = [i \in 1..L |-> Rec(f, i)]
    BY <1>5, Zenon
  <1>7. LenOf(s) = f[L]
    BY DEF LenOf
  <1>. HIDE DEF f
  <1>8. \A i \in 1..L : f[i] = Rec(f, i)
    BY <1>6, Zenon
  <1>. DEFINE T == {i \in 1..L : f[i] \in Nat}
  <1>9. 1..L \subseteq T
    <2>. SUFFICES ASSUME ~(1..L \subseteq T) PROVE FALSE
      OBVIOUS
    <2>1. PICK k \in 1..L : k \notin T /\ \A j \in 1..(k - 1) : j \in T
      <3>. HIDE DEF T, L
      <3>. QED
        BY <1>1, FirstOutside, Zenon
    <2>2. CASE k = 1
      BY <1>1, <1>8, <2>1, <2>2, Zenon
    <2>3. CASE k # 1
      <3>1. k - 1 \in 1..(k - 1)
        BY <1>1, <2>1, <2>3
      <3>2. f[k - 1] \in Nat
        BY <2>1, <3>1
      <3>3. f[k] = CombinedLen(f[k - 1], s[k].len)
        BY <1>8, <2>3
      <3>. QED
        BY <1>1, <2>1, <3>2, <3>3, Zenon
    <2>. QED
      BY <2>2, <2>3
  <1>10. f \in [1..L -> Nat]
    BY <1>6, <1>9, Zenon
  <1>. QED
    BY <1>7, <1>8, <1>10, Zenon

\* combine_results over a sequence of results gives a number of rows.
LEMMA LenOfNat ==
  ASSUME Library, NEW R, \A r \in R : r.len \in Nat, NEW s \in Seq(R), s # <<>>,
         \A m, n \in Nat : CombinedLen(m, n) \in Nat
  PROVE  LenOf(s) \in Nat
  <1>1. PICK f \in [1..Len(s) -> Nat] : LenOf(s) = f[Len(s)]
    BY LenOfSteps, Zenon
  <1>2. Len(s) \in 1..Len(s)
    BY SeqFacts
  <1>. QED
    BY <1>1, <1>2, Zenon

-----------------------------------------------------------------------------
(* Sequences of results.                                                     *)

\* A partition of a sequence of results is in one of them.
LEMMA PartsOfMember ==
  ASSUME NEW s, NEW p
  PROVE  p \in PartsOf(s) <=> \E i \in DOMAIN s : p \in s[i].parts
  BY DEF PartsOf

\* A result is put on top.
LEMMA AppendResult ==
  ASSUME NEW R, NEW s \in Seq(R), NEW r \in R
  PROVE  /\ Append(s, r) \in Seq(R) /\ PartsOf(Append(s, r)) = PartsOf(s) \cup r.parts
         /\ Apart(s) /\ r.parts \cap PartsOf(s) = {} => Apart(Append(s, r))
  <1>. DEFINE u == Append(s, r)
  <1>1. /\ u \in Seq(R) /\ Len(s) \in Nat /\ DOMAIN s = 1..Len(s) /\ DOMAIN u = 1..(Len(s) + 1)
        /\ \A i \in 1..Len(s) : u[i] = s[i]
        /\ u[Len(s) + 1] = r
    OBVIOUS
  <1>. HIDE DEF u
  <1>2. \A i \in DOMAIN u : (i \in DOMAIN s /\ u[i] = s[i]) \/ (i = Len(s) + 1 /\ u[i] = r)
    <2>. SUFFICES ASSUME NEW i \in DOMAIN u PROVE (i \in DOMAIN s /\ u[i] = s[i]) \/ (i = Len(s) + 1 /\ u[i] = r)
      OBVIOUS
    <2>1. i \in 1..Len(s) \/ i = Len(s) + 1
      BY <1>1
    <2>2. CASE i \in 1..Len(s)
      BY <1>1, <2>2, Zenon
    <2>3. CASE i = Len(s) + 1
      BY <1>1, <2>3, Zenon
    <2>. QED
      BY <2>1, <2>2, <2>3
  <1>3. \A i \in DOMAIN s : i \in DOMAIN u /\ u[i] = s[i]
    BY <1>1
  <1>4. Len(s) + 1 \in DOMAIN u
    BY <1>1
  <1>5. PartsOf(u) = PartsOf(s) \cup r.parts
    BY <1>1, <1>2, <1>3, <1>4 DEF PartsOf
  <1>6. ASSUME Apart(s), r.parts \cap PartsOf(s) = {} PROVE Apart(u)
    <2>1. \A i \in DOMAIN s : s[i].parts \cap r.parts = {}
      BY <1>6, PartsOfMember
    <2>. SUFFICES ASSUME NEW i \in DOMAIN u, NEW j \in DOMAIN u, i # j
                 PROVE  u[i].parts \cap u[j].parts = {}
      BY DEF Apart
    <2>. QED
      BY <1>2, <1>6, <2>1 DEF Apart
  <1>. QED
    BY <1>1, <1>5, <1>6 DEF u

\* The last result is taken off.
LEMMA WithoutLast ==
  ASSUME NEW R, NEW s \in Seq(R), s # <<>>, Apart(s)
  PROVE  LET t == SubSeq(s, 1, Len(s) - 1)
             r == s[Len(s)]
         IN  /\ r \in R /\ t \in Seq(R) /\ Apart(t)
             /\ PartsOf(s) = PartsOf(t) \cup r.parts /\ PartsOf(t) \cap r.parts = {}
  <1>. DEFINE n == Len(s)
              t == SubSeq(s, 1, n - 1)
              r == s[n]
  <1>1. n \in Nat \ {0} /\ DOMAIN s = 1..n /\ \A i \in 1..n : s[i] \in R
    OBVIOUS
  <1>2. /\ t \in Seq(R) /\ Len(t) = n - 1 /\ \A i \in 1..(n - 1) : t[i] = s[i]
    <2>1. \A i \in 1..(n - 1) : s[i] \in R
      BY <1>1
    <2>2. 1 \in Int /\ n - 1 \in Int
      BY <1>1
    <2>. HIDE DEF n
    <2>3. /\ t \in Seq(R) /\ Len(t) = IF 1 <= n - 1 THEN n - 1 - 1 + 1 ELSE 0
          /\ \A i \in 1..(n - 1 - 1 + 1) : t[i] = s[1 + i - 1]
      BY <2>1, <2>2
    <2>. HIDE DEF t
    <2>. QED
      BY <1>1, <2>3
  <1>3. DOMAIN t = 1..(n - 1)
    BY <1>2
  <1>. HIDE DEF n, t
  <1>4. \A i \in DOMAIN t : i \in DOMAIN s /\ i # n /\ t[i] = s[i]
    BY <1>1, <1>2, <1>3
  <1>5. \A i \in DOMAIN s : i \in DOMAIN t \/ i = n
    BY <1>1, <1>3
  <1>6. n \in DOMAIN s /\ r \in R
    BY <1>1
  <1>. HIDE DEF r
  <1>7. Apart(t)
    BY <1>4 DEF Apart
  <1>8. PartsOf(s) = PartsOf(t) \cup r.parts
    BY <1>4, <1>5, <1>6 DEF PartsOf, r
  <1>9. PartsOf(t) \cap r.parts = {}
    BY <1>4, <1>6 DEF PartsOf, Apart, r
  <1>. QED
    BY <1>2, <1>6, <1>7, <1>8, <1>9 DEF n, t, r

\* The first result is taken off.
LEMMA WithoutFirst ==
  ASSUME NEW R, NEW s \in Seq(R), s # <<>>, Apart(s)
  PROVE  /\ s[1] \in R /\ Tail(s) \in Seq(R) /\ Apart(Tail(s))
         /\ PartsOf(s) = PartsOf(Tail(s)) \cup s[1].parts /\ PartsOf(Tail(s)) \cap s[1].parts = {}
  <1>. DEFINE n == Len(s)
              t == Tail(s)
              r == s[1]
  <1>1. n \in Nat \ {0} /\ DOMAIN s = 1..n /\ \A i \in 1..n : s[i] \in R
    OBVIOUS
  <1>2. /\ t \in Seq(R) /\ Len(t) = n - 1 /\ \A i \in 1..(n - 1) : t[i] = s[i + 1]
    <2>1. t \in Seq(R) /\ Len(t) = n - 1 /\ \A i \in 1..Len(t) : t[i] = s[i + 1]
      OBVIOUS
    <2>. HIDE DEF t, n
    <2>. QED
      BY <2>1
  <1>3. DOMAIN t = 1..(n - 1)
    BY <1>2
  <1>. HIDE DEF n, t
  <1>4. \A i \in DOMAIN t : i + 1 \in DOMAIN s /\ i + 1 # 1 /\ t[i] = s[i + 1]
    BY <1>1, <1>2, <1>3
  <1>5. \A i \in DOMAIN s : i = 1 \/ \E j \in DOMAIN t : i = j + 1
    <2>. SUFFICES ASSUME NEW i \in DOMAIN s, i # 1 PROVE i - 1 \in DOMAIN t /\ i = (i - 1) + 1
      OBVIOUS
    <2>. QED
      BY <1>1, <1>3
  <1>6. 1 \in DOMAIN s /\ r \in R
    BY <1>1
  <1>. HIDE DEF r
  <1>7. Apart(t)
    <2>1. \A i, j \in DOMAIN t : i # j => i + 1 # j + 1
      BY <1>1, <1>3
    <2>. QED
      BY <1>4, <2>1 DEF Apart
  <1>8. PartsOf(s) = PartsOf(t) \cup r.parts
    BY <1>4, <1>5, <1>6 DEF PartsOf, r
  <1>9. PartsOf(t) \cap r.parts = {}
    BY <1>4, <1>6 DEF PartsOf, Apart, r
  <1>. QED
    BY <1>2, <1>6, <1>7, <1>8, <1>9 DEF t, r

\* The empty sequence has no partitions.
LEMMA NoParts == PartsOf(<<>>) = {} /\ Apart(<<>>)
  BY DEF PartsOf, Apart

-----------------------------------------------------------------------------
(* The query, and combining results.                                         *)

\* What the assumption on queries says of the query that runs.
LEMMA QueryFacts ==
  ASSUME Library, query \in Queries
  PROVE  /\ N \in Nat /\ Pids = 0..(N - 1) /\ Cardinality(Pids) = N
         /\ RowsOf \in [Pids -> Nat] /\ Failing \subseteq Pids
         /\ Limit \in Nat \ {0} /\ Offset \in Nat /\ CombinedLimit \in Nat
         /\ \A c \in Clashes : \E p, q \in Pids : p # q /\ c = {p, q}
  <1>1. N \in Nat /\ Limit \in Nat \ {0} /\ Offset \in Nat
    BY QueriesAssumption DEF N, Limit, Offset
  <1>2. Pids = 0..(N - 1) /\ RowsOf \in [Pids -> Nat] /\ Failing \subseteq Pids
    BY QueriesAssumption DEF N, Pids, RowsOf, Failing
  <1>3. \A c \in Clashes : \E p, q \in Pids : p # q /\ c = {p, q}
    BY QueriesAssumption DEF N, Pids, Clashes
  <1>4. Cardinality(0..(N - 1)) = N
    BY <1>1, Zenon DEF Library, IntervalCounts
  <1>5. CombinedLimit \in Nat
    BY <1>1 DEF CombinedLimit
  <1>. QED
    BY <1>1, <1>2, <1>3, <1>4, <1>5

\* Counting partitions.
LEMMA CountFacts ==
  ASSUME Library, query \in Queries, NEW A \in SUBSET Pids, NEW B \in SUBSET Pids
  PROVE  /\ Cardinality(A) \in Nat /\ Cardinality(A) <= N /\ (Cardinality(A) = N => A = Pids)
         /\ A \cap B = {} => Cardinality(A \cup B) = Cardinality(A) + Cardinality(B)
  <1>1. N \in Nat /\ Pids = 0..(N - 1)
    BY QueryFacts
  <1>2. A \subseteq 0..(N - 1) /\ B \subseteq 0..(N - 1)
    BY <1>1
  <1>3. Cardinality(A) \in Nat /\ Cardinality(A) <= N /\ (Cardinality(A) = N <=> A = 0..(N - 1))
    BY <1>1, <1>2, Zenon DEF Library, IntervalCounts
  <1>4. A \cap B = {} => Cardinality(A \cup B) = Cardinality(A) + Cardinality(B)
    BY <1>1, <1>2, Zenon DEF Library, UnionCounts
  <1>. QED
    BY <1>1, <1>3, <1>4

\* combine gives a number of rows.
LEMMA CombinedLenNat ==
  ASSUME Library, query \in Queries, NEW m \in Nat, NEW n \in Nat
  PROVE  CombinedLen(m, n) \in Nat
  <1>1. CombinedLimit \in Nat
    BY QueryFacts
  <1>2. Kind \in {"select", "sorted", "aggregate"}
    BY QueriesAssumption DEF Kind
  <1>. QED
    BY <1>1, <1>2 DEF CombinedLen, Least

\* The components of a result.
LEMMA GoodFacts ==
  ASSUME Library, query \in Queries, NEW r \in Goods(query)
  PROVE  /\ r \in Results /\ r.parts \subseteq Pids
         /\ r.level \in Nat /\ r.len \in Nat /\ r.count \in Nat /\ r.count = Cardinality(r.parts)
         /\ \A c \in Clashes : ~(c \subseteq r.parts)
  <1>1. r \in Results /\ r.parts \subseteq Pids /\ r.level \in Nat /\ r.len \in Nat /\ r.count \in Nat
    BY DEF Goods, Results, Pids, N
  <1>2. r.count = Cardinality(r.parts) /\ \A c \in Clashes : ~(c \subseteq r.parts)
    BY DEF Goods, Clashes
  <1>. QED
    BY <1>1, <1>2

\* A result that counts its partitions, none of which clash, is good.
LEMMA MakeGood ==
  ASSUME Library, query \in Queries, NEW ps \in SUBSET Pids, NEW level \in Nat, NEW len \in Nat,
         \A c \in Clashes : ~(c \subseteq ps)
  PROVE  Result(ps, level, len, Cardinality(ps)) \in Goods(query)
  <1>1. Cardinality(ps) \in Nat
    BY CountFacts
  <1>. QED
    BY <1>1 DEF Result, Goods, Pids, N, Clashes

\* The empty result is good.
LEMMA NoResultGood ==
  ASSUME Library, query \in Queries
  PROVE  NoResult \in Goods(query) /\ NoResult.parts = {}
  <1>1. \A c \in Clashes : ~(c \subseteq {})
    BY QueryFacts, Zenon
  <1>2. Result({}, 0, 0, Cardinality({})) \in Goods(query)
    BY <1>1, MakeGood
  <1>. QED
    BY <1>2 DEF NoResult, Result, Library, SmallCounts

\* combine adds up the batch counts, and finds partitions that clash.
LEMMA CombineGood ==
  ASSUME Library, query \in Queries, NEW a \in Goods(query), NEW b \in Goods(query),
         a.parts \cap b.parts = {}, ~CombineFails(a, b)
  PROVE  Combine(a, b) \in Goods(query) /\ Combine(a, b).parts = a.parts \cup b.parts
  <1>. DEFINE ps == a.parts \cup b.parts
  <1>1. /\ a.parts \subseteq Pids /\ a.level \in Nat /\ a.len \in Nat
        /\ a.count = Cardinality(a.parts) /\ \A c \in Clashes : ~(c \subseteq a.parts)
    BY GoodFacts
  <1>2. /\ b.parts \subseteq Pids /\ b.len \in Nat
        /\ b.count = Cardinality(b.parts) /\ \A c \in Clashes : ~(c \subseteq b.parts)
    BY GoodFacts
  <1>3. Cardinality(ps) = a.count + b.count
    BY <1>1, <1>2, CountFacts
  <1>4. ASSUME NEW c \in Clashes, c \subseteq ps PROVE FALSE
    <2>1. PICK p \in Pids, q \in Pids : c = {p, q}
      BY QueryFacts
    <2>2. (p \in a.parts /\ q \in b.parts) \/ (q \in a.parts /\ p \in b.parts)
      BY <1>1, <1>2, <1>4, <2>1
    <2>. QED
      BY <2>1, <2>2, Zenon DEF CombineFails
  <1>5. CombinedLen(a.len, b.len) \in Nat /\ a.level + 1 \in Nat
    <2>1. CombinedLen(a.len, b.len) \in Nat
      BY <1>1, <1>2, CombinedLenNat, Zenon
    <2>. QED
      BY <1>1, <2>1
  <1>6. Result(ps, a.level + 1, CombinedLen(a.len, b.len), Cardinality(ps)) \in Goods(query)
    BY <1>1, <1>2, <1>4, <1>5, MakeGood
  <1>7. Combine(a, b) = Result(ps, a.level + 1, CombinedLen(a.len, b.len), Cardinality(ps))
    BY <1>3 DEF Combine
  <1>. QED
    BY <1>6, <1>7 DEF Result

-----------------------------------------------------------------------------
(* Rows, and the lengths of results.                                         *)

\* Rows are counted by adding up those of disjoint sets of partitions.
LEMMA RowsAdd ==
  ASSUME Library, NEW q \in Queries
  PROVE  /\ \A A : A \subseteq 0..(q.n - 1) => Total(q, A) \in Nat
         /\ \A A, B : A \subseteq 0..(q.n - 1) /\ B \subseteq 0..(q.n - 1) /\ A \cap B = {} =>
              Total(q, A \cup B) = Total(q, A) + Total(q, B)
         /\ Total(q, {}) = 0
         /\ \A p \in 0..(q.n - 1) : Total(q, {p}) = q.rowsOf[p]
  BY Zenon DEF Library, RowCounts

\* Powers of two.
LEMMA PowDoubles ==
  ASSUME Library
  PROVE  Pow(0) = 1 /\ \A k \in Nat : Pow(k) \in Nat /\ Pow(k + 1) = Pow(k) + Pow(k)
  BY Zenon DEF Library, Powers

\* The length of a result from some partitions: the largest number of groups, or all their
\* rows, or no fewer rows than the query needs.
FitsLen(q, len, parts) ==
  IF q.kind = "aggregate"
  THEN (\A p \in parts : q.rowsOf[p] <= len) /\ (len = 0 \/ \E p \in parts : q.rowsOf[p] = len)
  ELSE len <= Total(q, parts) /\ (len = Total(q, parts) \/ len >= q.limit + q.offset)

\* combine keeps the lengths right.
LEMMA CombineFits ==
  ASSUME Library, query \in Queries, NEW A, NEW B, A \subseteq Pids, B \subseteq Pids, A \cap B = {},
         NEW m \in Nat, NEW n \in Nat, FitsLen(query, m, A), FitsLen(query, n, B)
  PROVE  FitsLen(query, CombinedLen(m, n), A \cup B)
  <1>1. /\ Kind \in {"select", "sorted", "aggregate"} /\ Limit \in Nat /\ Offset \in Nat
        /\ CombinedLimit = Limit + Offset /\ \A p \in A \cup B : RowsOf[p] \in Nat
    BY QueriesAssumption DEF Kind, Limit, Offset, CombinedLimit, Pids, N, RowsOf
  <1>2. CASE Kind = "aggregate"
    <2>1. CombinedLen(m, n) = IF m >= n THEN m ELSE n
      BY <1>2 DEF CombinedLen
    <2>2. query.kind = "aggregate" /\ query.rowsOf = RowsOf
      BY <1>2 DEF Kind, RowsOf
    <2>3. /\ \A p \in A : RowsOf[p] <= m
          /\ \A p \in B : RowsOf[p] <= n
          /\ m = 0 \/ \E p \in A : RowsOf[p] = m
          /\ n = 0 \/ \E p \in B : RowsOf[p] = n
      BY <2>2 DEF FitsLen
    <2>4. /\ \A p \in A \cup B : RowsOf[p] <= CombinedLen(m, n)
      BY <1>1, <2>1, <2>3
    <2>5. CombinedLen(m, n) = 0 \/ \E p \in A \cup B : RowsOf[p] = CombinedLen(m, n)
      BY <2>1, <2>3
    <2>. QED
      BY <2>2, <2>4, <2>5, Zenon DEF FitsLen
  <1>3. CASE Kind # "aggregate"
    <2>. DEFINE a == Total(query, A)
                b == Total(query, B)
                c == Total(query, A \cup B)
                x == CombinedLen(m, n)
    <2>1. a \in Nat /\ b \in Nat /\ c = a + b
      BY RowsAdd, Zenon DEF Pids, N
    <2>2. query.kind # "aggregate" /\ query.limit + query.offset = CombinedLimit
      BY <1>1, <1>3 DEF Kind, Limit, Offset
    <2>3. /\ m <= a /\ (m = a \/ m >= CombinedLimit)
          /\ n <= b /\ (n = b \/ n >= CombinedLimit)
      BY <2>2 DEF FitsLen
    <2>4. \/ x = IF m >= CombinedLimit THEN m ELSE Least(m + n, CombinedLimit)
          \/ x = Least(m + n, CombinedLimit)
      BY <1>1, <1>3 DEF CombinedLen
    <2>. HIDE DEF a, b, c, x
    <2>5. x <= c /\ (x = c \/ x >= CombinedLimit)
      BY <1>1, <2>1, <2>3, <2>4 DEF Least
    <2>. QED
      BY <2>2, <2>5, Zenon DEF FitsLen, c, x
  <1>. QED
    BY <1>2, <1>3

\* The partitions of the first results of a sequence.
FirstParts(s, k) == UNION {s[i].parts : i \in 1..k}

\* combine_results gives a length that fits.
LEMMA LenOfFits ==
  ASSUME Library, query \in Queries, NEW s \in Seq(Goods(query)), s # <<>>, Apart(s),
         \A i \in DOMAIN s : FitsLen(query, s[i].len, s[i].parts)
  PROVE  FitsLen(query, LenOf(s), PartsOf(s))
  <1>. DEFINE L == Len(s)
  <1>1. L \in Nat \ {0} /\ DOMAIN s = 1..L /\ \A i \in 1..L : s[i] \in Goods(query)
    BY SeqFacts
  <1>2. \A r \in Goods(query) : r.len \in Nat /\ r.parts \subseteq Pids
    BY GoodFacts
  <1>3. \A m, n \in Nat : CombinedLen(m, n) \in Nat
    BY CombinedLenNat, Zenon
  <1>4. PICK f \in [1..L -> Nat] :
          /\ \A i \in 1..L : f[i] = IF i = 1 THEN s[1].len ELSE CombinedLen(f[i - 1], s[i].len)
          /\ LenOf(s) = f[L]
    BY <1>2, <1>3, LenOfSteps, Zenon
  <1>. DEFINE S == {i \in 1..L : FitsLen(query, f[i], FirstParts(s, i))}
  <1>. HIDE DEF L
  <1>5. 1..L \subseteq S
    <2>. SUFFICES ASSUME ~(1..L \subseteq S) PROVE FALSE
      OBVIOUS
    <2>1. PICK k \in 1..L : k \notin S /\ \A j \in 1..(k - 1) : j \in S
      <3>. HIDE DEF S
      <3>. QED
        BY <1>1, FirstOutside, Zenon
    <2>2. CASE k = 1
      <3>1. FirstParts(s, 1) = s[1].parts
        BY DEF FirstParts
      <3>2. 1 \in 1..L /\ f[1] = s[1].len
        BY <1>1, <1>4
      <3>3. FitsLen(query, s[1].len, s[1].parts)
        BY <1>1, <3>2, Zenon
      <3>4. 1 \in S
        BY <3>1, <3>2, <3>3, Zenon
      <3>. QED
        BY <2>1, <2>2, <3>4, Zenon
    <2>3. CASE k # 1
      <3>1. k - 1 \in 1..(k - 1) /\ k - 1 \in 1..L /\ 1..k = (1..(k - 1)) \cup {k} /\ 1..k \subseteq 1..L
            /\ k \notin 1..(k - 1)
        BY <1>1, <2>3
      <3>2. FitsLen(query, f[k - 1], FirstParts(s, k - 1)) /\ f[k - 1] \in Nat
        BY <2>1, <3>1
      <3>3. FirstParts(s, k) = FirstParts(s, k - 1) \cup s[k].parts
        BY <3>1 DEF FirstParts
      <3>4. FirstParts(s, k - 1) \cap s[k].parts = {}
        <4>1. \A j \in 1..(k - 1) : j \in DOMAIN s /\ j # k
          BY <1>1, <3>1
        <4>2. \A j \in 1..(k - 1) : s[j].parts \cap s[k].parts = {}
          BY <1>1, <4>1, Zenon DEF Apart
        <4>. QED
          BY <4>2, Zenon DEF FirstParts
      <3>5. FirstParts(s, k - 1) \subseteq Pids
        BY <1>1, <1>2, <3>1 DEF FirstParts
      <3>6. FitsLen(query, s[k].len, s[k].parts) /\ s[k].len \in Nat /\ s[k].parts \subseteq Pids
        BY <1>1, <1>2
      <3>7. FitsLen(query, CombinedLen(f[k - 1], s[k].len), FirstParts(s, k - 1) \cup s[k].parts)
        BY <3>2, <3>4, <3>5, <3>6, CombineFits
      <3>8. f[k] = CombinedLen(f[k - 1], s[k].len)
        BY <1>4, <2>3
      <3>. QED
        BY <2>1, <3>3, <3>7, <3>8, Zenon
    <2>. QED
      BY <2>2, <2>3
  <1>6. L \in 1..L
    BY <1>1
  <1>7. FitsLen(query, f[L], FirstParts(s, L))
    BY <1>5, <1>6, Zenon
  <1>8. FirstParts(s, L) = PartsOf(s)
    BY <1>1 DEF FirstParts, PartsOf
  <1>. QED
    BY <1>4, <1>7, <1>8

\* convert_to_output_format outputs the rows LIMIT and OFFSET select from the whole table.
LEMMA OutputFits ==
  ASSUME Library, query \in Queries, N > 0, NEW len \in Nat, NEW parts, parts \subseteq Pids,
         FitsLen(query, len, parts), Offset <= len,
         parts = Pids \/ (Kind = "select" /\ Total(query, parts) > CombinedLimit)
  PROVE  OutputLen(len) = Least(Limit, FullLen - Offset)
  <1>1. /\ Kind \in {"select", "sorted", "aggregate"} /\ Limit \in Nat /\ Offset \in Nat
        /\ CombinedLimit = Limit + Offset /\ RowsOf \in [Pids -> Nat]
        /\ N \in Nat
    BY QueriesAssumption DEF Kind, Limit, Offset, CombinedLimit, Pids, N, RowsOf
  <1>2. CASE Kind = "aggregate"
    <2>1. /\ \A p \in Pids : RowsOf[p] <= len
          /\ len = 0 \/ \E p \in Pids : RowsOf[p] = len
      BY <1>2 DEF FitsLen, Kind, RowsOf
    <2>2. \E p \in Pids : RowsOf[p] = len
      <3>1. 0 \in Pids
        BY <1>1 DEF Pids
      <3>2. RowsOf[0] \in Nat /\ RowsOf[0] <= len
        BY <1>1, <2>1, <3>1
      <3>3. len = 0 => RowsOf[0] = len
        BY <3>2
      <3>. QED
        BY <2>1, <3>1, <3>3
    <2>. DEFINE M == {RowsOf[p] : p \in Pids}
                top == CHOOSE m \in M : \A p \in Pids : RowsOf[p] <= m
    <2>3. len \in M /\ \A p \in Pids : RowsOf[p] <= len
      BY <2>1, <2>2
    <2>4. top \in M /\ \A p \in Pids : RowsOf[p] <= top
      BY <2>3, Zenon
    <2>5. FullLen = top
      BY <1>2 DEF FullLen
    <2>. HIDE DEF top
    <2>6. top = len
      <3>1. M \subseteq Nat
        BY <1>1
      <3>2. top <= len /\ len <= top
        BY <2>3, <2>4
      <3>. QED
        BY <2>4, <3>1, <3>2
    <2>. QED
      BY <2>5, <2>6 DEF OutputLen
  <1>3. CASE Kind # "aggregate"
    <2>. DEFINE t == Total(query, parts)
                u == Total(query, Pids)
    <2>1. t \in Nat /\ u \in Nat /\ t <= u
      <3>1. Pids = parts \cup (Pids \ parts) /\ parts \cap (Pids \ parts) = {} /\ Pids \ parts \subseteq Pids
        OBVIOUS
      <3>2. t \in Nat /\ u \in Nat /\ Total(query, Pids \ parts) \in Nat
        BY <3>1, RowsAdd, Zenon DEF Pids, N
      <3>3. Total(query, parts \cup (Pids \ parts)) = t + Total(query, Pids \ parts)
        <4>1. \A A, B : A \subseteq Pids /\ B \subseteq Pids /\ A \cap B = {} =>
                Total(query, A \cup B) = Total(query, A) + Total(query, B)
          BY RowsAdd, Zenon DEF Pids, N
        <4>. QED
          BY <3>1, <4>1, Zenon
      <3>4. u = t + Total(query, Pids \ parts)
        BY <3>1, <3>3, Zenon
      <3>. HIDE DEF t, u
      <3>. QED
        BY <3>2, <3>4
    <2>2. FullLen = u
      BY <1>3 DEF FullLen, TotalRows, RowsIn, Total, RowSet, RowsOf
    <2>3. len <= t /\ (len = t \/ len >= CombinedLimit)
      BY <1>1, <1>3 DEF FitsLen, Kind, Limit, Offset
    <2>4. t = u \/ t > CombinedLimit
      OBVIOUS
    <2>. HIDE DEF t, u
    <2>. QED
      BY <1>1, <2>1, <2>2, <2>3, <2>4 DEF OutputLen, Least
  <1>. QED
    BY <1>2, <1>3

-----------------------------------------------------------------------------
(* Steps of one thread.                                                      *)

\* Everything derived from the query stays while the query does.
LEMMA SameQuery ==
  ASSUME query' = query
  PROVE  /\ N' = N /\ Pids' = Pids /\ Workers' = Workers /\ Spare' = Spare /\ Results' = Results
         /\ Cancelable' = Cancelable /\ Fallible' = Fallible /\ Clashes' = Clashes
  <1>1. N' = N /\ Workers' = Workers /\ Clashes' = Clashes
    BY DEF N, Workers, Clashes
  <1>2. Pids' = Pids /\ Spare' = Spare
    BY <1>1 DEF Pids, Spare
  <1>3. Results' = Results
    BY <1>2 DEF Results
  <1>4. Fallible' = Fallible
    BY <1>1 DEF Fallible, Failing
  <1>5. Cancelable' = Cancelable
    BY <1>2 DEF Cancelable, Panicking, FinalPanics, Offset
  <1>. QED
    BY <1>1, <1>2, <1>3, <1>4, <1>5

\* Thread w goes to label l, with batch_result r and batch_results s.
Move(w, l, r, s) ==
  /\ pc' = [pc EXCEPT ![w] = l]
  /\ result' = [result EXCEPT ![w] = r]
  /\ stack' = [stack EXCEPT ![w] = s]

\* Results that one thread may have, r in batch_result and s in batch_results, and may have
\* at label l with the partition i claimed.
Fits(r, s) ==
  r \in Goods(query) /\ s \in Seq(Goods(query)) /\ Apart(s) /\ r.parts \cap PartsOf(s) = {}
LabelFits(l, i, r, s) ==
  /\ l \in {"unborn", "idle", "next", "execute", "check"} => r = NoResult
  /\ l = "push" => s = <<>>
  /\ l = "execute" => i \in Pids /\ i \notin r.parts \cup PartsOf(s)

\* After a step of thread w alone, w is at l and the partitions in ps are with it.
Alone(w, l, ps) ==
  /\ ThreadResults'
  /\ pc' \in [Threads -> Labels] /\ result' \in [Threads -> Results] /\ stack' \in [Threads -> Seq(Results)]
  /\ pc'[w] = l /\ \A v \in Threads \ {w} : pc'[v] = pc[v] /\ Owned(v)' = Owned(v)
  /\ Owned(w)' = ps

\* One thread moves, with results that fit its new label.
LEMMA MoveStep ==
  ASSUME Library, TaskInv, query' = query, NEW w \in Threads, NEW l \in Labels,
         NEW r, NEW s, Move(w, l, r, s), Fits(r, s), LabelFits(l, idx'[w], r, s),
         \A v \in Threads \ {w} : idx'[v] = idx[v]
  PROVE  Alone(w, l, (IF l = "execute" THEN {idx'[w]} ELSE {}) \cup r.parts \cup PartsOf(s))
  <1>. USE DEF Fits, LabelFits
  <1>. DEFINE G == Goods(query)
  <1>1. query \in Queries /\ pc \in [Threads -> Labels]
        /\ result \in [Threads -> Results] /\ stack \in [Threads -> Seq(Results)]
    BY DEF TaskInv, TypeOK
  <1>2. pc'[w] = l /\ result'[w] = r /\ stack'[w] = s
    BY <1>1 DEF Move
  <1>3. \A v \in Threads \ {w} : pc'[v] = pc[v] /\ result'[v] = result[v] /\ stack'[v] = stack[v]
    BY <1>1 DEF Move
  <1>4. r \in Results /\ G \subseteq Results
    BY <1>1, GoodFacts
  <1>5. s \in Seq(Results)
    BY <1>4
  <1>6. pc' \in [Threads -> Labels] /\ result' \in [Threads -> Results]
    BY <1>1, <1>4 DEF Move
  <1>7. stack' \in [Threads -> Seq(Results)]
    BY <1>1, <1>5 DEF Move
  <1>8. \A v \in Threads \ {w} : Held(v)' = Held(v) /\ Owned(v)' = Owned(v)
    BY <1>3 DEF Held, Owned, Claimed
  <1>9. Held(w)' = r.parts \cup PartsOf(s)
    BY <1>2 DEF Held
  <1>10. Owned(w)' = (IF l = "execute" THEN {idx'[w]} ELSE {}) \cup r.parts \cup PartsOf(s)
    BY <1>2, <1>9 DEF Owned, Claimed
  <1>11. Pids' = Pids
    BY SameQuery
  <1>12. ThreadResults'
    <2>. SUFFICES ASSUME NEW v \in Threads
                 PROVE  /\ result'[v] \in G /\ stack'[v] \in Seq(G) /\ Apart(stack'[v])
                        /\ result'[v].parts \cap PartsOf(stack'[v]) = {}
                        /\ pc'[v] \in {"unborn", "idle", "next", "execute", "check"} => result'[v] = NoResult
                        /\ pc'[v] = "push" => stack'[v] = <<>>
                        /\ pc'[v] = "execute" => idx'[v] \in Pids /\ idx'[v] \notin Held(v)'
      BY <1>11, Zenon DEF ThreadResults
    <2>1. CASE v = w
      BY <1>2, <1>9, <2>1, Zenon
    <2>2. CASE v # w
      BY <1>3, <1>8, <2>2 DEF TaskInv, ThreadResults
    <2>. QED
      BY <2>1, <2>2
  <1>. QED
    BY <1>2, <1>3, <1>6, <1>7, <1>8, <1>10, <1>12 DEF Alone

\* Thread w has no results any more.
LEMMA EmptyMove ==
  ASSUME Library, TaskInv, query' = query, NEW w \in Threads, NEW l \in {"unwind", "colstack", "idle", "dead"},
         Move(w, l, NoResult, <<>>), \A v \in Threads \ {w} : idx'[v] = idx[v]
  PROVE  Alone(w, l, {})
  <1>1. query \in Queries
    BY DEF TaskInv, TypeOK
  <1>2. NoResult \in Goods(query) /\ NoResult.parts = {}
    BY <1>1, NoResultGood
  <1>3. <<>> \in Seq(Goods(query)) /\ PartsOf(<<>>) = {} /\ Apart(<<>>)
    BY NoParts
  <1>4. l \in Labels /\ l \notin {"push", "execute"}
    BY DEF Labels
  <1>5. ASSUME NEW r \in Goods(query), NEW s \in Seq(Goods(query)), Move(w, l, r, s),
               r = NoResult, r.parts = {}, PartsOf(s) = {}, Apart(s)
        PROVE  Alone(w, l, {} \cup r.parts \cup PartsOf(s))
    <2>1. r.parts \cap PartsOf(s) = {}
      BY <1>5
    <2>2. Alone(w, l, (IF l = "execute" THEN {idx'[w]} ELSE {}) \cup r.parts \cup PartsOf(s))
      BY <1>4, <1>5, <2>1, MoveStep DEF Fits, LabelFits
    <2>. QED
      BY <1>4, <2>2, Zenon
  <1>6. Alone(w, l, {} \cup NoResult.parts \cup PartsOf(<<>>))
    BY <1>2, <1>3, <1>5, Zenon
  <1>7. {} \cup NoResult.parts \cup PartsOf(<<>>) = {}
    BY <1>2, <1>3
  <1>. QED
    BY <1>6, <1>7, Zenon

\* Partitions are not claimed in this step, and none changes hands.
LEMMA OwnershipKept ==
  ASSUME Library, TaskInv, query' = query, \A v \in Threads : Owned(v)' \subseteq Owned(v),
         partial' \in {partial, <<>>}, batchIndex' \in {batchIndex, N}
  PROVE  Ownership' /\ SharedResults'
  <1>1. PartsOf(partial)' \subseteq PartsOf(partial)
    BY NoParts
  <1>2. N \in Nat /\ \A p \in Pids : p < N
    BY QueryFacts DEF TaskInv, TypeOK
  <1>3. \A p \in Pids : p < batchIndex => p < batchIndex'
    BY <1>2
  <1>4. Ownership'
    BY <1>1, <1>3, SameQuery DEF TaskInv, Ownership
  <1>5. <<>> \in Seq(Goods(query)) /\ Apart(<<>>)
    BY NoParts
  <1>6. SharedResults'
    BY <1>5, Zenon DEF TaskInv, SharedResults
  <1>. QED
    BY <1>4, <1>6

\* Covered stays when no thread loses a partition it is going to push.
LEMMA CoveredKept ==
  ASSUME Library, TaskInv, query' = query, NEW w \in Threads,
         \A v \in Threads \ {w} : pc'[v] = pc[v] /\ Owned(v)' = Owned(v),
         Calm' /\ outcome' = Pending /\ ~Failed' =>
           /\ Calm /\ outcome = Pending /\ ~Failed
           /\ UNCHANGED <<partial, batchIndex>>
           /\ pc[w] \in Active => \A p \in Owned(w) : pc'[w] \in Active /\ p \in Owned(w)'
  PROVE  Covered'
  <1>. SUFFICES ASSUME Calm', outcome' = Pending, ~Failed', NEW p \in Pids, p < batchIndex'
               PROVE  p \in PartsOf(partial') \/ \E v \in Threads : pc'[v] \in Active /\ p \in Owned(v)'
    BY SameQuery DEF Covered, Active, Pending
  <1>1. p \in PartsOf(partial) \/ \E v \in Threads : pc[v] \in Active /\ p \in Owned(v)
    BY DEF TaskInv, Covered
  <1>2. CASE p \in PartsOf(partial)
    BY <1>2
  <1>3. ASSUME NEW v \in Threads, pc[v] \in Active, p \in Owned(v)
        PROVE  pc'[v] \in Active /\ p \in Owned(v)'
    BY <1>3
  <1>. QED
    BY <1>1, <1>2, <1>3

\* A thread that neither begins, ends nor fails changes nothing about the causes.
LEMMA CalmKept ==
  ASSUME query' = query, NEW w \in Threads, \A v \in Threads \ {w} : pc'[v] = pc[v],
         pc[w] \notin {"unwind", "dead", "unborn"}, pc'[w] \notin {"unwind", "dead", "unborn"}
  PROVE  Calm' <=> Calm
  <1>1. Spare' = Spare /\ Spare \subseteq Threads
    BY SameQuery DEF Spare
  <1>. QED
    BY <1>1 DEF Calm

\* What a step may do to the answer, as run_query's caller sees it.
AnswerStep ==
  \/ outcome' = outcome
  \/ /\ outcome = Pending
     /\ \/ /\ outcome'.kind = "rows" /\ outcome'.parts \subseteq Pids
           /\ Kind = "select" \/ outcome'.parts = Pids
           /\ \A c \in Clashes : ~(c \subseteq outcome'.parts)
        \/ outcome' = Error /\ Fallible
        \/ outcome' = Canceled /\ Cancelable

\* A thread goes on, with nothing but its own results and the colstacks changed.
Quiet(w, l, r, s) ==
  /\ l \in {"idle", "next", "check"} => r = NoResult
  /\ l = "push" => s = <<>>
  /\ UNCHANGED <<queued, batchIndex, completed, poisoned, stateVars, outcome, idx>>
  /\ rows' \in [Threads -> Nat] /\ cols' \in [Threads -> SUBSET Pids] /\ colstacks' \subseteq Pids
  /\ pc[w] \notin {"unwind", "dead", "unborn", "fail", "fail_late"}
  /\ l \notin {"unwind", "dead", "unborn", "execute"}
  /\ l \in {"fail", "fail_late"} => Fallible
  /\ r.parts \cup PartsOf(s) \subseteq Owned(w)
  /\ pc[w] \in Active /\ ~completed /\ l \notin {"fail", "fail_late"} =>
       \A p \in Owned(w) : l \in Active /\ p \in r.parts \cup PartsOf(s)

\* A step by which one thread rearranges its own results preserves the invariant.
LEMMA QuietStep ==
  ASSUME Library, TaskInv, query' = query, NEW w \in Threads, NEW l \in Labels,
         NEW r, NEW s, Move(w, l, r, s), Fits(r, s), Quiet(w, l, r, s)
  PROVE  TaskInv' /\ AnswerStep
  <1>. USE DEF Fits, Quiet
  <1>1. Alone(w, l, r.parts \cup PartsOf(s))
    <2>1. \A v \in Threads \ {w} : idx'[v] = idx[v]
      OBVIOUS
    <2>2. LabelFits(l, idx'[w], r, s) /\ l # "execute"
      BY DEF LabelFits
    <2>3. Alone(w, l, (IF l = "execute" THEN {idx'[w]} ELSE {}) \cup r.parts \cup PartsOf(s))
      BY <2>1, <2>2, MoveStep
    <2>. QED
      BY <2>2, <2>3
  <1>. USE DEF Alone
  <1>2. Ownership' /\ SharedResults'
    <2>1. \A v \in Threads : Owned(v)' \subseteq Owned(v)
      BY <1>1, Zenon
    <2>2. partial' = partial
      BY DEF stateVars
    <2>. QED
      BY <2>1, <2>2, OwnershipKept
  <1>3. Calm' <=> Calm
    BY <1>1, CalmKept
  <1>4. Failed' <=> (Failed \/ l \in {"fail", "fail_late"})
    BY <1>1, Zenon DEF Failed
  <1>5. Covered'
    <2>1. ASSUME Calm', outcome' = Pending, ~Failed'
          PROVE  /\ Calm /\ outcome = Pending /\ ~Failed
                 /\ UNCHANGED <<partial, batchIndex>>
                 /\ pc[w] \in Active => \A p \in Owned(w) : pc'[w] \in Active /\ p \in Owned(w)'
      <3>1. Calm /\ outcome = Pending /\ ~Failed /\ l \notin {"fail", "fail_late"}
        BY <1>3, <1>4, <2>1 DEF Pending
      <3>2. ~completed
        BY <3>1 DEF TaskInv, Causes
      <3>. QED
        BY <1>1, <3>1, <3>2 DEF stateVars
    <2>. QED
      BY <1>1, <2>1, CoveredKept
  <1>6. Counted'
    BY SameQuery DEF TaskInv, Counted, stateVars, Pending
  <1>7. Causes'
    <2>1. TaskCompleted' <=> TaskCompleted
      BY SameQuery DEF TaskCompleted
    <2>2. outcome' = Canceled => ~Calm'
      BY <1>3, Zenon DEF TaskInv, Causes, Canceled
    <2>. QED
      BY <1>3, <1>4, <2>1, <2>2, SameQuery DEF TaskInv, Causes, Pending
  <1>8. TypeOK'
    BY <1>1, SameQuery, Zenon DEF TaskInv, TypeOK, stateVars
  <1>. QED
    BY <1>1, <1>2, <1>5, <1>6, <1>7, <1>8 DEF TaskInv, AnswerStep

\* A thread panics, perhaps with the mutex held.
LEMMA UnwindStep ==
  ASSUME Library, TaskInv, query' = query, NEW w \in Threads, Unwind(w), Cancelable,
         pc[w] \notin {"unwind", "dead", "unborn"},
         UNCHANGED <<queued, batchIndex, completed, outcome, colstacks>>,
         poisoned' \in BOOLEAN, completedBatches' \in Nat, rowsCollected' \in Nat,
         partial' \in {partial, <<>>},
         poisoned' \/ UNCHANGED <<poisoned, completedBatches, partial>>
  PROVE  TaskInv' /\ AnswerStep
  <1>2. Move(w, "unwind", NoResult, <<>>) /\ UNCHANGED <<idx, rows>> /\ cols' = [cols EXCEPT ![w] = {}]
    BY DEF Unwind, Goto, Move
  <1>3. Alone(w, "unwind", {})
    <2>1. \A v \in Threads \ {w} : idx'[v] = idx[v]
      BY <1>2
    <2>. QED
      BY <1>2, <2>1, EmptyMove
  <1>. USE DEF Alone
  <1>4. ~Calm'
    BY <1>3 DEF Calm
  <1>5. Ownership' /\ SharedResults'
    <2>1. \A v \in Threads : Owned(v)' \subseteq Owned(v)
      BY <1>3, Zenon
    <2>. QED
      BY <2>1, OwnershipKept
  <1>6. Covered'
    BY <1>4 DEF Covered
  <1>7. Counted'
    BY SameQuery DEF TaskInv, Counted, Pending
  <1>8. Failed' => Failed
    BY <1>3 DEF Failed
  <1>9. Causes'
    BY <1>4, <1>8, SameQuery DEF TaskInv, Causes, Pending
  <1>10. TypeOK'
    <2>1. <<>> \in Seq(Results)
      OBVIOUS
    <2>2. partial' \in Seq(Results)
      BY <2>1, Zenon DEF TaskInv, TypeOK
    <2>. QED
      BY <1>2, <1>3, <2>2, SameQuery, Zenon DEF TaskInv, TypeOK
  <1>. QED
    BY <1>3, <1>5, <1>6, <1>7, <1>9, <1>10, Zenon DEF TaskInv, AnswerStep

-----------------------------------------------------------------------------
(* The steps of run().                                                       *)

\* What the invariant says of a thread.
LEMMA ThreadFacts ==
  ASSUME Library, TaskInv, NEW w \in Threads
  PROVE  /\ query \in Queries /\ Fits(result[w], stack[w])
         /\ Owned(w) = Claimed(w) \cup result[w].parts \cup PartsOf(stack[w])
         /\ pc[w] # "execute" => Owned(w) = result[w].parts \cup PartsOf(stack[w])
  BY DEF TaskInv, TypeOK, ThreadResults, Owned, Held, Claimed, Fits

\* The thread's results as they are.
LEMMA KeepResults ==
  ASSUME Library, TaskInv, NEW w \in Threads, NEW l, Goto(w, l), UNCHANGED <<result, stack>>
  PROVE  Move(w, l, result[w], stack[w])
  BY DEF TaskInv, TypeOK, Move, Goto

\* ExecutePartition preserves the invariant: the claimed partition becomes a result.
LEMMA ExecuteStep ==
  ASSUME Library, TaskInv, query' = query, NEW w \in Threads, ExecutePartition(w)
  PROVE  TaskInv' /\ AnswerStep
  <1>. DEFINE p == idx[w]
  <1>1. pc[w] = "execute" /\ UNCHANGED <<queued, batchIndex, completed, poisoned, stateVars, colstacks, outcome>>
    BY DEF ExecutePartition
  <1>2. /\ query \in Queries /\ stack[w] \in Seq(Goods(query)) /\ Apart(stack[w])
        /\ Owned(w) = {p} \cup PartsOf(stack[w])
        /\ p \in Pids /\ p \notin PartsOf(stack[w]) /\ result[w] = NoResult
    BY <1>1, ThreadFacts, NoResultGood, Zenon DEF TaskInv, ThreadResults, Claimed, Held, Fits
  <1>3. colstacks \subseteq Pids /\ cols \in [Threads -> SUBSET Pids] /\ rows \in [Threads -> Nat]
        /\ completedBatches \in Nat /\ rowsCollected \in Nat /\ poisoned \in BOOLEAN
    BY DEF TaskInv, TypeOK
  <1>4. CASE p \in Panicking /\ Unwind(w)
    <2>1. Cancelable
      BY <1>4 DEF Cancelable
    <2>. QED
      BY <1>1, <1>3, <1>4, <2>1, UnwindStep DEF stateVars
  <1>5. CASE p \in Failing /\ Goto(w, "fail") /\ UNCHANGED localVars
    <2>1. Move(w, "fail", result[w], stack[w])
      BY <1>5, KeepResults, Zenon DEF localVars
    <2>2. Fallible
      BY <1>5 DEF Fallible
    <2>3. /\ result[w] \in Goods(query) /\ result[w].parts \cap PartsOf(stack[w]) = {}
          /\ result[w].parts \cup PartsOf(stack[w]) \subseteq Owned(w)
      BY ThreadFacts, Zenon DEF Fits
    <2>4. "fail" \in Labels
      BY DEF Labels
    <2>. QED
      BY <1>1, <1>2, <1>3, <1>5, <2>1, <2>2, <2>3, <2>4, QuietStep, Zenon DEF localVars, Fits, Quiet
  <1>6. CASE /\ result' = [result EXCEPT ![w] = Result({p}, 0, RowsOf[p], 1)]
             /\ rows' = [rows EXCEPT ![w] = @ + RowsOf[p]]
             /\ cols' = [cols EXCEPT ![w] = @ \cup {p}]
             /\ Goto(w, "merge")
             /\ UNCHANGED <<idx, stack>>
    <2>. DEFINE r == Result({p}, 0, RowsOf[p], 1)
    <2>1. r \in Goods(query) /\ r.parts = {p}
      <3>1. ASSUME NEW c \in Clashes, c \subseteq {p} PROVE FALSE
        <4>1. \E a, b \in Pids : a # b /\ c = {a, b}
          BY <1>2, QueryFacts, Zenon
        <4>. QED
          BY <3>1, <4>1
      <3>2. RowsOf[p] \in Nat
        BY <1>2, QueryFacts, Zenon
      <3>3. Cardinality({p}) = 1
        BY Zenon DEF Library, SmallCounts
      <3>4. Result({p}, 0, RowsOf[p], Cardinality({p})) \in Goods(query)
        BY <1>2, <3>1, <3>2, MakeGood, Zenon
      <3>. QED
        BY <3>3, <3>4, Zenon DEF Result
    <2>2. Move(w, "merge", r, stack[w])
      BY <1>6 DEF Move, Goto, TaskInv, TypeOK
    <2>. HIDE DEF r
    <2>3. rows' \in [Threads -> Nat] /\ cols' \in [Threads -> SUBSET Pids]
      BY <1>2, <1>3, <1>6, QueryFacts
    <2>4. "merge" \in Labels /\ "merge" \in Active
      BY DEF Labels, Active
    <2>5. r.parts \cap PartsOf(stack[w]) = {} /\ r.parts \cup PartsOf(stack[w]) = Owned(w)
      BY <1>2, <2>1
    <2>. QED
      BY <1>1, <1>2, <1>3, <1>6, <2>1, <2>2, <2>3, <2>4, <2>5, QuietStep, Zenon DEF Fits, Quiet
  <1>. QED
    BY <1>4, <1>5, <1>6 DEF ExecutePartition

\* MergeLevels preserves the invariant: the results combined are disjoint.
LEMMA MergeStep ==
  ASSUME Library, TaskInv, query' = query, NEW w \in Threads, MergeLevels(w)
  PROVE  TaskInv' /\ AnswerStep
  <1>. DEFINE G == Goods(query)
              s == stack[w]
              top == s[Len(s)]
              t == SubSeq(s, 1, Len(s) - 1)
  <1>1. /\ pc[w] = "merge"
        /\ UNCHANGED <<queued, batchIndex, completed, poisoned, stateVars, colstacks, outcome, idx, rows, cols>>
    BY DEF MergeLevels
  <1>2. /\ query \in Queries /\ result[w] \in G /\ s \in Seq(G) /\ Apart(s)
        /\ result[w].parts \cap PartsOf(s) = {} /\ Owned(w) = result[w].parts \cup PartsOf(s)
    BY <1>1, ThreadFacts DEF Fits
  <1>3. colstacks' \subseteq Pids /\ cols' \in [Threads -> SUBSET Pids] /\ rows' \in [Threads -> Nat]
        /\ pc \in [Threads -> Labels] /\ result \in [Threads -> Results]
    BY <1>1 DEF TaskInv, TypeOK
  <1>4. {"merge", "fail", "check"} \subseteq Labels /\ {"merge", "check"} \subseteq Active
    BY DEF Labels, Active
  <1>5. CASE s # <<>> /\ top.level = result[w].level
    <2>1. /\ top \in G /\ t \in Seq(G) /\ Apart(t)
          /\ PartsOf(s) = PartsOf(t) \cup top.parts /\ PartsOf(t) \cap top.parts = {}
      BY <1>2, <1>5, WithoutLast
    <2>2. CASE CombineFails(top, result[w])
      <3>1. Move(w, "fail", result[w], t)
        BY <1>3, <1>5, <2>2 DEF MergeLevels, Move, Goto
      <3>2. Fallible
        BY <2>2 DEF CombineFails, Fallible
      <3>3. result[w].parts \cap PartsOf(t) = {} /\ result[w].parts \cup PartsOf(t) \subseteq Owned(w)
        BY <1>2, <2>1
      <3>. HIDE DEF t
      <3>. QED
        BY <1>1, <1>2, <1>3, <1>4, <2>1, <3>1, <3>2, <3>3, QuietStep, Zenon DEF Fits, Quiet
    <2>3. CASE ~CombineFails(top, result[w])
      <3>. DEFINE r == Combine(top, result[w])
      <3>1. r \in G /\ r.parts = top.parts \cup result[w].parts
        BY <1>2, <2>1, <2>3, CombineGood
      <3>2. Move(w, "merge", r, t)
        BY <1>1, <1>3, <1>5, <2>3 DEF MergeLevels, Move
      <3>. HIDE DEF r, t
      <3>3. r.parts \cap PartsOf(t) = {} /\ r.parts \cup PartsOf(t) = Owned(w)
        BY <1>2, <2>1, <3>1
      <3>. QED
        BY <1>1, <1>2, <1>3, <1>4, <2>1, <3>1, <3>2, <3>3, QuietStep, Zenon DEF Fits, Quiet
    <2>. QED
      BY <2>2, <2>3
  <1>6. CASE ~(s # <<>> /\ top.level = result[w].level)
    <2>. DEFINE u == Append(s, result[w])
    <2>1. u \in Seq(G) /\ Apart(u) /\ PartsOf(u) = Owned(w)
      BY <1>2, AppendResult
    <2>2. Move(w, "check", NoResult, u)
      BY <1>6 DEF MergeLevels, Move, Goto
    <2>3. NoResult \in G /\ NoResult.parts = {}
      BY <1>2, NoResultGood
    <2>. HIDE DEF u
    <2>4. NoResult.parts \cap PartsOf(u) = {} /\ NoResult.parts \cup PartsOf(u) = Owned(w)
      BY <2>1, <2>3
    <2>. QED
      BY <1>1, <1>2, <1>3, <1>4, <2>1, <2>2, <2>3, <2>4, QuietStep, Zenon DEF Fits, Quiet
  <1>. QED
    BY <1>5, <1>6

\* CheckCompleted preserves the invariant.
LEMMA CheckStep ==
  ASSUME Library, TaskInv, query' = query, NEW w \in Threads, CheckCompleted(w)
  PROVE  TaskInv' /\ AnswerStep
  <1>. DEFINE G == Goods(query)
              l == CASE completed -> "leave"
                     [] ~completed /\ SufficientRows(rows[w]) -> "combine"
                     [] OTHER -> "next"
  <1>1. /\ pc[w] = "check" /\ Goto(w, l)
        /\ UNCHANGED <<queued, batchIndex, completed, poisoned, stateVars, colstacks, outcome, localVars>>
    BY DEF CheckCompleted
  <1>2. /\ query \in Queries /\ result[w] \in G /\ stack[w] \in Seq(G) /\ Apart(stack[w])
        /\ result[w].parts \cap PartsOf(stack[w]) = {} /\ Owned(w) = result[w].parts \cup PartsOf(stack[w])
        /\ result[w] = NoResult
    BY <1>1, ThreadFacts DEF TaskInv, ThreadResults, Fits
  <1>3. colstacks' \subseteq Pids /\ cols' \in [Threads -> SUBSET Pids] /\ rows' \in [Threads -> Nat]
    BY <1>1 DEF TaskInv, TypeOK, localVars
  <1>4. /\ l \in {"leave", "combine", "next"} /\ (~completed => l \in {"combine", "next"})
        /\ {"leave", "combine", "next"} \subseteq Labels /\ {"combine", "next"} \subseteq Active
    BY DEF Labels, Active, TaskInv, TypeOK
  <1>5. Move(w, l, result[w], stack[w])
    BY <1>1, KeepResults DEF localVars
  <1>. HIDE DEF l
  <1>. QED
    BY <1>1, <1>2, <1>3, <1>4, <1>5, QuietStep, Zenon DEF localVars, Fits, Quiet

\* CombineLocal preserves the invariant.
LEMMA CombineStep ==
  ASSUME Library, TaskInv, query' = query, NEW w \in Threads, CombineLocal(w)
  PROVE  TaskInv' /\ AnswerStep
  <1>. DEFINE G == Goods(query)
              s == stack[w]
              t == Tail(s)
  <1>1. /\ pc[w] = "combine"
        /\ UNCHANGED <<queued, batchIndex, completed, poisoned, stateVars, colstacks, outcome, idx, rows, cols>>
    BY DEF CombineLocal
  <1>2. /\ query \in Queries /\ result[w] \in G /\ s \in Seq(G) /\ Apart(s)
        /\ result[w].parts \cap PartsOf(s) = {} /\ Owned(w) = result[w].parts \cup PartsOf(s)
    BY <1>1, ThreadFacts DEF Fits
  <1>3. colstacks' \subseteq Pids /\ cols' \in [Threads -> SUBSET Pids] /\ rows' \in [Threads -> Nat]
        /\ pc \in [Threads -> Labels] /\ result \in [Threads -> Results]
    BY <1>1 DEF TaskInv, TypeOK
  <1>4. {"combine", "fail_late", "colstack", "push"} \subseteq Labels /\ {"combine", "push"} \subseteq Active
    BY DEF Labels, Active
  <1>5. CASE s = <<>>
    <2>. DEFINE l == IF result[w] = NoResult THEN "colstack" ELSE "push"
    <2>1. Move(w, l, result[w], s)
      BY <1>5, KeepResults DEF CombineLocal
    <2>2. ASSUME NEW p \in Owned(w) PROVE l \in Active /\ p \in result[w].parts \cup PartsOf(s)
      BY <1>2, <1>4, <1>5, NoParts, NoResultGood
    <2>3. l \in {"colstack", "push"}
      OBVIOUS
    <2>. HIDE DEF l
    <2>. QED
      BY <1>1, <1>2, <1>3, <1>4, <1>5, <2>1, <2>2, <2>3, QuietStep, Zenon DEF Fits, Quiet
  <1>6. CASE s # <<>>
    <2>1. /\ s[1] \in G /\ t \in Seq(G) /\ Apart(t)
          /\ PartsOf(s) = PartsOf(t) \cup s[1].parts /\ PartsOf(t) \cap s[1].parts = {}
      BY <1>2, <1>6, WithoutFirst
    <2>2. CASE result[w] # NoResult /\ CombineFails(result[w], s[1])
      <3>1. Move(w, "fail_late", result[w], t)
        BY <1>3, <1>6, <2>2 DEF CombineLocal, Move, Goto
      <3>2. Fallible
        BY <2>2 DEF CombineFails, Fallible
      <3>3. result[w].parts \cap PartsOf(t) = {} /\ result[w].parts \cup PartsOf(t) \subseteq Owned(w)
        BY <1>2, <2>1
      <3>. HIDE DEF t
      <3>. QED
        BY <1>1, <1>2, <1>3, <1>4, <2>1, <3>1, <3>2, <3>3, QuietStep, Zenon DEF Fits, Quiet
    <2>3. CASE ~(result[w] # NoResult /\ CombineFails(result[w], s[1]))
      <3>. DEFINE r == IF result[w] = NoResult THEN s[1] ELSE Combine(result[w], s[1])
      <3>1. r \in G /\ r.parts = result[w].parts \cup s[1].parts
        <4>1. CASE result[w] = NoResult
          BY <1>2, <2>1, <4>1, NoResultGood
        <4>2. CASE result[w] # NoResult
          <5>1. result[w].parts \cap s[1].parts = {}
            BY <1>2, <2>1
          <5>. QED
            BY <1>2, <2>1, <2>3, <4>2, <5>1, CombineGood, Zenon
        <4>. QED
          BY <4>1, <4>2
      <3>2. Move(w, "combine", r, t)
        BY <1>1, <1>3, <1>6, <2>3 DEF CombineLocal, Move
      <3>. HIDE DEF r, t
      <3>3. r.parts \cap PartsOf(t) = {} /\ r.parts \cup PartsOf(t) = Owned(w)
        BY <1>2, <2>1, <3>1, Zenon
      <3>. QED
        BY <1>1, <1>2, <1>3, <1>4, <2>1, <3>1, <3>2, <3>3, QuietStep, Zenon DEF Fits, Quiet
    <2>. QED
      BY <2>2, <2>3
  <1>. QED
    BY <1>5, <1>6

\* A poisoned mutex means that a thread has panicked.
LEMMA PoisonedStep ==
  ASSUME Library, TaskInv, query' = query, NEW w \in Threads, Unwind(w), poisoned,
         pc[w] \notin {"unwind", "dead", "unborn"},
         UNCHANGED <<queued, batchIndex, completed, poisoned, stateVars, outcome, colstacks>>
  PROVE  TaskInv' /\ AnswerStep
  <1>1. Cancelable
    BY DEF TaskInv, Causes
  <1>2. completedBatches \in Nat /\ rowsCollected \in Nat /\ poisoned \in BOOLEAN
    BY DEF TaskInv, TypeOK
  <1>. QED
    BY <1>1, <1>2, UnwindStep DEF stateVars

\* PushColstack preserves the invariant.
LEMMA ColstackStep ==
  ASSUME Library, TaskInv, query' = query, NEW w \in Threads, PushColstack(w)
  PROVE  TaskInv' /\ AnswerStep
  <1>. DEFINE G == Goods(query)
  <1>1. /\ pc[w] = "colstack"
        /\ UNCHANGED <<queued, batchIndex, completed, poisoned, stateVars, outcome>>
    BY DEF PushColstack
  <1>2. CASE poisoned
    BY <1>1, <1>2, PoisonedStep DEF PushColstack
  <1>3. CASE ~poisoned
    <2>1. Goto(w, "leave") /\ UNCHANGED localVars /\ colstacks' = colstacks \cup cols[w]
      BY <1>3 DEF PushColstack
    <2>2. /\ query \in Queries /\ result[w] \in G /\ stack[w] \in Seq(G) /\ Apart(stack[w])
          /\ result[w].parts \cap PartsOf(stack[w]) = {}
          /\ Owned(w) = result[w].parts \cup PartsOf(stack[w])
      BY <1>1, ThreadFacts DEF Fits
    <2>3. colstacks' \subseteq Pids /\ cols' \in [Threads -> SUBSET Pids] /\ rows' \in [Threads -> Nat]
      BY <2>1 DEF TaskInv, TypeOK, localVars
    <2>4. Move(w, "leave", result[w], stack[w])
      BY <2>1, KeepResults DEF localVars
    <2>5. "leave" \in Labels /\ pc[w] \notin Active
      BY <1>1 DEF Labels, Active
    <2>. QED
      BY <1>1, <2>1, <2>2, <2>3, <2>4, <2>5, QuietStep, Zenon DEF localVars, Fits, Quiet
  <1>. QED
    BY <1>2, <1>3

\* fetch_add hands out a partition that no thread has had.
LEMMA NextPartitionStep ==
  ASSUME Library, TaskInv, query' = query, NEW w \in Threads, NextPartition(w)
  PROVE  TaskInv' /\ AnswerStep
  <1>. DEFINE G == Goods(query)
              l == IF batchIndex < N THEN "execute" ELSE "combine"
              new == IF batchIndex < N THEN {batchIndex} ELSE {}
  <1>1. /\ pc[w] = "next" /\ batchIndex' = batchIndex + 1 /\ idx' = [idx EXCEPT ![w] = batchIndex]
        /\ Goto(w, l)
        /\ UNCHANGED <<queued, completed, poisoned, stateVars, colstacks, outcome, result, stack, rows, cols>>
    BY DEF NextPartition
  <1>2. /\ query \in Queries /\ result[w] \in G /\ stack[w] \in Seq(G) /\ Apart(stack[w])
        /\ result[w].parts \cap PartsOf(stack[w]) = {} /\ Owned(w) = result[w].parts \cup PartsOf(stack[w])
        /\ result[w] = NoResult
    BY <1>1, ThreadFacts, Zenon DEF TaskInv, ThreadResults, Fits
  <1>3. batchIndex \in Nat /\ N \in Nat /\ idx \in [Threads -> Nat] /\ Pids = 0..(N - 1)
    BY <1>2, QueryFacts DEF TaskInv, TypeOK
  <1>4. idx'[w] = batchIndex /\ idx' \in [Threads -> Nat] /\ \A v \in Threads \ {w} : idx'[v] = idx[v]
    BY <1>1, <1>3
  <1>5. Move(w, l, result[w], stack[w])
    BY <1>1, KeepResults
  <1>6. /\ l \in Labels /\ l \in Active /\ l \notin {"unborn", "idle", "next", "check", "push"}
        /\ l \notin {"unwind", "dead", "unborn", "fail", "fail_late"}
        /\ (l = "execute" <=> batchIndex < N)
    BY DEF Labels, Active
  <1>7. (batchIndex < N => batchIndex \in Pids) /\ new \subseteq Pids /\ \A p \in new : p = batchIndex
    BY <1>3
  <1>8. \A v \in Threads : \A p \in Owned(v) : p # batchIndex /\ p < batchIndex + 1 /\ p \in Pids
    BY <1>3 DEF TaskInv, Ownership
  <1>9. \A p \in PartsOf(partial) : p # batchIndex /\ p < batchIndex + 1 /\ p \in Pids
    BY <1>3 DEF TaskInv, Ownership
  <1>10. Alone(w, l, new \cup Owned(w))
    <2>1. l = "execute" => idx'[w] \in Pids /\ idx'[w] \notin result[w].parts \cup PartsOf(stack[w])
      BY <1>2, <1>4, <1>6, <1>7, <1>8
    <2>. HIDE DEF l, new
    <2>2. Alone(w, l, (IF l = "execute" THEN {idx'[w]} ELSE {}) \cup result[w].parts \cup PartsOf(stack[w]))
      BY <1>2, <1>4, <1>5, <1>6, <2>1, MoveStep, Zenon DEF Fits, LabelFits
    <2>3. (IF l = "execute" THEN {idx'[w]} ELSE {}) \cup result[w].parts \cup PartsOf(stack[w]) = new \cup Owned(w)
      BY <1>2, <1>4, <1>6, Zenon DEF new
    <2>. QED
      BY <2>2, <2>3
  <1>. USE DEF Alone
  <1>. HIDE DEF l, new
  <1>11. Ownership'
    <2>1. partial' = partial
      BY <1>1 DEF stateVars
    <2>2. \A v \in Threads : \A p \in Owned(v)' : p \in Owned(v) \/ (v = w /\ p \in new)
      BY <1>10
    <2>3. \A u, v \in Threads : u # v => Owned(u)' \cap Owned(v)' = {}
      BY <1>7, <1>8, <2>2 DEF TaskInv, Ownership
    <2>4. \A v \in Threads : Owned(v)' \cap PartsOf(partial') = {}
      BY <1>7, <1>9, <2>1, <2>2 DEF TaskInv, Ownership
    <2>5. \A v \in Threads : \A p \in Owned(v)' : p \in Pids /\ p < batchIndex + 1
      <3>1. batchIndex < batchIndex + 1
        BY <1>3
      <3>. QED
        BY <1>7, <1>8, <2>2, <3>1, Zenon
    <2>6. \A p \in PartsOf(partial') : p \in Pids /\ p < batchIndex + 1
      BY <1>9, <2>1
    <2>. QED
      BY <1>1, <2>3, <2>4, <2>5, <2>6, SameQuery DEF Ownership
  <1>12. (Calm' <=> Calm) /\ (Failed' <=> Failed)
    <2>1. Calm' <=> Calm
      BY <1>1, <1>6, <1>10, CalmKept
    <2>. QED
      BY <1>1, <1>6, <1>10, <2>1, Zenon DEF Failed
  <1>13. Covered'
    <2>. SUFFICES ASSUME Calm', outcome' = Pending, ~Failed', NEW p \in Pids, p < batchIndex'
                 PROVE  p \in PartsOf(partial') \/ \E v \in Threads : pc'[v] \in Active /\ p \in Owned(v)'
      BY SameQuery DEF Covered, Active, Pending
    <2>1. CASE p = batchIndex
      <3>1. p \in new
        BY <1>3, <2>1 DEF new
      <3>. QED
        BY <1>6, <1>10, <3>1
    <2>2. CASE p < batchIndex
      <3>1. Calm /\ outcome = Pending /\ ~Failed
        BY <1>1, <1>12
      <3>2. p \in PartsOf(partial) \/ \E v \in Threads : pc[v] \in Active /\ p \in Owned(v)
        BY <2>2, <3>1 DEF TaskInv, Covered
      <3>3. \A v \in Threads : pc[v] \in Active /\ p \in Owned(v) => pc'[v] \in Active /\ p \in Owned(v)'
        BY <1>6, <1>10
      <3>. QED
        BY <1>1, <3>2, <3>3 DEF stateVars
    <2>. QED
      BY <1>1, <1>3, <2>1, <2>2
  <1>14. Counted' /\ SharedResults'
    BY <1>1, SameQuery, Zenon DEF TaskInv, Counted, SharedResults, stateVars, Pending
  <1>15. Causes'
    <2>1. TaskCompleted => TaskCompleted'
      BY <1>1, <1>3, SameQuery DEF TaskCompleted
    <2>2. outcome' = Canceled => ~Calm'
      BY <1>1, <1>12 DEF TaskInv, Causes, Canceled
    <2>. QED
      BY <1>1, <1>12, <2>1, <2>2, SameQuery DEF TaskInv, Causes, Pending
  <1>16. TypeOK'
    BY <1>1, <1>3, <1>4, <1>10, SameQuery DEF TaskInv, TypeOK, stateVars
  <1>. QED
    BY <1>1, <1>10, <1>11, <1>13, <1>14, <1>15, <1>16, Zenon DEF TaskInv, AnswerStep

=============================================================================
