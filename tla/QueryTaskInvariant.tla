------------------------ MODULE QueryTaskInvariant ---------------------------
(***************************************************************************)
(* The steps of QueryTask that answer the query or drop the task, and so    *)
(* the proof that TaskInv is an invariant.                                  *)
(***************************************************************************)
EXTENDS QueryTaskSteps

\* The sender is used, now or before.
Given == [kind : {"error", "canceled", "rows"}, parts : SUBSET Pids, len : Nat]
Answered == outcome' \in Given /\ (outcome' = Canceled => outcome = Canceled)
Settled(w) ==
  /\ pc[w] \in {"fail", "fail_late", "push"}
  /\ UNCHANGED <<queued, poisoned, colstacks, idx, rows, cols>>
  /\ partial' \in {partial, <<>>} /\ batchIndex' \in {batchIndex, N}
  /\ completed' \in {completed, TRUE} /\ completedBatches' \in Nat /\ rowsCollected' \in Nat

\* A step of one thread after which the query is answered preserves the invariant.
LEMMA AnsweredStep ==
  ASSUME Library, TaskInv, query' = query, NEW w \in Threads, NEW l \in {"leave", "colstack"},
         NEW r, NEW s, Move(w, l, r, s), Fits(r, s), r.parts \cup PartsOf(s) \subseteq Owned(w),
         Settled(w), Answered, AnswerStep
  PROVE  TaskInv'
  <1>. USE DEF Fits
  <1>0. query \in Queries /\ N \in Nat /\ batchIndex \in Nat
    BY QueryFacts DEF TaskInv, TypeOK
  <1>1. outcome' # Pending
    BY DEF Pending, Answered, Given
  <1>2. l \in Labels /\ l \notin {"unborn", "idle", "next", "execute", "check", "push"}
        /\ l \notin {"unwind", "dead", "fail", "fail_late"}
    BY DEF Labels
  <1>3. Alone(w, l, r.parts \cup PartsOf(s))
    <2>1. \A v \in Threads \ {w} : idx'[v] = idx[v]
      BY DEF Settled
    <2>2. LabelFits(l, idx'[w], r, s) /\ l # "execute"
      BY <1>2 DEF LabelFits
    <2>3. Alone(w, l, (IF l = "execute" THEN {idx'[w]} ELSE {}) \cup r.parts \cup PartsOf(s))
      BY <1>2, <2>1, <2>2, MoveStep
    <2>. QED
      BY <2>2, <2>3
  <1>. USE DEF Alone
  <1>4. Ownership' /\ SharedResults'
    <2>1. \A v \in Threads : Owned(v)' \subseteq Owned(v)
      BY <1>3, Zenon
    <2>. QED
      BY <2>1, OwnershipKept DEF Settled
  <1>5. Counted' /\ Covered'
    BY <1>1 DEF Counted, Covered, Pending
  <1>6. (Calm' <=> Calm) /\ (Failed' => Failed)
    <2>1. Calm' <=> Calm
      BY <1>2, <1>3, CalmKept, Zenon DEF Settled
    <2>. QED
      BY <1>2, <1>3, <2>1, Zenon DEF Failed
  <1>7. Causes'
    <2>1. TaskCompleted => TaskCompleted'
      <3>1. batchIndex >= N => batchIndex' >= N
        BY <1>0 DEF Settled
      <3>2. completed => completed'
        BY Zenon DEF Settled
      <3>. QED
        BY <3>1, <3>2, SameQuery, Zenon DEF TaskCompleted
    <2>2. outcome' = Canceled => ~Calm'
      BY <1>6 DEF TaskInv, Causes, Canceled, Answered
    <2>3. ~queued' /\ Calm' => TaskCompleted'
      BY <1>6, <2>1, Zenon DEF TaskInv, Causes, Settled
    <2>4. poisoned' => ~Calm'
      BY <1>6, Zenon DEF TaskInv, Causes, Settled
    <2>5. outcome'.kind # "pending"
      BY DEF Answered, Given
    <2>. QED
      BY <1>1, <1>6, <2>2, <2>3, <2>4, <2>5, SameQuery DEF TaskInv, Causes, Pending
  <1>8. TypeOK'
    <2>1. partial' \in Seq(Results)
      <3>1. <<>> \in Seq(Results)
        OBVIOUS
      <3>. QED
        BY <3>1, Zenon DEF TaskInv, TypeOK, Settled
    <2>2. batchIndex' \in Nat /\ completed' \in BOOLEAN
      BY <1>0, Zenon DEF TaskInv, TypeOK, Settled
    <2>3. outcome' \in [kind : {"pending", "error", "canceled", "rows"}, parts : SUBSET Pids, len : Nat]
      BY DEF Answered, Given
    <2>. QED
      BY <1>3, <2>1, <2>2, <2>3, SameQuery DEF TaskInv, TypeOK, Settled
  <1>. QED
    BY <1>3, <1>4, <1>5, <1>7, <1>8 DEF TaskInv

\* An answer that has been given stays.
LEMMA StillAnswered ==
  ASSUME Library, TaskInv, outcome # Pending
  PROVE  outcome \in Given
  <1>1. outcome \in [kind : {"pending", "error", "canceled", "rows"}, parts : SUBSET Pids, len : Nat]
    BY DEF TaskInv, TypeOK
  <1>2. outcome.kind # "pending"
    BY DEF TaskInv, Causes
  <1>. QED
    BY <1>1, <1>2 DEF Given

\* An error is sent.
LEMMA ErrorSent ==
  ASSUME Library, TaskInv, Fallible, Send(Error)
  PROVE  Answered /\ AnswerStep
  <1>1. CASE outcome = Pending
    <2>1. outcome' = Error
      BY <1>1 DEF Send
    <2>2. Error # Canceled /\ Error \in Given
      BY DEF Error, Canceled, Given
    <2>. QED
      BY <1>1, <2>1, <2>2 DEF AnswerStep, Answered
  <1>2. CASE outcome # Pending
    <2>1. outcome' = outcome
      BY <1>2 DEF Send
    <2>. QED
      BY <1>2, <2>1, StillAnswered DEF AnswerStep, Answered
  <1>. QED
    BY <1>1, <1>2

\* FailWith preserves the invariant, and may send an error because something has failed.
LEMMA FailStep ==
  ASSUME Library, TaskInv, query' = query, NEW w \in Threads, FailWith(w)
  PROVE  TaskInv' /\ AnswerStep
  <1>. DEFINE l == IF pc[w] = "fail" THEN "leave" ELSE "colstack"
  <1>1. pc[w] \in {"fail", "fail_late"} /\ UNCHANGED <<queued, poisoned, stateVars, colstacks>>
    BY DEF FailWith
  <1>2. CASE poisoned
    BY <1>1, <1>2, PoisonedStep DEF FailWith
  <1>3. CASE ~poisoned
    <2>1. /\ IF completed THEN UNCHANGED <<completed, batchIndex, outcome>> ELSE FailWithNoLock
          /\ Goto(w, l) /\ UNCHANGED localVars
      BY <1>3 DEF FailWith
    <2>2. Fits(result[w], stack[w]) /\ result[w].parts \cup PartsOf(stack[w]) \subseteq Owned(w)
      BY ThreadFacts
    <2>3. Move(w, l, result[w], stack[w]) /\ l \in {"leave", "colstack"}
      BY <2>1, KeepResults DEF localVars
    <2>4. Answered /\ AnswerStep
      <3>1. CASE completed
        <4>1. outcome # Pending /\ outcome' = outcome
          BY <2>1, <3>1 DEF TaskInv, Causes
        <4>. QED
          BY <4>1, StillAnswered DEF AnswerStep, Answered
      <3>2. CASE ~completed
        <4>1. Failed
          BY <1>1 DEF Failed
        <4>2. Fallible /\ Send(Error)
          BY <2>1, <3>2, <4>1 DEF FailWithNoLock, TaskInv, Causes
        <4>. QED
          BY <4>2, ErrorSent
      <3>. QED
        BY <3>1, <3>2
    <2>5. batchIndex' \in {batchIndex, N} /\ completed' \in {completed, TRUE}
      BY <2>1, Zenon DEF FailWithNoLock
    <2>6. completedBatches' \in Nat /\ rowsCollected' \in Nat /\ partial' = partial
      BY <1>1 DEF TaskInv, TypeOK, stateVars
    <2>. HIDE DEF l
    <2>7. Settled(w)
      BY <1>1, <2>1, <2>5, <2>6, Zenon DEF localVars, Settled
    <2>. QED
      BY <2>2, <2>3, <2>4, <2>7, AnsweredStep
  <1>. QED
    BY <1>2, <1>3

\* The partitions of a result that is pushed, and their number.
Pushed(w, results, batches) ==
  /\ results \in Seq(Goods(query)) /\ Apart(results)
  /\ PartsOf(results) = PartsOf(partial) \cup Owned(w)
  /\ PartsOf(results) \subseteq Pids /\ batches \in Nat
  /\ outcome = Pending /\ ~poisoned =>
       /\ batches = Cardinality(PartsOf(results)) /\ batches <= N
       /\ batches = N => PartsOf(results) = Pids

\* The counts of push_result: completed_batches is N just when every partition is there.
LEMMA PushFacts ==
  ASSUME Library, TaskInv, NEW w \in Threads, pc[w] = "push"
  PROVE  Pushed(w, Append(partial, result[w]), completedBatches + result[w].count)
  <1>. DEFINE G == Goods(query)
              results == Append(partial, result[w])
              batches == completedBatches + result[w].count
  <1>1. /\ query \in Queries /\ result[w] \in G /\ stack[w] = <<>>
        /\ Owned(w) = result[w].parts
    BY ThreadFacts, NoParts, Zenon DEF TaskInv, ThreadResults, Fits
  <1>2. partial \in Seq(G) /\ Apart(partial) /\ result[w].parts \cap PartsOf(partial) = {}
    BY <1>1 DEF TaskInv, SharedResults, Ownership
  <1>3. /\ results \in Seq(G) /\ Apart(results)
        /\ PartsOf(results) = PartsOf(partial) \cup result[w].parts
    BY <1>1, <1>2, AppendResult
  <1>4. PartsOf(partial) \subseteq Pids /\ result[w].parts \subseteq Pids
    BY <1>1 DEF TaskInv, Ownership
  <1>5. /\ completedBatches \in Nat /\ result[w].count \in Nat /\ result[w].count = Cardinality(result[w].parts)
    BY <1>1, GoodFacts DEF TaskInv, TypeOK
  <1>6. batches \in Nat
    BY <1>5
  <1>7. N \in Nat
    BY <1>1, QueryFacts
  <1>9. Cardinality(PartsOf(results)) = Cardinality(PartsOf(partial)) + Cardinality(result[w].parts)
    <2>1. PartsOf(partial) \cap result[w].parts = {}
      BY <1>2
    <2>2. Cardinality(PartsOf(partial) \cup result[w].parts)
            = Cardinality(PartsOf(partial)) + Cardinality(result[w].parts)
      BY <1>1, <1>4, <2>1, CountFacts
    <2>. QED
      BY <1>3, <2>2
  <1>10. PartsOf(results) \subseteq Pids
    BY <1>3, <1>4
  <1>11. /\ Cardinality(PartsOf(results)) <= N
         /\ Cardinality(PartsOf(results)) = N => PartsOf(results) = Pids
    BY <1>1, <1>10, CountFacts
  <1>12. outcome = Pending /\ ~poisoned => completedBatches = Cardinality(PartsOf(partial))
    BY DEF TaskInv, Counted
  <1>13. outcome = Pending /\ ~poisoned => batches = Cardinality(PartsOf(results))
    BY <1>5, <1>9, <1>12
  <1>. HIDE DEF results, batches
  <1>14. outcome = Pending /\ ~poisoned =>
           batches <= N /\ (batches = N => PartsOf(results) = Pids)
    BY <1>11, <1>13
  <1>. QED
    BY <1>1, <1>3, <1>6, <1>10, <1>13, <1>14 DEF results, batches, Pushed

\* combine_results finds any two partitions that clash.
LEMMA ClashFound ==
  ASSUME Library, query \in Queries, NEW s \in Seq(Goods(query)), ~CombineResultsFails(s), NEW c \in Clashes
  PROVE  ~(c \subseteq PartsOf(s))
  <1>. SUFFICES ASSUME c \subseteq PartsOf(s) PROVE FALSE
    OBVIOUS
  <1>1. \E p, q \in Pids : c = {p, q}
    BY QueryFacts, Zenon
  <1>2. PICK p \in Pids, q \in Pids : c = {p, q}
    BY <1>1
  <1>3. p \in PartsOf(s) /\ q \in PartsOf(s)
    BY <1>2
  <1>4. PICK i \in DOMAIN s : p \in s[i].parts
    BY <1>3, PartsOfMember
  <1>5. PICK j \in DOMAIN s : q \in s[j].parts
    BY <1>3, PartsOfMember
  <1>6. i \in Nat /\ j \in Nat /\ s[i] \in Goods(query)
    <2>1. DOMAIN s = 1..Len(s) /\ Len(s) \in Nat
      OBVIOUS
    <2>. QED
      BY <2>1
  <1>7. CASE i = j
    <2>1. c \subseteq s[i].parts
      BY <1>2, <1>4, <1>5, <1>7
    <2>. QED
      BY <1>6, <2>1, GoodFacts
  <1>8. CASE i < j
    <2>1. CombineFails(s[i], s[j])
      BY <1>2, <1>4, <1>5, Zenon DEF CombineFails
    <2>. QED
      BY <1>8, <2>1 DEF CombineResultsFails
  <1>9. CASE j < i
    <2>1. {q, p} \in Clashes
      BY <1>2, Zenon
    <2>2. CombineFails(s[j], s[i])
      BY <1>4, <1>5, <2>1, Zenon DEF CombineFails
    <2>. QED
      BY <1>9, <2>2 DEF CombineResultsFails
  <1>. QED
    BY <1>6, <1>7, <1>8, <1>9

\* The thread's result is moved into the shared state.
LEMMA MovedFacts ==
  ASSUME Library, TaskInv, NEW w \in Threads, pc[w] = "push", Goto(w, "colstack"), Moved(w)
  PROVE  /\ Move(w, "colstack", NoResult, <<>>) /\ UNCHANGED <<idx, rows, cols>>
         /\ Fits(NoResult, <<>>) /\ NoResult.parts \cup PartsOf(<<>>) = {}
  <1>1. stack[w] = <<>> /\ stack \in [Threads -> Seq(Results)]
    BY DEF TaskInv, ThreadResults, TypeOK
  <1>2. query \in Queries
    BY DEF TaskInv, TypeOK
  <1>3. NoResult \in Goods(query) /\ NoResult.parts = {}
    BY <1>2, NoResultGood
  <1>4. stack' = [stack EXCEPT ![w] = <<>>]
    BY <1>1 DEF Moved
  <1>5. Move(w, "colstack", NoResult, <<>>) /\ UNCHANGED <<idx, rows, cols>>
    BY <1>4, Zenon DEF Move, Moved, Goto
  <1>6. <<>> \in Seq(Goods(query))
    OBVIOUS
  <1>. QED
    BY <1>3, <1>5, <1>6, NoParts DEF Fits

\* The query is complete.
LEMMA CompleteStep ==
  ASSUME Library, TaskInv, query' = query, NEW w \in Threads, pc[w] = "push", ~poisoned, ~completed,
         Complete(w, Append(partial, result[w])),
         completedBatches + result[w].count = N \/ Kind = "select",
         partial' = <<>>, completedBatches' \in Nat, rowsCollected' \in Nat,
         UNCHANGED <<queued, colstacks>>
  PROVE  TaskInv' /\ AnswerStep
  <1>. DEFINE results == Append(partial, result[w])
  <1>1. /\ results \in Seq(Goods(query)) /\ PartsOf(results) \subseteq Pids /\ query \in Queries
        /\ outcome = Pending => (Kind = "select" \/ PartsOf(results) = Pids)
    BY PushFacts DEF TaskInv, TypeOK, Pushed
  <1>2. results # <<>>
    <2>1. partial \in Seq(Results)
      BY DEF TaskInv, TypeOK
    <2>. QED
      BY <2>1
  <1>3. Complete(w, results)
    OBVIOUS
  <1>. HIDE DEF results
  <1>4. Limit \in Nat \ {0} /\ Offset \in Nat
    BY <1>1, QueryFacts
  <1>5. LenOf(results) \in Nat
    <2>1. \A r \in Goods(query) : r.len \in Nat
      BY <1>1, GoodFacts
    <2>2. \A m, n \in Nat : CombinedLen(m, n) \in Nat
      BY <1>1, CombinedLenNat, Zenon
    <2>. QED
      BY <1>1, <1>2, <2>1, <2>2, LenOfNat, Zenon
  <1>6. ASSUME Answered, AnswerStep, completed' = TRUE, batchIndex' \in {batchIndex, N},
               Goto(w, "colstack"), Moved(w), UNCHANGED poisoned
        PROVE  TaskInv'
    <2>1. /\ Move(w, "colstack", NoResult, <<>>) /\ UNCHANGED <<idx, rows, cols>>
          /\ Fits(NoResult, <<>>) /\ NoResult.parts \cup PartsOf(<<>>) \subseteq Owned(w)
      BY <1>6, MovedFacts
    <2>2. Settled(w)
      BY <1>6, <2>1, Zenon DEF Settled
    <2>3. ASSUME NEW r, NEW s, Move(w, "colstack", r, s), Fits(r, s), r.parts \cup PartsOf(s) \subseteq Owned(w)
          PROVE  TaskInv'
      BY <1>6, <2>2, <2>3, AnsweredStep
    <2>. QED
      BY <2>1, <2>3, Zenon
  <1>7. CASE CombineResultsFails(results)
    <2>1. FailWithNoLock /\ Goto(w, "colstack") /\ Moved(w) /\ UNCHANGED poisoned
      BY <1>3, <1>7 DEF Complete
    <2>2. Fallible
      BY <1>7 DEF CombineResultsFails, CombineFails, Fallible
    <2>3. Answered /\ AnswerStep
      BY <2>1, <2>2, ErrorSent DEF FailWithNoLock
    <2>. QED
      BY <1>6, <2>1, <2>3 DEF FailWithNoLock
  <1>8. CASE /\ FinalPanics \/ OutputPanics(LenOf(results))
             /\ poisoned' = TRUE /\ Unwind(w)
             /\ UNCHANGED <<completed, batchIndex, outcome>>
    <2>1. Cancelable
      BY <1>4, <1>5, <1>8 DEF Cancelable, OutputPanics
    <2>. QED
      BY <1>8, <2>1, UnwindStep
  <1>9. CASE /\ ~CombineResultsFails(results) /\ ~OutputPanics(LenOf(results))
             /\ Send(Rows(PartsOf(results), OutputLen(LenOf(results))))
             /\ completed' = TRUE
             /\ Goto(w, "colstack") /\ Moved(w)
             /\ UNCHANGED <<batchIndex, poisoned>>
    <2>1. Answered /\ AnswerStep
      <3>1. CASE outcome = Pending
        <4>. DEFINE a == Rows(PartsOf(results), OutputLen(LenOf(results)))
        <4>1. OutputLen(LenOf(results)) \in Nat
          BY <1>4, <1>5, <1>9 DEF OutputLen, OutputPanics, Least
        <4>2. outcome' = a
          BY <1>9, <3>1 DEF Send
        <4>3. a \in Given /\ a # Canceled /\ a.kind = "rows" /\ a.parts = PartsOf(results)
          BY <1>1, <4>1 DEF Rows, Canceled, Given
        <4>4. \A c \in Clashes : ~(c \subseteq PartsOf(results))
          BY <1>1, <1>9, ClashFound
        <4>. HIDE DEF a
        <4>. QED
          BY <1>1, <3>1, <4>2, <4>3, <4>4 DEF AnswerStep, Answered
      <3>2. CASE outcome # Pending
        <4>1. outcome' = outcome
          BY <1>9, <3>2 DEF Send
        <4>. QED
          BY <3>2, <4>1, StillAnswered DEF AnswerStep, Answered
      <3>. QED
        BY <3>1, <3>2
    <2>. QED
      BY <1>6, <1>9, <2>1
  <1>. QED
    BY <1>3, <1>7, <1>8, <1>9, Zenon DEF Complete

\* PushResult preserves the invariant, and an answer it sends is made from the right partitions.
LEMMA PushStep ==
  ASSUME Library, TaskInv, query' = query, NEW w \in Threads, PushResult(w)
  PROVE  TaskInv' /\ AnswerStep
  <1>. DEFINE G == Goods(query)
              batches == completedBatches + result[w].count
              collected == rowsCollected + rows[w]
              results == Append(partial, result[w])
  <1>1. pc[w] = "push" /\ UNCHANGED <<queued, colstacks>>
    BY DEF PushResult
  <1>2. /\ results \in Seq(G) /\ Apart(results)
        /\ PartsOf(results) = PartsOf(partial) \cup Owned(w)
        /\ PartsOf(results) \subseteq Pids /\ batches \in Nat
        /\ outcome = Pending /\ ~poisoned => batches = Cardinality(PartsOf(results)) /\ batches <= N
    BY <1>1, PushFacts DEF Pushed
  <1>3. collected \in Nat /\ query \in Queries /\ N \in Nat
    BY QueryFacts DEF TaskInv, TypeOK
  <1>4. CASE poisoned
    BY <1>1, <1>4, PoisonedStep DEF PushResult
  <1>5. ASSUME ~poisoned, Goto(w, "colstack"), Moved(w)
        PROVE  /\ Move(w, "colstack", NoResult, <<>>) /\ UNCHANGED <<idx, rows, cols>>
               /\ Fits(NoResult, <<>>) /\ NoResult.parts \cup PartsOf(<<>>) = {}
    BY <1>1, <1>5, MovedFacts
  <1>6. CASE ~poisoned /\ completed
    <2>1. /\ Goto(w, "colstack") /\ Moved(w)
          /\ UNCHANGED <<completed, batchIndex, outcome, poisoned, stateVars>>
      BY <1>6 DEF PushResult
    <2>2. outcome # Pending
      BY <1>6 DEF TaskInv, Causes
    <2>3. completedBatches' \in Nat /\ rowsCollected' \in Nat /\ partial' = partial
      BY <2>1 DEF TaskInv, TypeOK, stateVars
    <2>4. Answered /\ AnswerStep
      BY <2>1, <2>2, StillAnswered DEF AnswerStep, Answered
    <2>5. NoResult.parts \cup PartsOf(<<>>) \subseteq Owned(w)
      BY <1>5, <1>6, <2>1
    <2>6. Settled(w)
      BY <1>1, <1>5, <1>6, <2>1, <2>3, Zenon DEF Settled
    <2>7. ASSUME NEW r, NEW s, Move(w, "colstack", r, s), Fits(r, s), r.parts \cup PartsOf(s) \subseteq Owned(w)
          PROVE  TaskInv'
      BY <2>4, <2>6, <2>7, AnsweredStep
    <2>. QED
      BY <1>5, <1>6, <2>1, <2>4, <2>5, <2>7, Zenon
  <1>7. CASE ~poisoned /\ ~completed /\ (batches = N \/ SufficientRows(collected))
    <2>1. /\ completedBatches' = batches /\ rowsCollected' = collected
          /\ partial' = <<>> /\ Complete(w, results)
      BY <1>7 DEF PushResult
    <2>2. batches = N \/ Kind = "select"
      BY <1>7 DEF SufficientRows
    <2>. QED
      BY <1>1, <1>2, <1>3, <1>7, <2>1, <2>2, CompleteStep
  <1>8. CASE ~poisoned /\ ~completed /\ ~(batches = N \/ SufficientRows(collected))
    <2>1. /\ completedBatches' = batches /\ rowsCollected' = collected /\ partial' = results
          /\ Goto(w, "colstack") /\ Moved(w)
          /\ UNCHANGED <<completed, batchIndex, outcome, poisoned>>
      BY <1>8 DEF PushResult
    <2>. HIDE DEF results, batches, collected
    <2>2. Alone(w, "colstack", {})
      <3>1. Move(w, "colstack", NoResult, <<>>) /\ \A v \in Threads \ {w} : idx'[v] = idx[v]
        BY <1>5, <1>8, <2>1
      <3>. QED
        BY <3>1, EmptyMove
    <2>. USE DEF Alone
    <2>3. Ownership'
      <3>1. \A v \in Threads : Owned(v)' \subseteq Owned(v) /\ Owned(v)' \cap Owned(w) = {}
        BY <2>2 DEF TaskInv, Ownership
      <3>2. \A v, u \in Threads : v # u => Owned(v)' \cap Owned(u)' = {}
        BY <3>1 DEF TaskInv, Ownership
      <3>3. \A v \in Threads : Owned(v)' \cap PartsOf(partial') = {}
        BY <1>2, <2>1, <3>1 DEF TaskInv, Ownership
      <3>4. \A p \in PartsOf(partial') : p \in Pids /\ p < batchIndex
        BY <1>2, <2>1 DEF TaskInv, Ownership
      <3>5. \A v \in Threads : \A p \in Owned(v)' : p \in Pids /\ p < batchIndex
        BY <3>1 DEF TaskInv, Ownership
      <3>. QED
        BY <2>1, <3>2, <3>3, <3>4, <3>5, SameQuery DEF Ownership
    <2>4. SharedResults'
      BY <1>2, <2>1 DEF SharedResults
    <2>5. Counted'
      <3>. SUFFICES ASSUME outcome = Pending
                   PROVE  completedBatches' = Cardinality(PartsOf(partial')) /\ completedBatches' < N
        BY <2>1, SameQuery DEF Counted, Pending
      <3>1. batches # N /\ batches = Cardinality(PartsOf(results)) /\ batches <= N
        BY <1>2, <1>8
      <3>2. batches \in Nat /\ batches < N
        BY <1>2, <1>3, <3>1
      <3>. QED
        BY <2>1, <3>1, <3>2
    <2>6. (Calm' <=> Calm) /\ (Failed' <=> Failed)
      <3>1. Calm' <=> Calm
        BY <1>1, <2>2, CalmKept
      <3>. QED
        BY <1>1, <2>2, <3>1 DEF Failed
    <2>7. Covered'
      <3>. SUFFICES ASSUME Calm', outcome' = Pending, ~Failed', NEW p \in Pids, p < batchIndex'
                   PROVE  p \in PartsOf(partial') \/ \E v \in Threads : pc'[v] \in Active /\ p \in Owned(v)'
        BY SameQuery DEF Covered, Active, Pending
      <3>1. p \in PartsOf(partial) \/ \E v \in Threads : pc[v] \in Active /\ p \in Owned(v)
        BY <2>1, <2>6 DEF TaskInv, Covered
      <3>. QED
        BY <1>2, <2>1, <2>2, <3>1
    <2>8. Causes'
      <3>1. TaskCompleted' <=> TaskCompleted
        BY <2>1, SameQuery DEF TaskCompleted
      <3>2. outcome' = Canceled => ~Calm'
        BY <2>1, <2>6 DEF TaskInv, Causes, Canceled
      <3>. QED
        BY <1>1, <2>1, <2>6, <3>1, <3>2, SameQuery DEF TaskInv, Causes, Pending
    <2>9. TypeOK'
      <3>1. results \in Seq(Results)
        <4>1. G \subseteq Results
          BY <1>3, GoodFacts
        <4>. QED
          BY <1>2, <4>1
      <3>2. UNCHANGED <<idx, rows, cols>>
        BY <1>5, <1>8, <2>1
      <3>. QED
        BY <1>1, <1>2, <1>3, <2>1, <2>2, <3>1, <3>2, SameQuery DEF TaskInv, TypeOK
    <2>. QED
      BY <2>1, <2>2, <2>3, <2>4, <2>5, <2>7, <2>8, <2>9 DEF TaskInv, AnswerStep
  <1>. QED
    BY <1>4, <1>6, <1>7, <1>8

-----------------------------------------------------------------------------
(* Dropping the task.                                                        *)

\* The last reference goes with the query answered, unless a thread has panicked or
\* recover() has been called: a claimed partition that no thread has is in the shared
\* state, all of them are claimed, and completed_batches would be N.
LEMMA AnsweredBeforeDrop ==
  ASSUME Library, TaskInv, Calm, TaskCompleted,
         \A v \in Threads : pc[v] \notin Active /\ pc[v] \notin {"fail", "fail_late"}
  PROVE  outcome # Pending
  <1>. SUFFICES ASSUME outcome = Pending PROVE FALSE
    OBVIOUS
  <1>1. query \in Queries /\ N \in Nat /\ batchIndex \in Nat /\ Pids = 0..(N - 1) /\ Cardinality(Pids) = N
    BY QueryFacts DEF TaskInv, TypeOK
  <1>2. ~completed /\ ~poisoned /\ ~Failed
    BY DEF TaskInv, Causes, Failed
  <1>3. batchIndex >= N
    BY <1>2 DEF TaskCompleted
  <1>4. \A p \in Pids : p < batchIndex
    BY <1>1, <1>3
  <1>5. Pids \subseteq PartsOf(partial)
    BY <1>2, <1>4 DEF TaskInv, Covered
  <1>6. PartsOf(partial) \subseteq Pids
    BY DEF TaskInv, Ownership
  <1>7. PartsOf(partial) = Pids
    BY <1>5, <1>6
  <1>8. completedBatches = N /\ completedBatches < N
    BY <1>1, <1>2, <1>7 DEF TaskInv, Counted
  <1>. QED
    BY <1>1, <1>8

\* What the receiver sees of a drop.
Dropped(last) ==
  /\ outcome' \in [kind : {"pending", "error", "canceled", "rows"}, parts : SUBSET Pids, len : Nat]
  /\ outcome' # Pending => outcome'.kind # "pending"
  /\ outcome' = Pending => outcome = Pending /\ UNCHANGED partial
  /\ outcome' = outcome \/ (last /\ outcome = Pending /\ outcome' = Canceled)
  /\ partial' \in {partial, <<>>} /\ partial' \in Seq(Results) /\ colstacks' \subseteq Pids
  /\ outcome # Pending => outcome' # Pending
  /\ AnswerStep

\* Dropping a reference changes the outcome only if it is the last one and nothing was sent.
LEMMA DropSeen ==
  ASSUME Library, TaskInv, NEW last \in BOOLEAN, DropTask(last),
         last /\ outcome = Pending => Cancelable
  PROVE  Dropped(last)
  <1>. USE DEF Dropped
  <1>. DEFINE Seen == [kind : {"pending", "error", "canceled", "rows"}, parts : SUBSET Pids, len : Nat]
  <1>1. outcome \in Seen /\ partial \in Seq(Results) /\ colstacks \subseteq Pids
    BY DEF TaskInv, TypeOK
  <1>2. outcome # Pending => outcome.kind # "pending"
    BY DEF TaskInv, Causes
  <1>3. Canceled \in Seen /\ Canceled # Pending /\ Canceled.kind # "pending"
    BY DEF Canceled, Pending
  <1>4. <<>> \in Seq(Results)
    OBVIOUS
  <1>5. CASE last /\ outcome = Pending
    <2>1. outcome' = Canceled /\ partial' = <<>> /\ colstacks' = {}
      BY <1>5 DEF DropTask, Send
    <2>. QED
      BY <1>3, <1>4, <1>5, <2>1 DEF AnswerStep
  <1>6. CASE last /\ outcome # Pending
    <2>1. outcome' = outcome /\ partial' = <<>> /\ colstacks' = {}
      BY <1>6 DEF DropTask, Send
    <2>. QED
      BY <1>1, <1>2, <1>4, <1>6, <2>1 DEF AnswerStep
  <1>7. CASE ~last
    <2>1. UNCHANGED <<outcome, partial, colstacks>>
      BY <1>7 DEF DropTask
    <2>. QED
      BY <1>1, <1>2, <2>1 DEF AnswerStep
  <1>. QED
    BY <1>5, <1>6, <1>7

\* Leave preserves the invariant: the last thread to leave finds the query answered.
LEMMA LeaveStep ==
  ASSUME Library, TaskInv, query' = query, NEW w \in Threads, Leave(w)
  PROVE  TaskInv' /\ AnswerStep
  <1>. DEFINE l == IF pc[w] = "leave" THEN "idle" ELSE "dead"
              last == ~queued /\ Holders = {w}
  <1>1. /\ pc[w] \in {"leave", "unwind"} /\ Move(w, l, NoResult, <<>>) /\ DropTask(last)
        /\ rows' = [rows EXCEPT ![w] = 0] /\ cols' = [cols EXCEPT ![w] = {}] /\ idx' = [idx EXCEPT ![w] = 0]
        /\ UNCHANGED <<queued, batchIndex, completed, poisoned, completedBatches, rowsCollected>>
    BY DEF Leave, Move, Goto
  <1>2. /\ idx' \in [Threads -> Nat] /\ rows' \in [Threads -> Nat] /\ cols' \in [Threads -> SUBSET Pids]
        /\ \A v \in Threads \ {w} : idx'[v] = idx[v]
    BY <1>1 DEF TaskInv, TypeOK
  <1>3. l \in {"unwind", "colstack", "idle", "dead"} /\ last \in BOOLEAN
        /\ (l = "idle" <=> pc[w] = "leave") /\ (l = "dead" <=> pc[w] = "unwind")
    BY <1>1
  <1>. HIDE DEF l
  <1>4. Alone(w, l, {})
    BY <1>1, <1>2, <1>3, EmptyMove
  <1>. USE DEF Alone
  <1>5. (Calm' <=> Calm) /\ (Failed' <=> Failed)
    <2>1. pc[w] = "leave" => (Calm' <=> Calm)
      BY <1>3, <1>4, CalmKept, Zenon
    <2>2. pc[w] = "unwind" => ~Calm' /\ ~Calm
      BY <1>3, <1>4 DEF Calm
    <2>3. Failed' <=> Failed
      BY <1>1, <1>3, <1>4, Zenon DEF Failed
    <2>. QED
      BY <1>1, <2>1, <2>2, <2>3
  <1>6. last /\ outcome = Pending => ~Calm
    <2>. SUFFICES ASSUME last, Calm PROVE outcome # Pending
      OBVIOUS
    <2>1. TaskCompleted
      BY DEF TaskInv, Causes
    <2>2. pc[w] = "leave"
      BY <1>1 DEF Calm
    <2>3. \A v \in Threads : v # w => pc[v] \in {"idle", "dead", "unborn"}
      BY DEF Holders
    <2>4. \A v \in Threads : pc[v] \notin Active /\ pc[v] \notin {"fail", "fail_late"}
      BY <2>2, <2>3 DEF Active
    <2>. QED
      BY <2>1, <2>4, AnsweredBeforeDrop
  <1>7. last /\ outcome = Pending => Cancelable
    BY <1>6 DEF TaskInv, Causes
  <1>. HIDE DEF last
  <1>8. Dropped(last)
    BY <1>1, <1>3, <1>7, DropSeen
  <1>. USE DEF Dropped
  <1>9. Ownership' /\ SharedResults'
    <2>1. \A v \in Threads : Owned(v)' \subseteq Owned(v)
      BY <1>4
    <2>. QED
      BY <1>1, <1>8, <2>1, OwnershipKept
  <1>10. Counted'
    BY <1>1, <1>8, SameQuery DEF TaskInv, Counted, Pending
  <1>11. Covered'
    <2>1. pc[w] \notin Active
      BY <1>1 DEF Active
    <2>. QED
      BY <1>1, <1>4, <1>5, <1>8, <2>1, CoveredKept
  <1>12. Causes'
    <2>1. TaskCompleted' <=> TaskCompleted
      BY <1>1, SameQuery DEF TaskCompleted
    <2>2. outcome' = Canceled => ~Calm'
      BY <1>5, <1>6, <1>8 DEF TaskInv, Causes, Canceled
    <2>. QED
      BY <1>1, <1>5, <1>8, <2>1, <2>2, SameQuery DEF TaskInv, Causes, Pending
  <1>13. TypeOK'
    BY <1>1, <1>2, <1>4, <1>8, SameQuery, Zenon DEF TaskInv, TypeOK
  <1>. QED
    BY <1>4, <1>8, <1>9, <1>10, <1>11, <1>12, <1>13 DEF TaskInv

\* No thread moves.
Still ==
  /\ ThreadResults' /\ (Calm' <=> Calm) /\ (Failed' <=> Failed)
  /\ \A v \in Threads : pc'[v] = pc[v] /\ Owned(v)' = Owned(v)
  /\ pc' \in [Threads -> Labels] /\ idx' \in [Threads -> Nat]
  /\ result' \in [Threads -> Results] /\ stack' \in [Threads -> Seq(Results)]
  /\ rows' \in [Threads -> Nat] /\ cols' \in [Threads -> SUBSET Pids]

\* Nothing said of the threads changes.
LEMMA StillThreads ==
  ASSUME Library, TaskInv, query' = query, UNCHANGED <<pc, localVars>>
  PROVE  Still
  <1>. USE DEF Still
  <1>1. \A v \in Threads : Held(v)' = Held(v) /\ Owned(v)' = Owned(v)
    BY DEF localVars, Held, Owned, Claimed
  <1>2. ThreadResults'
    BY <1>1, SameQuery, Zenon DEF TaskInv, ThreadResults, localVars
  <1>3. (Calm' <=> Calm) /\ (Failed' <=> Failed)
    BY SameQuery DEF Calm, Failed
  <1>. QED
    BY <1>1, <1>2, <1>3 DEF TaskInv, TypeOK, localVars

\* TakeTask preserves the invariant: a completed task is dropped by the queue.
LEMMA TakeStep ==
  ASSUME Library, TaskInv, query' = query, NEW w \in Threads, TakeTask(w)
  PROVE  TaskInv' /\ AnswerStep
  <1>1. /\ pc[w] = "idle" /\ queued
        /\ UNCHANGED <<batchIndex, completed, poisoned, completedBatches, rowsCollected, localVars>>
    BY DEF TakeTask
  <1>2. CASE TaskCompleted
    <2>. DEFINE last == Holders = {}
    <2>1. queued' = FALSE /\ pc' = pc /\ DropTask(last) /\ last \in BOOLEAN
      BY <1>2 DEF TakeTask
    <2>2. last /\ outcome = Pending => ~Calm
      <3>. SUFFICES ASSUME last, Calm PROVE outcome # Pending
        OBVIOUS
      <3>1. \A v \in Threads : pc[v] \in {"idle", "dead", "unborn"}
        BY DEF Holders
      <3>2. \A v \in Threads : pc[v] \notin Active /\ pc[v] \notin {"fail", "fail_late"}
        BY <3>1 DEF Active
      <3>. QED
        BY <1>2, <3>2, AnsweredBeforeDrop
    <2>3. last /\ outcome = Pending => Cancelable
      BY <2>2 DEF TaskInv, Causes
    <2>. HIDE DEF last
    <2>4. Dropped(last)
      BY <2>1, <2>3, DropSeen
    <2>. USE DEF Dropped
    <2>5. Still
      BY <1>1, <2>1, StillThreads
    <2>. USE DEF Still
    <2>6. Ownership' /\ SharedResults'
      BY <1>1, <2>4, <2>5, OwnershipKept
    <2>7. Counted'
      BY <1>1, <2>4, SameQuery, Zenon DEF TaskInv, Counted, Pending
    <2>8. Covered'
      BY <1>1, <2>4, <2>5, CoveredKept
    <2>9. Causes'
      <3>1. TaskCompleted'
        BY <1>1, <1>2, SameQuery DEF TaskCompleted
      <3>2. outcome' = Canceled => ~Calm'
        BY <2>2, <2>4, <2>5 DEF TaskInv, Causes, Canceled
      <3>. QED
        BY <1>1, <2>4, <2>5, <3>1, <3>2, SameQuery, Zenon DEF TaskInv, Causes, Pending
    <2>10. TypeOK'
      BY <1>1, <2>1, <2>4, <2>5, SameQuery, Zenon DEF TaskInv, TypeOK
    <2>. QED
      BY <2>4, <2>5, <2>6, <2>7, <2>8, <2>9, <2>10 DEF TaskInv
  <1>3. CASE ~TaskCompleted
    <2>1. queued' = TRUE /\ Goto(w, "next") /\ UNCHANGED <<outcome, partial, colstacks>>
      BY <1>3 DEF TakeTask, DropTask
    <2>2. /\ query \in Queries /\ result[w] \in Goods(query) /\ stack[w] \in Seq(Goods(query)) /\ Apart(stack[w])
          /\ result[w].parts \cap PartsOf(stack[w]) = {} /\ Owned(w) = result[w].parts \cup PartsOf(stack[w])
          /\ result[w] = NoResult
      BY <1>1, ThreadFacts, Zenon DEF TaskInv, ThreadResults, Fits
    <2>3. Move(w, "next", result[w], stack[w])
      BY <1>1, <2>1, KeepResults DEF localVars
    <2>4. "next" \in Labels /\ pc[w] \notin Active
      BY <1>1 DEF Labels, Active
    <2>5. colstacks' \subseteq Pids /\ cols' \in [Threads -> SUBSET Pids] /\ rows' \in [Threads -> Nat]
      BY <1>1, <2>1 DEF TaskInv, TypeOK, localVars
    <2>6. UNCHANGED <<queued, batchIndex, completed, poisoned, stateVars, outcome, idx>>
      BY <1>1, <2>1 DEF TaskInv, TypeOK, localVars, stateVars
    <2>. QED
      BY <1>1, <2>2, <2>3, <2>4, <2>5, <2>6, QuietStep, Zenon DEF Fits, Quiet
  <1>. QED
    BY <1>2, <1>3

\* Recover preserves the invariant.
LEMMA RecoverStep ==
  ASSUME Library, TaskInv, query' = query, Recover
  PROVE  TaskInv' /\ AnswerStep
  <1>. DEFINE last == queued /\ Holders = {}
  <1>1. /\ \E w \in Spare : pc[w] = "unborn"
        /\ queued' = FALSE /\ DropTask(last) /\ last \in BOOLEAN
        /\ pc' = [w \in Threads |-> IF pc[w] = "unborn" THEN "idle" ELSE pc[w]]
        /\ UNCHANGED <<batchIndex, completed, poisoned, completedBatches, rowsCollected, localVars>>
    BY DEF Recover, TaskInv, TypeOK
  <1>2. Cancelable /\ ~Calm'
    <2>1. PICK w \in Spare : pc[w] = "unborn"
      BY <1>1
    <2>2. w \in Threads /\ Spare # {} /\ Spare' = Spare
      BY SameQuery DEF Spare
    <2>3. pc'[w] = "idle"
      BY <1>1, <2>1, <2>2
    <2>. QED
      BY <2>2, <2>3 DEF Calm, Cancelable
  <1>. HIDE DEF last
  <1>3. Dropped(last)
    BY <1>1, <1>2, DropSeen
  <1>. USE DEF Dropped
  <1>4. /\ pc' \in [Threads -> Labels]
        /\ \A v \in Threads : \/ pc'[v] = pc[v]
                              \/ pc[v] = "unborn" /\ pc'[v] = "idle"
    <2>1. pc \in [Threads -> Labels] /\ "idle" \in Labels
      BY DEF TaskInv, TypeOK, Labels
    <2>. QED
      BY <1>1, <2>1
  <1>5. /\ idx' \in [Threads -> Nat]
        /\ result' \in [Threads -> Results] /\ stack' \in [Threads -> Seq(Results)]
        /\ rows' \in [Threads -> Nat] /\ cols' \in [Threads -> SUBSET Pids]
    BY <1>1 DEF localVars, TaskInv, TypeOK
  <1>6. \A v \in Threads : Held(v)' = Held(v) /\ Owned(v)' = Owned(v)
    BY <1>1, <1>4 DEF localVars, Held, Owned, Claimed
  <1>7. ThreadResults'
    BY <1>1, <1>4, <1>6, SameQuery, Zenon DEF TaskInv, ThreadResults, localVars
  <1>8. Ownership' /\ SharedResults'
    BY <1>1, <1>3, <1>6, OwnershipKept
  <1>9. Counted' /\ Covered'
    BY <1>1, <1>2, <1>3, SameQuery, Zenon DEF TaskInv, Counted, Covered, Pending
  <1>10. Causes'
    <2>1. Failed' => Failed
      BY <1>4 DEF Failed
    <2>. QED
      BY <1>1, <1>2, <1>3, <2>1, SameQuery, Zenon DEF TaskInv, Causes, Pending
  <1>11. TypeOK'
    BY <1>1, <1>3, <1>4, <1>5, SameQuery, Zenon DEF TaskInv, TypeOK
  <1>. QED
    BY <1>3, <1>7, <1>8, <1>9, <1>10, <1>11 DEF TaskInv

-----------------------------------------------------------------------------
(* The invariant and the theorems.                                           *)

\* The invariant holds at first.
LEMMA TaskInvInit ==
  ASSUME Library, Init
  PROVE  TaskInv
  <1>1. query \in Queries /\ N \in Nat /\ Workers \subseteq Threads /\ Pids = 0..(N - 1)
    <2>1. query \in Queries
      BY DEF Init
    <2>. QED
      BY <2>1, QueryFacts, QueriesAssumption DEF Workers
  <1>2. /\ queued = TRUE /\ batchIndex = 0 /\ completed = FALSE /\ poisoned = FALSE
        /\ completedBatches = 0 /\ partial = <<>> /\ rowsCollected = 0 /\ colstacks = {}
        /\ outcome = (IF N = 0 THEN Rows({}, 0) ELSE Pending)
        /\ idx = [w \in Threads |-> 0] /\ rows = [w \in Threads |-> 0] /\ cols = [w \in Threads |-> {}]
    BY DEF Init
  <1>3. /\ pc \in [Threads -> Labels]
        /\ \A w \in Threads : pc[w] \in {"idle", "unborn"} /\ (w \in Spare => pc[w] = "unborn")
    BY <1>1 DEF Init, Spare, Labels
  <1>4. NoResult \in Goods(query) /\ NoResult \in Results /\ NoResult.parts = {}
    BY <1>1, NoResultGood, GoodFacts
  <1>5. /\ <<>> \in Seq(Goods(query)) /\ <<>> \in Seq(Results) /\ PartsOf(<<>>) = {} /\ Apart(<<>>)
    BY NoParts
  <1>6. \A w \in Threads : result[w] = NoResult /\ stack[w] = <<>>
    BY DEF Init
  <1>7. \A w \in Threads : Owned(w) = {}
    BY <1>3, <1>4, <1>5, <1>6 DEF Owned, Claimed, Held
  <1>8. ThreadResults
    <2>. SUFFICES ASSUME NEW w \in Threads
                 PROVE  /\ result[w] \in Goods(query) /\ stack[w] \in Seq(Goods(query)) /\ Apart(stack[w])
                        /\ result[w].parts \cap PartsOf(stack[w]) = {}
                        /\ result[w] = NoResult /\ pc[w] \notin {"push", "execute"}
      BY DEF ThreadResults
    <2>. QED
      BY <1>3, <1>4, <1>5, <1>6, Zenon
  <1>9. SharedResults /\ Ownership
    BY <1>2, <1>5, <1>7 DEF SharedResults, Ownership
  <1>10. Counted
    <2>1. N # 0 => 0 < N
      BY <1>1
    <2>2. N = 0 => outcome # Pending
      BY <1>2 DEF Rows, Pending
    <2>. QED
      BY <1>2, <1>5, <2>1, <2>2 DEF Counted, Library, SmallCounts
  <1>11. Covered
    BY <1>1, <1>2 DEF Covered
  <1>12. Calm /\ ~Failed
    BY <1>3 DEF Calm, Failed, Spare
  <1>13. outcome # Canceled /\ (outcome # Pending => outcome.kind # "pending")
    BY <1>2 DEF Canceled, Pending, Rows
  <1>14. Causes
    BY <1>2, <1>12, <1>13 DEF Causes
  <1>15. TypeOK
    <2>1. outcome \in [kind : {"pending", "error", "canceled", "rows"}, parts : SUBSET Pids, len : Nat]
      BY <1>2 DEF Rows, Pending
    <2>2. result \in [Threads -> Results] /\ stack \in [Threads -> Seq(Results)]
      BY <1>4, <1>5 DEF Init
    <2>. QED
      BY <1>1, <1>2, <1>3, <1>5, <2>1, <2>2, Zenon DEF TypeOK
  <1>. QED
    BY <1>8, <1>9, <1>10, <1>11, <1>14, <1>15 DEF TaskInv

\* Every step preserves the invariant, and answers the query as QueryAnswer allows.
LEMMA TaskInvNext ==
  ASSUME Library, TaskInv, [Next]_vars
  PROVE  TaskInv' /\ AnswerStep /\ query' = query
  <1>1. CASE Next
    <2>0. query' = query
      BY <1>1 DEF Next
    <2>1. CASE Recover
      BY <2>0, <2>1, RecoverStep
    <2>2. ASSUME NEW w \in Threads, TakeTask(w) \/ Run(w)
          PROVE  TaskInv' /\ AnswerStep
      <3>1. CASE TakeTask(w)
        BY <2>0, <3>1, TakeStep
      <3>2. CASE NextPartition(w)
        BY <2>0, <3>2, NextPartitionStep
      <3>3. CASE ExecutePartition(w)
        BY <2>0, <3>3, ExecuteStep
      <3>4. CASE MergeLevels(w)
        BY <2>0, <3>4, MergeStep
      <3>5. CASE CheckCompleted(w)
        BY <2>0, <3>5, CheckStep
      <3>6. CASE CombineLocal(w)
        BY <2>0, <3>6, CombineStep
      <3>7. CASE FailWith(w)
        BY <2>0, <3>7, FailStep
      <3>8. CASE PushResult(w)
        BY <2>0, <3>8, PushStep
      <3>9. CASE PushColstack(w)
        BY <2>0, <3>9, ColstackStep
      <3>10. CASE Leave(w)
        BY <2>0, <3>10, LeaveStep
      <3>. QED
        BY <2>2, <3>1, <3>2, <3>3, <3>4, <3>5, <3>6, <3>7, <3>8, <3>9, <3>10 DEF Run
    <2>. QED
      BY <1>1, <2>0, <2>1, <2>2 DEF Next
  <1>2. CASE UNCHANGED vars
    <2>1. /\ query' = query /\ UNCHANGED <<pc, localVars>>
          /\ UNCHANGED <<queued, batchIndex, completed, poisoned, completedBatches, partial, rowsCollected>>
          /\ UNCHANGED <<colstacks, outcome>>
      BY <1>2 DEF vars, stateVars
    <2>2. Still
      BY <2>1, StillThreads
    <2>. USE DEF Still
    <2>3. Ownership' /\ SharedResults'
      BY <2>1, <2>2, OwnershipKept
    <2>4. Counted'
      BY <2>1, SameQuery, Zenon DEF TaskInv, Counted, Pending
    <2>5. Covered'
      <3>. SUFFICES ASSUME Calm', outcome' = Pending, ~Failed', NEW p \in Pids, p < batchIndex'
                   PROVE  p \in PartsOf(partial') \/ \E v \in Threads : pc'[v] \in Active /\ p \in Owned(v)'
        BY <2>1, SameQuery DEF Covered, Active, Pending
      <3>1. p \in PartsOf(partial) \/ \E v \in Threads : pc[v] \in Active /\ p \in Owned(v)
        BY <2>1, <2>2 DEF TaskInv, Covered
      <3>. QED
        BY <2>1, <2>2, <3>1
    <2>6. Causes'
      BY <2>1, <2>2, SameQuery, Zenon DEF TaskInv, Causes, Pending, TaskCompleted, Canceled
    <2>7. TypeOK'
      BY <2>1, <2>2, SameQuery DEF TaskInv, TypeOK
    <2>. QED
      BY <2>1, <2>2, <2>3, <2>4, <2>5, <2>6, <2>7, Zenon DEF TaskInv, AnswerStep
  <1>. QED
    BY <1>1, <1>2

=============================================================================
