----------------------------- MODULE BatchMerge -----------------------------
(***************************************************************************)
(* How LocustDB merges the results of two partitions into one              *)
(* (engine/execution/batch_merging.rs) and the merge operators it plans    *)
(* (engine/operators/merge*.rs, partition.rs, subpartition.rs).            *)
(*                                                                         *)
(* A batch result is a record                                              *)
(*   columns       sequence of columns, each a sequence of integers,       *)
(*   projection    sequence of column indices,                             *)
(*   aggregations  sequence of <<column index, aggregator>>,               *)
(*   orderBy       sequence of <<column index, descending>>.               *)
(* Indices are 1-based.  A null is the integer I64Min, which is what       *)
(* fuse_nulls makes of it before a result leaves a partition.  The fields  *)
(* level, batch_count and show of BatchResult play no part in the data and *)
(* are in module QueryTask, where they do.                                 *)
(***************************************************************************)
EXTENDS Integers, Sequences, FiniteSets, SequencesExt, FiniteSetsExt

CONSTANTS
  I64Min,   \* the least i64
  I64Max    \* the greatest i64

ASSUME I64Assumption == I64Min \in Int /\ I64Max \in Int /\ I64Min < 0 /\ 0 < I64Max

(* ------------------------------ comparators ---------------------------- *)

\* Comparator::cmp of CmpLessThan (desc = FALSE) and CmpGreaterThan.
Before(x, y, desc) == IF desc THEN x > y ELSE x < y

\* Comparator::cmp_eq.
BeforeEq(x, y, desc) == IF desc THEN x >= y ELSE x <= y

(* ------------------------- replaying merge operations ------------------ *)

\* The cursors i, j into the left and the right input and the operations
\* pushed so far: the local state of every merge loop.
Cursor == [i |-> 0, j |-> 0, ops |-> <<>>]

TakeLeft(s) == [s EXCEPT !.i = @ + 1, !.ops = Append(@, "TakeLeft")]
TakeRight(s) == [s EXCEPT !.j = @ + 1, !.ops = Append(@, "TakeRight")]
MergeRight(s) == [s EXCEPT !.j = @ + 1, !.ops = Append(@, "MergeRight")]

\* n iterations of a loop body.
Iterate(Body(_), s, n) ==
  LET state[k \in 0 .. n] == IF k = 0 THEN s ELSE Body(state[k - 1])
  IN  state[n]

\* Combinable<i64>::combine, in exact arithmetic: SumOverflows tells when the
\* checked addition of the code fails.
CombineValues(aggregator, a, b) ==
  CASE aggregator \in {"sum", "count"} -> a + b
    [] aggregator = "max" -> Max({a, b})
    [] aggregator = "min" -> Min({a, b})

\* What a MergeRight makes of the last value pushed: merge_aggregate combines
\* it with the value of the right input, the others keep it.
MergedValue(aggregator, last, x) ==
  IF aggregator = "keep" THEN last ELSE CombineValues(aggregator, last, x)

\* Runs through ops with one cursor per input.
Replay(ops, left, right, aggregator) ==
  LET push(s, x) == [s EXCEPT !.out = Append(@, x)]
      step(s, op) ==
        CASE op = "TakeLeft"   -> [push(s, left[s.i + 1]) EXCEPT !.i = @ + 1]
          [] op = "TakeRight"  -> [push(s, right[s.j + 1]) EXCEPT !.j = @ + 1]
          [] op = "MergeRight" ->
               [s EXCEPT !.out[Len(s.out)] = MergedValue(aggregator, @, right[s.j + 1]),
                         !.j = @ + 1]
  IN  FoldLeft(step, [i |-> 0, j |-> 0, out |-> <<>>], ops).out

MergeKeep(ops, left, right) == Replay(ops, left, right, "keep")

MergeDrop(ops, left, right) == Replay(ops, left, right, "keep")

MergeAggregate(ops, left, right, aggregator) == Replay(ops, left, right, aggregator)

\* Fault: the addition is not checked.
SumOverflowsFault(column) == FALSE

SumOverflows(column) == \E k \in DOMAIN column : column[k] \notin I64Min .. I64Max

(* ----------------------------- merge loops ----------------------------- *)

Repeat(op, n) == [k \in 1 .. n |-> op]

\* The two loops after the main loop of merge never take a value beyond limit.
Merge(left, right, limit, desc) ==
  LET body(s) ==
        IF s.i < Len(left) /\ s.j < Len(right) /\ s.i + s.j < limit
        THEN IF Before(left[s.i + 1], right[s.j + 1], desc) THEN TakeLeft(s) ELSE TakeRight(s)
        ELSE s
      s == Iterate(body, Cursor, Len(left) + Len(right))
  IN  s.ops \o Repeat("TakeLeft", Min({Len(left), limit - s.j}) - s.i)
            \o Repeat("TakeRight", Min({Len(right), limit - s.i}) - s.j)

\* The next run of equal values on either side of (i, iMax] and (j, jMax]:
\* one Premerge.
NextGroup(left, right, i, j, iMax, jMax, desc) ==
  LET elem == IF i < iMax /\ (j = jMax \/ BeforeEq(left[i + 1], right[j + 1], desc))
              THEN left[i + 1] ELSE right[j + 1]
      run(seq, from, to) ==
        Cardinality({k \in from + 1 .. to : \A m \in from + 1 .. k : seq[m] = elem})
  IN  [left |-> run(left, i, iMax), right |-> run(right, j, jMax)]

\* Fault: equal rows of both sides are counted twice.
PartitionFault(left, right, limit, desc) ==
  LET body(s) ==
        LET g == NextGroup(left, right, s.i, s.j, Len(left), Len(right), desc)
        IN  IF s.i + s.j < limit /\ (s.i < Len(left) \/ s.j < Len(right))
            THEN [i |-> s.i + g.left, j |-> s.j + g.right, groups |-> Append(s.groups, g)]
            ELSE s
  IN  Iterate(body, [i |-> 0, j |-> 0, groups |-> <<>>], Len(left) + Len(right)).groups

\* The groups of equal values of the first key, until they are sure to hold
\* limit merged rows.
Partition(left, right, limit, desc) ==
  LET body(s) ==
        LET g == NextGroup(left, right, s.i, s.j, Len(left), Len(right), desc)
        IN  IF s.minElems < limit /\ (s.i < Len(left) \/ s.j < Len(right))
            THEN [i |-> s.i + g.left, j |-> s.j + g.right,
                  minElems |-> s.minElems + Max({g.left, g.right}),
                  groups |-> Append(s.groups, g)]
            ELSE s
  IN  Iterate(body, [i |-> 0, j |-> 0, minElems |-> 0, groups |-> <<>>],
              Len(left) + Len(right)).groups

\* Splits every group by the next key.
Subpartition(groups, left, right, desc) ==
  LET split(s, group) ==
        LET iMax == s.i + group.left
            jMax == s.j + group.right
            body(t) ==
              LET g == NextGroup(left, right, t.i, t.j, iMax, jMax, desc)
              IN  IF t.i < iMax \/ t.j < jMax
                  THEN [i |-> t.i + g.left, j |-> t.j + g.right,
                        groups |-> Append(t.groups, g)]
                  ELSE t
        IN  Iterate(body, s, group.left + group.right)
  IN  FoldLeft(split, [i |-> 0, j |-> 0, groups |-> <<>>], groups).groups

\* Merges the rows of each group by the last key, up to limit rows.
MergePartitioned(groups, left, right, limit, desc) ==
  LET merge(s, group) ==
        LET iMax == s.i + group.left
            jMax == s.j + group.right
            body(t) ==
              IF t.i + t.j >= limit THEN t
              ELSE IF t.j = jMax \/ (t.i < iMax /\ BeforeEq(left[t.i + 1], right[t.j + 1], desc))
              THEN TakeLeft(t) ELSE TakeRight(t)
        IN  Iterate(body, s, group.left + group.right)
  IN  FoldLeft(merge, Cursor, groups).ops

\* Merges two strictly increasing columns of groups.
MergeDeduplicate(left, right) ==
  LET body(s) ==
        IF s.i < Len(left) /\ s.j < Len(right)
        THEN IF s.last = <<right[s.j + 1]>> THEN MergeRight(s)
             ELSE IF left[s.i + 1] <= right[s.j + 1]
             THEN [TakeLeft(s) EXCEPT !.last = <<left[s.i + 1]>>]
             ELSE [TakeRight(s) EXCEPT !.last = <<right[s.j + 1]>>]
        ELSE s
      main == Iterate(body, Cursor @@ [last |-> <<>>], Len(left) + Len(right))
      s == IF main.i = Len(left) /\ main.j < Len(right) /\ main.last = <<right[main.j + 1]>>
           THEN MergeRight(main) ELSE main
  IN  s.ops \o Repeat("TakeLeft", Len(left) - s.i) \o Repeat("TakeRight", Len(right) - s.j)

\* The same inside each group of equal values of the earlier keys.
MergeDeduplicatePartitioned(groups, left, right) ==
  LET merge(s, group) ==
        LET iMax == s.i + group.left
            jMax == s.j + group.right
            body(t) ==
              IF t.j < jMax /\ t.last = <<right[t.j + 1]>> THEN MergeRight(t)
              ELSE IF t.i < iMax /\ (t.j >= jMax \/ left[t.i + 1] <= right[t.j + 1])
              THEN [TakeLeft(t) EXCEPT !.last = <<left[t.i + 1]>>]
              ELSE [TakeRight(t) EXCEPT !.last = <<right[t.j + 1]>>]
        IN  Iterate(body, [s EXCEPT !.last = <<>>], group.left + group.right)
  IN  FoldLeft(merge, Cursor @@ [last |-> <<>>], groups).ops

(* ------------------------------- results ------------------------------- *)

Ok(b) == [status |-> "ok", batch |-> b]
Fatal == [status |-> "fatal"]         \* a QueryError other than Overflow
Overflow == [status |-> "overflow"]   \* QueryError::Overflow
Panic == [status |-> "panic"]         \* an index out of bounds

\* Scratchpad::collect_aliased.  An entry is the buffer that an expression of
\* the result resolves to and its data; every buffer becomes one column, at
\* the place of its first use.
Collect(projections, aggregations, rankings) ==
  LET entries == projections \o aggregations \o rankings
      firsts == SelectSeq([k \in DOMAIN entries |-> k],
                  LAMBDA k : \A m \in 1 .. k - 1 : entries[m].buf # entries[k].buf)
      index(e) == CHOOSE c \in DOMAIN firsts : entries[firsts[c]].buf = e.buf
  IN  [columns      |-> [c \in DOMAIN firsts |-> entries[firsts[c]].data],
       projection   |-> [k \in DOMAIN projections |-> index(projections[k])],
       aggregations |-> [k \in DOMAIN aggregations |->
                           <<index(aggregations[k]), aggregations[k].aggregator>>],
       orderBy      |-> [k \in DOMAIN rankings |-> <<index(rankings[k]), rankings[k].desc>>]]

\* BatchResult::len and BatchResult::validate.
BatchLen(b) == IF b.columns = <<>> THEN 0 ELSE Len(b.columns[1])

Valid(b) ==
  /\ \A c \in DOMAIN b.columns : Len(b.columns[c]) = BatchLen(b)
  /\ \A k \in DOMAIN b.aggregations : b.aggregations[k][1] \in DOMAIN b.columns

Validated(b) == IF Valid(b) THEN Ok(b) ELSE Fatal

(* ------------------------------- combine ------------------------------- *)

\* The columns of two results of an aggregation, merged by ops.
MergedGroups(b1, b2, ops) ==
  LET n == Len(b1.projection)
      keys == [k \in 1 .. n |->
        LET il == b1.projection[k]
            ir == b2.projection[k]
        IN  [buf |-> IF k = n THEN <<"merged">> ELSE <<"drop", il, ir>>,
             data |-> MergeDrop(ops, b1.columns[il], b2.columns[ir])]]
      aggregates == [k \in DOMAIN b1.aggregations |->
        LET il == b1.aggregations[k][1]
            ir == b2.aggregations[k][1]
            aggregator == b1.aggregations[k][2]
        IN  [buf |-> <<"aggregate", il, ir, aggregator>>, aggregator |-> aggregator,
             data |-> MergeAggregate(ops, b1.columns[il], b2.columns[ir], aggregator)]]
  IN  Collect(keys, aggregates, <<>>)

CheckedGroups(b) ==
  IF \E k \in DOMAIN b.aggregations :
       b.aggregations[k][2] = "sum" /\ SumOverflows(b.columns[b.aggregations[k][1]])
  THEN Overflow ELSE Validated(b)

\* Two results of an aggregation.  Without a GROUP BY the operations are
\* fixed, and index both columns at their first row.
CombineAggregates(b1, b2, limit) ==
  LET n == Len(b1.projection)
      l(k) == b1.columns[b1.projection[k]]
      r(k) == b2.columns[b2.projection[k]]
      groups == FoldLeft(LAMBDA g, k : Subpartition(g, l(k), r(k), FALSE),
                         Partition(l(1), r(1), limit, FALSE),
                         [k \in 1 .. n - 2 |-> k + 1])
      ops == CASE n = 0 -> <<"TakeLeft", "MergeRight">>
               [] n = 1 -> MergeDeduplicate(l(1), r(1))
               [] OTHER -> MergeDeduplicatePartitioned(groups, l(n), r(n))
  IN  IF n = 0 /\ (BatchLen(b1) = 0 \/ BatchLen(b2) = 0) THEN Panic
      ELSE CheckedGroups(MergedGroups(b1, b2, ops))

\* The columns of two sorted results, merged by ops.
MergedRows(b1, b2, ops) ==
  LET n == Len(b1.orderBy)
      last == <<b1.orderBy[n][1], b2.orderBy[n][1]>>
      entry(buf, il, ir) == [buf |-> buf, data |-> MergeKeep(ops, b1.columns[il], b2.columns[ir])]
      projected(il, ir) == entry(IF <<il, ir>> = last THEN <<"merged">> ELSE <<"keep", il, ir>>, il, ir)
      ranked(k, il, ir) == entry(IF k = n THEN <<"merged">> ELSE <<"keep", il, ir>>, il, ir)
  IN  Collect([k \in DOMAIN b1.projection |-> projected(b1.projection[k], b2.projection[k])], <<>>,
              [k \in 1 .. n |-> ranked(k, b1.orderBy[k][1], b2.orderBy[k][1])
                                @@ [desc |-> b1.orderBy[k][2]]])

\* Two results of a query with ORDER BY.  The loop over the middle keys runs
\* to the number of columns, not of keys, and takes the indices of the right
\* result from the left one.
CombineSorted(b1, b2, limit) ==
  LET n == Len(b1.orderBy)
      desc(k) == b1.orderBy[k][2]
      l(k) == b1.columns[b1.orderBy[k][1]]
      r(k) == b2.columns[b2.orderBy[k][1]]
      groups == FoldLeft(LAMBDA g, k :
                           Subpartition(g, l(k), b2.columns[b1.orderBy[k][1]], desc(k)),
                         Partition(l(1), r(1), limit, desc(1)),
                         [k \in 1 .. Len(b1.columns) - 2 |-> k + 1])
      ops == IF n = 1 THEN Merge(l(1), r(1), limit, desc(1))
             ELSE MergePartitioned(groups, l(n), r(n), limit, desc(n))
  IN  IF n > 1 /\ Len(b1.columns) - 2 >= n THEN Panic
      ELSE Ok(MergedRows(b1, b2, ops))

\* Two results of a query with neither: rows are appended up to the limit.
CombineSelected(b1, b2, limit) ==
  LET count(c) == IF Len(b1.columns[c]) >= limit THEN 0
                  ELSE Min({Len(b2.columns[c]), limit - Len(b1.columns[c])})
  IN  IF b1.projection # b2.projection THEN Fatal
      ELSE Ok([b1 EXCEPT !.columns = [c \in DOMAIN b1.columns |->
                 b1.columns[c] \o SubSeq(b2.columns[c], 1, count(c))]])

Combine(b1, b2, limit) ==
  IF \/ Len(b1.projection) # Len(b2.projection)
     \/ Len(b1.orderBy) # Len(b2.orderBy)
     \/ Len(b1.aggregations) # Len(b2.aggregations)
  THEN Fatal
  ELSE CASE b1.aggregations # <<>> -> CombineAggregates(b1, b2, limit)
         [] b1.aggregations = <<>> /\ b1.orderBy # <<>> -> CombineSorted(b1, b2, limit)
         [] OTHER -> CombineSelected(b1, b2, limit)
=============================================================================
