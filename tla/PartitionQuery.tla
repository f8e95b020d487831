--------------------------- MODULE PartitionQuery ---------------------------
(***************************************************************************)
(* What a query computes on one partition: NormalFormQuery::run and        *)
(* run_aggregate (engine/planning/query.rs), the grouping key              *)
(* (compile_grouping_key and try_bitpacking in query_plan.rs) and the      *)
(* operators they plan: filter, select, sort_by, top_n, aggregate, exists, *)
(* compact, nonzero_indices, hash-map grouping, null fusing, bit packing.  *)
(*                                                                         *)
(* A partition is a record                                                 *)
(*   len       its number of rows,                                         *)
(*   cols      function from column names to sequences of len integers,    *)
(*   unranged  the columns that store no range (strings, floats),          *)
(*   floats    the columns of floats,                                      *)
(*   fused     whether its nulls are already values (see Null).            *)
(* A query is a record with the fields of NormalFormQuery: projection (a   *)
(* sequence of column names), filter, aggregate (a sequence of             *)
(* <<aggregator, column>>), orderBy (of <<column, descending>>), limit and *)
(* offset.  Strings and floats are integers here: only their order counts. *)
(***************************************************************************)
EXTENDS BatchMerge

CONSTANTS
  NarrowMax,     \* u8::MAX: the one narrow width of the model, next to i64
  RawKeyLimit,   \* 1 << 16: from here on a grouping key goes through a hash map
  KeyBits        \* 63: the bits of a packed grouping key

ASSUME WidthAssumption ==
  NarrowMax \in Nat /\ NarrowMax < I64Max /\ RawKeyLimit \in Nat /\ KeyBits \in Nat

\* A null value; FuseNullsI64 stores it as i64::MIN and strings as None,
\* which is less than every string.
Null == I64Min

\* COUNT(0) counts the grouping key instead of a column.
Star == "0"

NoFilter == [col |-> Star, vals |-> {}]

LimitOf(q) == q.limit + q.offset

Select(column, indices) == [k \in DOMAIN indices |-> column[indices[k]]]

\* The rows a filter lets through; a comparison with a null is a null, and
\* NullableFilter drops those rows.
FilterIndices(q, p) ==
  SelectSeq([i \in 1 .. p.len |-> i],
            LAMBDA i : q.filter = NoFilter \/ p.cols[q.filter.col][i] \in q.filter.vals)

\* Whether a column is stored with a null map.
NullableColumn(p, c) == ~ p.fused /\ c # Star /\ \E i \in 1 .. p.len : p.cols[c][i] = Null

(* ------------------------------- sorting ------------------------------- *)

\* Every order of indices that a sort by ranking can leave: an unstable sort
\* may leave equal rows in any order.
SortBy(ranking, indices, desc, stable) ==
  LET permuted(pi) == [k \in DOMAIN indices |-> indices[pi[k]]]
      sorted(pi) == \A k, m \in DOMAIN indices : k < m =>
        /\ ~ Before(ranking[indices[pi[m]]], ranking[indices[pi[k]]], desc)
        /\ (stable /\ ranking[indices[pi[m]]] = ranking[indices[pi[k]]]) => pi[k] < pi[m]
  IN  {permuted(pi) : pi \in {x \in Permutations(DOMAIN indices) : sorted(x)}}

\* Comparator::is_less_than.  CmpLessThan answers false for floats.
IsLessThan(p, c, desc) == ~ desc /\ c \notin p.floats

\* heap_replace with node = 0: the new entry goes in at the end of the path
\* of children it has to precede.
HeapReplace(heap, entry, desc) ==
  LET before(a, b) == Before(a.key, b.key, desc)
      path[node \in 1 .. Len(heap)] ==
        LET l == 2 * node
            r == 2 * node + 1
        IN  IF l <= Len(heap) /\ before(entry, heap[l]) /\ (r > Len(heap) \/ before(heap[r], heap[l]))
            THEN <<node>> \o path[l]
            ELSE IF r <= Len(heap) /\ before(entry, heap[r]) THEN <<node>> \o path[r]
            ELSE <<node>>
      nodes == path[1]
  IN  [n \in DOMAIN heap |->
         IF \E k \in DOMAIN nodes : nodes[k] = n
         THEN LET k == CHOOSE x \in DOMAIN nodes : nodes[x] = n
              IN  IF k = Len(nodes) THEN entry ELSE heap[nodes[k + 1]]
         ELSE heap[n]]

\* TopN: init, execute on every batch of the input, finalize.  isLess decides
\* the order of the first n keys and of the output, the comparator which keys
\* are replaced.
TopN(ranking, n, desc, isLess) ==
  LET filled == [k \in 1 .. Min({n, Len(ranking)}) |-> k]
      heapOf(indices) == [k \in DOMAIN indices |-> [key |-> ranking[indices[k]], value |-> indices[k]]]
      heaps == IF Len(filled) = n
               THEN {heapOf(s) : s \in SortBy(ranking, filled, isLess, FALSE)}
               ELSE {heapOf(filled)}
      insert(heap, k) ==
        IF Before(ranking[k], heap[1].key, desc)
        THEN HeapReplace(heap, [key |-> ranking[k], value |-> k], desc) ELSE heap
      scanned(heap) ==
        FoldLeft(insert, heap, [k \in 1 .. Len(ranking) - Len(filled) |-> Len(filled) + k])
      output(heap) ==
        {[k \in DOMAIN s |-> heap[s[k]].value] :
           s \in SortBy([k \in DOMAIN heap |-> heap[k].key], [k \in DOMAIN heap |-> k], ~ isLess, FALSE)}
  IN  UNION {output(scanned(heap)) : heap \in heaps}

\* Fault: top_n is used whatever the number of keys.
UsesTopNFault(q, p) == q.orderBy # <<>> /\ LimitOf(q) < p.len \div 2

UsesTopN(q, p) == LimitOf(q) < p.len \div 2 /\ Len(q.orderBy) = 1

\* The orders in which run can return the filtered rows.
RowOrders(q, p, rows) ==
  LET n == Len(q.orderBy)
      ranking(k) == Select(p.cols[q.orderBy[k][1]], rows)
      desc(k) == q.orderBy[k][2]
      byKey(orders, k) == UNION {SortBy(ranking(k), o, desc(k), k < n) : o \in orders}
  IN  IF UsesTopN(q, p)
      THEN TopN(ranking(1), LimitOf(q), desc(1), IsLessThan(p, q.orderBy[1][1], desc(1)))
      ELSE FoldLeft(byKey, {[k \in DOMAIN rows |-> k]}, [k \in 1 .. n |-> n + 1 - k])

\* NormalFormQuery::run: the outcomes it can have.  top_n is not implemented
\* for nullable columns, and reads the first key of an empty heap if n = 0.
\* A column the partition does not have is a vector of nulls, as long as the
\* partition whatever the filter and the order.
Run(q, p) ==
  LET rows == FilterIndices(q, p)
      column(c, order) ==
        IF c \in DOMAIN p.cols
        THEN [buf |-> c, data |-> Select(p.cols[c], Select(rows, order))]
        ELSE [buf |-> Star, data |-> [i \in 1 .. p.len |-> Null]]
      result(order) ==
        Collect([k \in DOMAIN q.projection |-> column(q.projection[k], order)], <<>>,
                [k \in DOMAIN q.orderBy |->
                   column(q.orderBy[k][1], order) @@ [desc |-> q.orderBy[k][2]]])
  IN  IF UsesTopN(q, p) /\ NullableColumn(p, q.orderBy[1][1]) THEN {Fatal}
      ELSE IF UsesTopN(q, p) /\ LimitOf(q) = 0 /\ rows # <<>> THEN {Panic}
      ELSE {Ok(result(order)) : order \in RowOrders(q, p, rows)}

(* ---------------------------- grouping keys ---------------------------- *)

\* How the column of a partition is stored (IntColBuilder, IntegerColumn):
\* a null is filled with 0, the values are narrow after subtracting offset or
\* wide, and the range is that of the stored values.
Encoding(p, c) ==
  LET filled == {IF p.cols[c][i] = Null THEN 0 ELSE p.cols[c][i] : i \in 1 .. p.len}
      lo == Min(filled)
      hi == Max(filled)
      narrow == (lo >= 0 /\ hi <= NarrowMax) \/ hi - lo <= NarrowMax
      offset == IF narrow /\ ~ (lo >= 0 /\ hi <= NarrowMax) THEN lo ELSE 0
  IN  IF c \in p.unranged
      THEN [ranged |-> FALSE, nullable |-> NullableColumn(p, c), narrow |-> FALSE,
            offset |-> 0, min |-> 0, max |-> 0]
      ELSE [ranged |-> TRUE, nullable |-> NullableColumn(p, c), narrow |-> narrow,
            offset |-> offset, min |-> lo - offset, max |-> hi - offset]

Stored(e, x) == IF x = Null THEN Null ELSE x - e.offset
Loaded(e, x) == IF x = Null THEN Null ELSE x + e.offset

\* FuseIntNulls and UnfuseIntNulls add and subtract in the width of the column.
Wrap(e, x) == IF e.narrow THEN x % (NarrowMax + 1) ELSE x
FuseIntNulls(e, offset, x) == IF x = Null THEN 0 ELSE Wrap(e, x + offset)
UnfuseIntNulls(e, offset, x) == IF x = 0 THEN Null ELSE Wrap(e, x - offset)

\* compile_grouping_key with one expression.
SingleOffset(e) ==
  CASE e.nullable /\ e.min <= 0 -> - e.min + 1
    [] ~ e.nullable /\ e.min < 0 -> - e.min
    [] OTHER -> 0

\* The largest key; 1 << 62 where there is no range.  No column is taken to
\* span more than i64::MAX, where max - min overflows.

\* Fault: no room for the null.
SingleCardinalityFault(e) ==
  CASE ~ e.ranged -> I64Max
    [] e.ranged /\ e.min < 0 -> e.max - e.min
    [] OTHER -> e.max

SingleCardinality(e) ==
  CASE ~ e.ranged -> I64Max
    [] e.ranged /\ e.nullable /\ e.min <= 0 -> e.max - e.min + 1
    [] e.ranged /\ ~ e.nullable /\ e.min < 0 -> e.max - e.min
    [] OTHER -> e.max

SingleKey(e, x) ==
  IF e.nullable /\ e.ranged THEN FuseIntNulls(e, SingleOffset(e), x)
  ELSE IF x = Null THEN Null ELSE x + SingleOffset(e)

SingleValue(e, key) ==
  IF e.nullable /\ e.ranged THEN UnfuseIntNulls(e, SingleOffset(e), key)
  ELSE IF key = Null THEN Null ELSE key - SingleOffset(e)

\* The bits of the integers up to max; the code takes a logarithm, which is
\* of no consequence for a negative max because min is negative then.
Bits(max) == IF max < 0 THEN 0 ELSE CHOOSE b \in 0 .. max + 1 :
                                      2 ^ b >= max + 1 /\ \A c \in 0 .. b - 1 : 2 ^ c < max + 1

\* One column of a packed key: its encoding, whether its least value is
\* subtracted, the largest value that remains and its bits.
FieldMax(e) == IF e.nullable /\ e.min <= 0 THEN e.max + 1 ELSE e.max

SubtractsMin(e) == Bits(FieldMax(e)) - Bits(FieldMax(e) - e.min) > 1 \/ e.min < 0 \/ e.nullable

AdjustedMax(e) ==
  CASE e.nullable -> FieldMax(e) - e.min + 1
    [] ~ e.nullable /\ SubtractsMin(e) -> FieldMax(e) - e.min
    [] OTHER -> FieldMax(e)

Field(e) == [enc |-> e, subtract |-> SubtractsMin(e), max |-> AdjustedMax(e), width |-> Bits(AdjustedMax(e))]

FieldKey(f, x) ==
  CASE f.enc.nullable -> FuseIntNulls(f.enc, - f.enc.min + 1, x)
    [] ~ f.enc.nullable /\ f.subtract -> x - f.enc.min
    [] OTHER -> x

FieldValue(f, key) ==
  CASE f.enc.nullable -> IF key = 0 THEN Null ELSE key - (- f.enc.min + 1)
    [] ~ f.enc.nullable /\ f.subtract -> key + f.enc.min
    [] OTHER -> key

\* The bits below column k: try_bitpacking packs the last column first.
Shift(fields, k) == FoldLeft(LAMBDA w, m : w + fields[m].width, 0,
                             [m \in 1 .. Len(fields) - k |-> Len(fields) + 1 - m])

TotalWidth(fields) == Shift(fields, 0)

CanPack(fields) == (\A k \in DOMAIN fields : fields[k].enc.ranged) /\ TotalWidth(fields) <= KeyBits

LargestKey(fields) == FoldLeft(LAMBDA s, k : s + fields[k].max * 2 ^ Shift(fields, k), 0,
                               [k \in DOMAIN fields |-> k])

\* bit_pack; while the width is still 0 a column replaces the key.
PackedKey(fields, xs) ==
  LET pack(key, m) ==
        LET k == Len(fields) + 1 - m
            shift == Shift(fields, k)
        IN  IF shift = 0 THEN FieldKey(fields[k], xs[k])
            ELSE IF fields[k].max > 0 \/ fields[k].enc.nullable
            THEN key + FieldKey(fields[k], xs[k]) * 2 ^ shift
            ELSE key
  IN  FoldLeft(pack, 0, [m \in DOMAIN fields |-> m])

\* bit_unpack.
UnpackedValue(fields, key, k) ==
  FieldValue(fields[k], (key \div 2 ^ Shift(fields, k)) % 2 ^ fields[k].width)

\* compile_grouping_key: the kind of key, the largest key, the key of a row
\* of stored values, and the stored value of column k in a key.
KeyKind(fields) ==
  CASE Len(fields) = 0 -> "none"
    [] Len(fields) = 1 -> "single"
    [] Len(fields) > 1 /\ CanPack(fields) -> "packed"
    [] OTHER -> "rows"

MaxGroupingKey(fields, kind) ==
  CASE kind = "none" -> 1
    [] kind = "single" -> SingleCardinality(fields[1].enc)
    [] kind = "packed" -> LargestKey(fields)
    [] OTHER -> I64Max

GroupingKey(fields) ==
  [fields |-> fields, kind |-> KeyKind(fields), max |-> MaxGroupingKey(fields, KeyKind(fields))]

KeyOf(plan, xs) ==
  CASE plan.kind = "none" -> 0
    [] plan.kind = "single" -> SingleKey(plan.fields[1].enc, xs[1])
    [] plan.kind = "packed" -> PackedKey(plan.fields, xs)
    [] OTHER -> xs

ValueIn(plan, key, k) ==
  CASE plan.kind = "single" -> SingleValue(plan.fields[1].enc, key)
    [] plan.kind = "packed" -> UnpackedValue(plan.fields, key, k)
    [] OTHER -> key[k]

(* ----------------------------- aggregation ----------------------------- *)

Unit(aggregator) ==
  CASE aggregator \in {"sum", "count"} -> 0
    [] aggregator = "max" -> I64Min
    [] aggregator = "min" -> I64Max

Accumulate(aggregator, acc, x) ==
  CASE aggregator = "sum" -> acc + x
    [] aggregator = "count" -> acc + 1
    [] aggregator = "max" -> Max({acc, x})
    [] aggregator = "min" -> Min({acc, x})

\* Aggregate and CheckedAggregate and their nullable forms, which skip the
\* nulls.  accs has one accumulator for each of the size groups; overflowed
\* is set as soon as one sum leaves the range of i64.
Aggregate(aggregator, values, grouping, size) ==
  LET add(s, i) ==
        LET g == grouping[i] + 1
            acc == Accumulate(aggregator, s.accs[g], values[i])
        IN  IF values[i] = Null THEN s
            ELSE [accs |-> [s.accs EXCEPT ![g] = acc],
                  overflowed |-> s.overflowed \/ (aggregator = "sum" /\ acc \notin I64Min .. I64Max)]
  IN  FoldLeft(add, [accs |-> [g \in 1 .. size |-> Unit(aggregator)], overflowed |-> FALSE],
               [i \in DOMAIN grouping |-> i])

\* Exists.
Exists(grouping, size) ==
  [g \in 1 .. size |-> IF \E i \in DOMAIN grouping : grouping[i] + 1 = g THEN 1 ELSE 0]

\* NonzeroIndices, Compact and NonzeroCompact.
NonzeroIndices(select) == SelectSeq([g \in DOMAIN select |-> g - 1], LAMBDA g : select[g + 1] > 0)
Compact(data, select) == Select(data, [k \in DOMAIN NonzeroIndices(select) |->
                                          NonzeroIndices(select)[k] + 1])
NonzeroCompact(data) == Compact(data, data)

\* HashMapGrouping: the distinct keys in the order of their first row.
Unique(keys) ==
  Select(keys, SelectSeq([i \in DOMAIN keys |-> i],
                         LAMBDA i : \A m \in 1 .. i - 1 : keys[m] # keys[i]))

\* The order of grouping keys; rows of values compare from the left.
KeyLess(kind, x, y) ==
  IF kind = "rows"
  THEN \E k \in DOMAIN x : x[k] < y[k] /\ \A m \in 1 .. k - 1 : x[m] = y[m]
  ELSE x < y

\* The group of every row.  Small keys are groups themselves (prepare_hashmap_grouping
\* gives the others a number each): groups 0 .. size - 1 have an accumulator.
HashedGroups(keys, unique) ==
  [hashed |-> TRUE, unique |-> unique, size |-> Len(unique) + 1,
   of |-> [r \in DOMAIN keys |-> CHOOSE g \in 0 .. Len(unique) - 1 : unique[g + 1] = keys[r]]]

Grouping(plan, keys) ==
  IF plan.max >= RawKeyLimit THEN HashedGroups(keys, Unique(keys))
  ELSE [hashed |-> FALSE, unique |-> <<>>, size |-> plan.max + 1, of |-> keys]

\* COUNT of a column without nulls: its accumulators tell which groups exist.
PlainCount(q, p, a) == q.aggregate[a][1] = "count" /\ ~ NullableColumn(p, q.aggregate[a][2])

Selector(q, p, grouping, results) ==
  LET counts == {a \in DOMAIN q.aggregate : PlainCount(q, p, a)}
  IN  IF counts = {} THEN Exists(grouping.of, grouping.size) ELSE results[Max(counts)].accs

\* The columns of the result: the groups in the order of their keys, then the
\* aggregates.  Equal fields at the same place of a packed key are one buffer.
GroupOrder(kind, grouping, groups) ==
  LET inserted == [g \in DOMAIN groups |-> g]
  IN  IF grouping.hashed THEN SortSeq(inserted, LAMBDA g, h : KeyLess(kind, groups[g], groups[h]))
      ELSE inserted

GroupColumns(plan, groups, order) ==
  [k \in DOMAIN plan.fields |->
     [buf |-> IF plan.kind = "packed" THEN <<"packed", Shift(plan.fields, k), plan.fields[k]>> ELSE <<k>>,
      data |-> [g \in DOMAIN order |->
                  Loaded(plan.fields[k].enc, ValueIn(plan, groups[order[g]], k))]]]

AggregateColumns(q, p, hashed, results, selector, order) ==
  LET compacted(a) == IF PlainCount(q, p, a) THEN NonzeroCompact(results[a].accs)
                      ELSE Compact(results[a].accs, selector)
  IN  [a \in DOMAIN q.aggregate |->
         [buf |-> q.aggregate[a], aggregator |-> q.aggregate[a][1],
          data |-> IF hashed THEN Select(compacted(a), order) ELSE compacted(a)]]

\* run_aggregate, in stages that each take what the earlier ones computed: the
\* rows and the plan of the key, the keys, the accumulators, the groups.
AssembleGroups(q, p, plan, grouping, results, selector, groups) ==
  LET order == GroupOrder(plan.kind, grouping, groups)
  IN  Validated(Collect(GroupColumns(plan, groups, order),
                        AggregateColumns(q, p, grouping.hashed, results, selector, order), <<>>))

AggregateGroups(q, p, plan, grouping, results) ==
  LET selector == Selector(q, p, grouping, results)
  IN  IF \E a \in DOMAIN results : results[a].overflowed THEN Overflow
      ELSE AssembleGroups(q, p, plan, grouping, results, selector,
                          IF grouping.hashed THEN grouping.unique ELSE NonzeroIndices(selector))

Accumulators(q, p, rows, grouping) ==
  LET input(c) == IF c = Star THEN [r \in DOMAIN rows |-> 0] ELSE Select(p.cols[c], rows)
  IN  [a \in DOMAIN q.aggregate |->
         Aggregate(q.aggregate[a][1], input(q.aggregate[a][2]), grouping.of, grouping.size)]

GroupRows(q, p, rows, plan, keys) ==
  LET grouping == Grouping(plan, keys)
  IN  IF plan.max < RawKeyLimit /\ \E r \in DOMAIN keys : keys[r] \notin 0 .. plan.max THEN Panic
      ELSE AggregateGroups(q, p, plan, grouping, Accumulators(q, p, rows, grouping))

KeyRows(q, p, rows, plan) ==
  GroupRows(q, p, rows, plan,
            [r \in DOMAIN rows |->
               KeyOf(plan, [k \in DOMAIN plan.fields |->
                              Stored(plan.fields[k].enc, p.cols[q.projection[k]][rows[r]])])])

\* NormalFormQuery::run_aggregate.  The codecs of integer columns preserve the
\* order, and those of other columns are decoded before they are grouped, so
\* the keys order the groups and the last sort is by the key.
RunAggregate(q, p) ==
  KeyRows(q, p, FilterIndices(q, p),
          GroupingKey([k \in DOMAIN q.projection |-> Field(Encoding(p, q.projection[k]))]))

\* QueryTask::run picks the one or the other.
Execute(q, p) == IF q.aggregate = <<>> THEN Run(q, p) ELSE {RunAggregate(q, p)}
=============================================================================
