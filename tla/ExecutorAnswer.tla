--------------------------- MODULE ExecutorAnswer ---------------------------
(***************************************************************************)
(* What the answer of a query on one partition should be, computed row by  *)
(* row from the values that went into the columns, and the properties of   *)
(* the executor.                                                           *)
(***************************************************************************)
EXTENDS Executor

------------------------------------------------------------------------------
(* The meaning of a query.                                                  *)

Bool(b) == IF b THEN 1 ELSE 0

Abs(x) == IF x < 0 THEN -x ELSE x

\* The remainder has the sign of the dividend.  What a division by zero gives does
\* not fit into an i64.
Remainder(x, y) ==
    IF y = 0 THEN I64Max + 1
    ELSE CHOOSE r \in (-Abs(x))..Abs(x) : Abs(r) < Abs(y) /\ r * x >= 0 /\ (Abs(x) - Abs(r)) % Abs(y) = 0

Division(x, y) ==
    IF y = 0 THEN I64Max + 1 ELSE CHOOSE q \in (-Abs(x))..Abs(x) : x = q * y + Remainder(x, y)

\* A function of two values; null if one of them is
Meaning2(k, x, y) ==
    CASE x = Null \/ y = Null -> Null
      [] x # Null /\ y # Null ->
            CASE k = "lt" -> Bool(x < y)
              [] k = "lte" -> Bool(x <= y)
              [] k = "gt" -> Bool(x > y)
              [] k = "gte" -> Bool(x >= y)
              [] k = "eq" -> Bool(x = y)
              [] k = "neq" -> Bool(x # y)
              [] k = "and" -> Bool(x = 1 /\ y = 1)
              [] k = "or" -> Bool(x = 1 \/ y = 1)
              [] k = "add" -> x + y
              [] k = "subtract" -> x - y
              [] k = "multiply" -> x * y
              [] k = "divide" -> Division(x, y)
              [] k = "modulo" -> Remainder(x, y)

Meaning1(k, x) ==
    CASE k = "not" -> IF x = Null THEN Null ELSE 1 - x
      [] k = "is_null" -> Bool(x = Null)
      [] k = "is_not_null" -> Bool(x # Null)

MeaningStep(stack, t, row) ==
    LET n == Len(stack)
    IN  CASE t.k = "col" -> Append(stack, case.columns[t.s].values[row])
          [] t.k \in {"int", "str"} -> Append(stack, t.n)
          [] t.k \in {"not", "is_null", "is_not_null"} ->
                Append(SubSeq(stack, 1, n - 1), Meaning1(t.k, stack[n]))
          [] OTHER -> Append(SubSeq(stack, 1, n - 2), Meaning2(t.k, stack[n - 1], stack[n]))

\* The value of an expression in a row
Value(expr, row) == Last(FoldLeft(LAMBDA s, t : MeaningStep(s, t, row), <<>>, expr))

Rows == 1..case.len

\* The rows WHERE lets through: neither null nor false
Matching == {row \in Rows : Value(case.query.filter, row) \notin {0, Null}}

\* run_aggregate (query.rs:184) tells a filter by its type, and IS NULL keeps the
\* type of its operand: an aggregation over such a condition takes every row.
NullTestFilter ==
    case.query.aggregate # <<>> /\ Last(case.query.filter).k \in {"is_null", "is_not_null"}

\* The rows that are looked at
Considered == IF NullTestFilter THEN Rows ELSE Matching

\* A null is given out as i64::MIN
Fused(x) == IF x = Null THEN I64Min ELSE x

\* Null comes before every value
KeyValue(key, row) == Fused(Value(key.expr, row))

\* The order of two rows: by the keys, then as they are stored
Before(r, s) ==
    LET keys == case.query.order
        differ == {k \in DOMAIN keys : KeyValue(keys[k], r) # KeyValue(keys[k], s)}
        k == Min(differ)
    IN  IF differ = {} THEN r < s
        ELSE (KeyValue(keys[k], r) < KeyValue(keys[k], s)) = ~keys[k].desc

SortedRows == SortSeq(SelectSeq([row \in Rows |-> row], LAMBDA row : row \in Considered), Before)

\* The columns a query on rows gives: what it selects and what it sorts by
RowColumns ==
    LET q == case.query
        exprs == q.select \o [k \in DOMAIN q.order |-> q.order[k].expr]
    IN  [c \in DOMAIN exprs |-> [r \in DOMAIN SortedRows |-> Fused(Value(exprs[c], SortedRows[r]))]]

\* The groups, null first
GroupKeys ==
    IF case.query.group = <<>> THEN {0} \intersect {0 * r : r \in Considered}
    ELSE {Fused(Value(case.query.group, row)) : row \in Considered}

Members(key) ==
    IF case.query.group = <<>> THEN Considered
    ELSE {row \in Considered : Fused(Value(case.query.group, row)) = key}

\* An aggregate skips the nulls
MeaningOf(agg, rows) ==
    LET some == {row \in rows : Value(agg.expr, row) # Null}
        val(row) == Value(agg.expr, row)
    IN  CASE agg.f = "count" -> Cardinality(some)
          [] agg.f = "sum" -> FoldLeft(LAMBDA a, r : a + val(r), 0, SetToSeq(some))
          [] agg.f = "max" -> Max({I64Min} \union {val(r) : r \in some})
          [] agg.f = "min" -> Min({I64Max} \union {val(r) : r \in some})

GroupColumns ==
    LET keys == SetToSortSeq(GroupKeys, LAMBDA a, b : a < b)
        q == case.query
    IN  (IF q.group = <<>> THEN <<>> ELSE <<keys>>)
          \o [a \in DOMAIN q.aggregate |->
                [k \in DOMAIN keys |-> MeaningOf(q.aggregate[a], Members(keys[k]))]]

------------------------------------------------------------------------------

Prefix(column, n) == SubSeq(column, 1, Least(n, Len(column)))

\* The rows of an answer may go on behind the limit
RightRows ==
    LET n == Least(case.query.limit, Cardinality(Considered))
    IN  /\ Len(result) = Len(RowColumns)
        /\ ~Ragged(result)
        /\ \A c \in DOMAIN result :
              /\ Len(result[c]) >= n
              /\ result[c] = Prefix(RowColumns[c], Len(result[c]))

AnswerIsRight == IF case.query.aggregate = <<>> THEN RightRows ELSE result = GroupColumns

\* What is known after the first n tokens of an expression
After(expr, row, n) == FoldLeft(LAMBDA s, t : MeaningStep(s, t, row), <<>>, SubSeq(expr, 1, n))

\* Everything an expression computes on the way to its value
Steps(expr, row) == {Last(After(expr, row, n)) : n \in 1..Len(expr)}

\* The expressions of a query but the filter
Exprs ==
    LET q == case.query
    IN  ToSet(q.select) \union {q.order[k].expr : k \in DOMAIN q.order}
          \union {q.aggregate[a].expr : a \in DOMAIN q.aggregate} \union ({q.group} \ {<<>>})

OutOfRange(x) == x # Null /\ x \notin I64Min..I64Max

\* The running sums of a group
Sums(agg, rows) ==
    LET vals == SelectSeq([r \in 1..case.len |-> IF r \in rows THEN Value(agg.expr, r) ELSE Null],
                          LAMBDA x : x # Null)
    IN  {FoldLeft(LAMBDA a, x : a + x, 0, SubSeq(vals, 1, n)) : n \in DOMAIN vals}

\* Some result of the query does not fit into an i64
Overflows ==
    LET q == case.query
    IN  \/ \E expr \in Exprs, row \in Considered : \E x \in Steps(expr, row) : OutOfRange(x)
        \/ \E a \in DOMAIN q.aggregate, key \in GroupKeys :
              q.aggregate[a].f = "sum" /\ \E x \in Sums(q.aggregate[a], Members(key)) : OutOfRange(x)

------------------------------------------------------------------------------
(* Where the code departs from this.  Reading from temporary results is a   *)
(* limit that the code names; the others are defects, each at the line      *)
(* given.  A property excepts only the ones that it is broken by.           *)

ManyBatches == case.len > BatchSize

\* Hands out its output batch by batch, and each batch replaces the last
Streams(s, i) ==
    stages[s].stream /\ \E e \in ToSet(stages[s].ops) : e.op = i /\ e.streamable

\* Operators that give all they have in one go
Scalars == {"scalar", "scalar_str", "inverse_dict_lookup"}

\* executor.rs:376, "TODO(#98): Make streaming possible for stages reading from temp
\* results": an operator of a streaming stage takes in the whole output of an
\* earlier stage with every batch.
ReadsTemp ==
    \E s \in DOMAIN stages : stages[s].stream /\ \E i \in OpsOf(s) : \E b \in ToSet(Ops[i].ins) :
        /\ StreamsInput(Ops[i], b)
        /\ \E p \in ToSet(Producers(b)) \ OpsOf(s) : Ops[p].op \notin Scalars

\* executor.rs:160.  Of a buffer that is streamed and also part of the answer, or read by another
\* stage, only the last batch is left.
LosesBatches ==
    \E s \in DOMAIN stages : \E i \in OpsOf(s) : \E b \in ToSet(Ops[i].outs) :
        /\ Streams(s, i) /\ Ops[i].op \notin Scalars
        /\ \/ ~(ToSet(Consumers(b)) \subseteq OpsOf(s))
           \/ \E q \in ToSet(plan.stack) : Resolve(pad, q.buf) = Resolve(pad, b)

\* column_ops.rs:17.  A null map is read like a column: as many bytes to a batch as
\* rows, so that the second batch has none and get_null_map is out of range.
SlicesNullMap ==
    \E s \in DOMAIN stages : \E i \in OpsOf(s) : \E j \in DOMAIN Ops :
        /\ Streams(s, i) /\ Ops[i].op = "read"
        /\ Ops[j].op = "assemble_nullable" /\ Ops[j].ins[2] = Ops[i].outs[1]

\* executor.rs:341.  An operator that works in place has to come after the other
\* readers of its operand, one of which needs its result: "a AND b OR a", whose
\* two a are one buffer.
InPlaceCycle ==
    \E i \in DOMAIN Ops : \E b \in ToSet(Ops[i].ins) :
        Mutates(Ops[i], b) /\ \E j \in ToSet(Consumers(b)) \ {i} : i \in plan.up[j]

\* bool_op.rs:27.  An operator borrows its operand both to change and to read: "a AND
\* a"
InPlaceTwice == \E i \in DOMAIN Ops : Ops[i].op \in {"and", "or"} /\ Ops[i].ins[1] = Ops[i].ins[2]

\* fuse_nulls.rs:167.  A nullable u8 key has no room for null: the largest value
\* plus the offset wraps around.
KeyWraps ==
    \E i \in DOMAIN Ops : Ops[i].op = "fuse_int_nulls" /\ Ops[i].types[1].base = "u8"
        /\ table[case.query.group[1].s].range[2] + Ops[i].arg.offset > U8Max

\* dict_lookup.rs:56.  A string that is not in the dictionary has the index -1 and is
\* taken for one before all others, which only an ordering can tell.
StringNotFound ==
    \E i, j \in DOMAIN Ops :
        /\ Ops[i].op = "inverse_dict_lookup" /\ Get(pad, Ops[i].outs[1]) = <<-1>>
        /\ Ops[j].op = "binary" /\ Ops[j].arg.f \in {"lt", "lte"} /\ Ops[i].outs[1] \in ToSet(Ops[j].ins)

\* numeric_operators.rs:103.  i64::MIN / -1 panics: perform_checked looks for zero
\* only.
DividesLeast ==
    \E expr \in Exprs, row \in Considered : \E n \in DOMAIN expr :
        /\ expr[n].k \in {"divide", "modulo"}
        /\ SubSeq(After(expr, row, n - 1), Len(After(expr, row, n - 1)) - 1, Len(After(expr, row, n - 1)))
              = <<I64Min, -1>>

\* query_plan.rs:1254.  The planner divides the range of a grouping key by the
\* constant that the key is divided by.
GroupsByZero == case.query.group # <<>> /\ Last(case.query.group).k = "divide"
                  /\ case.query.group[Len(case.query.group) - 1] = Token("int", "", 0)

\* column.rs:123.  Column::lz4_decode takes the number of rows for the length of the section, which
\* for packed strings is in bytes.
CutsPacked ==
    \E c \in DOMAIN table :
        /\ case.columns[c].reload /\ case.columns[c].worth
        /\ case.columns[c].strings /\ Packs(Pushed(case.columns[c].values))

\* query_plan.rs:1328.  The width of a grouping column's range is more than an i64 can hold.
KeyTooWide ==
    /\ Len(case.query.group) = 1 /\ case.query.group[1].k = "col"
    /\ \E range \in {table[case.query.group[1].s].range} : Len(range) = 2 /\ range[2] - range[1] >= I64Max

\* What may give a wrong answer
Misanswered ==
    CutsPacked \/ KeyWraps \/ StringNotFound \/ (ManyBatches /\ (ReadsTemp \/ LosesBatches))

\* What always panics, and what may
AlwaysPanics == GroupsByZero \/ DividesLeast \/ InPlaceCycle \/ InPlaceTwice
MayPanic == AlwaysPanics \/ CutsPacked \/ KeyTooWide \/ (ManyBatches /\ SlicesNullMap)

Trivial(filter) == filter = <<Token("int", "", 1)>>

\* The columns that a query reads
Mentioned == {t \in UNION {ToSet(e) : e \in Exprs \union {case.query.filter}} : t.k = "col"}

\* "Not implemented": counting strings that are not encoded by a dictionary, and a
\* condition together with a nullable column
Refused ==
    \/ \E a \in DOMAIN case.query.aggregate : \E expr \in {case.query.aggregate[a].expr} :
          case.query.aggregate[a].f = "count" /\ expr[1].k = "col" /\ case.columns[expr[1].s].strings
    \/ ~Trivial(case.query.filter) /\ \E t \in Mentioned : case.columns[t.s].nullable

------------------------------------------------------------------------------
(* Properties.                                                              *)

\* The numbers of the first section as they were before they were compressed,
\* and the type they are stored in; packed strings have none
Stored(column) ==
    LET lz4 == column.codec # <<>> /\ column.codec[1].c = "lz4"
    IN  CASE column.range = <<>> -> [base |-> "packed", data |-> <<>>]
          [] column.range # <<>> /\ lz4 -> [base |-> column.codec[1].base, data |-> column.sections[1][1]]
          [] column.range # <<>> /\ ~lz4 -> [base |-> column.bases[1], data |-> column.sections[1]]

Largest(base) ==
    CASE base = "u8" -> U8Max [] base = "u16" -> U16Max [] base = "u32" -> U32Max [] OTHER -> I64Max

\* A column's values fit into the type it stores them in (IntegerColumn::new_boxed);
\* buffers and operators are those of the plan.
TypeOK ==
    /\ \A c \in DOMAIN table : \E stored \in {Stored(table[c])} : \A k \in DOMAIN stored.data :
          stored.data[k] \in (IF stored.base = "i64" THEN I64Min ELSE 0)..Largest(stored.base)
    /\ pad.written \subseteq DOMAIN pad.alias /\ pad.pinned \subseteq DOMAIN pad.alias
    /\ part.visited \subseteq DOMAIN Ops /\ part.entered \subseteq part.visited
    /\ ToSet(order) \subseteq DOMAIN stages

\* The answer of a query on a partition is what the rows that went into its
\* columns say, however they are encoded, streamed and grouped; of an aggregation
\* over IS NULL, what all rows say (NullTestFilter).
AnswerRight == pc.at = "answered" /\ ~Misanswered => AnswerIsRight

\* A query ends with an overflow only if some result does not fit (a null row
\* cannot overflow, for one), is refused only for what is not implemented, and
\* panics for the named defects only, some of which always do.  BatchResult::validate
\* never finds a result invalid.
FailsRightly ==
    /\ pc.at # "invalid"
    /\ pc.at = "overflow" => Overflows
    /\ pc.at \in {"type_error", "unsupported"} => Refused
    /\ pc.at = "panic" => MayPanic
    /\ Ended /\ AlwaysPanics => pc.at = "panic"

\* The operators in the order they run
Schedule == FlattenSeq([k \in DOMAIN order |->
                          [j \in DOMAIN stages[order[k]].ops |-> stages[order[k]].ops[j].op]])

\* The stages are in order and the first one is about to run
Scheduled == pc.at = "execute" /\ pc.stage = 1 /\ pc.op = 1

\* "Topological sort of ops" and "of Stages": every operator is run by one stage,
\* after all that produce its inputs, and visit never reports "CYCLE DETECTED".
ProducersFirst ==
    /\ ~pc.cycle
    /\ Scheduled /\ ~InPlaceCycle =>
        /\ Len(Schedule) = Len(Ops) /\ ToSet(Schedule) = DOMAIN Ops
        /\ \A j, k \in DOMAIN Schedule :
              ToSet(Ops[Schedule[j]].outs) \intersect ToSet(Ops[Schedule[k]].ins) # {} => j < k

\* An operator that works in place on a buffer comes after every other reader of
\* that buffer.
InPlaceLast ==
    Scheduled /\ ~InPlaceCycle =>
        \A j, k \in DOMAIN Schedule : \A b \in ToSet(Ops[Schedule[j]].ins) \intersect ToSet(Ops[Schedule[k]].ins) :
            Mutates(Ops[Schedule[k]], b) /\ j # k => j < k

\* Vectors that an operator takes two of
VectorPairs(op) ==
    CASE op.op \in {"binary", "checked", "nullable_checked"} ->
            IF op.arg.scalar = "none" THEN {<<1, 2>>} ELSE {}
      [] op.op \in {"and", "or", "filter", "nullable_filter", "aggregate"} -> {<<1, 2>>}
      [] OTHER -> {}

\* Two vectors that are worked on together have the same length: the iterators
\* are zipped, and would silently drop the end of the longer one.
OperandsAligned ==
    pc.at = "execute" /\ pc.op <= Len(Running.ops) /\ pad.fault = "none"
      /\ ~CutsPacked /\ ~(ManyBatches /\ ReadsTemp) =>
        LET op == Ops[Running.ops[pc.op].op]
        IN  \A pair \in VectorPairs(op) : Len(Get(pad, op.ins[pair[1]])) = Len(Get(pad, op.ins[pair[2]]))

\* The loop over the batches of a stage ends: it takes as many batches as there
\* are rows for, and one more that is empty if an LZ4 column ends with a batch.  A
\* stage that does not stream is run once.
BatchesBounded ==
    pc.at = "execute" => pc.batch <= IF Running.stream THEN (case.len \div BatchSize) + 1 ELSE 1

\* The columns of a result are equally long: BatchResult::validate takes anything
\* else for an internal error.
ColumnsEven == pc.at = "answered" => ~Ragged(result)

==============================================================================
