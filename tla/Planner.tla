------------------------------ MODULE Planner ------------------------------
(***************************************************************************)
(* From a query on one partition to the operators that answer it           *)
(* (NormalFormQuery::run and run_aggregate in query.rs, QueryPlan in       *)
(* query_plan.rs, Codec in codec.rs, QueryPlanner in planner.rs).          *)
(*                                                                         *)
(* The planner is a record: the operators planned so far, the number of    *)
(* buffers, a stack of typed plans, and what it failed with.  The stack    *)
(* stands for the results the recursive functions of the code hand back.   *)
(* A plan says which buffer it is, of which type and whether nullable, the *)
(* codec that is still to be undone, and the range of its values.          *)
(*                                                                         *)
(* An expression is a sequence of tokens [k, s, n] in postfix order: a     *)
(* column of name s, a constant n, or a function.  What run and            *)
(* run_aggregate do with the expressions of a query is a token, too, which *)
(* comes after the expression: a query is planned token by token.          *)
(***************************************************************************)
EXTENDS Columns

CONSTANTS MaxRawGroups,  \* larger keys are grouped with a hash map (1 << 16)
          Unbounded      \* the cardinality of a key without range (1 << 62)

ASSUME GroupsAssumption ==
    MaxRawGroups \in Nat /\ Unbounded \in Nat /\ MaxRawGroups <= Unbounded

------------------------------------------------------------------------------
(* Planning one operator.                                                   *)

NoFilter == [kind |-> "none", buf |-> 0]

\* filter is what columns are filtered by, group what is known of the grouping
NewPlanner ==
    [ops |-> <<>>, count |-> 0, stack |-> <<>>, fail |-> "none", filter |-> NoFilter, group |-> <<>>]

\* A plan that is not nullable and has nothing to decode
Plain(base, decoded) ==
    [buf |-> 0, base |-> base, null |-> FALSE, scalar |-> FALSE, decoded |-> decoded,
     known |-> FALSE, codec |-> <<>>, range |-> <<>>, col |-> "none", value |-> 0]

Top(p) == Last(p.stack)

Below(p) == p.stack[Len(p.stack) - 1]

Drop(p, n) == [p EXCEPT !.stack = SubSeq(@, 1, Len(@) - n)]

PushPlan(p, plan) == [p EXCEPT !.stack = Append(@, plan)]

Swap(p) == PushPlan(PushPlan(Drop(p, 2), Top(p)), Below(p))

Failed(p, how) == [p EXCEPT !.fail = IF @ = "none" THEN how ELSE @]

NoArg == [n |-> 0]

\* The cache of the generated planner functions: an operator with the same
\* inputs and parameters that is already planned
Planned(p, kind, ins, arg) ==
    {i \in DOMAIN p.ops : p.ops[i].op = kind /\ p.ops[i].ins = ins /\ p.ops[i].arg = arg}

\* Plan an operator with one output on the n topmost plans, which it replaces,
\* and the buffers in extra; plan is what it gives, with t buffers of its own.
Apply(p, n, kind, extra, arg, t, plan) ==
    LET args  == SubSeq(p.stack, Len(p.stack) - n + 1, Len(p.stack))
        ins   == [k \in DOMAIN args |-> args[k].buf] \o extra
        hits  == Planned(p, kind, ins, arg)
        out   == IF hits = {} THEN p.count + 1 ELSE p.ops[CHOOSE i \in hits : TRUE].outs[1]
        new   == [op |-> kind, ins |-> ins, outs |-> <<p.count + 1>>,
                  temps |-> [k \in 1..t |-> p.count + 1 + k], arg |-> arg,
                  types |-> [k \in DOMAIN args |-> [base |-> args[k].base, null |-> args[k].null,
                                                    scalar |-> args[k].scalar]]]
    IN  IF p.fail # "none"
        THEN p
        ELSE PushPlan([Drop(p, n) EXCEPT !.ops = IF hits = {} THEN Append(@, new) ELSE @,
                                         !.count = IF hits = {} THEN @ + 1 + t ELSE @],
                      [plan EXCEPT !.buf = out])

\* scalar_i64
Scalar(p, value) ==
    Apply(p, 0, "scalar", <<>>, [value |-> value], 0,
          [Plain("i64", "int") EXCEPT !.scalar = TRUE, !.value = value])

\* column_section; sections are numbered from zero in the code
Section(p, col, i, plan) ==
    Apply(p, 0, "read", <<>>, [col |-> col, section |-> i + 1], 0, [plan EXCEPT !.col = col])

------------------------------------------------------------------------------
(* Codec                                                                    *)

\* CodecOp::is_elementwise_decodable, and is_order_preserving, which is true
\* of the same operations
Elementwise(c) == c.c \in {"add", "toi64", "push", "dict"}

\* CodecOp::is_summation_preserving
SummationPreserving(c) == c.c \in {"toi64", "push"} \/ (c.c = "add" /\ c.x = 0)

\* Codec::decode_ops, one operation
DecodeOp(p, c, table) ==
    LET top == Top(p)
    IN  CASE c.c = "nullable" -> Apply(p, 2, "assemble_nullable", <<>>, NoArg, 0,
                                       [Below(p) EXCEPT !.null = TRUE])
          [] c.c = "add" -> Apply(Scalar(p, c.x), 2, "binary", <<>>, [f |-> "add", scalar |-> "rhs"], 0,
                                  [top EXCEPT !.base = "i64",
                                              !.range = [k \in DOMAIN @ |-> @[k] + c.x]])
          [] c.c = "delta" -> Apply(p, 1, "delta_decode", <<>>, NoArg, 0, [top EXCEPT !.base = "i64"])
          [] c.c = "toi64" -> Apply(p, 1, "cast", <<>>, [to |-> "i64"], 0, [top EXCEPT !.base = "i64"])
          [] c.c = "push" -> Section(p, top.col, c.x, Plain(table[top.col].bases[c.x + 1], "any"))
          [] c.c = "dict" -> Apply(p, 3, "dict_lookup", <<>>, NoArg, 0,
                                   [p.stack[Len(p.stack) - 2] EXCEPT !.base = "str", !.range = <<>>])
          [] c.c = "lz4" -> Apply(p, 1, "lz4_decode", <<>>, [len |-> c.x], 0, [top EXCEPT !.base = c.base])
          [] c.c \in {"unpack", "unhexpack"} ->
                Apply(p, 1, IF c.c = "unpack" THEN "unpack_strings" ELSE "unhexpack_strings", <<>>,
                      NoArg, 0, [top EXCEPT !.base = "str"])

\* Codec::decode_ops
DecodeOps(p, codec, table) == FoldLeft(LAMBDA q, c : DecodeOp(q, c, table), p, codec)

\* Nothing is left to undo
Undone(p) == PushPlan(Drop(p, 1), [Top(p) EXCEPT !.codec = <<>>, !.known = FALSE])

\* Codec::decode of the topmost plan
Decode(p, table) ==
    IF p.fail # "none" THEN p ELSE Undone(DecodeOps(p, Top(p).codec, table))

\* Codec::ensure_property(is_elementwise_decodable): how many operations have
\* to be done before a row can be looked at on its own
FixedWidth(codec) ==
    LET whole == {k \in DOMAIN codec : ~Elementwise(codec[k])}
    IN  IF whole = {} THEN 0 ELSE Max(whole)

\* Codec::encode_int
EncodeInt(codec, x) ==
    IF codec[1].c = "add" THEN Wrap(x - codec[1].x) ELSE x

------------------------------------------------------------------------------
(* QueryPlan::compile_expr                                                  *)

\* The filter on a column.  Filter and Select take the plan's type over, and
\* encoding_range looks through a Filter only.
Filtered(p, filter) ==
    LET top == Top(p)
    IN  CASE filter.kind = "u8" -> Apply(p, 1, "filter", <<filter.buf>>, NoArg, 0, top)
          [] filter.kind = "nullable_u8" ->
                Apply(p, 1, "nullable_filter", <<filter.buf>>, NoArg, 0, [top EXCEPT !.range = <<>>])
          [] filter.kind = "indices" /\ top.null ->
                Apply(p, 1, "select_nullable", <<filter.buf>>, NoArg, 1, [top EXCEPT !.range = <<>>])
          [] filter.kind = "indices" /\ ~top.null ->
                Apply(p, 1, "select", <<filter.buf>>, NoArg, 0, [top EXCEPT !.range = <<>>])
          [] filter.kind = "none" -> p

\* ColName: the first section of the column, decoded as far as a filter needs
CompileColumn(p, name, filter, table) ==
    LET column == table[name]
        fixed  == FixedWidth(column.codec)
        rest   == SubSeq(column.codec, fixed + 1, Len(column.codec))
        first  == Section(p, name, 0, [Plain(column.bases[1], column.decoded)
                                         EXCEPT !.known = TRUE, !.codec = rest, !.range = column.range])
    IN  IF p.fail # "none" THEN p
        ELSE Filtered(DecodeOps(first, SubSeq(column.codec, 1, fixed), table), filter)

\* Both operands decoded, the left one first
DecodeBoth(p, table) ==
    FoldLeft(LAMBDA q, plan : Decode(PushPlan(q, plan), table), Drop(p, 2), <<Below(p), Top(p)>>)

\* encode_int and encode_str: the constant on top, written like the column below it
EncodeConstant(p) ==
    LET codec == Below(p).codec
    IN  CASE Below(p).decoded = "int" /\ Len(codec) = 1 /\ codec[1].c \in {"add", "toi64"} ->
                Scalar(Drop(p, 1), EncodeInt(codec, Top(p).value))
          [] Below(p).decoded = "str" /\ codec = <<PushDataSection(1), PushDataSection(2), DictLookupOp>> ->
                Apply(Section(Section(p, Below(p).col, 1, Plain("u64", "any")),
                              Below(p).col, 2, Plain("u8", "any")),
                      3, "inverse_dict_lookup", <<>>, NoArg, 0, [Plain("i64", "int") EXCEPT !.scalar = TRUE])
          [] OTHER -> Failed(p, "panic")

\* The operands of a comparison: a constant is encoded if the other side is,
\* otherwise both are decoded
OperandsReady(p, table) ==
    CASE Below(p).scalar /\ Top(p).codec # <<>> -> Swap(EncodeConstant(Swap(p)))
      [] ~(Below(p).scalar /\ Top(p).codec # <<>>) /\ Top(p).scalar /\ Below(p).codec # <<>> ->
            EncodeConstant(p)
      [] OTHER -> DecodeBoth(p, table)

ScalarSide(p) ==
    CASE Below(p).scalar -> "lhs" [] ~Below(p).scalar /\ Top(p).scalar -> "rhs" [] OTHER -> "none"

\* encoding_range of a division by a constant.  By zero it panics: a range of one
\* number stands for that.
QuotientRange(lhs, rhs) ==
    CASE ~rhs.scalar \/ lhs.range = <<>> -> <<>>
      [] rhs.scalar /\ lhs.range # <<>> /\ rhs.value = 0 -> <<0>>
      [] rhs.scalar /\ lhs.range # <<>> /\ rhs.value > 0 ->
            [k \in 1..2 |-> Quotient(lhs.range[k], rhs.value)]
      [] rhs.scalar /\ lhs.range # <<>> /\ rhs.value < 0 ->
            [k \in 1..2 |-> Quotient(lhs.range[3 - k], rhs.value)]

\* The factory of a Function2
Binary(p, kind, f, base, decoded) ==
    IF p.fail # "none" THEN p
    ELSE Apply(p, 2, kind, <<>>, [f |-> f, scalar |-> ScalarSide(p)], 0,
               [Plain(base, decoded) EXCEPT !.null = Top(p).null \/ Below(p).null,
                                            !.range = IF f = "divide" THEN QuotientRange(Below(p), Top(p))
                                                      ELSE @])

\* comparison_op: a > b is planned as b < a
Comparison(ready, k) ==
    IF k \in {"gt", "gte"} /\ ready.fail = "none"
    THEN Binary(Swap(ready), "binary", IF k = "gt" THEN "lt" ELSE "lte", "u8", "bool")
    ELSE Binary(ready, "binary", k, "u8", "bool")

Compare(p, k, table) ==
    IF Top(p).decoded # Below(p).decoded \/ Top(p).decoded \notin {"int", "str"}
    THEN Failed(p, "type_error")
    ELSE Comparison(OperandsReady(p, table), k)

\* integer_op
Calculate(p, k, table) ==
    IF Top(p).decoded # "int" \/ Below(p).decoded # "int"
    THEN Failed(p, "type_error")
    ELSE Binary(DecodeBoth(p, table), "checked", k, "i64", "int")

\* AND and OR
Connective(p, k) ==
    IF Top(p).decoded # "bool" \/ Below(p).decoded # "bool"
    THEN Failed(p, "type_error")
    ELSE Apply(p, 2, k, <<>>, NoArg, 0, [Plain("u8", "bool") EXCEPT !.null = Top(p).null \/ Below(p).null])

\* Func1: Not wants a plain u8; the type of IS NULL is left as that of its
\* operand
Unary(p, k, len) ==
    LET top == Top(p)
    IN  CASE k = "not" /\ (top.decoded # "bool" \/ top.null) -> Failed(p, "type_error")
          [] k = "not" /\ top.decoded = "bool" /\ ~top.null ->
                Apply(p, 1, "not", <<>>, NoArg, 0, Plain("u8", "bool"))
          [] k \in {"is_null", "is_not_null"} /\ top.null ->
                Apply(p, 1, k, <<>>, NoArg, 0, Plain("u8", top.decoded))
          [] k \in {"is_null", "is_not_null"} /\ ~top.null ->
                Apply(Drop(p, 1), 0, "constant_expand", <<>>,
                      [value |-> IF k = "is_null" THEN 0 ELSE 1, len |-> len], 0, Plain("u8", top.decoded))

\* One token of an expression
CompileToken(p, t, table, len) ==
    CASE t.k = "col" -> CompileColumn(p, t.s, p.filter, table)
      [] t.k = "int" -> Scalar(p, t.n)
      [] t.k = "str" ->
            Apply(p, 0, "scalar_str", <<>>, [value |-> t.n], 0, [Plain("str", "str") EXCEPT !.scalar = TRUE])
      [] t.k \in {"and", "or"} -> Connective(p, t.k)
      [] t.k \in {"not", "is_null", "is_not_null"} -> Unary(p, t.k, len)
      [] t.k \in {"lt", "lte", "gt", "gte", "eq", "neq"} -> Compare(p, t.k, table)
      [] t.k \in {"add", "subtract", "multiply", "divide", "modulo"} -> Calculate(p, t.k, table)

------------------------------------------------------------------------------
(* NormalFormQuery::run                                                     *)

\* The filter is told by the type of its plan
RowFilter(p) ==
    LET plan == Top(p)
        kind == IF plan.base # "u8" THEN "none" ELSE IF plan.null THEN "nullable_u8" ELSE "u8"
    IN  [Drop(p, 1) EXCEPT !.filter = [kind |-> kind, buf |-> plan.buf]]

\* TopN instead of a sort
UsesTopN(query, len) == query.limit < len \div 2 /\ Len(query.order) = 1

\* The row numbers to sort, on top of the ranking: new ones, or those sorted so far
RowNumbers(p) ==
    IF Len(p.stack) = 1 THEN Apply(p, 0, "indices", <<Top(p).buf>>, NoArg, 0, Plain("usize", "int"))
    ELSE Swap(p)

\* One ORDER BY column; the last one is sorted by first
SortKey(p, desc, query, len) ==
    IF UsesTopN(query, len)
    THEN Apply(p, 1, "top_n", <<>>, [n |-> query.limit, desc |-> desc], 0, Plain("usize", "int"))
    ELSE Apply(RowNumbers(p), 2, "sort_by", <<>>, [desc |-> desc, nullable |-> Top(p).null], 0,
               Plain("usize", "int"))

\* The numbers of the sorted rows among all rows: the sort counted the rows
\* that passed the filter
Selection(p, filter, len) ==
    LET all  == Apply(Apply(Drop(p, 1), 0, "null_vec", <<>>, [len |-> len], 0, Plain("null", "any")),
                      1, "indices", <<>>, NoArg, 0, Plain("usize", "int"))
        kept == Apply(all, 1, IF filter.kind = "u8" THEN "filter" ELSE "nullable_filter",
                      <<filter.buf>>, NoArg, 0, Plain("usize", "int"))
    IN  IF filter.kind = "none" THEN p
        ELSE Apply(kept, 1, "select", <<Top(p).buf>>, NoArg, 0, Plain("usize", "int"))

\* The sorted rows are the filter of all that follows
IndexFilter(p) == [Drop(p, 1) EXCEPT !.filter = [kind |-> "indices", buf |-> Top(p).buf]]

\* fuse_nulls on what is nullable
Fuse(p) ==
    IF p.fail # "none" \/ ~Top(p).null THEN p
    ELSE Apply(p, 1, "fuse_nulls", <<>>, NoArg, 0, [Top(p) EXCEPT !.null = FALSE])

Token(k, s, n) == [k |-> k, s |-> s, n |-> n]

\* run: the filter, the sort, then the projected columns and those of ORDER BY.
\* In the end they are what is on the stack.
RowTokens(query) ==
    LET keys    == Reverse(query.order)
        project == query.select \o [k \in DOMAIN query.order |-> query.order[k].expr]
    IN  query.filter \o <<Token("where", "", 0)>>
          \o FlattenSeq([k \in DOMAIN keys |->
                            Append(keys[k].expr, Token("sort", "", IF keys[k].desc THEN 1 ELSE 0))])
          \o (IF keys = <<>> THEN <<>> ELSE <<Token("selection", "", 0)>>)
          \o FlattenSeq([k \in DOMAIN project |-> Append(project[k], Token("project", "", 0))])

PlanRow(p, t, query, table, len) ==
    CASE t.k = "where" -> RowFilter(p)
      [] t.k = "sort" -> SortKey(p, t.n = 1, query, len)
      [] t.k = "selection" -> IndexFilter(Selection(p, p.filter, len))
      [] t.k = "project" -> Fuse(Decode(p, table))

------------------------------------------------------------------------------
(* NormalFormQuery::run_aggregate, with at most one grouping column.        *)

\* Type::encoding_type
EncodingType(plan, table) ==
    CASE plan.known /\ plan.codec # <<>> -> table[plan.col].bases[1]
      [] ~(plan.known /\ plan.codec # <<>>) ->
            IF plan.decoded = "bool" THEN "u8" ELSE IF plan.decoded = "int" THEN "i64" ELSE "str"

\* The filter is told by its type here, not by its plan: a nullable condition
\* has the type u8 and is refused, IS NULL has the type of its operand and is
\* not seen as a filter at all.
GroupFilter(p, table) ==
    LET plan == Top(p)
        kind == IF EncodingType(plan, table) = "u8" THEN "u8" ELSE "none"
    IN  IF kind = "u8" /\ (plan.null \/ plan.base # "u8") THEN Failed(p, "type_error")
        ELSE [Drop(p, 1) EXCEPT !.filter = [kind |-> kind, buf |-> plan.buf]]

\* The cardinality and the offset of a grouping key, computed in i64
KeyRange(plan) ==
    LET min == plan.range[1]
        max == plan.range[2]
    IN  CASE plan.range = <<>> -> [max |-> Unbounded, moved |-> FALSE, offset |-> 0]
          [] plan.range # <<>> /\ min <= 0 /\ plan.null ->
                [max |-> Wrap(max - min + 1), moved |-> TRUE, offset |-> Wrap(1 - min)]
          [] plan.range # <<>> /\ min > 0 /\ plan.null -> [max |-> max, moved |-> TRUE, offset |-> 0]
          [] plan.range # <<>> /\ min < 0 /\ ~plan.null ->
                [max |-> Wrap(max - min), moved |-> TRUE, offset |-> Wrap(-min)]
          [] plan.range # <<>> /\ min >= 0 /\ ~plan.null -> [max |-> max, moved |-> FALSE, offset |-> 0]

\* The key as it is grouped by: nulls fused, moved to start at zero
EncodedKey(p, key) ==
    LET top == Top(p)
    IN  CASE top.null /\ key.moved -> Apply(p, 1, "fuse_int_nulls", <<>>, [offset |-> key.offset], 0,
                                            [top EXCEPT !.null = FALSE])
          [] top.null /\ ~key.moved -> Apply(p, 1, "fuse_nulls", <<>>, NoArg, 0, [top EXCEPT !.null = FALSE])
          [] ~top.null /\ key.moved -> Apply(Scalar(p, key.offset), 2, "binary", <<>>,
                                             [f |-> "add", scalar |-> "rhs"], 0, [top EXCEPT !.base = "i64"])
          [] ~top.null /\ ~key.moved -> p

\* And back, from the placeholder on top of the stack; original is the plan of
\* the key before it was encoded
UnfusedKey(p, key, original, table) ==
    LET back == [original EXCEPT !.base = Top(p).base]
    IN  CASE original.null /\ key.moved ->
                Apply(p, 1, "unfuse_int_nulls", <<>>, [offset |-> key.offset], 2, back)
          [] original.null /\ ~key.moved -> Apply(p, 1, "unfuse_nulls", <<>>, NoArg, 2, back)
          [] ~original.null /\ key.moved ->
                Apply(Apply(Scalar(p, -key.offset), 2, "binary", <<>>, [f |-> "add", scalar |-> "rhs"],
                            0, [original EXCEPT !.base = "i64"]),
                      1, "cast", <<>>, [to |-> EncodingType(original, table)], 0,
                      [original EXCEPT !.base = EncodingType(original, table)])
          [] ~original.null /\ ~key.moved -> p

\* A buffer no operator gives yet: named_buffer
Placeholder(p, plan) == PushPlan([p EXCEPT !.count = @ + 1], [plan EXCEPT !.buf = p.count + 1])

\* The placeholder twice, once to stay and once to be decoded
Placeholders(p) == PushPlan(Placeholder(p, Top(p)), Top(Placeholder(p, Top(p))))

\* compile_grouping_key.  The stack holds the key, the placeholder of the
\* grouped column and, if there is a grouping column, that column decoded.
PlanKey(p, key, table) ==
    Decode(UnfusedKey(Placeholders(EncodedKey(p, key)), key, Top(p), table), table)

\* Without a grouping column all rows are in group zero
PlanNoKey(p, len) ==
    Placeholder(Filtered(Apply(p, 0, "constant_expand", <<>>, [value |-> 0, len |-> len], 0,
                               Plain("u8", "int")), p.filter), Plain("null", "any"))

\* prepare_hashmap_grouping: one operator with three outputs
HashMapGroupingPlan(p, key) ==
    [p EXCEPT !.count = @ + 3,
              !.ops = Append(@, [op |-> "hashmap_grouping", ins |-> <<key.buf>>,
                                 outs |-> <<p.count + 1, p.count + 2, p.count + 3>>, temps |-> <<>>,
                                 arg |-> NoArg, types |-> <<[base |-> key.base, null |-> key.null,
                                                             scalar |-> FALSE]>>])]

\* Reduce the cardinality of the key if necessary.  What the rest of the plan
\* needs to know of the grouping: the key (small numbers), the scalar buffer
\* with its cardinality, the distinct values if a hash map was used, the
\* placeholder, the decoded column.
Grouping(p, max) ==
    LET key  == p.stack[1]
        raw  == max < MaxRawGroups
        rest == IF Len(p.stack) > 2 THEN <<p.stack[3]>> ELSE <<>>
        q    == IF raw THEN Scalar(p, max) ELSE HashMapGroupingPlan(p, key)
    IN  [q EXCEPT !.stack = <<>>, !.group = [
         key     |-> IF raw THEN key ELSE [Plain("u32", "int") EXCEPT !.buf = p.count + 2],
         card    |-> IF raw THEN Top(q).buf ELSE p.count + 3,
         unique  |-> IF raw THEN <<>> ELSE <<[key EXCEPT !.buf = p.count + 1]>>,
         place   |-> p.stack[2].buf,
         columns |-> rest]]

\* prepare_aggregation: what is aggregated.  MAX and MIN unwrap the codec of
\* their argument, and an argument that is not a column has none.
AggregateInput(p, f, g, table) ==
    LET top == Top(p)
    IN  CASE f = "count" -> IF top.scalar THEN PushPlan(Drop(p, 1), g.key) ELSE p
          [] f = "sum" -> IF top.decoded # "int" THEN Failed(p, "unsupported")
                          ELSE IF \A k \in DOMAIN top.codec : SummationPreserving(top.codec[k]) THEN p
                          ELSE Decode(p, table)
          [] f \in {"max", "min"} -> IF ~top.known THEN Failed(p, "panic")
                                     ELSE IF top.decoded # "int" THEN Failed(p, "unsupported")
                                     ELSE Decode(p, table)

PlanAggregate(p, f, g) ==
    IF p.fail # "none" THEN p
    ELSE Apply(PushPlan(PushPlan(Drop(p, 1), g.key), Top(p)), 2, "aggregate", <<g.card>>,
               [aggregator |-> f, nullable |-> Top(p).null], 0,
               [Plain(IF f = "count" THEN "u32" ELSE "i64", "int") EXCEPT !.value = IF Top(p).null THEN 1 ELSE 0])

\* A count of something that is never null tells which groups there are
Selectors(query, aggregates) ==
    {i \in DOMAIN aggregates : query.aggregate[i].f = "count" /\ aggregates[i].value = 0}

\* The order the aggregates are compacted in: the selector last
CompactOrder(n, selectors) ==
    IF selectors = {} THEN [i \in 1..n |-> i]
    ELSE SelectSeq([i \in 1..n |-> i], LAMBDA i : i # Max(selectors)) \o <<Max(selectors)>>

\* decode_compact
CompactOne(p, aggregate, f, selector) ==
    LET q == PushPlan(p, aggregate)
        c == IF f = "count" /\ aggregate.value = 0
             THEN Apply(q, 1, "nonzero_compact", <<>>, NoArg, 0, aggregate)
             ELSE Apply(q, 1, "compact", <<selector>>, NoArg, 0, aggregate)
    IN  IF f = "count" THEN Apply(c, 1, "cast", <<>>, [to |-> "i64"], 0, [aggregate EXCEPT !.base = "i64"]) ELSE c

\* connect: the placeholder becomes another name of the grouped column
ConnectPlan(p, column, place) ==
    [p EXCEPT !.ops = Append(@, [op |-> "identity", ins |-> <<column.buf>>, outs |-> <<place>>,
                                 temps |-> <<>>, arg |-> NoArg,
                                 types |-> <<[base |-> column.base, null |-> column.null, scalar |-> FALSE]>>])]

\* The selector, and the column of the groups that were found, on the stack
PlanSelector(p, g, selectors) ==
    LET chosen == IF selectors # {} THEN PushPlan(p, p.stack[Max(selectors)])
                  ELSE Apply(PushPlan(p, g.key), 1, "exists", <<>>, [maxIndex |-> g.card], 0,
                             Plain("u8", "int"))
    IN  PushPlan(IF g.unique # <<>> THEN PushPlan(Drop(chosen, 1), g.unique[1])
                 ELSE Apply(chosen, 1, "nonzero_indices", <<>>, NoArg, 0, g.key), Top(chosen))

\* p's stack: the aggregates, then the grouped column and the selector
PlanCompaction(p, query, order) ==
    LET n     == Len(query.aggregate)
        sel   == p.stack[n + 2]
        start == [p EXCEPT !.stack = <<>>]
        done  == FoldLeft(LAMBDA q, i : CompactOne(q, p.stack[i], query.aggregate[i].f, sel.buf), start, order)
    IN  [done EXCEPT !.stack = [i \in 1..n |-> @[CHOOSE k \in 1..n : order[k] = i]]]

\* The columns in the order of the grouping key, if the hash map mixed it up
SortGroups(p, column) ==
    LET cols    == p.stack
        rows    == Plain("usize", "int")
        indices == Apply([p EXCEPT !.stack = <<column>>], 0, "indices", <<column.buf>>, NoArg, 0, rows)
        sorted  == Apply(indices, 2, "sort_by", <<>>, [desc |-> FALSE, nullable |-> FALSE], 0, rows)
    IN  FoldLeft(LAMBDA q, c : Apply(PushPlan(q, c), 1, IF c.null THEN "select_nullable" ELSE "select",
                                     <<Top(sorted).buf>>, NoArg, IF c.null THEN 1 ELSE 0, c),
                 [sorted EXCEPT !.stack = <<>>], cols)

\* The aggregates are selected before the grouping column; the result has it
\* first.  A nullable grouping column is fused last.
GroupFirst(p) ==
    LET q == Fuse(p)
    IN  [q EXCEPT !.stack = <<Last(@)>> \o Front(@)]

FinishGroups(p, g, column) ==
    IF g.unique = <<>> THEN p ELSE SortGroups(p, column)

\* Compact the aggregates; chosen has the selector and the grouped column
FinishAggregates(chosen, g, query, selectors) ==
    LET n         == Len(query.aggregate)
        connected == ConnectPlan(chosen, Below(chosen), g.place)
        compact   == PlanCompaction(connected, query, CompactOrder(n, selectors))
    IN  FinishGroups([compact EXCEPT !.stack = @ \o g.columns], g, Below(chosen))

PlanResult(p, query, selectors) ==
    FinishAggregates(PlanSelector(p, p.group, selectors), p.group, query, selectors)

\* run_aggregate: the filter, the grouping key, the aggregates, the result
GroupTokens(query) ==
    query.filter \o <<Token("where_grouped", "", 0)>>
      \o (IF query.group = <<>> THEN <<Token("no_key", "", 0)>>
          ELSE query.group \o <<Token("key", "", 0)>>)
      \o FlattenSeq([a \in DOMAIN query.aggregate |->
                        Append(query.aggregate[a].expr, Token("aggregate", query.aggregate[a].f, 0))])
      \o <<Token("result", "", 0)>>
      \o (IF query.group = <<>> THEN <<>> ELSE <<Token("fuse", "", 0)>>)

PlanGroup(p, t, query, table, len) ==
    CASE t.k = "where_grouped" -> GroupFilter(p, table)
      [] t.k = "no_key" -> Grouping(PlanNoKey(p, len), 1)
      [] t.k = "key" /\ Len(Top(p).range) = 1 -> Failed(p, "panic")
      [] t.k = "key" /\ Len(Top(p).range) # 1 -> Grouping(PlanKey(p, KeyRange(Top(p)), table), KeyRange(Top(p)).max)
      [] t.k = "aggregate" -> PlanAggregate(AggregateInput(p, t.s, p.group, table), t.s, p.group)
      [] t.k = "result" -> PlanResult(p, query, Selectors(query, p.stack))
      [] t.k = "fuse" -> GroupFirst(p)

------------------------------------------------------------------------------
(* QueryPlanner::prepare                                                    *)

IsNullable(op, k) == k \in DOMAIN op.types /\ op.types[k].null

\* The operators that propagate_nullability takes apart
Rewritten(op) ==
    /\ op.op \in {"cast", "binary", "checked", "and", "or", "dict_lookup"}
    /\ IsNullable(op, 1) \/ IsNullable(op, 2)

\* An operator of the rewrite; its inputs have lost their nullability
Rewriting(op, ins, out) ==
    [op |-> op, ins |-> ins, outs |-> <<out>>, temps |-> <<>>, arg |-> NoArg, types |-> <<>>]

NullableInput(op) == IF IsNullable(op, 1) THEN op.ins[1] ELSE op.ins[2]

\* combine_nulls: data is the buffer of the values, map a new one
CombineNulls(op, data, map) ==
    IF IsNullable(op, 1) /\ IsNullable(op, 2)
    THEN <<Rewriting("combine_null_maps", op.ins, map),
           Rewriting("assemble_nullable", <<data, map>>, op.outs[1])>>
    ELSE <<Rewriting("propagate_nullability", <<NullableInput(op), data>>, op.outs[1])>>

\* combine_nulls2
CombineNulls2(op, map) ==
    IF IsNullable(op, 1) /\ IsNullable(op, 2)
    THEN Rewriting("combine_null_maps", op.ins, map)
    ELSE Rewriting("get_null_map", <<NullableInput(op)>>, map)

\* The operator on the values alone
OnValues(op, fresh) == [op EXCEPT !.outs = <<fresh>>, !.types = <<>>]

\* Checked arithmetic has to know which rows are null
NullableArithmetic(op, fresh) ==
    <<CombineNulls2(op, fresh),
      [op EXCEPT !.op = "nullable_checked", !.ins = @ \o <<fresh>>, !.types = <<>>]>>

\* A comparison comes after the operators that combine the null maps.
NullableComparison(op, fresh) == Append(CombineNulls(op, fresh, fresh + 1), OnValues(op, fresh))

\* Casts, AND and OR, plain arithmetic, dictionary lookups
NullableValues(op, fresh) == <<OnValues(op, fresh)>> \o CombineNulls(op, fresh, fresh + 1)

\* propagate_nullability: what op is replaced by; fresh is the first new buffer
PropagateNullability(op, fresh) ==
    CASE op.op = "checked" -> NullableArithmetic(op, fresh)
      [] op.op = "binary" /\ op.arg.f \in {"lt", "lte", "eq", "neq"} -> NullableComparison(op, fresh)
      [] OTHER -> NullableValues(op, fresh)

\* perform_rewrites: the first new operator takes the place of the old one, the
\* others go to the end
PerformRewrites(p) ==
    FoldLeft(LAMBDA q, i :
                LET new == PropagateNullability(q.ops[i], q.count + 1)
                IN  [q EXCEPT !.ops = [@ EXCEPT ![i] = new[1]] \o Tail(new), !.count = @ + 2],
             p, SelectSeq([i \in DOMAIN p.ops |-> i], LAMBDA i : Rewritten(p.ops[i])))

\* The builders of vector_operator.rs have no implementation for some types.
\* filter and nullable_filter: nullable columns
NoFilterFor(op) == op.op \in {"filter", "nullable_filter"} /\ IsNullable(op, 1)

\* top_n: a nullable key
NoTopNFor(op) == op.op = "top_n" /\ IsNullable(op, 1)

\* hash_map_grouping: a nullable key
NoHashMapFor(op) == op.op = "hashmap_grouping" /\ IsNullable(op, 1)

\* nullable: u16 and u32
NoNullableFor(op) == op.op = "assemble_nullable" /\ op.types # <<>> /\ op.types[1].base \notin {"u8", "i64", "str"}

\* fuse_nulls: everything but i64 and strings
NoFuseNullsFor(op) == op.op = "fuse_nulls" /\ op.types[1].base \notin {"i64", "str"}

\* aggregate and checked_aggregate: strings and scalars
NoAggregateFor(op) == op.op = "aggregate" /\ (op.types[2].base = "str" \/ op.types[2].scalar)

\* less_than and the others: two scalars
NoBinaryFor(op) ==
    op.op \in {"binary", "checked"} /\ op.types # <<>> /\ op.types[1].scalar /\ op.types[2].scalar

\* prepare of query_plan.rs hands on their errors
NotImplemented(op) ==
    \/ NoFilterFor(op) \/ NoTopNFor(op) \/ NoHashMapFor(op) \/ NoNullableFor(op)
    \/ NoFuseNullsFor(op) \/ NoAggregateFor(op) \/ NoBinaryFor(op)

\* QueryPlanner::prepare
Prepare(p) ==
    LET q == PerformRewrites(p)
    IN  IF p.fail # "none" THEN p
        ELSE IF \E i \in DOMAIN q.ops : NotImplemented(q.ops[i]) THEN Failed(q, "unsupported")
        ELSE q

RowSteps == {"where", "sort", "selection", "project"}
GroupSteps == {"where_grouped", "no_key", "key", "aggregate", "result", "fuse"}

PlanToken(p, t, query, table, len) ==
    CASE p.fail # "none" -> p
      [] p.fail = "none" /\ t.k \in RowSteps -> PlanRow(p, t, query, table, len)
      [] p.fail = "none" /\ t.k \in GroupSteps -> PlanGroup(p, t, query, table, len)
      [] OTHER -> CompileToken(p, t, table, len)

\* What run and run_aggregate have planned, in their order
Tokens(query) == IF query.aggregate = <<>> THEN RowTokens(query) ELSE GroupTokens(query)

==============================================================================
