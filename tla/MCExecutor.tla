----------------------------- MODULE MCExecutor -----------------------------
(***************************************************************************)
(* Queries on small partitions for model checking ExecutorAnswer: a column *)
(* x in every encoding, a column k to sort by, and a second nullable       *)
(* column y.  A streaming stage takes four rows at a time, a byte of a     *)
(* null map has two bits, and the integer types are as small.              *)
(***************************************************************************)
EXTENDS ExecutorAnswer

\* Tokens of an expression
Col(c) == <<Token("col", c, 0)>>
Lit(n) == <<Token("int", "", n)>>
Str(n) == <<Token("str", "", n)>>
F1(k, x) == x \o <<Token(k, "", 0)>>
F2(k, x, y) == x \o y \o <<Token(k, "", 0)>>

X == Col("x")
Y == Col("y")
K == Col("k")
All == Lit(1)

RowQuery(filter, select, keys, limit) ==
    [filter |-> filter, select |-> select, order |-> keys, limit |-> limit, group |-> <<>>, aggregate |-> <<>>]
GroupQuery(filter, group, aggregate) ==
    [filter |-> filter, select |-> <<>>, order |-> <<>>, limit |-> 100, group |-> group, aggregate |-> aggregate]
Agg(f, expr) == [f |-> f, expr |-> expr]
Key(expr, desc) == [expr |-> expr, desc |-> desc]

IntCol(values, nullable, lz4, worth) ==
    [values |-> values, strings |-> FALSE, nullable |-> nullable, hex |-> FALSE, lz4 |-> lz4, worth |-> worth, reload |-> FALSE]
StrCol(values, nullable, hex, worth) ==
    [values |-> values, strings |-> TRUE, nullable |-> nullable, hex |-> hex, lz4 |-> worth, worth |-> worth, reload |-> FALSE]

N == -100
MCI64Min == -64

\* Columns of six rows; a partition of fewer rows has the first ones.  Integers:
\* as they are, with an offset, compressed, differences (compressed or not), as
\* wide as i64, and the nullable forms.
IntVariants ==
    {IntCol(<<1, 0, 3, 1, 2, 3>>, FALSE, FALSE, FALSE),
     IntCol(<<-3, -2, -3, -1, -2, -3>>, FALSE, FALSE, FALSE),
     IntCol(<<0, 4, 1, 0, 4, 2>>, FALSE, TRUE, TRUE),
     IntCol(<<0, 1, 2, 4, 5, 9>>, FALSE, TRUE, TRUE),
     IntCol(<<1, 3, 4, 6, 9, 12>>, FALSE, TRUE, FALSE),
     IntCol(<<30, -30, 30, 4, -30, 9>>, FALSE, FALSE, FALSE),
     IntCol(<<1, N, 3, N, 2, 1>>, TRUE, FALSE, FALSE),
     IntCol(<<N, -2, -3, -1, N, -3>>, TRUE, FALSE, FALSE),
     IntCol(<<30, N, -30, 4, N, -30>>, TRUE, FALSE, FALSE)}

\* Strings: a dictionary (compressed or not), packed, packed as hex digits, and
\* the nullable forms.
StrVariants ==
    {StrCol(<<2, 2, 2, 1, 2, 1>>, FALSE, FALSE, FALSE),
     StrCol(<<2, 2, 2, 1, 2, 1>>, FALSE, FALSE, TRUE),
     StrCol(<<2, 1, 3, 1, 2, 4>>, FALSE, FALSE, FALSE),
     StrCol(<<2, 1, 3, 1, 2, 4>>, FALSE, TRUE, TRUE),
     StrCol(<<2, N, 2, N, 2, 2>>, TRUE, FALSE, FALSE),
     StrCol(<<2, N, 3, 1, 2, 4>>, TRUE, FALSE, FALSE)}

\* Compressed columns that were loaded from disk and decoded
Reloaded ==
    {[v EXCEPT !.reload = TRUE] : v \in {c \in IntVariants \union StrVariants : c.worth}
                                        \union {StrCol(<<2, 1, 3, 1, 2, 4>>, FALSE, FALSE, TRUE)}}

SortCol == IntCol(<<5, 2, 3, 1, 7, 4, 6, 0>>, FALSE, FALSE, FALSE)
NullCol == IntCol(<<N, -64, 1, N, 0, 3, N, 2>>, TRUE, FALSE, FALSE)

Cut(c, len) == [c EXCEPT !.values = SubSeq(@, 1, len)]

CasesOf(variants, queries, lens) ==
    {[query |-> q, len |-> l, columns |-> [x |-> Cut(v, l), k |-> Cut(SortCol, l), y |-> Cut(NullCol, l)]] :
        q \in queries, v \in variants, l \in lens}

IntFilters == {All, F2("lt", X, Lit(2)), F2("gte", K, Lit(3)), F2("and", F2("lt", X, Lit(2)), F2("gt", K, Lit(1))),
               F1("is_null", X), F1("not", F2("eq", K, Lit(2))),
               F2("or", F2("and", F2("gt", K, Lit(1)), F2("lt", X, Lit(2))), F1("not", F2("gt", K, Lit(1))))}
StrFilters == {All, F2("eq", X, Str(2)), F2("neq", X, Str(3)), F2("lt", X, Str(3)), F1("is_not_null", X)}

\* No order, the best row, all rows by one column, and by two
Orders == {<<<<>>, 100>>, <<<<Key(K, TRUE)>>, 1>>, <<<<Key(K, TRUE)>>, 100>>,
           <<<<Key(X, FALSE), Key(K, FALSE)>>, 100>>}

Filtering(filters) == {RowQuery(f, <<X>>, <<>>, 100) : f \in filters}
Sorting(filters, selects) == {RowQuery(f, s, o[1], o[2]) : f \in filters, s \in selects, o \in Orders}
Grouped(filters, aggs) == {GroupQuery(f, g, a) : f \in filters, g \in {<<>>, X}, a \in aggs}

IntSelects == {<<X>>, <<X, F2("add", X, Lit(1))>>, <<F2("multiply", X, K)>>}
StrSelects == {<<X>>, <<X, F2("add", K, Lit(1))>>}
IntAggs == {<<Agg("count", Lit(1))>>, <<Agg("sum", X), Agg("count", X)>>, <<Agg("max", K)>>}
StrAggs == {<<Agg("count", Lit(1))>>, <<Agg("sum", K), Agg("count", X)>>, <<Agg("min", K)>>}

\* Two nullable columns, the condition of test_null_operators among others
NullPairs ==
    {RowQuery(F2("or", F2("lte", X, Y), F2("gt", X, Y)), <<X>>, o, 100) : o \in {<<>>, <<Key(K, FALSE)>>}}
    \union {RowQuery(All, <<F2("subtract", X, Y)>>, <<>>, 100)}

\* IS NULL and IS NOT NULL
NullTests ==
    {RowQuery(F1("is_null", X), <<K>>, <<>>, 100), RowQuery(F1("is_not_null", X), <<K>>, <<Key(K, FALSE)>>, 100),
     RowQuery(All, <<F1("is_null", X)>>, <<>>, 100), GroupQuery(F1("is_null", X), <<>>, <<Agg("count", Lit(1))>>)}

\* Divisions; y is null in rows where x is not, and has the least i64
Divisions ==
    {RowQuery(All, <<e>>, <<>>, 100) : e \in {F2("divide", X, Y), F2("modulo", K, X), F2("divide", X, Lit(-2))}}
    \union {GroupQuery(All, F2("divide", X, Lit(d)), <<Agg("count", Lit(1))>>) : d \in {2, -2, 0}}
LeastDivided == {RowQuery(All, <<F2("divide", Y, Lit(-1))>>, <<>>, 100)}

\* A condition that is used twice
Repeated ==
    Filtering({F2("or", F2("and", F2("gt", K, Lit(1)), F2("lt", X, Lit(2))), F2("gt", K, Lit(1))),
               F2("and", F2("gt", K, Lit(1)), F2("gt", K, Lit(1)))})

\* The best rows of eight, with a heap of one to three; the keys mixed, rising and
\* falling
TopRows == {RowQuery(f, <<K>>, <<Key(X, d)>>, n) : f \in {All, F2("lt", X, Lit(3))}, d \in BOOLEAN, n \in 1..3}
TopCols == {SortCol, IntCol(<<0, 1, 2, 3, 4, 5, 6, 7>>, FALSE, FALSE, FALSE),
            IntCol(<<7, 6, 5, 4, 3, 2, 1, 0>>, FALSE, FALSE, FALSE)}

\* A column as wide as i64, and one that is wider than half of it
WideCols == {IntCol(<<60, -60, 3, 1>>, FALSE, FALSE, FALSE), IntCol(<<30, -33, 3, 1>>, FALSE, FALSE, FALSE)}

\* The ends of i64, as they are and as differences that wrap around
EdgeCols ==
    {IntCol(v, FALSE, lz4, lz4) : lz4 \in BOOLEAN, v \in {<<-64, 63, 0, 1>>, <<-60, 60, 61, 62>>, <<-64, -1, 63, 63>>}}
    \union {IntCol(<<-64, 63, N, 1>>, TRUE, FALSE, FALSE)}

MCCases ==
    CasesOf(TopCols, TopRows, {8}) \union CasesOf(WideCols, Grouped({All, F2("gt", K, Lit(9))}, StrAggs), {4})
    \union CasesOf(IntVariants, Filtering(IntFilters), {3, 4, 6})
    \union CasesOf(EdgeCols, Filtering({All, F2("lt", X, Lit(2))}) \union Grouped({All}, StrAggs), {3, 4})
    \union CasesOf(IntVariants, Sorting({All, F2("lt", X, Lit(2))}, IntSelects), {6})
    \union CasesOf(IntVariants, Grouped({All, F2("gte", K, Lit(3))}, IntAggs), {3, 6})
    \union CasesOf(StrVariants, Filtering(StrFilters), {3, 6})
    \union CasesOf(StrVariants, Sorting({All, F2("eq", X, Str(2))}, StrSelects), {6})
    \union CasesOf(StrVariants, Grouped({All, F2("eq", X, Str(2))}, StrAggs), {3, 6})
    \union CasesOf(IntVariants, NullPairs, {3}) \union CasesOf(IntVariants \union StrVariants, NullTests, {3})
    \union CasesOf(Reloaded, Filtering({All, F2("gte", K, Lit(3))}) \union Grouped({All}, StrAggs), {3, 6})
    \union CasesOf(IntVariants, Divisions, {3}) \union CasesOf({SortCol}, LeastDivided, {3})
    \union CasesOf(IntVariants, Repeated, {3})

\* A column and an expression of it, with more rows than a batch
LongSelects == CasesOf(IntVariants, {RowQuery(All, <<X, F2("add", X, Lit(1))>>, <<>>, 100)}, {3, 6})

==============================================================================
