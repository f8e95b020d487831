----------------------------- MODULE MCQueryData -----------------------------
(***************************************************************************)
(* Small instances of QueryData.  i64 is -64 .. 63, u8 is 0 .. 7, a        *)
(* grouping key of 16 or more is hashed, and a packed key has 6 bits.      *)
(***************************************************************************)
EXTENDS QueryData

MCI64Min == -64
MCI64Max == 63

Plain(n, cols) == [len |-> n, cols |-> cols, unranged |-> {}, floats |-> {}, fused |-> FALSE]

Query(projection, aggregate, orderBy, limit, offset) ==
  [projection |-> projection, filter |-> NoFilter, aggregate |-> aggregate,
   orderBy |-> orderBy, limit |-> limit, offset |-> offset]

Seqs(lens, S) == UNION {[1 .. n -> S] : n \in lens}

\* Partitions whose id column tells the rows of all partitions apart.
Rows(base, x) ==
  Plain(Len(x), [x |-> x, id |-> [i \in DOMAIN x |-> base + i]])

Rows2(base, x, y) ==
  Plain(Len(x), [x |-> x, y |-> y, id |-> [i \in DOMAIN x |-> base + i]])

(* -------------------------- queries without groups --------------------- *)

\* SELECT id ORDER BY x: two partitions with every order and repetition.
SortedTables ==
  {<<Rows(0, x), Rows(10, y)>> : x \in Seqs({2, 3}, {Null, 1, 2}), y \in Seqs({0, 2}, {Null, 1, 2})}

SortedCases ==
  {[query |-> Query(<<"id">>, <<>>, <<<<"x", desc>>>>, w[1], w[2]), final |-> <<>>, table |-> t] :
     desc \in BOOLEAN, w \in {<<1, 0>>, <<2, 0>>, <<2, 1>>, <<9, 0>>}, t \in SortedTables}

\* SELECT x, id ORDER BY x, y and the like, three partitions: merge_partitioned
\* with the columns it can handle.
KeyTables ==
  {<<Rows2(0, x, y), Rows2(10, <<1, 2>>, <<2, 1>>), Rows2(20, <<2, 1>>, <<2, 2>>)>> :
     x \in [1 .. 2 -> 1 .. 2], y \in [1 .. 2 -> 1 .. 2]}

KeyCases ==
  {[query |-> Query(<<"id">>, <<>>, <<<<"x", d[1]>>, <<"y", d[2]>>>>, limit, 0), final |-> <<>>,
    table |-> t] : d \in BOOLEAN \X BOOLEAN, limit \in {2, 4}, t \in KeyTables}
  \cup
  {[query |-> Query(<<"y">>, <<>>, <<<<"x", d[1]>>, <<"y", d[2]>>, <<"id", TRUE>>>>, limit, 1),
    final |-> <<>>, table |-> t] : d \in BOOLEAN \X BOOLEAN, limit \in {1, 3}, t \in KeyTables}

\* ORDER BY x LIMIT 5 on twelve rows: top_n with a heap of three levels.
TopCases ==
  {[query |-> Query(<<"id">>, <<>>, <<<<"x", desc>>>>, 4, 1), final |-> <<>>,
    table |-> <<Rows(0, [i \in 1 .. 12 |-> (i * k + m) % 13])>>] :
     desc \in BOOLEAN, k \in 1 .. 12, m \in {0, 4, 9}}
  \cup
  {[query |-> Query(<<"x", "id">>, <<>>, <<<<"x", FALSE>>>>, 2, 0), final |-> <<>>,
    table |-> <<Rows(0, x), Rows(10, <<2, 1, 1>>)>>] : x \in [1 .. 6 -> 1 .. 2]}
  \cup
  {[query |-> Query(<<"id">>, <<>>, <<<<"x", FALSE>>, <<"y", TRUE>>>>, 2, 0), final |-> <<>>,
    table |-> <<Rows2(0, <<2, 1, 1, 2, 1, 2>>, y)>>] : y \in {<<1, 1, 2, 2, 3, 3>>, <<1, 3, 1, 2, 2, 3>>}}

\* SELECT id WHERE x IN vals, with and without enough rows.
SelectCases ==
  {[query |-> [Query(<<"id">>, <<>>, <<>>, w[1], w[2]) EXCEPT !.filter = f], final |-> <<>>,
    table |-> <<Rows(0, <<1, 2>>), Rows(10, <<2, 2, Null>>), Rows(20, <<3, 1, 2>>)>>] :
     w \in {<<1, 0>>, <<2, 1>>, <<9, 0>>},
     f \in {NoFilter} \cup {[col |-> "x", vals |-> v] : v \in {{1, 2}, {2}, {1, 3}}}}

(* ---------------------------- aggregations ----------------------------- *)

\* The domains of a group column: narrow, narrow with an offset, wide with a
\* raw key, wide with a hashed key, negative, and with nulls.
Domains == {{0, 1, 3}, {20, 22, 27}, {-2, 9}, {-3, 20}, {-30, 33}, {Null, 1, 6}, {Null, -9, 20}}

Grouped(x, v) == Plain(Len(x), [x |-> x, v |-> [i \in DOMAIN x |-> v[i]]])

GroupTables ==
  {<<Grouped(x, <<5, Null, -2>>), Grouped(y, <<3, 4>>)>> :
     x \in UNION {[1 .. 3 -> D] : D \in Domains}, y \in UNION {[1 .. 2 -> D] : D \in Domains}}

Aggregates == <<<<"count", Star>>, <<"sum", "v">>, <<"max", "v">>, <<"count", "v">>>>

GroupCases ==
  {[query |-> Query(<<"x">>, Aggregates, <<>>, 9, 0), final |-> <<>>, table |-> t] : t \in GroupTables}
  \cup
  {[query |-> Query(<<"x">>, <<<<"min", "v">>>>, <<>>, 1, 1), final |-> <<>>,
    table |-> <<[Grouped(x, <<5, 2, -2>>) EXCEPT !.unranged = {"x"}], Grouped(y, <<1, 4>>),
                Grouped(<<1, 2>>, <<-9, Null>>)>>] :
     x \in {z \in [1 .. 3 -> 1 .. 3] : z[1] # z[2]}, y \in {<<1, 3>>, <<2, 1>>}}

\* GROUP BY x, y: packed keys and rows of values, with a limit that cuts the
\* merged groups.
PairDomains == {{1, 3}, {-1, 20}, {Null, 2}, {-25, 38}}

PairCases ==
  {[query |-> Query(<<"x", "y">>, <<<<"sum", "id">>, <<"count", Star>>>>, <<>>, limit, 0),
    final |-> <<>>, table |-> <<Rows2(0, x, y), Rows2(10, <<1, 3>>, <<3, 1>>)>>] :
     limit \in {2, 9}, x \in UNION {[1 .. 3 -> D] : D \in PairDomains},
     y \in UNION {{<<a, b, a>> : a \in D, b \in D} : D \in PairDomains}}

\* SUM without GROUP BY, up to the edge of i64 and over it.
SumCases ==
  {[query |-> Query(<<>>, <<<<"sum", "v">>, <<"count", Star>>>>, <<>>, 1, 0), final |-> <<>>,
    table |-> <<Grouped(<<1, 1>>, v), Grouped(<<1>>, w), Grouped(<<1>>, <<-32>>)>>] :
     v \in [1 .. 2 -> {-24, 31, 39}], w \in [1 .. 1 -> {-33, -32, 1, 39}]}

\* SELECT x, SUM(v) ORDER BY SUM(v), x: normalize groups by what is selected and by what
\* is sorted by, and adds a final pass over the groups.
FinalCases ==
  {[query |-> Query(<<"x", "x">>, <<<<"sum", "v">>, <<"sum", "v">>>>, <<>>, 63, 0),
    final |-> <<Query(<<"_cs0", "_ca0">>, <<>>, <<<<"_ca1", desc>>, <<"_cs1", FALSE>>>>, 2, offset)>>,
    table |-> <<Grouped(x, <<1, 2, 3>>), Grouped(<<1, 2>>, <<2, 1>>)>>] :
     desc \in BOOLEAN, offset \in {0, 1}, x \in [1 .. 3 -> 1 .. 3]}

\* ORDER BY x LIMIT 2 on a column of floats.
FloatCases ==
  {[query |-> Query(<<"x">>, <<>>, <<<<"x", FALSE>>>>, 2, 0), final |-> <<>>,
    table |-> <<[Rows(0, x) EXCEPT !.floats = {"x"}]>>] : x \in [1 .. 6 -> 1 .. 3]}

MCCases == SortedCases \cup KeyCases \cup TopCases \cup SelectCases \cup GroupCases
           \cup PairCases \cup SumCases \cup FinalCases
==============================================================================
