------------------------------ MODULE QueryData ------------------------------
(***************************************************************************)
(* The data of a query, from the rows of the partitions to the rows of the *)
(* answer.  Partitions are executed in any order, and any two results are  *)
(* combined in any order and either way round: this includes every order   *)
(* in which the threads of a QueryTask (module QueryTask) come to do it.   *)
(* The properties compare each intermediate result, and the answer, with   *)
(* what the query means on the rows they cover.                            *)
(***************************************************************************)
EXTENDS PartitionQuery

CONSTANT
  Cases   \* the queries and the tables they run on: records query, final, table

\* A table has its columns in every partition, and no column spans more than
\* i64::MAX.
ASSUME CasesAssumption ==
  \A c \in Cases : \A p \in DOMAIN c.table : \A name \in DOMAIN c.table[p].cols :
    LET column == c.table[p].cols[name]
    IN  /\ Len(column) = c.table[p].len
        /\ \A i, j \in DOMAIN column : Null \notin {column[i], column[j]} => column[i] - column[j] <= I64Max

VARIABLES
  query,     \* QueryTask::main_phase
  final,     \* QueryTask::final_pass: <<>>, or a sequence of one query
  table,     \* the partitions
  todo,      \* the partitions not yet executed
  batches,   \* the results so far: records parts, rows (collected) and batch
  status,    \* "running", "answered", "overflow", "fatal" or "panic"
  answer     \* the rows of the answer

vars == <<query, final, table, todo, batches, status, answer>>

Init ==
  /\ \E c \in Cases : query = c.query /\ final = c.final /\ table = c.table
  /\ todo = DOMAIN table
  /\ batches = {}
  /\ status = "running"
  /\ answer = <<>>

\* A worker takes a partition and runs the main phase on it.
ExecutePartition(p) ==
  /\ status = "running" /\ p \in todo
  /\ todo' = todo \ {p}
  /\ \E o \in Execute(query, table[p]) :
       IF o.status = "ok"
       THEN /\ batches' = batches \cup {[parts |-> {p}, rows |-> BatchLen(o.batch), batch |-> o.batch]}
            /\ UNCHANGED status
       ELSE status' = o.status /\ UNCHANGED batches
  /\ UNCHANGED <<query, final, table, answer>>

\* Two results are combined.
CombineResults(x, y) ==
  /\ status = "running" /\ x # y
  /\ \E o \in {Combine(x.batch, y.batch, LimitOf(query))} :
       IF o.status = "ok"
       THEN /\ batches' = (batches \ {x, y}) \cup
                 {[parts |-> x.parts \cup y.parts, rows |-> x.rows + y.rows, batch |-> o.batch]}
            /\ UNCHANGED status
       ELSE status' = o.status /\ UNCHANGED batches
  /\ UNCHANGED <<query, final, table, todo, answer>>

\* A query with neither ORDER BY nor aggregates stops with the results it has
\* pushed once they have collected more rows than it needs.
SufficientRows(S) ==
  /\ query.aggregate = <<>> /\ query.orderBy = <<>>
  /\ LimitOf(query) < MapThenSumSet(LAMBDA x : x.rows, S)

Stop(S) ==
  /\ status = "running" /\ S # {} /\ SufficientRows(S)
  /\ <<todo, batches>> # <<{}, S>>
  /\ todo' = {} /\ batches' = S
  /\ UNCHANGED <<query, final, table, status, answer>>

\* BatchResult::into_columns: a group column is named after its place among
\* the columns.
CsNames == <<"_cs0", "_cs1", "_cs2", "_cs3">>
CaNames == <<"_ca0", "_ca1", "_ca2", "_ca3">>

IntoColumns(b) ==
  LET names == {CsNames[b.projection[k]] : k \in DOMAIN b.projection}
      aggregates == {CaNames[k] : k \in DOMAIN b.aggregations}
      place(seq, c) == CHOOSE k \in DOMAIN seq : seq[k] = c
  IN  [len |-> BatchLen(b), fused |-> TRUE, floats |-> {}, unranged |-> names \cup aggregates,
       cols |-> [c \in names |-> b.columns[place(CsNames, c)]] @@
                [c \in aggregates |-> b.columns[b.aggregations[place(CaNames, c)][1]]]]

\* Fault: the limit is taken for the end of the window.
OutputRowsFault(q, b) ==
  LET cells == b.projection \o [k \in DOMAIN b.aggregations |-> b.aggregations[k][1]]
  IN  [i \in 1 .. Min({q.limit, BatchLen(b)}) - q.offset |->
         [k \in DOMAIN cells |-> b.columns[cells[k]][q.offset + i]]]

\* convert_to_output_format.
OutputRows(q, b) ==
  LET count == Min({q.limit, BatchLen(b) - q.offset})
      cells == b.projection \o [k \in DOMAIN b.aggregations |-> b.aggregations[k][1]]
  IN  [i \in 1 .. count |-> [k \in DOMAIN cells |-> b.columns[cells[k]][q.offset + i]]]

\* The last result is pushed: it goes through the final pass, if there is
\* one, and becomes the answer.
Answer ==
  /\ status = "running" /\ todo = {} /\ Cardinality(batches) = 1
  /\ \E x \in batches :
       \E o \in IF final = <<>> THEN {Ok(x.batch)} ELSE Run(final[1], IntoColumns(x.batch)) :
         LET q == IF final = <<>> THEN query ELSE final[1]
         IN  IF o.status = "ok" /\ q.offset <= BatchLen(o.batch)
             THEN status' = "answered" /\ answer' = OutputRows(q, o.batch)
             ELSE status' = "panic" /\ UNCHANGED answer
  /\ UNCHANGED <<query, final, table, todo, batches>>

Next ==
  \/ \E p \in todo : ExecutePartition(p)
  \/ \E x, y \in batches : CombineResults(x, y)
  \/ \E S \in SUBSET batches : Stop(S)
  \/ Answer

Spec == Init /\ [][Next]_vars

(* ------------------------ what the query means ------------------------- *)

\* The rows of partitions S that pass the filter.
RowsOf(S) == UNION {{<<p, i>> : i \in ToSet(FilterIndices(query, table[p]))} : p \in S}

Cell(r, c) == table[r[1]].cols[c][r[2]]
Cells(r, cs) == [k \in DOMAIN cs |-> Cell(r, cs[k])]

GroupsOf(S) == {Cells(r, query.projection) : r \in RowsOf(S)}

\* An aggregate of a group, over its values that are not null.
AggregateOf(S, g, aggregator, c) ==
  LET rows == {r \in RowsOf(S) : Cells(r, query.projection) = g /\ (c = Star \/ Cell(r, c) # Null)}
  IN  CASE aggregator = "count" -> Cardinality(rows)
        [] aggregator = "sum" -> MapThenSumSet(LAMBDA r : Cell(r, c), rows)
        [] aggregator = "max" -> Max({Cell(r, c) : r \in rows} \cup {I64Min})
        [] aggregator = "min" -> Min({Cell(r, c) : r \in rows} \cup {I64Max})

GroupRow(S, g) ==
  g \o [a \in DOMAIN query.aggregate |-> AggregateOf(S, g, query.aggregate[a][1], query.aggregate[a][2])]

\* x comes before y in the order desc, a sequence of directions.
Precedes(x, y, desc) ==
  \E k \in DOMAIN desc : Before(x[k], y[k], desc[k]) /\ \A m \in 1 .. k - 1 : x[m] = y[m]

Rank(keys, x, desc) == Cardinality({r \in DOMAIN keys : Precedes(keys[r], x, desc)})

\* No row occurs more often among xs than among the rows of a function.
DrawnFrom(xs, rows) ==
  \A k \in DOMAIN xs : Cardinality({m \in DOMAIN xs : xs[m] = xs[k]})
                         <= Cardinality({r \in DOMAIN rows : rows[r] = xs[k]})

BatchCells(b, i, indices) == [k \in DOMAIN indices |-> b.columns[indices[k]][i]]
OrderColumns(b) == [k \in DOMAIN b.orderBy |-> b.orderBy[k][1]]
OrderDesc == [k \in DOMAIN query.orderBy |-> query.orderBy[k][2]]
OrderKey(r) == [k \in DOMAIN query.orderBy |-> Cell(r, query.orderBy[k][1])]
Ascending == [k \in DOMAIN query.projection |-> FALSE]

(* ------------------------------ properties ----------------------------- *)

TypeOK ==
  /\ todo \subseteq DOMAIN table
  /\ \A x \in batches :
       /\ x.parts \subseteq DOMAIN table /\ x.rows \in Nat
       /\ \A c \in DOMAIN x.batch.columns : x.batch.columns[c] \in Seq(I64Min .. I64Max)
       /\ ToSet(x.batch.projection) \subseteq DOMAIN x.batch.columns
  /\ status \in {"running", "answered", "overflow", "fatal", "panic"}

\* Every result of a query without aggregates holds rows of the partitions it
\* covers, each at most as often as it occurs there; it holds limit + offset
\* of them if there are as many, and the i-th is preceded by fewer than i rows
\* in the ORDER BY: truncating in top_n, in merge or in merge_partitioned has
\* dropped no row that the answer needs.
PartialRowsRight ==
  query.aggregate = <<>> =>
    \A x \in batches :
      LET b == x.batch
          rows == RowsOf(x.parts)
          keys == [r \in rows |-> OrderKey(r)]
      IN  /\ BatchLen(b) >= Min({LimitOf(query), Cardinality(rows)})
          /\ DrawnFrom([i \in 1 .. BatchLen(b) |->
                          BatchCells(b, i, b.projection) \o BatchCells(b, i, OrderColumns(b))],
                        [r \in rows |-> Cells(r, query.projection) \o OrderKey(r)])
          /\ \A i \in 1 .. BatchLen(b) : Rank(keys, BatchCells(b, i, OrderColumns(b)), OrderDesc) < i

\* Every result of an aggregation has its first limit + offset groups in
\* order, none missing and none twice, each with the exact aggregates over all
\* the rows of the group in the partitions it covers: the truncation in
\* partition never drops part of a group that the answer needs.
PartialGroupsRight ==
  query.aggregate # <<>> =>
    \A x \in batches :
      LET b == x.batch
          groups == GroupsOf(x.parts)
          n == Min({LimitOf(query), Cardinality(groups)})
      IN  /\ BatchLen(b) >= n
          /\ \A i \in 1 .. n :
               LET row == BatchCells(b, i, b.projection)
               IN  /\ row \in groups
                   /\ Rank([g \in groups |-> g], row, Ascending) = i - 1
                   /\ GroupRow(x.parts, row) =
                        row \o [k \in DOMAIN b.aggregations |-> b.columns[b.aggregations[k][1]][i]]

\* The order of the answer: by the final pass, by the groups, or by ORDER BY.
AnswerKeys ==
  IF final # <<>>
  THEN [g \in GroupsOf(DOMAIN table) |->
          [k \in DOMAIN final[1].orderBy |->
             LET c == final[1].orderBy[k][1]
                 row == GroupRow(DOMAIN table, g)
             IN  IF c \in ToSet(CsNames) THEN row[CHOOSE m \in DOMAIN CsNames : CsNames[m] = c]
                 ELSE row[Len(g) + CHOOSE m \in DOMAIN CaNames : CaNames[m] = c]]]
  ELSE IF query.aggregate # <<>> THEN [g \in GroupsOf(DOMAIN table) |-> g]
  ELSE [r \in RowsOf(DOMAIN table) |-> OrderKey(r)]

AnswerDesc ==
  IF final # <<>> THEN [k \in DOMAIN final[1].orderBy |-> final[1].orderBy[k][2]]
  ELSE IF query.aggregate # <<>> THEN Ascending
  ELSE OrderDesc

AnswerRows ==
  LET cells(g) == IF final = <<>> THEN GroupRow(DOMAIN table, g)
                  ELSE [k \in DOMAIN final[1].projection |->
                          LET c == final[1].projection[k]
                              row == GroupRow(DOMAIN table, g)
                          IN  IF c \in ToSet(CsNames)
                              THEN row[CHOOSE m \in DOMAIN CsNames : CsNames[m] = c]
                              ELSE row[Len(g) + CHOOSE m \in DOMAIN CaNames : CaNames[m] = c]]
  IN  IF query.aggregate # <<>> THEN [g \in GroupsOf(DOMAIN table) |-> cells(g)]
      ELSE [r \in RowsOf(DOMAIN table) |-> Cells(r, query.projection)]

\* The answer is the window from offset to offset + limit of the rows the
\* query means: as many as there are, none more often than it occurs, and the
\* i-th a row that can stand at place offset + i of the order.
AnswerRight ==
  status = "answered" =>
    LET q == IF final = <<>> THEN query ELSE final[1]
        keys == AnswerKeys
        rows == AnswerRows
        desc == AnswerDesc
        notAfter(x) == Cardinality({r \in DOMAIN keys : ~ Precedes(x, keys[r], desc)})
    IN  /\ Len(answer) = Min({q.limit, Cardinality(DOMAIN rows) - q.offset})
        /\ DrawnFrom(answer, rows)
        /\ \A i \in DOMAIN answer : \E r \in DOMAIN rows :
             /\ rows[r] = answer[i]
             /\ Rank(keys, keys[r], desc) < q.offset + i
             /\ q.offset + i <= notAfter(keys[r])

\* A query fails with an overflow only if a sum over some of the rows of a
\* group leaves the range of i64, and in no other way.
FailsOnlyOnOverflow ==
  /\ status \notin {"fatal", "panic"}
  /\ status = "overflow" =>
       \E g \in GroupsOf(DOMAIN table), a \in DOMAIN query.aggregate :
         LET c == query.aggregate[a][2]
             signed(S) == MapThenSumSet(LAMBDA r : Cell(r, c), S)
             rows == {r \in RowsOf(DOMAIN table) : Cells(r, query.projection) = g /\ Cell(r, c) # Null}
         IN  /\ query.aggregate[a][1] = "sum"
             /\ \/ signed({r \in rows : Cell(r, c) > 0}) > I64Max
                \/ signed({r \in rows : Cell(r, c) < 0}) < I64Min
=============================================================================
