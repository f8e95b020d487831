---------------------------- MODULE MCQueryTask ----------------------------
(* Small queries for model checking QueryTask.                               *)
EXTENDS QueryTask

CONSTANTS w1, w2, w3

MCThreads == {w1, w2, w3}

\* A query over n partitions of two rows each, in which nothing can go wrong.
Plain(n, kind, limit, offset) ==
  [workers |-> {w1, w2}, n |-> n, rowsOf |-> [p \in 0..(n - 1) |-> 2], failing |-> {},
   panicking |-> {}, clashes |-> {}, kind |-> kind, limit |-> limit, offset |-> offset,
   finalPanics |-> FALSE]

\* The same with three workers, and no other thread.
Crowded(q) == [q EXCEPT !.workers = MCThreads]

\* A table whose last partitions are larger, read by a query that can stop early.
Unordered(n) == [Plain(n, "select", 2, 3) EXCEPT !.rowsOf = [p \in 0..(n - 1) |-> p + 1]]

\* The last partition may fail, and the results of two partitions have different types.
FailingLast(n) == [Plain(n, "sorted", 3, 1) EXCEPT !.failing = {n - 1}]
Clashing(n) == [FailingLast(n) EXCEPT !.clashes = {{n - 3, n - 2}}]

\* Everything may panic, OFFSET included, which is beyond the last row.
Aggregate(n) ==
  [Plain(n, "aggregate", 3, 0) EXCEPT !.failing = {n - 1}, !.panicking = {n - 2}, !.finalPanics = TRUE]
BeyondEnd == [Plain(4, "select", 3, 20) EXCEPT !.panicking = {1}]

MCQueries ==
  {Unordered(5), FailingLast(4), Clashing(4), Aggregate(4), BeyondEnd}
    \cup {Crowded(Unordered(3)), Crowded(Clashing(3)), Crowded(Aggregate(3))}

=============================================================================
