---------------------------- MODULE MCWorkerPool ----------------------------
(* A small pool for model checking WorkerPool.                               *)
EXTENDS WorkerPool

CONSTANTS w1, w2, w3, q1, q2, r1, r2, c1

MCWorkers == {w1, w2}
MCSpare == {w3}

\* Two queries of the same column, with their reads.
MCTasks == {q1, q2, r1, r2}
MCMulti == {q1, q2}
MCUnits == [t \in MCTasks |-> IF t = q1 THEN 2 ELSE 1]
MCColumns == {c1}
MCNeeds == [t \in MCTasks |-> IF t \in MCMulti THEN MCColumns ELSE {}]
MCReadOf == [q \in MCMulti |-> IF q = q1 THEN r1 ELSE r2]

=============================================================================
