---------------------------- MODULE MCTableStore ----------------------------
(* Small databases for model checking TableStore.                            *)
EXTENDS TableStore, TLC

CONSTANTS t1, t2, meta, c1, c2, c3, r1, r2, r3, r4, l0, l1, l2, l3

MCTables == {t1, t2, meta}
MCClients2 == {c1, c2}
MCClients3 == {c1, c2, c3}

\* Rows and partitions, and the tables they go to.
TwoRows == {r1, r2}
FourRows == {r1, r2, r3, r4}
MCLoads == {l0, l1, l2, l3}
Home == [x \in Items |-> IF x \in {l3} THEN t2 ELSE t1]

Batches == [t \in MCTables |-> IF t = meta THEN 1 ELSE 2]

\* A disk store with two partitions, in different tables.
OldDisks == (1 :> [table |-> t1, rows |-> {l0}]) @@ (2 :> [table |-> t2, rows |-> {l3}])

\* An empty database in memory, into which rows are ingested.
Ingesting == [items |-> Rows, clients |-> 3, persistent |-> FALSE, existing |-> <<>>,
              memoryTight |-> FALSE, snapshots |-> 2, restarts |-> 0, oneCreator |-> TRUE]

\* An existing database, into which partitions are loaded, under memory pressure and crashes.
Loading == [items |-> Loads, clients |-> 2, persistent |-> TRUE, existing |-> OldDisks,
            memoryTight |-> TRUE, snapshots |-> 1, restarts |-> 1, oneCreator |-> TRUE]

MCSetups == {Ingesting, Loading}

\* Two clients ingest, and one takes a snapshot.
SnapshotSetups == {[Ingesting EXCEPT !.clients = 2, !.snapshots = 1]}

\* Rows are ingested and partitions loaded into one table.
MixedSetups ==
  {[Ingesting EXCEPT !.items = Rows \cup {l1, l2}, !.clients = 2, !.snapshots = 0,
                     !.persistent = TRUE]}

Symmetry == Permutations(Clients) \cup Permutations(Rows)

=============================================================================
