---------------------------- MODULE MCColumnCache ----------------------------
(* Instances of ColumnCache for TLC.                                         *)
EXTENDS ColumnCache, TLC

\* Every partition has every column.
AllHandles == (Stored0 \cup NewPids) \X Names

\* Readers are interchangeable in Init, Next and the safety properties.
Symmetry == Permutations(Readers)

=============================================================================
