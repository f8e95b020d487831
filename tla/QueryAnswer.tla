---------------------------- MODULE QueryAnswer ----------------------------
(***************************************************************************)
(* What LocustDB::run_query promises its caller: the receiver resolves at   *)
(* most once, to rows made from the whole snapshot, to an error, or to      *)
(* "canceled".  QueryTask implements it.                                    *)
(***************************************************************************)

VARIABLES
  terms,  \* of the query: parts, the partitions of the snapshot; earlyStop, it may answer
          \* before it has seen all; clashes, pairs of partitions whose results cannot be
          \* combined; fallible, executing or combining may fail; cancelable, a thread may
          \* panic or recover() may be called
  answer  \* what the receiver has got: its kind and the partitions behind it

Unanswered == [kind |-> "pending", parts |-> {}]

\* The sets of partitions that an answer may be made of.
Sources ==
  {ps \in SUBSET terms.parts :
     (terms.earlyStop \/ ps = terms.parts) /\ \A c \in terms.clashes : ~(c \subseteq ps)}

Answers ==
  {[kind |-> "rows", parts |-> ps] : ps \in Sources}
  \cup (IF terms.fallible THEN {[kind |-> "error", parts |-> {}]} ELSE {})
  \cup (IF terms.cancelable THEN {[kind |-> "canceled", parts |-> {}]} ELSE {})

\* A query over an empty snapshot is answered when it is created.
AnswerInit == answer = IF terms.parts = {} THEN [kind |-> "rows", parts |-> {}] ELSE Unanswered

AnswerOnce == answer = Unanswered /\ answer' \in Answers /\ terms' = terms

AnswerSpec == AnswerInit /\ [][AnswerOnce]_<<terms, answer>>

=============================================================================
