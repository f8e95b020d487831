-------------------------- MODULE TableStoreProofs ---------------------------
(***************************************************************************)
(* Partition ids are handed out once, for any clients, tables and setups:   *)
(* what is on disk is never written again.                                  *)
(***************************************************************************)
EXTENDS TableStore, TLAPS, SequenceTheorems, FiniteSetTheorems, WellFoundedInduction

USE TablesAssumption

\* The calls of a client, the partitions of a table and the entries of the disk store.
Jobs ==
  {j \in [op : {"ingest", "store", "snapshot"}, table : Tables, item : AllRows \cup {Meta},
          stage : Stages, rows : SUBSET AllRows, pid : Nat, todo : SUBSET Tables] :
     j.op # "snapshot" => j.item \in AllRows}
Partitions == [rows : SUBSET AllRows, hid : Nat, resident : BOOLEAN]
Stored == [table : Tables, rows : SUBSET AllRows]

\* Maps from finitely many partition ids.
Maps(S) == {f \in UNION {[D -> S] : D \in SUBSET Nat} : IsFiniteSet(DOMAIN f)}

\* The types of the variables, in full.
TypeInv ==
  /\ setup \in Setups /\ catalog \subseteq Tables
  /\ parts \in [Tables -> Maps(Partitions)] /\ buffer \in [Tables -> SUBSET AllRows]
  /\ nextPid \in Nat /\ disk \in Maps(Stored) /\ lru \subseteq Nat
  /\ jobs \in [Clients -> Seq(Jobs)]
  /\ begun \subseteq Items /\ acked \subseteq AllRows

\* A call that has made another one waits where ingest or store_partition begins.
CallersWait == \A c \in Clients : \A i \in 2..Len(jobs[c]) : jobs[c][i].stage = "enter"

\* A client between the fetch_add of next_partition_id and its write to disk.
Writing(c) == Busy(c) /\ Top(c).stage = "write"

\* Ids on disk have been handed out; ids on their way to disk too, each to one client.
IdsTaken ==
  /\ \A p \in DOMAIN disk : p < nextPid
  /\ \A c \in Clients : Writing(c) => Top(c).pid < nextPid /\ Top(c).pid \notin DOMAIN disk
  /\ \A c, d \in Clients : c # d /\ Writing(c) /\ Writing(d) => Top(c).pid # Top(d).pid

\* The inductive invariant.
StoreInv == TypeInv /\ CallersWait /\ IdsTaken

-----------------------------------------------------------------------------
(* Partition ids.                                                            *)

\* A finite set of numbers that has a member has a largest one: a smallest set without
\* one would have one after all.
LEMMA LargestExists ==
  ASSUME NEW S \in SUBSET Nat, IsFiniteSet(S), S # {}
  PROVE  \E m \in S : \A x \in S : m >= x
  <1>. DEFINE Bad(T) == T # {} /\ ~\E m \in T : \A x \in T : m >= x
              Sizes == {n \in Nat : \E T \in SUBSET Nat : IsFiniteSet(T) /\ Cardinality(T) = n /\ Bad(T)}
  <1>. SUFFICES ASSUME Bad(S) PROVE FALSE
    OBVIOUS
  <1>1. Cardinality(S) \in Sizes
    BY FS_CardinalityType
  <1>2. PICK n \in Sizes : \A k \in Sizes : ~(<<k, n>> \in OpToRel(<, Nat))
    <2>1. Sizes \subseteq Nat /\ Sizes # {}
      BY <1>1
    <2>. HIDE DEF Sizes
    <2>. QED
      BY <2>1, NatLessThanWellFounded, WFMin, Zenon
  <1>3. PICK T \in SUBSET Nat : IsFiniteSet(T) /\ Cardinality(T) = n /\ Bad(T)
    BY <1>2, Zenon
  <1>4. PICK x \in T : TRUE
    BY <1>3, Zenon
  <1>5. IsFiniteSet(T \ {x}) /\ Cardinality(T \ {x}) = n - 1 /\ n - 1 \in Nat
    <2>1. IsFiniteSet(T \ {x}) /\ Cardinality(T \ {x}) = n - 1
      BY <1>3, <1>4, FS_RemoveElement
    <2>2. Cardinality(T \ {x}) \in Nat
      BY <2>1, FS_CardinalityType
    <2>. QED
      BY <2>1, <2>2
  <1>6. n - 1 \notin Sizes
    <2>1. <<n - 1, n>> \in OpToRel(<, Nat)
      BY <1>5 DEF OpToRel
    <2>. QED
      BY <1>2, <2>1, Zenon
  <1>7. ~Bad(T \ {x})
    BY <1>5, <1>6, Zenon
  <1>8. CASE T \ {x} = {}
    BY <1>3, <1>4, <1>8
  <1>9. CASE T \ {x} # {}
    <2>1. PICK m \in T \ {x} : \A y \in T \ {x} : m >= y
      BY <1>7, <1>9
    <2>2. \A y \in T : (IF m >= x THEN m ELSE x) >= y
      BY <1>4, <2>1
    <2>. QED
      BY <1>3, <1>4, <2>1, <2>2
  <1>. QED
    BY <1>8, <1>9

\* A restart hands out ids above those on disk (max_partition_id).
LEMMA FirstPidFresh ==
  ASSUME NEW d \in Maps(Stored)
  PROVE  FirstPid(d) \in Nat /\ \A p \in DOMAIN d : p < FirstPid(d)
  <1>. DEFINE S == DOMAIN d \cup {0}
  <1>1. S \in SUBSET Nat /\ IsFiniteSet(S) /\ S # {}
    <2>1. DOMAIN d \subseteq Nat /\ IsFiniteSet(DOMAIN d)
      BY Zenon DEF Maps
    <2>. QED
      BY <2>1, FS_AddElement
  <1>. HIDE DEF S
  <1>2. \E m \in S : \A x \in S : m >= x
    BY <1>1, LargestExists
  <1>3. Max(S) \in S /\ \A x \in S : Max(S) >= x
    BY <1>2 DEF Max
  <1>. QED
    <2>. DEFINE m == Max(S)
    <2>1. m \in Nat /\ \A p \in DOMAIN d : p \in Nat /\ m >= p
      BY <1>1, <1>3, Zenon DEF S
    <2>2. FirstPid(d) = m + 1
      BY DEF FirstPid, S
    <2>. HIDE DEF m
    <2>. QED
      BY <2>1, <2>2

\* What a map is made of.
LEMMA MapEntries ==
  ASSUME NEW S, NEW f \in Maps(S)
  PROVE  DOMAIN f \subseteq Nat /\ IsFiniteSet(DOMAIN f) /\ \A p \in DOMAIN f : f[p] \in S
  <1>1. IsFiniteSet(DOMAIN f) /\ \E D \in SUBSET Nat : f \in [D -> S]
    BY DEF Maps
  <1>. QED
    BY <1>1

\* A map with one id more, or one entry changed.
LEMMA MapAdd ==
  ASSUME NEW S, NEW f \in Maps(S), NEW p \in Nat, NEW x \in S
  PROVE  Insert(f, p, x) \in Maps(S)
  <1>. DEFINE g == Insert(f, p, x)
              D == DOMAIN f \cup {p}
  <1>1. f \in [DOMAIN f -> S] /\ DOMAIN f \subseteq Nat /\ IsFiniteSet(DOMAIN f)
    BY Zenon DEF Maps
  <1>2. g = [q \in D |-> IF q = p THEN x ELSE f[q]]
    BY DEF Insert
  <1>3. DOMAIN g = D /\ g \in [D -> S]
    BY <1>1, <1>2
  <1>4. D \in SUBSET Nat /\ IsFiniteSet(D)
    BY <1>1, FS_AddElement, Zenon
  <1>5. g \in UNION {[E -> S] : E \in SUBSET Nat}
    BY <1>3, <1>4
  <1>. QED
    BY <1>3, <1>4, <1>5 DEF Maps

LEMMA MapChange ==
  ASSUME NEW S, NEW f \in Maps(S), NEW p \in DOMAIN f, NEW x \in S
  PROVE  [f EXCEPT ![p] = x] \in Maps(S)
  BY DEF Maps

\* load_table_metadata makes partitions of what is on disk.
LEMMA LoadedMaps ==
  ASSUME NEW d \in Maps(Stored)
  PROVE  TablesOn(d) \subseteq Tables /\ \A t \in Tables : PartitionsOn(d, t) \in Maps(Partitions)
  <1>1. d \in [DOMAIN d -> Stored] /\ DOMAIN d \subseteq Nat /\ IsFiniteSet(DOMAIN d)
    BY Zenon DEF Maps
  <1>2. TablesOn(d) \subseteq Tables
    BY <1>1 DEF TablesOn, Stored
  <1>3. ASSUME NEW t \in Tables PROVE PartitionsOn(d, t) \in Maps(Partitions)
    <2>. DEFINE D == {q \in DOMAIN d : d[q].table = t}
    <2>1. D \in SUBSET Nat /\ IsFiniteSet(D)
      BY <1>1, FS_Subset
    <2>2. PartitionsOn(d, t) \in [D -> Partitions]
      BY <1>1 DEF PartitionsOn, Partition, Partitions, Stored
    <2>. QED
      BY <2>1, <2>2 DEF Maps
  <1>. QED
    BY <1>2, <1>3

-----------------------------------------------------------------------------
(* Calls.                                                                    *)

\* A client in a call has a job on top, and jobs below.
LEMMA JobsOf ==
  ASSUME TypeInv, NEW c \in Clients, Busy(c)
  PROVE  /\ Len(jobs[c]) \in Nat \ {0} /\ Top(c) \in Jobs
         /\ Tail(jobs[c]) \in Seq(Jobs) /\ Len(Tail(jobs[c])) = Len(jobs[c]) - 1
         /\ \A i \in 1..Len(Tail(jobs[c])) : Tail(jobs[c])[i] = jobs[c][i + 1]
  <1>1. jobs[c] \in Seq(Jobs) /\ jobs[c] # <<>>
    BY DEF TypeInv, Busy
  <1>2. Len(jobs[c]) \in Nat \ {0}
    BY <1>1, EmptySeq
  <1>3. Top(c) \in Jobs
    BY <1>1, <1>2, ElementOfSeq DEF Top
  <1>. QED
    BY <1>1, <1>2, <1>3, HeadTailProperties

\* The innermost call goes on.
LEMMA TopStep ==
  ASSUME TypeInv, CallersWait, NEW c \in Clients, Busy(c), NEW j \in Jobs, SetTop(c, j)
  PROVE  /\ jobs' \in [Clients -> Seq(Jobs)] /\ CallersWait'
         /\ Busy(c)' /\ Top(c)' = j
         /\ \A d \in Clients \ {c} : jobs'[d] = jobs[d]
  <1>. DEFINE s == Tail(jobs[c])
              u == <<j>> \o s
  <1>1. /\ Len(jobs[c]) \in Nat \ {0} /\ s \in Seq(Jobs) /\ Len(s) = Len(jobs[c]) - 1
        /\ \A i \in 1..Len(s) : s[i] = jobs[c][i + 1]
    BY JobsOf
  <1>2. <<j>> \in Seq(Jobs) /\ Len(<<j>>) = 1 /\ <<j>>[1] = j
    OBVIOUS
  <1>3. /\ u \in Seq(Jobs) /\ Len(u) = Len(jobs[c])
        /\ \A i \in 1..Len(u) : u[i] = IF i <= 1 THEN <<j>>[i] ELSE s[i - 1]
    <2>. HIDE DEF s
    <2>1. /\ u \in Seq(Jobs) /\ Len(u) = Len(<<j>>) + Len(s)
          /\ \A i \in 1..(Len(<<j>>) + Len(s)) : u[i] = IF i <= Len(<<j>>) THEN <<j>>[i] ELSE s[i - Len(<<j>>)]
      BY <1>1, <1>2, ConcatProperties
    <2>. HIDE DEF u
    <2>. QED
      BY <1>1, <1>2, <2>1
  <1>4. jobs' = [jobs EXCEPT ![c] = u]
    BY DEF SetTop
  <1>. HIDE DEF s, u
  <1>5. u[1] = j /\ \A i \in 2..Len(u) : u[i] = jobs[c][i]
    BY <1>1, <1>2, <1>3
  <1>6. u # <<>>
    BY <1>1, <1>3
  <1>7. jobs'[c] = u /\ \A d \in Clients \ {c} : jobs'[d] = jobs[d]
    BY <1>4 DEF TypeInv
  <1>8. jobs' \in [Clients -> Seq(Jobs)]
    BY <1>3, <1>4 DEF TypeInv
  <1>9. CallersWait'
    <2>1. \A i \in 2..Len(jobs'[c]) : jobs'[c][i].stage = "enter"
      BY <1>3, <1>5, <1>7 DEF CallersWait
    <2>. QED
      BY <1>7, <2>1 DEF CallersWait
  <1>. QED
    BY <1>5, <1>6, <1>7, <1>8, <1>9 DEF Busy, Top

\* A call returns to the one that made it, or to the client.
LEMMA ReturnStep ==
  ASSUME TypeInv, CallersWait, NEW c \in Clients, Busy(c), Return(c)
  PROVE  /\ jobs' \in [Clients -> Seq(Jobs)] /\ CallersWait' /\ ~Writing(c)'
         /\ \A d \in Clients \ {c} : jobs'[d] = jobs[d]
  <1>. DEFINE s == Tail(jobs[c])
  <1>1. /\ Len(jobs[c]) \in Nat \ {0} /\ s \in Seq(Jobs) /\ Len(s) = Len(jobs[c]) - 1
        /\ \A i \in 1..Len(s) : s[i] = jobs[c][i + 1]
    BY JobsOf
  <1>2. jobs' = [jobs EXCEPT ![c] = s]
    BY DEF Return
  <1>. HIDE DEF s
  <1>3. \A i \in 1..Len(s) : s[i].stage = "enter"
    BY <1>1 DEF CallersWait
  <1>4. jobs'[c] = s /\ \A d \in Clients \ {c} : jobs'[d] = jobs[d]
    BY <1>2 DEF TypeInv
  <1>5. jobs' \in [Clients -> Seq(Jobs)]
    BY <1>1, <1>2 DEF TypeInv
  <1>6. CallersWait'
    BY <1>1, <1>3, <1>4 DEF CallersWait
  <1>7. s # <<>> => s[1].stage = "enter"
    BY <1>1, <1>3, EmptySeq
  <1>. QED
    BY <1>4, <1>5, <1>6, <1>7 DEF Writing, Busy, Top

\* create_if_empty makes a call.
LEMMA NestStep ==
  ASSUME TypeInv, CallersWait, NEW c \in Clients, Busy(c),
         NEW j \in Jobs, NEW k \in Jobs, k.stage = "enter",
         jobs' = [jobs EXCEPT ![c] = <<j, k>> \o Tail(@)]
  PROVE  /\ jobs' \in [Clients -> Seq(Jobs)] /\ CallersWait'
         /\ Busy(c)' /\ Top(c)' = j
         /\ \A d \in Clients \ {c} : jobs'[d] = jobs[d]
  <1>. DEFINE s == Tail(jobs[c])
              u == <<j, k>> \o s
  <1>1. /\ Len(jobs[c]) \in Nat \ {0} /\ s \in Seq(Jobs) /\ Len(s) = Len(jobs[c]) - 1
        /\ \A i \in 1..Len(s) : s[i] = jobs[c][i + 1]
    BY JobsOf
  <1>2. <<j, k>> \in Seq(Jobs) /\ Len(<<j, k>>) = 2 /\ <<j, k>>[1] = j /\ <<j, k>>[2] = k
    OBVIOUS
  <1>3. /\ u \in Seq(Jobs) /\ Len(u) = 2 + Len(s)
        /\ \A i \in 1..Len(u) : u[i] = IF i <= 2 THEN <<j, k>>[i] ELSE s[i - 2]
    <2>. HIDE DEF s
    <2>1. /\ u \in Seq(Jobs) /\ Len(u) = Len(<<j, k>>) + Len(s)
          /\ \A i \in 1..(Len(<<j, k>>) + Len(s)) :
               u[i] = IF i <= Len(<<j, k>>) THEN <<j, k>>[i] ELSE s[i - Len(<<j, k>>)]
      BY <1>1, <1>2, ConcatProperties
    <2>. HIDE DEF u
    <2>. QED
      BY <1>1, <1>2, <2>1
  <1>4. jobs' = [jobs EXCEPT ![c] = u]
    OBVIOUS
  <1>. HIDE DEF s, u
  <1>5. u[1] = j /\ u[2] = k
    <2>1. Len(s) \in Nat
      BY <1>1
    <2>2. 1 \in 1..Len(u) /\ 2 \in 1..Len(u)
      BY <1>3, <2>1
    <2>3. u[1] = <<j, k>>[1] /\ u[2] = <<j, k>>[2]
      BY <1>3, <2>2
    <2>. QED
      BY <2>3
  <1>6. \A i \in 2..Len(u) : u[i].stage = "enter"
    <2>. SUFFICES ASSUME NEW i \in 2..Len(u) PROVE u[i].stage = "enter"
      OBVIOUS
    <2>1. CASE i = 2
      BY <2>1, <1>5
    <2>2. CASE i # 2
      <3>1. i - 2 \in 1..Len(s) /\ (i - 2) + 1 \in 2..Len(jobs[c])
        BY <1>1, <1>3, <2>2
      <3>2. u[i] = s[i - 2]
        BY <1>1, <1>3, <2>2
      <3>3. s[i - 2] = jobs[c][(i - 2) + 1]
        BY <1>1, <3>1
      <3>. QED
        BY <3>1, <3>2, <3>3 DEF CallersWait
    <2>. QED
      BY <2>1, <2>2
  <1>7. jobs'[c] = u /\ \A d \in Clients \ {c} : jobs'[d] = jobs[d]
    BY <1>4 DEF TypeInv
  <1>8. jobs' \in [Clients -> Seq(Jobs)]
    BY <1>3, <1>4, Zenon DEF TypeInv
  <1>9. CallersWait'
    BY <1>6, <1>7 DEF CallersWait
  <1>10. u # <<>>
    BY <1>1, <1>3
  <1>. QED
    BY <1>5, <1>7, <1>8, <1>9, <1>10 DEF Busy, Top

\* A client makes a call of its own.
LEMMA CallStep ==
  ASSUME TypeInv, CallersWait, NEW c \in Clients, NEW j \in Jobs, jobs' = [jobs EXCEPT ![c] = <<j>>]
  PROVE  /\ jobs' \in [Clients -> Seq(Jobs)] /\ CallersWait'
         /\ Busy(c)' /\ Top(c)' = j
         /\ \A d \in Clients \ {c} : jobs'[d] = jobs[d]
  <1>1. <<j>> \in Seq(Jobs) /\ Len(<<j>>) = 1 /\ <<j>>[1] = j /\ <<j>> # <<>>
    OBVIOUS
  <1>2. jobs'[c] = <<j>> /\ \A d \in Clients \ {c} : jobs'[d] = jobs[d]
    BY DEF TypeInv
  <1>3. jobs' \in [Clients -> Seq(Jobs)]
    BY <1>1 DEF TypeInv
  <1>4. CallersWait'
    BY <1>1, <1>2 DEF CallersWait
  <1>. QED
    BY <1>1, <1>2, <1>3, <1>4 DEF Busy, Top

\* A step that moves no id, of a client that is not about to write.
LEMMA IdsKept ==
  ASSUME IdsTaken, nextPid' = nextPid, disk' = disk, NEW c \in Clients, ~Writing(c)',
         \A d \in Clients \ {c} : jobs'[d] = jobs[d]
  PROVE  IdsTaken'
  <1>1. \A d \in Clients : Writing(d)' => Writing(d) /\ Top(d)' = Top(d)
    BY DEF Writing, Busy, Top
  <1>. QED
    BY <1>1 DEF IdsTaken

-----------------------------------------------------------------------------
(* The steps.                                                                *)

\* A call in hand with other contents.
LEMMA JobChange ==
  ASSUME NEW j \in Jobs, NEW stage \in Stages
  PROVE  LET k == [j EXCEPT !.stage = stage] IN k \in Jobs /\ k.stage = stage
  BY DEF Jobs

LEMMA NewJob ==
  ASSUME NEW op \in {"ingest", "store"}, NEW t \in Tables, NEW item \in AllRows
  PROVE  Job(op, t, item, "exists") \in Jobs
  BY DEF Job, Jobs, Stages

\* Steps of a call that change nothing but its stage.
LEMMA StageStep ==
  ASSUME StoreInv, UNCHANGED setup, NEW c \in Clients, CheckExists(c) \/ EnterIngest(c) \/ CopyPartitions(c)
  PROVE  StoreInv'
  <1>. USE DEF StoreInv
  <1>0. Busy(c)
    BY Zenon DEF CheckExists, EnterIngest, CopyPartitions, At
  <1>1. Top(c) \in Jobs
    BY <1>0, JobsOf
  <1>2. PICK j \in Jobs : SetTop(c, j) /\ j.stage # "write"
    <2>. DEFINE k(stage) == [Top(c) EXCEPT !.stage = stage]
    <2>0. \A stage \in Stages : k(stage) \in Jobs /\ k(stage).stage = stage
      BY <1>1, JobChange
    <2>1. CASE CheckExists(c)
      <3>1. SetTop(c, k("enter")) \/ SetTop(c, k("insert"))
        BY <2>1 DEF CheckExists, SetStage
      <3>. HIDE DEF k
      <3>. QED
        BY <2>0, <3>1 DEF Stages
    <2>2. CASE EnterIngest(c)
      <3>1. SetTop(c, k("buffer"))
        BY <2>2 DEF EnterIngest, SetStage
      <3>. HIDE DEF k
      <3>. QED
        BY <2>0, <3>1 DEF Stages
    <2>3. CASE CopyPartitions(c)
      <3>1. PICK t \in Top(c).todo : SetTop(c, [Top(c) EXCEPT !.stage = "peek", !.table = t])
        BY <2>3, Zenon DEF CopyPartitions
      <3>2. t \in Tables
        BY <1>1 DEF Jobs
      <3>. DEFINE l == [Top(c) EXCEPT !.stage = "peek", !.table = t]
      <3>3. l \in Jobs /\ l.stage = "peek"
        BY <1>1, <3>2, Zenon DEF Jobs, Stages
      <3>. HIDE DEF l
      <3>. QED
        BY <3>1, <3>3, Zenon DEF l
    <2>. QED
      BY <2>1, <2>2, <2>3
  <1>3. /\ jobs' \in [Clients -> Seq(Jobs)] /\ CallersWait' /\ ~Writing(c)'
        /\ \A d \in Clients \ {c} : jobs'[d] = jobs[d]
    BY <1>0, <1>2, TopStep DEF Writing
  <1>4. UNCHANGED <<tableVars, storeVars, begun, acked>>
    BY Zenon DEF CheckExists, EnterIngest, CopyPartitions
  <1>5. IdsTaken'
    BY <1>3, <1>4, IdsKept DEF storeVars
  <1>6. TypeInv'
    BY <1>3, <1>4 DEF TypeInv, tableVars, storeVars
  <1>. QED
    BY <1>3, <1>5, <1>6

LEMMA InsertTableStep ==
  ASSUME StoreInv, UNCHANGED setup, NEW c \in Clients, InsertTable(c)
  PROVE  StoreInv'
  <1>. USE DEF StoreInv
  <1>. DEFINE j == Job("ingest", Meta, NameRow(Top(c).table), "exists")
              k == [Top(c) EXCEPT !.stage = "enter"]
  <1>0. Busy(c)
    BY DEF InsertTable
  <1>1. Top(c) \in Jobs /\ Top(c).table \in Tables
    BY <1>0, JobsOf, Zenon DEF Jobs
  <1>2. j \in Jobs
    <2>1. NameRow(Top(c).table) \in AllRows
      BY <1>1 DEF AllRows
    <2>. QED
      BY <2>1, NewJob
  <1>3. k \in Jobs /\ k.stage = "enter"
    <2>. "enter" \in Stages
      BY DEF Stages
    <2>. QED
      BY <1>1, JobChange
  <1>4. j.stage # "write"
    BY DEF Job
  <1>5. jobs' = [jobs EXCEPT ![c] = <<j, k>> \o Tail(@)]
    BY DEF InsertTable
  <1>. HIDE DEF j, k
  <1>6. /\ jobs' \in [Clients -> Seq(Jobs)] /\ CallersWait' /\ ~Writing(c)'
        /\ \A d \in Clients \ {c} : jobs'[d] = jobs[d]
    BY <1>0, <1>2, <1>3, <1>4, <1>5, NestStep, Zenon DEF Writing
  <1>7. IdsTaken'
    BY <1>6, IdsKept DEF InsertTable, storeVars
  <1>8. <<>> \in Maps(Partitions)
    <2>1. <<>> \in [{} -> Partitions] /\ DOMAIN <<>> = {}
      OBVIOUS
    <2>. QED
      BY <2>1, FS_EmptySet, Zenon DEF Maps
  <1>9. /\ catalog' \subseteq Tables
        /\ parts' \in [Tables -> Maps(Partitions)] /\ buffer' \in [Tables -> SUBSET AllRows]
    BY <1>1, <1>8 DEF InsertTable, TypeInv
  <1>10. TypeInv'
    BY <1>6, <1>9 DEF InsertTable, TypeInv, storeVars
  <1>. QED
    BY <1>6, <1>7, <1>10

LEMMA PushRowStep ==
  ASSUME StoreInv, UNCHANGED setup, NEW c \in Clients, PushRow(c)
  PROVE  StoreInv'
  <1>. USE DEF StoreInv
  <1>. DEFINE t == Top(c).table
              pushed == buffer[t] \cup {Top(c).item}
              k == [Top(c) EXCEPT !.stage = "batch", !.rows = pushed]
  <1>0. Busy(c) /\ Top(c).op = "ingest"
    BY DEF PushRow, At
  <1>1. Top(c) \in Jobs /\ t \in Tables /\ Top(c).item \in AllRows
    BY <1>0, JobsOf, Zenon DEF Jobs
  <1>2. pushed \in SUBSET AllRows
    BY <1>1 DEF TypeInv
  <1>3. buffer' \in [Tables -> SUBSET AllRows]
    BY <1>1, <1>2, Zenon DEF PushRow, TypeInv
  <1>4. /\ jobs' \in [Clients -> Seq(Jobs)] /\ CallersWait' /\ ~Writing(c)'
        /\ \A d \in Clients \ {c} : jobs'[d] = jobs[d]
        /\ acked' \subseteq AllRows
    <2>1. CASE Return(c)
      BY <1>0, <1>1, <2>1, ReturnStep, Zenon DEF Return, TypeInv
    <2>2. CASE SetTop(c, k) /\ UNCHANGED acked
      <3>1. k \in Jobs /\ k.stage = "batch"
        <4>. HIDE DEF pushed
        <4>. QED
          BY <1>1, <1>2, Zenon DEF Jobs, Stages
      <3>. HIDE DEF k
      <3>. QED
        BY <1>0, <2>2, <3>1, TopStep DEF Writing, TypeInv
    <2>. QED
      BY <2>1, <2>2 DEF PushRow
  <1>5. IdsTaken'
    BY <1>4, IdsKept DEF PushRow, storeVars
  <1>6. TypeInv'
    BY <1>3, <1>4 DEF PushRow, TypeInv, storeVars
  <1>. QED
    BY <1>4, <1>5, <1>6

LEMMA BatchStep ==
  ASSUME StoreInv, UNCHANGED setup, NEW c \in Clients, Batch(c)
  PROVE  StoreInv'
  <1>. USE DEF StoreInv
  <1>. DEFINE t == Top(c).table
              k == [Top(c) EXCEPT !.stage = "put_key", !.rows = {}]
              part == Partition(Top(c).rows, 0, TRUE)
  <1>0. Busy(c)
    BY DEF Batch, At
  <1>1. Top(c) \in Jobs /\ t \in Tables /\ part \in Partitions
    BY <1>0, JobsOf, Zenon DEF Jobs, Partition, Partitions
  <1>2. parts[t] \in Maps(Partitions) /\ BatchId(t) \in Nat
    BY <1>1, FS_CardinalityType DEF TypeInv, Maps, BatchId
  <1>3. parts' \in [Tables -> Maps(Partitions)]
    <2>1. Insert(parts[t], BatchId(t), part) \in Maps(Partitions)
      BY <1>1, <1>2, MapAdd, Zenon
    <2>2. parts' = [parts EXCEPT ![t] = Insert(parts[t], BatchId(t), part)]
      BY DEF Batch
    <2>. HIDE DEF part, t
    <2>. QED
      BY <2>1, <2>2, Zenon DEF TypeInv
  <1>4. /\ jobs' \in [Clients -> Seq(Jobs)] /\ CallersWait' /\ ~Writing(c)'
        /\ \A d \in Clients \ {c} : jobs'[d] = jobs[d]
    <2>1. k \in Jobs /\ k.stage = "put_key"
      BY <1>1, Zenon DEF Jobs, Stages
    <2>2. SetTop(c, k)
      BY DEF Batch
    <2>. HIDE DEF k
    <2>. QED
      BY <1>0, <2>1, <2>2, TopStep DEF Writing
  <1>5. IdsTaken'
    BY <1>4, IdsKept DEF Batch, storeVars
  <1>6. TypeInv'
    BY <1>3, <1>4, Zenon DEF Batch, TypeInv, storeVars
  <1>. QED
    BY <1>4, <1>5, <1>6

\* The keys go into the LRU list, and the call returns.
LEMMA PutStep ==
  ASSUME StoreInv, UNCHANGED setup, NEW c \in Clients, PutKey(c) \/ PutKeys(c)
  PROVE  StoreInv'
  <1>. USE DEF StoreInv
  <1>0. Busy(c) /\ Top(c).op # "snapshot" /\ Return(c)
    BY DEF PutKey, PutKeys, At
  <1>1. Top(c) \in Jobs /\ Top(c).item \in AllRows /\ Top(c).pid \in Nat
    BY <1>0, JobsOf, Zenon DEF Jobs
  <1>2. /\ jobs' \in [Clients -> Seq(Jobs)] /\ CallersWait' /\ ~Writing(c)'
        /\ \A d \in Clients \ {c} : jobs'[d] = jobs[d]
    BY <1>0, ReturnStep
  <1>3. lru' \subseteq Nat /\ acked' \subseteq AllRows
    <2>1. acked' \subseteq AllRows
      BY <1>0, <1>1 DEF Return, TypeInv
    <2>2. lru' \subseteq Nat
      <3>1. lru' = lru \cup {0} \/ lru' = lru \cup {Top(c).pid}
        BY DEF PutKey, PutKeys
      <3>2. lru \subseteq Nat
        BY DEF TypeInv
      <3>3. 0 \in Nat
        OBVIOUS
      <3>. QED
        BY <1>1, <3>1, <3>2, <3>3, Zenon
    <2>. QED
      BY <2>1, <2>2
  <1>4. UNCHANGED <<tableVars, nextPid, disk, begun>>
    BY DEF PutKey, PutKeys
  <1>5. IdsTaken'
    BY <1>2, <1>4, IdsKept
  <1>6. TypeInv'
    BY <1>2, <1>3, <1>4 DEF TypeInv, tableVars
  <1>. QED
    BY <1>2, <1>5, <1>6

\* store_partition takes an id that nobody has had.
LEMMA EnterStoreStep ==
  ASSUME StoreInv, UNCHANGED setup, NEW c \in Clients, EnterStore(c)
  PROVE  StoreInv'
  <1>. USE DEF StoreInv
  <1>. DEFINE k == [Top(c) EXCEPT !.stage = "write", !.pid = nextPid]
  <1>0. Busy(c)
    BY DEF EnterStore, At
  <1>1. nextPid \in Nat /\ Top(c) \in Jobs
    BY <1>0, JobsOf DEF TypeInv
  <1>2. k \in Jobs /\ k.stage = "write" /\ k.pid = nextPid
    BY <1>1, Zenon DEF Jobs, Stages
  <1>3. SetTop(c, k)
    BY DEF EnterStore
  <1>. HIDE DEF k
  <1>4. /\ jobs' \in [Clients -> Seq(Jobs)] /\ CallersWait' /\ Top(c)' = k
        /\ \A d \in Clients \ {c} : jobs'[d] = jobs[d]
    BY <1>0, <1>2, <1>3, TopStep
  <1>5. nextPid' = nextPid + 1 /\ disk' = disk
    BY DEF EnterStore
  <1>6. \A d \in Clients \ {c} : Writing(d)' => Writing(d) /\ Top(d)' = Top(d) /\ Top(d).pid \in Nat
    <2>1. \A d \in Clients \ {c} : Writing(d)' => Writing(d) /\ Top(d)' = Top(d)
      BY <1>4 DEF Writing, Busy, Top
    <2>. QED
      BY <2>1, JobsOf, Zenon DEF Writing, Jobs
  <1>7. DOMAIN disk \subseteq Nat
    BY Zenon DEF TypeInv, Maps
  <1>8. IdsTaken'
    <2>1. \A p \in DOMAIN disk' : p < nextPid'
      BY <1>1, <1>5, <1>7 DEF IdsTaken
    <2>2. \A d \in Clients : Writing(d)' => Top(d)'.pid < nextPid' /\ Top(d)'.pid \notin DOMAIN disk'
      BY <1>1, <1>2, <1>4, <1>5, <1>6, <1>7 DEF IdsTaken
    <2>3. \A d \in Clients \ {c} : Writing(d)' => Top(d)'.pid # Top(c)'.pid
      BY <1>1, <1>2, <1>4, <1>6 DEF IdsTaken
    <2>4. \A d, e \in Clients \ {c} : d # e /\ Writing(d)' /\ Writing(e)' => Top(d)'.pid # Top(e)'.pid
      BY <1>6 DEF IdsTaken
    <2>. QED
      BY <2>1, <2>2, <2>3, <2>4 DEF IdsTaken
  <1>9. TypeInv'
    BY <1>1, <1>4, <1>5 DEF EnterStore, TypeInv, tableVars
  <1>. QED
    BY <1>4, <1>8, <1>9

\* The write of a client replaces nothing, because its id is not on disk; and no other
\* client has the same.
LEMMA WriteStep ==
  ASSUME StoreInv, UNCHANGED setup, NEW c \in Clients, WritePartition(c)
  PROVE  StoreInv' /\ \A p \in DOMAIN disk : p \in DOMAIN disk' /\ disk'[p] = disk[p]
  <1>. USE DEF StoreInv
  <1>. DEFINE k == [Top(c) EXCEPT !.stage = "load"]
              pid == Top(c).pid
              entry == [table |-> Top(c).table, rows |-> {Top(c).item}]
  <1>0. Writing(c) /\ Busy(c) /\ Top(c).op = "store"
    BY DEF WritePartition, At, Writing
  <1>1. Top(c) \in Jobs /\ pid \in Nat /\ entry \in Stored
    BY <1>0, JobsOf, Zenon DEF Jobs, Stored
  <1>2. k \in Jobs /\ k.stage = "load"
    BY <1>1 DEF Jobs, Stages
  <1>3. SetTop(c, k)
    BY DEF WritePartition, SetStage
  <1>. HIDE DEF k
  <1>4. /\ jobs' \in [Clients -> Seq(Jobs)] /\ CallersWait' /\ ~Writing(c)'
        /\ \A d \in Clients \ {c} : jobs'[d] = jobs[d]
    BY <1>0, <1>2, <1>3, TopStep DEF Writing
  <1>5. disk' = disk \/ disk' = Insert(disk, pid, entry)
    BY DEF WritePartition
  <1>6. /\ disk' \in Maps(Stored) /\ DOMAIN disk \subseteq DOMAIN disk'
        /\ DOMAIN disk' \subseteq DOMAIN disk \cup {pid}
        /\ \A p \in DOMAIN disk : p # pid => disk'[p] = disk[p]
    <2>1. disk \in Maps(Stored)
      BY DEF TypeInv
    <2>2. CASE disk' = disk
      BY <2>1, <2>2
    <2>3. CASE disk' = Insert(disk, pid, entry)
      <3>. DEFINE g == Insert(disk, pid, entry)
      <3>1. /\ g \in Maps(Stored) /\ DOMAIN g = DOMAIN disk \cup {pid}
            /\ \A q \in DOMAIN disk : q # pid => g[q] = disk[q]
        <4>1. g \in Maps(Stored)
          BY <1>1, <2>1, MapAdd
        <4>. QED
          BY <4>1, Zenon DEF Insert
      <3>. HIDE DEF g
      <3>. QED
        BY <2>3, <3>1 DEF g
    <2>. QED
      BY <1>5, <2>2, <2>3
  <1>. HIDE DEF pid, entry
  <1>7. pid < nextPid /\ pid \notin DOMAIN disk
    BY <1>0 DEF IdsTaken, pid
  <1>8. \A d \in Clients : Writing(d)' => d # c /\ Writing(d) /\ Top(d)' = Top(d)
    BY <1>4 DEF Writing, Busy, Top
  <1>9. \A d \in Clients : Writing(d)' => Top(d).pid # pid
    BY <1>0, <1>8 DEF IdsTaken, pid
  <1>10. nextPid' = nextPid
    BY DEF WritePartition
  <1>11. IdsTaken'
    BY <1>6, <1>7, <1>8, <1>9, <1>10 DEF IdsTaken
  <1>12. TypeInv'
    BY <1>4, <1>6, <1>10 DEF WritePartition, TypeInv, tableVars
  <1>. QED
    BY <1>4, <1>6, <1>7, <1>11, <1>12

LEMMA LoadStep ==
  ASSUME StoreInv, UNCHANGED setup, NEW c \in Clients, LoadPartition(c)
  PROVE  StoreInv'
  <1>. USE DEF StoreInv
  <1>. DEFINE t == Top(c).table
              pid == Top(c).pid
              k == [Top(c) EXCEPT !.stage = "put_keys"]
              part == Partition({Top(c).item}, pid, TRUE)
  <1>0. Busy(c) /\ Top(c).op = "store"
    BY DEF LoadPartition, At
  <1>1. Top(c) \in Jobs /\ t \in Tables /\ pid \in Nat /\ part \in Partitions
    BY <1>0, JobsOf, Zenon DEF Jobs, Partition, Partitions
  <1>2. parts' \in [Tables -> Maps(Partitions)]
    <2>1. Insert(parts[t], pid, part) \in Maps(Partitions)
      BY <1>1, MapAdd, Zenon DEF TypeInv
    <2>2. parts' = [parts EXCEPT ![t] = Insert(parts[t], pid, part)]
      BY DEF LoadPartition
    <2>. HIDE DEF part, t, pid
    <2>. QED
      BY <2>1, <2>2, Zenon DEF TypeInv
  <1>3. /\ jobs' \in [Clients -> Seq(Jobs)] /\ CallersWait' /\ ~Writing(c)'
        /\ \A d \in Clients \ {c} : jobs'[d] = jobs[d]
    <2>1. k \in Jobs /\ k.stage = "put_keys"
      BY <1>1 DEF Jobs, Stages
    <2>2. SetTop(c, k)
      BY DEF LoadPartition, SetStage
    <2>. HIDE DEF k
    <2>. QED
      BY <1>0, <2>1, <2>2, TopStep DEF Writing
  <1>4. IdsTaken'
    BY <1>3, IdsKept DEF LoadPartition, storeVars
  <1>5. TypeInv'
    BY <1>2, <1>3, Zenon DEF LoadPartition, TypeInv, storeVars
  <1>. QED
    BY <1>3, <1>4, <1>5

\* A client calls.
LEMMA BeginStep ==
  ASSUME StoreInv, UNCHANGED setup, NEW c \in Clients, Begin(c)
  PROVE  StoreInv'
  <1>. USE DEF StoreInv
  <1>1. PICK item \in setup.items :
          /\ begun' = begun \cup {item}
          /\ jobs' = [jobs EXCEPT ![c] =
               <<Job(IF item \in Rows THEN "ingest" ELSE "store", TableOf[item], item, "exists")>>]
    BY Zenon DEF Begin
  <1>2. item \in Items
    BY SetupsAssumption DEF TypeInv
  <1>. DEFINE j == Job(IF item \in Rows THEN "ingest" ELSE "store", TableOf[item], item, "exists")
  <1>3. j \in Jobs /\ j.stage # "write"
    <2>1. TableOf[item] \in Tables /\ item \in AllRows
      BY <1>2 DEF AllRows
    <2>. QED
      BY <2>1 DEF Job, Jobs, Stages
  <1>4. jobs' = [jobs EXCEPT ![c] = <<j>>]
    BY <1>1
  <1>. HIDE DEF j
  <1>5. /\ jobs' \in [Clients -> Seq(Jobs)] /\ CallersWait' /\ ~Writing(c)'
        /\ \A d \in Clients \ {c} : jobs'[d] = jobs[d]
    BY <1>3, <1>4, CallStep, Zenon DEF Writing
  <1>6. IdsTaken'
    BY <1>5, IdsKept DEF Begin, storeVars
  <1>7. TypeInv'
    BY <1>1, <1>2, <1>5, Zenon DEF Begin, TypeInv, tableVars, storeVars
  <1>. QED
    BY <1>5, <1>6, <1>7

LEMMA BeginSnapshotStep ==
  ASSUME StoreInv, UNCHANGED setup, NEW c \in Clients, BeginSnapshot(c)
  PROVE  StoreInv'
  <1>. USE DEF StoreInv
  <1>1. PICK ts \in {{t} : t \in catalog} \cup {catalog} :
          /\ ts # {}
          /\ jobs' = [jobs EXCEPT ![c] =
               <<[Job("snapshot", CHOOSE t \in ts : TRUE, Meta, "partitions") EXCEPT !.todo = ts]>>]
    BY Zenon DEF BeginSnapshot
  <1>. DEFINE first == CHOOSE t \in ts : TRUE
              j == [Job("snapshot", first, Meta, "partitions") EXCEPT !.todo = ts]
  <1>2. ts \in SUBSET Tables /\ first \in Tables
    BY <1>1 DEF TypeInv
  <1>3. jobs' = [jobs EXCEPT ![c] = <<j>>]
    BY <1>1
  <1>4. j \in Jobs /\ j.stage # "write"
    <2>. HIDE DEF first
    <2>. QED
      BY <1>2 DEF Job, Jobs, Stages
  <1>. HIDE DEF j
  <1>5. /\ jobs' \in [Clients -> Seq(Jobs)] /\ CallersWait' /\ ~Writing(c)'
        /\ \A d \in Clients \ {c} : jobs'[d] = jobs[d]
    BY <1>3, <1>4, CallStep, Zenon DEF Writing
  <1>6. IdsTaken'
    BY <1>5, IdsKept DEF BeginSnapshot, storeVars
  <1>7. TypeInv'
    BY <1>5 DEF BeginSnapshot, TypeInv, tableVars, storeVars
  <1>. QED
    BY <1>5, <1>6, <1>7

LEMMA CopyBufferStep ==
  ASSUME StoreInv, UNCHANGED setup, NEW c \in Clients, CopyBuffer(c)
  PROVE  StoreInv'
  <1>. USE DEF StoreInv
  <1>. DEFINE rest == Top(c).todo \ {Top(c).table}
              k == [Top(c) EXCEPT !.stage = "partitions", !.todo = rest]
  <1>0. Busy(c)
    BY DEF CopyBuffer, At
  <1>1. Top(c) \in Jobs /\ rest \in SUBSET Tables
    BY <1>0, JobsOf, Zenon DEF Jobs
  <1>2. k \in Jobs /\ k.stage = "partitions"
    <2>. HIDE DEF rest
    <2>. QED
      BY <1>1, Zenon DEF Jobs, Stages
  <1>3. jobs' = [jobs EXCEPT ![c] = <<>>] \/ SetTop(c, k)
    BY DEF CopyBuffer
  <1>. HIDE DEF k
  <1>4. /\ jobs' \in [Clients -> Seq(Jobs)] /\ CallersWait' /\ ~Writing(c)'
        /\ \A d \in Clients \ {c} : jobs'[d] = jobs[d]
    <2>1. CASE jobs' = [jobs EXCEPT ![c] = <<>>]
      <3>1. <<>> \in Seq(Jobs) /\ Len(<<>>) = 0
        OBVIOUS
      <3>2. jobs'[c] = <<>> /\ \A d \in Clients \ {c} : jobs'[d] = jobs[d]
        BY <2>1 DEF TypeInv
      <3>3. jobs' \in [Clients -> Seq(Jobs)]
        BY <2>1, <3>1 DEF TypeInv
      <3>4. CallersWait'
        BY <3>1, <3>2 DEF CallersWait
      <3>. QED
        BY <3>2, <3>3, <3>4 DEF Writing, Busy
    <2>2. CASE SetTop(c, k)
      BY <1>0, <1>2, <2>2, TopStep DEF Writing
    <2>. QED
      BY <1>3, <2>1, <2>2
  <1>5. IdsTaken'
    BY <1>4, IdsKept DEF CopyBuffer, storeVars
  <1>6. TypeInv'
    BY <1>4 DEF CopyBuffer, TypeInv, tableVars, storeVars
  <1>. QED
    BY <1>4, <1>5, <1>6

\* Eviction and point lookups move no id.
LEMMA CacheStep ==
  ASSUME StoreInv, UNCHANGED setup, Evict \/ Lookup
  PROVE  StoreInv'
  <1>. USE DEF StoreInv
  <1>1. UNCHANGED <<catalog, buffer, nextPid, disk, jobs, begun, acked>>
    BY Zenon DEF Evict, Lookup
  <1>2. CallersWait' /\ IdsTaken'
    BY <1>1 DEF CallersWait, IdsTaken, Writing, Busy, Top
  <1>3. parts' \in [Tables -> Maps(Partitions)] /\ lru' \subseteq Nat
    <2>1. CASE Evict
      <3>1. PICK key \in lru :
              LET hit == {t \in catalog : key \in DOMAIN parts[t]}
              IN /\ parts' = [t \in Tables |-> IF t \in hit
                                               THEN [parts[t] EXCEPT ![key].resident = FALSE]
                                               ELSE parts[t]]
                 /\ lru' = (lru \ {key}) \ {parts[t][key].hid : t \in hit}
        BY <2>1, Zenon DEF Evict
      <3>2. lru' \subseteq Nat
        BY <3>1 DEF TypeInv
      <3>3. ASSUME NEW t \in Tables, key \in DOMAIN parts[t]
            PROVE  [parts[t] EXCEPT ![key].resident = FALSE] \in Maps(Partitions)
        <4>1. parts[t] \in Maps(Partitions) /\ parts[t][key] \in Partitions
          BY <3>3 DEF TypeInv, Maps
        <4>2. [parts[t][key] EXCEPT !.resident = FALSE] \in Partitions
          BY <4>1, Zenon DEF Partitions
        <4>3. [parts[t] EXCEPT ![key] = [parts[t][key] EXCEPT !.resident = FALSE]] \in Maps(Partitions)
          BY <3>3, <4>1, <4>2, MapChange, Zenon
        <4>. QED
          BY <4>3
      <3>4. parts' \in [Tables -> Maps(Partitions)]
        BY <3>1, <3>3 DEF TypeInv
      <3>. QED
        BY <3>2, <3>4
    <2>2. CASE Lookup
      <3>. PICK t \in catalog : \E p \in DOMAIN parts[t] :
              /\ parts[t][p].hid \in DOMAIN disk
              /\ parts' = [parts EXCEPT ![t][p] = Partition(disk[parts[t][p].hid].rows, parts[t][p].hid, TRUE)]
              /\ lru' = lru \cup {parts[t][p].hid}
        BY <2>2, Zenon DEF Lookup
      <3>1. PICK p \in DOMAIN parts[t] :
              /\ parts[t][p].hid \in DOMAIN disk
              /\ parts' = [parts EXCEPT ![t][p] = Partition(disk[parts[t][p].hid].rows, parts[t][p].hid, TRUE)]
              /\ lru' = lru \cup {parts[t][p].hid}
        BY Zenon
      <3>. DEFINE part == Partition(disk[parts[t][p].hid].rows, parts[t][p].hid, TRUE)
      <3>2. t \in Tables /\ parts[t] \in Maps(Partitions) /\ parts[t][p] \in Partitions
        <4>1. t \in Tables /\ parts[t] \in Maps(Partitions)
          BY DEF TypeInv
        <4>. QED
          BY <4>1, MapEntries
      <3>3. parts[t][p].hid \in Nat /\ disk[parts[t][p].hid] \in Stored
        BY <3>1, <3>2 DEF TypeInv, Maps, Partitions
      <3>4. part \in Partitions
        BY <3>3 DEF Partition, Partitions, Stored
      <3>5. parts' = [parts EXCEPT ![t] = [parts[t] EXCEPT ![p] = part]]
        BY <3>1, Zenon
      <3>. HIDE DEF part
      <3>6. [parts[t] EXCEPT ![p] = part] \in Maps(Partitions)
        BY <3>2, <3>4, MapChange
      <3>7. parts' \in [Tables -> Maps(Partitions)]
        BY <3>2, <3>5, <3>6, Zenon DEF TypeInv
      <3>8. lru \subseteq Nat
        BY DEF TypeInv
      <3>. QED
        BY <3>1, <3>3, <3>7, <3>8
    <2>. QED
      BY <2>1, <2>2
  <1>4. TypeInv'
    BY <1>1, <1>3 DEF TypeInv
  <1>. QED
    BY <1>2, <1>4

\* A restart finds on disk what was there, and hands out ids above.
LEMMA RestartStep ==
  ASSUME StoreInv, UNCHANGED setup, Restart
  PROVE  StoreInv'
  <1>. USE DEF StoreInv
  <1>1. disk \in Maps(Stored) /\ disk' = disk
    BY DEF TypeInv, Restart
  <1>2. nextPid' \in Nat /\ \A p \in DOMAIN disk : p < nextPid'
    BY <1>1, FirstPidFresh DEF Restart
  <1>3. catalog' \subseteq Tables /\ parts' \in [Tables -> Maps(Partitions)]
    BY <1>1, LoadedMaps DEF Restart
  <1>4. <<>> \in Seq(Jobs) /\ Len(<<>>) = 0
    OBVIOUS
  <1>5. jobs' = [c \in Clients |-> <<>>]
    BY DEF Restart
  <1>6. TypeInv'
    BY <1>1, <1>2, <1>3, <1>4, <1>5 DEF TypeInv, Restart
  <1>7. CallersWait'
    BY <1>4, <1>5 DEF CallersWait
  <1>8. IdsTaken'
    BY <1>1, <1>2, <1>5 DEF IdsTaken, Writing, Busy
  <1>. QED
    BY <1>6, <1>7, <1>8

\* What exists at the start may be an old disk store.
LEMMA StoreInvInit == Init => StoreInv
  <1>. SUFFICES ASSUME Init PROVE StoreInv
    OBVIOUS
  <1>1. disk \in Maps(Stored)
    <2>1. /\ setup \in Setups /\ disk = setup.existing
      BY DEF Init
    <2>2. /\ IsFiniteSet(DOMAIN disk) /\ DOMAIN disk \subseteq Nat
          /\ disk \in [DOMAIN disk -> [table : Tables, rows : SUBSET Loads]]
      BY <2>1, ExistingAssumption
    <2>3. disk \in [DOMAIN disk -> Stored]
      BY <2>2 DEF Stored, AllRows, Items
    <2>. QED
      BY <2>2, <2>3 DEF Maps
  <1>2. nextPid \in Nat /\ \A p \in DOMAIN disk : p < nextPid
    BY <1>1, FirstPidFresh DEF Init
  <1>3. catalog \subseteq Tables /\ parts \in [Tables -> Maps(Partitions)]
    BY <1>1, LoadedMaps DEF Init
  <1>4. <<>> \in Seq(Jobs) /\ Len(<<>>) = 0
    OBVIOUS
  <1>5. jobs = [c \in Clients |-> <<>>]
    BY DEF Init
  <1>6. RowsOn(disk) \subseteq Items
    <2>1. \A p \in DOMAIN disk : disk[p].rows \subseteq Loads
      BY ExistingAssumption DEF Init
    <2>. QED
      BY <2>1 DEF RowsOn, Items
  <1>7. TypeInv
    BY <1>1, <1>2, <1>3, <1>4, <1>5, <1>6 DEF TypeInv, Init, AllRows
  <1>8. CallersWait
    BY <1>4, <1>5 DEF CallersWait
  <1>9. IdsTaken
    BY <1>2, <1>5 DEF IdsTaken, Writing, Busy
  <1>. QED
    BY <1>7, <1>8, <1>9 DEF StoreInv

\* Every step keeps the invariant, and what is on disk.
LEMMA StoreInvNext ==
  StoreInv /\ [Next]_vars =>
    StoreInv' /\ \A p \in DOMAIN disk : p \in DOMAIN disk' /\ disk'[p] = disk[p]
  <1>. SUFFICES ASSUME StoreInv, [Next]_vars
               PROVE  StoreInv' /\ \A p \in DOMAIN disk : p \in DOMAIN disk' /\ disk'[p] = disk[p]
    OBVIOUS
  <1>1. CASE UNCHANGED vars
    BY <1>1, Zenon DEF vars, tableVars, storeVars, StoreInv, TypeInv, CallersWait, IdsTaken, Writing, Busy, Top
  <1>2. CASE UNCHANGED setup /\ (Evict \/ Lookup)
    BY <1>2, CacheStep, Zenon DEF Evict, Lookup
  <1>3. CASE UNCHANGED setup /\ Restart
    BY <1>3, RestartStep DEF Restart
  <1>4. ASSUME UNCHANGED setup, NEW c \in Clients, Begin(c) \/ BeginSnapshot(c) \/ Step(c)
        PROVE  StoreInv' /\ \A p \in DOMAIN disk : p \in DOMAIN disk' /\ disk'[p] = disk[p]
    <2>1. CASE Begin(c) \/ BeginSnapshot(c) \/ CopyBuffer(c)
      BY <1>4, <2>1, BeginStep, BeginSnapshotStep, CopyBufferStep, Zenon
         DEF Begin, BeginSnapshot, CopyBuffer, storeVars
    <2>2. CASE CheckExists(c) \/ EnterIngest(c) \/ CopyPartitions(c)
      BY <1>4, <2>2, StageStep, Zenon DEF CheckExists, EnterIngest, CopyPartitions, storeVars
    <2>3. CASE InsertTable(c) \/ PushRow(c) \/ Batch(c)
      BY <1>4, <2>3, InsertTableStep, PushRowStep, BatchStep, Zenon DEF InsertTable, PushRow, Batch, storeVars
    <2>4. CASE PutKey(c) \/ PutKeys(c)
      BY <1>4, <2>4, PutStep DEF PutKey, PutKeys
    <2>5. CASE EnterStore(c) \/ LoadPartition(c)
      BY <1>4, <2>5, EnterStoreStep, LoadStep, Zenon DEF EnterStore, LoadPartition, storeVars
    <2>6. CASE WritePartition(c)
      BY <1>4, <2>6, WriteStep
    <2>. QED
      BY <1>4, <2>1, <2>2, <2>3, <2>4, <2>5, <2>6, Zenon DEF Step
  <1>. QED
    BY <1>1, <1>2, <1>3, <1>4 DEF Next

-----------------------------------------------------------------------------
(* The theorems.                                                             *)

\* Every variable of the table store keeps its type (inner_locustdb.rs, InnerLocustDB;
\* table.rs, Table), for any tables, clients, rows and setups.
THEOREM StoreTypeCorrect == Spec => []TypeOK
  <1>1. StoreInv => TypeOK
    <2>. SUFFICES ASSUME StoreInv PROVE TypeOK
      OBVIOUS
    <2>1. ASSUME NEW c \in Clients, Busy(c) PROVE Top(c).stage \in Stages /\ Top(c).table \in Tables
      BY <2>1, JobsOf, Zenon DEF StoreInv, Jobs
    <2>2. ASSUME NEW t \in Tables
          PROVE  /\ DOMAIN parts[t] \subseteq Nat
                 /\ \A p \in DOMAIN parts[t] : parts[t][p].rows \subseteq AllRows
      <3>1. parts[t] \in Maps(Partitions)
        BY DEF StoreInv, TypeInv
      <3>2. \A p \in DOMAIN parts[t] : parts[t][p] \in Partitions
        BY <3>1, MapEntries
      <3>3. DOMAIN parts[t] \subseteq Nat
        BY <3>1, MapEntries
      <3>. QED
        BY <3>2, <3>3 DEF Partitions
    <2>3. DOMAIN disk \subseteq Nat
      BY Zenon DEF StoreInv, TypeInv, Maps
    <2>. QED
      BY <2>1, <2>2, <2>3, Zenon DEF StoreInv, TypeInv, TypeOK
  <1>2. StoreInv /\ [Next]_vars => StoreInv'
    BY StoreInvNext
  <1>. QED
    BY <1>1, <1>2, StoreInvInit, PTL DEF Spec

\* next_partition_id hands out an id once, also across restarts: store_partition never
\* writes over a partition on disk, whatever clients do at the same time and wherever the
\* process dies.
THEOREM PartitionsWrittenOnce == Spec => DiskImmutable
  <1>1. StoreInv /\ [Next]_vars => StoreInv'
    BY StoreInvNext
  <1>2. StoreInv /\ [Next]_vars =>
          [\A p \in DOMAIN disk : p \in DOMAIN disk' /\ disk'[p] = disk[p]]_disk
    BY StoreInvNext
  <1>. QED
    BY <1>1, <1>2, StoreInvInit, PTL DEF Spec, DiskImmutable

=============================================================================
