---------------------- MODULE MessagePartitionProofs ----------------------
(***************************************************************************)
(* Proofs about MessagePartition, for all chats, sizes of tables and       *)
(* batches, and any number of failures: its variables keep their types, no *)
(* message is lost but those stored while im_message is being replaced,    *)
(* the table that replaces it has nothing in common with the others, and   *)
(* readers find messages by id and by index, and count them.               *)
(***************************************************************************)
EXTENDS MessagePartition, FiniteSetTheorems, WellFoundedInduction, TLAPS

(***************************************************************************)
(* Least and greatest ids                                                  *)
(***************************************************************************)

\* A set of natural numbers that is not empty has a least element.
LEMMA HasLeast ==
  ASSUME NEW S, S \subseteq Nat, S # {}
  PROVE  Min(S) \in S /\ \A y \in S : Min(S) <= y
<1> DEFINE Less == OpToRel(<, Nat)
<1>1. \A x, y \in Nat : y < x => <<y, x>> \in Less
  BY DEF OpToRel
<1>2. PICK x \in S : \A y \in S : ~ (<<y, x>> \in Less)
  BY NatLessThanWellFounded, WFMin
<1> HIDE DEF Less
<1>3. ASSUME NEW y \in S PROVE x <= y
  <2>1. x \in Nat /\ y \in Nat
    OBVIOUS
  <2>2. ~ (y < x)
    BY <1>1, <1>2, <2>1, Zenon
  <2> QED
    BY <2>1, <2>2
<1> QED
  BY <1>3 DEF Min

\* One that is bounded as well has a greatest.
LEMMA HasGreatest ==
  ASSUME NEW b \in Nat, NEW S, S \subseteq 0 .. b, S # {}
  PROVE  Max(S) \in S /\ \A y \in S : y <= Max(S)
<1> DEFINE T == {b - x : x \in S}
<1>1. \A x \in S : x \in Int /\ b - x \in Nat
  OBVIOUS
<1>2. T \subseteq Nat /\ T # {}
  BY <1>1, Zenon
<1>3. PICK t \in T : \A y \in T : t <= y
  BY <1>2, HasLeast
<1>4. PICK x \in S : t = b - x
  BY <1>3
<1>5. \A y \in S : b - y \in T
  BY Zenon
<1>6. \A y \in S : x >= y
  BY <1>1, <1>3, <1>4, <1>5
<1> QED
  BY <1>6 DEF Max

(***************************************************************************)
(* Types                                                                   *)
(***************************************************************************)

\* Whatever a table holds was stored as a message, and as ids are handed out
\* one by one none is above the number of messages stored.
RowsInv ==
  /\ IsFiniteSet(sent) /\ nextId <= Cardinality(sent) + 1
  /\ \A m \in sent : m.id <= Cardinality(sent) /\ m.index <= last[m.chat]
  /\ master \subseteq sent /\ tmp \subseteq sent
  /\ \A n \in DOMAIN tables : tables[n] \subseteq sent

\* How many tables there are at each step, and after a rollback.
TablesInv ==
  /\ pc \in {"copy", "index"} => Len(tables) = Len(index) + 1
  /\ pc = "chats" => Len(tables) = Len(index) /\ Len(index) > 0
  /\ saved # <<>> =>
       /\ Len(saved[1].tables) = Len(saved[1].index) + 1
       /\ \A n \in DOMAIN saved[1].tables : saved[1].tables[n] \subseteq sent

TypeInv == TypeOK /\ RowsInv /\ TablesInv

LEMMA TypeInit == Init => TypeInv
<1> SUFFICES ASSUME Init PROVE TypeInv
  OBVIOUS
<1>1. IsFiniteSet({}) /\ Cardinality({}) = 0
  BY FS_EmptySet
<1>2. TypeOK
  <2>1. {} \subseteq Message /\ {} \subseteq ChatRow /\ 1 \in Nat \ {0} /\ 0 \in Nat
    OBVIOUS
  <2>2. /\ <<>> \in Seq(SUBSET Message) /\ <<>> \in Seq(IndexRow)
        /\ <<>> \in Seq(Snapshot) /\ Len(<<>>) = 0
    OBVIOUS
  <2>3. [c \in Chats |-> 0] \in [Chats -> Nat] /\ 0 \in 0 .. MaxFaults
    BY PartitionAssumption
  <2>4. /\ tables \in Seq(SUBSET Message) /\ Len(tables) \in {Len(index), Len(index) + 1}
        /\ index \in Seq(IndexRow) /\ cache \in Seq(IndexRow)
        /\ saved \in Seq(Snapshot) /\ Len(saved) <= 1
    BY <2>2 DEF Init
  <2>5. last \in [Chats -> Nat] /\ faults \in 0 .. MaxFaults
    BY <2>3 DEF Init
  <2>6. mark \in {"unset", "true", "false"} /\ pc \in Steps /\ hidden \in BOOLEAN
    BY DEF Init, Steps
  <2>7. /\ master \subseteq Message /\ tmp \subseteq Message /\ old \subseteq Message
        /\ sent \subseteq Message /\ late \subseteq Message
        /\ chatIndex \subseteq ChatRow /\ backup \subseteq Message
        /\ nextId \in Nat \ {0} /\ end \in Nat /\ at \in Nat /\ total \in Nat
    BY <2>1 DEF Init
  <2> QED
    BY <2>4, <2>5, <2>6, <2>7 DEF TypeOK
<1>3. RowsInv
  BY <1>1 DEF Init, RowsInv
<1>4. TablesInv
  BY DEF Init, TablesInv
<1> QED
  BY <1>2, <1>3, <1>4 DEF TypeInv

\* A job step that leaves the tables alone and does not go to a step for which
\* TablesInv says more.
LEMMA TypeFrame ==
  ASSUME TypeInv, TypeOK',
         UNCHANGED <<master, msgVars, tables, index, saved>>, tmp' \in {tmp, {}},
         pc' \notin {"copy", "index", "chats"} \/ pc' = pc
  PROVE  TypeInv'
  BY DEF TypeInv, TypeOK, RowsInv, TablesInv, msgVars

LEMMA TypeStore ==
  ASSUME TypeInv, NEW c \in Chats, Store(c) PROVE TypeInv'
<1> DEFINE m == [id |-> nextId, chat |-> c, index |-> last[c] + 1]
<1>1. m \in Message /\ last[c] \in Nat /\ last' = [last EXCEPT ![c] = @ + 1]
      /\ m.id = nextId /\ m.chat = c /\ m.index = last[c] + 1
      /\ sent' = sent \cup {m} /\ late' \in {late, late \cup {m}}
      /\ nextId' = nextId + 1
      /\ master' = master \cup {m} /\ UNCHANGED <<tables, tmp>>
  BY DEF Store, TypeInv, TypeOK, Message
<1> HIDE DEF m
<1>2. m \notin sent /\ Cardinality(sent) \in Nat
  BY <1>1, FS_CardinalityType DEF TypeInv, RowsInv
<1>3. IsFiniteSet(sent') /\ Cardinality(sent') = Cardinality(sent) + 1
  BY <1>1, <1>2, FS_AddElement DEF TypeInv, RowsInv
<1>4. RowsInv'
  <2>1. \A k \in sent : k \in Message
    BY DEF TypeInv, TypeOK
  <2>2. \A k \in sent' : k.id <= Cardinality(sent') /\ k.index <= last'[k.chat]
    BY <1>1, <1>2, <1>3, <2>1, SMTT(30) DEF TypeInv, TypeOK, RowsInv, Message
  <2>3. nextId' <= Cardinality(sent') + 1
    BY <1>1, <1>2, <1>3 DEF TypeInv, TypeOK, RowsInv
  <2> QED
    BY <1>1, <1>3, <2>2, <2>3 DEF TypeInv, RowsInv
<1>5. TablesInv'
  BY <1>1 DEF Store, TypeInv, TablesInv, idxVars
<1>6. TypeOK'
  BY <1>1 DEF Store, TypeInv, TypeOK, idxVars, jobVars
<1> QED
  BY <1>4, <1>5, <1>6 DEF TypeInv

\* What a failing step leaves is what the tables hold now or held before.
LEMMA TypeRollBack ==
  ASSUME TypeInv, RollBack, UNCHANGED <<master, msgVars, tmp>>,
         pc' \in {"idle", "unmark"}
  PROVE  /\ RowsInv' /\ TablesInv'
         /\ tables' \in Seq(SUBSET Message) /\ index' \in Seq(IndexRow)
         /\ Len(tables') \in {Len(index'), Len(index') + 1}
         /\ chatIndex' \subseteq ChatRow /\ backup' \subseteq Message
         /\ saved' = <<>>
<1>1. CASE saved = <<>>
  <2>1. UNCHANGED <<tables, index, chatIndex, backup, saved>>
    BY <1>1 DEF RollBack, idxVars
  <2>2. RowsInv' /\ TablesInv'
    BY <1>1, <2>1 DEF TypeInv, RowsInv, TablesInv, msgVars
  <2> QED
    BY <1>1, <2>1, <2>2 DEF TypeInv, TypeOK
<1>2. CASE saved # <<>>
  <2>1. saved[1] \in Snapshot
    BY <1>2 DEF TypeInv, TypeOK
  <2>2. /\ tables' = saved[1].tables /\ index' = saved[1].index
        /\ chatIndex' = saved[1].chatIndex /\ backup' = saved[1].backup
        /\ saved' = <<>>
    BY <1>2 DEF RollBack
  <2>3. RowsInv' /\ TablesInv'
    BY <1>2, <2>2 DEF TypeInv, RowsInv, TablesInv, msgVars
  <2>4. Len(tables') = Len(index') + 1
    BY <1>2, <2>2 DEF TypeInv, TablesInv
  <2> QED
    BY <2>1, <2>2, <2>3, <2>4 DEF Snapshot
<1> QED
  BY <1>1, <1>2, Zenon

LEMMA TypeGiveUp ==
  ASSUME TypeInv, GiveUp, faults' \in 0 .. MaxFaults PROVE TypeInv'
<1>1. RollBack /\ UNCHANGED <<master, msgVars, tmp>> /\ pc' \in {"idle", "unmark"}
  BY DEF GiveUp
<1>2. /\ RowsInv' /\ TablesInv'
      /\ tables' \in Seq(SUBSET Message) /\ index' \in Seq(IndexRow)
      /\ Len(tables') \in {Len(index'), Len(index') + 1}
      /\ chatIndex' \subseteq ChatRow /\ backup' \subseteq Message
      /\ saved' = <<>>
  BY <1>1, TypeRollBack, Zenon
<1>3. saved' \in Seq(Snapshot) /\ Len(saved') <= 1
  BY <1>2
<1>4. TypeOK'
  BY <1>2, <1>3 DEF GiveUp, TypeInv, TypeOK, Steps, msgVars, jobVars
<1> QED
  BY <1>2, <1>4 DEF TypeInv

LEMMA TypeCreateTable == ASSUME TypeInv, CreateTable PROVE TypeInv'
<1>1. end' \in Nat /\ at' \in Nat
  <2>1. index # <<>> => index[Len(index)] \in IndexRow
    BY DEF TypeInv, TypeOK
  <2>2. index # <<>> => index[Len(index)].end \in Nat
    BY <2>1 DEF IndexRow
  <2>3. end' = (IF index = <<>> THEN 0 ELSE index[Len(index)].end) /\ at' = end' + 1
    BY DEF CreateTable, LastEnd
  <2> QED
    BY <2>2, <2>3
<1>2. CASE Len(tables) = Len(index) /\ tables' = Append(tables, {}) /\ UNCHANGED saved
  <2>1. /\ tables' \in Seq(SUBSET Message) /\ Len(tables') = Len(index) + 1
        /\ \A n \in DOMAIN tables' : tables'[n] \subseteq sent
    BY <1>2, SMTT(30) DEF TypeInv, TypeOK, RowsInv
  <2>2. TypeOK'
    BY <1>1, <1>2, <2>1 DEF CreateTable, TypeInv, TypeOK, Steps, msgVars, idxVars
  <2> QED
    BY <1>2, <2>1, <2>2
       DEF CreateTable, TypeInv, TypeOK, RowsInv, TablesInv, msgVars, idxVars
<1>3. CASE Len(tables) > Len(index) /\ UNCHANGED <<tables, saved>>
  BY <1>1, <1>3, SMTT(30)
     DEF CreateTable, TypeInv, TypeOK, RowsInv, TablesInv, Steps, msgVars, idxVars
<1>4. CASE /\ Len(tables) > Len(index) /\ UNCHANGED tables
           /\ saved' = <<[tables |-> tables, index |-> index,
                          chatIndex |-> chatIndex, backup |-> backup]>>
  <2>1. saved' \in Seq(Snapshot) /\ Len(saved') = 1
        /\ saved'[1].tables = tables /\ saved'[1].index = index
    BY <1>4 DEF TypeInv, TypeOK, Snapshot
  <2>2. TypeOK'
    BY <1>1, <1>4, <2>1 DEF CreateTable, TypeInv, TypeOK, Steps, msgVars, idxVars
  <2> QED
    BY <1>4, <2>1, <2>2, SMTT(30)
       DEF CreateTable, TypeInv, TypeOK, RowsInv, TablesInv, msgVars, idxVars
<1> QED
  BY <1>2, <1>3, <1>4 DEF CreateTable

LEMMA TypeCopyBatch == ASSUME TypeInv, CopyBatch PROVE TypeInv'
<1>1. at + BatchSize \in Nat /\ faults \in 0 .. MaxFaults
  BY PartitionAssumption DEF TypeInv, TypeOK
<1>2. CASE GiveUp
  BY <1>1, <1>2, TypeGiveUp DEF CopyBatch
<1>3. ASSUME NEW batch, batch \subseteq master, pc = "copy",
             tables' = [tables EXCEPT ![New] = @ \cup batch],
             at' = at + BatchSize, pc' \in {"index", "copy"},
             UNCHANGED <<master, msgVars, idxVars, saved, tmp, old, cache, mark,
                         end, total, hidden, faults>>
      PROVE  TypeInv'
  <2>1. New \in DOMAIN tables /\ tables \in Seq(SUBSET Message)
    BY <1>3 DEF New, TypeInv, TypeOK, TablesInv
  <2>2. batch \subseteq Message /\ batch \subseteq sent
    BY <1>3 DEF TypeInv, TypeOK, RowsInv
  <2>3. tables' \in Seq(SUBSET Message) /\ Len(tables') = Len(tables)
        /\ \A n \in DOMAIN tables' : tables'[n] \subseteq sent
    BY <1>3, <2>1, <2>2 DEF TypeInv, RowsInv
  <2>4. TypeOK'
    BY <1>1, <1>3, <2>3 DEF TypeInv, TypeOK, Steps, msgVars, idxVars
  <2>5. RowsInv' /\ TablesInv'
    BY <1>3, <2>3 DEF TypeInv, RowsInv, TablesInv, msgVars, idxVars
  <2> QED
    BY <2>4, <2>5 DEF TypeInv
<1> DEFINE to == IF at + BatchSize - 1 > LastId THEN LastId ELSE at + BatchSize - 1
           batch == {m \in master : m.id \in at .. to}
<1>4. batch \subseteq master
  OBVIOUS
<1>5. CASE /\ tables' = [tables EXCEPT ![New] = @ \cup batch]
           /\ at' = at + BatchSize
           /\ pc' = IF at' > LastId THEN "index" ELSE "copy"
           /\ UNCHANGED <<master, msgVars, idxVars, saved, tmp, old, cache, mark,
                          end, total, hidden>>
  <2>1. pc = "copy" /\ UNCHANGED faults /\ pc' \in {"index", "copy"}
    BY <1>5 DEF CopyBatch
  <2> QED
    BY <1>3, <1>4, <1>5, <2>1
<1> QED
  BY <1>2, <1>5 DEF CopyBatch

\* The ids of rows are bounded by the number of messages stored.
LEMMA RowsOfSent ==
  ASSUME TypeInv, NEW S, S \subseteq sent
  PROVE  /\ IsFiniteSet(S) /\ Cardinality(S) \in Nat /\ Cardinality(sent) \in Nat
         /\ Ids(S) \subseteq 0 .. Cardinality(sent)
<1>1. IsFiniteSet(S) /\ Cardinality(S) \in Nat /\ Cardinality(sent) \in Nat
  BY FS_Subset, FS_CardinalityType DEF TypeInv, RowsInv
<1>2. \A m \in S : m.id \in 0 .. Cardinality(sent)
  BY <1>1 DEF TypeInv, TypeOK, RowsInv, Message
<1> QED
  BY <1>1, <1>2 DEF Ids

LEMMA TypeEnterTable == ASSUME TypeInv, EnterTable PROVE TypeInv'
<1> DEFINE ids == Ids(tables[New])
<1>1. New \in DOMAIN tables /\ Len(tables) = Len(index) + 1 /\ ids # {}
  BY DEF EnterTable, New, TypeInv, TypeOK, TablesInv
<1>2. ids \subseteq 0 .. Cardinality(sent) /\ Cardinality(sent) \in Nat
  BY <1>1, RowsOfSent DEF TypeInv, RowsInv
<1>3. index' = Append(index, [start |-> Min(ids), end |-> Max(ids)])
  BY DEF EnterTable
<1> HIDE DEF ids
<1>4. Min(ids) \in Nat /\ Max(ids) \in Nat
  <2>1. ids \subseteq Nat
    BY <1>2
  <2>2. Min(ids) \in ids /\ Max(ids) \in ids
    BY <1>1, <1>2, <2>1, HasLeast, HasGreatest
  <2> QED
    BY <2>1, <2>2
<1>5. index' \in Seq(IndexRow) /\ Len(index') = Len(index) + 1
  BY <1>3, <1>4 DEF IndexRow, TypeInv, TypeOK
<1>6. TypeOK'
  BY <1>1, <1>5 DEF EnterTable, TypeInv, TypeOK, Steps, msgVars, jobVars
<1> QED
  BY <1>1, <1>5, <1>6, SMTT(30)
     DEF EnterTable, TypeInv, TypeOK, RowsInv, TablesInv, msgVars, jobVars

LEMMA TypeEnterChats == ASSUME TypeInv, EnterChats PROVE TypeInv'
<1>1. New \in DOMAIN tables /\ New \in Nat
  BY DEF EnterChats, New, TypeInv, TypeOK, TablesInv
<1>2. ASSUME NEW m \in tables[New] PROVE ChatStats(New, m.chat) \in ChatRow
  <2> DEFINE c       == m.chat
             rows    == {x \in tables[New] : x.chat = c}
             indexes == {x.index : x \in rows}
  <2>1. rows \subseteq sent /\ m \in rows
    BY <1>1 DEF TypeInv, RowsInv
  <2>2. c \in Chats /\ last[c] \in Nat
    BY <2>1 DEF TypeInv, TypeOK, Message
  <2>3. \A x \in rows : x.index \in 0 .. last[c]
    BY <2>1 DEF TypeInv, TypeOK, RowsInv, Message
  <2>4. indexes \subseteq 0 .. last[c] /\ m.index \in indexes
    BY <2>1, <2>3
  <2>5. /\ Cardinality(rows) \in Nat /\ Cardinality(sent) \in Nat
        /\ Ids(rows) \subseteq 0 .. Cardinality(sent)
    BY <2>1, RowsOfSent
  <2>6. m.id \in Ids(rows)
    BY <2>1 DEF Ids
  <2>7. ChatStats(New, c) =
          [gid |-> c, table |-> New, start |-> Min(Ids(rows)), end |-> Max(Ids(rows)),
           startIndex |-> Min(indexes), endIndex |-> Max(indexes),
           count |-> Cardinality(rows)]
    BY DEF ChatStats
  <2> HIDE DEF c, rows, indexes
  <2>8. Min(Ids(rows)) \in Nat /\ Max(Ids(rows)) \in Nat
    <3>1. Ids(rows) \subseteq Nat
      BY <2>5
    <3>2. Min(Ids(rows)) \in Ids(rows) /\ Max(Ids(rows)) \in Ids(rows)
      BY <2>5, <2>6, <3>1, HasLeast, HasGreatest
    <3> QED
      BY <3>1, <3>2
  <2>9. Min(indexes) \in Nat /\ Max(indexes) \in Nat
    <3>1. indexes \subseteq Nat
      BY <2>4
    <3>2. Min(indexes) \in indexes /\ Max(indexes) \in indexes
      BY <2>2, <2>4, <3>1, HasLeast, HasGreatest
    <3> QED
      BY <3>1, <3>2
  <2>10. ChatStats(New, c) \in ChatRow
    BY <1>1, <2>2, <2>5, <2>7, <2>8, <2>9 DEF ChatRow
  <2> QED
    BY <2>10 DEF c
<1>3. chatIndex' \subseteq ChatRow
  BY <1>2 DEF EnterChats, TypeInv, TypeOK
<1>4. TypeOK'
  BY <1>3 DEF EnterChats, TypeInv, TypeOK, Steps, msgVars, jobVars
<1> QED
  BY <1>4, TypeFrame DEF EnterChats

LEMMA TypeSwap == ASSUME TypeInv, Swap PROVE TypeInv'
<1> DEFINE ids == Ids(tmp) \cup {0}
<1>1. ids \subseteq 0 .. Cardinality(sent) /\ Cardinality(sent) \in Nat
  BY RowsOfSent DEF TypeInv, RowsInv
<1>2. nextId' = Max(ids) + 1 /\ Max(ids) \in ids
  BY <1>1, HasGreatest DEF Swap
<1>3. nextId' \in Nat \ {0} /\ nextId' <= Cardinality(sent) + 1
  BY <1>1, <1>2
<1>4. TypeOK'
  BY <1>3 DEF Swap, TypeInv, TypeOK, Steps, idxVars, jobVars
<1> QED
  BY <1>3, <1>4 DEF Swap, TypeInv, RowsInv, TablesInv, idxVars, jobVars

LEMMA TypeCountKept == ASSUME TypeInv, CountKept PROVE TypeInv'
<1>1. total' \in Nat /\ at' = 0
  BY RowsOfSent DEF CountKept, TypeInv, RowsInv
<1>2. TypeOK'
  BY <1>1 DEF CountKept, TypeInv, TypeOK, Steps, msgVars, idxVars
<1> QED
  BY <1>2, TypeFrame DEF CountKept, idxVars

LEMMA TypeKeepBatch == ASSUME TypeInv, KeepBatch PROVE TypeInv'
<1>1. at' \in Nat
  BY PartitionAssumption DEF KeepBatch, TypeInv, TypeOK
<1>2. tmp' \subseteq tmp \cup master
  BY DEF KeepBatch
<1>3. TypeOK'
  BY <1>1, <1>2 DEF KeepBatch, TypeInv, TypeOK, Steps, msgVars, idxVars
<1> QED
  BY <1>2, <1>3 DEF KeepBatch, TypeInv, RowsInv, TablesInv, msgVars, idxVars

LEMMA TypeCreateTmp == ASSUME TypeInv, CreateTmp PROVE TypeInv'
<1>1. TypeOK'
  BY DEF CreateTmp, TypeInv, TypeOK, Steps, msgVars, idxVars, jobVars
<1> QED
  BY <1>1 DEF CreateTmp, TypeInv, RowsInv, TablesInv, msgVars, idxVars, jobVars

\* The steps that change nothing but the backup, old, the cache and the mark.
LEMMA TypeOthers ==
  ASSUME TypeInv, Midnight \/ Check \/ BackUp \/ DropOld \/ Reload \/ Unmark
  PROVE  TypeInv'
<1>1. CASE Midnight
  <2>1. TypeOK'
    BY <1>1 DEF Midnight, TypeInv, TypeOK, Steps, msgVars, idxVars, jobVars
  <2> QED
    BY <1>1, <2>1, TypeFrame DEF Midnight, idxVars
<1>2. CASE Check
  <2>1. TypeOK'
    BY <1>2 DEF Check, TypeInv, TypeOK, Steps, msgVars, idxVars, jobVars
  <2> QED
    BY <1>2, <2>1, TypeFrame DEF Check, idxVars
<1>3. CASE BackUp
  <2>1. TypeOK'
    BY <1>3 DEF BackUp, TypeInv, TypeOK, Steps, msgVars, idxVars, jobVars
  <2> QED
    BY <1>3, <2>1, TypeFrame DEF BackUp
<1>4. CASE DropOld
  <2>1. TypeOK'
    BY <1>4 DEF DropOld, TypeInv, TypeOK, Steps, msgVars, idxVars, jobVars
  <2> QED
    BY <1>4, <2>1, TypeFrame DEF DropOld, idxVars
<1>5. CASE Reload
  <2>1. TypeOK'
    BY <1>5 DEF Reload, TypeInv, TypeOK, Steps, msgVars, idxVars, jobVars
  <2> QED
    BY <1>5, <2>1, TypeFrame DEF Reload, idxVars
<1>6. CASE Unmark
  <2>1. TypeOK'
    BY <1>6 DEF Unmark, TypeInv, TypeOK, Steps, msgVars, idxVars, jobVars
  <2> QED
    BY <1>6, <2>1, TypeFrame DEF Unmark, idxVars
<1> QED
  BY <1>1, <1>2, <1>3, <1>4, <1>5, <1>6

LEMMA TypeMidnightFails == ASSUME TypeInv, MidnightFails PROVE TypeInv'
<1>1. faults' \in 0 .. MaxFaults
  BY PartitionAssumption DEF MidnightFails, TypeInv, TypeOK
<1>2. TypeOK'
  BY <1>1 DEF MidnightFails, TypeInv, TypeOK, Steps, msgVars, idxVars, jobVars
<1> QED
  BY <1>2, TypeFrame DEF MidnightFails, idxVars

LEMMA TypeFail == ASSUME TypeInv, Fail PROVE TypeInv'
<1>1. faults' \in 0 .. MaxFaults
  BY PartitionAssumption DEF Fail, TypeInv, TypeOK
<1>2. CASE pc \notin {"reload", "unmark"} /\ GiveUp
  BY <1>1, <1>2, TypeGiveUp
<1>3. CASE /\ pc' = (IF pc = "reload" THEN "check" ELSE "idle")
           /\ UNCHANGED <<master, msgVars, tables, idxVars, saved, tmp, old, cache,
                          mark, jobVars, hidden>>
  <2>1. TypeOK'
    BY <1>1, <1>3 DEF TypeInv, TypeOK, Steps, msgVars, idxVars, jobVars
  <2> QED
    BY <1>3, <2>1, TypeFrame DEF idxVars
<1> QED
  BY <1>2, <1>3 DEF Fail

LEMMA TypeCrash == ASSUME TypeInv, Crash PROVE TypeInv'
<1>1. /\ RowsInv' /\ TablesInv'
      /\ tables' \in Seq(SUBSET Message) /\ index' \in Seq(IndexRow)
      /\ Len(tables') \in {Len(index'), Len(index') + 1}
      /\ chatIndex' \subseteq ChatRow /\ backup' \subseteq Message
      /\ saved' = <<>>
  BY TypeRollBack, Zenon DEF Crash
<1>2. saved' \in Seq(Snapshot) /\ Len(saved') <= 1 /\ faults' \in 0 .. MaxFaults
  BY <1>1, PartitionAssumption DEF Crash, TypeInv, TypeOK
<1>3. TypeOK'
  BY <1>1, <1>2 DEF Crash, TypeInv, TypeOK, Steps, msgVars, jobVars
<1> QED
  BY <1>1, <1>3 DEF TypeInv

LEMMA TypeNext == TypeInv /\ [Next]_vars => TypeInv'
<1> SUFFICES ASSUME TypeInv, [Next]_vars PROVE TypeInv'
  OBVIOUS
<1>1. CASE UNCHANGED vars
  BY <1>1 DEF vars, TypeInv, TypeOK, RowsInv, TablesInv, msgVars, idxVars, jobVars
<1>2. CASE Job
  BY <1>2, TypeOthers, TypeCreateTable, TypeCopyBatch, TypeEnterTable,
     TypeEnterChats, TypeCreateTmp, TypeCountKept, TypeKeepBatch, TypeSwap DEF Job
<1> QED
  BY <1>1, <1>2, TypeStore, TypeMidnightFails, TypeFail, TypeCrash DEF Next

(***************************************************************************)
(* Where messages are                                                      *)
(***************************************************************************)

\* Message m is in a table that index idx names.
In(m, idx, tabs) == \E n \in DOMAIN idx : m \in tabs[n]

\* What holds of the tables tabs and their index idx between partitions, and
\* what a rollback has to bring back, when im_message has these rows and next
\* is its next id: the index ends before it, and what must not be lost, or has
\* an id that the index covers, is in a table it names. A table that it does
\* not name yet only doubles rows of im_message.
Sound(idx, tabs, rows, next, must) ==
  /\ LastEnd(idx) < next
  /\ \A n \in DOMAIN idx : idx[n].end <= LastEnd(idx)
  /\ \A n \in DOMAIN idx : \A m \in tabs[n] : m.id <= LastEnd(idx)
  /\ \A n \in DOMAIN tabs \ DOMAIN idx : \A m \in tabs[n] :
       m \in rows /\ m.id \in LastEnd(idx) + 1 .. LastEnd(idx) + PerTable
  /\ \A m \in must : m \in rows \/ In(m, idx, tabs)
  /\ \A m \in rows : m.id <= LastEnd(idx) => In(m, idx, tabs)
  /\ \A m, k \in rows \cup UNION {tabs[n] : n \in DOMAIN tabs} :
       m.id = k.id => m = k

SoundNow   == Sound(index, tables, master, nextId, sent \ late)
SoundSaved ==
  saved # <<>> =>
    Sound(saved[1].index, saved[1].tables, master, nextId, sent \ late)

\* A transaction is open only from the copy to CREATE TABLE, and what it would
\* go back to is sound.
SavedInv ==
  /\ SoundSaved
  /\ pc \notin {"copy", "index", "chats", "backup", "tmp"} => saved = <<>>

\* What the steps up to the index have done: the ids are copied up to at, and
\* there is a message behind the last id to move.
CopyInv ==
  /\ pc = "create" => \E m \in master : m.id > LastEnd(index) + PerTable
  /\ pc \in {"copy", "index", "chats", "backup", "tmp", "count"} =>
       \E m \in master : Kept(m)
  /\ pc \in {"copy", "index"} => end = LastEnd(index)
  /\ pc = "copy" => end < at
  /\ pc = "copy" => \A m \in master : Moved(m) /\ m.id < at => m \in tables[New]
  /\ pc = "index" => \A m \in master : Moved(m) => m \in tables[New]

\* From then on every message of im_message that is not kept is in a table.
IndexedInv ==
  pc \in {"chats", "backup", "tmp", "count", "keep", "swap"} =>
    /\ LastEnd(index) <= LastId /\ Len(tables) = Len(index)
    /\ \A m \in master : ~Kept(m) => In(m, index, tables)

\* Message m is among those that were counted, and in tmp if at has passed it.
Reached(m) == Kept(m) /\ Rank(m) <= total /\ (Rank(m) <= at => m \in tmp)

\* How far tmp has come: late messages are behind all others.
KeepInv ==
  /\ pc = "count" => tmp = {}
  /\ pc \in {"keep", "swap"} => \A m \in tmp : m \in master /\ Kept(m)
  /\ pc = "keep" =>
       /\ \A m \in master \ late : Kept(m) => Reached(m)
       /\ \E m \in master : Reached(m)
  /\ pc = "swap" => tmp # {} /\ \A m \in master \ late : Kept(m) => m \in tmp
  /\ pc \in {"drop", "reload"} =>
       /\ LastEnd(index) <= LastId /\ LastId < nextId
       /\ \A m \in master : Kept(m)

MasterInv == \A m \in master : m.id < nextId

Inv == /\ TypeInv /\ MasterInv /\ SoundNow /\ SavedInv
       /\ CopyInv /\ IndexedInv /\ KeepInv

(***************************************************************************)
(* The tables and their index                                              *)
(***************************************************************************)

\* An index of natural numbers ends in one.
LEMMA LastEndType ==
  ASSUME NEW idx \in Seq(IndexRow) PROVE LastEnd(idx) \in Nat
<1>1. idx # <<>> => idx[Len(idx)] \in IndexRow
  OBVIOUS
<1>2. idx # <<>> => idx[Len(idx)].end \in Nat
  BY <1>1 DEF IndexRow
<1> QED
  BY <1>2 DEF LastEnd

\* A new message does not disturb the tables.
LEMMA SoundStore ==
  ASSUME NEW idx \in Seq(IndexRow), NEW tabs \in Seq(SUBSET Message),
         Len(idx) <= Len(tabs), NEW rows \in SUBSET Message, NEW next \in Nat,
         NEW must, NEW m \in Message, m.id = next, \A k \in rows : k.id < next,
         Sound(idx, tabs, rows, next, must), NEW must2, must2 \subseteq must \cup {m}
  PROVE  Sound(idx, tabs, rows \cup {m}, next + 1, must2)
<1>1. LastEnd(idx) \in Nat /\ DOMAIN idx = 1 .. Len(idx) /\ DOMAIN tabs = 1 .. Len(tabs)
  BY LastEndType
<1>2. \A k \in rows \cup UNION {tabs[n] : n \in DOMAIN tabs} : k.id \in Nat /\ k.id < next
  <2>1. ASSUME NEW n \in DOMAIN tabs, NEW k \in tabs[n] PROVE k.id \in Nat /\ k.id < next
    <3>1. k \in Message /\ k.id \in Nat
      BY <2>1 DEF Message
    <3>2. CASE n \in DOMAIN idx
      BY <1>1, <3>1, <3>2 DEF Sound
    <3>3. CASE n \notin DOMAIN idx
      BY <1>1, <3>1, <3>3 DEF Sound
    <3> QED
      BY <3>2, <3>3
  <2>2. \A k \in rows : k.id \in Nat /\ k.id < next
    BY DEF Message
  <2> QED
    BY <2>1, <2>2
<1>3. \A k, l \in rows \cup {m} \cup UNION {tabs[n] : n \in DOMAIN tabs} :
        k.id = l.id => k = l
  <2>1. \A k, l \in rows \cup UNION {tabs[n] : n \in DOMAIN tabs} : k.id = l.id => k = l
    BY DEF Sound
  <2>2. \A k \in rows \cup UNION {tabs[n] : n \in DOMAIN tabs} : k.id # m.id
    BY <1>2
  <2> QED
    BY <2>1, <2>2
<1>4. \A k \in rows \cup {m} : k.id <= LastEnd(idx) => In(k, idx, tabs)
  BY <1>1 DEF Sound
<1>5. LastEnd(idx) < next + 1
  BY <1>1 DEF Sound
<1>6. \A k \in must2 : k \in rows \cup {m} \/ In(k, idx, tabs)
  BY DEF Sound
<1> QED
  BY <1>3, <1>4, <1>5, <1>6 DEF Sound

\* Nor does an empty table behind those of the index,
LEMMA SoundCreate ==
  ASSUME NEW idx \in Seq(IndexRow), NEW tabs \in Seq(SUBSET Message),
         Len(idx) = Len(tabs), NEW rows, NEW next, NEW must,
         Sound(idx, tabs, rows, next, must)
  PROVE  Sound(idx, Append(tabs, {}), rows, next, must)
<1> DEFINE tabs2 == Append(tabs, {})
<1>1. /\ DOMAIN idx = 1 .. Len(idx) /\ DOMAIN tabs2 = 1 .. Len(tabs) + 1
      /\ DOMAIN tabs = 1 .. Len(tabs)
      /\ \A n \in DOMAIN tabs : tabs2[n] = tabs[n]
      /\ tabs2[Len(tabs) + 1] = {}
  OBVIOUS
<1> HIDE DEF tabs2
<1>2. \A m : In(m, idx, tabs) => In(m, idx, tabs2)
  BY <1>1 DEF In
<1>3. UNION {tabs2[n] : n \in DOMAIN tabs2} \subseteq UNION {tabs[n] : n \in DOMAIN tabs}
  <2>1. \A n \in DOMAIN tabs2 : \A m \in tabs2[n] : n \in DOMAIN tabs /\ m \in tabs[n]
    BY <1>1
  <2> QED
    BY <2>1
<1>4. \A n \in DOMAIN tabs2 \ DOMAIN idx : tabs2[n] = {}
  BY <1>1
<1>5. Sound(idx, tabs2, rows, next, must)
  BY <1>1, <1>2, <1>3, <1>4 DEF Sound
<1> QED
  BY <1>5 DEF tabs2

\* or a copy to it of rows that belong there.
LEMMA SoundCopy ==
  ASSUME NEW idx \in Seq(IndexRow), NEW tabs \in Seq(SUBSET Message),
         Len(tabs) = Len(idx) + 1, NEW rows, NEW next, NEW must,
         NEW batch \in SUBSET rows, batch \subseteq Message,
         \A m \in batch : m.id \in LastEnd(idx) + 1 .. LastEnd(idx) + PerTable,
         Sound(idx, tabs, rows, next, must)
  PROVE  Sound(idx, [tabs EXCEPT ![Len(tabs)] = @ \cup batch], rows, next, must)
<1> DEFINE tabs2 == [tabs EXCEPT ![Len(tabs)] = @ \cup batch]
<1>1. /\ DOMAIN idx = 1 .. Len(idx) /\ DOMAIN tabs2 = 1 .. Len(idx) + 1
      /\ DOMAIN tabs = 1 .. Len(idx) + 1
      /\ \A n \in DOMAIN idx : tabs2[n] = tabs[n]
      /\ tabs2[Len(tabs)] = tabs[Len(tabs)] \cup batch
  OBVIOUS
<1> HIDE DEF tabs2
<1>2. \A m : In(m, idx, tabs) => In(m, idx, tabs2)
  BY <1>1 DEF In
<1>3. \A n \in DOMAIN tabs2 \ DOMAIN idx : n = Len(tabs)
  BY <1>1
<1>4. rows \cup UNION {tabs2[n] : n \in DOMAIN tabs2}
        \subseteq rows \cup UNION {tabs[n] : n \in DOMAIN tabs}
  <2>1. \A n \in DOMAIN tabs2 : \A m \in tabs2[n] : m \in rows \/ m \in tabs[n]
    BY <1>1, <1>3
  <2> QED
    BY <1>1, <2>1
<1>5. \A n \in DOMAIN tabs2 \ DOMAIN idx : \A m \in tabs2[n] :
        m \in rows /\ m.id \in LastEnd(idx) + 1 .. LastEnd(idx) + PerTable
  BY <1>1, <1>3 DEF Sound
<1>6. Sound(idx, tabs2, rows, next, must)
  BY <1>1, <1>2, <1>4, <1>5 DEF Sound
<1> QED
  BY <1>6 DEF tabs2

\* Entering a table in the index keeps them sound when all rows of im_message
\* that belong in it are there and other rows are behind them.
LEMMA SoundEnter ==
  ASSUME NEW idx \in Seq(IndexRow), NEW tabs \in Seq(SUBSET Message),
         Len(tabs) = Len(idx) + 1, NEW rows \in SUBSET Message, NEW next \in Nat,
         NEW must, NEW row \in IndexRow, NEW k \in tabs[Len(tabs)], row.end = k.id,
         \A m \in tabs[Len(tabs)] : m.id <= row.end,
         \A m \in rows : m.id \in LastEnd(idx) + 1 .. LastEnd(idx) + PerTable
           => m \in tabs[Len(tabs)],
         LastEnd(idx) + PerTable < next,
         Sound(idx, tabs, rows, next, must)
  PROVE  /\ LastEnd(Append(idx, row)) <= LastEnd(idx) + PerTable
         /\ \A m \in rows : m.id <= LastEnd(idx) + PerTable
              => In(m, Append(idx, row), tabs)
         /\ Sound(Append(idx, row), tabs, rows, next, must)
<1> DEFINE idx2 == Append(idx, row)
<1>1. /\ DOMAIN idx = 1 .. Len(idx) /\ DOMAIN idx2 = 1 .. Len(tabs)
      /\ DOMAIN tabs = 1 .. Len(tabs) /\ Len(tabs) \in Nat \ {0}
      /\ \A n \in DOMAIN idx : idx2[n] = idx[n]
      /\ idx2[Len(tabs)] = row /\ Len(idx2) = Len(tabs) /\ idx2 # <<>>
  OBVIOUS
<1>2. LastEnd(idx) \in Nat /\ LastEnd(idx2) = row.end /\ PerTable \in Nat
  BY <1>1, LastEndType, PartitionAssumption DEF LastEnd
<1> HIDE DEF idx2
<1>3. row.end \in LastEnd(idx) + 1 .. LastEnd(idx) + PerTable
  BY <1>1 DEF Sound
<1>4. \A m : In(m, idx, tabs) \/ m \in tabs[Len(tabs)] => In(m, idx2, tabs)
  BY <1>1 DEF In
<1>5. \A m \in rows : m.id <= LastEnd(idx) + PerTable => In(m, idx2, tabs)
  <2>1. \A m \in rows : m.id \in Nat
    BY DEF Message
  <2>2. \A m \in rows : m.id <= LastEnd(idx) => In(m, idx, tabs)
    BY DEF Sound
  <2> QED
    BY <1>2, <1>4, <2>1, <2>2
<1>6. LastEnd(idx2) < next
  BY <1>2, <1>3
<1>7. ASSUME NEW n \in DOMAIN idx2
      PROVE  idx2[n].end <= LastEnd(idx2) /\ \A m \in tabs[n] : m.id <= LastEnd(idx2)
  <2>1. CASE n \in DOMAIN idx
    <3>1. idx2[n] = idx[n] /\ idx[n].end \in Nat
      <4>1. idx[n] \in IndexRow
        BY <2>1
      <4> QED
        BY <1>1, <2>1, <4>1 DEF IndexRow
    <3>2. idx[n].end <= LastEnd(idx) /\ \A m \in tabs[n] : m.id <= LastEnd(idx)
      BY <2>1 DEF Sound
    <3>3. \A m \in tabs[n] : m.id \in Nat
      BY <1>1, <2>1 DEF Message
    <3> QED
      BY <1>2, <1>3, <3>1, <3>2, <3>3, SMTT(30)
  <2>2. CASE n = Len(tabs)
    BY <1>1, <1>2, <1>3, <2>2
  <2> QED
    BY <1>1, <2>1, <2>2
<1>8. \A m \in rows : m.id <= LastEnd(idx2) => In(m, idx2, tabs)
  BY <1>2, <1>3, <1>5 DEF Message
<1>9. Sound(idx2, tabs, rows, next, must)
  BY <1>1, <1>4, <1>6, <1>7, <1>8 DEF Sound
<1> QED
  BY <1>2, <1>3, <1>5, <1>9 DEF idx2

\* What replaces im_message may leave out what the tables hold.
LEMMA SoundSwap ==
  ASSUME NEW idx \in Seq(IndexRow), NEW tabs \in Seq(SUBSET Message),
         Len(tabs) = Len(idx), NEW rows, NEW next, NEW must,
         NEW rows2 \in SUBSET rows, NEW next2, LastEnd(idx) < next2,
         \A m \in must : m \in rows => m \in rows2 \/ In(m, idx, tabs),
         Sound(idx, tabs, rows, next, must)
  PROVE  Sound(idx, tabs, rows2, next2, must)
<1>1. DOMAIN tabs \ DOMAIN idx = {}
  OBVIOUS
<1> QED
  BY <1>1 DEF Sound

(***************************************************************************)
(* The steps                                                               *)
(***************************************************************************)

\* What the types say of the tables, in the form the lemmas above ask for.
LEMMA TableTypes ==
  ASSUME TypeInv
  PROVE  /\ index \in Seq(IndexRow) /\ tables \in Seq(SUBSET Message)
         /\ Len(index) <= Len(tables) /\ LastEnd(index) \in Nat
         /\ master \in SUBSET Message /\ nextId \in Nat
         /\ PerTable \in Nat \ {0} /\ BatchSize \in Nat \ {0}
         /\ end \in Nat /\ LastId = end + PerTable /\ LastId \in Nat
         /\ \A m \in master : m.id \in Nat
         /\ saved # <<>> => /\ saved[1].index \in Seq(IndexRow)
                           /\ saved[1].tables \in Seq(SUBSET Message)
                           /\ Len(saved[1].index) <= Len(saved[1].tables)
<1>1. /\ index \in Seq(IndexRow) /\ tables \in Seq(SUBSET Message)
      /\ Len(index) <= Len(tables)
      /\ master \in SUBSET Message /\ nextId \in Nat /\ end \in Nat
  BY DEF TypeInv, TypeOK
<1>2. \A m \in master : m.id \in Nat
  BY <1>1 DEF Message
<1>3. LastId = end + PerTable /\ LastId \in Nat
  BY <1>1, PartitionAssumption DEF LastId
<1>4. saved # <<>> => saved[1] \in Snapshot
  BY DEF TypeInv, TypeOK
<1>5. saved # <<>> => /\ saved[1].index \in Seq(IndexRow)
                      /\ saved[1].tables \in Seq(SUBSET Message)
  BY <1>4 DEF Snapshot
<1>6. saved # <<>> => Len(saved[1].index) <= Len(saved[1].tables)
  BY <1>5 DEF TypeInv, TablesInv
<1> QED
  BY <1>1, <1>2, <1>3, <1>5, <1>6, LastEndType, PartitionAssumption

LEMMA InvInit == Init => Inv
<1> SUFFICES ASSUME Init PROVE Inv
  OBVIOUS
<1>1. TypeInv
  BY TypeInit
<1>2. SoundNow
  BY DEF Init, SoundNow, Sound, LastEnd, In
<1>3. MasterInv /\ SavedInv /\ CopyInv /\ IndexedInv /\ KeepInv
  BY DEF Init, MasterInv, SavedInv, SoundSaved, CopyInv, IndexedInv, KeepInv
<1> QED
  BY <1>1, <1>2, <1>3 DEF Inv

\* A new message comes behind all that the job looks at.
LEMMA InvStore == ASSUME Inv, NEW c \in Chats, Store(c) PROVE Inv'
<1> DEFINE m == [id |-> nextId, chat |-> c, index |-> last[c] + 1]
<1>1. TypeInv /\ TypeInv'
  BY TypeStore DEF Inv
<1>2. m \in Message /\ m.id = nextId /\ m \notin sent /\ m \notin master
  <2>1. m \in Message /\ last[c] \in Nat /\ m.chat = c /\ m.index = last[c] + 1
    BY <1>1, SMTT(30) DEF TypeInv, TypeOK, Message
  <2>2. m \notin sent /\ master \subseteq sent
    BY <1>1, <2>1 DEF TypeInv, RowsInv
  <2> QED
    BY <2>1, <2>2
<1>3. /\ master' = master \cup {m} /\ nextId' = nextId + 1 /\ sent' = sent \cup {m}
      /\ late' = (IF pc \in {"keep", "swap"} THEN late \cup {m} ELSE late)
      /\ UNCHANGED <<tables, index, saved, tmp, pc, end, at, total>>
  BY DEF Store, idxVars, jobVars
<1> HIDE DEF m
<1>4. \A k \in master : k.id \in Nat /\ k.id < nextId
  BY <1>1, TableTypes DEF Inv, MasterInv
<1>5. MasterInv'
  BY <1>1, <1>2, <1>3, <1>4, TableTypes DEF MasterInv
<1>6. sent' \ late' \subseteq (sent \ late) \cup {m}
  BY <1>3
<1>7. SoundNow'
  BY <1>1, <1>2, <1>3, <1>4, <1>6, SoundStore, TableTypes DEF Inv, SoundNow
<1>8. SavedInv'
  BY <1>1, <1>2, <1>3, <1>4, <1>6, SoundStore, TableTypes DEF Inv, SavedInv, SoundSaved
<1>9. (\E k \in master : Kept(k)) => nextId > LastId /\ Kept(m)
  BY <1>1, <1>2, <1>4, TableTypes DEF Kept
<1>10. LastId' = LastId /\ New' = New /\ LastEnd(index)' = LastEnd(index)
       /\ (\A k : Kept(k)' = Kept(k)) /\ (\A k : Moved(k)' = Moved(k))
  BY <1>3 DEF LastId, New, Kept, Moved
<1>11. \A k : Kept(k) /\ k.id \in Nat => ~Moved(k)
  BY <1>1, TableTypes DEF Kept, Moved
<1>12. CopyInv'
  BY <1>1, <1>2, <1>3, <1>9, <1>10, <1>11, TableTypes DEF Inv, CopyInv
<1>13. pc \in {"keep", "swap"} => \E k \in master : Kept(k)
  BY DEF Inv, KeepInv, Reached
<1>14. IndexedInv'
  BY <1>3, <1>9, <1>10, <1>13 DEF Inv, CopyInv, IndexedInv, In
<1>15. \A k \in master : Rank(k)' = Rank(k) /\ (Reached(k) => Reached(k)')
  <2>1. ASSUME NEW k \in master PROVE Rank(k)' = Rank(k)
    <3>1. {l \in master' : Kept(l)' /\ l.id <= k.id} = {l \in master : Kept(l) /\ l.id <= k.id}
      BY <1>1, <1>2, <1>3, <1>4, <1>10, TableTypes
    <3> QED
      BY <3>1 DEF Rank
  <2> QED
    BY <1>3, <1>10, <2>1 DEF Reached
<1>16. KeepInv'
  <2>1. CASE pc \in {"keep", "swap"}
    <3>1. master' \ late' \subseteq master \ late
      BY <1>3, <2>1
    <3> QED
      BY <1>3, <1>10, <1>15, <2>1, <3>1 DEF Inv, KeepInv
  <2>2. CASE pc \in {"drop", "reload"}
    <3>1. Kept(m)
      BY <1>1, <1>2, <2>2, TableTypes DEF Inv, KeepInv, Kept
    <3> QED
      BY <1>1, <1>3, <1>10, <2>2, <3>1, TableTypes DEF Inv, KeepInv
  <2>3. CASE pc = "count"
    BY <1>3, <2>3 DEF Inv, KeepInv
  <2> QED
    BY <1>3, <2>1, <2>2, <2>3 DEF KeepInv
<1> QED
  BY <1>1, <1>5, <1>7, <1>8, <1>12, <1>14, <1>16 DEF Inv

\* A step that does not touch the tables leaves them sound.
LEMMA SoundFrame ==
  ASSUME Inv, UNCHANGED <<master, nextId, sent, late, tables, index, saved>>
  PROVE  MasterInv' /\ SoundNow' /\ SoundSaved'
  BY DEF Inv, MasterInv, SoundNow, SavedInv, SoundSaved

\* Between two partitions there is nothing else to keep.
LEMMA InvResting ==
  ASSUME Inv, TypeInv', MasterInv', SoundNow', SoundSaved',
         saved' = <<>>, pc' \in {"idle", "check", "unmark"}
  PROVE  Inv'
  BY DEF Inv, SavedInv, CopyInv, IndexedInv, KeepInv

\* A failure puts the tables back to where they were sound.
LEMMA InvRollBack ==
  ASSUME Inv, TypeInv', RollBack, UNCHANGED <<master, nextId, sent, late>>,
         pc' \in {"idle", "unmark"}
  PROVE  Inv'
<1>1. saved' = <<>> /\ SoundSaved'
  BY DEF RollBack, SoundSaved
<1>2. SoundNow' /\ MasterInv'
  <2>1. CASE saved = <<>>
    BY <2>1 DEF RollBack, Inv, SoundNow, MasterInv, idxVars
  <2>2. CASE saved # <<>>
    BY <2>2 DEF RollBack, Inv, SavedInv, SoundNow, SoundSaved, MasterInv
  <2> QED
    BY <2>1, <2>2
<1> QED
  BY <1>1, <1>2, InvResting

LEMMA InvGiveUp == ASSUME Inv, TypeInv', GiveUp PROVE Inv'
  BY InvRollBack DEF GiveUp, msgVars

\* When the job finds that a partition is needed, im_message has a message
\* that stays in it.
LEMMA NeedHasKept ==
  ASSUME Inv, Need PROVE \E m \in master : m.id > LastEnd(index) + PerTable
<1> DEFINE ids == Ids(master) \cup {0}
           ends == {index[n].end : n \in DOMAIN index} \cup {0}
           e == LastEnd(index)
<1>1. TypeInv /\ e \in Nat /\ PerTable \in Nat
  BY TableTypes DEF Inv
<1>2. Max(ends) \in Nat /\ e <= Max(ends)
  <2>1. ASSUME NEW n \in DOMAIN index PROVE index[n].end \in 0 .. e
    <3>1. index[n] \in IndexRow
      BY <1>1 DEF TypeInv, TypeOK
    <3>2. index[n].end \in Nat
      BY <3>1 DEF IndexRow
    <3>3. index[n].end <= e
      BY DEF Inv, SoundNow, Sound
    <3> QED
      BY <1>1, <3>2, <3>3
  <2>2. ends \subseteq 0 .. e
    BY <1>1, <2>1
  <2>3. e \in ends
    <3>1. CASE index = <<>>
      BY <3>1 DEF LastEnd
    <3>2. CASE index # <<>>
      <4>1. Len(index) \in DOMAIN index
        BY <1>1, <3>2 DEF TypeInv, TypeOK
      <4> QED
        BY <3>2, <4>1 DEF LastEnd
    <3> QED
      BY <3>1, <3>2
  <2> HIDE DEF ends, e
  <2>4. Max(ends) \in ends /\ \A y \in ends : y <= Max(ends)
    BY <1>1, <2>2, <2>3, HasGreatest
  <2>5. Max(ends) \in 0 .. e /\ e <= Max(ends)
    BY <2>2, <2>3, <2>4, Zenon
  <2> QED
    BY <1>1, <2>5
<1>3. Max(ids) \in ids
  <2>1. ids \subseteq 0 .. Cardinality(sent) /\ Cardinality(sent) \in Nat
    BY <1>1, RowsOfSent DEF TypeInv, RowsInv
  <2> HIDE DEF ids
  <2>2. ids # {}
    BY DEF ids
  <2> QED
    BY <2>1, <2>2, HasGreatest
<1>4. Max(ids) > Max(ends) + 2 * PerTable
  BY DEF Need
<1> HIDE DEF ids, ends, e
<1>5. Max(ids) \in Nat
  BY <1>1, <1>3, TableTypes DEF ids, Ids
<1>6. Max(ids) > e + PerTable /\ Max(ids) # 0
  BY <1>1, <1>2, <1>4, <1>5
<1>7. PICK m \in master : Max(ids) = m.id
  BY <1>3, <1>6 DEF ids, Ids
<1> QED
  BY <1>6, <1>7 DEF e

LEMMA InvCheck == ASSUME Inv, TypeInv', Check PROVE Inv'
<1>1. MasterInv' /\ SoundNow' /\ SoundSaved' /\ saved' = <<>> /\ UNCHANGED <<master, index>>
  BY SoundFrame DEF Check, Inv, SavedInv, msgVars, idxVars
<1>2. CASE Need
  <2>1. pc' = "create"
    BY <1>2 DEF Check
  <2>2. CopyInv'
    BY <1>1, <1>2, <2>1, NeedHasKept DEF CopyInv
  <2> QED
    BY <1>1, <2>1, <2>2 DEF Inv, SavedInv, IndexedInv, KeepInv
<1>3. CASE ~Need
  BY <1>1, <1>3, InvResting DEF Check
<1> QED
  BY <1>2, <1>3

LEMMA InvCreateTable == ASSUME Inv, TypeInv', CreateTable PROVE Inv'
<1>1. /\ pc = "create" /\ pc' = "copy" /\ saved = <<>> /\ end' = LastEnd(index)
      /\ at' = end' + 1
      /\ UNCHANGED <<master, nextId, sent, late, index>>
  BY DEF CreateTable, Inv, SavedInv, msgVars, idxVars
<1>2. SoundNow' /\ SoundSaved'
  <2>1. CASE Len(tables) = Len(index) /\ tables' = Append(tables, {}) /\ UNCHANGED saved
    <3>1. Sound(index, Append(tables, {}), master, nextId, sent \ late)
      BY <2>1, SoundCreate, TableTypes DEF Inv, SoundNow
    <3> QED
      BY <1>1, <2>1, <3>1 DEF SoundNow, SoundSaved
  <2>2. CASE UNCHANGED <<tables, saved>>
    BY <1>1, <2>2, SoundFrame
  <2>3. CASE /\ UNCHANGED tables
             /\ saved' = <<[tables |-> tables, index |-> index,
                            chatIndex |-> chatIndex, backup |-> backup]>>
    <3>1. saved'[1].tables = tables /\ saved'[1].index = index
      BY <2>3
    <3> QED
      BY <1>1, <2>3, <3>1 DEF Inv, SoundNow, SoundSaved
  <2> QED
    BY <2>1, <2>2, <2>3 DEF CreateTable
<1>3. MasterInv'
  BY <1>1 DEF Inv, MasterInv
<1>4. CopyInv'
  <2>1. LastId' = LastEnd(index) + PerTable
    BY <1>1 DEF LastId
  <2>2. \E m \in master' : Kept(m)'
    BY <1>1, <2>1 DEF Inv, CopyInv, Kept
  <2>3. LastEnd(index) \in Nat /\ \A m \in master : m.id \in Nat
    BY TableTypes DEF Inv
  <2>4. \A m \in master' : ~ (Moved(m)' /\ m.id < at')
    BY <1>1, <2>1, <2>3, TableTypes DEF Inv, Moved
  <2>5. end' = LastEnd(index') /\ end' < at'
    BY <1>1, <2>3
  <2> QED
    BY <1>1, <2>2, <2>4, <2>5 DEF CopyInv
<1> QED
  BY <1>1, <1>2, <1>3, <1>4 DEF Inv, SavedInv, IndexedInv, KeepInv

LEMMA InvCopyBatch == ASSUME Inv, TypeInv', CopyBatch PROVE Inv'
<1> DEFINE to == IF at + BatchSize - 1 > LastId THEN LastId ELSE at + BatchSize - 1
           batch == {m \in master : m.id \in at .. to}
<1>1. CASE GiveUp
  BY <1>1, InvGiveUp
<1>2. CASE /\ tables' = [tables EXCEPT ![New] = @ \cup batch]
           /\ at' = at + BatchSize
           /\ pc' = (IF at' > LastId THEN "index" ELSE "copy")
           /\ UNCHANGED <<master, msgVars, idxVars, saved, tmp, old, cache, mark,
                          end, total, hidden>>
  <2>1. pc = "copy" /\ end = LastEnd(index) /\ Len(tables) = Len(index) + 1
    BY DEF CopyBatch, Inv, CopyInv, TypeInv, TablesInv
  <2>2. at \in Nat /\ end < at /\ TypeInv
    BY <2>1 DEF Inv, CopyInv, TypeInv, TypeOK
  <2>3. \A m \in batch : m.id \in LastEnd(index) + 1 .. LastEnd(index) + PerTable
    BY <2>1, <2>2, TableTypes, SMTT(30)
  <2>4. Sound(index, tables', master, nextId, sent \ late)
    BY <1>2, <2>1, <2>2, <2>3, SoundCopy, TableTypes DEF Inv, SoundNow, New
  <2>5. SoundNow' /\ SavedInv' /\ MasterInv'
    BY <1>2, <2>1, <2>4
       DEF Inv, SoundNow, SavedInv, SoundSaved, MasterInv, msgVars, idxVars
  <2>6. ASSUME NEW m \in master', Moved(m)', m.id < at' PROVE m \in tables'[New']
    <3>1. New' = New /\ tables'[New] = tables[New] \cup batch
      BY <1>2, <2>1, <2>2, TableTypes DEF New
    <3>2. m \in master /\ Moved(m) /\ m.id < at + BatchSize
      BY <1>2, <2>6 DEF Moved, LastId
    <3>3. CASE m.id < at
      BY <2>1, <3>1, <3>2, <3>3 DEF Inv, CopyInv
    <3>4. CASE ~ (m.id < at)
      <4>1. m.id \in at .. to
        BY <2>2, <3>2, <3>4, TableTypes, SMTT(30) DEF Moved
      <4> QED
        BY <3>1, <3>2, <4>1
    <3> QED
      BY <3>3, <3>4
  <2> HIDE DEF to, batch
  <2>7. pc' = "index" => at' > LastId
    BY <1>2
  <2>8. \A m \in master' : Moved(m)' => m.id \in Nat /\ m.id <= LastId
    BY <1>2, <2>2, TableTypes DEF Moved, LastId
  <2>9. pc' = "index" => \A m \in master' : Moved(m)' => m \in tables'[New']
    BY <1>2, <2>2, <2>6, <2>7, <2>8, TableTypes, SMTT(30)
  <2>10. (\E m \in master' : Kept(m)') /\ end' = LastEnd(index')
    BY <1>2, <2>1 DEF Inv, CopyInv, Kept, LastId, idxVars
  <2>11. end' < at'
    BY <1>2, <2>2, TableTypes
  <2>12. CopyInv'
    BY <1>2, <2>6, <2>9, <2>10, <2>11 DEF CopyInv
  <2> QED
    BY <1>2, <2>5, <2>12 DEF Inv, IndexedInv, KeepInv
<1> QED
  BY <1>1, <1>2 DEF CopyBatch

LEMMA InvEnterTable == ASSUME Inv, TypeInv', EnterTable PROVE Inv'
<1> DEFINE ids == Ids(tables[New])
           row == [start |-> Min(ids), end |-> Max(ids)]
<1>1. /\ pc = "index" /\ pc' = "chats" /\ ids # {} /\ index' = Append(index, row)
      /\ New = Len(tables) /\ Len(tables) = Len(index) + 1
      /\ end = LastEnd(index) /\ LastId = LastEnd(index) + PerTable
      /\ UNCHANGED <<master, nextId, sent, late, tables, saved, end>>
  BY DEF EnterTable, New, LastId, Inv, CopyInv, TypeInv, TablesInv, msgVars, jobVars
<1>2. TypeInv /\ New \in DOMAIN tables /\ tables[New] \subseteq Message
  BY <1>1, TableTypes DEF Inv
<1>3. /\ Max(ids) \in ids /\ Min(ids) \in ids /\ (\A y \in ids : y <= Max(ids))
      /\ ids \subseteq Nat
  <2>1. tables[New] \subseteq sent
    BY <1>2 DEF TypeInv, RowsInv
  <2>2. ids \subseteq 0 .. Cardinality(sent) /\ Cardinality(sent) \in Nat
    BY <1>2, <2>1, RowsOfSent
  <2> HIDE DEF ids
  <2>3. ids \subseteq Nat
    BY <2>2
  <2> QED
    BY <1>1, <2>2, <2>3, HasLeast, HasGreatest
<1>4. PICK k \in tables[New] : Max(ids) = k.id
  BY <1>3 DEF Ids
<1>5. /\ row \in IndexRow /\ row.end = k.id
      /\ \A m \in tables[New] : m.id <= row.end
  BY <1>3, <1>4 DEF IndexRow, Ids
<1>6. LastId < nextId
  <2>1. PICK m \in master : Kept(m)
    BY <1>1 DEF Inv, CopyInv
  <2> QED
    BY <1>2, <2>1, TableTypes DEF Inv, MasterInv, Kept
<1>7. \A m \in master : m.id \in LastEnd(index) + 1 .. LastEnd(index) + PerTable
        => m \in tables[New]
  BY <1>1 DEF Inv, CopyInv, Moved
<1> HIDE DEF row, ids
<1>8. /\ LastEnd(index') <= LastId
      /\ \A m \in master : m.id <= LastId => In(m, index', tables)
      /\ Sound(index', tables, master, nextId, sent \ late)
  BY <1>1, <1>2, <1>4, <1>5, <1>6, <1>7, SoundEnter, TableTypes DEF Inv, SoundNow
<1>9. SoundNow' /\ SavedInv' /\ MasterInv'
  BY <1>1, <1>8 DEF Inv, SoundNow, SavedInv, SoundSaved, MasterInv
<1>10. CopyInv'
  BY <1>1 DEF Inv, CopyInv, Kept, LastId
<1>11. LastId' = LastId /\ Len(tables') = Len(index')
  BY <1>1, <1>2, TableTypes DEF LastId
<1>12. \A m \in master' : ~Kept(m)' => m.id <= LastId
  BY <1>1, <1>2, <1>11, TableTypes DEF Kept
<1>13. IndexedInv'
  BY <1>1, <1>8, <1>11, <1>12 DEF IndexedInv
<1> QED
  BY <1>1, <1>9, <1>10, <1>13 DEF Inv, KeepInv

\* The steps that follow, up to the count of what stays, change nothing that
\* the invariant is about but saved and tmp.
LEMMA InvToCount ==
  ASSUME Inv, TypeInv', EnterChats \/ BackUp \/ CreateTmp PROVE Inv'
<1>1. /\ pc \in {"chats", "backup", "tmp"} /\ pc' \in {"backup", "tmp", "count"}
      /\ UNCHANGED <<master, nextId, sent, late, tables, index, end>>
      /\ \/ UNCHANGED saved /\ pc' # "count"
         \/ saved' = <<>> /\ tmp' = {}
  BY DEF EnterChats, BackUp, CreateTmp, msgVars, idxVars, jobVars
<1>2. MasterInv' /\ SoundNow' /\ SavedInv'
  BY <1>1 DEF Inv, MasterInv, SoundNow, SavedInv, SoundSaved
<1>3. CopyInv'
  BY <1>1 DEF Inv, CopyInv, Kept, LastId
<1>4. IndexedInv'
  BY <1>1 DEF Inv, IndexedInv, Kept, LastId
<1>5. KeepInv'
  BY <1>1 DEF KeepInv
<1> QED
  BY <1>2, <1>3, <1>4, <1>5 DEF Inv

\* The place of a message that stays is at least the first, and at most the
\* last of those that are counted now.
LEMMA RankBounds ==
  ASSUME TypeInv, NEW m \in master, Kept(m)
  PROVE  /\ Rank(m) \in Nat \ {0}
         /\ Cardinality({k \in master : Kept(k)}) \in Nat
         /\ Rank(m) <= Cardinality({k \in master : Kept(k)})
<1> DEFINE all == {k \in master : Kept(k)}
           upto == {k \in master : Kept(k) /\ k.id <= m.id}
<1>1. IsFiniteSet(all) /\ Cardinality(all) \in Nat /\ IsFiniteSet(upto)
  BY RowsOfSent DEF TypeInv, RowsInv
<1>2. m \in upto /\ upto \subseteq all
  BY TableTypes
<1>3. Cardinality(upto) \in Nat /\ Cardinality(upto) # 0
  BY <1>1, <1>2, FS_EmptySet, FS_CardinalityType
<1>4. Cardinality(upto) <= Cardinality(all)
  BY <1>1, <1>2, FS_Subset
<1> QED
  BY <1>1, <1>3, <1>4 DEF Rank

LEMMA InvCountKept == ASSUME Inv, TypeInv', CountKept PROVE Inv'
<1> DEFINE all == {m \in master : Kept(m)}
<1>1. /\ pc = "count" /\ total' = Cardinality(all) /\ at' = 0 /\ saved = <<>>
      /\ pc' = (IF total' = 0 THEN "swap" ELSE "keep")
      /\ UNCHANGED <<master, nextId, sent, late, tables, index, saved, tmp, end>>
  BY DEF CountKept, Inv, SavedInv, msgVars, idxVars
<1>2. MasterInv' /\ SoundNow' /\ SavedInv'
  BY <1>1, SoundFrame DEF SavedInv
<1>3. TypeInv /\ LastId' = LastId /\ (\A m : Kept(m)' = Kept(m))
  BY <1>1 DEF Inv, LastId, Kept
<1>4. \A m \in master : Kept(m) =>
        /\ Rank(m) \in Nat \ {0} /\ Cardinality(all) \in Nat
        /\ Rank(m) <= Cardinality(all)
  BY <1>3, RankBounds
<1> HIDE DEF all
<1>5. \A m \in master : Kept(m) => Reached(m)'
  BY <1>1, <1>3, <1>4 DEF Reached, Rank
<1>6. PICK m \in master : Kept(m)
  BY <1>1 DEF Inv, CopyInv
<1>7. pc' = "keep"
  BY <1>1, <1>4, <1>6
<1>8. KeepInv'
  <2>1. tmp' = {}
    BY <1>1 DEF Inv, KeepInv
  <2> QED
    BY <1>1, <1>3, <1>5, <1>6, <1>7, <2>1 DEF KeepInv
<1>9. IndexedInv'
  BY <1>1, <1>3, <1>7 DEF Inv, IndexedInv
<1>10. CopyInv'
  BY <1>7 DEF CopyInv
<1> QED
  BY <1>2, <1>8, <1>9, <1>10 DEF Inv

LEMMA InvKeepBatch == ASSUME Inv, TypeInv', KeepBatch PROVE Inv'
<1>1. /\ pc = "keep" /\ at' = at + BatchSize /\ saved = <<>>
      /\ tmp' = tmp \cup {m \in master : Kept(m) /\ Rank(m) \in at + 1 .. at + BatchSize}
      /\ pc' = (IF at' < total THEN "keep" ELSE "swap")
      /\ UNCHANGED <<master, nextId, sent, late, tables, index, saved, end, total>>
  BY DEF KeepBatch, Inv, SavedInv, msgVars, idxVars
<1>2. MasterInv' /\ SoundNow' /\ SavedInv'
  BY <1>1, SoundFrame DEF SavedInv
<1>3. /\ LastId' = LastId /\ (\A m : Kept(m)' = Kept(m)) /\ (\A m : Rank(m)' = Rank(m))
      /\ TypeInv /\ at \in Nat /\ total \in Nat /\ BatchSize \in Nat
  <2>1. LastId' = LastId /\ (\A m : Kept(m)' = Kept(m)) /\ (\A m : Rank(m)' = Rank(m))
    BY <1>1 DEF LastId, Kept, Rank
  <2>2. TypeInv /\ at \in Nat /\ total \in Nat /\ BatchSize \in Nat
    BY PartitionAssumption DEF Inv, TypeInv, TypeOK
  <2> QED
    BY <2>1, <2>2, Zenon
<1>4. \A m \in master : Reached(m) => Rank(m) \in Nat
  BY <1>3, RankBounds DEF Reached
<1>5. ASSUME NEW m \in master, Reached(m)
      PROVE  /\ Kept(m) /\ Rank(m) <= total
             /\ Rank(m) <= at' => m \in tmp'
  <2>1. Kept(m) /\ Rank(m) <= total /\ Rank(m) \in Nat
    BY <1>4, <1>5 DEF Reached
  <2>2. CASE Rank(m) <= at
    BY <1>1, <1>5, <2>1, <2>2 DEF Reached
  <2>3. CASE ~ (Rank(m) <= at)
    <3>1. Rank(m) <= at' => Rank(m) \in at + 1 .. at + BatchSize
      BY <1>1, <1>3, <2>1, <2>3
    <3> QED
      BY <1>1, <2>1, <3>1
  <2> QED
    BY <2>1, <2>2, <2>3
<1>6. \A m \in tmp' : m \in master /\ Kept(m)
  BY <1>1 DEF Inv, KeepInv
<1>7. KeepInv'
  <2>1. /\ \A m \in master \ late : Kept(m) => Reached(m)
        /\ \E m \in master : Reached(m)
    BY <1>1 DEF Inv, KeepInv
  <2>2. CASE at' < total
    <3>1. \A m \in master : Reached(m) => Reached(m)'
      BY <1>1, <1>3, <1>5 DEF Reached
    <3> QED
      BY <1>1, <1>3, <1>6, <2>1, <2>2, <3>1 DEF KeepInv
  <2>3. CASE ~ (at' < total)
    <3>1. \A m \in master : Reached(m) => m \in tmp'
      BY <1>1, <1>3, <1>4, <1>5, <2>3
    <3> QED
      BY <1>1, <1>3, <1>6, <2>1, <2>3, <3>1 DEF KeepInv
  <2> QED
    BY <2>2, <2>3
<1>8. IndexedInv' /\ CopyInv'
  BY <1>1, <1>3 DEF Inv, IndexedInv, CopyInv
<1> QED
  BY <1>2, <1>7, <1>8 DEF Inv

LEMMA InvSwap == ASSUME Inv, TypeInv', Swap PROVE Inv'
<1> DEFINE ids == Ids(tmp) \cup {0}
<1>1. /\ pc = "swap" /\ pc' = "drop" /\ saved = <<>> /\ master' = tmp
      /\ nextId' = Max(ids) + 1
      /\ UNCHANGED <<sent, late, tables, index, saved, end>>
  BY DEF Swap, Inv, SavedInv, idxVars, jobVars
<1>2. /\ tmp # {} /\ (\A m \in tmp : m \in master /\ Kept(m))
      /\ \A m \in master \ late : Kept(m) => m \in tmp
  BY <1>1 DEF Inv, KeepInv
<1>3. /\ LastEnd(index) <= LastId /\ Len(tables) = Len(index)
      /\ \A m \in master : ~Kept(m) => In(m, index, tables)
  BY <1>1 DEF Inv, IndexedInv
<1>4. Max(ids) \in Nat /\ \A m \in tmp : m.id <= Max(ids)
  <2>1. ids \subseteq 0 .. Cardinality(sent) /\ Cardinality(sent) \in Nat
    BY RowsOfSent DEF Inv, TypeInv, RowsInv
  <2>2. \A m \in tmp : m.id \in ids
    BY DEF Ids
  <2>3. ids # {}
    OBVIOUS
  <2> HIDE DEF ids
  <2>4. Max(ids) \in ids /\ \A y \in ids : y <= Max(ids)
    BY <2>1, <2>3, HasGreatest
  <2>5. Max(ids) \in 0 .. Cardinality(sent) /\ \A m \in tmp : m.id <= Max(ids)
    BY <2>1, <2>2, <2>4, Zenon
  <2> QED
    BY <2>1, <2>5
<1> HIDE DEF ids
<1>5. LastId < nextId' /\ MasterInv'
  <2>1. \A m \in tmp : m.id \in Nat /\ m.id > LastId
    BY <1>2, TableTypes DEF Inv, Kept
  <2> QED
    BY <1>1, <1>2, <1>4, <2>1, TableTypes, SMTT(30) DEF Inv, MasterInv
<1>6. LastEnd(index) < nextId'
  BY <1>1, <1>3, <1>4, <1>5, TableTypes DEF Inv
<1>7. Sound(index, tables, tmp, nextId', sent \ late)
  <2>1. tmp \in SUBSET master
    BY <1>2
  <2>2. \A m \in sent \ late : m \in master => m \in tmp \/ In(m, index, tables)
    BY <1>2, <1>3
  <2> QED
    BY <1>3, <1>6, <2>1, <2>2, SoundSwap, TableTypes DEF Inv, SoundNow
<1>8. SoundNow' /\ SavedInv'
  BY <1>1, <1>7 DEF SoundNow, SavedInv, SoundSaved
<1>9. KeepInv'
  BY <1>1, <1>2, <1>3, <1>5 DEF KeepInv, LastId, Kept
<1> QED
  BY <1>1, <1>5, <1>8, <1>9 DEF Inv, CopyInv, IndexedInv

LEMMA InvDropOld == ASSUME Inv, TypeInv', DropOld PROVE Inv'
<1>1. /\ pc = "drop" /\ pc' = "reload"
      /\ UNCHANGED <<master, nextId, sent, late, tables, index, saved, end>>
  BY DEF DropOld, msgVars, idxVars, jobVars
<1>2. MasterInv' /\ SoundNow' /\ SavedInv'
  BY <1>1, SoundFrame DEF Inv, SavedInv
<1> QED
  BY <1>1, <1>2 DEF Inv, CopyInv, IndexedInv, KeepInv, Kept, LastId

\* The steps before and after a partition.
LEMMA InvOthers ==
  ASSUME Inv, TypeInv', Midnight \/ MidnightFails \/ Reload \/ Unmark PROVE Inv'
<1>1. /\ pc \in {"idle", "reload", "unmark"} /\ pc' \in {"idle", "check", "unmark"}
      /\ UNCHANGED <<master, nextId, sent, late, tables, index, saved>>
  BY DEF Midnight, MidnightFails, Reload, Unmark, msgVars, idxVars
<1>2. saved' = <<>>
  BY <1>1 DEF Inv, SavedInv
<1> QED
  BY <1>1, <1>2, SoundFrame, InvResting

LEMMA InvFail == ASSUME Inv, TypeInv', Fail PROVE Inv'
<1>1. CASE GiveUp
  BY <1>1, InvGiveUp
<1>2. CASE /\ pc \in {"reload", "unmark"}
           /\ pc' = (IF pc = "reload" THEN "check" ELSE "idle")
           /\ UNCHANGED <<master, msgVars, tables, idxVars, saved, tmp, old, cache,
                          mark, jobVars, hidden>>
  <2>1. UNCHANGED <<master, nextId, sent, late, tables, index, saved>>
    BY <1>2 DEF msgVars, idxVars
  <2>2. saved' = <<>> /\ pc' \in {"idle", "check", "unmark"}
    BY <1>2, <2>1 DEF Inv, SavedInv
  <2> QED
    BY <2>1, <2>2, SoundFrame, InvResting
<1> QED
  BY <1>1, <1>2 DEF Fail

LEMMA InvCrash == ASSUME Inv, TypeInv', Crash PROVE Inv'
  BY InvRollBack DEF Crash, msgVars

LEMMA InvNext == Inv /\ [Next]_vars => Inv'
<1> SUFFICES ASSUME Inv, [Next]_vars PROVE Inv'
  OBVIOUS
<1>1. TypeInv'
  BY TypeNext DEF Inv
<1>2. CASE UNCHANGED vars
  <2>1. UNCHANGED <<master, nextId, sent, late, tables, index, saved, tmp, pc, end,
                    at, total>>
    BY <1>2 DEF vars, msgVars, idxVars, jobVars
  <2>2. MasterInv' /\ SoundNow' /\ SavedInv'
    BY <2>1, SoundFrame DEF Inv, SavedInv
  <2>3. CopyInv' /\ IndexedInv'
    BY <2>1 DEF Inv, CopyInv, IndexedInv, Kept, Moved, LastId, New
  <2>4. KeepInv'
    BY <2>1 DEF Inv, KeepInv, Reached, Rank, Kept, LastId
  <2> QED
    BY <1>1, <2>2, <2>3, <2>4 DEF Inv
<1>3. CASE Job
  BY <1>1, <1>3, InvOthers, InvCheck, InvCreateTable, InvCopyBatch, InvEnterTable,
     InvToCount, InvCountKept, InvKeepBatch, InvSwap, InvDropOld DEF Job
<1> QED
  BY <1>1, <1>2, <1>3, InvStore, InvOthers, InvFail, InvCrash DEF Next

(***************************************************************************)
(* Results                                                                 *)
(***************************************************************************)

\* Every variable of the maintenance keeps its type, the bounds of the tables
\* and the statistics of the chats being computed from rows that are there.
THEOREM TypeCorrect == Spec => []TypeOK
<1>1. TypeInv => TypeOK
  BY DEF TypeInv
<1> QED
  BY <1>1, TypeInit, TypeNext, PTL DEF Spec

THEOREM InvHolds == Spec => []Inv
  BY InvInit, InvNext, PTL DEF Spec

\* Whatever step of a partition fails, and however often: a message that was
\* not stored while im_message was being replaced is in im_message or in a
\* table that im_message_index names.
THEOREM NoMessageLost == Spec => []NothingLost
<1>1. Inv => NothingLost
  BY DEF Inv, SoundNow, Sound, In, NothingLost
<1> QED
  BY <1>1, InvHolds, PTL

\* A finished partition ends what failed ones have left in two places.
THEOREM NothingDoubledAfterSwap == Spec => []SwapEndsDoubling
<1>1. Inv => SwapEndsDoubling
  <2> SUFFICES ASSUME Inv, pc \in {"drop", "reload"}, NEW n \in DOMAIN index,
                      NEW m \in tables[n], m \in master
               PROVE  FALSE
    BY DEF SwapEndsDoubling
  <2>1. m.id \in Nat /\ LastEnd(index) \in Nat /\ LastId \in Nat
    BY TableTypes DEF Inv
  <2>2. m.id > LastId /\ LastEnd(index) <= LastId
    BY DEF Inv, KeepInv, Kept
  <2>3. m.id <= LastEnd(index)
    BY DEF Inv, SoundNow, Sound
  <2> QED
    BY <2>1, <2>2, <2>3
<1> QED
  BY <1>1, InvHolds, PTL

\* The counter that the replacing table starts gives out no id that a message
\* which can be read has.
THEOREM IdsStayUnique == Spec => []IdsAreUnique
<1>1. Inv => IdsAreUnique
  BY DEF Inv, SoundNow, Sound, IdsAreUnique
<1> QED
  BY <1>1, InvHolds, PTL

(***************************************************************************)
(* What readers find by id. The cached index is a beginning of the index,  *)
(* whose rows span the ids of their tables; unless im_message was replaced *)
(* since, the tables it does not have yet only double rows of im_message.  *)
(***************************************************************************)

Spans(idx, tabs) ==
  \A n \in DOMAIN idx : \A m \in tabs[n] :
    idx[n].start <= m.id /\ m.id <= idx[n].end

CacheFits(idx, tabs) ==
  /\ Spans(idx, tabs)
  /\ Len(cache) <= Len(idx) /\ \A n \in DOMAIN cache : cache[n] = idx[n]
  /\ ~hidden => \A n \in DOMAIN idx \ DOMAIN cache : tabs[n] \subseteq master

CacheInv ==
  /\ CacheFits(index, tables)
  /\ saved # <<>> => CacheFits(saved[1].index, saved[1].tables)

\* steps that change no table of the index and neither replace im_message nor
\* read the index
LEMMA CacheFrame ==
  ASSUME Inv, CacheInv, UNCHANGED <<index, cache, hidden>>,
         \A n \in DOMAIN index : tables'[n] = tables[n],
         master \subseteq master',
         \/ saved' = saved
         \/ saved' = <<>>
         \/ UNCHANGED tables /\ saved'[1].index = index /\ saved'[1].tables = tables
  PROVE  CacheInv'
<1>1. CacheFits(index, tables)'
  BY DEF CacheInv, CacheFits, Spans
<1>2. saved' # <<>> => CacheFits(saved[1].index, saved[1].tables)'
  BY DEF CacheInv, CacheFits, Spans
<1> QED
  BY <1>1, <1>2 DEF CacheInv

LEMMA CacheRollBack ==
  ASSUME CacheInv, RollBack, UNCHANGED master,
         \/ UNCHANGED <<cache, hidden>>
         \/ cache' = index' /\ hidden' = FALSE
  PROVE  CacheInv'
<1>1. saved' = <<>>
  BY DEF RollBack
<1>2. PICK idx, tabs : /\ CacheFits(idx, tabs)
                       /\ index' = idx /\ tables' = tabs
  BY DEF RollBack, CacheInv, idxVars
<1>3. CacheFits(index, tables)'
  <2>1. CASE UNCHANGED <<cache, hidden>>
    BY <1>2, <2>1 DEF CacheFits, Spans
  <2>2. CASE cache' = index' /\ hidden' = FALSE
    BY <1>2, <2>2 DEF CacheFits, Spans
  <2> QED
    BY <2>1, <2>2
<1> QED
  BY <1>1, <1>3 DEF CacheInv

LEMMA CacheEnter == ASSUME Inv, CacheInv, EnterTable PROVE CacheInv'
<1> DEFINE ids == Ids(tables[New])
           row == [start |-> Min(ids), end |-> Max(ids)]
<1>1. /\ index' = Append(index, row) /\ ids # {}
      /\ New = Len(tables) /\ Len(tables) = Len(index) + 1
      /\ UNCHANGED <<master, tables, saved, cache, hidden>>
  BY DEF EnterTable, New, Inv, TypeInv, TablesInv
<1>2. /\ TypeInv /\ New \in DOMAIN tables
      /\ index \in Seq(IndexRow) /\ cache \in Seq(IndexRow)
  <2>1. TypeInv /\ index \in Seq(IndexRow) /\ cache \in Seq(IndexRow)
    BY DEF Inv, TypeInv, TypeOK
  <2>2. New \in DOMAIN tables
    BY <1>1, <2>1, TableTypes
  <2> QED
    BY <2>1, <2>2
<1>3. \A m \in tables[New] : row.start <= m.id /\ m.id <= row.end
  <2>1. ids \subseteq 0 .. Cardinality(sent) /\ Cardinality(sent) \in Nat
    BY <1>2, RowsOfSent DEF TypeInv, RowsInv
  <2>2. \A m \in tables[New] : m.id \in ids
    BY DEF Ids
  <2> HIDE DEF ids
  <2>3. ids \subseteq Nat
    BY <2>1
  <2> QED
    BY <1>1, <2>1, <2>2, <2>3, HasLeast, HasGreatest
<1> HIDE DEF ids, row
<1>4. /\ DOMAIN index' = DOMAIN index \cup {New}
      /\ Len(index') = Len(index) + 1 /\ Len(index) \in Nat /\ Len(cache) \in Nat
      /\ \A n \in DOMAIN index : index'[n] = index[n]
      /\ index'[New] = row /\ New \notin DOMAIN index
      /\ DOMAIN cache = 1 .. Len(cache) /\ DOMAIN index = 1 .. Len(index)
  BY <1>1, <1>2
<1>5. Spans(index, tables)'
  BY <1>1, <1>3, <1>4 DEF CacheInv, CacheFits, Spans
<1>6. tables[New] \subseteq master
  BY <1>2, <1>4 DEF Inv, SoundNow, Sound
<1>7. ~hidden => \A n \in DOMAIN index' \ DOMAIN cache : tables[n] \subseteq master
  BY <1>4, <1>6 DEF CacheInv, CacheFits
<1>8. Len(cache) <= Len(index') /\ \A n \in DOMAIN cache : cache[n] = index'[n]
  BY <1>4 DEF CacheInv, CacheFits
<1>9. CacheFits(index, tables)'
  BY <1>1, <1>5, <1>7, <1>8 DEF CacheFits
<1>10. saved' # <<>> => CacheFits(saved[1].index, saved[1].tables)'
  BY <1>1 DEF CacheInv, CacheFits, Spans
<1> QED
  BY <1>9, <1>10 DEF CacheInv

LEMMA CacheNext == Inv /\ CacheInv /\ [Next]_vars => CacheInv'
<1> SUFFICES ASSUME Inv, CacheInv, [Next]_vars PROVE CacheInv'
  OBVIOUS
<1> USE DEF msgVars, idxVars, jobVars
<1>1. TypeInv
  BY DEF Inv
<1>2. ASSUME NEW c \in Chats, Store(c) PROVE CacheInv'
  BY <1>2, CacheFrame DEF Store
<1>3. CASE CreateTable
  <2>1. CASE Len(tables) = Len(index) /\ tables' = Append(tables, {}) /\ UNCHANGED saved
    <3>1. \A n \in DOMAIN index : tables'[n] = tables[n]
      BY <1>1, <2>1, TableTypes
    <3> QED
      BY <1>3, <2>1, <3>1, CacheFrame DEF CreateTable
  <2>2. CASE UNCHANGED tables
    <3>1. \/ saved' = saved
          \/ saved'[1].index = index /\ saved'[1].tables = tables
      BY <1>3, <2>2 DEF CreateTable
    <3> QED
      BY <1>3, <2>2, <3>1, CacheFrame DEF CreateTable
  <2> QED
    BY <1>3, <2>1, <2>2 DEF CreateTable
<1>4. CASE CopyBatch
  <2>1. CASE GiveUp
    BY <2>1, CacheRollBack DEF GiveUp
  <2>2. CASE ~GiveUp
    <3>1. \A n \in DOMAIN index : tables'[n] = tables[n]
      <4>1. Len(tables) = Len(index) + 1 /\ New = Len(tables)
        BY <1>4 DEF CopyBatch, New, Inv, TypeInv, TablesInv
      <4>2. \E batch : tables' = [tables EXCEPT ![New] = @ \cup batch]
        BY <1>4, <2>2 DEF CopyBatch
      <4> QED
        BY <1>1, <4>1, <4>2, TableTypes
    <3> QED
      BY <1>4, <2>2, <3>1, CacheFrame DEF CopyBatch
  <2> QED
    BY <2>1, <2>2
<1>5. CASE Swap
  BY <1>5 DEF Swap, CacheInv, CacheFits, Spans
<1>6. CASE Reload
  <2>1. CacheFits(index, tables)'
    BY <1>6 DEF Reload, CacheInv, CacheFits, Spans
  <2>2. saved' = <<>>
    BY <1>6 DEF Reload, Inv, SavedInv
  <2> QED
    BY <2>1, <2>2 DEF CacheInv
<1>7. CASE Fail
  <2>1. CASE GiveUp
    BY <2>1, CacheRollBack DEF GiveUp
  <2>2. CASE ~GiveUp
    BY <1>7, <2>2, CacheFrame DEF Fail
  <2> QED
    BY <2>1, <2>2
<1>8. CASE Crash
  BY <1>8, CacheRollBack DEF Crash
<1>9. CASE Midnight \/ MidnightFails \/ Check \/ EnterChats \/ BackUp \/ CreateTmp
             \/ CountKept \/ KeepBatch \/ DropOld \/ Unmark
  <2>1. UNCHANGED <<master, index, tables, cache, hidden>> /\ saved' \in {saved, <<>>}
    BY <1>9 DEF Midnight, MidnightFails, Check, EnterChats, BackUp, CreateTmp,
                CountKept, KeepBatch, DropOld, Unmark
  <2> QED
    BY <2>1, CacheFrame
<1>10. CASE UNCHANGED vars
  BY <1>10, CacheFrame DEF vars
<1> QED
  BY <1>2, <1>3, <1>4, <1>5, <1>6, <1>7, <1>8, <1>9, <1>10, CacheEnter DEF Next, Job

LEMMA CacheHolds == Spec => [](Inv /\ CacheInv)
<1>1. Init => CacheInv
  <2> SUFFICES ASSUME Init PROVE CacheInv
    OBVIOUS
  <2>1. index = <<>> /\ cache = <<>> /\ saved = <<>>
    BY DEF Init
  <2> QED
    BY <2>1 DEF CacheInv, CacheFits, Spans
<1>2. Inv /\ CacheInv /\ [Next]_vars => CacheInv'
  BY CacheNext
<1> QED
  BY <1>1, <1>2, InvHolds, InvNext, PTL DEF Spec

\* Unless im_message has been replaced and the cached index not been read
\* again, every message is found by its id (GetList).
THEOREM IdsAreFound == Spec => []FoundById
<1>1. Inv /\ CacheInv => FoundById
  <2> SUFFICES ASSUME Inv, CacheInv, ~hidden, NEW m \in sent \ late
               PROVE  m \in GetList({m.id})
    BY DEF FoundById
  <2>1. ASSUME NEW n, [table |-> n, ids |-> {m.id}] \in GetTableByMessages({m.id}),
               m \in Rows(n)
        PROVE  m \in GetList({m.id})
    <3> DEFINE q == [table |-> n, ids |-> {m.id}]
    <3>1. q \in GetTableByMessages({m.id}) /\ q.table = n /\ m.id \in q.ids
      BY <2>1
    <3> HIDE DEF q
    <3>2. m \in {k \in Rows(q.table) : k.id \in q.ids}
      BY <2>1, <3>1
    <3> QED
      BY <3>1, <3>2 DEF GetList
  <2>2. CASE m \in master
    <3>1. [table |-> Master, ids |-> {m.id}] \in GetTableByMessages({m.id})
      BY DEF GetTableByMessages
    <3>2. m \in Rows(Master)
      BY <2>2 DEF Rows
    <3> QED
      BY <2>1, <3>1, <3>2
  <2>3. CASE m \notin master
    <3>1. PICK n \in DOMAIN index : m \in tables[n]
      BY <2>3 DEF Inv, SoundNow, Sound, In
    <3>2. n \in DOMAIN cache
      BY <2>3, <3>1 DEF CacheInv, CacheFits
    <3>3. m.id \in cache[n].start .. cache[n].end
      <4>1. /\ index \in Seq(IndexRow) /\ m \in Message
            /\ index[n].start <= m.id /\ m.id <= index[n].end
            /\ cache[n] = index[n]
        BY <3>1, <3>2 DEF CacheInv, CacheFits, Spans, Inv, TypeInv, TypeOK
      <4>2. index[n] \in IndexRow /\ m.id \in Nat
        BY <3>1, <4>1 DEF Message
      <4> QED
        BY <4>1, <4>2 DEF IndexRow
    <3>4. {m.id} \cap cache[n].start .. cache[n].end = {m.id}
      BY <3>3
    <3>5. [table |-> n, ids |-> {m.id}] \in GetTableByMessages({m.id})
      BY <3>2, <3>4 DEF GetTableByMessages
    <3>6. m \in Rows(n)
      <4>1. index \in Seq(IndexRow)
        BY DEF Inv, TypeInv, TypeOK
      <4>2. n # Master
        BY <3>1, <4>1 DEF Master
      <4> QED
        BY <3>1, <4>2 DEF Rows
    <3> QED
      BY <2>1, <3>5, <3>6
  <2> QED
    BY <2>2, <2>3
<1> QED
  BY <1>1, CacheHolds, PTL

(***************************************************************************)
(* What readers find by index. The tables of the index hold ascending      *)
(* ranges of ids; a row of im_chat_message_index spans the indexes of its  *)
(* chat in its table, and a table with one row has one for each of its     *)
(* chats. In every chat ids and indexes ascend together, so that what is   *)
(* in a span by its index is in the table of the span by its id.           *)
(***************************************************************************)

Apart(idx, tabs) ==
  \A n, l \in DOMAIN idx : n < l =>
    \A a \in tabs[n], b \in tabs[l] : a.id < b.id

\* Row r of im_chat_message_index spans the messages of its chat among rows.
Covers(r, rows) ==
  /\ \E a, b \in rows : /\ a.chat = r.gid /\ a.index = r.startIndex
                        /\ b.chat = r.gid /\ b.index = r.endIndex
  /\ \A m \in rows :
       m.chat = r.gid => r.startIndex <= m.index /\ m.index <= r.endIndex

\* The row that is made for chat c of table n when it has these rows.
Stats(rows, n, c) ==
  LET own     == {m \in rows : m.chat = c}
      indexes == {m.index : m \in own}
  IN [gid |-> c, table |-> n, start |-> Min(Ids(own)), end |-> Max(Ids(own)),
      startIndex |-> Min(indexes), endIndex |-> Max(indexes),
      count |-> Cardinality(own)]

Entered(idx, tabs, ci) ==
  /\ Apart(idx, tabs)
  /\ \A r \in ci : /\ r.table \in DOMAIN idx /\ Covers(r, tabs[r.table])
                   /\ r = Stats(tabs[r.table], r.table, r.gid)
  /\ \A r \in ci : \A m \in tabs[r.table] :
       \E x \in ci : x.table = r.table /\ x.gid = m.chat

EnteredInv ==
  /\ Entered(index, tables, chatIndex)
  /\ saved # <<>> => Entered(saved[1].index, saved[1].tables, saved[1].chatIndex)

\* The messages that are somewhere, or that a rollback would bring back.
Stored(tabs) == UNION {tabs[n] : n \in DOMAIN tabs}
Held         == master \cup Stored(tables) \cup
                  (IF saved = <<>> THEN {} ELSE Stored(saved[1].tables))

OrderInv ==
  \A m, k \in Held : m.chat = k.chat /\ m.index <= k.index => m.id <= k.id

\* Most steps bring nothing back,
LEMMA OrderFrame ==
  ASSUME OrderInv, Held' \subseteq Held PROVE OrderInv'
  BY DEF OrderInv

\* and the ids that are in use are below the next one.
LEMMA HeldTypes ==
  ASSUME Inv, NEW m \in Held
  PROVE  m \in sent /\ m \in Message /\ m.id < nextId
<1>1. TypeInv /\ \A k \in sent : k \in Message
  BY DEF Inv, TypeInv, TypeOK
<1>2. ASSUME NEW idx \in Seq(IndexRow), NEW tabs \in Seq(SUBSET Message),
             Sound(idx, tabs, master, nextId, sent \ late), m \in Stored(tabs)
      PROVE  m.id < nextId
  <2>1. PICK n \in DOMAIN tabs : m \in tabs[n]
    BY <1>2 DEF Stored
  <2>2. m.id \in Nat /\ LastEnd(idx) \in Nat /\ nextId \in Nat
    <3>1. m \in Message
      BY <2>1
    <3> QED
      BY <1>1, <3>1, LastEndType, TableTypes DEF Message
  <2>3. m.id <= LastEnd(idx) \/ m \in master
    BY <1>2, <2>1 DEF Sound
  <2>4. LastEnd(idx) < nextId
    BY <1>2 DEF Sound
  <2> QED
    BY <2>2, <2>3, <2>4 DEF Inv, MasterInv
<1>3. CASE m \in master
  BY <1>1, <1>3 DEF Inv, MasterInv, TypeInv, RowsInv
<1>4. CASE m \in Stored(tables)
  <2>1. m \in sent
    BY <1>1, <1>4 DEF Stored, TypeInv, RowsInv
  <2> QED
    BY <1>1, <1>2, <1>4, <2>1, TableTypes DEF Inv, SoundNow
<1>5. CASE saved # <<>> /\ m \in Stored(saved[1].tables)
  <2>1. m \in sent
    BY <1>1, <1>5 DEF Stored, TypeInv, TablesInv
  <2> QED
    BY <1>1, <1>2, <1>5, <2>1, TableTypes DEF Inv, SavedInv, SoundSaved
<1> QED
  BY <1>3, <1>4, <1>5 DEF Held

LEMMA OrderStore ==
  ASSUME Inv, OrderInv, NEW c \in Chats, Store(c) PROVE OrderInv'
<1> DEFINE m == [id |-> nextId, chat |-> c, index |-> last[c] + 1]
<1>1. /\ m.id = nextId /\ m.chat = c /\ m.index = last[c] + 1
      /\ Held' = Held \cup {m}
  BY DEF Store, Held, Stored
<1> HIDE DEF m
<1>2. TypeInv /\ nextId \in Nat /\ last[c] \in Nat
  BY DEF Inv, TypeInv, TypeOK
<1>3. ASSUME NEW k \in Held
      PROVE  k.id \in Nat /\ k.id < m.id /\ (k.chat = c => ~(m.index <= k.index))
  <2>1. k \in sent /\ k \in Message /\ k.id < nextId
    BY <1>3, HeldTypes
  <2>2. k.index \in Nat /\ k.id \in Nat /\ k.index <= last[k.chat]
    BY <1>2, <2>1 DEF Message, TypeInv, RowsInv
  <2> QED
    BY <1>1, <1>2, <2>1, <2>2
<1>4. SUFFICES ASSUME NEW k \in Held \cup {m}, NEW l \in Held \cup {m},
                      k.chat = l.chat, k.index <= l.index
               PROVE  k.id <= l.id
  BY <1>1 DEF OrderInv
<1>5. CASE k \in Held /\ l \in Held
  BY <1>4, <1>5 DEF OrderInv
<1>6. CASE k \in Held /\ l = m
  BY <1>1, <1>2, <1>3, <1>6
<1>7. CASE k = m /\ l \in Held
  BY <1>1, <1>3, <1>4, <1>7
<1>8. CASE k = m /\ l = m
  BY <1>1, <1>2, <1>8
<1> QED
  BY <1>5, <1>6, <1>7, <1>8

\* The new table is behind all tables of the index.
LEMMA EnteredEnterTable ==
  ASSUME Inv, EnteredInv, EnterTable PROVE EnteredInv'
<1>1. PICK row : index' = Append(index, row)
  BY DEF EnterTable
<1>2. UNCHANGED <<tables, chatIndex, saved>> /\ Len(tables) = Len(index) + 1 /\ TypeInv
  BY DEF EnterTable, Inv, TypeInv, TablesInv
<1>3. /\ DOMAIN index = 1 .. Len(index) /\ DOMAIN index' = 1 .. Len(tables)
      /\ DOMAIN tables = 1 .. Len(tables) /\ Len(index) \in Nat
      /\ \A n \in DOMAIN tables : tables[n] \subseteq Message
  BY <1>1, <1>2, TableTypes
<1>4. Apart(index', tables)
  <2> SUFFICES ASSUME NEW n \in DOMAIN index', NEW l \in DOMAIN index', n < l,
                      NEW a \in tables[n], NEW b \in tables[l]
               PROVE  a.id < b.id
    BY DEF Apart
  <2>1. n \in DOMAIN index
    BY <1>2, <1>3
  <2>2. CASE l \in DOMAIN index
    BY <2>1, <2>2 DEF EnteredInv, Entered, Apart
  <2>3. CASE l \notin DOMAIN index
    <3>1. a.id <= LastEnd(index) /\ b.id \in LastEnd(index) + 1 .. LastEnd(index) + PerTable
      BY <1>2, <1>3, <2>1, <2>3 DEF Inv, SoundNow, Sound
    <3>2. a.id \in Nat /\ LastEnd(index) \in Nat /\ PerTable \in Nat
      <4>1. a \in Message
        BY <1>2, <1>3
      <4> QED
        BY <1>2, <4>1, TableTypes DEF Message
    <3> QED
      BY <3>1, <3>2
  <2> QED
    BY <2>2, <2>3
<1>5. DOMAIN index \subseteq DOMAIN index'
  BY <1>2, <1>3
<1>6. Entered(index', tables, chatIndex)
  BY <1>4, <1>5 DEF EnteredInv, Entered
<1> QED
  BY <1>2, <1>6 DEF EnteredInv

\* The row made for a chat of the new table spans its messages there.
LEMMA StatsCover ==
  ASSUME TypeInv, NEW n \in DOMAIN tables, NEW m \in tables[n]
  PROVE  /\ ChatStats(n, m.chat).table = n /\ ChatStats(n, m.chat).gid = m.chat
         /\ ChatStats(n, m.chat) = Stats(tables[n], n, m.chat)
         /\ Covers(ChatStats(n, m.chat), tables[n])
<1> DEFINE c       == m.chat
           rows    == {x \in tables[n] : x.chat = c}
           indexes == {x.index : x \in rows}
<1>1. rows \subseteq sent /\ m \in rows
  BY DEF TypeInv, RowsInv
<1>2. c \in Chats /\ last[c] \in Nat
  BY <1>1 DEF TypeInv, TypeOK, Message
<1>3. \A x \in rows : x.index \in 0 .. last[c]
  BY <1>1 DEF TypeInv, TypeOK, RowsInv, Message
<1>4. indexes \subseteq 0 .. last[c] /\ indexes \subseteq Nat /\ m.index \in indexes
  BY <1>1, <1>3
<1>5. /\ ChatStats(n, c).table = n /\ ChatStats(n, c).gid = c
      /\ ChatStats(n, c).startIndex = Min(indexes)
      /\ ChatStats(n, c).endIndex = Max(indexes)
  BY DEF ChatStats
<1>6. /\ Min(indexes) \in indexes /\ Max(indexes) \in indexes
      /\ \A y \in indexes : Min(indexes) <= y /\ y <= Max(indexes)
  <2> HIDE DEF indexes
  <2> QED
    BY <1>2, <1>4, HasLeast, HasGreatest
<1>7. \E a, b \in tables[n] : /\ a.chat = c /\ a.index = Min(indexes)
                              /\ b.chat = c /\ b.index = Max(indexes)
  BY <1>6
<1>8. \A x \in tables[n] :
        x.chat = c => Min(indexes) <= x.index /\ x.index <= Max(indexes)
  BY <1>6
<1>9. ChatStats(n, c) = Stats(tables[n], n, c)
  BY DEF ChatStats, Stats
<1> HIDE DEF indexes
<1>10. Covers(ChatStats(n, c), tables[n])
  BY <1>5, <1>7, <1>8 DEF Covers
<1> QED
  BY <1>5, <1>9, <1>10

\* One INSERT makes the rows of all chats of the new table.
LEMMA EnteredEnterChats ==
  ASSUME Inv, EnteredInv, EnterChats PROVE EnteredInv'
<1> DEFINE new == {ChatStats(New, m.chat) : m \in tables[New]}
<1>1. chatIndex' = chatIndex \cup new /\ UNCHANGED <<tables, index, saved>> /\ TypeInv
  BY DEF EnterChats, Inv
<1>2. New \in DOMAIN tables /\ New \in DOMAIN index
  BY <1>1 DEF EnterChats, New, TypeInv, TypeOK, TablesInv
<1>3. \A r \in new : /\ r.table = New /\ Covers(r, tables[New])
                    /\ r = Stats(tables[New], New, r.gid)
  <2> SUFFICES ASSUME NEW m \in tables[New], NEW r, r = ChatStats(New, m.chat)
               PROVE  /\ r.table = New /\ Covers(r, tables[New])
                      /\ r = Stats(tables[New], New, r.gid)
    OBVIOUS
  <2> QED
    BY <1>1, <1>2, StatsCover
<1>4. \A m \in tables[New] : \E x \in new : x.table = New /\ x.gid = m.chat
  <2> TAKE m \in tables[New]
  <2>1. ChatStats(New, m.chat).table = New /\ ChatStats(New, m.chat).gid = m.chat
    BY <1>1, <1>2, StatsCover
  <2> QED
    BY <2>1
<1> HIDE DEF new
<1>5. Entered(index, tables, chatIndex \cup new)
  BY <1>2, <1>3, <1>4 DEF EnteredInv, Entered
<1> QED
  BY <1>1, <1>5 DEF EnteredInv

\* Steps that leave the index alone, and its tables.
LEMMA EnteredFrame ==
  ASSUME EnteredInv, UNCHANGED <<index, chatIndex>>,
         \A n \in DOMAIN index : tables'[n] = tables[n],
         \/ saved' = saved
         \/ saved' = <<>>
         \/ /\ UNCHANGED tables /\ saved'[1].index = index
            /\ saved'[1].tables = tables /\ saved'[1].chatIndex = chatIndex
  PROVE  EnteredInv'
<1>1. Entered(index, tables, chatIndex)'
  BY DEF EnteredInv, Entered, Apart
<1>2. saved' # <<>> =>
        Entered(saved[1].index, saved[1].tables, saved[1].chatIndex)'
  BY DEF EnteredInv, Entered, Apart
<1> QED
  BY <1>1, <1>2 DEF EnteredInv

LEMMA FoundRollBack ==
  ASSUME EnteredInv, OrderInv, RollBack, UNCHANGED master
  PROVE  EnteredInv' /\ OrderInv'
<1>1. saved' = <<>>
  BY DEF RollBack
<1>2. CASE saved = <<>>
  <2>1. UNCHANGED <<tables, index, chatIndex, saved>>
    BY <1>2 DEF RollBack, idxVars
  <2> QED
    BY <2>1, EnteredFrame, OrderFrame DEF Held, Stored
<1>3. CASE saved # <<>>
  <2>1. /\ tables' = saved[1].tables /\ index' = saved[1].index
        /\ chatIndex' = saved[1].chatIndex
    BY <1>3 DEF RollBack
  <2>2. Held' \subseteq Held
    BY <1>1, <1>3, <2>1 DEF Held, Stored
  <2> QED
    BY <1>1, <1>3, <2>1, <2>2, OrderFrame DEF EnteredInv
<1> QED
  BY <1>2, <1>3

LEMMA FoundNext ==
  Inv /\ EnteredInv /\ OrderInv /\ [Next]_vars => EnteredInv' /\ OrderInv'
<1> SUFFICES ASSUME Inv, EnteredInv, OrderInv, [Next]_vars
             PROVE  EnteredInv' /\ OrderInv'
  OBVIOUS
<1> USE DEF msgVars, idxVars, jobVars
<1>1. TypeInv
  BY DEF Inv
<1>2. ASSUME NEW c \in Chats, Store(c) PROVE EnteredInv' /\ OrderInv'
  BY <1>2, EnteredFrame, OrderStore DEF Store
<1>3. CASE CreateTable
  <2>1. UNCHANGED <<master, index, chatIndex>>
    BY <1>3 DEF CreateTable
  <2>2. CASE Len(tables) = Len(index) /\ tables' = Append(tables, {}) /\ UNCHANGED saved
    <3>1. /\ \A n \in DOMAIN index : tables'[n] = tables[n]
          /\ \A n \in DOMAIN tables' :
               (n \in DOMAIN tables /\ tables'[n] = tables[n]) \/ tables'[n] = {}
      BY <1>1, <2>2, TableTypes
    <3>2. Stored(tables') \subseteq Stored(tables)
      BY <3>1 DEF Stored
    <3>3. Held' \subseteq Held
      BY <2>1, <2>2, <3>2 DEF Held
    <3> QED
      BY <2>1, <2>2, <3>1, <3>3, EnteredFrame, OrderFrame
  <2>3. CASE UNCHANGED <<tables, saved>>
    <3>1. Held' = Held
      BY <2>1, <2>3 DEF Held
    <3> QED
      BY <2>1, <2>3, <3>1, EnteredFrame, OrderFrame
  <2>4. CASE /\ UNCHANGED tables
             /\ saved' = <<[tables |-> tables, index |-> index,
                            chatIndex |-> chatIndex, backup |-> backup]>>
    <3>1. /\ saved'[1].tables = tables /\ saved'[1].index = index
          /\ saved'[1].chatIndex = chatIndex
      BY <2>4
    <3>2. Held' \subseteq Held
      BY <2>1, <2>4, <3>1 DEF Held
    <3> QED
      BY <2>1, <2>4, <3>1, <3>2, EnteredFrame, OrderFrame
  <2> QED
    BY <1>3, <2>2, <2>3, <2>4 DEF CreateTable
<1>4. CASE CopyBatch
  <2>1. CASE GiveUp
    BY <2>1, FoundRollBack DEF GiveUp
  <2>2. CASE ~GiveUp
    <3>1. UNCHANGED <<master, index, chatIndex, saved>>
      BY <1>4, <2>2 DEF CopyBatch
    <3>2. Len(tables) = Len(index) + 1 /\ New = Len(tables)
      BY <1>4 DEF CopyBatch, New, Inv, TypeInv, TablesInv
    <3>3. \E batch \in SUBSET master :
            tables' = [tables EXCEPT ![New] = @ \cup batch]
      BY <1>4, <2>2 DEF CopyBatch
    <3>4. /\ \A n \in DOMAIN index : tables'[n] = tables[n]
          /\ DOMAIN tables' = DOMAIN tables
          /\ \A n \in DOMAIN tables : tables'[n] \subseteq tables[n] \cup master
      BY <1>1, <3>2, <3>3, TableTypes
    <3>5. Stored(tables') \subseteq Stored(tables) \cup master
      BY <3>4 DEF Stored
    <3>6. Held' \subseteq Held
      BY <3>1, <3>5 DEF Held
    <3> QED
      BY <3>1, <3>4, <3>6, EnteredFrame, OrderFrame
  <2> QED
    BY <2>1, <2>2
<1>5. CASE EnterTable
  <2>1. Held' = Held
    BY <1>5 DEF EnterTable, Held
  <2> QED
    BY <1>5, <2>1, EnteredEnterTable, OrderFrame
<1>6. CASE EnterChats
  <2>1. Held' = Held
    BY <1>6 DEF EnterChats, Held
  <2> QED
    BY <1>6, <2>1, EnteredEnterChats, OrderFrame
<1>7. CASE Swap
  <2>1. UNCHANGED <<tables, index, chatIndex, saved>> /\ master' \subseteq master
    BY <1>7 DEF Swap, Inv, KeepInv
  <2>2. Held' \subseteq Held
    BY <2>1 DEF Held
  <2> QED
    BY <2>1, <2>2, EnteredFrame, OrderFrame
<1>8. CASE Fail
  <2>1. CASE GiveUp
    BY <2>1, FoundRollBack DEF GiveUp
  <2>2. CASE ~GiveUp
    <3>1. UNCHANGED <<master, tables, index, chatIndex, saved>>
      BY <1>8, <2>2 DEF Fail
    <3>2. Held' = Held
      BY <3>1 DEF Held
    <3> QED
      BY <3>1, <3>2, EnteredFrame, OrderFrame
  <2> QED
    BY <2>1, <2>2
<1>9. CASE Crash
  BY <1>9, FoundRollBack DEF Crash
<1>10. CASE Midnight \/ MidnightFails \/ Check \/ BackUp \/ CreateTmp \/ CountKept
              \/ KeepBatch \/ DropOld \/ Reload \/ Unmark \/ UNCHANGED vars
  <2>1. /\ UNCHANGED <<master, tables, index, chatIndex>>
        /\ saved' = saved \/ saved' = <<>>
    BY <1>10 DEF Midnight, MidnightFails, Check, BackUp, CreateTmp, CountKept, KeepBatch,
                 DropOld, Reload, Unmark, vars
  <2>2. Held' \subseteq Held
    BY <2>1 DEF Held
  <2> QED
    BY <2>1, <2>2, EnteredFrame, OrderFrame
<1> QED
  BY <1>2, <1>3, <1>4, <1>5, <1>6, <1>7, <1>8, <1>9, <1>10 DEF Next, Job

LEMMA FoundHolds == Spec => [](Inv /\ EnteredInv /\ OrderInv)
<1>1. Init => EnteredInv /\ OrderInv
  <2> SUFFICES ASSUME Init PROVE EnteredInv /\ OrderInv
    OBVIOUS
  <2>1. /\ master = {} /\ tables = <<>> /\ index = <<>> /\ chatIndex = {}
        /\ saved = <<>>
    BY DEF Init
  <2>2. Held = {}
    BY <2>1 DEF Held, Stored
  <2> QED
    BY <2>1, <2>2 DEF EnteredInv, Entered, Apart, OrderInv
<1> QED
  BY <1>1, FoundNext, InvHolds, InvNext, PTL DEF Spec

\* By its id a message is in one table of the index at most.
LEMMA OneTable ==
  ASSUME Inv, EnteredInv, NEW m, NEW n \in DOMAIN index, NEW l \in DOMAIN index,
         m \in tables[n], m \in tables[l]
  PROVE  n = l
<1>1. n \in Nat /\ l \in Nat /\ m.id \in Nat
  <2>1. TypeInv /\ index \in Seq(IndexRow) /\ tables \in Seq(SUBSET Message)
    BY DEF Inv, TypeInv, TypeOK
  <2>2. n \in DOMAIN tables
    BY <2>1, TableTypes
  <2>3. m \in Message
    BY <2>1, <2>2
  <2> QED
    BY <2>1, <2>3 DEF Message
<1> QED
  BY <1>1 DEF EnteredInv, Entered, Apart

\* A message that can be read and whose index is in the span of a row of
\* im_chat_message_index is in the table of that row, and no other.
LEMMA InSpan ==
  ASSUME Inv, EnteredInv, OrderInv, NEW r \in chatIndex, NEW m, m.chat = r.gid,
         m \in master \/ In(m, index, tables),
         r.startIndex <= m.index, m.index <= r.endIndex
  PROVE  r.table \in DOMAIN index /\ m \in tables[r.table]
<1>1. TypeInv /\ DOMAIN index \subseteq DOMAIN tables
  <2>1. TypeInv
    BY DEF Inv
  <2> QED
    BY <2>1, TableTypes
<1>2. r.table \in DOMAIN index /\ Covers(r, tables[r.table])
  BY DEF EnteredInv, Entered
<1>3. PICK a \in tables[r.table], b \in tables[r.table] :
        /\ a.chat = r.gid /\ a.index = r.startIndex
        /\ b.chat = r.gid /\ b.index = r.endIndex
  BY <1>2 DEF Covers
<1>4. m \in Held /\ a \in Held /\ b \in Held
  BY <1>1, <1>2, <1>3 DEF Held, Stored, In
<1>5. a.id <= m.id /\ m.id <= b.id
  BY <1>3, <1>4 DEF OrderInv
<1>6. a.id \in Nat /\ m.id \in Nat /\ b.id \in Nat
  BY <1>4, HeldTypes DEF Message
<1>7. In(m, index, tables)
  <2>1. b.id <= LastEnd(index) /\ LastEnd(index) \in Nat
    BY <1>1, <1>2, <1>3, TableTypes DEF Inv, SoundNow, Sound
  <2>2. m.id <= LastEnd(index)
    BY <1>5, <1>6, <2>1
  <2> QED
    BY <2>2 DEF Inv, SoundNow, Sound
<1>8. PICK n \in DOMAIN index : m \in tables[n]
  BY <1>7 DEF In
<1>9. n \in Nat /\ r.table \in Nat
  BY <1>1, <1>2, <1>8, TableTypes
<1>10. Apart(index, tables)
  BY DEF EnteredInv, Entered
<1>11. (n < r.table => m.id < a.id) /\ (r.table < n => b.id < m.id)
  BY <1>2, <1>3, <1>8, <1>10, Zenon DEF Apart
<1>12. ~(n < r.table) /\ ~(r.table < n)
  BY <1>5, <1>6, <1>11
<1> QED
  BY <1>2, <1>8, <1>9, <1>12

\* Two messages of a chat are found by their indexes, in im_message or in one
\* partition table whose chats have been entered, whatever has failed before.
THEOREM IndexesAreFound == Spec => []FoundByIndex
<1> DEFINE Readable == {x \in sent \ late : x \in master \/
                          \E n \in DOMAIN index : x \in tables[n] /\ Listed(n)}
           Together(m, k) ==
             \A n, l \in DOMAIN index : m \in tables[n] /\ k \in tables[l] => n = l
<1>1. ASSUME Inv, EnteredInv, OrderInv, NEW m \in Readable, NEW k \in Readable,
             m.chat = k.chat, Together(m, k),
             NEW indexes, indexes = {m.index, k.index}
      PROVE  m \in GetMessagesByIndexes(m.chat, indexes)
  <2> DEFINE Asked(r) == indexes \cap r.startIndex .. r.endIndex
             found    == {r \in {r \in chatIndex : r.gid = m.chat} : Asked(r) # {}}
  <2>1. /\ m.index \in Nat /\ k.index \in Nat
        /\ \A r \in chatIndex : r.startIndex \in Nat /\ r.endIndex \in Nat
        /\ \A n \in DOMAIN index : n # Master
    <3>1. /\ m \in Message /\ k \in Message /\ chatIndex \subseteq ChatRow
          /\ index \in Seq(IndexRow)
      BY <1>1 DEF Inv, TypeInv, TypeOK
    <3> QED
      BY <3>1 DEF Message, ChatRow, Master
  <2>2. /\ m \in master \/ In(m, index, tables)
        /\ k \in master \/ In(k, index, tables)
    BY <1>1 DEF In
  <2>3. ASSUME NEW r \in found, m.index \in Asked(r)
        PROVE  r.table \in DOMAIN index /\ m \in tables[r.table]
    BY <1>1, <2>1, <2>2, <2>3, InSpan
  <2>4. ASSUME NEW r \in found, k.index \in Asked(r)
        PROVE  r.table \in DOMAIN index /\ k \in tables[r.table]
    BY <1>1, <2>1, <2>2, <2>4, InSpan
  <2>5. \A r \in found : m.index \in Asked(r) \/ k.index \in Asked(r)
    BY <1>1
  <2>6. ASSUME NEW q \in GetChatTablesByChatIndexes(m.chat, indexes),
               m \in Rows(q.table), m.index \in q.indexes
        PROVE  m \in GetMessagesByIndexes(m.chat, indexes)
    BY <2>6 DEF GetMessagesByIndexes
  <2>7. CASE \E r \in found : m.index \in Asked(r)
    <3>1. PICK r \in found : m.index \in Asked(r)
      BY <2>7
    <3>2. r.table \in DOMAIN index /\ m \in tables[r.table]
      BY <2>3, <3>1
    <3>3. \A y \in found : y.table = r.table
      <4> TAKE y \in found
      <4>1. CASE m.index \in Asked(y)
        <5>1. y.table \in DOMAIN index /\ m \in tables[y.table]
          BY <2>3, <4>1
        <5>2. y \in chatIndex /\ y.gid = m.chat /\ r \in chatIndex /\ r.gid = m.chat
          OBVIOUS
        <5> QED
          BY <1>1, <3>2, <5>1, OneTable
      <4>2. CASE k.index \in Asked(y)
        <5>1. y.table \in DOMAIN index /\ k \in tables[y.table]
          BY <2>4, <4>2
        <5> QED
          BY <1>1, <3>2, <5>1
      <4> QED
        BY <2>5, <4>1, <4>2
    <3>4. r \in {x \in found : \A y \in found : y.table <= x.table}
      <4>1. r.table \in Nat
        BY <1>1, <3>2 DEF Inv, TypeInv, TypeOK
      <4> QED
        BY <3>3, <4>1
    <3> DEFINE q == [table |-> r.table, indexes |-> Asked(r)]
    <3>5. q \in GetChatTablesByChatIndexes(m.chat, indexes)
      BY <3>4 DEF GetChatTablesByChatIndexes
    <3>6. m \in Rows(q.table) /\ m.index \in q.indexes
      BY <2>1, <3>1, <3>2 DEF Rows
    <3> QED
      BY <2>6, <3>5, <3>6
  <2>8. CASE ~ \E r \in found : m.index \in Asked(r)
    <3> DEFINE q == [table   |-> Master,
                     indexes |-> indexes \ UNION {Asked(r) : r \in found}]
    <3>1. q \in GetChatTablesByChatIndexes(m.chat, indexes)
      BY DEF GetChatTablesByChatIndexes
    <3>2. m.index \in q.indexes
      BY <1>1, <2>8
    <3>3. m \in master
      <4> SUFFICES ASSUME NEW n \in DOMAIN index, m \in tables[n], Listed(n)
                   PROVE  FALSE
        BY <1>1
      <4>1. PICK x \in chatIndex : x.table = n /\ x.gid = m.chat
        BY <1>1 DEF Listed, EnteredInv, Entered
      <4>2. x.startIndex <= m.index /\ m.index <= x.endIndex
        BY <1>1, <4>1 DEF EnteredInv, Entered, Covers
      <4>3. m.index \in Asked(x)
        BY <1>1, <2>1, <4>2
      <4> QED
        BY <2>8, <4>1, <4>3
    <3>4. m \in Rows(q.table)
      BY <3>3 DEF Rows
    <3> QED
      BY <2>6, <3>1, <3>2, <3>4
  <2> QED
    BY <2>7, <2>8
<1>2. ASSUME Inv, EnteredInv, OrderInv PROVE FoundByIndex
  <2> SUFFICES ASSUME NEW m \in Readable, NEW k \in Readable, m.chat = k.chat,
                      Together(m, k)
               PROVE  {m, k} \subseteq GetMessagesByIndexes(m.chat, {m.index, k.index})
    BY DEF FoundByIndex
  <2>1. m \in GetMessagesByIndexes(m.chat, {m.index, k.index})
    BY <1>1, <1>2
  <2>2. Together(k, m) /\ {m.index, k.index} = {k.index, m.index}
    OBVIOUS
  <2> HIDE DEF Readable, Together
  <2>3. k \in GetMessagesByIndexes(k.chat, {m.index, k.index})
    BY <1>1, <1>2, <2>2
  <2> QED
    BY <2>1, <2>3
<1> QED
  BY <1>2, FoundHolds, PTL

(***************************************************************************)
(* What readers count. The sum of the counts is a fold over the rows; that *)
(* it is the number of messages in their tables follows without the        *)
(* induction theorems, from a row set of least size for which it were not. *)
(***************************************************************************)

Pick(s) == CHOOSE x \in s : TRUE

\* The equation that the fold is defined by,
SumBody(S, sum) ==
  [s \in SUBSET S |->
     IF s = {} THEN 0 ELSE Pick(s).count + sum[s \ {Pick(s)}]]

LEMMA SumDef ==
  ASSUME NEW S
  PROVE  MapThenSumSet(LAMBDA r : r.count, S) = (CHOOSE sum : sum = SumBody(S, sum))[S]
  BY DEF MapThenSumSet, MapThenFoldSet, SumBody, Pick

\* All that the rows of s count.
All(part, s) == UNION {part[r] : r \in s}

\* which the size of the union solves when the sets counted are disjoint,
LEMMA UnionSize ==
  ASSUME NEW s, NEW part, NEW U, IsFiniteSet(U),
         \A r \in s : part[r] \subseteq U /\ r.count = Cardinality(part[r]),
         \A r, q \in s : r # q => part[r] \cap part[q] = {},
         NEW x \in s
  PROVE  Cardinality(All(part, s)) =
           x.count + Cardinality(All(part, s \ {x}))
<1> DEFINE rest == All(part, s \ {x})
<1>1. rest \subseteq U /\ part[x] \subseteq U /\ part[x] \cap rest = {}
  BY DEF All
<1>2. All(part, s) = part[x] \cup rest
  BY DEF All
<1> HIDE DEF rest
<1>3. IsFiniteSet(part[x]) /\ IsFiniteSet(rest)
  BY <1>1, FS_Subset
<1>4. Cardinality(part[x] \cup rest) =
        Cardinality(part[x]) + Cardinality(rest) - Cardinality(part[x] \cap rest)
  BY <1>3, FS_Union
<1>5. /\ Cardinality(part[x] \cap rest) = 0 /\ x.count = Cardinality(part[x])
      /\ Cardinality(part[x]) \in Nat /\ Cardinality(rest) \in Nat
  BY <1>1, <1>3, FS_EmptySet, FS_CardinalityType
<1>6. Cardinality(part[x] \cup rest) = x.count + Cardinality(rest)
  BY <1>4, <1>5
<1> QED
  BY <1>2, <1>6 DEF rest

\* and nothing else does.
LEMMA SumOfCounts ==
  ASSUME NEW S, IsFiniteSet(S), NEW part, NEW U, IsFiniteSet(U),
         \A r \in S : part[r] \subseteq U /\ r.count = Cardinality(part[r]),
         \A r, q \in S : r # q => part[r] \cap part[q] = {}
  PROVE  MapThenSumSet(LAMBDA r : r.count, S) = Cardinality(All(part, S))
<1> DEFINE Size(s) == Cardinality(All(part, s))
           size    == [s \in SUBSET S |-> Size(s)]
           sum     == CHOOSE f : f = SumBody(S, f)
<1>1. Size({}) = 0
  BY FS_EmptySet DEF All
<1>2. ASSUME NEW s \in SUBSET S, s # {}
      PROVE  Pick(s) \in s /\ Size(s) = Pick(s).count + Size(s \ {Pick(s)})
  <2>1. Pick(s) \in s
    BY <1>2 DEF Pick
  <2>2. /\ \A r \in s : part[r] \subseteq U /\ r.count = Cardinality(part[r])
        /\ \A r, q \in s : r # q => part[r] \cap part[q] = {}
    OBVIOUS
  <2>3. Size(s) = Pick(s).count + Size(s \ {Pick(s)})
    BY <2>1, <2>2, UnionSize
  <2> QED
    BY <2>1, <2>3
<1> HIDE DEF Size
<1>3. size = SumBody(S, size)
  <2>1. ASSUME NEW s \in SUBSET S
        PROVE  Size(s) = IF s = {} THEN 0 ELSE Pick(s).count + size[s \ {Pick(s)}]
    BY <1>1, <1>2
  <2> QED
    BY <2>1 DEF SumBody
<1> HIDE DEF size
<1>4. sum = SumBody(S, sum)
  BY <1>3
<1> HIDE DEF sum
<1>5. \A s \in SUBSET S :
        sum[s] = IF s = {} THEN 0 ELSE Pick(s).count + sum[s \ {Pick(s)}]
  BY <1>4 DEF SumBody
<1>6. sum[S] = Size(S)
  <2> SUFFICES ASSUME sum[S] # Size(S) PROVE FALSE
    OBVIOUS
  <2> DEFINE Wrong == {Cardinality(s) : s \in {t \in SUBSET S : sum[t] # Size(t)}}
  <2>1. \A s \in SUBSET S : IsFiniteSet(s) /\ Cardinality(s) \in Nat
    BY FS_Subset, FS_CardinalityType
  <2>2. Wrong \subseteq Nat /\ Cardinality(S) \in Wrong
    BY <2>1
  <2>3. Min(Wrong) \in Wrong /\ \A n \in Wrong : Min(Wrong) <= n
    BY <2>2, HasLeast
  <2>4. PICK s \in SUBSET S : sum[s] # Size(s) /\ \A n \in Wrong : Cardinality(s) <= n
    BY <2>3
  <2>5. s # {}
    BY <1>1, <1>5, <2>4
  <2>6. Pick(s) \in s /\ Size(s) = Pick(s).count + Size(s \ {Pick(s)})
    BY <1>2, <2>5
  <2>7. sum[s \ {Pick(s)}] # Size(s \ {Pick(s)})
    BY <1>5, <2>4, <2>5, <2>6
  <2>8. Cardinality(s \ {Pick(s)}) \in Wrong
    BY <2>7
  <2>9. Cardinality(s \ {Pick(s)}) = Cardinality(s) - 1
    BY <2>1, <2>6, FS_RemoveElement
  <2> QED
    BY <2>1, <2>4, <2>8, <2>9
<1> QED
  BY <1>6, SumDef DEF Size, sum

\* Every chat has as many messages as its last index says.
Own(c)  == {m \in sent : m.chat = c}
SentInv == \A c \in Chats : Cardinality(Own(c)) = last[c]

LEMMA SentNext == Inv /\ SentInv /\ [Next]_vars => SentInv'
<1> SUFFICES ASSUME Inv, SentInv, [Next]_vars PROVE SentInv'
  OBVIOUS
<1>1. ASSUME NEW c \in Chats, Store(c) PROVE SentInv'
  <2> DEFINE m == [id |-> nextId, chat |-> c, index |-> last[c] + 1]
  <2>1. /\ m.chat = c /\ m.index = last[c] + 1 /\ sent' = sent \cup {m}
        /\ last' = [last EXCEPT ![c] = @ + 1]
    BY <1>1 DEF Store
  <2> HIDE DEF m
  <2>2. last \in [Chats -> Nat] /\ IsFiniteSet(sent)
    BY DEF Inv, TypeInv, TypeOK, RowsInv
  <2>3. m \notin sent
    <3>1. \A k \in sent : k.index <= last[k.chat]
      BY DEF Inv, TypeInv, RowsInv
    <3>2. last[c] \in Nat
      BY <2>2
    <3>3. m \in sent => last[c] + 1 <= last[c]
      BY <2>1, <3>1
    <3> QED
      BY <3>2, <3>3
  <2> SUFFICES ASSUME NEW d \in Chats PROVE Cardinality(Own(d)') = last'[d]
    BY DEF SentInv
  <2>4. IsFiniteSet(Own(d)) /\ m \notin Own(d) /\ Cardinality(Own(d)) = last[d]
    BY <2>2, <2>3, FS_Subset DEF Own, SentInv
  <2>5. CASE d = c
    <3>1. Own(d)' = Own(d) \cup {m}
      BY <2>1, <2>5 DEF Own
    <3>2. Cardinality(Own(d) \cup {m}) = Cardinality(Own(d)) + 1
      BY <2>4, FS_AddElement
    <3> QED
      BY <2>1, <2>2, <2>4, <2>5, <3>1, <3>2
  <2>6. CASE d # c
    <3>1. Own(d)' = Own(d)
      BY <2>1, <2>6 DEF Own
    <3> QED
      BY <2>1, <2>2, <2>4, <2>6, <3>1
  <2> QED
    BY <2>5, <2>6
<1>2. CASE UNCHANGED <<sent, last>>
  BY <1>2 DEF SentInv, Own
<1>3. (\A c \in Chats : ~Store(c)) => UNCHANGED <<sent, last>>
  BY DEF Next, Job, Midnight, Check, CreateTable, CopyBatch, EnterTable, EnterChats,
         BackUp, CreateTmp, CountKept, KeepBatch, Swap, DropOld, Reload, Unmark,
         MidnightFails, Fail, Crash, GiveUp, vars, msgVars
<1> QED
  BY <1>1, <1>2, <1>3

LEMMA SentHolds == Spec => []SentInv
<1>1. Init => SentInv
  <2> SUFFICES ASSUME Init, NEW c \in Chats PROVE Cardinality(Own(c)) = last[c]
    BY DEF SentInv
  <2>1. Own(c) = {} /\ last[c] = 0
    BY DEF Init, Own
  <2> QED
    BY <2>1, FS_EmptySet
<1> QED
  BY <1>1, SentNext, InvHolds, PTL DEF Spec

\* When no message was lost, all tables are listed and no row is both in a
\* partition table and in im_message, each message of a chat is counted once.
THEOREM CountIsRight == Spec => []CountsEachOnce
<1>1. ASSUME Inv, EnteredInv, SentInv, late = {},
             \A n \in DOMAIN index : Listed(n) /\ tables[n] \cap master = {},
             NEW c \in Chats
      PROVE  GetMessageCount(c) = last[c]
  <2> DEFINE here == {m \in master : m.chat = c}
             rows == {r \in chatIndex : r.gid = c}
             part == [r \in rows |-> {m \in tables[r.table] : m.chat = c}]
             there == All(part, rows)
  <2>1. /\ IsFiniteSet(sent) /\ master \subseteq sent
        /\ \A n \in DOMAIN tables : tables[n] \subseteq sent
        /\ DOMAIN index \subseteq DOMAIN tables
    <3>1. TypeInv
      BY <1>1 DEF Inv
    <3> QED
      BY <3>1, TableTypes DEF TypeInv, RowsInv
  <2>2. \A r \in rows : /\ r.table \in DOMAIN index
                        /\ r = Stats(tables[r.table], r.table, c)
    BY <1>1 DEF EnteredInv, Entered
  <2>3. \A r \in rows : part[r] \subseteq sent /\ r.count = Cardinality(part[r])
    <3> TAKE r \in rows
    <3>1. part[r] = {m \in tables[r.table] : m.chat = c}
      OBVIOUS
    <3>2. Stats(tables[r.table], r.table, c).count =
            Cardinality({m \in tables[r.table] : m.chat = c})
      BY DEF Stats
    <3>3. r.count = Stats(tables[r.table], r.table, c).count
      BY <2>2
    <3>4. part[r] \subseteq sent
      BY <2>1, <2>2, <3>1
    <3> QED
      BY <3>1, <3>2, <3>3, <3>4
  <2>4. ASSUME NEW r \in rows, NEW q \in rows, r # q
        PROVE  part[r] \cap part[q] = {}
    <3> SUFFICES ASSUME NEW m, m \in tables[r.table], m \in tables[q.table]
                 PROVE  FALSE
      OBVIOUS
    <3>1. r.table = q.table
      BY <1>1, <2>2, OneTable
    <3> QED
      BY <2>2, <2>4, <3>1
  <2>5. \A m : m \in there <=> \E r \in rows : m \in tables[r.table] /\ m.chat = c
    <3>1. \A r \in rows : part[r] = {m \in tables[r.table] : m.chat = c}
      OBVIOUS
    <3> HIDE DEF part, rows
    <3>2. \A m : m \in there <=> \E r \in rows : m \in part[r]
      BY DEF All
    <3> QED
      BY <3>1, <3>2
  <2>6. here \cap there = {} /\ here \cup there = Own(c)
    <3> HIDE DEF there
    <3>1. \A r \in rows : tables[r.table] \cap master = {}
      BY <1>1, <2>2
    <3>2. here \subseteq Own(c) /\ there \subseteq Own(c)
      BY <2>1, <2>2, <2>5 DEF Own
    <3>3. ASSUME NEW m \in Own(c), m \notin master PROVE m \in there
      <4>1. PICK n \in DOMAIN index : m \in tables[n]
        BY <1>1, <3>3 DEF Own, Inv, SoundNow, Sound, In
      <4>2. PICK r \in chatIndex : r.table = n /\ r.gid = m.chat
        BY <1>1, <4>1 DEF Listed, EnteredInv, Entered
      <4> QED
        BY <2>5, <3>3, <4>1, <4>2 DEF Own
    <3>4. here \cap there = {}
      BY <2>5, <3>1
    <3> QED
      BY <3>2, <3>3, <3>4 DEF Own
  <2>7. IsFiniteSet(rows)
    <3> DEFINE row == [n \in DOMAIN index |-> Stats(tables[n], n, c)]
    <3>1. IsFiniteSet(DOMAIN index)
      <4>1. DOMAIN index = 1 .. Len(index) /\ Len(index) \in Nat
        BY <1>1 DEF Inv, TypeInv, TypeOK
      <4> QED
        BY <4>1, FS_Interval
    <3> DEFINE made == {row[n] : n \in DOMAIN index}
    <3>2. row \in Surjection(DOMAIN index, made)
      BY DEF Surjection
    <3>3. rows \subseteq made
      BY <2>2
    <3> HIDE DEF row, made
    <3>4. IsFiniteSet(made)
      BY <3>1, <3>2, FS_Surjection
    <3> QED
      BY <3>3, <3>4, FS_Subset
  <2>8. MapThenSumSet(LAMBDA r : r.count, rows) = Cardinality(there)
    <3> HIDE DEF rows, part
    <3> QED
      BY <2>1, <2>3, <2>4, <2>7, SumOfCounts
  <2> HIDE DEF there, rows, here
  <2>9. Cardinality(here \cup there) = Cardinality(here) + Cardinality(there)
    <3>1. here \subseteq sent /\ there \subseteq sent
      BY <2>6 DEF Own
    <3>2. IsFiniteSet(here) /\ IsFiniteSet(there)
      BY <2>1, <3>1, FS_Subset
    <3>3. Cardinality(here \cap there) = 0
      BY <2>6, FS_EmptySet
    <3>4. /\ Cardinality(here \cup there) =
               Cardinality(here) + Cardinality(there) - Cardinality(here \cap there)
          /\ Cardinality(here) \in Nat /\ Cardinality(there) \in Nat
      BY <3>2, FS_Union, FS_CardinalityType
    <3> QED
      BY <3>3, <3>4
  <2>10. GetMessageCount(c) = Cardinality(here) + Cardinality(there)
    BY <2>8 DEF GetMessageCount, here, rows
  <2> QED
    BY <1>1, <2>6, <2>9, <2>10 DEF SentInv
<1>2. Inv /\ EnteredInv /\ SentInv => CountsEachOnce
  BY <1>1 DEF CountsEachOnce
<1> QED
  BY <1>2, FoundHolds, SentHolds, PTL

===========================================================================
