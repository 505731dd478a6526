------------------------- MODULE MessagePartition -------------------------
(***************************************************************************)
(* The nightly maintenance of xxd (src/xxd/service/im/maintenance.go,      *)
(* src/xxd/model/message.go): when im_message has grown by two tables'     *)
(* worth of ids, the oldest messages are copied to a table of their own,   *)
(* which is entered in two index tables, and im_message is replaced by a   *)
(* copy of what is left. Chats go on storing messages meanwhile, any       *)
(* access to the database may fail, and xxd may crash and restart.         *)
(*                                                                         *)
(* The code runs a partition in a transaction, but CREATE TABLE and RENAME *)
(* TABLE commit it, and the statements after them commit one by one. Only  *)
(* when AutoMigrate finds the new table of an earlier, failed run and has  *)
(* nothing to alter in it does the transaction stay open.                  *)
(*                                                                         *)
(* Left out: dates and contents of messages, their retraction, readers     *)
(* that are in the middle of a query, ids that are allocated and not used  *)
(* (so that no table stays empty, which would be an error of its own), and *)
(* a second maintenance job: cron starts one each midnight, for the one    *)
(* server of the default configuration, so that the temporary tables,      *)
(* named after the day, do not exist before the job creates them.          *)
(***************************************************************************)
EXTENDS Naturals, Sequences, FiniteSetsExt

CONSTANTS
  Chats,        \* the chats, by gid
  PerTable,     \* config_im_partition_messagePerTable
  BatchSize,    \* batchSize: how many rows one INSERT ... SELECT copies
  MaxMessages,  \* bound: MaxMessages[c] messages are stored in chat c
  MaxFaults     \* bound: failed accesses to the database, and crashes

ASSUME PartitionAssumption ==
  /\ PerTable \in Nat \ {0}
  /\ BatchSize \in Nat \ {0}
  /\ MaxMessages \in [Chats -> Nat]
  /\ MaxFaults \in Nat

VARIABLES
  master,     \* im_message: its rows
  nextId,     \* its AUTO_INCREMENT counter
  last,       \* lastMessageIndex of the chats
  tables,     \* tables[n]: the rows of im_message_<n>
  index,      \* index[n]: the row of im_message_index for table n
  chatIndex,  \* im_chat_message_index: its rows
  backup,     \* im_message_backup: its rows
  saved,      \* what a rollback restores, in an open transaction
  tmp,        \* the table that is to replace im_message
  old,        \* the replaced im_message, until it is dropped
  cache,      \* messageIndexCache
  mark,       \* system.common.partition.ongoing, "unset" before the first night
  pc,         \* the step the job is at
  end,        \* End of the last row of im_message_index when it began
  at,         \* how far its current loop over batches has come
  total,      \* totalCount
  sent,       \* history: every message that was stored
  late,       \* history: those stored while im_message was being replaced
  hidden,     \* history: im_message was replaced, and cache not reloaded
  faults      \* failures and crashes so far

msgVars  == <<nextId, last, sent, late>>
idxVars  == <<index, chatIndex, backup>>
jobVars  == <<end, at, total>>
vars == <<master, msgVars, tables, idxVars, saved, tmp, old, cache, mark, pc,
          jobVars, hidden, faults>>

Steps == {"idle", "check", "create", "copy", "index", "chats", "backup", "tmp",
          "count", "keep", "swap", "drop", "reload", "unmark"}

Message  == [id : Nat, chat : Chats, index : Nat]
IndexRow == [start : Nat, end : Nat]
ChatRow  == [gid : Chats, table : Nat, start : Nat, end : Nat,
             startIndex : Nat, endIndex : Nat, count : Nat]
Snapshot == [tables : Seq(SUBSET Message), index : Seq(IndexRow),
             chatIndex : SUBSET ChatRow, backup : SUBSET Message]

TypeOK ==
  /\ master \subseteq Message /\ tmp \subseteq Message /\ old \subseteq Message
  /\ nextId \in Nat \ {0} /\ last \in [Chats -> Nat]
  /\ tables \in Seq(SUBSET Message) /\ Len(tables) \in {Len(index), Len(index) + 1}
  /\ index \in Seq(IndexRow) /\ cache \in Seq(IndexRow)
  /\ chatIndex \subseteq ChatRow /\ backup \subseteq Message
  /\ saved \in Seq(Snapshot) /\ Len(saved) <= 1
  /\ mark \in {"unset", "true", "false"} /\ pc \in Steps
  /\ end \in Nat /\ at \in Nat /\ total \in Nat
  /\ sent \subseteq Message /\ late \subseteq Message
  /\ hidden \in BOOLEAN /\ faults \in 0 .. MaxFaults

Ids(rows) == {m.id : m \in rows}

Init ==
  /\ master = {} /\ tmp = {} /\ old = {} /\ backup = {}
  /\ nextId = 1 /\ last = [c \in Chats |-> 0]
  /\ tables = <<>> /\ index = <<>> /\ cache = <<>> /\ chatIndex = {}
  /\ saved = <<>> /\ mark = "unset" /\ pc = "idle"
  /\ end = 0 /\ at = 0 /\ total = 0
  /\ sent = {} /\ late = {} /\ hidden = FALSE /\ faults = 0

(***************************************************************************)
(* Messages                                                                *)
(***************************************************************************)

\* A request commits a message, with the next index of its chat.
Store(c) ==
  LET m == [id |-> nextId, chat |-> c, index |-> last[c] + 1]
  IN /\ last[c] < MaxMessages[c]
     /\ master' = master \cup {m}
     /\ nextId' = nextId + 1
     /\ last' = [last EXCEPT ![c] = @ + 1]
     /\ sent' = sent \cup {m}
     /\ late' = IF pc \in {"keep", "swap"} THEN late \cup {m} ELSE late
     /\ UNCHANGED <<tables, idxVars, saved, tmp, old, cache, mark, pc, jobVars,
                    hidden, faults>>

(***************************************************************************)
(* The job                                                                 *)
(***************************************************************************)

\* MessageNeedPartition: the newest id is far beyond the last one indexed.
Need ==
  Max(Ids(master) \cup {0}) >
    Max({index[n].end : n \in DOMAIN index} \cup {0}) + 2 * PerTable

\* The number of the table that the job fills, and the ids that belong in it.
New      == Len(tables)
LastId   == end + PerTable
Moved(m) == m.id \in end + 1 .. LastId

\* mutated: the last message of the new table is kept as well
KeptToo(m) == m.id >= LastId

\* The messages that stay in im_message.
Kept(m) == m.id > LastId

\* mutated: a night that finds the mark leaves it
MidnightLeavesMark ==
  /\ pc = "idle" /\ mark # "true"
  /\ pc' = "check" /\ mark' = "true"
  /\ UNCHANGED <<master, msgVars, tables, idxVars, saved, tmp, old, cache,
                 jobVars, hidden, faults>>

Midnight ==
  /\ pc = "idle"
  /\ IF mark = "true"
     THEN pc' = "unmark" /\ UNCHANGED mark
     ELSE pc' = "check" /\ mark' = "true"
  /\ UNCHANGED <<master, msgVars, tables, idxVars, saved, tmp, old, cache,
                 jobVars, hidden, faults>>

\* A night with failures: when the names of users cannot be indexed, it ends before
\* it looks at the mark. A mark that cannot be read counts as none, and the error of
\* setting it is ignored: the job goes on.
MidnightFails ==
  /\ pc = "idle" /\ faults < MaxFaults /\ faults' = faults + 1
  /\ \/ pc' = "idle" /\ UNCHANGED mark
     \/ pc' = "check" /\ mark' \in {mark, "true"}
  /\ UNCHANGED <<master, msgVars, tables, idxVars, saved, tmp, old, cache,
                 jobVars, hidden>>

\* The deferred call: it clears the mark whoever set it.
Unmark ==
  /\ pc = "unmark"
  /\ mark' = "false"
  /\ pc' = "idle"
  /\ UNCHANGED <<master, msgVars, tables, idxVars, saved, tmp, old, cache,
                 jobVars, hidden, faults>>

Check ==
  /\ pc = "check"
  /\ pc' = IF Need THEN "create" ELSE "unmark"
  /\ UNCHANGED <<master, msgVars, tables, idxVars, saved, tmp, old, cache, mark,
                 jobVars, hidden, faults>>

\* End of the last row of an index.
LastEnd(idx) == IF idx = <<>> THEN 0 ELSE idx[Len(idx)].end

\* mutated: a table of its own for every run, also after one that failed
CreateTableAnew ==
  /\ pc = "create"
  /\ end' = LastEnd(index)
  /\ at' = end' + 1
  /\ tables' = Append(tables, {})
  /\ pc' = "copy"
  /\ UNCHANGED <<master, msgVars, idxVars, saved, tmp, old, cache, mark, total,
                 hidden, faults>>

\* AutoMigrate of im_message_<n>. CREATE TABLE ends the transaction, and so
\* does an ALTER TABLE of a table that is there from a run that failed.
CreateTable ==
  /\ pc = "create"
  /\ end' = LastEnd(index)
  /\ at' = end' + 1
  /\ \/ /\ Len(tables) = Len(index)
        /\ tables' = Append(tables, {})
        /\ UNCHANGED saved
     \/ /\ Len(tables) > Len(index)
        /\ \/ UNCHANGED saved
           \/ saved' = <<[tables |-> tables, index |-> index,
                          chatIndex |-> chatIndex, backup |-> backup]>>
        /\ UNCHANGED tables
  /\ pc' = "copy"
  /\ UNCHANGED <<master, msgVars, idxVars, tmp, old, cache, mark, total, hidden,
                 faults>>

\* What a failing step leaves behind: the changes of an open transaction are
\* undone, all others stay.
RollBack ==
  IF saved = <<>>
  THEN UNCHANGED <<tables, idxVars, saved>>
  ELSE /\ tables' = saved[1].tables
       /\ index' = saved[1].index
       /\ chatIndex' = saved[1].chatIndex
       /\ backup' = saved[1].backup
       /\ saved' = <<>>

GiveUp ==
  /\ RollBack
  /\ pc' = "unmark"
  /\ UNCHANGED <<master, msgVars, tmp, old, cache, mark, jobVars, hidden>>

\* One batch of the copy to the new table; a row that is there already, from
\* a run that failed, is a duplicate of the primary key.
CopyBatch ==
  LET to    == IF at + BatchSize - 1 > LastId THEN LastId ELSE at + BatchSize - 1
      batch == {m \in master : m.id \in at .. to}
  IN /\ pc = "copy"
     /\ \/ /\ Ids(batch) \cap Ids(tables[New]) = {}
           /\ tables' = [tables EXCEPT ![New] = @ \cup batch]
           /\ at' = at + BatchSize
           /\ pc' = IF at' > LastId THEN "index" ELSE "copy"
           /\ UNCHANGED <<master, msgVars, idxVars, saved, tmp, old, cache, mark,
                          end, total, hidden>>
        \/ /\ Ids(batch) \cap Ids(tables[New]) # {}
           /\ GiveUp
     /\ UNCHANGED faults

\* mutated: the last row of the new table is read in ascending order, like the first
EnterTableFirst ==
  LET ids == Ids(tables[New])
  IN /\ pc = "index" /\ ids # {}
     /\ index' = Append(index, [start |-> Min(ids), end |-> Min(ids)])
     /\ pc' = "chats"
     /\ UNCHANGED <<master, msgVars, tables, chatIndex, backup, saved, tmp, old,
                    cache, mark, jobVars, hidden, faults>>

\* MessageReindex enters the new table in im_message_index (it would fail with
\* an empty one, which needs a gap of unused ids) ...
EnterTable ==
  LET ids == Ids(tables[New])
  IN /\ pc = "index" /\ ids # {}
     /\ index' = Append(index, [start |-> Min(ids), end |-> Max(ids)])
     /\ pc' = "chats"
     /\ UNCHANGED <<master, msgVars, tables, chatIndex, backup, saved, tmp, old,
                    cache, mark, jobVars, hidden, faults>>

\* mutated: ids where the indexes belong
ChatStatsOfIds(n, c) ==
  LET rows == {m \in tables[n] : m.chat = c}
  IN [gid |-> c, table |-> n, start |-> Min(Ids(rows)), end |-> Max(Ids(rows)),
      startIndex |-> Min(Ids(rows)), endIndex |-> Max(Ids(rows)),
      count |-> Cardinality(rows)]

\* mutated: the count from the first and the last index, one too low
ChatStatsByRange(n, c) ==
  LET rows    == {m \in tables[n] : m.chat = c}
      indexes == {m.index : m \in rows}
  IN [gid |-> c, table |-> n, start |-> Min(Ids(rows)), end |-> Max(Ids(rows)),
      startIndex |-> Min(indexes), endIndex |-> Max(indexes),
      count |-> Max(indexes) - Min(indexes)]

\* The row of im_chat_message_index for the messages of chat c in table n.
ChatStats(n, c) ==
  LET rows    == {m \in tables[n] : m.chat = c}
      indexes == {m.index : m \in rows}
  IN [gid |-> c, table |-> n, start |-> Min(Ids(rows)), end |-> Max(Ids(rows)),
      startIndex |-> Min(indexes), endIndex |-> Max(indexes),
      count |-> Cardinality(rows)]

\* ... and then, with one INSERT, its chats in im_chat_message_index.
EnterChats ==
  /\ pc = "chats"
  /\ chatIndex' = chatIndex \cup {ChatStats(New, m.chat) : m \in tables[New]}
  /\ pc' = "backup"
  /\ UNCHANGED <<master, msgVars, tables, index, backup, saved, tmp, old, cache,
                 mark, jobVars, hidden, faults>>

BackUp ==
  /\ pc = "backup"
  /\ backup' = backup \cup {m \in master : Moved(m)}
  /\ pc' = "tmp"
  /\ UNCHANGED <<master, msgVars, tables, index, chatIndex, saved, tmp, old,
                 cache, mark, jobVars, hidden, faults>>

\* CREATE TABLE commits what is still open. The name is of today, so that no
\* run that failed can have left rows in it.
CreateTmp ==
  /\ pc = "tmp"
  /\ tmp' = {} /\ saved' = <<>>
  /\ pc' = "count"
  /\ UNCHANGED <<master, msgVars, tables, idxVars, old, cache, mark, jobVars,
                 hidden, faults>>

CountKept ==
  /\ pc = "count"
  /\ total' = Cardinality({m \in master : Kept(m)})
  /\ at' = 0
  /\ pc' = IF total' = 0 THEN "swap" ELSE "keep"
  /\ UNCHANGED <<master, msgVars, tables, idxVars, saved, tmp, old, cache, mark,
                 end, hidden, faults>>

\* The place of a message among those that stay, in the order of their ids.
Rank(m) == Cardinality({k \in master : Kept(k) /\ k.id <= m.id})

\* mutated: the last batch of the messages to keep is left out
KeepBatchShort ==
  /\ pc = "keep"
  /\ tmp' = tmp \cup {m \in master : Kept(m) /\ Rank(m) \in at + 1 .. at + BatchSize}
  /\ at' = at + BatchSize
  /\ pc' = IF at' + BatchSize < total THEN "keep" ELSE "swap"
  /\ UNCHANGED <<master, msgVars, tables, idxVars, saved, old, cache, mark, end,
                 total, hidden, faults>>

\* INSERT ... SELECT ... ORDER BY id LIMIT BatchSize OFFSET at: the offset is
\* into the rows there are now, the number of batches from the count before.
KeepBatch ==
  /\ pc = "keep"
  /\ tmp' = tmp \cup {m \in master : Kept(m) /\ Rank(m) \in at + 1 .. at + BatchSize}
  /\ at' = at + BatchSize
  /\ pc' = IF at' < total THEN "keep" ELSE "swap"
  /\ UNCHANGED <<master, msgVars, tables, idxVars, saved, old, cache, mark, end,
                 total, hidden, faults>>

\* mutated: the counter of the new im_message starts again
SwapCounterReset ==
  /\ pc = "swap"
  /\ old' = master /\ master' = tmp /\ tmp' = {}
  /\ nextId' = 1
  /\ hidden' = TRUE
  /\ pc' = "drop"
  /\ UNCHANGED <<last, sent, late, tables, idxVars, saved, cache, mark, jobVars,
                 faults>>

\* RENAME TABLE im_message TO old, tmp TO im_message: one step. The counter of
\* the new table is what the copied rows have made it.
Swap ==
  /\ pc = "swap"
  /\ old' = master /\ master' = tmp /\ tmp' = {}
  /\ nextId' = Max(Ids(tmp) \cup {0}) + 1
  /\ hidden' = TRUE
  /\ pc' = "drop"
  /\ UNCHANGED <<last, sent, late, tables, idxVars, saved, cache, mark, jobVars,
                 faults>>

DropOld ==
  /\ pc = "drop"
  /\ old' = {}
  /\ pc' = "reload"
  /\ UNCHANGED <<master, msgVars, tables, idxVars, saved, tmp, cache, mark,
                 jobVars, hidden, faults>>

\* InvalidateMessageIndexCache, after which the loop looks whether one more
\* partition is needed. When it cannot read the index it keeps the old cache.
Reload ==
  /\ pc = "reload"
  /\ cache' = index /\ hidden' = FALSE
  /\ pc' = "check"
  /\ UNCHANGED <<master, msgVars, tables, idxVars, saved, tmp, old, mark, jobVars,
                 faults>>

(***************************************************************************)
(* Failures                                                                *)
(***************************************************************************)

\* An access to the database fails: the job rolls back and returns the error,
\* but for the last two steps, which ignore it. A failing DROP TABLE stands also
\* for a failing commit behind it.
Fail ==
  /\ pc # "idle" /\ faults < MaxFaults
  /\ faults' = faults + 1
  /\ \/ pc \notin {"reload", "unmark"} /\ GiveUp
     \/ /\ pc \in {"reload", "unmark"}
        /\ pc' = IF pc = "reload" THEN "check" ELSE "idle"
        /\ UNCHANGED <<master, msgVars, tables, idxVars, saved, tmp, old, cache,
                       mark, jobVars, hidden>>

\* xxd stops, or its database with it, and starts again, which reads the index
\* tables anew (InitMessageIndexCache).
Crash ==
  /\ faults < MaxFaults
  /\ faults' = faults + 1
  /\ RollBack
  /\ pc' = "idle"
  /\ cache' = index' /\ hidden' = FALSE
  /\ UNCHANGED <<master, msgVars, tmp, old, mark, jobVars>>

Job ==
  \/ Midnight
  \/ Check
  \/ CreateTable
  \/ CopyBatch
  \/ EnterTable
  \/ EnterChats
  \/ BackUp
  \/ CreateTmp
  \/ CountKept
  \/ KeepBatch
  \/ Swap
  \/ DropOld
  \/ Reload
  \/ Unmark

Next ==
  \/ \E c \in Chats : Store(c)
  \/ Job
  \/ MidnightFails
  \/ Fail
  \/ Crash

\* The job runs when its time has come, and goes on until it returns.
Spec == Init /\ [][Next]_vars /\ WF_vars(Job)

(***************************************************************************)
(* Readers                                                                 *)
(***************************************************************************)

Master  == 0
Rows(t) == IF t = Master THEN master ELSE tables[t]

\* Which of the ids to look for in which table: by the cached index for the
\* partition tables, and all of them in im_message (processedIDs stays empty).
GetTableByMessages(ids) ==
  {[table |-> n, ids |-> ids \cap cache[n].start .. cache[n].end] : n \in DOMAIN cache}
    \cup {[table |-> Master, ids |-> ids]}

GetList(ids) ==
  UNION {{m \in Rows(q.table) : m.id \in q.ids} : q \in GetTableByMessages(ids)}

\* Which indexes of chat c to look for in which table. The entries of a map
\* are all made under one key, the name of the index table: only the last of
\* the partition tables asked for stays in it.
GetChatTablesByChatIndexes(c, indexes) ==
  LET rows       == {r \in chatIndex : r.gid = c}
      Asked(r)   == indexes \cap r.startIndex .. r.endIndex
      found      == {r \in rows : Asked(r) # {}}
      unindexed  == indexes \ UNION {Asked(r) : r \in found}
  IN {[table |-> r.table, indexes |-> Asked(r)] :
         r \in {x \in found : \A y \in found : y.table <= x.table}}
     \cup {[table |-> Master, indexes |-> unindexed]}

GetMessagesByIndexes(c, indexes) ==
  UNION {{m \in Rows(q.table) : m.chat = c /\ m.index \in q.indexes} :
            q \in GetChatTablesByChatIndexes(c, indexes)}

\* The rows of im_message, and what im_chat_message_index counts elsewhere.
GetMessageCount(c) ==
  Cardinality({m \in master : m.chat = c}) +
    MapThenSumSet(LAMBDA r : r.count, {r \in chatIndex : r.gid = c})

(***************************************************************************)
(* Properties                                                              *)
(***************************************************************************)

\* Every message that was not stored while im_message was being replaced is in
\* im_message or in a table that im_message_index names, whatever step of a
\* partition failed and however it was taken up again (performSinglePartition).
NothingLost ==
  \A m \in sent \ late : m \in master \/ \E n \in DOMAIN index : m \in tables[n]

\* DeleteFromMasterTable keeps what it should keep: its comment in message.go,
\* "keep the data that is needed (id > end)", without exception.
KeepsWhatIsNeeded ==
  pc = "drop" => \A m \in old : Kept(m) => m \in master

\* GetList finds every message by its id through the cached index; only from
\* the moment im_message is replaced until the cache is read again may it not.
FoundById ==
  ~hidden => \A m \in sent \ late : m \in GetList({m.id})

\* All chats of table n are in im_chat_message_index.
Listed(n) == \E r \in chatIndex : r.table = n

\* GetMessagesByIndexes finds two messages of a chat by their indexes, unless
\* they are in two partition tables or in one whose chats were not entered
\* because of a failure.
FoundByIndex ==
  \A m, k \in {x \in sent \ late : x \in master \/
                 \E n \in DOMAIN index : x \in tables[n] /\ Listed(n)} :
    m.chat = k.chat /\
    (\A n, l \in DOMAIN index : m \in tables[n] /\ k \in tables[l] => n = l)
      => {m, k} \subseteq GetMessagesByIndexes(m.chat, {m.index, k.index})

\* GetMessageCount counts every message of a chat once, when none was lost, all
\* tables are listed and no row is both in a partition table and im_message.
CountsEachOnce ==
  (/\ late = {}
   /\ \A n \in DOMAIN index : Listed(n) /\ tables[n] \cap master = {})
  => \A c \in Chats : GetMessageCount(c) = last[c]

\* Once im_message is replaced it shares no message with a partition table,
\* whatever failures had left in both before.
SwapEndsDoubling ==
  pc \in {"drop", "reload"} => \A n \in DOMAIN index : tables[n] \cap master = {}

\* No two messages that can be read have the same id (im_messagestatus names
\* them by it), although the replacing table starts a counter of its own.
IdsAreUnique ==
  \A m, k \in master \cup UNION {tables[n] : n \in DOMAIN tables} :
    m.id = k.id => m = k

\* A run that failed half-way through the copy to the new table: the table has
\* rows that the next run will stumble over.
HalfCopied == pc = "idle" /\ Len(tables) > Len(index) /\ tables[New] # {}

\* When a partition is needed the job does it sooner or later, after failures
\* and crashes and the night they make it skip, unless one left a table half
\* copied (MessagePartitionTable, Maintenance).
CatchesUp == Need ~> (~Need \/ HalfCopied)

\* The comment of MessagePartitionTable, "partition in a loop until no more is
\* needed", whatever a failure has left behind.
AlwaysCatchesUp == Need ~> ~Need

=============================================================================
