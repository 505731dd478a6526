----------------------------- MODULE ChatClient -----------------------------
(***************************************************************************)
(* One group chat as the client of one of its members keeps it             *)
(* (src/xxc/app/core/im): the index of the last message, the list of       *)
(* indexes to show, the messages of the user that the server has not       *)
(* confirmed, and the row of all this in the client's database. Three      *)
(* things that the code does in several steps overlap: the merge of the    *)
(* list of chats that follows a login with the database, the saving of the *)
(* cache, which clears the table and then fills it, and the sending of a   *)
(* message, which ends with its answer or a time-out. Connections break at *)
(* any time, and the client may be closed and started again.               *)
(*                                                                         *)
(* Of the server there is the table of messages, the list of chats it      *)
(* sends at a login, and that a message with a known gid is not stored     *)
(* twice. Whatever is in the table may reach the client, in any order and  *)
(* more than once: pushed, kept for the user while offline, or loaded      *)
(* because it is in the list of indexes; and any of it may be lost. Which  *)
(* messages the server sends to whom is in Hub and MessageLog.             *)
(*                                                                         *)
(* Left out: several chats and devices, read marks and unread messages,    *)
(* notifications (indexes that are no integers), retraction, the history   *)
(* that is synchronised as a whole, and changes of the user's account. The *)
(* client has merged one list of chats before it takes the next one.       *)
(***************************************************************************)
EXTENDS Integers, Sequences, FiniteSetsExt

CONSTANTS
  Own,          \* the messages the user may write, by gid
  Other,        \* stands for the gid of any message of another member
  Backlog,      \* len of checkLatestMessageIndexes
  MaxMessages,  \* bound: messages in the chat
  MaxLogins,    \* bound: logins of the client
  MaxRestarts   \* bound: restarts of the client

ASSUME ChatClientAssumption ==
  Other \notin Own /\ {Backlog, MaxMessages, MaxLogins, MaxRestarts} \subseteq Nat

VARIABLES
  log,        \* im_message: the gids of the chat's messages, by their indexes
  requests,   \* messages of the user that are on their way to the server
  link,       \* the client's connection: "off", "listed" (the list is sent) or "on"
  sent,       \* the list of chats on its way: the index of the last message
  chat,       \* the cached Chat, <<>> when there is none
  known,      \* messages of the user that the cache has as messages of the server
  bodies,     \* messages of the user in this cache under their local ids
  written,    \* messages the user has written
  listening,  \* messages for which sendAndListen waits
  merge,      \* storeChatsFromRemote while it waits for the database
  db,         \* dexie.database.chats: the row of the chat
  dirty,      \* saveChatsToDatabase is due: "no", "yes" or "reset"
  putting,    \* the row it puts next, having cleared the table
  logins,     \* logins so far
  restarts,   \* restarts so far
  \* history, read by no guard
  late,       \* messages that were given up, sent or restored when they were known
  kept,       \* messages saved with nothing else under way, and not sent or deleted since
  carried     \* the list of indexes is from before the last list of chats

serverVars == <<log, requests>>
linkVars   == <<link, sent>>
chatVars   == <<chat, known, bodies, late, carried>>
sendVars   == <<written, listening>>
dbVars     == <<db, dirty, putting, kept>>
boundVars  == <<logins, restarts>>
vars == <<serverVars, linkVars, chatVars, sendVars, dbVars, boundVars, merge>>

Indexes  == 1 .. Len(log)
Gids(is) == {log[i] : i \in is}
Chat     == [last : Nat, list : SUBSET (Nat \ {0}), local : SUBSET Own]
Row      == [last : Nat, local : SUBSET Own]
NoRow    == [last |-> 0, local |-> {}]
List     == [last : Nat, failed : BOOLEAN]
NoList   == [last |-> 0, failed |-> FALSE]

\* What each variable holds; without a chat nothing is due or waited for.
TypeOK ==
  /\ log \in Seq(Own \cup {Other}) /\ requests \subseteq Own
  /\ link \in {"off", "listed", "on"} /\ sent \in List
  /\ chat \in Seq(Chat) /\ Len(chat) <= 1
  /\ known \subseteq Own /\ bodies \subseteq written
  /\ written \subseteq Own /\ listening \subseteq written
  /\ merge \in Seq([list : List, indexes : SUBSET (Nat \ {0}), row : Row]) /\ Len(merge) <= 1
  /\ db \in Row /\ dirty \in {"no", "yes", "reset"}
  /\ (chat = <<>> => dirty = "no" /\ listening = {})
  /\ putting \in Seq(Row) /\ Len(putting) <= 1
  /\ late \subseteq Own /\ kept \subseteq Own /\ carried \in BOOLEAN
  /\ logins \in 0 .. MaxLogins /\ restarts \in 0 .. MaxRestarts

Init ==
  /\ log = <<>> /\ requests = {} /\ link = "off" /\ sent = NoList
  /\ chat = <<>> /\ known = {} /\ bodies = {} /\ written = {} /\ listening = {}
  /\ merge = <<>> /\ db = NoRow /\ dirty = "no" /\ putting = <<>>
  /\ late = {} /\ kept = {} /\ carried = FALSE /\ logins = 0 /\ restarts = 0

-----------------------------------------------------------------------------
(***************************************************************************)
(* The server                                                              *)
(***************************************************************************)
clientVars == <<linkVars, chatVars, sendVars, db, dirty, putting, boundVars, merge>>

\* Another member's message is stored.
StoreOther ==
  /\ Len(log) < MaxMessages
  /\ log' = Append(log, Other)
  /\ UNCHANGED <<requests, kept, clientVars>>

\* A request of the client stores its message, or finds it stored. One that is lost
\* is one that is never taken.
StoreOwn(g) ==
  /\ g \in requests /\ requests' = requests \ {g}
  /\ IF g \in Gids(Indexes) THEN log' = log
     ELSE Len(log) < MaxMessages /\ log' = Append(log, g)
  /\ kept' = kept \ {g}
  /\ UNCHANGED clientVars

\* mutated: the list of chats comes from a cache and is one message behind.
CachedLogin ==
  /\ link = "off" /\ link' = "listed"
  /\ logins < MaxLogins /\ logins' = logins + 1
  /\ sent' = [last |-> IF log = <<>> THEN 0 ELSE Len(log) - 1, failed |-> FALSE]
  /\ UNCHANGED <<serverVars, chatVars, sendVars, dbVars, restarts, merge>>

\* The client logs in, and the list of chats is read and sent. The error of the query
\* for the last messages is ignored: the chat is then sent without one.
Login ==
  /\ link = "off" /\ link' = "listed"
  /\ logins < MaxLogins /\ logins' = logins + 1
  /\ \E failed \in BOOLEAN :
       /\ failed => log # <<>>
       /\ sent' = [last |-> IF failed THEN 0 ELSE Len(log), failed |-> failed]
  /\ UNCHANGED <<serverVars, chatVars, sendVars, dbVars, restarts, merge>>
Break ==
  /\ link # "off" /\ link' = "off" /\ sent' = NoList
  /\ UNCHANGED <<serverVars, chatVars, sendVars, dbVars, boundVars, merge>>

-----------------------------------------------------------------------------
(***************************************************************************)
(* The client: the chat                                                    *)
(***************************************************************************)
TheChat   == chat[1]
Whole(c)  == IF c.list = {} THEN c.last = 0 ELSE c.list = Min(c.list) .. c.last
Due       == IF dirty = "no" THEN "yes" ELSE dirty

\* mutated: gaps in the list are not looked for.
NotChecked(c) == c

\* checkLatestMessageIndexes: a list with a gap becomes the indexes from Backlog
\* before its last unbroken stretch on, which are loaded when they are shown.
Checked(c) ==
  LET start == Min({p \in 1 .. c.last : p .. c.last - 1 \subseteq c.list \ {Max(c.list)}})
  IN  IF Cardinality(c.list) < 2 \/ c.last - Min(c.list) + 1 = Cardinality(c.list) THEN c
      ELSE [c EXCEPT !.list = Max({start - Backlog, 1}) .. c.last]

\* mutated: messages that are confirmed stay local.
SetLatestOnly(c, is) ==
  Checked([last |-> Max({c.last} \cup is), list |-> c.list \cup is, local |-> c.local])

\* setLatestMessages, for messages of the server.
SetLatest(c, is) ==
  LET new == [last |-> Max({c.last} \cup is), list |-> c.list \cup is,
              local |-> c.local \ Gids(is)]
  IN  IF is \subseteq c.list THEN new ELSE Checked(new)

\* chatMessagesStore.store, for messages of the server with these indexes: they go to
\* the cache, and if there is a chat, to it.
StoreMessages(is) ==
  /\ known' = known \cup (Gids(is) \cap Own)
  /\ IF chat = <<>> THEN UNCHANGED <<chat, carried, dirty, late>>
     ELSE /\ chat' = <<SetLatest(TheChat, is)>>
          /\ carried' = (carried /\ ~Whole(chat'[1]))
          /\ late' = late \ Gids(is)
          /\ dirty' = IF chat'[1].last # TheChat.last \/ chat'[1].local # TheChat.local
                      THEN Due ELSE dirty

\* The same for a message of the user that has a local id.
StoreLocal(g) ==
  /\ bodies' = bodies \cup {g}
  /\ chat' = <<[TheChat EXCEPT !.local = @ \cup {g}]>>
  /\ late' = IF g \in known THEN late \cup {g} ELSE late
  /\ dirty' = Due

(***************************************************************************)
(* The client: what the server sends                                       *)
(***************************************************************************)

\* chatGetList: the list of indexes is taken from the chat there is, the rows are
\* asked of the database, and the last message is stored, in the old chat. Only then
\* come pushes. Who reads the table while it is cleared finds no row.
ReceiveList ==
  /\ link = "listed" /\ link' = "on" /\ sent' = NoList /\ merge = <<>>
  /\ merge' = <<[list |-> sent, row |-> db,
                 indexes |-> IF chat = <<>> THEN {} ELSE TheChat.list]>>
  /\ StoreMessages({sent.last} \ {0})
  /\ kept' = IF putting = <<>> THEN kept ELSE {}
  /\ UNCHANGED <<serverVars, sendVars, bodies, db, putting, boundVars>>

\* Messages arrive: one that is pushed, the messages kept for the user, or some that
\* are loaded. Messages filtered out for want of a chat are not stored. A push may be
\* the answer to the request for its message.
Receive(is) ==
  /\ link = "on" /\ chat # <<>>
  /\ StoreMessages(is)
  /\ \E answered \in SUBSET (listening \cap Gids(is)) : listening' = listening \ answered
  /\ UNCHANGED <<serverVars, linkVars, bodies, written, merge, db, putting, kept, boundVars>>

\* mutated: a chat without a last message still gets its index into the list.
MergedUntested(m) ==
  [last |-> m.list.last, local |-> m.row.local,
   list |-> IF m.indexes = {} THEN {m.list.last} ELSE m.indexes]
\* mutated: the local messages of the row are not merged.
MergedRemoteOnly(m) ==
  [last |-> m.list.last, local |-> {},
   list |-> IF m.indexes = {} THEN {m.list.last} \ {0} ELSE m.indexes]

\* mergeChatsFromDatabase and the rest of storeChatsFromRemote, when the row is there.
\* A list that ends before the row makes the client clear its messages of the chat; the
\* error of that is swallowed, and the cached ones stay. What the old chat has learnt
\* meanwhile is not in the new one.
RolledBack(m) == m.list.last < m.row.last
Merged(m) ==
  [last |-> m.list.last, local |-> m.row.local,
   list |-> IF m.indexes = {} THEN {m.list.last} \ {0} ELSE m.indexes]
FinishMerge ==
  /\ merge # <<>> /\ merge' = <<>>
  /\ chat' = <<Merged(merge[1])>>
  /\ carried' = ~Whole(chat'[1])
  /\ \E failed \in BOOLEAN :
       IF RolledBack(merge[1]) /\ ~failed THEN known' = {} /\ bodies' = {}
       ELSE UNCHANGED <<known, bodies>>
  /\ late' = merge[1].row.local \cap known'
  /\ dirty' = "reset"
  /\ UNCHANGED <<serverVars, linkVars, sendVars, db, putting, kept, boundVars>>

\* The database cannot be read: there is no merge, and the old chat stays, if any.
MergeFails ==
  /\ merge # <<>> /\ merge' = <<>>
  /\ UNCHANGED <<serverVars, linkVars, chatVars, sendVars, dbVars, boundVars>>

(***************************************************************************)
(* The client: messages of the user                                        *)
(***************************************************************************)
writeRest == <<log, linkVars, known, carried, merge, db, putting, boundVars>>

\* sendChatMessage: the message is stored under its local id, and sent if the user is
\* online. Offline it has failed at once.
Send(g) ==
  /\ StoreLocal(g)
  /\ IF link = "on" THEN listening' = listening \cup {g} /\ requests' = requests \cup {g}
     ELSE UNCHANGED <<listening, requests>>
  /\ UNCHANGED <<writeRest, kept>>

Compose(g) == chat # <<>> /\ g \notin written /\ written' = written \cup {g} /\ Send(g)

\* The user sends or deletes a message that has failed and is still shown.
HasFailed(g) == chat # <<>> /\ g \in (TheChat.local \cap bodies) \ listening
Resend(g) == HasFailed(g) /\ link = "on" /\ Send(g) /\ UNCHANGED written
Delete(g) ==
  /\ HasFailed(g)
  /\ chat' = <<[TheChat EXCEPT !.local = @ \ {g}]>>
  /\ bodies' = bodies \ {g} /\ kept' = kept \ {g} /\ late' = late \ {g} /\ dirty' = Due
  /\ UNCHANGED <<writeRest, requests, sendVars>>

\* No answer in 20 seconds: the message is stored again as one that failed, whether
\* or not it has come meanwhile as a message of the server.
Fail(g) ==
  /\ g \in listening /\ listening' = listening \ {g}
  /\ StoreLocal(g)
  /\ UNCHANGED <<writeRest, requests, written, kept>>

(***************************************************************************)
(* The client: its database, and restarts                                  *)
(***************************************************************************)
saveRest == <<serverVars, linkVars, chatVars, sendVars, boundVars, merge>>

\* saveChatsToDatabase: after a merge the table is cleared first.
Save ==
  /\ dirty # "no" /\ dirty' = "no"
  /\ LET row == [last |-> TheChat.last, local |-> TheChat.local] IN
     IF dirty = "yes" THEN db' = row /\ putting' = putting
     ELSE putting = <<>> /\ db' = NoRow /\ putting' = <<row>>
  /\ kept' = IF merge = <<>> /\ putting = <<>>
             THEN kept \cup (TheChat.local \ Gids(Indexes)) ELSE kept
  /\ UNCHANGED saveRest
Put ==
  /\ putting # <<>> /\ db' = putting[1] /\ putting' = <<>>
  /\ UNCHANGED <<saveRest, dirty, kept>>

\* The database reports an error, which is swallowed. Nothing has been written then,
\* but nothing is due any more; a table that was cleared before stays so.
SaveFails ==
  /\ dirty # "no" /\ dirty' = "no" /\ (dirty = "reset" => putting = <<>>)
  /\ UNCHANGED <<saveRest, db, putting, kept>>
PutFails ==
  /\ putting # <<>> /\ putting' = <<>>
  /\ kept' = kept \cap db.local
  /\ UNCHANGED <<saveRest, db, dirty>>

\* The client is closed and started again, with its database and nothing else.
Restart ==
  /\ link = "off" /\ restarts < MaxRestarts /\ restarts' = restarts + 1
  /\ chat' = <<>> /\ merge' = <<>> /\ known' = {} /\ bodies' = {} /\ late' = {}
  /\ carried' = FALSE /\ listening' = {} /\ dirty' = "no" /\ putting' = <<>>
  /\ kept' = IF putting = <<>> THEN kept ELSE {}
  /\ UNCHANGED <<serverVars, linkVars, written, db, logins>>

-----------------------------------------------------------------------------
OwnMessage(g) ==
  StoreOwn(g) \/ Compose(g) \/ Resend(g) \/ Delete(g) \/ Fail(g)

Next ==
  \/ StoreOther \/ (\E g \in Own : OwnMessage(g))
  \/ Login \/ Break
  \/ ReceiveList \/ (\E is \in SUBSET Indexes \ {{}} : Receive(is)) \/ FinishMerge \/ MergeFails
  \/ Save \/ Put \/ SaveFails \/ PutFails \/ Restart

Spec == Init /\ [][Next]_vars

-----------------------------------------------------------------------------
\* The client takes the server's data for rolled back, and clears its messages of the
\* chat, only when the server could not read the last messages: no list of chats that
\* was read ends before the row, however late the row was written.
NoFalseRollback ==
  merge # <<>> /\ RolledBack(merge[1]) => merge[1].list.failed

\* The list of indexes to show has no gap and ends with the last message, but for one
\* carried over from before the last list of chats, until a message mends it.
ListWhole == chat # <<>> /\ ~carried => Whole(TheChat)

\* A message of the user is not shown both as sent and as failed, unless it was given
\* up, sent again or restored from the database when it was known to be sent.
ShownOnce ==
  chat # <<>> => TheChat.local \cap bodies \cap known \subseteq late

\* A message of the user that was saved is on the client's list of messages to send,
\* in the database or about to be, until the server has it or the user deletes it;
\* unless the table was read, or the client closed, between its clearing and the put,
\* or the put failed: then until the chat is saved again. A save that fails as a whole
\* loses nothing (chats-store.ts:527-563).
KeptUntilSent ==
  \A g \in kept :
    \/ g \in db.local
    \/ chat # <<>> /\ g \in TheChat.local
    \/ putting # <<>> /\ g \in putting[1].local
=============================================================================
