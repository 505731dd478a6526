---------------------------- MODULE MessageLog ----------------------------
(***************************************************************************)
(* How xxd stores the messages of a messagesend                            *)
(* (src/xxd/service/message/send.go, src/xxd/model): the chat is found or  *)
(* created, the members and their statuses are read, each message is       *)
(* looked up by its gid and, if it is new, stored with the next index of   *)
(* its chat under a row lock, and a row is kept for every member who was   *)
(* offline until he asks for what he missed.                               *)
(*                                                                         *)
(* Every request runs in a goroutine of its own (client.go:560), against   *)
(* the database and the cache of members. A client that gets no answer     *)
(* sends the same gids again in another request, maybe while the first is  *)
(* still in progress. Each access to the database may fail, and xxd may    *)
(* crash and restart.                                                      *)
(*                                                                         *)
(* Left out: message contents, pushes to mobile devices, archived chats    *)
(* and committer lists, members who join or leave other than by the        *)
(* creation of the chat, and the partition tables.                         *)
(***************************************************************************)
EXTENDS Naturals, Sequences

CONSTANTS
  Chats,       \* the chats, by gid
  One2One,     \* those between two users, created by their first message
  Users,       \* the accounts
  Gids,        \* message gids, made by the clients
  Reqs,        \* messagesend requests
  MembersOf,   \* MembersOf[c]: who belongs to chat c, in the order they join
  ChatOf,      \* ChatOf[g]: the chat of message g
  SenderOf,    \* SenderOf[r]: the user who sends request r
  Batch,       \* Batch[r]: the gids of the messages in request r
  Roamers,     \* bound: the users who come and go, the others stay online
  MaxFaults,   \* bound: database accesses that fail
  MaxLogins,   \* bound: logins
  MaxCrashes   \* bound: restarts of xxd

ASSUME MessageLogAssumption ==
  /\ One2One \subseteq Chats
  /\ MembersOf \in [Chats -> Seq(Users)]
  /\ \A c \in Chats : MembersOf[c] # <<>>
  /\ ChatOf \in [Gids -> Chats]
  /\ SenderOf \in [Reqs -> Users]
  /\ Batch \in [Reqs -> Seq(Gids)]
  /\ \A r \in Reqs : Batch[r] # <<>>
  /\ Roamers \subseteq Users
  /\ MaxFaults \in Nat /\ MaxLogins \in Nat /\ MaxCrashes \in Nat

VARIABLES
  rows,      \* im_chat: how many rows have the chat's gid
  last,      \* lastMessageIndex and lastMessage in the first of these rows
  joined,    \* im_chatuser: who has joined
  cache,     \* ChatMembersCache: a list of members, {} if there is none
  messages,  \* im_message: the committed rows
  nextId,    \* its AUTO_INCREMENT counter, which rollbacks do not undo
  waiting,   \* im_messagestatus: <<user, message id>> with status "waiting"
  status,    \* clientStatus of the users
  lock,      \* the request that holds the row lock of the chat, if any
  pc,        \* program counter of the goroutine of a request
  at,        \* the position it has reached in the members or the messages
  then,      \* where it goes on once it has filled the cache
  seen,      \* the members it has read
  push,      \* onlineUsers: to whom its answer goes
  offline,   \* offlineUsers
  tx,        \* index and id of the message its transaction inserts
  ids,       \* idList: the ids of its messages
  unsaved,   \* those it has yet to save statuses for
  fetch,     \* messagesyncsinceoffline of a user: "idle", "due" or "read"
  reply,     \* the ids it has read
  fetched,   \* history: what it has delivered
  before,    \* history: the gids stored when a request began
  blind,     \* history: what a request has not got from the database
  faults,    \* accesses to the database that failed so far
  logins,    \* logins so far
  crashes    \* restarts so far

dbVars    == <<rows, last, joined, messages, nextId, waiting, status>>
taskVars  == <<at, then, seen, push, offline, tx, ids, unsaved>>
fetchVars == <<fetch, reply, fetched>>
pastVars  == <<before, blind>>
envVars   == <<faults, logins, crashes>>
vars      == <<dbVars, cache, lock, pc, taskVars, fetchVars, pastVars, envVars>>

Steps == {"idle", "find", "create", "join", "joining", "created", "fill",
          "permit", "committer", "members", "statuses", "dedup", "lock",
          "insert", "commit", "save", "answer", "ok", "failed"}

\* GetMembers is called by Create, by IsCommitter and by Send; what follows it
After == [created |-> "permit", permit |-> "committer", members |-> "statuses"]

\* firstMessage.CgId: the chat is found and the permission is given by it
Chat(r) == ChatOf[Batch[r][1]]

Types ==
  /\ rows \in [Chats -> Nat]
  /\ last \in [Chats -> [index : Nat, id : Nat]]
  /\ joined \in [Chats -> SUBSET Users]
  /\ cache \in [Chats -> SUBSET Users]
  /\ messages \subseteq
       [id : Nat, gid : Gids, chat : Chats, index : Nat, by : Reqs]
  /\ nextId \in Nat
  /\ waiting \subseteq Users \X Nat
  /\ status \in [Users -> {"online", "offline"}]
  /\ lock \in [Chats -> SUBSET Reqs]
  /\ pc \in [Reqs -> Steps]
  /\ at \in [Reqs -> Nat]
  /\ then \in [Reqs -> {"permit", "committer", "statuses"}]
  /\ seen \in [Reqs -> SUBSET Users]
  /\ push \in [Reqs -> SUBSET Users]
  /\ offline \in [Reqs -> SUBSET Users]
  /\ tx \in [Reqs -> [index : Nat, id : Nat]]
  /\ ids \in [Reqs -> SUBSET Nat]
  /\ unsaved \in [Reqs -> SUBSET Nat]
  /\ fetch \in [Users -> {"idle", "due", "read"}]
  /\ reply \in [Users -> SUBSET Nat]
  /\ fetched \subseteq Users \X Nat
  /\ before \in [Reqs -> SUBSET Gids]
  /\ blind \in [Reqs -> SUBSET {"gid", "members"}]
  /\ faults \in Nat /\ logins \in Nat /\ crashes \in Nat

\* the member a request is joining, or the message it is storing, exists
Placed ==
  \A r \in Reqs :
    /\ pc[r] \in {"join", "joining"} => at[r] \in 1 .. Len(MembersOf[Chat(r)])
    /\ pc[r] \in {"dedup", "lock", "insert", "commit"}
         => at[r] \in 1 .. Len(Batch[r])

TypeOK == Types /\ Placed

Members(c) == {MembersOf[c][i] : i \in 1 .. Len(MembersOf[c])}

\* The groups exist, the chats between two users do not yet.
Init ==
  /\ rows = [c \in Chats |-> IF c \in One2One THEN 0 ELSE 1]
  /\ last = [c \in Chats |-> [index |-> 0, id |-> 0]]
  /\ joined = [c \in Chats |-> IF c \in One2One THEN {} ELSE Members(c)]
  /\ cache = [c \in Chats |-> {}]
  /\ messages = {} /\ nextId = 1 /\ waiting = {} /\ fetched = {}
  /\ status \in [Users -> {"online", "offline"}]
  /\ \A u \in Users \ Roamers : status[u] = "online"
  /\ lock = [c \in Chats |-> {}]
  /\ pc = [r \in Reqs |-> "idle"]
  /\ at = [r \in Reqs |-> 1]
  /\ then = [r \in Reqs |-> "permit"]
  /\ seen = [r \in Reqs |-> {}]
  /\ push = [r \in Reqs |-> {}]
  /\ offline = [r \in Reqs |-> {}]
  /\ tx = [r \in Reqs |-> [index |-> 0, id |-> 0]]
  /\ ids = [r \in Reqs |-> {}]
  /\ unsaved = [r \in Reqs |-> {}]
  /\ fetch = [u \in Users |-> "idle"]
  /\ reply = [u \in Users |-> {}]
  /\ before = [r \in Reqs |-> {}]
  /\ blind = [r \in Reqs |-> {}]
  /\ faults = 0 /\ logins = 0 /\ crashes = 0

-----------------------------------------------------------------------------
(* Finding or creating the chat                                            *)

Goto(r, step) == pc' = [pc EXCEPT ![r] = step]

Begin(r) ==
  /\ pc[r] = "idle"
  /\ before' = [before EXCEPT ![r] = {m.gid : m \in messages}]
  /\ Goto(r, "find")
  /\ UNCHANGED <<dbVars, cache, lock, taskVars, fetchVars, blind, envVars>>

\* IsCommitter does not ask for the members of a group.
FindChat(r) ==
  /\ pc[r] = "find"
  /\ Goto(r, IF rows[Chat(r)] > 0
               THEN IF Chat(r) \in One2One THEN "permit" ELSE "members"
               ELSE IF Chat(r) \in One2One THEN "create" ELSE "failed")
  /\ UNCHANGED <<dbVars, cache, lock, taskVars, fetchVars, pastVars, envVars>>

Fault == faults < MaxFaults /\ faults' = faults + 1

\* An error other than "not found" counts as "not found".
FindFails(r) ==
  /\ Fault
  /\ pc[r] = "find"
  /\ Goto(r, IF Chat(r) \in One2One THEN "create" ELSE "failed")
  /\ UNCHANGED <<dbVars, cache, lock, taskVars, fetchVars, pastVars, logins,
                 crashes>>

\* Nothing keeps a second row with the gid out.
CreateChat(r) ==
  /\ pc[r] = "create"
  /\ rows' = [rows EXCEPT ![Chat(r)] = @ + 1]
  /\ Goto(r, "join")
  /\ UNCHANGED <<last, joined, messages, nextId, waiting, status, cache, lock,
                 taskVars, fetchVars, pastVars, envVars>>

\* the next member is joined, or the creation goes on
NextMember(r) ==
  IF at[r] < Len(MembersOf[Chat(r)])
    THEN at' = [at EXCEPT ![r] = @ + 1] /\ Goto(r, "join")
    ELSE at' = [at EXCEPT ![r] = 1] /\ Goto(r, "created")

JoinFrame == UNCHANGED <<rows, last, messages, nextId, waiting, status, lock,
                         then, seen, push, offline, tx, ids, unsaved,
                         fetchVars, pastVars, envVars>>

\* Has the user joined already?
JoinCheck(r) ==
  /\ pc[r] = "join"
  /\ IF MembersOf[Chat(r)][at[r]] \in joined[Chat(r)]
       THEN NextMember(r)
       ELSE Goto(r, "joining") /\ UNCHANGED at
  /\ UNCHANGED <<joined, cache>>
  /\ JoinFrame

\* The insert is refused by uk_chatuser if another request has joined the user
\* meanwhile; if not, the cache of members is dropped.
JoinInsert(r) ==
  /\ pc[r] = "joining"
  /\ LET u == MembersOf[Chat(r)][at[r]] IN
       IF u \in joined[Chat(r)]
         THEN Goto(r, "failed") /\ UNCHANGED <<at, joined, cache>>
         ELSE /\ joined' = [joined EXCEPT ![Chat(r)] = @ \cup {u}]
              /\ cache' = [cache EXCEPT ![Chat(r)] = {}]
              /\ NextMember(r)
  /\ JoinFrame

-----------------------------------------------------------------------------
(* The members and their statuses                                          *)

\* GetMembers answers from the cache, or reads the table and then fills it.
LookUp(r) ==
  /\ pc[r] \in DOMAIN After
  /\ IF cache[Chat(r)] # {}
       THEN /\ seen' = [seen EXCEPT ![r] = cache[Chat(r)]]
            /\ Goto(r, After[pc[r]])
            /\ UNCHANGED then
       ELSE /\ seen' = [seen EXCEPT ![r] = joined[Chat(r)]]
            /\ then' = [then EXCEPT ![r] = After[pc[r]]]
            /\ Goto(r, "fill")
  /\ UNCHANGED <<dbVars, cache, lock, at, push, offline, tx, ids, unsaved,
                 fetchVars, pastVars, envVars>>

FillCache(r) ==
  /\ pc[r] = "fill"
  /\ cache' = IF seen[r] = {} THEN cache
              ELSE [cache EXCEPT ![Chat(r)] = seen[r]]
  /\ Goto(r, then[r])
  /\ UNCHANGED <<dbVars, lock, taskVars, fetchVars, pastVars, envVars>>

\* The time to live of the entry has passed.
Expire(c) ==
  /\ cache[c] # {}
  /\ cache' = [cache EXCEPT ![c] = {}]
  /\ UNCHANGED <<dbVars, lock, pc, taskVars, fetchVars, pastVars, envVars>>

IsCommitter(r) ==
  /\ pc[r] = "committer"
  /\ Goto(r, IF SenderOf[r] \in seen[r] THEN "members" ELSE "failed")
  /\ UNCHANGED <<dbVars, cache, lock, taskVars, fetchVars, pastVars, envVars>>

\* Whoever is offline now is to find the messages when he comes back.
Address(r, us) ==
  /\ push' = [push EXCEPT ![r] =
       {SenderOf[r]} \cup {u \in us : status[u] = "online"}]
  /\ offline' = [offline EXCEPT ![r] =
       {u \in us \ {SenderOf[r]} : status[u] = "offline"}]
  /\ Goto(r, "dedup")

\* The members read may be too few: those of a chat another request is still
\* creating, or of a cache filled at that time.
ReadStatuses(r) ==
  /\ pc[r] = "statuses"
  /\ Address(r, seen[r])
  /\ blind' = IF Members(Chat(r)) \subseteq seen[r] THEN blind
              ELSE [blind EXCEPT ![r] = @ \cup {"members"}]
  /\ UNCHANGED <<dbVars, cache, lock, at, then, seen, tx, ids, unsaved,
                 fetchVars, before, envVars>>

\* Send goes on when it cannot read the members, and an empty list of members
\* stands for all users; or when it cannot read the statuses.
ReadFails(r) ==
  /\ Fault
  /\ \/ pc[r] = "members" /\ Address(r, Users)
     \/ pc[r] = "statuses" /\ Address(r, {})
  /\ blind' = [blind EXCEPT ![r] = @ \cup {"members"}]
  /\ UNCHANGED <<dbVars, cache, lock, at, then, seen, tx, ids, unsaved,
                 fetchVars, before, logins, crashes>>

-----------------------------------------------------------------------------
(* Storing the messages, one transaction each                              *)

\* The message a request has reached, and its chat
Gid(r) == Batch[r][at[r]]
Home(r) == ChatOf[Gid(r)]

StoreFrame == UNCHANGED <<rows, joined, waiting, status, cache, then, seen,
                          push, offline, fetchVars, before, logins, crashes>>

\* mutated: the end of the batch is missed
AdvancePastEnd(r, i) ==
  /\ ids' = [ids EXCEPT ![r] = @ \cup {i}]
  /\ IF at[r] <= Len(Batch[r])
       THEN /\ at' = [at EXCEPT ![r] = @ + 1]
            /\ Goto(r, "dedup")
            /\ UNCHANGED unsaved
       ELSE /\ Goto(r, IF offline[r] = {} THEN "answer" ELSE "save")
            /\ unsaved' = [unsaved EXCEPT ![r] = ids'[r]]
            /\ UNCHANGED at

\* After the last message the statuses of those offline are saved.
Advance(r, i) ==
  /\ ids' = [ids EXCEPT ![r] = @ \cup {i}]
  /\ IF at[r] < Len(Batch[r])
       THEN /\ at' = [at EXCEPT ![r] = @ + 1]
            /\ Goto(r, "dedup")
            /\ UNCHANGED unsaved
       ELSE /\ Goto(r, IF offline[r] = {} THEN "answer" ELSE "save")
            /\ unsaved' = [unsaved EXCEPT ![r] = ids'[r]]
            /\ UNCHANGED at

\* mutated: the gid is not looked up
NoLookUp(r) ==
  /\ pc[r] = "dedup"
  /\ Goto(r, "lock")
  /\ UNCHANGED <<at, ids, unsaved, last, messages, nextId, lock, tx, blind,
                 faults>>
  /\ StoreFrame

\* mutated: what is stored already is left out of the result
SkipKnown(r) ==
  /\ pc[r] = "dedup"
  /\ LET known == {m \in messages : m.gid = Gid(r)} IN
       IF known = {} THEN Goto(r, "lock") /\ UNCHANGED <<at, ids, unsaved>>
       ELSE /\ UNCHANGED ids
            /\ IF at[r] < Len(Batch[r])
                 THEN /\ at' = [at EXCEPT ![r] = @ + 1]
                      /\ Goto(r, "dedup") /\ UNCHANGED unsaved
                 ELSE /\ Goto(r, IF offline[r] = {} THEN "answer" ELSE "save")
                      /\ unsaved' = [unsaved EXCEPT ![r] = ids[r]]
                      /\ UNCHANGED at
  /\ UNCHANGED <<last, messages, nextId, lock, tx, blind, faults>>
  /\ StoreFrame

\* Is the gid stored already? Then its first row is the message.
Dedup(r) ==
  /\ pc[r] = "dedup"
  /\ LET known == {m.id : m \in {n \in messages : n.gid = Gid(r)}} IN
       IF known = {} THEN Goto(r, "lock") /\ UNCHANGED <<at, ids, unsaved>>
       ELSE \E i \in known : (\A j \in known : i <= j) /\ Advance(r, i)
  /\ UNCHANGED <<last, messages, nextId, lock, tx, blind, faults>>
  /\ StoreFrame

\* An error other than "not found" counts as "not found".
DedupFails(r) ==
  /\ Fault
  /\ pc[r] = "dedup"
  /\ Goto(r, "lock")
  /\ blind' = [blind EXCEPT ![r] = @ \cup {"gid"}]
  /\ UNCHANGED <<last, messages, nextId, lock, tx, at, ids, unsaved>>
  /\ StoreFrame

\* mutated: the row is read without FOR UPDATE
ReadRow(r) ==
  /\ pc[r] = "lock"
  /\ tx' = [tx EXCEPT ![r].index = last[Home(r)].index + 1]
  /\ Goto(r, "insert")
  /\ UNCHANGED <<last, messages, nextId, lock, at, ids, unsaved, blind, faults>>
  /\ StoreFrame

\* SELECT ... FOR UPDATE waits until no other transaction has the row.
LockRow(r) ==
  /\ pc[r] = "lock"
  /\ IF rows[Home(r)] = 0
       THEN Goto(r, "failed") /\ UNCHANGED <<lock, tx>>
       ELSE /\ lock[Home(r)] = {}
            /\ lock' = [lock EXCEPT ![Home(r)] = {r}]
            /\ tx' = [tx EXCEPT ![r].index = last[Home(r)].index + 1]
            /\ Goto(r, "insert")
  /\ UNCHANGED <<last, messages, nextId, at, ids, unsaved, blind, faults>>
  /\ StoreFrame

Insert(r) ==
  /\ pc[r] = "insert"
  /\ tx' = [tx EXCEPT ![r].id = nextId]
  /\ nextId' = nextId + 1
  /\ Goto(r, "commit")
  /\ UNCHANGED <<last, messages, lock, at, ids, unsaved, blind, faults>>
  /\ StoreFrame

\* The inserted message and the update of its chat become visible together.
Commit(r) ==
  /\ messages' = messages \cup
       {[id |-> tx[r].id, gid |-> Gid(r), chat |-> Home(r),
         index |-> tx[r].index, by |-> r]}
  /\ last' = [last EXCEPT ![Home(r)] = tx[r]]
  /\ lock' = [lock EXCEPT ![Home(r)] = {}]
  /\ UNCHANGED <<nextId, tx, blind>>
  /\ StoreFrame

\* mutated: the chat keeps its lastMessageIndex
CommitMessageOnly(r) ==
  /\ pc[r] = "commit"
  /\ messages' = messages \cup
       {[id |-> tx[r].id, gid |-> Gid(r), chat |-> Home(r),
         index |-> tx[r].index, by |-> r]}
  /\ last' = [last EXCEPT ![Home(r)].id = tx[r].id]
  /\ lock' = [lock EXCEPT ![Home(r)] = {}]
  /\ Advance(r, tx[r].id)
  /\ UNCHANGED <<nextId, tx, blind, faults>>
  /\ StoreFrame

Stored(r) ==
  /\ pc[r] = "commit"
  /\ Commit(r)
  /\ Advance(r, tx[r].id)
  /\ UNCHANGED faults

\* The connection to the database breaks when the commit has taken effect.
CommitUnconfirmed(r) ==
  /\ Fault
  /\ pc[r] = "commit"
  /\ Commit(r)
  /\ Goto(r, "failed")
  /\ UNCHANGED <<at, ids, unsaved>>

-----------------------------------------------------------------------------
(* The members who are offline, and the answer                             *)

\* Create lists the messages newest first, and SaveOfflineList follows it.
SaveStatus(r) ==
  /\ pc[r] = "save"
  /\ \E i \in unsaved[r] :
       /\ \A j \in unsaved[r] : j <= i
       /\ waiting' = waiting \cup (offline[r] \X {i})
       /\ unsaved' = [unsaved EXCEPT ![r] = @ \ {i}]
       /\ Goto(r, IF unsaved[r] = {i} THEN "answer" ELSE "save")
  /\ UNCHANGED <<rows, last, joined, messages, nextId, status, cache, lock, at,
                 then, seen, push, offline, tx, ids, fetchVars, pastVars,
                 envVars>>

\* The result is given to the hub for the users in push.
Answer(r) ==
  /\ pc[r] = "answer"
  /\ Goto(r, "ok")
  /\ UNCHANGED <<dbVars, cache, lock, taskVars, fetchVars, pastVars, envVars>>

\* Where an error ends a request: at "dedup" that of the update of an image or a
\* file sent again, at "save" and "answer" also that of the list of the messages.
MayFail(r) ==
  \/ pc[r] \in {"create", "join", "joining", "created", "permit", "lock",
                "insert", "commit", "save", "answer"}
  \/ pc[r] = "dedup" /\ \E m \in messages : m.gid = Gid(r)

\* mutated: the transaction is not rolled back
FailLocked(r) ==
  /\ Fault /\ MayFail(r)
  /\ Goto(r, "failed")
  /\ UNCHANGED <<dbVars, cache, lock, taskVars, fetchVars, pastVars, logins,
                 crashes>>

\* An access fails: the transaction, if any, is rolled back and the request is
\* answered with an error.
Fail(r) ==
  /\ Fault /\ MayFail(r)
  /\ lock' = [c \in Chats |-> lock[c] \ {r}]
  /\ Goto(r, "failed")
  /\ UNCHANGED <<dbVars, cache, taskVars, fetchVars, pastVars, logins, crashes>>

\* xxd stops and starts again: requests end without an answer, transactions are
\* rolled back, the cache is empty, and every user is set offline.
Crash ==
  /\ crashes < MaxCrashes
  /\ crashes' = crashes + 1
  /\ pc' = [r \in Reqs |-> IF pc[r] \in {"idle", "ok"} THEN pc[r] ELSE "failed"]
  /\ lock' = [c \in Chats |-> {}]
  /\ cache' = [c \in Chats |-> {}]
  /\ status' = [u \in Users |-> "offline"]
  /\ fetch' = [u \in Users |-> "idle"]
  /\ UNCHANGED <<rows, last, joined, messages, nextId, waiting, taskVars, reply,
                 fetched, pastVars, faults, logins>>

-----------------------------------------------------------------------------
(* Users come and go; after a login the client asks for what it missed.    *)

GoOnline(u) ==
  /\ u \in Roamers
  /\ logins < MaxLogins
  /\ status[u] = "offline" /\ fetch[u] = "idle"
  /\ logins' = logins + 1
  /\ status' = [status EXCEPT ![u] = "online"]
  /\ fetch' = [fetch EXCEPT ![u] = "due"]
  /\ UNCHANGED <<rows, last, joined, messages, nextId, waiting, cache, lock, pc,
                 taskVars, reply, fetched, pastVars, faults, crashes>>

GoOffline(u) ==
  /\ u \in Roamers
  /\ status[u] = "online"
  /\ status' = [status EXCEPT ![u] = "offline"]
  /\ UNCHANGED <<rows, last, joined, messages, nextId, waiting, cache, lock, pc,
                 taskVars, fetchVars, pastVars, envVars>>

\* GetOfflineList reads the waiting ids and their messages ...
FetchRead(u) ==
  /\ fetch[u] = "due"
  /\ reply' = [reply EXCEPT ![u] = {i \in {m.id : m \in messages} :
                                      <<u, i>> \in waiting}]
  /\ fetch' = [fetch EXCEPT ![u] = "read"]
  /\ UNCHANGED <<dbVars, cache, lock, pc, taskVars, fetched, pastVars, envVars>>

\* mutated: all rows of the user are deleted
FetchDeleteAll(u) ==
  /\ fetch[u] = "read"
  /\ waiting' = {w \in waiting : w[1] # u}
  /\ fetched' = fetched \cup ({u} \X reply[u])
  /\ fetch' = [fetch EXCEPT ![u] = "idle"]
  /\ UNCHANGED <<rows, last, joined, messages, nextId, status, cache, lock, pc,
                 taskVars, reply, pastVars, envVars>>

\* ... and deletes their rows before they are sent.
FetchDelete(u) ==
  /\ fetch[u] = "read"
  /\ waiting' = waiting \ ({u} \X reply[u])
  /\ fetched' = fetched \cup ({u} \X reply[u])
  /\ fetch' = [fetch EXCEPT ![u] = "idle"]
  /\ UNCHANGED <<rows, last, joined, messages, nextId, status, cache, lock, pc,
                 taskVars, reply, pastVars, envVars>>

\* SyncSinceOffline ignores the error: the client is answered with an empty list
\* and does not ask again before its next login.
FetchFails(u) ==
  /\ Fault
  /\ fetch[u] # "idle"
  /\ fetch' = [fetch EXCEPT ![u] = "idle"]
  /\ UNCHANGED <<dbVars, cache, lock, pc, taskVars, reply, fetched, pastVars,
                 logins, crashes>>

-----------------------------------------------------------------------------
\* what a request does once it has begun
Go(r) ==
  \/ FindChat(r) \/ CreateChat(r) \/ JoinCheck(r) \/ JoinInsert(r)
  \/ LookUp(r) \/ FillCache(r) \/ IsCommitter(r) \/ ReadStatuses(r)
  \/ Dedup(r) \/ LockRow(r) \/ Insert(r) \/ Stored(r)
  \/ SaveStatus(r) \/ Answer(r)

\* what goes wrong with it
GoWrong(r) ==
  \/ FindFails(r) \/ ReadFails(r) \/ DedupFails(r)
  \/ CommitUnconfirmed(r) \/ Fail(r)

UserStep(u) ==
  \/ GoOnline(u) \/ GoOffline(u)
  \/ FetchRead(u) \/ FetchDelete(u) \/ FetchFails(u)

Next ==
  \/ \E r \in Reqs : Begin(r) \/ Go(r) \/ GoWrong(r)
  \/ \E u \in Users : UserStep(u)
  \/ \E c \in Chats : Expire(c)
  \/ Crash

Spec == Init /\ [][Next]_vars

\* The goroutine of a request that can go on does, and a row lock that stays
\* free is granted.
FairSpec == Spec /\ \A r \in Reqs : WF_vars(Go(r))

-----------------------------------------------------------------------------
(* Properties                                                              *)

\* The indexes of the messages of a chat are 1, 2, ... up to lastMessageIndex,
\* each used once, whatever requests overlap, fail or are cut off by a crash
\* (message_create.go:45-116): clients detect and fetch what they miss by them.
IndexesContiguous ==
  \A c \in Chats :
    LET inChat == {m \in messages : m.chat = c} IN
    /\ {m.index : m \in inChat} = 1 .. last[c].index
    /\ \A m, n \in inChat : m.index = n.index => m = n

\* lastMessage and lastMessageIndex are those of one message, the newest by
\* either order: ids and indexes sort the messages of a chat alike
\* (message_create.go:101-109).
LastMessageIsNewest ==
  \A c \in Chats :
    LET inChat == {m \in messages : m.chat = c} IN
    /\ \A m \in inChat : m.id <= last[c].id
    /\ inChat # {} => \E m \in inChat : m.id = last[c].id
                                       /\ m.index = last[c].index
    /\ \A m, n \in inChat : m.index < n.index => m.id < n.id

\* A message that was stored when a request with its gid arrived is not stored
\* again by that request (message.go:341): a client may resend what it has got
\* no answer for. Only a request whose look-up fails escapes.
ResendIsRecognised ==
  \A m \in messages : m.gid \in before[m.by] => "gid" \in blind[m.by]

\* When a request has been answered with success, each of its messages, resent
\* ones too, is addressed to every other member of the chat: he is among those
\* the answer goes to, or the message waits for him, or he has fetched it
\* (send.go:110-133, messagestatus.go:40-100). Only a request that could not
\* read the members or their statuses, or read too few, escapes.
AnsweredIsAddressed ==
  \A r \in Reqs :
    pc[r] = "ok" /\ "members" \notin blind[r] =>
      \A k \in 1 .. Len(Batch[r]), u \in Members(Chat(r)) \ push[r] :
        \E m \in messages :
          /\ m.gid = Batch[r][k]
          /\ <<u, m.id>> \in waiting \cup fetched

\* The log of chat c, by index
LogOf(c) ==
  [i \in 1 .. last[c].index |->
     (CHOOSE m \in messages : m.chat = c /\ m.index = i).gid]

BatchSet(r) == {Batch[r][k] : k \in 1 .. Len(Batch[r])}

\* The messages of the chats, by index, and the requests answered with success
\* behave like the logs of ChatLog: nothing stored is lost, moved or replaced,
\* and no success is reported for a message that is not stored.
Abstract == INSTANCE ChatLog WITH
  log   <- [c \in Chats |-> LogOf(c)],
  acked <- [r \in Reqs |-> IF pc[r] = "ok" THEN BatchSet(r) ELSE {}]
ImplementsChatLog == Abstract!Spec

\* A request that has begun ends: no request waits for ever for a row lock,
\* whatever became of its holder (message_create.go:51).
RequestsEnd ==
  \A r \in Reqs : pc[r] = "find" ~> pc[r] \in {"ok", "failed"}
=============================================================================
