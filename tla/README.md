# HoloIM in TLA+

HoloIM is an instant messenger: `xxd`, a server in Go that keeps the connections,
the chats and the messages; `xxc`, the client (Electron and React, TypeScript);
and `xxb`, PHP pages for administration and the database schema. This directory
models the core of `xxd` and how the client keeps a chat, checks both with TLC, and
proves every safety property the passing runs check with TLAPS. The source is the reference; lines quoted below are of `src/`.

    tlc -workers 2 -config hub_desktop.cfg MCHub       # any run of PROJECT.json
    tlapm HubProofs.tla                                # or another module of proofs

## 1. The system

| Part | State | Operations | Hard behaviour |
|---|---|---|---|
| Connection hub (`xxd/wsocket`) | the map server/device/user/key -> connection, flags of each connection, its outbound channel of 256, the mutex of the map | login, logout, disconnect, multicast, publish to subscribers, notifications of `apiSync` | one hub goroutine, and for a connection a reader, a consumer of results, a writer and a goroutine per request; rendezvous channels, a full channel, a data race on `isLoggedOut` |
| Login and logout services (`xxd/service/user`) | `clientStatus` of the users | `userlogin`, `userlogout` | the status is written outside the hub and its mutex |
| Messages (`xxd/service/message`, `xxd/model/message*.go`) | `im_message`, `im_chat.lastMessage(Index)`, `im_messagestatus` | `messagesend`, `messagesyncsinceoffline`, queries, retraction | concurrent requests, resends, transactions and row locks, ignored errors, restarts |
| Chats and members (`xxd/service/chat`, `xxd/model/chat*.go`) | `im_chat`, `im_chatuser`, caches with a time to live | create, join, leave, invite, kick, rename, pin, dismiss, list members | check-then-act on rows, cache-aside races, steps without a transaction |
| Partitioning (`xxd/model/message.go:1194-1590`) | tables `im_message_N`, the index tables, the mark "ongoing" | the nightly maintenance | DDL that commits implicitly while messages are stored |
| Push queue and notifications (`xxd/model/queue.go`, `messagestatus.go`) | `im_queue`, notifications waiting | take, finish, poll | crash between taking and finishing |
| Client (`xxc/app/core`) | socket, messages by gid and index, chats, a local database | send with timeout, resend, merge of the list of chats, saving, loading of missing messages | retries, answers out of order, a merge that awaits the database, restarts |
| HTTP and admin pages, wire format, configuration, installation | files | | sequential, no shared state to speak of |

Interaction: a request arrives at the reader of a connection, runs in a goroutine
of its own against the database and caches, and its answer is given to the hub as
a multicast to users. The hub and the services share `clientStatus`: it decides
who is pushed to and for whom a message is kept. The client numbers what it has
by the index of a message in its chat, asks for what is missing, and resends by
gid what was not answered.

What makes each part correct: one session per device and no successor harmed by a
predecessor's end, a status that is right once all is over, no goroutine that
waits for ever (hub); an append-only log without gaps, a resend that is recognised,
no member left out (messages); no message lost or seen twice by a partition; no
update of members or pins lost, and caches that catch up (chats); no gap in what is
shown, nothing unsent forgotten and nothing cleared without need (client); every push
and notification delivered once at least (delivery).

`PROJECT.json` lists the components with their status, and under `hazards` what
is hard to test, each at its line.

## 2. The modules

| Module | Content |
|---|---|
| `Hub` | the connection hub with login, logout and the status |
| `MCHub` | its instances |
| `HubProofs` | theorems about `Hub` |
| `ChatLog` | what storing messages promises: logs that only grow |
| `MessageLog` | how `messagesend` and `messagesyncsinceoffline` do it; it implements `ChatLog` |
| `MCMessageLog` | its instances |
| `MessageLogProofs` | theorems about `MessageLog`, the refinement among them |
| `MessagePartition` | the nightly job that moves old messages to tables of their own, and the readers over all tables |
| `MCMessagePartition` | its instances |
| `MessagePartitionProofs` | theorems about `MessagePartition` |
| `Membership` | what requests about members promise: one user after the other, each at one moment, and success only for all |
| `GroupChat` | the handlers of a group chat over the rows and the two caches; it implements `Membership` |
| `MCGroupChat` | its instances |
| `GroupChatProofs` | theorems about `GroupChat`, the refinement among them |
| `ChatClient` | one chat as the client of a member keeps it, in memory and in its database |
| `MCChatClient` | its instance |
| `ChatClientProofs` | theorems about `ChatClient` |

In the detailed modules an operator preceded by a comment "mutated:" is a
plausible bug, used only to see that a property notices it; no action refers to it.

### Hub

`registered` is the map, flattened: an entry is the connection, and its key under
the user is `id`. `hub` is the job `Hub.run` has taken from one of its channels.
A send on an unbuffered channel needs `hub = Idle`: the sender goes on when the
job is taken, and the job is carried out in a later step. That gap is what makes
the second `unregister` of a leaving connection matter. `pc[c]` holds the program
counters of two processes that can leave: the reader (its deferred function) and
the goroutine of `userlogout` ("quit"); `login[c]` is the one of `userlogin`.
`consumer` and `isLoggedOut` are the goroutine and the unsynchronised local of
`readPump`; the deferred function reads either value (`ReadError`). `poll` is a
round of `apiSync`, the only one to hold the mutex over several steps.

Steps that are merged, and why nothing is lost:
- A result is consumed when it is offered (`Report`): the rendezvous with the
  consumer delays only the goroutine that offers it, which does nothing after.
- The connection is closed in the step that hands over the unregister
  (`SendUnregister`), since nothing but the socket's state is written between.
- An overdue pong, a write time-out and a peer that closes are all `Drop`.
- What a request sends to others is a `Cast`, enabled independently of requests;
  `FinishRequest` keeps its effect on the connection.
- The answers a login queues on its own unregistered connection are left out but
  for refusals: the channel has room for them.

Inputs: a client logs in once per connection; other requests follow. "bad" is a
request that cannot be parsed. Three inputs are errors of the code a request calls:
"failing login", a write of the status that reports an error, with or without effect
(`AuthenticateFails`, login.go:154); "failing session", a login that fails after it was
announced (`AnnounceFails`, client.go:360), whose connection is online and not in the
hub; and "failing logout", a write of the status at a logout that reports an error,
with or without effect, after which `logoutOnce` is spent (`MarkOfflineFails`,
logout.go:50). `stranded` are the users whom such a write has left online; a history
variable no guard reads. The hooks that LoginService calls after the write of the
status (login.go:224) return no error in this repository (conference_hooks.go:5); if one
did, it would be the failing login that took effect. Wrong credentials, or a failure of
the bot's welcome message, are answered without a Go error and are outside the inputs. The cache of users is outside too: for
5 seconds a stale status may make a logout be refused (service/user/logout.go:30).

### MessageLog

`rows`, `last`, `joined`, `messages`, `nextId`, `waiting` and `status` are the
database; `cache` the cache of members; `lock[c]` the row lock of the chat, held
from `LockRow` to `Commit` or rollback. `pc[r]` walks through `Send`:

    find -> (create -> join/joining ... -> created ->) permit -> committer
         -> members -> statuses -> dedup -> lock -> insert -> commit -> ...
         -> save -> answer -> ok

for a chat between two users; a group is found and goes to "members". `dedup` to
`commit` is repeated for every message of the batch, one transaction each. The
three calls of `GetMembers` share `LookUp` and `FillCache`, which are two steps:
another request may join a member in between.

Every access to the database is a step, and may fail (`FindFails`, `ReadFails`,
`DedupFails`, `CommitUnconfirmed`, `FetchFails`, `Fail`): where the code takes an
error for "not found" or ignores it, so does the action. Where it answers with an
error (`MayFail`), that includes the update of an image or a file that is sent again,
and the list of the messages after all have been stored. `Crash` is the end and the
start of xxd: transactions are rolled back, the cache is lost, all users are set
offline (`sysserverstart_common.go:44-54`). History variables (`before`, `blind`,
`fetched`) are written only; no guard reads them.

Left out: contents, formats, pushes to phones, archived chats, committer lists, the
filter of deleted users, the key `uk_uniqueIndexInChat` (the row lock already makes
it redundant, as `Contiguous` shows for this model), the new contents of an image or
a file that is sent again, the cache of chats (the index is read under the lock, not from it),
partition tables, and members who change after the chat has been created. An
`update` of a user's own messages and `messageretract` do not touch the log.

### MessagePartition

`master`, `tables`, `index`, `chatIndex` and `backup` are the tables `im_message`,
`im_message_<n>`, `im_message_index`, `im_chat_message_index` and
`im_message_backup`; `tmp` and `old` are the two that have the day in their names.
`cache` is `messageIndexCache`, `mark` the entry `system.common.partition.ongoing`.
The job walks through `pc`, a statement a step:

    idle -> check -> create -> copy ... -> index -> chats -> backup -> tmp
         -> count -> keep ... -> swap -> drop -> reload -> check -> ... -> unmark

The code begins a transaction, but MySQL commits it with the first DDL statement and
each later statement for itself; so a rollback restores something only when the table
of a failed run is there and AutoMigrate has nothing to alter in it. That is the
choice in `CreateTable`, and `saved` is what such a rollback restores. `Fail` and
`Crash` may come at every step, `MaxFaults` times together, and `MidnightFails` instead
of `Midnight`: the index of the users' names that Maintenance makes first fails, so that
no partition is looked at that night, or the mark cannot be read or written, which is
not noticed. Requests store messages between any two steps (`Store`, a whole transaction: `MessageLog` has its steps).

The readers are operators on the state, since a query sees one state: by id
(`GetList`, through `cache`), by index (`GetMessagesByIndexes`, through
`im_chat_message_index`, with the map key at message.go:850 that lets only one
partition table in) and the count of a chat.

History variables: `sent`, `late` (stored while the replacement was being filled),
`hidden` (im_message replaced, cache not reloaded).

Left out: dates and searches by date, contents, retraction (it writes to `im_message`
only), ids that are allocated and not used, queries that run across a step, a second
job at the same time (cron starts one each midnight), the columns and keys of the
table that AutoMigrate makes, which has no unique key over chat and index.

### GroupChat

`rows` and `chat` are `im_chatuser` and the row of `im_chat`; `memberCache` and
`chatCache` are `ChatMembersCache` (5 seconds) and `ChatCache` (3 seconds), to which
everybody writes without a lock that would span a read of the database. A request is
a goroutine `r`: `op[r]` is what it was asked, `Script` the calls its handler makes in
the order of the source, `at[r]` the call it has reached and `step[r]` where it is in
it. Calls of the same function share their actions:

| Call | Code | Steps |
|---|---|---|
| `base`, `again` | `GetChatByGid`, also within `GetChatByGidWithExtra` | `LookChat`, and on a miss `FillChat` |
| `users`, `data`, `cast` | `GetMembers`: for the users of the answer, the extra data, the broadcast | `LookMembers`, `FillMembers` |
| `join` | `Join`, user by user | `Touch`, `ReadRow`, `WriteJoin` or `RefuseJoin`, `UncacheMembers` |
| `leave` | `Leave`, user by user | `WriteLeave`, `UncacheMembers` |
| `update` | `Dismiss`, `UpdateName`, `PinMessages`, `UnpinMessages` | (`Sift`), `Update`, `UncacheChat` |

The look into a cache, the read of the database and the write of the entry are what
races; a miss and the read that follows are one step, since what another request
could do between them is to fill a cache that may as well have expired. Several users
are taken in any order, the order of the list in the request. `FailAndTell` and
`FailUnnoticed` are errors of the database that the handler reports, and those it
takes for an empty list; `FailUnconfirmed` is a write that took effect and reports an
error, as a commit whose answer is lost: the handler returns without dropping the cache
(chat.go:414, 443, 198, 253, 928, 967; chat_leave.go:12). `Crash` empties caches and goroutines; a chat that cannot be
read again makes a handler panic (join.go:55) and is one way to it.

History variables: `late` (an entry that was read before a change and written after
the change had dropped the entry, or that was there or being read when a change
reported an error that had taken effect), `behind` (a chat to be written back may be older
than the row), `blind` (a list from a late entry or a failed read), `stay` and `away`
(who has been a member, or not one, since the request arrived), `done` (on whom it
has taken effect, for the refinement). No guard reads them.

Left out: several chats, administrators other than the owner, avatars, committers,
the contents of the answer; the list of members in the answered chat, which sits in
the one object of the cache; the message that announces a change, which is stored as
`MessageLog` has it. `IsInChat` (chatuser.go:343) returns true also when there is no
row, so that the inviting user is refused by nothing: there is no guard in the model.

### ChatClient

`chat` is the cached `Chat` with the index of its last message, its
`latestMessageIndexes` and its `localMessages`; `known` and `bodies` are the messages
of the user in the cache under the server's gid and under their local ids; `db` is the
row of the chat in the client's database, `dirty` and `putting` the saving that is due
and under way, `merge` a list of chats that waits for the database. The server is its
table of messages (`log`), the requests on their way and the list of chats it sends
at a login (`sent`). Steps:

- `ReceiveList`: `chatGetList` up to the `await` of `mergeChatsFromDatabase`;
  `FinishMerge` is what follows it. The rows asked for are those of the moment of
  the question. What arrives in between goes to the chat that the merge replaces.
- `Receive`: some messages of the table arrive. It stands for pushes, the messages
  kept while the user was away, and those loaded because they are in the list of
  indexes (`fetchMissedMessages`), and so allows more than the server does: any of
  them, in any order, repeatedly, or never.
- `Compose`, `Resend`, `Delete`, `Fail`: `sendChatMessage`, the buttons of a failed
  message, and the time-out. A request that is lost is one that is never taken.
- `Save` and `Put`: `saveChatsToDatabase`, whose `clear` and `bulkPut` are two steps
  after a merge. A second save with a `clear` does not start while a put is pending
  (two merges would have to end within one put); one without a `clear` may.
- `MergeFails`, `SaveFails`, `PutFails`: the read of the chats, the first and the second
  access of a save fail, and so may the clearing of messages in `FinishMerge`. A save has
  emptied the list of what is due before it begins, and only logs the error
  (chats-store.ts:527, 553). A transaction of IndexedDB that fails has no effect.
- `Break` and `Restart`; the latter leaves the database alone.

A list of chats is merged before the client takes the next one. History variables:
`late` (messages stored again as unsent when they were known to be sent), `kept`
(messages of the user saved with nothing else under way), `carried` (the list of
indexes was taken over from before the last list of chats).

Left out: several chats and devices, read marks, unread counts, notifications (which
have indexes that are no integers), retraction, the history, and the contents: those of
unsent messages are never saved (chat-messages-store.ts:868), so that after a restart
only their ids are left, and `Resend` and `Delete` need a body.

## 3. What is checked

| Run | Instance | States | Shows |
|---|---|---|---|
| `hub_desktop` | three connections, two of one user on one device, one of another user on a device the hub has no map for; two of them may vanish; logouts whose write fails, logins that fail after their announcement | 3.0M, symmetric | `OneSessionPerDevice`, `OwnEntryGone`, `AllEndedIsOffline` |
| `hub_live` | two desktop connections of one user, userlogout, a failing login and a message; one may leave; fair | 160k | `SuccessorStays`, `DisplacedIsTold`, `QuietDisconnectEnds` |
| `hub_web` | two browser sessions of one user, two seconds, a limit of users, a subscription and what is published to it, one round of apiSync | 1.1M | `OwnEntryGone` for several sessions, `MapStableWhilePolling`, types |
| `message_log` | a chat of two that two requests with one message create, a receiver who comes and goes, one fault | 700k, symmetric | the log invariants, `AnsweredIsAddressed`, `ImplementsChatLog` |
| `message_resend` | a group of three, two messages sent and resent, one fault, one restart, fair | 170k | `AnsweredIsAddressed` over batches and restarts, `RequestsEnd` |
| `partition` | seven messages of two chats, tables of two, batches of one, two faults, fair | 190k | `NothingLost`, `SwapEndsDoubling`, `IdsAreUnique`, the readers find and count (`FoundById`, `FoundByIndex`, `CountsEachOnce`), `CatchesUp` |
| `group_chat` | a group of three users, two goroutines, ten requests of all nine kinds, two events from outside (requests, faults, a restart, a pinned message that is deleted), and any write that takes effect may report an error | 580k, symmetric | `MemberCacheAccounted`, `ChatCacheAccounted`, `RollIsRight`, `PinsKept`, `ImplementsMembership`, types |
| `chat_client` | three messages, one of them the user's, two logins, one restart, `Backlog` 1 | 2.0M | `NoFalseRollback`, `ListWhole`, `ShownOnce`, `KeptUntilSent`, types |

Four runs expect a violation; each is a sentence of the repository that the code
does not keep (`findings` in PROJECT.json): `web_unregister` (a leaving browser
session takes the last other one with it), `partition_lost` (messages stored while
im_message is being replaced are dropped with it), `failed_socket` (a connection that fails while its writer has
stopped stays registered), `offline_early` (a login between the test for other
sessions and the write of the status).

Bounds and why they are enough: the capacity of a channel is 1, not 256, so that it
is full after one message; two connections of one user are the least that displace
each other, and displacing is between two; `Leavers`, `Inputs`, `Requesters`, `Casts`,
`MaxClock`, `MaxCasts` and `MaxPolls` switch on what a run is about (`Requesters` are the
connections that send requests, `Casts` what is sent to others). Failing
writes of the status are in two runs, at the logout in `hub_desktop` and at the login in
`hub_live`, so that a run takes minutes: with all three failing inputs `hub_desktop` has
4.9M states, in which its invariants hold too, and the theorem `AllEndedAreOffline` is
about all inputs together. `QuietDisconnectEnds` is
checked without rounds of apiSync, which holds `clientsMutex` while it waits for room in
a channel. In `MessageLog` two
requests are the least that race for a chat or a lock, a batch of two has a first
and a last message and an interruption in between, and one fault or restart may
come at every point; `Roamers` says who comes and goes. In `MessagePartition` five
messages make a first table due and seven a second, a batch of one gives each loop
several rounds with a message stored in between, one fault leaves a table half
copied or entered in one index only, and the second comes while the next night
goes on from that. In `GroupChat` two goroutines race for a cache or a row, three
users are an owner, a member and one who has no row yet, two events are two requests
that change something or one and a fault (`chatgetmembers` may be asked without
limit, and a write that took effect may report an error at no cost, which a request
does once at most), and two pinned messages stand for the ten that `PinMessages` keeps:
two pins are enough to lose one to a chat that a failed change has left in the cache. In
`ChatClient` three messages make a list with a gap in the middle, `Backlog` 1 lets the
repaired list begin before the gap or after it, two logins give a merge over a chat that
is there already, and one restart a merge with nothing but the database. The theorems of section 4 hold without these bounds.

Symmetry is used where the connections (requests) differ in nothing, and in runs of
invariants and of step properties only, never with fairness.

Deadlock is not checked: an instance ends when all connections have ended, or all
requests are answered. That nobody waits for ever is stated by the liveness
properties instead.

Fairness: weak fairness for each goroutine of the server (`Fairness`, and `FairSpec`
of `MessageLog`): the Go scheduler runs what can run, and InnoDB grants a lock that
stays free. The job is fair too (`WF_vars(Job)`): midnight comes, and it goes on
until it returns. Clients, clocks, faults and expiry owe nothing. `GroupChat` and `ChatClient`
state no fairness: the goroutines of the one never wait for each other, what the user and
the network do to the other is due to nobody, and nothing they promise is about the end. `failed_socket` is
checked under the same fairness, so that its counterexample is not just a server
that stops.

Properties that except something say what: `late` and `blind` of `GroupChat` (an entry
that is cached late is wrong until it expires; the read of a list that failed is an
empty one, and what a change that took effect but reported an error left in the cache
is wrong until it expires); `stranded` (a failed write of the status leaves the user online
until the next login or logout, see the hazards); `late` (a login that ends after its
connection has left: the code has no guard, see the hazards), `blind` (a request
that could not read the gid, the members or their statuses, or read too few), `late`
and `hidden` of `MessagePartition`, and `HalfCopied`: a run that fails during the copy
leaves rows that every later run stumbles over, so that no partition is made any
more; `CatchesUp` says that this is the only failure with such a consequence.
`FoundByIndex` asks for two messages in one table, since of two partition tables the
code reads one, and for tables whose chats were entered. In `ChatClient`, `late`
(a message that was given up although it had come, or restored from the row of a list
that was older), `carried` (a list of indexes taken over a merge is mended by the next
message, `checkLatestMessageIndexes`), `kept` (a row read, or a client closed, between the
clearing of the table and the put is lost; when the put fails, what only it would have
stored is lost until the chat is saved again) and a list of chats that the server could not
read whole.

## 4. What is proved

For all values of the constants under `HubAssumption`, `MessageLogAssumption`,
`PartitionAssumption`, `GroupChatAssumption` and `ChatClientAssumption`, which ask for no
more than types, non-empty lists, positive sizes, and requests such as the handlers accept.
Each module has the same layout: lemmas about operators, the type invariant step by step,
then for each result an inductive invariant with a lemma on the steps that do not touch
it and one on each step that does.

- `HubProofs`: `TypeCorrect`; `OneSession` and `SuccessorIsKept` from `SessionInv`,
  which adds to the first that a displaced session is not in the map (`DisplacedIsOut`)
  and that a connection that has not registered yet is neither in the map nor marked as displaced; without that, a registering connection could
  be one that was displaced. `OwnEntryIsGone` from `LeavingInv`: once a connection
  that was registered in time has had an unregister taken, either the hub still
  holds that job, or the entry is gone; the second unregister cannot be taken before the first is done, which is why "check" finds
  the entry gone. `MapIsStable` needs only that the hub takes the mutex.
  `AllEndedAreOffline` from `DutyInv`: while the status of a user is online, some
  connection of the user owes the row that says offline (`Owes`): its login has been
  accepted, no later login has displaced it, and its `logoutOnce` has not settled the
  matter (or it is late), unless the user is `stranded`. The property alone is not inductive, since it speaks of the
  end only.
- `MessageLogProofs`: `LogTypeCorrect`, with `AtStart` (a request that has not reached
  its messages is at position 1). `Contiguous` and `NewestIsLast` from `StoreInv`:
  a request in a transaction holds its chat's row lock and has the next index
  (`LockInv`); its id, taken while it holds the lock, is above those of the chat
  (`IdInv`); and the log is what the properties say, chat by chat (`LogInv`). A
  commit disturbs no other transaction, because the other is in another chat.
  `Recognised` from `GidInv`: a request that found no message with its gid cannot
  have begun after one was stored. `LogImplemented`, the refinement of `ChatLog`:
  a commit is `Store`, the answer is `Acknowledge`, all else stutters; it needs
  `StoreInv`, that the log read off the table is a sequence whose entries are its
  messages (`LogEntries`), and `PassedInv` (a request past a message has found or
  stored it). `Addressed` from `AddressInv`: whoever a request has read as offline has a
  row for every id the request has saved, or has fetched it; messages, ids, and what is
  waiting or fetched together only grow, so that no other request can undo it.
- `MessagePartitionProofs`: `TypeCorrect` from `TypeInv`, which adds that every row of
  a table was stored as a message and that no id is above their number: only so the
  least and greatest ids and indexes exist that the index tables take from them
  (`HasLeast`, `HasGreatest`). `NoMessageLost`, `NothingDoubledAfterSwap` and
  `IdsStayUnique` from `Inv`. Its heart is `Sound`: whatever the index says is behind
  us (ids up to its last end) is in a table it names, the index ends before the ids to
  come, and a table it does not name yet only doubles rows of `im_message`. The
  replacement may drop the rows up to the last id moved because they are in tables
  (`IndexedInv`), and has all others but the late ones because the copy goes by rank
  and late messages rank behind all that were counted (`KeepInv`). A rollback goes
  back to tables that were sound, and are so still, because messages stored since then
  do not disturb them (`SoundStore`). `IdsAreFound` from `CacheInv`: the cached index is
  a beginning of the index, whose rows span the ids of their tables, and what it lacks only
  doubles rows of `im_message` unless that was replaced since. `IndexesAreFound` from
  `EnteredInv` (the tables of the index hold ascending ranges of ids; a row of
  `im_chat_message_index` is what `ChatStats` makes of its table, spans the chat's indexes
  there, and a table that has one row has one for each of its chats) and `OrderInv` (in a
  chat ids and indexes ascend together, in all tables and those a rollback would bring
  back): a message whose index is in the span of a row has its id between two ids of that
  table, hence is in that table, and in no other (`InSpan`); so all rows that ask for one
  of two messages in a table name the same table, and that the code keeps only one of
  the tables does no harm. `CountIsRight` adds `SentInv` (a chat has as many messages as
  its last index says) and `SumOfCounts`: the fold over the rows is the size of the
  union of what they count. All seven hold for any number of faults.
- `GroupChatProofs`: `TypeCorrect` from `TInv`, which is `TypeOK` said for each goroutine
  (`CallOK`). `MembersAccounted` and `RollCorrect` from `LInv` and `RollInv`: a list in
  the cache, and a list a goroutine has read and not cached yet, is right about every
  user but those whose change has yet to drop it, unless the goroutine is late
  (`GoodLists`); a change ends by dropping the list, or by an error that makes every list
  there late (`ChangeEndsLists`, and `ChangeEndsChat` for the chat); a request that has looked at the list for its answer holds everybody
  who has stayed (`Looked`). `ChatAccounted` from `CInv`, the same for the chat.
  `PinsAreKept` from `PInv`: what a request is about to write back is, but for messages
  that are gone, the row itself unless it is behind (`BaseOK`). `MembershipImplemented`,
  the refinement of `Membership`, from `MInv`: the users done with and those to do are
  the ones asked for, and none is left to do after the call that joins or takes out. A request's
  arrival is `Ask`; `WriteJoin`, `WriteLeave` and `ReadRow` of a member are
  `TakeEffect`; the last call or a failure is `Answer`; `Crash` is `Restart`.
- `ChatClientProofs`: `TypeCorrect` from `TypeInv`, which bounds what `TypeOK` leaves
  open: no index the client has, in memory, on its way or in its database, is beyond the
  server's table. `ListIsWhole` by what `checkLatestMessageIndexes` returns for any list
  (`CheckedResult`, `LatestResult`): the last unbroken stretch begins somewhere, and what
  replaces a list with a gap is unbroken up to the last message. `ShownOnlyOnce` is
  inductive by itself. `SavedIsKept` from `KeptInv`: a message that is kept is not yet at
  the server, so that no arrival can take it off a list, and it is in every place from
  which the list of messages to send may next be taken (`KeptWhere`). `OnlyFailuresRollBack`
  from `ListInv`: while a list of chats that was read is on its way or being merged,
  neither the chat nor the database nor a put that is pending has a row beyond its last
  message, since pushes come only after the list.

`SumOfCounts` is the one fact by induction over data. The induction theorems of the
library are out of the provers' reach, but their conclusion is not: the fold is defined by
a `CHOOSE` of a function that solves an equation; the size of the union solves it, so the
chosen function does, and two solutions cannot differ, because the sizes of the sets on
which they do would have a least element (`HasLeast`). Where no closed form is known, as for
a sequence of client steps, this does not help.

Only model-checked: liveness (`DisplacedIsTold`, `QuietDisconnectEnds`, `RequestsEnd`,
`CatchesUp`), which is out of the prover's reach. Every invariant, step property and
refinement of a passing run is a theorem. The violations of section 3 are counterexamples
on their instances and need no proof.

## 5. Not modelled

The contents of messages and the wire format; HTTP, upload and admin pages;
configuration, installation, upgrade; the PHP backend, but for the schema. Of the client
all but one chat's messages: several chats, read marks and unread counts, notifications,
retraction, the history and the views. Of the chats, creation of groups, administrators, committers, archives and
the marks of a user; `ChatMerge` and the push queue (`im_queue`) have no caller in the
server. Most files of the repository are not its own: the headers and binaries of PHP
that `src/xxd/php` carries for each platform, the framework under `src/xxb`, libraries
and assets of the client. Measured in lines they are nearly everything, and none of
them is modelled.

Met while modelling and in no run:

- `chatleave` announces to all members, while the comment at message.go:289 says to the
  administrators and the owner; the chat in an answer may be older than the change just
  made, when another request caches it late; a browser session that logs in within the
  second of another one takes its place.
- A connection whose login failed after it was announced is online and not in the hub;
  when it leaves, its unregister takes out whatever session the user has on that device
  (client.go:360, hub.go:112).
- A resend that overlaps the request it repeats is stored twice: the gid is looked up
  outside the transaction (message.go:341) and its key in the database is not unique
  (xuanxuan.sql:91), while the client calls it globally unique (entity.ts:104).
- MaxOnlineUser is tested before a login is authenticated and registered
  (client.go:286), so that concurrent logins pass it together. writePump that fails while
  it drains its channel loses what it has taken (client.go:598).
- The client takes a last message older than its own for a server whose data were cleared
  or rolled back (chats-store.ts:604); a failed read of the last messages, which the server
  ignores (chat.go:624), looks the same and makes it clear its messages and the contents
  of unsent ones.
- A local message is deleted when the server's arrives (chat.ts:1159), but one confirmed
  while a list is merged comes back from the row of the database. What arrives during the
  merge goes to the chat that is about to be replaced and is forgotten with it.

## 6. Plan

Done: `Hub`, `MessageLog` with `ChatLog`, `MessagePartition`, `GroupChat` with
`Membership`, `ChatClient`, and the proofs of all their safety properties. Left, the most
important first:

1. `Delivery`: `Hub` composed with the statuses and notifications over `clientStatus`, so
   that what `MessageLog` keeps for a user and what `Hub` pushes together miss nobody; its
   type invariant and safety by the invariants there are.
2. `ChatClient` against `ChatLog`: that the client's log of a chat is a part of the
   server's, as a refinement; read marks and unread counts.
3. A contract of `Hub` alone (one session per device, told when displaced) as an abstract
   specification that it implements.
