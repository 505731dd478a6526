----------------------------- MODULE GroupChat -----------------------------
(***************************************************************************)
(* The requests about a group chat (src/xxd/service/chat): chatjoin,       *)
(* chatinvite, chatleave, chatkick, chatdismiss, chatrename,               *)
(* chatpinmessages, chatunpinmessages and chatgetmembers. Every request    *)
(* runs in a goroutine of its own (client.go:560), against the rows of     *)
(* im_chat and im_chatuser and two caches that all requests share: the     *)
(* members of a chat for 5 seconds and the chat itself for 3. A cache is   *)
(* filled by a look, a read of the database and a write of the entry, and  *)
(* is emptied after a change has been written; other requests come in      *)
(* between any two of these steps.                                         *)
(*                                                                         *)
(* Left out: several chats, archived ones, administrators other than the   *)
(* owner, super users, avatars, the list of members in the answered chat   *)
(* (the cached chat is one object, whose list all requests set), and the   *)
(* message that announces a change, which MessageLog stores.               *)
(***************************************************************************)
EXTENDS Naturals, Sequences, FiniteSets

CONSTANTS
  Users,        \* the accounts
  Owner,        \* who created and owns the chat
  Start,        \* the members at first
  Strangers,    \* who has no row in im_chatuser yet
  Public,       \* whether anybody may join
  AdminInvite,  \* whether only the owner may invite
  Msgs,         \* message ids
  Pinned,       \* the messages pinned at first
  MaxPins,      \* how many pinned messages PinMessages goes on from (10)
  Reqs,         \* goroutines of requests
  Losable,      \* bound: the messages that may be deleted or moved
  Ops,          \* bound: the requests that clients make
  MaxEvents     \* bound: how often something happens from outside: requests
                \* but for chatgetmembers, removals of messages, faults

Kinds == {"join", "invite", "leave", "kick", "dismiss", "rename", "pin",
          "unpin", "getmembers"}
Op == [kind : Kinds, by : Users, users : SUBSET Users, msgs : SUBSET Msgs]

ASSUME GroupChatAssumption ==
  /\ Owner \in Users
  /\ Start \subseteq Users /\ Strangers \subseteq Users \ Start
  /\ Public \in BOOLEAN /\ AdminInvite \in BOOLEAN
  /\ Msgs \subseteq Nat /\ IsFiniteSet(Msgs) /\ Pinned \subseteq Msgs
  /\ Losable \subseteq Msgs
  /\ MaxPins \in Nat /\ MaxEvents \in Nat
  /\ Ops \subseteq Op
  /\ \A o \in Ops :
       /\ o.kind \in {"join", "leave"} => o.users = {o.by}
       /\ o.kind \in {"invite", "kick"} => o.users # {}
       /\ o.kind \notin {"join", "leave", "invite", "kick"} => o.users = {}

VARIABLES
  rows,      \* im_chatuser: "in", "out" (quit is set) or "none"
  chat,      \* im_chat: the row of the chat
  gone,      \* messages deleted, or moved out of im_message
  memberCache, \* ChatMembersCache
  chatCache, \* ChatCache
  op,        \* what a goroutine was asked for
  at,        \* the call of its handler it has reached
  step,      \* where it is in that call
  todo,      \* the users it has yet to join to the chat or to take out
  user,      \* the user it is joining or taking out
  row,       \* Join: the row of the user it has read
  added,     \* members: those it has really joined
  gotMembers,  \* GetMembers: what the database returned
  gotChat,   \* GetChatByGid: what the database returned
  held,      \* chatInfo
  roll,      \* the members from whom the users of the answer are taken
  late,      \* history: since it read, a change was written, and announced or
             \* taken for failed
  behind,    \* history: chatInfo may be older than the row
  blind,     \* history: roll comes from a late entry or a failed read
  stay,      \* history: who has been a member since the request arrived
  away,      \* history: who has not been one since then
  done,      \* history: the users on whom it has taken effect
  events     \* what has happened from outside

dbVars    == <<rows, chat, gone>>
cacheVars == <<memberCache, chatCache>>
callVars  == <<todo, user, row, added>>
gotVars   == <<gotMembers, gotChat, late>>
pastVars  == <<stay, away, done>>
vars == <<dbVars, cacheVars, op, at, step, callVars, gotVars, held, behind,
          roll, blind, pastVars, events>>


Chat == [dismissed : BOOLEAN, renamed : BOOLEAN, pinned : SUBSET Msgs]
NoChat == [dismissed |-> FALSE, renamed |-> FALSE, pinned |-> {}]
NoMembers == [on |-> FALSE, list |-> {}, late |-> FALSE]
NoEntry == [on |-> FALSE, chat |-> NoChat, late |-> FALSE]
NoOp == [kind |-> "getmembers", by |-> Owner, users |-> {}, msgs |-> {}]

Members == {u \in Users : rows[u] = "in"}

-----------------------------------------------------------------------------
(* The calls a handler makes, in order: "base" and "again" are             *)
(* GetChatByGid, "users", "data" and "cast" are GetMembers, for the users  *)
(* of the answer, in GetChatByGidWithExtra and in MessageCreateBroadcast.  *)

ChatCalls == {"base", "again"}
MemberCalls == {"users", "data", "cast"}

JoinCalls    == <<"base", "join", "users", "again", "data", "cast">>
InviteCalls  == <<"base", "join", "again", "data", "users", "cast">>
LeaveCalls   == <<"base", "leave", "users", "again", "data", "cast">>
KickCalls    == <<"base", "leave", "again", "data", "users">>
DismissCalls == <<"base", "update", "users", "cast", "again", "data">>
RenameCalls  == <<"base", "update", "users", "again", "data", "cast">>
PinCalls     == <<"base", "update", "again", "users">>
UnpinCalls   == <<"base", "update", "again", "users">>
LookUpCalls  == <<"base", "users">>

Script == [join |-> JoinCalls, invite |-> InviteCalls, leave |-> LeaveCalls,
           kick |-> KickCalls, dismiss |-> DismissCalls, rename |-> RenameCalls,
           pin |-> PinCalls, unpin |-> UnpinCalls, getmembers |-> LookUpCalls]

Kind(r) == op[r].kind
Call(r) == Script[Kind(r)][at[r]]

\* at most one "fill" of each cache and one change is under way in a goroutine
Reading(r, calls) == step[r] = "fill" /\ Call(r) \in calls
Announcing(r, calls) == step[r] = "uncache" /\ Call(r) \in calls

\* users whose row has been changed, the cache not yet being emptied: the answer of
\* the database, which may still be an error, is on its way
Changing == {user[r] : r \in {q \in Reqs : Announcing(q, {"join", "leave"})}}
ChatChanging == \E r \in Reqs : Announcing(r, {"update"})

\* kick never takes out the owner
Aims(o) == IF o.kind = "kick"
             THEN o.users \ {Owner} ELSE o.users

-----------------------------------------------------------------------------
Init ==
  /\ rows = [u \in Users |-> IF u \in Start THEN "in"
                             ELSE IF u \in Strangers THEN "none" ELSE "out"]
  /\ chat = [dismissed |-> FALSE, renamed |-> FALSE, pinned |-> Pinned]
  /\ gone = {}
  /\ memberCache = NoMembers /\ chatCache = NoEntry
  /\ op = [r \in Reqs |-> NoOp]
  /\ at = [r \in Reqs |-> 1]
  /\ step = [r \in Reqs |-> "idle"]
  /\ todo = [r \in Reqs |-> {}]
  /\ user = [r \in Reqs |-> Owner]
  /\ row = [r \in Reqs |-> "none"]
  /\ added = [r \in Reqs |-> FALSE]
  /\ gotMembers = [r \in Reqs |-> {}]
  /\ gotChat = [r \in Reqs |-> NoChat]
  /\ held = [r \in Reqs |-> NoChat]
  /\ roll = [r \in Reqs |-> {}]
  /\ late = [r \in Reqs |-> FALSE]
  /\ behind = [r \in Reqs |-> FALSE]
  /\ blind = [r \in Reqs |-> FALSE]
  /\ stay = [r \in Reqs |-> {}]
  /\ away = [r \in Reqs |-> {}]
  /\ done = [r \in Reqs |-> {}]
  /\ events = 0

Happens == events < MaxEvents /\ events' = events + 1

\* A client asks; chatgetmembers may be asked any number of times.
Arrive(r) ==
  /\ step[r] = "idle"
  /\ \E o \in Ops :
       /\ IF o.kind = "getmembers" THEN UNCHANGED events ELSE Happens
       /\ op' = [op EXCEPT ![r] = o]
       /\ todo' = [todo EXCEPT ![r] = Aims(o)]
  /\ at' = [at EXCEPT ![r] = 1]
  /\ step' = [step EXCEPT ![r] = "look"]
  /\ added' = [added EXCEPT ![r] = FALSE]
  /\ roll' = [roll EXCEPT ![r] = {}]
  /\ blind' = [blind EXCEPT ![r] = FALSE]
  /\ stay' = [stay EXCEPT ![r] = Members \ Changing]
  /\ away' = [away EXCEPT ![r] = (Users \ Members) \ Changing]
  /\ done' = [done EXCEPT ![r] = {}]
  /\ UNCHANGED <<dbVars, cacheVars, user, row, gotVars, held, behind>>

-----------------------------------------------------------------------------
(* The control flow of a handler.                                          *)

First(call, kind) ==
  CASE call \in ChatCalls \cup MemberCalls -> "look"
    [] call = "join" -> "touch"
    [] call = "update" /\ kind = "pin" -> "sift"
    [] OTHER -> "write"

\* no broadcast when nobody was joined, or when the chat is dismissed; chatInfo
\* is the one of GetChatByGidWithExtra by then
LastCall(r) ==
  \/ at[r] = Len(Script[Kind(r)])
  \/ Kind(r) = "invite" /\ Call(r) = "users" /\ ~added[r]
  \/ Kind(r) = "leave" /\ Call(r) = "data" /\ held[r].dismissed

Proceed(r) ==
  IF LastCall(r)
    THEN step' = [step EXCEPT ![r] = "answer"] /\ UNCHANGED at
    ELSE /\ at' = [at EXCEPT ![r] = @ + 1]
         /\ step' = [step EXCEPT
              ![r] = First(Script[Kind(r)][at[r] + 1], Kind(r))]

Stay(r, s) == step' = [step EXCEPT ![r] = s] /\ UNCHANGED at

\* mutated: kick goes on when the owner was the only one to be taken out
RefusedButOwner(r, c) ==
  \/ Kind(r) = "join" /\ ~Public
  \/ Kind(r) \in {"kick", "dismiss", "rename", "pin", "unpin"} /\ op[r].by # Owner
  \/ Kind(r) = "rename" /\ c.dismissed

\* what the handlers check of the chat they have found; that the one who invites
\* is in the chat is asked, too, but the answer is always yes (chatuser.go:343)
Refused(r, c) ==
  \/ Kind(r) = "join" /\ ~Public
  \/ Kind(r) = "invite" /\ op[r].by # Owner /\ AdminInvite /\ ~Public
  \/ Kind(r) \in {"kick", "dismiss", "rename", "pin", "unpin"} /\ op[r].by # Owner
  \/ Kind(r) = "kick" /\ Aims(op[r]) = {}
  \/ Kind(r) = "rename" /\ c.dismissed

-----------------------------------------------------------------------------
(* GetChatByGid                                                            *)

\* a goroutine that will write what it has made of the chat it found
Basing(r) == Call(r) = "update" /\ step[r] \in {"sift", "write"}

\* chatInfo of r is c, and older than the row if stale; the handler checks the
\* chat it starts from
Hold(r, c, stale) ==
  /\ held' = [held EXCEPT ![r] = c]
  /\ behind' = [behind EXCEPT ![r] = Call(r) = "base" /\ (stale \/ ChatChanging)]
  /\ IF Call(r) = "base" /\ Refused(r, c) THEN Stay(r, "fail")
     ELSE Proceed(r)

\* A miss and the read are one step: between them others could only change the
\* cache, and what they put there may as well have expired.
LookChat(r) ==
  /\ step[r] = "look" /\ Call(r) \in ChatCalls
  /\ IF chatCache.on
       THEN Hold(r, chatCache.chat, chatCache.late) /\ UNCHANGED gotChat
       ELSE /\ gotChat' = [gotChat EXCEPT ![r] = chat]
            /\ Stay(r, "fill") /\ UNCHANGED <<held, behind>>
  /\ UNCHANGED <<dbVars, cacheVars, op, callVars, gotMembers, late, roll,
                 blind, pastVars, events>>

FillChat(r) ==
  /\ Reading(r, ChatCalls)
  /\ chatCache' = [on |-> TRUE, chat |-> gotChat[r], late |-> late[r]]
  /\ Hold(r, gotChat[r], late[r])
  /\ gotChat' = [gotChat EXCEPT ![r] = NoChat]
  /\ late' = [late EXCEPT ![r] = FALSE]
  /\ UNCHANGED <<dbVars, memberCache, op, callVars, gotMembers, roll, blind,
                 pastVars, events>>

-----------------------------------------------------------------------------
(* GetMembers                                                              *)

\* the list goes into the answer, or into what is left out
Use(r, list, tainted) ==
  IF Call(r) = "users"
    THEN /\ roll' = [roll EXCEPT ![r] = list]
         /\ blind' = [blind EXCEPT ![r] = tainted]
    ELSE UNCHANGED <<roll, blind>>

\* mutated: those who have left are in the list
LookMembersEver(r) ==
  /\ step[r] = "look" /\ Call(r) \in MemberCalls
  /\ IF memberCache.on
       THEN /\ Use(r, memberCache.list, memberCache.late)
            /\ Proceed(r) /\ UNCHANGED gotMembers
       ELSE /\ gotMembers' = [gotMembers EXCEPT ![r] = {u \in Users : rows[u] # "none"}]
            /\ Stay(r, "fill") /\ UNCHANGED <<roll, blind>>
  /\ UNCHANGED <<dbVars, cacheVars, op, callVars, gotChat, late, held, behind,
                 pastVars, events>>

LookMembers(r) ==
  /\ step[r] = "look" /\ Call(r) \in MemberCalls
  /\ IF memberCache.on
       THEN /\ Use(r, memberCache.list, memberCache.late)
            /\ Proceed(r) /\ UNCHANGED gotMembers
       ELSE /\ gotMembers' = [gotMembers EXCEPT ![r] = Members]
            /\ Stay(r, "fill") /\ UNCHANGED <<roll, blind>>
  /\ UNCHANGED <<dbVars, cacheVars, op, callVars, gotChat, late, held, behind,
                 pastVars, events>>

\* an empty list is not cached
FillMembers(r) ==
  /\ Reading(r, MemberCalls)
  /\ memberCache' =
       IF gotMembers[r] = {} THEN memberCache
       ELSE [on |-> TRUE, list |-> gotMembers[r], late |-> late[r]]
  /\ Use(r, gotMembers[r], late[r])
  /\ Proceed(r)
  /\ gotMembers' = [gotMembers EXCEPT ![r] = {}]
  /\ late' = [late EXCEPT ![r] = FALSE]
  /\ UNCHANGED <<dbVars, chatCache, op, callVars, gotChat, held, behind,
                 pastVars, events>>

-----------------------------------------------------------------------------
(* Join and Leave, for one user after the other.                           *)

\* editedDate is written and the cached chat dropped
Touch(r) ==
  /\ step[r] = "touch"
  /\ chatCache' = NoEntry
  /\ Stay(r, "row")
  /\ UNCHANGED <<dbVars, memberCache, op, callVars, gotVars, held, behind,
                 roll, blind, pastVars, events>>

\* u is done with
NextUser(r, u) ==
  /\ todo' = [todo EXCEPT ![r] = @ \ {u}]
  /\ user' = [user EXCEPT ![r] = Owner]
  /\ IF todo[r] = {u} THEN Proceed(r) ELSE Stay(r, First(Call(r), Kind(r)))

\* mutated: whoever has a row is joined, even after having left
ReadRowEver(r) ==
  /\ step[r] = "row"
  /\ \E u \in todo[r] :
       IF rows[u] # "none"
         THEN /\ NextUser(r, u)
              /\ done' = [done EXCEPT ![r] = @ \cup {u}]
              /\ UNCHANGED row
         ELSE /\ user' = [user EXCEPT ![r] = u]
              /\ row' = [row EXCEPT ![r] = rows[u]]
              /\ Stay(r, "write") /\ UNCHANGED <<todo, done>>
  /\ UNCHANGED <<dbVars, cacheVars, op, added, gotVars, held, behind, roll,
                 blind, stay, away, events>>

\* a user who is a member already is joined
ReadRow(r) ==
  /\ step[r] = "row"
  /\ \E u \in todo[r] :
       IF rows[u] = "in"
         THEN /\ NextUser(r, u)
              /\ done' = [done EXCEPT ![r] = @ \cup {u}]
              /\ UNCHANGED row
         ELSE /\ user' = [user EXCEPT ![r] = u]
              /\ row' = [row EXCEPT ![r] = rows[u]]
              /\ Stay(r, "write") /\ UNCHANGED <<todo, done>>
  /\ UNCHANGED <<dbVars, cacheVars, op, added, gotVars, held, behind, roll,
                 blind, stay, away, events>>

\* the unique key of im_chatuser refuses a second row
Duplicate(r) == row[r] = "none" /\ rows[user[r]] # "none"

RefuseJoin(r) ==
  /\ step[r] = "write" /\ Call(r) = "join"
  /\ Duplicate(r)
  /\ Stay(r, "fail")
  /\ UNCHANGED <<dbVars, cacheVars, op, callVars, gotVars, held, behind, roll,
                 blind, pastVars, events>>

WriteJoin(r) ==
  /\ step[r] = "write" /\ Call(r) = "join"
  /\ ~Duplicate(r)
  /\ rows' = [rows EXCEPT ![user[r]] = "in"]
  /\ row' = [row EXCEPT ![r] = "none"]
  /\ added' = [added EXCEPT ![r] = TRUE]
  /\ away' = [q \in Reqs |-> away[q] \ {user[r]}]
  /\ done' = [done EXCEPT ![r] = @ \cup {user[r]}]
  /\ Stay(r, "uncache")
  /\ UNCHANGED <<chat, gone, cacheVars, op, todo, user, gotVars, held, behind,
                 roll, blind, stay, events>>

WriteLeave(r) ==
  /\ step[r] = "write" /\ Call(r) = "leave"
  /\ \E u \in todo[r] :
       /\ rows' = [rows EXCEPT ![u] = IF @ = "none" THEN "none" ELSE "out"]
       /\ user' = [user EXCEPT ![r] = u]
       /\ stay' = [q \in Reqs |-> stay[q] \ {u}]
       /\ done' = [done EXCEPT ![r] = @ \cup {u}]
  /\ Stay(r, "uncache")
  /\ UNCHANGED <<chat, gone, cacheVars, op, todo, row, added, gotVars, held,
                 behind, roll, blind, away, events>>

\* mutated: the list of members stays in the cache
UncacheMembersNot(r) ==
  /\ Announcing(r, {"join", "leave"})
  /\ NextUser(r, user[r])
  /\ UNCHANGED <<dbVars, cacheVars, op, row, added, gotVars, held, behind,
                 roll, blind, pastVars, events>>

\* InvalidateChatMembersCache
UncacheMembers(r) ==
  /\ Announcing(r, {"join", "leave"})
  /\ memberCache' = NoMembers
  /\ late' = [q \in Reqs |-> late[q] \/ Reading(q, MemberCalls)]
  /\ NextUser(r, user[r])
  /\ UNCHANGED <<dbVars, chatCache, op, row, added, gotMembers, gotChat, held,
                 behind, roll, blind, pastVars, events>>

-----------------------------------------------------------------------------
(* Dismiss, UpdateName, PinMessages and UnpinMessages                      *)

Lowest(ms, n) == {m \in ms : Cardinality({k \in ms : k < m}) < n}

\* PinMessages looks up the messages pinned in chatInfo, and goes on from the
\* first of those that are still there
Sift(r) ==
  /\ step[r] = "sift"
  /\ held' = [held EXCEPT ![r].pinned = Lowest(@ \ gone, MaxPins)]
  /\ Stay(r, "write")
  /\ UNCHANGED <<dbVars, cacheVars, op, callVars, gotVars, behind, roll,
                 blind, pastVars, events>>

\* mutated: what is pinned now replaces what was pinned before
UpdatedAnew(r) ==
  CASE Kind(r) = "dismiss" -> [chat EXCEPT !.dismissed = TRUE]
    [] Kind(r) = "rename"  -> [chat EXCEPT !.renamed = TRUE]
    [] Kind(r) = "pin"     -> [chat EXCEPT !.pinned = op[r].msgs]
    [] OTHER               -> [chat EXCEPT !.pinned = held[r].pinned \ op[r].msgs]

Updated(r) ==
  CASE Kind(r) = "dismiss" -> [chat EXCEPT !.dismissed = TRUE]
    [] Kind(r) = "rename"  -> [chat EXCEPT !.renamed = TRUE]
    [] Kind(r) = "pin"     -> [chat EXCEPT !.pinned = held[r].pinned \cup op[r].msgs]
    [] OTHER               -> [chat EXCEPT !.pinned = held[r].pinned \ op[r].msgs]

Update(r) ==
  /\ step[r] = "write" /\ Call(r) = "update"
  /\ chat' = Updated(r)
  /\ behind' = [q \in Reqs |-> q # r /\ (behind[q] \/ Basing(q))]
  /\ Stay(r, "uncache")
  /\ UNCHANGED <<rows, gone, cacheVars, op, callVars, gotVars, held, roll,
                 blind, pastVars, events>>

\* mutated: the chat stays in the cache
UncacheChatNot(r) ==
  /\ Announcing(r, {"update"})
  /\ Proceed(r)
  /\ UNCHANGED <<dbVars, cacheVars, op, callVars, gotVars, held, behind, roll,
                 blind, pastVars, events>>

\* InvalidateChatCache
UncacheChat(r) ==
  /\ Announcing(r, {"update"})
  /\ chatCache' = NoEntry
  /\ late' = [q \in Reqs |-> late[q] \/ Reading(q, ChatCalls)]
  /\ Proceed(r)
  /\ UNCHANGED <<dbVars, memberCache, op, callVars, gotMembers, gotChat, held,
                 behind, roll, blind, pastVars, events>>

-----------------------------------------------------------------------------
\* The answer, a success or an error, is sent, and the goroutine ends.
Answer(r) ==
  /\ step[r] \in {"answer", "fail"}
  /\ at' = [at EXCEPT ![r] = 1]
  /\ step' = [step EXCEPT ![r] = "idle"]
  /\ op' = [op EXCEPT ![r] = NoOp]
  /\ todo' = [todo EXCEPT ![r] = {}]
  /\ user' = [user EXCEPT ![r] = Owner]
  /\ row' = [row EXCEPT ![r] = "none"]
  /\ added' = [added EXCEPT ![r] = FALSE]
  /\ held' = [held EXCEPT ![r] = NoChat]
  /\ behind' = [behind EXCEPT ![r] = FALSE]
  /\ roll' = [roll EXCEPT ![r] = {}]
  /\ blind' = [blind EXCEPT ![r] = FALSE]
  /\ stay' = [stay EXCEPT ![r] = {}]
  /\ away' = [away EXCEPT ![r] = {}]
  /\ done' = [done EXCEPT ![r] = {}]
  /\ UNCHANGED <<dbVars, cacheVars, gotVars, events>>

ReadsChat(r) ==
  step[r] = "look" /\ Call(r) \in ChatCalls /\ ~chatCache.on
ReadsMembers(r) ==
  step[r] = "look" /\ Call(r) \in MemberCalls /\ ~memberCache.on

\* An access to the database fails without an effect, but perhaps on editedDate,
\* and the handler answers with the error.
FailAndTell(r) ==
  /\ \/ step[r] \in {"touch", "row", "sift", "write"}
     \/ ReadsChat(r) /\ (Call(r) = "base" \/ Kind(r) \in {"pin", "unpin"})
     \/ ReadsMembers(r) /\ Kind(r) \in {"unpin", "getmembers"}
  /\ Happens
  /\ Stay(r, "fail")
  /\ UNCHANGED <<dbVars, cacheVars, op, callVars, gotVars, held, behind, roll,
                 blind, pastVars>>

\* The database has carried out the change, and reports an error all the same: the
\* handler answers with the error, and nothing is dropped from the cache. What is
\* cached or on its way there may be older than the change, and is late. A request
\* fails so at most once, and needs no bound.
FailUnconfirmed(r) ==
  /\ step[r] = "uncache"
  /\ \/ /\ Call(r) \in {"join", "leave"}
        /\ memberCache' = [memberCache EXCEPT !.late = memberCache.on]
        /\ late' = [q \in Reqs |-> late[q] \/ Reading(q, MemberCalls)]
        /\ UNCHANGED chatCache
     \/ /\ Call(r) = "update"
        /\ chatCache' = [chatCache EXCEPT !.late = chatCache.on]
        /\ late' = [q \in Reqs |-> late[q] \/ Reading(q, ChatCalls)]
        /\ UNCHANGED memberCache
  /\ Stay(r, "fail")
  /\ UNCHANGED <<dbVars, op, callVars, gotMembers, gotChat, held, behind, roll,
                 blind, pastVars, events>>

\* The error of GetMembers is ignored: it stands for an empty list.
FailUnnoticed(r) ==
  /\ ReadsMembers(r)
  /\ Call(r) # "data" /\ Kind(r) \notin {"unpin", "getmembers"}
  /\ Happens
  /\ Use(r, {}, TRUE)
  /\ Proceed(r)
  /\ UNCHANGED <<dbVars, cacheVars, op, callVars, gotVars, held, behind,
                 pastVars>>

\* xxd stops and is started again. Besides other reasons, it panics when
\* GetChatByGidWithExtra fails: the error is ignored and the chat is nil.
Crash ==
  /\ Happens
  /\ memberCache' = NoMembers /\ chatCache' = NoEntry
  /\ op' = [r \in Reqs |-> NoOp]
  /\ at' = [r \in Reqs |-> 1]
  /\ step' = [r \in Reqs |-> "idle"]
  /\ todo' = [r \in Reqs |-> {}]
  /\ user' = [r \in Reqs |-> Owner]
  /\ row' = [r \in Reqs |-> "none"]
  /\ added' = [r \in Reqs |-> FALSE]
  /\ gotMembers' = [r \in Reqs |-> {}]
  /\ gotChat' = [r \in Reqs |-> NoChat]
  /\ held' = [r \in Reqs |-> NoChat]
  /\ roll' = [r \in Reqs |-> {}]
  /\ late' = [r \in Reqs |-> FALSE]
  /\ behind' = [r \in Reqs |-> FALSE]
  /\ blind' = [r \in Reqs |-> FALSE]
  /\ stay' = [r \in Reqs |-> {}]
  /\ away' = [r \in Reqs |-> {}]
  /\ done' = [r \in Reqs |-> {}]
  /\ UNCHANGED <<dbVars>>

\* The entries live for 5 and for 3 seconds; a message that is stored in the
\* chat drops the cached chat, too.
ExpireMembers ==
  /\ memberCache.on /\ memberCache' = NoMembers
  /\ UNCHANGED <<dbVars, chatCache, op, at, step, callVars, gotVars, held,
                 behind, roll, blind, pastVars, events>>

ExpireChat ==
  /\ chatCache.on /\ chatCache' = NoEntry
  /\ UNCHANGED <<dbVars, memberCache, op, at, step, callVars, gotVars, held,
                 behind, roll, blind, pastVars, events>>

\* A message is deleted, or the nightly job moves it out of im_message.
Remove ==
  /\ \E m \in Losable \ gone : gone' = gone \cup {m}
  /\ Happens
  /\ UNCHANGED <<rows, chat, cacheVars, op, at, step, callVars, gotVars, held,
                 behind, roll, blind, pastVars>>

-----------------------------------------------------------------------------
Run(r) ==
  \/ LookChat(r) \/ FillChat(r) \/ LookMembers(r) \/ FillMembers(r)
  \/ Touch(r) \/ ReadRow(r) \/ RefuseJoin(r) \/ WriteJoin(r)
  \/ WriteLeave(r) \/ UncacheMembers(r)
  \/ Sift(r) \/ Update(r) \/ UncacheChat(r)
  \/ Answer(r)

Next ==
  \/ \E r \in Reqs :
       \/ Arrive(r) \/ Run(r)
       \/ FailAndTell(r) \/ FailUnconfirmed(r) \/ FailUnnoticed(r)
  \/ Crash \/ ExpireMembers \/ ExpireChat \/ Remove

Spec == Init /\ [][Next]_vars

-----------------------------------------------------------------------------
(* Properties                                                              *)

Types ==
  /\ rows \in [Users -> {"in", "out", "none"}]
  /\ chat \in Chat /\ gone \subseteq Msgs
  /\ memberCache \in [on : BOOLEAN, list : SUBSET Users, late : BOOLEAN]
  /\ chatCache \in [on : BOOLEAN, chat : Chat, late : BOOLEAN]
  /\ op \in [Reqs -> Op]
  /\ at \in [Reqs -> 1 .. 6]
  /\ step \in [Reqs -> {"idle", "look", "fill", "touch", "row", "sift", "write",
                        "uncache", "answer", "fail"}]
  /\ todo \in [Reqs -> SUBSET Users]
  /\ user \in [Reqs -> Users]
  /\ row \in [Reqs -> {"in", "out", "none"}]
  /\ added \in [Reqs -> BOOLEAN]
  /\ gotMembers \in [Reqs -> SUBSET Users] /\ gotChat \in [Reqs -> Chat]
  /\ held \in [Reqs -> Chat]
  /\ roll \in [Reqs -> SUBSET Users]
  /\ late \in [Reqs -> BOOLEAN] /\ behind \in [Reqs -> BOOLEAN]
  /\ blind \in [Reqs -> BOOLEAN]
  /\ stay \in [Reqs -> SUBSET Users] /\ away \in [Reqs -> SUBSET Users]
  /\ done \in [Reqs -> SUBSET Users]
  /\ events \in Nat

\* a goroutine is at a call of its handler, and at a step of that call; one
\* that joins users or takes them out has a user left
AtACall ==
  \A r \in Reqs :
    /\ at[r] \in DOMAIN Script[Kind(r)]
    /\ step[r] \in {"look", "fill"} => Call(r) \in ChatCalls \cup MemberCalls
    /\ step[r] \in {"touch", "row"} => Call(r) = "join"
    /\ step[r] \in {"write", "uncache"} => Call(r) \in {"join", "leave", "update"}
    /\ step[r] = "sift" => Call(r) = "update" /\ Kind(r) = "pin"
    /\ Call(r) \in {"join", "leave"} => todo[r] # {}
    /\ step[r] = "uncache" /\ Call(r) # "update" => user[r] \in todo[r]

\* Every variable keeps its type, and no handler runs past its calls or users.
TypeOK == Types /\ AtACall

\* A cached list is wrong about a user only while a change of this user has yet
\* to drop it (chat.go:416, chat_leave.go:16), or if it was read before a change
\* and cached after the change had dropped the list (chatuser.go:166), or if it was
\* cached or being read when a change took effect that was reported as failed, and
\* drops nothing (chat.go:414, chat_leave.go:12).
MemberCacheAccounted ==
  memberCache.on /\ ~memberCache.late =>
    \A u \in Users \ Changing : u \in memberCache.list <=> rows[u] = "in"

\* The members from whom an answer takes its users, which chatgetmembers
\* returns as they are, include whoever has been a member all the time since
\* the request arrived and nobody who has been none all the time, whatever
\* others change meanwhile; but for failed reads, and lists that were cached late
\* or kept by a change that was reported as failed.
RollIsRight ==
  \A r \in Reqs : step[r] = "answer" /\ ~blind[r] =>
    stay[r] \subseteq roll[r] /\ roll[r] \cap away[r] = {}

\* The same for the cached chat (chat.go:198-203, 253-258, 928-933, 967-972).
ChatCacheAccounted ==
  chatCache.on /\ ~chatCache.late /\ ~ChatChanging => chatCache.chat = chat

\* A request that goes on from a chat which nobody has changed since it was
\* read, be it with an error, drops no pinned message but those it unpins and
\* those that are gone, as long as there are not too many (chat.go:888-943).
PinsKept ==
  [][\A r \in Reqs :
       /\ Call(r) = "update" /\ step[r] = "write" /\ step'[r] = "uncache"
       /\ ~behind[r] /\ Cardinality(chat.pinned) <= MaxPins
       => chat.pinned \ chat'.pinned \subseteq
            gone \cup (IF Kind(r) = "unpin" THEN op[r].msgs ELSE {})]_vars

\* Joining and leaving are atomic for each user, and an answered success means
\* that everybody named was joined or taken out (chat.go:379-451, invite.go:50,
\* kick.go:70).
Task(o) == [aim |-> IF o.kind \in {"leave", "kick"} THEN "out" ELSE "in",
            users |-> Aims(o)]
Promise == INSTANCE Membership WITH
  members <- Members, task <- [r \in Reqs |-> Task(op[r])],
  result <- [r \in Reqs |-> CASE step[r] = "answer" -> "success"
                              [] step[r] = "fail" -> "fail"
                              [] OTHER -> "none"],
  Tasks <- {Task(o) : o \in Ops}
ImplementsMembership == Promise!Spec

=============================================================================
