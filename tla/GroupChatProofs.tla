--------------------------- MODULE GroupChatProofs ---------------------------
(***************************************************************************)
(* Theorems about GroupChat, for any number of users, messages, requests   *)
(* and pinned messages.                                                    *)
(***************************************************************************)
EXTENDS GroupChat, FiniteSetTheorems, TLAPS

Steps == {"idle", "look", "fill", "touch", "row", "sift", "write", "uncache",
          "answer", "fail"}
Calls == ChatCalls \cup MemberCalls \cup {"join", "leave", "update"}

-----------------------------------------------------------------------------
(* The scripts of the handlers.                                            *)

\* every handler starts with GetChatByGid, changes the chat in its second call,
\* and asks once for the members whose users the answer goes to
ScriptIs(k, s) ==
  /\ Len(s) \in 2 .. 6 /\ DOMAIN s = 1 .. Len(s)
  /\ \A i \in 1 .. Len(s) :
       /\ s[i] \in Calls
       /\ s[i] = "base" <=> i = 1
       /\ s[i] = "join" <=> i = 2 /\ k \in {"join", "invite"}
       /\ s[i] = "leave" <=> i = 2 /\ k \in {"leave", "kick"}
       /\ s[i] = "update" <=> i = 2 /\ k \in {"dismiss", "rename", "pin", "unpin"}
       /\ k = "leave" /\ s[i] = "data" => i = 5
  /\ \E i \in 2 .. Len(s) : s[i] = "users"
  /\ k = "leave" => s[3] = "users" /\ Len(s) = 6
  /\ k # "getmembers" => Len(s) > 2

LEMMA ScriptFacts == \A k \in Kinds : ScriptIs(k, Script[k])
<1>1. ScriptIs("join", Script["join"])
  BY DEF Script, JoinCalls, ScriptIs, Calls, ChatCalls, MemberCalls
<1>2. ScriptIs("invite", Script["invite"])
  BY DEF Script, InviteCalls, ScriptIs, Calls, ChatCalls, MemberCalls
<1>3. ScriptIs("leave", Script["leave"])
  BY DEF Script, LeaveCalls, ScriptIs, Calls, ChatCalls, MemberCalls
<1>4. ScriptIs("kick", Script["kick"])
  BY DEF Script, KickCalls, ScriptIs, Calls, ChatCalls, MemberCalls
<1>5. ScriptIs("dismiss", Script["dismiss"])
  BY DEF Script, DismissCalls, ScriptIs, Calls, ChatCalls, MemberCalls
<1>6. ScriptIs("rename", Script["rename"])
  BY DEF Script, RenameCalls, ScriptIs, Calls, ChatCalls, MemberCalls
<1>7. ScriptIs("pin", Script["pin"])
  BY DEF Script, PinCalls, ScriptIs, Calls, ChatCalls, MemberCalls
<1>8. ScriptIs("unpin", Script["unpin"])
  BY DEF Script, UnpinCalls, ScriptIs, Calls, ChatCalls, MemberCalls
<1>9. ScriptIs("getmembers", Script["getmembers"])
  BY DEF Script, LookUpCalls, ScriptIs, Calls, ChatCalls, MemberCalls
<1> QED
  BY <1>1, <1>2, <1>3, <1>4, <1>5, <1>6, <1>7, <1>8, <1>9 DEF Kinds

LEMMA CallFacts ==
  ASSUME Types, AtACall, NEW r \in Reqs
  PROVE  /\ Kind(r) \in Kinds /\ op[r] \in Op
         /\ ScriptIs(Kind(r), Script[Kind(r)])
         /\ at[r] \in 1 .. Len(Script[Kind(r)]) /\ at[r] \in 1 .. 6
         /\ Call(r) = Script[Kind(r)][at[r]] /\ Call(r) \in Calls
         /\ Call(r) = "base" <=> at[r] = 1
         /\ Call(r) = "join" <=> at[r] = 2 /\ Kind(r) \in {"join", "invite"}
         /\ Call(r) = "leave" <=> at[r] = 2 /\ Kind(r) \in {"leave", "kick"}
         /\ Call(r) = "update" <=>
              at[r] = 2 /\ Kind(r) \in {"dismiss", "rename", "pin", "unpin"}
<1>1. op[r] \in Op /\ Kind(r) \in Kinds
  BY DEF Types, Op, Kind
<1>2. ScriptIs(Kind(r), Script[Kind(r)])
  BY <1>1, ScriptFacts
<1>3. at[r] \in 1 .. Len(Script[Kind(r)]) /\ at[r] \in 1 .. 6
  BY <1>2 DEF Types, AtACall, ScriptIs
<1> QED
  BY <1>1, <1>2, <1>3 DEF ScriptIs, Call

LEMMA FirstFacts ==
  ASSUME NEW call \in Calls, NEW kind \in Kinds
  PROVE  /\ First(call, kind) \in {"look", "touch", "sift", "write"}
         /\ First(call, kind) = "look" => call \in ChatCalls \cup MemberCalls
         /\ First(call, kind) = "touch" <=> call = "join"
         /\ First(call, kind) = "sift" <=> call = "update" /\ kind = "pin"
         /\ First(call, kind) = "write" => call \in {"leave", "update"}
  BY DEF First, Calls, ChatCalls, MemberCalls

\* where a goroutine goes when a call is over
LEMMA ProceedFacts ==
  ASSUME Types, AtACall, NEW r \in Reqs, Proceed(r)
  PROVE  /\ at' \in [Reqs -> 1 .. 6] /\ step' \in [Reqs -> Steps]
         /\ \A q \in Reqs \ {r} : at'[q] = at[q] /\ step'[q] = step[q]
         /\ \/ LastCall(r) /\ step'[r] = "answer" /\ at'[r] = at[r]
            \/ /\ ~LastCall(r) /\ at[r] + 1 \in 1 .. Len(Script[Kind(r)])
               /\ at'[r] = at[r] + 1
               /\ step'[r] = First(Script[Kind(r)][at[r] + 1], Kind(r))
<1>1. CASE LastCall(r)
  BY <1>1 DEF Proceed, Types, Steps
<1>2. CASE ~LastCall(r)
  <2> DEFINE s == Script[Kind(r)]
  <2>a. at[r] # Len(s)
    BY <1>2 DEF LastCall
  <2>b. Kind(r) \in Kinds /\ at[r] \in 1 .. Len(s) /\ ScriptIs(Kind(r), s)
    BY CallFacts
  <2> HIDE DEF s
  <2>c. Len(s) \in 2 .. 6 /\ \A i \in 1 .. Len(s) : s[i] \in Calls
    BY <2>b DEF ScriptIs
  <2>1. at[r] + 1 \in 1 .. Len(s) /\ at[r] + 1 \in 1 .. 6
    BY <2>a, <2>b, <2>c, SMTT(30)
  <2>2. First(s[at[r] + 1], Kind(r)) \in Steps
    BY <2>b, <2>c, <2>1, FirstFacts DEF Steps
  <2>3. /\ at' = [at EXCEPT ![r] = @ + 1]
        /\ step' = [step EXCEPT ![r] = First(s[at[r] + 1], Kind(r))]
    BY <1>2 DEF Proceed, s
  <2>4. at \in [Reqs -> 1 .. 6] /\ step \in [Reqs -> Steps]
    BY DEF Types, Steps
  <2>5. /\ at' \in [Reqs -> 1 .. 6] /\ step' \in [Reqs -> Steps]
        /\ at'[r] = at[r] + 1 /\ step'[r] = First(s[at[r] + 1], Kind(r))
        /\ \A q \in Reqs \ {r} : at'[q] = at[q] /\ step'[q] = step[q]
    BY <2>1, <2>2, <2>3, <2>4
  <2> QED
    BY <1>2, <2>1, <2>5 DEF s
<1> QED
  BY <1>1, <1>2

LEMMA StayFacts ==
  ASSUME Types, NEW r \in Reqs, NEW s \in Steps, Stay(r, s)
  PROVE  /\ at' \in [Reqs -> 1 .. 6] /\ step' \in [Reqs -> Steps]
         /\ at' = at /\ step'[r] = s
         /\ \A q \in Reqs \ {r} : step'[q] = step[q]
  BY DEF Stay, Types, Steps

-----------------------------------------------------------------------------
(* Types                                                                   *)

LEMMA GoTypes ==
  ASSUME Types, AtACall, NEW r \in Reqs, Proceed(r) \/ \E s \in Steps : Stay(r, s)
  PROVE  at' \in [Reqs -> 1 .. 6] /\ step' \in [Reqs -> Steps]
  BY ProceedFacts, StayFacts

LEMMA HoldTypes ==
  ASSUME Types, AtACall, NEW r \in Reqs, NEW c \in Chat, NEW stale \in BOOLEAN,
         Hold(r, c, stale)
  PROVE  /\ held' \in [Reqs -> Chat] /\ behind' \in [Reqs -> BOOLEAN]
         /\ at' \in [Reqs -> 1 .. 6] /\ step' \in [Reqs -> Steps]
<1>1. held' \in [Reqs -> Chat] /\ behind' \in [Reqs -> BOOLEAN]
  BY DEF Hold, Types
<1>2. Proceed(r) \/ Stay(r, "fail")
  BY DEF Hold
<1> QED
  BY <1>1, <1>2, GoTypes DEF Steps

LEMMA UseTypes ==
  ASSUME Types, NEW r \in Reqs, NEW list \in SUBSET Users, NEW tainted \in BOOLEAN,
         Use(r, list, tainted)
  PROVE  roll' \in [Reqs -> SUBSET Users] /\ blind' \in [Reqs -> BOOLEAN]
  BY SMTT(30) DEF Use, Types

LEMMA NextUserTypes ==
  ASSUME Types, AtACall, NEW r \in Reqs, NEW u, NextUser(r, u)
  PROVE  /\ todo' \in [Reqs -> SUBSET Users] /\ user' \in [Reqs -> Users]
         /\ at' \in [Reqs -> 1 .. 6] /\ step' \in [Reqs -> Steps]
<1>1. todo' \in [Reqs -> SUBSET Users] /\ user' \in [Reqs -> Users]
  BY GroupChatAssumption DEF NextUser, Types
<1>2. First(Call(r), Kind(r)) \in Steps
  BY CallFacts, FirstFacts DEF Steps
<1>3. Proceed(r) \/ Stay(r, First(Call(r), Kind(r)))
  BY DEF NextUser
<1> QED
  BY <1>1, <1>2, <1>3, GoTypes

LEMMA ArriveTypes ==
  ASSUME Types, AtACall, NEW r \in Reqs, Arrive(r) PROVE Types'
  BY GroupChatAssumption, GoTypes DEF Arrive, Steps, Op, Aims, Members, Changing, Happens, dbVars, cacheVars, callVars, gotVars, pastVars, Types

LEMMA LookChatTypes ==
  ASSUME Types, AtACall, NEW r \in Reqs, LookChat(r) PROVE Types'
<1>1. /\ held' \in [Reqs -> Chat] /\ behind' \in [Reqs -> BOOLEAN]
      /\ at' \in [Reqs -> 1 .. 6] /\ step' \in [Reqs -> Steps]
  <2>1. CASE chatCache.on
    <3>1. chatCache.chat \in Chat /\ chatCache.late \in BOOLEAN
      BY DEF Types
    <3> QED
      BY <2>1, <3>1, HoldTypes DEF LookChat
  <2>2. CASE ~chatCache.on
    <3>1. Stay(r, "fill") /\ UNCHANGED <<held, behind>>
      BY <2>2 DEF LookChat
    <3> QED
      BY <3>1, GoTypes DEF Types, Steps
  <2> QED
    BY <2>1, <2>2
<1>2. gotChat' \in [Reqs -> Chat]
  BY DEF LookChat, Types
<1> QED
  BY <1>1, <1>2 DEF LookChat, Steps, dbVars, cacheVars, callVars, gotVars, pastVars, Types

LEMMA FillChatTypes ==
  ASSUME Types, AtACall, NEW r \in Reqs, FillChat(r) PROVE Types'
<1>1. /\ held' \in [Reqs -> Chat] /\ behind' \in [Reqs -> BOOLEAN]
      /\ at' \in [Reqs -> 1 .. 6] /\ step' \in [Reqs -> Steps]
  <2>1. gotChat[r] \in Chat /\ late[r] \in BOOLEAN /\ Hold(r, gotChat[r], late[r])
    BY DEF Types, FillChat
  <2> QED
    BY <2>1, HoldTypes
<1>2. /\ gotChat' \in [Reqs -> Chat] /\ late' \in [Reqs -> BOOLEAN]
      /\ chatCache' \in [on : BOOLEAN, chat : Chat, late : BOOLEAN]
  BY DEF FillChat, Types, NoChat, Chat
<1> QED
  BY <1>1, <1>2 DEF FillChat, Steps, dbVars, cacheVars, callVars, gotVars, pastVars, Types

LEMMA LookMembersTypes ==
  ASSUME Types, AtACall, NEW r \in Reqs, LookMembers(r) PROVE Types'
<1>1. /\ roll' \in [Reqs -> SUBSET Users] /\ blind' \in [Reqs -> BOOLEAN]
      /\ at' \in [Reqs -> 1 .. 6] /\ step' \in [Reqs -> Steps]
  <2>1. CASE memberCache.on
    <3>1. memberCache.list \in SUBSET Users /\ memberCache.late \in BOOLEAN
      BY DEF Types
    <3> QED
      BY <2>1, <3>1, UseTypes, GoTypes DEF LookMembers
  <2>2. CASE ~memberCache.on
    <3>1. Stay(r, "fill") /\ UNCHANGED <<roll, blind>>
      BY <2>2 DEF LookMembers
    <3> QED
      BY <3>1, GoTypes DEF Types, Steps
  <2> QED
    BY <2>1, <2>2
<1>2. gotMembers' \in [Reqs -> SUBSET Users]
  BY DEF LookMembers, Types, Members
<1> QED
  BY <1>1, <1>2 DEF LookMembers, Steps, dbVars, cacheVars, callVars, gotVars, pastVars, Types

LEMMA FillMembersTypes ==
  ASSUME Types, AtACall, NEW r \in Reqs, FillMembers(r) PROVE Types'
<1>1. /\ roll' \in [Reqs -> SUBSET Users] /\ blind' \in [Reqs -> BOOLEAN]
      /\ at' \in [Reqs -> 1 .. 6] /\ step' \in [Reqs -> Steps]
  <2>1. /\ gotMembers[r] \in SUBSET Users /\ late[r] \in BOOLEAN
        /\ Use(r, gotMembers[r], late[r]) /\ Proceed(r)
    BY DEF Types, FillMembers
  <2> QED
    BY <2>1, UseTypes, GoTypes
<1>2. /\ gotMembers' \in [Reqs -> SUBSET Users] /\ late' \in [Reqs -> BOOLEAN]
      /\ memberCache' \in [on : BOOLEAN, list : SUBSET Users, late : BOOLEAN]
  BY DEF FillMembers, Types
<1> QED
  BY <1>1, <1>2 DEF FillMembers, Steps, dbVars, cacheVars, callVars, gotVars, pastVars, Types

LEMMA TouchTypes ==
  ASSUME Types, AtACall, NEW r \in Reqs, Touch(r) PROVE Types'
  BY GoTypes DEF Touch, Steps, NoEntry, NoChat, Chat, dbVars, cacheVars, callVars, gotVars, pastVars, Types

LEMMA ReadRowTypes ==
  ASSUME Types, AtACall, NEW r \in Reqs, ReadRow(r) PROVE Types'
<1> PICK u \in todo[r] :
      IF rows[u] = "in"
        THEN /\ NextUser(r, u)
             /\ done' = [done EXCEPT ![r] = @ \cup {u}] /\ UNCHANGED row
        ELSE /\ user' = [user EXCEPT ![r] = u] /\ row' = [row EXCEPT ![r] = rows[u]]
             /\ Stay(r, "write") /\ UNCHANGED <<todo, done>>
  BY DEF ReadRow
<1>1. u \in Users
  BY DEF Types
<1>2. /\ todo' \in [Reqs -> SUBSET Users] /\ user' \in [Reqs -> Users]
      /\ at' \in [Reqs -> 1 .. 6] /\ step' \in [Reqs -> Steps]
  <2>1. CASE rows[u] = "in"
    BY <2>1, NextUserTypes
  <2>2. CASE rows[u] # "in"
    <3>1. Stay(r, "write") /\ user' = [user EXCEPT ![r] = u] /\ UNCHANGED todo
      BY <2>2
    <3> QED
      BY <1>1, <3>1, GoTypes DEF Types, Steps
  <2> QED
    BY <2>1, <2>2
<1>3. row' \in [Reqs -> {"in", "out", "none"}] /\ done' \in [Reqs -> SUBSET Users]
  BY <1>1, SMTT(30) DEF Types
<1> QED
  BY <1>2, <1>3 DEF ReadRow, Steps, dbVars, cacheVars, callVars, gotVars, pastVars, Types

LEMMA RefuseJoinTypes ==
  ASSUME Types, AtACall, NEW r \in Reqs, RefuseJoin(r) PROVE Types'
  BY GoTypes DEF RefuseJoin, Steps, dbVars, cacheVars, callVars, gotVars, pastVars, Types

LEMMA WriteJoinTypes ==
  ASSUME Types, AtACall, NEW r \in Reqs, WriteJoin(r) PROVE Types'
  BY GoTypes DEF WriteJoin, Steps, dbVars, cacheVars, callVars, gotVars, pastVars, Types

LEMMA WriteLeaveTypes ==
  ASSUME Types, AtACall, NEW r \in Reqs, WriteLeave(r) PROVE Types'
  BY GoTypes DEF WriteLeave, Steps, dbVars, cacheVars, callVars, gotVars, pastVars, Types

LEMMA UncacheMembersTypes ==
  ASSUME Types, AtACall, NEW r \in Reqs, UncacheMembers(r) PROVE Types'
<1>1. /\ todo' \in [Reqs -> SUBSET Users] /\ user' \in [Reqs -> Users]
      /\ at' \in [Reqs -> 1 .. 6] /\ step' \in [Reqs -> Steps]
  BY NextUserTypes DEF UncacheMembers
<1>2. /\ late' \in [Reqs -> BOOLEAN]
      /\ memberCache' \in [on : BOOLEAN, list : SUBSET Users, late : BOOLEAN]
  BY DEF UncacheMembers, Types, NoMembers
<1> QED
  BY <1>1, <1>2 DEF UncacheMembers, Steps, dbVars, cacheVars, callVars, gotVars, pastVars, Types

LEMMA SiftTypes ==
  ASSUME Types, AtACall, NEW r \in Reqs, Sift(r) PROVE Types'
<1> DEFINE ms == Lowest(held[r].pinned \ gone, MaxPins)
<1>3. held \in [Reqs -> Chat] /\ held[r] \in Chat /\ ms \subseteq held[r].pinned
  BY DEF Lowest, Types
<1>4. [held[r] EXCEPT !.pinned = ms] \in Chat
  <2> HIDE DEF ms
  <2> QED
    BY <1>3 DEF Chat
<1>1. held' \in [Reqs -> Chat]
  <2> HIDE DEF ms
  <2>1. held' = [held EXCEPT ![r] = [@ EXCEPT !.pinned = ms]]
    BY DEF Sift, ms
  <2> QED
    BY <1>3, <1>4, <2>1
<1>2. at' \in [Reqs -> 1 .. 6] /\ step' \in [Reqs -> Steps]
  BY GoTypes DEF Sift, Steps
<1> QED
  BY <1>1, <1>2 DEF Sift, Steps, dbVars, cacheVars, callVars, gotVars, pastVars, Types

LEMMA UpdateTypes ==
  ASSUME Types, AtACall, NEW r \in Reqs, Update(r) PROVE Types'
  BY GoTypes DEF Update, Steps, Updated, Chat, Op, dbVars, cacheVars, callVars, gotVars, pastVars, Types

LEMMA UncacheChatTypes ==
  ASSUME Types, AtACall, NEW r \in Reqs, UncacheChat(r) PROVE Types'
<1>1. at' \in [Reqs -> 1 .. 6] /\ step' \in [Reqs -> Steps]
  BY GoTypes DEF UncacheChat
<1>2. /\ late' \in [Reqs -> BOOLEAN]
      /\ chatCache' \in [on : BOOLEAN, chat : Chat, late : BOOLEAN]
  BY DEF UncacheChat, Types, NoEntry, NoChat, Chat
<1> QED
  BY <1>1, <1>2 DEF UncacheChat, Steps, dbVars, cacheVars, callVars, gotVars, pastVars, Types

LEMMA AnswerTypes ==
  ASSUME Types, AtACall, NEW r \in Reqs, Answer(r) PROVE Types'
  BY GroupChatAssumption DEF Answer, NoOp, Op, Kinds, NoChat, Chat, Steps, dbVars, cacheVars, callVars, gotVars, pastVars, Types

LEMMA FailAndTellTypes ==
  ASSUME Types, AtACall, NEW r \in Reqs, FailAndTell(r) PROVE Types'
  BY GoTypes DEF FailAndTell, Steps, Happens, dbVars, cacheVars, callVars, gotVars, pastVars, Types

LEMMA FailUnconfirmedTypes ==
  ASSUME Types, AtACall, NEW r \in Reqs, FailUnconfirmed(r) PROVE Types'
<1>1. at' \in [Reqs -> 1 .. 6] /\ step' \in [Reqs -> Steps]
  BY GoTypes DEF FailUnconfirmed, Steps
<1>2. late' \in [Reqs -> BOOLEAN]
  BY DEF FailUnconfirmed, Types, Reading
<1>3. /\ memberCache' \in {memberCache, [memberCache EXCEPT !.late = memberCache.on]}
      /\ memberCache \in [on : BOOLEAN, list : SUBSET Users, late : BOOLEAN]
  BY DEF FailUnconfirmed, Types
<1>4. /\ chatCache' \in {chatCache, [chatCache EXCEPT !.late = chatCache.on]}
      /\ chatCache \in [on : BOOLEAN, chat : Chat, late : BOOLEAN]
  BY DEF FailUnconfirmed, Types
<1>5. /\ memberCache' \in [on : BOOLEAN, list : SUBSET Users, late : BOOLEAN]
      /\ chatCache' \in [on : BOOLEAN, chat : Chat, late : BOOLEAN]
  BY <1>3, <1>4
<1> QED
  BY <1>1, <1>2, <1>5 DEF FailUnconfirmed, Happens, Steps, dbVars, callVars, pastVars, Types

LEMMA FailUnnoticedTypes ==
  ASSUME Types, AtACall, NEW r \in Reqs, FailUnnoticed(r) PROVE Types'
<1>1. /\ roll' \in [Reqs -> SUBSET Users] /\ blind' \in [Reqs -> BOOLEAN]
      /\ at' \in [Reqs -> 1 .. 6] /\ step' \in [Reqs -> Steps]
  BY UseTypes, GoTypes DEF FailUnnoticed
<1> QED
  BY <1>1 DEF FailUnnoticed, Happens, Steps, dbVars, cacheVars, callVars, gotVars, pastVars, Types

LEMMA CrashTypes ==
  ASSUME Types, AtACall, Crash PROVE Types'
  BY GroupChatAssumption DEF Crash, NoMembers, NoEntry, NoOp, Op, Kinds, NoChat, Chat, Happens, dbVars, cacheVars, callVars, gotVars, pastVars, Types

LEMMA ExpireMembersTypes ==
  ASSUME Types, AtACall, ExpireMembers PROVE Types'
  BY DEF ExpireMembers, NoMembers, dbVars, cacheVars, callVars, gotVars, pastVars, Types

LEMMA ExpireChatTypes ==
  ASSUME Types, AtACall, ExpireChat PROVE Types'
  BY DEF ExpireChat, NoEntry, NoChat, Chat, dbVars, cacheVars, callVars, gotVars, pastVars, Types

LEMMA RemoveTypes ==
  ASSUME Types, AtACall, Remove PROVE Types'
  BY GroupChatAssumption DEF Remove, Happens, dbVars, cacheVars, callVars, gotVars, pastVars, Types

-----------------------------------------------------------------------------
(* Every goroutine is at a call of its handler. It is asked for one of the *)
(* requests, starts with the users named there, and writes the row of one  *)
(* of those it has left.                                                   *)

CallOK(r) ==
  /\ at[r] \in DOMAIN Script[Kind(r)]
  /\ step[r] \in {"look", "fill"} => Call(r) \in ChatCalls \cup MemberCalls
  /\ step[r] \in {"touch", "row"} => Call(r) = "join"
  /\ step[r] \in {"write", "uncache"} => Call(r) \in {"join", "leave", "update"}
  /\ step[r] = "sift" => Call(r) = "update" /\ Kind(r) = "pin"
  /\ Call(r) \in {"join", "leave"} => todo[r] # {}
  /\ step[r] = "uncache" /\ Call(r) # "update" => user[r] \in todo[r]
  /\ step[r] = "write" /\ Call(r) = "join" => user[r] \in todo[r]
  /\ step[r] # "idle" => op[r] \in Ops /\ (at[r] = 1 => todo[r] = Aims(op[r]))

TInv == Types /\ \A r \in Reqs : CallOK(r)

LEMMA TInvImplies == TInv => TypeOK
  BY DEF TInv, TypeOK, AtACall, CallOK

LEMMA OtherCallOK ==
  ASSUME NEW q \in Reqs, CallOK(q), op'[q] = op[q], at'[q] = at[q],
         step'[q] = step[q], todo'[q] = todo[q], user'[q] = user[q]
  PROVE  CallOK(q)'
  BY DEF CallOK, Call, Kind

LEMMA ProceedCallOK ==
  ASSUME TInv, NEW r \in Reqs, Proceed(r), step[r] # "idle", op'[r] = op[r],
         at[r] = 1 => todo'[r] = todo[r] /\ \E c \in Chat : ~Refused(r, c)
  PROVE  CallOK(r)'
<1> DEFINE k == Kind(r)
           s == Script[k]
<1>1. Types /\ AtACall /\ op[r] \in Ops
  BY TInvImplies DEF TInv, TypeOK, CallOK
<1>2. Kind(r)' = k /\ Call(r)' = s[at'[r]] /\ Call(r) = s[at[r]]
  BY DEF Kind, Call
<1>3. k \in Kinds /\ ScriptIs(k, s) /\ at[r] \in 1 .. Len(s)
  BY <1>1, CallFacts
<1>4. \/ LastCall(r) /\ step'[r] = "answer" /\ at'[r] = at[r]
      \/ /\ ~LastCall(r) /\ at[r] + 1 \in 1 .. Len(s)
         /\ at'[r] = at[r] + 1 /\ step'[r] = First(s[at[r] + 1], k)
  BY <1>1, ProceedFacts
<1>5. CASE LastCall(r) /\ step'[r] = "answer" /\ at'[r] = at[r]
  <2>1. \/ at[r] = Len(s)
        \/ k = "invite" /\ s[at[r]] = "users"
        \/ k = "leave" /\ s[at[r]] = "data"
    BY <1>2, <1>5 DEF LastCall
  <2> HIDE DEF s, k
  <2>2. s[at[r]] \notin {"join", "leave"} /\ at[r] # 1
    BY <2>1, <1>3 DEF ScriptIs
  <2>3. at'[r] \in DOMAIN Script[Kind(r)']
    BY <1>2, <1>3, <1>5 DEF ScriptIs, s
  <2> QED
    BY <1>1, <1>2, <1>5, <2>2, <2>3 DEF CallOK
<1>6. CASE /\ ~LastCall(r) /\ at[r] + 1 \in 1 .. Len(s)
           /\ at'[r] = at[r] + 1 /\ step'[r] = First(s[at[r] + 1], k)
  <2> DEFINE call == s[at[r] + 1]
  <2>1. /\ call \in Calls
        /\ call \in {"join", "leave"} =>
             at[r] = 1 /\ k \in {"join", "invite", "leave", "kick"}
    <3> HIDE DEF s, k
    <3> QED
      BY <1>3, <1>6 DEF ScriptIs
  <2>2. call \in {"join", "leave"} => todo'[r] # {}
    <3> SUFFICES ASSUME call \in {"join", "leave"} PROVE todo'[r] # {}
      OBVIOUS
    <3>1. at[r] = 1 /\ k \in {"join", "invite", "leave", "kick"}
      BY <2>1
    <3>2. todo'[r] = Aims(op[r])
      BY <3>1 DEF TInv, CallOK
    <3>3. CASE k = "kick"
      BY <3>1, <3>2, <3>3 DEF Refused
    <3>4. CASE k # "kick"
      BY <1>1, <3>1, <3>2, <3>4, GroupChatAssumption DEF Aims, Kind
    <3> QED
      BY <3>3, <3>4
  <2> HIDE DEF call
  <2>3. /\ First(call, k) \in {"look", "touch", "sift", "write"}
        /\ First(call, k) = "look" => call \in ChatCalls \cup MemberCalls
        /\ First(call, k) = "touch" <=> call = "join"
        /\ First(call, k) = "sift" <=> call = "update" /\ k = "pin"
        /\ First(call, k) = "write" => call \in {"leave", "update"}
    BY <1>3, <2>1, FirstFacts
  <2>4. Kind(r)' = k /\ Call(r)' = call /\ step'[r] = First(call, k)
    BY <1>2, <1>6 DEF call
  <2>5. at'[r] \in DOMAIN Script[Kind(r)'] /\ at'[r] # 1
    BY <1>2, <1>3, <1>6 DEF ScriptIs
  <2> QED
    BY <1>1, <2>2, <2>3, <2>4, <2>5 DEF CallOK
<1> QED
  BY <1>4, <1>5, <1>6

\* what is left alone of the other goroutines
Apart(r) ==
  \A q \in Reqs \ {r} :
    /\ op'[q] = op[q] /\ at'[q] = at[q] /\ step'[q] = step[q]
    /\ todo'[q] = todo[q] /\ user'[q] = user[q]

LEMMA TInvStep ==
  ASSUME TInv, NEW r \in Reqs, Types', Apart(r), CallOK(r)'
  PROVE  TInv'
<1>1. \A q \in Reqs \ {r} : CallOK(q)'
  BY OtherCallOK DEF TInv, Apart
<1> QED
  BY <1>1 DEF TInv

\* a call is gone on with at another step
LEMMA StayCallOK ==
  ASSUME TInv, NEW r \in Reqs, NEW t \in {"fill", "row", "write", "uncache", "fail"},
         Stay(r, t), step[r] # "idle", op'[r] = op[r], todo'[r] = todo[r],
         t = "fill" => Call(r) \in ChatCalls \cup MemberCalls,
         t = "row" => Call(r) = "join",
         t \in {"write", "uncache"} => Call(r) \in {"join", "leave", "update"},
         t \in {"write", "uncache"} /\ Call(r) # "update" => user'[r] \in todo[r]
  PROVE  CallOK(r)'
<1>1. at'[r] = at[r] /\ step'[r] = t
  BY StayFacts DEF TInv, Steps
<1>2. Kind(r)' = Kind(r) /\ Call(r)' = Call(r)
  BY <1>1 DEF Kind, Call
<1> QED
  BY <1>1, <1>2 DEF TInv, CallOK

LEMMA GoApart ==
  ASSUME TInv, NEW r \in Reqs, Proceed(r) \/ \E t \in Steps : Stay(r, t)
  PROVE  \A q \in Reqs \ {r} : at'[q] = at[q] /\ step'[q] = step[q]
  BY ProceedFacts, StayFacts, TInvImplies DEF TypeOK

LEMMA HoldTInv ==
  ASSUME TInv, NEW r \in Reqs, NEW c \in Chat, NEW stale \in BOOLEAN,
         Hold(r, c, stale), step[r] # "idle", UNCHANGED <<op, todo, user>>
  PROVE  Apart(r) /\ CallOK(r)'
<1>1. CASE Call(r) = "base" /\ Refused(r, c)
  <2>1. Stay(r, "fail")
    BY <1>1 DEF Hold
  <2> QED
    BY <2>1, StayCallOK, GoApart DEF Apart, Steps
<1>2. CASE ~(Call(r) = "base" /\ Refused(r, c))
  <2>1. Proceed(r)
    BY <1>2 DEF Hold
  <2>2. at[r] = 1 => Call(r) = "base"
    BY CallFacts, TInvImplies DEF TypeOK
  <2>3. at[r] = 1 => ~Refused(r, c)
    BY <1>2, <2>2
  <2> QED
    BY <2>1, <2>3, ProceedCallOK, GoApart DEF Apart
<1> QED
  BY <1>1, <1>2

LEMMA NextUserTInv ==
  ASSUME TInv, NEW r \in Reqs, NEW u \in todo[r], NextUser(r, u),
         UNCHANGED op, Call(r) \in {"join", "leave"}, step[r] # "idle"
  PROVE  Apart(r) /\ CallOK(r)'
<1>1. at[r] = 2 /\ Kind(r) \in Kinds /\ Call(r) \in Calls
  BY CallFacts, TInvImplies DEF TypeOK
<1>2. \A q \in Reqs \ {r} : todo'[q] = todo[q] /\ user'[q] = user[q]
  BY DEF NextUser, TInv, Types
<1>3. CASE todo[r] = {u}
  <2>1. Proceed(r)
    BY <1>3 DEF NextUser
  <2> QED
    BY <1>1, <1>2, <2>1, ProceedCallOK, GoApart DEF Apart
<1>4. CASE todo[r] # {u}
  <2>1. Stay(r, First(Call(r), Kind(r))) /\ todo'[r] = todo[r] \ {u}
    BY <1>4 DEF NextUser, TInv, Types
  <2>2. /\ First(Call(r), Kind(r)) = IF Call(r) = "join" THEN "touch" ELSE "write"
        /\ First(Call(r), Kind(r)) \in Steps
    BY <1>1 DEF First, ChatCalls, MemberCalls, Steps
  <2>3. at'[r] = at[r] /\ step'[r] = IF Call(r) = "join" THEN "touch" ELSE "write"
    BY <2>1, <2>2, StayFacts DEF TInv
  <2>4. Kind(r)' = Kind(r) /\ Call(r)' = Call(r)
    BY <2>3 DEF Kind, Call
  <2>5. todo'[r] # {}
    BY <1>4, <2>1
  <2> QED
    BY <1>1, <1>2, <2>1, <2>2, <2>3, <2>4, <2>5, GoApart DEF Apart, TInv, CallOK
<1> QED
  BY <1>3, <1>4

LEMMA ArriveTInv ==
  ASSUME TInv, NEW r \in Reqs, Arrive(r) PROVE TInv' /\ Apart(r)
<1>1. Types /\ AtACall /\ Types'
  BY TInvImplies, ArriveTypes DEF TypeOK, TInv
<1>2. Apart(r) /\ CallOK(r)'
  <2> PICK o \in Ops : op' = [op EXCEPT ![r] = o] /\ todo' = [todo EXCEPT ![r] = Aims(o)]
    BY DEF Arrive
  <2>1. /\ op'[r] = o /\ todo'[r] = Aims(o) /\ at'[r] = 1 /\ step'[r] = "look"
        /\ Apart(r)
    BY <1>1 DEF Arrive, Types, Apart
  <2>2. o.kind \in Kinds
    BY GroupChatAssumption DEF Op
  <2>3. ScriptIs(o.kind, Script[o.kind])
    BY <2>2, ScriptFacts
  <2>4. Kind(r)' = o.kind /\ Call(r)' = "base" /\ 1 \in DOMAIN Script[o.kind]
    BY <2>1, <2>3 DEF Kind, Call, ScriptIs
  <2> QED
    BY <2>1, <2>4 DEF CallOK, ChatCalls
<1> QED
  BY <1>1, <1>2, TInvStep

LEMMA LookChatTInv ==
  ASSUME TInv, NEW r \in Reqs, LookChat(r) PROVE TInv' /\ Apart(r)
<1>1. Types /\ AtACall /\ Types'
  BY TInvImplies, LookChatTypes DEF TypeOK, TInv
<1>2. Apart(r) /\ CallOK(r)'
  <2>1. step[r] = "look" /\ Call(r) \in ChatCalls /\ UNCHANGED <<op, todo, user>>
    BY DEF LookChat, callVars
  <2>2. CASE chatCache.on
    <3>1. chatCache.chat \in Chat /\ chatCache.late \in BOOLEAN
      BY <1>1 DEF Types
    <3> QED
      BY <2>1, <2>2, <3>1, HoldTInv DEF LookChat
  <2>3. CASE ~chatCache.on
    <3>1. Stay(r, "fill")
      BY <2>3 DEF LookChat
    <3> QED
      BY <2>1, <3>1, StayCallOK, GoApart DEF Apart, Steps
  <2> QED
    BY <2>2, <2>3
<1> QED
  BY <1>1, <1>2, TInvStep

LEMMA FillChatTInv ==
  ASSUME TInv, NEW r \in Reqs, FillChat(r) PROVE TInv' /\ Apart(r)
<1>1. Types /\ AtACall /\ Types'
  BY TInvImplies, FillChatTypes DEF TypeOK, TInv
<1>2. Apart(r) /\ CallOK(r)'
  <2>1. /\ step[r] # "idle" /\ UNCHANGED <<op, todo, user>>
        /\ gotChat[r] \in Chat /\ late[r] \in BOOLEAN /\ Hold(r, gotChat[r], late[r])
    BY <1>1 DEF FillChat, callVars, Reading, Types
  <2> QED
    BY <2>1, HoldTInv
<1> QED
  BY <1>1, <1>2, TInvStep

LEMMA LookMembersTInv ==
  ASSUME TInv, NEW r \in Reqs, LookMembers(r) PROVE TInv' /\ Apart(r)
<1>1. Types /\ AtACall /\ Types'
  BY TInvImplies, LookMembersTypes DEF TypeOK, TInv
<1>2. Apart(r) /\ CallOK(r)'
  <2>1. step[r] = "look" /\ Call(r) \in MemberCalls /\ UNCHANGED <<op, todo, user>>
    BY DEF LookMembers, callVars
  <2>2. CASE memberCache.on
    <3>1. Proceed(r) /\ at[r] # 1
      BY <1>1, <2>1, <2>2, CallFacts DEF LookMembers, MemberCalls
    <3> QED
      BY <2>1, <3>1, ProceedCallOK, GoApart DEF Apart
  <2>3. CASE ~memberCache.on
    <3>1. Stay(r, "fill")
      BY <2>3 DEF LookMembers
    <3> QED
      BY <2>1, <3>1, StayCallOK, GoApart DEF Apart, Steps
  <2> QED
    BY <2>2, <2>3
<1> QED
  BY <1>1, <1>2, TInvStep

LEMMA FillMembersTInv ==
  ASSUME TInv, NEW r \in Reqs, FillMembers(r) PROVE TInv' /\ Apart(r)
<1>1. Types /\ AtACall /\ Types'
  BY TInvImplies, FillMembersTypes DEF TypeOK, TInv
<1>2. Apart(r) /\ CallOK(r)'
  <2>1. /\ step[r] # "idle" /\ UNCHANGED <<op, todo, user>> /\ Proceed(r)
        /\ Call(r) \in MemberCalls
    BY DEF FillMembers, callVars, Reading, MemberCalls
  <2>2. at[r] # 1
    BY <1>1, <2>1, CallFacts DEF MemberCalls
  <2> QED
    BY <2>1, <2>2, ProceedCallOK, GoApart DEF Apart
<1> QED
  BY <1>1, <1>2, TInvStep

LEMMA FailUnnoticedTInv ==
  ASSUME TInv, NEW r \in Reqs, FailUnnoticed(r) PROVE TInv' /\ Apart(r)
<1>1. Types /\ AtACall /\ Types'
  BY TInvImplies, FailUnnoticedTypes DEF TypeOK, TInv
<1>2. Apart(r) /\ CallOK(r)'
  <2>1. /\ step[r] # "idle" /\ UNCHANGED <<op, todo, user>> /\ Proceed(r)
        /\ Call(r) \in MemberCalls
    BY DEF FailUnnoticed, callVars, ReadsMembers, MemberCalls
  <2>2. at[r] # 1
    BY <1>1, <2>1, CallFacts DEF MemberCalls
  <2> QED
    BY <2>1, <2>2, ProceedCallOK, GoApart DEF Apart
<1> QED
  BY <1>1, <1>2, TInvStep

LEMMA TouchTInv ==
  ASSUME TInv, NEW r \in Reqs, Touch(r) PROVE TInv' /\ Apart(r)
<1>1. Types /\ AtACall /\ Types'
  BY TInvImplies, TouchTypes DEF TypeOK, TInv
<1>2. Apart(r) /\ CallOK(r)'
  <2>1. /\ step[r] # "idle" /\ UNCHANGED <<op, todo, user>> /\ Stay(r, "row")
        /\ Call(r) = "join"
    BY <1>1 DEF Touch, callVars, AtACall, TInv, CallOK
  <2> QED
    BY <2>1, StayCallOK, GoApart DEF Apart, Steps
<1> QED
  BY <1>1, <1>2, TInvStep

LEMMA ReadRowTInv ==
  ASSUME TInv, NEW r \in Reqs, ReadRow(r) PROVE TInv' /\ Apart(r)
<1>1. Types /\ AtACall /\ Types'
  BY TInvImplies, ReadRowTypes DEF TypeOK, TInv
<1>2. Apart(r) /\ CallOK(r)'
  <2> PICK u \in todo[r] :
        IF rows[u] = "in" THEN NextUser(r, u)
        ELSE user' = [user EXCEPT ![r] = u] /\ Stay(r, "write") /\ UNCHANGED todo
    BY DEF ReadRow
  <2>1. step[r] = "row" /\ Call(r) = "join" /\ UNCHANGED op
    BY DEF ReadRow, TInv, CallOK
  <2>2. CASE rows[u] = "in"
    BY <2>1, <2>2, NextUserTInv
  <2>3. CASE rows[u] # "in"
    <3>1. /\ user'[r] = u /\ \A q \in Reqs \ {r} : user'[q] = user[q]
          /\ Stay(r, "write") /\ UNCHANGED todo
      BY <1>1, <2>3 DEF Types
    <3> QED
      BY <2>1, <3>1, StayCallOK, GoApart DEF Apart, Steps
  <2> QED
    BY <2>2, <2>3
<1> QED
  BY <1>1, <1>2, TInvStep

LEMMA RefuseJoinTInv ==
  ASSUME TInv, NEW r \in Reqs, RefuseJoin(r) PROVE TInv' /\ Apart(r)
<1>1. Types /\ AtACall /\ Types'
  BY TInvImplies, RefuseJoinTypes DEF TypeOK, TInv
<1>2. Apart(r) /\ CallOK(r)'
  <2>1. /\ step[r] # "idle" /\ UNCHANGED <<op, todo, user>> /\ Stay(r, "fail")
        /\ TRUE
    BY <1>1 DEF RefuseJoin, callVars, AtACall, TInv, CallOK
  <2> QED
    BY <2>1, StayCallOK, GoApart DEF Apart, Steps
<1> QED
  BY <1>1, <1>2, TInvStep

LEMMA WriteJoinTInv ==
  ASSUME TInv, NEW r \in Reqs, WriteJoin(r) PROVE TInv' /\ Apart(r)
<1>1. Types /\ AtACall /\ Types'
  BY TInvImplies, WriteJoinTypes DEF TypeOK, TInv
<1>2. Apart(r) /\ CallOK(r)'
  <2>1. /\ step[r] # "idle" /\ UNCHANGED <<op, todo, user>> /\ Stay(r, "uncache")
        /\ Call(r) = "join" /\ user[r] \in todo[r]
    BY <1>1 DEF WriteJoin, callVars, AtACall, TInv, CallOK
  <2> QED
    BY <2>1, StayCallOK, GoApart DEF Apart, Steps
<1> QED
  BY <1>1, <1>2, TInvStep

LEMMA WriteLeaveTInv ==
  ASSUME TInv, NEW r \in Reqs, WriteLeave(r) PROVE TInv' /\ Apart(r)
<1>1. Types /\ AtACall /\ Types'
  BY TInvImplies, WriteLeaveTypes DEF TypeOK, TInv
<1>2. Apart(r) /\ CallOK(r)'
  <2> PICK u \in todo[r] : user' = [user EXCEPT ![r] = u]
    BY DEF WriteLeave
  <2>1. /\ step[r] = "write" /\ Call(r) = "leave" /\ Stay(r, "uncache")
        /\ UNCHANGED <<op, todo>>
    BY DEF WriteLeave
  <2>2. user'[r] = u /\ \A q \in Reqs \ {r} : user'[q] = user[q]
    BY <1>1 DEF Types
  <2> QED
    BY <2>1, <2>2, StayCallOK, GoApart DEF Apart, Steps
<1> QED
  BY <1>1, <1>2, TInvStep

LEMMA UncacheMembersTInv ==
  ASSUME TInv, NEW r \in Reqs, UncacheMembers(r) PROVE TInv' /\ Apart(r)
<1>1. Types /\ AtACall /\ Types'
  BY TInvImplies, UncacheMembersTypes DEF TypeOK, TInv
<1>2. Apart(r) /\ CallOK(r)'
  <2>1. /\ step[r] = "uncache" /\ Call(r) \in {"join", "leave"} /\ UNCHANGED op
        /\ NextUser(r, user[r]) /\ user[r] \in todo[r]
    BY DEF UncacheMembers, Announcing, TInv, CallOK
  <2> QED
    BY <2>1, NextUserTInv
<1> QED
  BY <1>1, <1>2, TInvStep

LEMMA SiftTInv ==
  ASSUME TInv, NEW r \in Reqs, Sift(r) PROVE TInv' /\ Apart(r)
<1>1. Types /\ AtACall /\ Types'
  BY TInvImplies, SiftTypes DEF TypeOK, TInv
<1>2. Apart(r) /\ CallOK(r)'
  <2>1. /\ step[r] # "idle" /\ UNCHANGED <<op, todo, user>> /\ Stay(r, "write")
        /\ Call(r) = "update"
    BY <1>1 DEF Sift, callVars, AtACall, TInv, CallOK
  <2> QED
    BY <2>1, StayCallOK, GoApart DEF Apart, Steps
<1> QED
  BY <1>1, <1>2, TInvStep

LEMMA UpdateTInv ==
  ASSUME TInv, NEW r \in Reqs, Update(r) PROVE TInv' /\ Apart(r)
<1>1. Types /\ AtACall /\ Types'
  BY TInvImplies, UpdateTypes DEF TypeOK, TInv
<1>2. Apart(r) /\ CallOK(r)'
  <2>1. /\ step[r] # "idle" /\ UNCHANGED <<op, todo, user>> /\ Stay(r, "uncache")
        /\ Call(r) = "update"
    BY <1>1 DEF Update, callVars, AtACall, TInv, CallOK
  <2> QED
    BY <2>1, StayCallOK, GoApart DEF Apart, Steps
<1> QED
  BY <1>1, <1>2, TInvStep

LEMMA UncacheChatTInv ==
  ASSUME TInv, NEW r \in Reqs, UncacheChat(r) PROVE TInv' /\ Apart(r)
<1>1. Types /\ AtACall /\ Types'
  BY TInvImplies, UncacheChatTypes DEF TypeOK, TInv
<1>2. Apart(r) /\ CallOK(r)'
  <2>1. /\ step[r] = "uncache" /\ Call(r) = "update" /\ UNCHANGED <<op, todo, user>>
        /\ Proceed(r)
    BY DEF UncacheChat, Announcing, callVars
  <2>2. at[r] # 1
    BY <1>1, <2>1, CallFacts
  <2> QED
    BY <2>1, <2>2, ProceedCallOK, GoApart DEF Apart
<1> QED
  BY <1>1, <1>2, TInvStep

LEMMA AnswerTInv ==
  ASSUME TInv, NEW r \in Reqs, Answer(r) PROVE TInv' /\ Apart(r)
<1>1. Types /\ AtACall /\ Types'
  BY TInvImplies, AnswerTypes DEF TypeOK, TInv
<1>2. Apart(r) /\ CallOK(r)'
  <2>1. /\ op'[r] = NoOp /\ at'[r] = 1 /\ step'[r] = "idle" /\ Apart(r)
    BY <1>1 DEF Answer, Types, Apart
  <2>2. Kind(r)' = "getmembers" /\ Call(r)' = "base" /\ 1 \in DOMAIN Script["getmembers"]
    BY <2>1 DEF Kind, Call, NoOp, Script, LookUpCalls
  <2> QED
    BY <2>1, <2>2 DEF CallOK
<1> QED
  BY <1>1, <1>2, TInvStep

LEMMA FailAndTellTInv ==
  ASSUME TInv, NEW r \in Reqs, FailAndTell(r) PROVE TInv' /\ Apart(r)
<1>1. Types /\ AtACall /\ Types'
  BY TInvImplies, FailAndTellTypes DEF TypeOK, TInv
<1>2. Apart(r) /\ CallOK(r)'
  <2>1. /\ step[r] # "idle" /\ UNCHANGED <<op, todo, user>> /\ Stay(r, "fail")
        /\ TRUE
    BY <1>1 DEF FailAndTell, callVars, ReadsChat, ReadsMembers, AtACall, TInv, CallOK
  <2> QED
    BY <2>1, StayCallOK, GoApart DEF Apart, Steps
<1> QED
  BY <1>1, <1>2, TInvStep

LEMMA FailUnconfirmedTInv ==
  ASSUME TInv, NEW r \in Reqs, FailUnconfirmed(r) PROVE TInv' /\ Apart(r)
<1>1. Types /\ AtACall /\ Types'
  BY TInvImplies, FailUnconfirmedTypes DEF TypeOK, TInv
<1>2. Apart(r) /\ CallOK(r)'
  <2>1. step[r] # "idle" /\ UNCHANGED <<op, todo, user>> /\ Stay(r, "fail")
    BY DEF FailUnconfirmed, callVars
  <2> QED
    BY <2>1, StayCallOK, GoApart DEF Apart, Steps
<1> QED
  BY <1>1, <1>2, TInvStep

LEMMA CrashTInv ==
  ASSUME TInv, Crash PROVE TInv'
<1>1. Types'
  BY TInvImplies, CrashTypes DEF TypeOK, TInv
<1>2. \A r \in Reqs : op'[r] = NoOp /\ at'[r] = 1 /\ step'[r] = "idle"
  BY DEF Crash
<1>3. ASSUME NEW r \in Reqs PROVE CallOK(r)'
  <2>1. Kind(r)' = "getmembers" /\ Call(r)' = "base" /\ 1 \in DOMAIN Script["getmembers"]
    BY <1>2 DEF Kind, Call, NoOp, Script, LookUpCalls
  <2> QED
    BY <1>2, <2>1 DEF CallOK
<1> QED
  BY <1>1, <1>3 DEF TInv

LEMMA IdleTInv ==
  ASSUME TInv, Types', UNCHANGED <<op, at, step, todo, user>> PROVE TInv'
  BY OtherCallOK DEF TInv

LEMMA TInvInit == Init => TInv
<1> SUFFICES ASSUME Init PROVE TInv
  OBVIOUS
<1>1. Types
  BY GroupChatAssumption DEF Init, Types, NoMembers, NoEntry, NoOp, NoChat, Chat, Op, Kinds
<1>2. ASSUME NEW r \in Reqs PROVE CallOK(r)
  <2>1. op[r] = NoOp /\ at[r] = 1 /\ step[r] = "idle"
    BY DEF Init
  <2>2. Kind(r) = "getmembers" /\ Call(r) = "base" /\ 1 \in DOMAIN Script["getmembers"]
    BY <2>1 DEF Kind, Call, NoOp, Script, LookUpCalls
  <2> QED
    BY <2>1, <2>2 DEF CallOK
<1> QED
  BY <1>1, <1>2 DEF TInv

LEMMA TInvNext == TInv /\ [Next]_vars => TInv'
<1> SUFFICES ASSUME TInv, [Next]_vars PROVE TInv'
  OBVIOUS
<1>1. ASSUME NEW r \in Reqs,
             Arrive(r) \/ Run(r) \/ FailAndTell(r) \/ FailUnconfirmed(r) \/ FailUnnoticed(r)
      PROVE TInv'
  BY <1>1, ArriveTInv, LookChatTInv, FillChatTInv, LookMembersTInv, FillMembersTInv,
     TouchTInv, ReadRowTInv, RefuseJoinTInv, WriteJoinTInv, WriteLeaveTInv,
     UncacheMembersTInv, SiftTInv, UpdateTInv, UncacheChatTInv, AnswerTInv,
     FailAndTellTInv, FailUnconfirmedTInv, FailUnnoticedTInv DEF Run
<1>2. CASE ExpireMembers \/ ExpireChat \/ Remove
  <2>1. Types' /\ UNCHANGED <<op, at, step, todo, user>>
    BY <1>2, TInvImplies, ExpireMembersTypes, ExpireChatTypes, RemoveTypes
       DEF TypeOK, ExpireMembers, ExpireChat, Remove, callVars
  <2> QED
    BY <2>1, IdleTInv
<1>3. CASE UNCHANGED vars
  <2>1. Types' /\ UNCHANGED <<op, at, step, todo, user>>
    BY <1>3 DEF TInv, Types, vars, dbVars, cacheVars, callVars, gotVars, pastVars
  <2> QED
    BY <2>1, IdleTInv
<1> QED
  BY <1>1, <1>2, <1>3, CrashTInv DEF Next

\* Every variable keeps its type, and no handler runs past its calls or users.
THEOREM TypeCorrect == Spec => []TypeOK
<1>1. Spec => []TInv
  BY TInvInit, TInvNext, PTL DEF Spec
<1> QED
  BY <1>1, TInvImplies, PTL

-----------------------------------------------------------------------------
(* The caches. Between two of its calls a goroutine neither fills a cache  *)
(* nor has it to empty one.                                                *)

Off == Steps \ {"fill", "uncache"}

LEMMA OffFacts ==
  ASSUME NEW r \in Reqs, NEW calls, step'[r] \in Off
  PROVE  ~Reading(r, calls)' /\ ~Announcing(r, calls)'
  BY DEF Off, Reading, Announcing

LEMMA ProceedOff ==
  ASSUME TInv, NEW r \in Reqs, Proceed(r) PROVE step'[r] \in Off
<1> DEFINE s == Script[Kind(r)]
<1>1. /\ Kind(r) \in Kinds /\ ScriptIs(Kind(r), s)
      /\ \/ step'[r] = "answer"
         \/ at[r] + 1 \in 1 .. Len(s) /\ step'[r] = First(s[at[r] + 1], Kind(r))
  BY CallFacts, ProceedFacts, TInvImplies DEF TypeOK
<1> HIDE DEF s
<1> QED
  BY <1>1, FirstFacts DEF ScriptIs, Off, Steps

LEMMA StayOff ==
  ASSUME TInv, NEW r \in Reqs, NEW t \in Off, Stay(r, t) PROVE step'[r] \in Off
  BY StayFacts DEF TInv, Off

LEMMA HoldOff ==
  ASSUME TInv, NEW r \in Reqs, NEW c, NEW stale, Hold(r, c, stale)
  PROVE  step'[r] \in Off
<1>1. Proceed(r) \/ Stay(r, "fail")
  BY DEF Hold
<1> QED
  BY <1>1, ProceedOff, StayOff DEF Off, Steps

LEMMA NextUserOff ==
  ASSUME TInv, NEW r \in Reqs, NEW u, NextUser(r, u)
  PROVE  step'[r] \in Off
<1>1. First(Call(r), Kind(r)) \in Off
  BY CallFacts, FirstFacts, TInvImplies DEF TypeOK, Off, Steps
<1>2. Proceed(r) \/ Stay(r, First(Call(r), Kind(r)))
  BY DEF NextUser
<1> QED
  BY <1>1, <1>2, ProceedOff, StayOff

\* the goroutine has nothing to write into a cache after the step, nor to drop
Calm(r) == Apart(r) /\ step'[r] \in Off

LEMMA ArriveCalm ==
  ASSUME TInv, NEW r \in Reqs, Arrive(r) PROVE Calm(r)
<1>1. step'[r] = "look"
  BY DEF Arrive, TInv, Types
<1> QED
  BY <1>1, ArriveTInv DEF Calm, Off, Steps

LEMMA FillChatCalm ==
  ASSUME TInv, NEW r \in Reqs, FillChat(r) PROVE Calm(r)
  BY FillChatTInv, HoldOff DEF FillChat, Calm, Off, Steps

LEMMA FillMembersCalm ==
  ASSUME TInv, NEW r \in Reqs, FillMembers(r) PROVE Calm(r)
  BY FillMembersTInv, ProceedOff DEF FillMembers, Calm, Off, Steps

LEMMA TouchCalm ==
  ASSUME TInv, NEW r \in Reqs, Touch(r) PROVE Calm(r)
  BY TouchTInv, StayOff DEF Touch, Calm, Off, Steps

LEMMA RefuseJoinCalm ==
  ASSUME TInv, NEW r \in Reqs, RefuseJoin(r) PROVE Calm(r)
  BY RefuseJoinTInv, StayOff DEF RefuseJoin, Calm, Off, Steps

LEMMA UncacheMembersCalm ==
  ASSUME TInv, NEW r \in Reqs, UncacheMembers(r) PROVE Calm(r)
  BY UncacheMembersTInv, NextUserOff DEF UncacheMembers, Calm, Off, Steps

LEMMA SiftCalm ==
  ASSUME TInv, NEW r \in Reqs, Sift(r) PROVE Calm(r)
  BY SiftTInv, StayOff DEF Sift, Calm, Off, Steps

LEMMA UncacheChatCalm ==
  ASSUME TInv, NEW r \in Reqs, UncacheChat(r) PROVE Calm(r)
  BY UncacheChatTInv, ProceedOff DEF UncacheChat, Calm, Off, Steps

LEMMA AnswerCalm ==
  ASSUME TInv, NEW r \in Reqs, Answer(r) PROVE Calm(r)
<1>1. step'[r] = "idle"
  BY DEF Answer, TInv, Types
<1> QED
  BY <1>1, AnswerTInv DEF Calm, Off, Steps

LEMMA FailAndTellCalm ==
  ASSUME TInv, NEW r \in Reqs, FailAndTell(r) PROVE Calm(r)
  BY FailAndTellTInv, StayOff DEF FailAndTell, Calm, Off, Steps

LEMMA FailUnconfirmedCalm ==
  ASSUME TInv, NEW r \in Reqs, FailUnconfirmed(r) PROVE Calm(r)
  BY FailUnconfirmedTInv, StayOff DEF FailUnconfirmed, Calm, Off, Steps

LEMMA FailUnnoticedCalm ==
  ASSUME TInv, NEW r \in Reqs, FailUnnoticed(r) PROVE Calm(r)
  BY FailUnnoticedTInv, ProceedOff DEF FailUnnoticed, Calm, Off, Steps

LEMMA ReadRowCalm ==
  ASSUME TInv, NEW r \in Reqs, ReadRow(r) PROVE Calm(r)
<1>1. (\E u : NextUser(r, u)) \/ Stay(r, "write")
  BY DEF ReadRow
<1> QED
  BY <1>1, ReadRowTInv, NextUserOff, StayOff DEF Calm, Off, Steps

\* after the step it reads no list of members, and has none to drop
CalmLists(r) ==
  /\ Apart(r) /\ ~Reading(r, MemberCalls)'
  /\ ~Announcing(r, {"join"})' /\ ~Announcing(r, {"leave"})'

LEMMA CalmIsCalmLists ==
  ASSUME NEW r \in Reqs, Calm(r) PROVE CalmLists(r)
  BY OffFacts DEF Calm, CalmLists

Joining == {user[r] : r \in {q \in Reqs : Announcing(q, {"join"})}}
Leaving == {user[r] : r \in {q \in Reqs : Announcing(q, {"leave"})}}

\* the list is wrong only about users whose change is under way
ListOK(list) ==
  \A u \in Users : /\ u \in list /\ rows[u] # "in" => u \in Leaving
                   /\ u \notin list /\ rows[u] = "in" => u \in Joining

\* the list is right for r: about whoever has not changed since r arrived
Fits(r, list) == stay[r] \subseteq list /\ list \cap away[r] = {}

GoodLists ==
  {list \in SUBSET Users : ListOK(list) /\ \A r \in Reqs : Fits(r, list)}

LInv ==
  /\ Members \in GoodLists
  /\ memberCache.on /\ ~memberCache.late => memberCache.list \in GoodLists
  /\ \A r \in Reqs : Reading(r, MemberCalls) /\ ~late[r] => gotMembers[r] \in GoodLists

LEMMA LInvImplies == LInv => MemberCacheAccounted
<1> SUFFICES ASSUME LInv, memberCache.on, ~memberCache.late, NEW u \in Users \ Changing
             PROVE  u \in memberCache.list <=> rows[u] = "in"
  BY DEF MemberCacheAccounted
<1>1. u \notin Joining /\ u \notin Leaving
  BY DEF Changing, Joining, Leaving, Announcing
<1> QED
  BY <1>1 DEF LInv, GoodLists, ListOK

\* what a step of r means to the other goroutines
LEMMA OtherCall ==
  ASSUME NEW r \in Reqs, Apart(r), NEW q \in Reqs \ {r}, NEW calls
  PROVE  /\ Call(q)' = Call(q) /\ Kind(q)' = Kind(q) /\ user'[q] = user[q]
         /\ Reading(q, calls)' = Reading(q, calls)
         /\ Announcing(q, calls)' = Announcing(q, calls)
  BY DEF Apart, Call, Kind, Reading, Announcing

\* a step of r that leaves good lists good, and makes or caches no other
LEMMA ListsStep ==
  ASSUME LInv, NEW r \in Reqs, Apart(r),
         GoodLists \subseteq GoodLists',
         Members' \in GoodLists',
         memberCache'.on /\ ~memberCache'.late => memberCache'.list \in GoodLists',
         Reading(r, MemberCalls)' /\ ~late'[r] => gotMembers'[r] \in GoodLists',
         \A q \in Reqs \ {r} : gotMembers'[q] = gotMembers[q] /\ (late[q] => late'[q])
  PROVE  LInv'
<1>1. ASSUME NEW q \in Reqs, Reading(q, MemberCalls)', ~late'[q]
      PROVE  gotMembers'[q] \in GoodLists'
  <2>1. CASE q = r
    BY <1>1, <2>1
  <2>2. CASE q # r
    <3>1. Reading(q, MemberCalls) /\ ~late[q] /\ gotMembers'[q] = gotMembers[q]
      BY <1>1, <2>2, OtherCall
    <3>2. gotMembers[q] \in GoodLists
      BY <3>1 DEF LInv
    <3> QED
      BY <3>1, <3>2
  <2> QED
    BY <2>1, <2>2
<1> QED
  BY <1>1 DEF LInv

\* no change of a member begins or comes to an end in the goroutine
LEMMA SameChanges ==
  ASSUME NEW r \in Reqs, Apart(r),
         ~Announcing(r, {"join"})', ~Announcing(r, {"leave"})',
         ~Announcing(r, {"join"}), ~Announcing(r, {"leave"})
  PROVE  Joining' = Joining /\ Leaving' = Leaving
  BY OtherCall DEF Joining, Leaving

LEMMA ListsQuiet ==
  ASSUME LInv, NEW r \in Reqs, CalmLists(r),
         UNCHANGED <<rows, memberCache, gotMembers>>,
         \A q \in Reqs : stay'[q] \subseteq stay[q] /\ away'[q] \subseteq away[q],
         \A q \in Reqs \ {r} : late[q] => late'[q],
         ~Announcing(r, {"join"}), ~Announcing(r, {"leave"})
  PROVE  LInv'
<1>1. Apart(r) /\ ~Reading(r, MemberCalls)'
  BY DEF CalmLists
<1>2. Joining' = Joining /\ Leaving' = Leaving
  BY <1>1, SameChanges DEF CalmLists
<1>3. GoodLists \subseteq GoodLists' /\ Members' = Members
  BY <1>2 DEF GoodLists, ListOK, Fits, Members
<1> QED
  BY <1>1, <1>3, ListsStep DEF LInv

LEMMA NotAnnouncing ==
  ASSUME NEW r \in Reqs, NEW calls, step[r] # "uncache" \/ Call(r) \notin calls
  PROVE  ~Announcing(r, calls)
  BY DEF Announcing

LEMMA ArriveLists ==
  ASSUME TInv, LInv, NEW r \in Reqs, Arrive(r) PROVE LInv'
<1>1. Apart(r) /\ ~Reading(r, MemberCalls)' /\ ~Announcing(r, {"join"})'
      /\ ~Announcing(r, {"leave"})'
  BY ArriveCalm, OffFacts DEF Calm
<1>2. Joining' = Joining /\ Leaving' = Leaving
  BY <1>1, SameChanges DEF Arrive, Announcing
<1>3. Joining \cup Leaving \subseteq Changing
  BY DEF Joining, Leaving, Changing, Announcing
<1>4. /\ UNCHANGED <<rows, memberCache, gotMembers, late>>
      /\ stay'[r] = Members \ Changing /\ away'[r] = (Users \ Members) \ Changing
      /\ \A q \in Reqs \ {r} : stay'[q] = stay[q] /\ away'[q] = away[q]
  BY DEF Arrive, dbVars, cacheVars, gotVars, TInv, Types
<1>5. ASSUME NEW list \in GoodLists PROVE list \in GoodLists'
  <2>1. list \in SUBSET Users /\ ListOK(list) /\ \A q \in Reqs : Fits(q, list)
    BY DEF GoodLists
  <2>2. ListOK(list)'
    BY <1>2, <1>4, <2>1 DEF ListOK
  <2>3. stay'[r] \subseteq list /\ list \cap away'[r] = {}
    BY <1>3, <1>4, <2>1 DEF ListOK, Members
  <2>4. \A q \in Reqs : Fits(q, list)'
    BY <1>4, <2>1, <2>3 DEF Fits
  <2> QED
    BY <2>1, <2>2, <2>4 DEF GoodLists
<1>6. Members' = Members
  BY <1>4 DEF Members
<1> QED
  BY <1>1, <1>4, <1>5, <1>6, ListsStep DEF LInv

LEMMA LookChatLists ==
  ASSUME TInv, LInv, NEW r \in Reqs, LookChat(r) PROVE LInv'
<1>1. /\ UNCHANGED <<rows, memberCache, gotMembers, late, stay, away>>
      /\ step[r] = "look" /\ Call(r) \in ChatCalls
  BY DEF LookChat, dbVars, cacheVars, pastVars
<1>2. CalmLists(r)
  <2>1. CASE chatCache.on
    <3>1. step'[r] \in Off
      BY <2>1, HoldOff DEF LookChat
    <3> QED
      BY <3>1, LookChatTInv, CalmIsCalmLists DEF Calm
  <2>2. CASE ~chatCache.on
    <3>1. step'[r] = "fill" /\ at' = at /\ op' = op
      BY <2>2, StayFacts DEF LookChat, TInv, Steps
    <3>2. Call(r)' \notin MemberCalls
      BY <1>1, <3>1 DEF Call, Kind, ChatCalls, MemberCalls
    <3> QED
      BY <3>1, <3>2, LookChatTInv DEF CalmLists, Reading, Announcing
  <2> QED
    BY <2>1, <2>2
<1> QED
  BY <1>1, <1>2, ListsQuiet, NotAnnouncing

LEMMA UpdateLists ==
  ASSUME TInv, LInv, NEW r \in Reqs, Update(r) PROVE LInv'
<1>1. /\ UNCHANGED <<rows, memberCache, gotMembers, late, stay, away, op>>
      /\ step[r] = "write" /\ Call(r) = "update"
  BY DEF Update, cacheVars, gotVars, pastVars
<1>2. step'[r] = "uncache" /\ at' = at
  BY StayFacts DEF Update, TInv, Steps
<1>3. Call(r)' = "update"
  BY <1>1, <1>2 DEF Call, Kind
<1>4. CalmLists(r)
  BY <1>2, <1>3, UpdateTInv DEF CalmLists, Reading, Announcing
<1> QED
  BY <1>1, <1>4, ListsQuiet, NotAnnouncing

LEMMA LookMembersLists ==
  ASSUME TInv, LInv, NEW r \in Reqs, LookMembers(r) PROVE LInv'
<1>1. /\ UNCHANGED <<rows, memberCache, late, stay, away>>
      /\ step[r] = "look" /\ Call(r) \in MemberCalls /\ Apart(r)
  BY LookMembersTInv DEF LookMembers, dbVars, cacheVars, pastVars
<1>2. CASE memberCache.on
  <2>1. step'[r] \in Off /\ UNCHANGED gotMembers
    BY <1>2, ProceedOff DEF LookMembers
  <2> QED
    BY <1>1, <2>1, CalmIsCalmLists, ListsQuiet, NotAnnouncing DEF Calm
<1>3. CASE ~memberCache.on
  <2>1. step'[r] = "fill"
    BY <1>3, StayFacts DEF LookMembers, TInv, Steps
  <2>2. gotMembers'[r] = Members /\ \A q \in Reqs \ {r} : gotMembers'[q] = gotMembers[q]
    BY <1>3 DEF LookMembers, TInv, Types
  <2>3. Joining' = Joining /\ Leaving' = Leaving
    BY <1>1, <2>1, SameChanges DEF Announcing
  <2>4. GoodLists' = GoodLists /\ Members' = Members
    BY <1>1, <2>3 DEF GoodLists, ListOK, Fits, Members
  <2> QED
    BY <1>1, <2>2, <2>4, ListsStep DEF LInv
<1> QED
  BY <1>2, <1>3

LEMMA FillMembersLists ==
  ASSUME TInv, LInv, NEW r \in Reqs, FillMembers(r) PROVE LInv'
<1>1. /\ UNCHANGED <<rows, stay, away>>
      /\ Reading(r, MemberCalls) /\ step[r] = "fill"
      /\ memberCache' = memberCache \/
         memberCache' = [on |-> TRUE, list |-> gotMembers[r], late |-> late[r]]
      /\ \A q \in Reqs \ {r} : gotMembers'[q] = gotMembers[q] /\ late'[q] = late[q]
  BY DEF FillMembers, dbVars, pastVars, Reading, TInv, Types
<1>2. CalmLists(r) /\ Apart(r) /\ ~Reading(r, MemberCalls)'
  BY FillMembersCalm, CalmIsCalmLists DEF CalmLists
<1>3. Joining' = Joining /\ Leaving' = Leaving
  BY <1>1, <1>2, SameChanges DEF CalmLists, Announcing
<1>4. GoodLists' = GoodLists /\ Members' = Members
  BY <1>1, <1>3 DEF GoodLists, ListOK, Fits, Members
<1>5. memberCache'.on /\ ~memberCache'.late => memberCache'.list \in GoodLists
  BY <1>1 DEF LInv
<1> QED
  BY <1>1, <1>2, <1>4, <1>5, ListsStep DEF LInv

LEMMA WriteJoinLists ==
  ASSUME TInv, LInv, NEW r \in Reqs, WriteJoin(r) PROVE LInv'
<1> DEFINE u == user[r]
<1>1. /\ UNCHANGED <<memberCache, gotMembers, late, stay, user, op>>
      /\ step[r] = "write" /\ Call(r) = "join" /\ Apart(r) /\ u \in Users
      /\ away' = [q \in Reqs |-> away[q] \ {u}]
  BY WriteJoinTInv DEF WriteJoin, cacheVars, gotVars, TInv, Types
<1>2. rows'[u] = "in" /\ \A v \in Users \ {u} : rows'[v] = rows[v]
  BY DEF WriteJoin, TInv, Types
<1>3. step'[r] = "uncache" /\ at' = at /\ Call(r)' = "join"
  BY <1>1, StayFacts DEF WriteJoin, TInv, Steps, Call, Kind
<1>4. Joining' = Joining \cup {u} /\ Leaving' = Leaving
  <2>1. Announcing(r, {"join"})' /\ ~Announcing(r, {"join"})
        /\ ~Announcing(r, {"leave"})' /\ ~Announcing(r, {"leave"})
    BY <1>1, <1>3 DEF Announcing
  <2>2. \A q \in Reqs \ {r} : Announcing(q, {"join"})' = Announcing(q, {"join"})
        /\ Announcing(q, {"leave"})' = Announcing(q, {"leave"})
    BY <1>1, OtherCall
  <2> QED
    BY <1>1, <2>1, <2>2 DEF Joining, Leaving
<1> HIDE DEF u
<1>5. GoodLists \subseteq GoodLists'
  BY <1>1, <1>2, <1>4 DEF GoodLists, ListOK, Fits
<1>6. Members' \in GoodLists'
  <2>1. Members' = Members \cup {u}
    BY <1>1, <1>2 DEF Members
  <2>2. \A q \in Reqs : Fits(q, Members)
    BY DEF LInv, GoodLists
  <2>3. \A q \in Reqs : stay'[q] \subseteq Members' /\ Members' \cap away'[q] = {}
    BY <1>1, <2>1, <2>2 DEF Fits
  <2>4. \A v \in Users : v \in Members' <=> rows'[v] = "in"
    BY DEF Members
  <2> QED
    BY <2>3, <2>4 DEF GoodLists, ListOK, Fits, Members
<1>7. ~Reading(r, MemberCalls)'
  BY <1>3 DEF Reading
<1> QED
  BY <1>1, <1>5, <1>6, <1>7, ListsStep DEF LInv

LEMMA WriteLeaveLists ==
  ASSUME TInv, LInv, NEW r \in Reqs, WriteLeave(r) PROVE LInv'
<1>1. /\ UNCHANGED <<memberCache, gotMembers, late, away, op>>
      /\ step[r] = "write" /\ Call(r) = "leave" /\ Apart(r)
  BY WriteLeaveTInv DEF WriteLeave, cacheVars, gotVars
<1> PICK u \in todo[r] :
      /\ rows' = [rows EXCEPT ![u] = IF @ = "none" THEN "none" ELSE "out"]
      /\ user' = [user EXCEPT ![r] = u]
      /\ stay' = [q \in Reqs |-> stay[q] \ {u}]
  BY DEF WriteLeave
<1>2. /\ u \in Users /\ rows'[u] # "in" /\ user'[r] = u
      /\ \A v \in Users \ {u} : rows'[v] = rows[v]
  BY DEF TInv, Types
<1>3. step'[r] = "uncache" /\ at' = at /\ Call(r)' = "leave"
  BY <1>1, StayFacts DEF WriteLeave, TInv, Steps, Call, Kind
<1>4. Leaving' = Leaving \cup {u} /\ Joining' = Joining
  <2>1. Announcing(r, {"leave"})' /\ ~Announcing(r, {"join"})
        /\ ~Announcing(r, {"join"})' /\ ~Announcing(r, {"leave"})
    BY <1>1, <1>3 DEF Announcing
  <2>2. \A q \in Reqs \ {r} : Announcing(q, {"join"})' = Announcing(q, {"join"})
        /\ Announcing(q, {"leave"})' = Announcing(q, {"leave"}) /\ user'[q] = user[q]
    BY <1>1, OtherCall
  <2> QED
    BY <1>2, <2>1, <2>2 DEF Joining, Leaving
<1>5. GoodLists \subseteq GoodLists'
  BY <1>1, <1>2, <1>4 DEF GoodLists, ListOK, Fits
<1>6. Members' \in GoodLists'
  <2>1. Members' = Members \ {u}
    BY <1>2 DEF Members
  <2>2. \A q \in Reqs : Fits(q, Members)
    BY DEF LInv, GoodLists
  <2>3. \A q \in Reqs : stay'[q] \subseteq Members' /\ Members' \cap away'[q] = {}
    BY <1>1, <2>1, <2>2 DEF Fits
  <2>4. \A v \in Users : v \in Members' <=> rows'[v] = "in"
    BY DEF Members
  <2> QED
    BY <2>3, <2>4 DEF GoodLists, ListOK, Fits, Members
<1>7. ~Reading(r, MemberCalls)'
  BY <1>3 DEF Reading
<1> QED
  BY <1>1, <1>5, <1>6, <1>7, ListsStep DEF LInv

\* whatever is cached or being read when a change of the members ends is late, or
\* dropped
LEMMA ChangeEndsLists ==
  ASSUME TInv, LInv, NEW r \in Reqs,
         UncacheMembers(r) \/ (FailUnconfirmed(r) /\ Call(r) \in {"join", "leave"})
  PROVE  LInv'
<1>1. /\ UNCHANGED <<rows, gotMembers, stay, away>>
      /\ memberCache'.on => memberCache'.late
      /\ \A q \in Reqs : late'[q] = (late[q] \/ Reading(q, MemberCalls))
  <2>1. CASE UncacheMembers(r)
    BY <2>1 DEF UncacheMembers, dbVars, pastVars, NoMembers
  <2>2. CASE FailUnconfirmed(r) /\ Call(r) \in {"join", "leave"}
    BY <2>2 DEF FailUnconfirmed, dbVars, pastVars, TInv, Types
  <2> QED
    BY <2>1, <2>2
<1>2. Apart(r) /\ ~Reading(r, MemberCalls)'
  BY UncacheMembersCalm, FailUnconfirmedCalm, CalmIsCalmLists DEF CalmLists
<1>3. \A q \in Reqs : Reading(q, MemberCalls)' => late'[q]
  BY <1>1, <1>2, OtherCall
<1>4. Members' \in GoodLists'
  <2>1. Members' = Members /\ \A q \in Reqs : Fits(q, Members)
    BY <1>1 DEF Members, LInv, GoodLists
  <2> QED
    BY <1>1, <2>1 DEF GoodLists, ListOK, Fits, Members
<1> QED
  BY <1>1, <1>3, <1>4 DEF LInv

LEMMA LInvInit == TInv /\ Init => LInv
<1> SUFFICES ASSUME TInv, Init PROVE LInv
  OBVIOUS
<1>1. Members \in GoodLists
  BY DEF Init, GoodLists, ListOK, Fits, Members
<1> QED
  BY <1>1 DEF LInv, Init, NoMembers, Reading

\* a step after which every list in the cache or being read was so before
LEMMA FewerLists ==
  ASSUME LInv, UNCHANGED <<rows, stay, away, Joining, Leaving>>,
         memberCache'.on => memberCache' = memberCache,
         \A r \in Reqs : Reading(r, MemberCalls)' /\ ~late'[r] =>
           Reading(r, MemberCalls) /\ ~late[r] /\ gotMembers'[r] = gotMembers[r]
  PROVE  LInv'
<1>1. GoodLists' = GoodLists /\ Members' = Members
  BY DEF GoodLists, ListOK, Fits, Members
<1> QED
  BY <1>1 DEF LInv

LEMMA CrashLists ==
  ASSUME TInv, LInv, Crash PROVE LInv'
<1>1. rows' = rows /\ ~memberCache'.on /\ \A r \in Reqs :
        step'[r] = "idle" /\ stay'[r] = {} /\ away'[r] = {}
  BY DEF Crash, dbVars, NoMembers
<1>2. Members' \in GoodLists'
  BY <1>1 DEF Members, GoodLists, ListOK, Fits
<1> QED
  BY <1>1, <1>2 DEF LInv, Reading

LEMMA LInvNext == TInv /\ LInv /\ [Next]_vars => LInv'
<1> SUFFICES ASSUME TInv, LInv, [Next]_vars PROVE LInv'
  OBVIOUS
<1>1. ASSUME NEW r \in Reqs,
             \/ Touch(r) \/ ReadRow(r) \/ RefuseJoin(r) \/ Sift(r)
             \/ FailAndTell(r) \/ FailUnnoticed(r)
      PROVE  LInv'
  <2>1. CalmLists(r)
    BY <1>1, CalmIsCalmLists, TouchCalm, ReadRowCalm, RefuseJoinCalm, SiftCalm,
       FailAndTellCalm, FailUnnoticedCalm
  <2>2. UNCHANGED <<rows, memberCache, gotMembers, late, stay, away>>
    BY <1>1 DEF Touch, ReadRow, RefuseJoin, Sift, FailAndTell, FailUnnoticed,
       dbVars, cacheVars, gotVars, pastVars
  <2>3. step[r] # "uncache"
    BY <1>1 DEF Touch, ReadRow, RefuseJoin, Sift, FailAndTell, FailUnnoticed,
       ReadsChat, ReadsMembers
  <2> QED
    BY <2>1, <2>2, <2>3, ListsQuiet, NotAnnouncing
<1>2. ASSUME NEW r \in Reqs, FillChat(r) \/ UncacheChat(r) \/ Answer(r)
      PROVE  LInv'
  <2>1. CalmLists(r)
    BY <1>2, CalmIsCalmLists, FillChatCalm, UncacheChatCalm, AnswerCalm
  <2>2. /\ UNCHANGED <<rows, memberCache, gotMembers>>
        /\ \A q \in Reqs : stay'[q] \subseteq stay[q] /\ away'[q] \subseteq away[q]
        /\ \A q \in Reqs \ {r} : late[q] => late'[q]
    BY <1>2 DEF FillChat, UncacheChat, Answer, dbVars, cacheVars, gotVars, pastVars,
       TInv, Types
  <2>3. ~Announcing(r, {"join"}) /\ ~Announcing(r, {"leave"})
    BY <1>2 DEF FillChat, UncacheChat, Answer, Reading, Announcing
  <2> QED
    BY <2>1, <2>2, <2>3, ListsQuiet
<1>5. ASSUME NEW r \in Reqs, FailUnconfirmed(r), Call(r) = "update"
      PROVE  LInv'
  <2>1. CalmLists(r)
    BY <1>5, CalmIsCalmLists, FailUnconfirmedCalm
  <2>2. /\ UNCHANGED <<rows, memberCache, gotMembers, stay, away>>
        /\ \A q \in Reqs : late[q] => late'[q]
    BY <1>5 DEF FailUnconfirmed, dbVars, pastVars
  <2> QED
    BY <1>5, <2>1, <2>2, ListsQuiet, NotAnnouncing
<1>6. ASSUME NEW r \in Reqs, FailUnconfirmed(r) PROVE LInv'
  BY <1>5, <1>6, ChangeEndsLists DEF FailUnconfirmed
<1>3. ASSUME NEW r \in Reqs,
             Arrive(r) \/ Run(r) \/ FailAndTell(r) \/ FailUnconfirmed(r) \/ FailUnnoticed(r)
      PROVE  LInv'
  BY <1>1, <1>2, <1>3, <1>6, ArriveLists, LookChatLists, UpdateLists, LookMembersLists,
     FillMembersLists, WriteJoinLists, WriteLeaveLists, ChangeEndsLists DEF Run
<1>4. CASE ExpireMembers \/ ExpireChat \/ Remove \/ UNCHANGED vars
  <2>1. /\ UNCHANGED <<rows, stay, away, user, op, at, step, gotMembers, late>>
        /\ memberCache'.on => memberCache' = memberCache
    BY <1>4 DEF ExpireMembers, ExpireChat, Remove, vars, dbVars, cacheVars, callVars,
       gotVars, pastVars, NoMembers
  <2>2. \A r \in Reqs : \A calls : Reading(r, calls)' = Reading(r, calls)
        /\ Announcing(r, calls)' = Announcing(r, calls)
    BY <2>1 DEF Reading, Announcing, Call, Kind
  <2>3. Joining' = Joining /\ Leaving' = Leaving
    BY <2>1, <2>2 DEF Joining, Leaving
  <2> QED
    BY <2>1, <2>2, <2>3, FewerLists
<1> QED
  BY <1>3, <1>4, CrashLists DEF Next

\* A cached list of members is wrong only about users whose change has yet to
\* drop it, if it was not read before a change and cached after it, nor kept by a
\* change that was reported as failed.
THEOREM MembersAccounted == Spec => []MemberCacheAccounted
<1>1. Init => TInv /\ LInv
  BY TInvInit, LInvInit
<1>2. TInv /\ LInv /\ [Next]_vars => (TInv /\ LInv)'
  BY TInvNext, LInvNext
<1>3. TInv /\ LInv => MemberCacheAccounted
  BY LInvImplies
<1> QED
  BY <1>1, <1>2, <1>3, PTL DEF Spec

-----------------------------------------------------------------------------
(* The users of an answer.                                                 *)

\* the list of members for the answer has been taken
Looked(r) ==
  step[r] = "answer" \/ \E j \in 1 .. at[r] - 1 : Script[Kind(r)][j] = "users"

RollInv == \A r \in Reqs : Looked(r) /\ ~blind[r] => Fits(r, roll[r])

LEMMA LookedProceed ==
  ASSUME TInv, NEW r \in Reqs, Proceed(r), op'[r] = op[r], Looked(r)'
  PROVE  Looked(r) \/ Call(r) = "users"
<1> DEFINE s == Script[Kind(r)]
<1>1. /\ Kind(r) \in Kinds /\ ScriptIs(Kind(r), s) /\ at[r] \in 1 .. Len(s)
      /\ Call(r) = s[at[r]] /\ Kind(r)' = Kind(r)
  BY CallFacts, TInvImplies DEF TypeOK, Kind
<1>2. \/ LastCall(r) /\ step'[r] = "answer" /\ at'[r] = at[r]
      \/ at'[r] = at[r] + 1 /\ step'[r] = First(s[at[r] + 1], Kind(r))
         /\ at[r] + 1 \in 1 .. Len(s)
  BY ProceedFacts, TInvImplies DEF TypeOK
<1>3. CASE LastCall(r)
  <2>1. at[r] = Len(s) \/ Call(r) = "users" \/ (Kind(r) = "leave" /\ Call(r) = "data")
    BY <1>3 DEF LastCall
  <2> HIDE DEF s
  <2>2. \E j \in 1 .. at[r] : s[j] = "users"
    <3>1. CASE at[r] = Len(s)
      BY <1>1, <3>1 DEF ScriptIs
    <3>2. CASE Call(r) = "users"
      <4>1. at[r] \in 1 .. at[r]
        BY <1>1 DEF ScriptIs
      <4> QED
        BY <1>1, <3>2, <4>1
    <3>3. CASE Kind(r) = "leave" /\ Call(r) = "data"
      <4>1. at[r] = 5 /\ s[3] = "users"
        BY <1>1, <3>3 DEF ScriptIs
      <4> QED
        BY <4>1
    <3> QED
      BY <2>1, <3>1, <3>2, <3>3
  <2>3. Call(r) = "users" \/ \E j \in 1 .. at[r] - 1 : s[j] = "users"
    BY <1>1, <2>2
  <2> QED
    BY <2>3 DEF Looked, s
<1>4. CASE at'[r] = at[r] + 1 /\ step'[r] = First(s[at[r] + 1], Kind(r))
           /\ at[r] + 1 \in 1 .. Len(s)
  <2>1. \E j \in 1 .. at'[r] - 1 : s[j] = "users"
    <3>1. step'[r] # "answer"
      <4> HIDE DEF s
      <4>1. s[at[r] + 1] \in Calls
        BY <1>1, <1>4 DEF ScriptIs
      <4>2. First(s[at[r] + 1], Kind(r)) # "answer"
        BY <1>1, <4>1, FirstFacts
      <4> QED
        BY <1>4, <4>2
    <3> QED
      BY <1>1, <3>1 DEF Looked
  <2> HIDE DEF s
  <2>2. Call(r) = "users" \/ \E j \in 1 .. at[r] - 1 : s[j] = "users"
    BY <1>1, <1>4, <2>1
  <2> QED
    BY <2>2 DEF Looked, s
<1> QED
  BY <1>2, <1>3, <1>4

LEMMA LookedStay ==
  ASSUME TInv, NEW r \in Reqs, NEW t \in Steps, Stay(r, t), t # "answer",
         op'[r] = op[r], Looked(r)'
  PROVE  Looked(r)
<1>1. at' = at /\ step'[r] = t /\ Kind(r)' = Kind(r)
  BY StayFacts DEF TInv, Kind
<1> QED
  BY <1>1 DEF Looked

\* a step of r that takes no list for the answer
LEMMA RollKept ==
  ASSUME RollInv, NEW r \in Reqs, Apart(r), Looked(r)' => Looked(r),
         UNCHANGED <<roll, blind>>,
         \A q \in Reqs : stay'[q] \subseteq stay[q] /\ away'[q] \subseteq away[q]
  PROVE  RollInv'
<1>1. ASSUME NEW q \in Reqs, Looked(q)' PROVE Looked(q)
  BY <1>1 DEF Apart, Looked, Kind
<1> QED
  BY <1>1 DEF RollInv, Fits

\* a step of r that may take a list for the answer, one that fits if not tainted
LEMMA RollTaken ==
  ASSUME TInv, RollInv, NEW r \in Reqs, Apart(r), Proceed(r),
         UNCHANGED <<op, stay, away>>,
         NEW list, NEW tainted, Use(r, list, tainted), ~tainted => Fits(r, list)
  PROVE  RollInv'
<1>1. CASE Call(r) = "users"
  <2>1. /\ roll'[r] = list /\ blind'[r] = tainted
        /\ \A q \in Reqs \ {r} : roll'[q] = roll[q] /\ blind'[q] = blind[q]
    BY <1>1 DEF Use, TInv, Types
  <2>2. \A q \in Reqs \ {r} : Looked(q)' = Looked(q)
    BY DEF Apart, Looked, Kind
  <2> QED
    BY <2>1, <2>2 DEF RollInv, Fits
<1>2. CASE Call(r) # "users"
  <2>1. Looked(r)' => Looked(r)
    BY <1>2, LookedProceed
  <2>2. UNCHANGED <<roll, blind>>
    BY <1>2 DEF Use
  <2> QED
    BY <2>1, <2>2, RollKept
<1> QED
  BY <1>1, <1>2

LEMMA LookMembersRoll ==
  ASSUME TInv, LInv, RollInv, NEW r \in Reqs, LookMembers(r) PROVE RollInv'
<1>1. Apart(r) /\ UNCHANGED <<op, stay, away>>
  BY LookMembersTInv DEF LookMembers, pastVars
<1>2. CASE memberCache.on
  <2>1. Proceed(r) /\ Use(r, memberCache.list, memberCache.late)
    BY <1>2 DEF LookMembers
  <2>2. ~memberCache.late => Fits(r, memberCache.list)
    BY <1>2 DEF LInv, GoodLists
  <2> QED
    BY <1>1, <2>1, <2>2, RollTaken
<1>3. CASE ~memberCache.on
  <2>1. Stay(r, "fill") /\ UNCHANGED <<roll, blind>>
    BY <1>3 DEF LookMembers
  <2> QED
    BY <1>1, <2>1, LookedStay, RollKept DEF Steps
<1> QED
  BY <1>2, <1>3

LEMMA FillMembersRoll ==
  ASSUME TInv, LInv, RollInv, NEW r \in Reqs, FillMembers(r) PROVE RollInv'
<1>1. Apart(r) /\ UNCHANGED <<op, stay, away>> /\ Proceed(r)
      /\ Use(r, gotMembers[r], late[r])
  BY FillMembersTInv DEF FillMembers, callVars, pastVars
<1>2. ~late[r] => Fits(r, gotMembers[r])
  BY DEF FillMembers, LInv, GoodLists
<1> QED
  BY <1>1, <1>2, RollTaken

LEMMA FailUnnoticedRoll ==
  ASSUME TInv, RollInv, NEW r \in Reqs, FailUnnoticed(r) PROVE RollInv'
<1>1. Apart(r) /\ UNCHANGED <<op, stay, away>> /\ Proceed(r) /\ Use(r, {}, TRUE)
  BY FailUnnoticedTInv DEF FailUnnoticed, pastVars
<1> QED
  BY <1>1, RollTaken

LEMMA NextUserLooked ==
  ASSUME TInv, NEW r \in Reqs, NEW u, NextUser(r, u), op'[r] = op[r],
         Call(r) \in {"join", "leave"}, Looked(r)'
  PROVE  Looked(r)
<1>1. CASE Proceed(r)
  BY <1>1, LookedProceed
<1>2. CASE Stay(r, First(Call(r), Kind(r)))
  <2>1. First(Call(r), Kind(r)) \in Steps /\ First(Call(r), Kind(r)) # "answer"
    BY CallFacts, FirstFacts, TInvImplies DEF TypeOK, Steps
  <2> QED
    BY <1>2, <2>1, LookedStay
<1> QED
  BY <1>1, <1>2 DEF NextUser

LEMMA HoldLooked ==
  ASSUME TInv, NEW r \in Reqs, NEW c, NEW stale, Hold(r, c, stale), op'[r] = op[r],
         Call(r) \in ChatCalls, Looked(r)'
  PROVE  Looked(r)
<1>1. CASE Proceed(r)
  BY <1>1, LookedProceed DEF ChatCalls
<1>2. CASE Stay(r, "fail")
  BY <1>2, LookedStay DEF Steps
<1> QED
  BY <1>1, <1>2 DEF Hold

LEMMA RollInvNext == TInv /\ LInv /\ RollInv /\ [Next]_vars => RollInv'
<1> SUFFICES ASSUME TInv, LInv, RollInv, [Next]_vars PROVE RollInv'
  OBVIOUS
<1>1. ASSUME NEW r \in Reqs, Arrive(r) PROVE RollInv'
  <2>1. ~Looked(r)' /\ Apart(r) /\ \A q \in Reqs \ {r} :
          /\ roll'[q] = roll[q] /\ blind'[q] = blind[q]
          /\ stay'[q] = stay[q] /\ away'[q] = away[q]
    <3>1. at'[r] = 1 /\ step'[r] = "look"
      BY <1>1 DEF Arrive, TInv, Types
    <3>2. Apart(r)
      BY <1>1, ArriveTInv
    <3> QED
      BY <1>1, <3>1, <3>2 DEF Arrive, Looked, TInv, Types
  <2>2. \A q \in Reqs \ {r} : Looked(q)' = Looked(q)
    BY <2>1 DEF Apart, Looked, Kind
  <2> QED
    BY <2>1, <2>2 DEF RollInv, Fits
<1>2. ASSUME NEW r \in Reqs, Answer(r) PROVE RollInv'
  <2>1. ~Looked(r)' /\ Apart(r) /\ \A q \in Reqs \ {r} :
          /\ roll'[q] = roll[q] /\ blind'[q] = blind[q]
          /\ stay'[q] = stay[q] /\ away'[q] = away[q]
    <3>1. at'[r] = 1 /\ step'[r] = "idle"
      BY <1>2 DEF Answer, TInv, Types
    <3>2. Apart(r)
      BY <1>2, AnswerTInv
    <3> QED
      BY <1>2, <3>1, <3>2 DEF Answer, Looked, TInv, Types
  <2>2. \A q \in Reqs \ {r} : Looked(q)' = Looked(q)
    BY <2>1 DEF Apart, Looked, Kind
  <2> QED
    BY <2>1, <2>2 DEF RollInv, Fits
<1>3. ASSUME NEW r \in Reqs, LookChat(r) \/ FillChat(r) PROVE RollInv'
  <2>1. /\ Apart(r) /\ UNCHANGED <<op, roll, blind, stay, away>>
        /\ Call(r) \in ChatCalls
        /\ Stay(r, "fill") \/ (\E c, stale : Hold(r, c, stale))
    BY <1>3, LookChatTInv, FillChatTInv DEF LookChat, FillChat, Reading, pastVars
  <2>2. Looked(r)' => Looked(r)
    BY <2>1, HoldLooked, LookedStay DEF Steps
  <2> QED
    BY <2>1, <2>2, RollKept
<1>4. ASSUME NEW r \in Reqs, ReadRow(r) \/ UncacheMembers(r) PROVE RollInv'
  <2>1. /\ Apart(r) /\ UNCHANGED <<op, roll, blind, stay, away>>
        /\ Call(r) \in {"join", "leave"}
        /\ Stay(r, "write") \/ (\E u : NextUser(r, u))
    BY <1>4, ReadRowTInv, UncacheMembersTInv
       DEF ReadRow, UncacheMembers, Announcing, pastVars, TInv, CallOK
  <2>2. Looked(r)' => Looked(r)
    BY <2>1, NextUserLooked, LookedStay DEF Steps
  <2> QED
    BY <2>1, <2>2, RollKept
<1>5. ASSUME NEW r \in Reqs,
             \/ Touch(r) \/ RefuseJoin(r) \/ Sift(r) \/ Update(r)
             \/ FailAndTell(r) \/ FailUnconfirmed(r)
      PROVE  RollInv'
  <2>1. /\ Apart(r) /\ UNCHANGED <<op, roll, blind, stay, away>>
        /\ \E t \in {"row", "fail", "write", "uncache"} : Stay(r, t)
    BY <1>5, TouchTInv, RefuseJoinTInv, SiftTInv, UpdateTInv, FailAndTellTInv,
       FailUnconfirmedTInv
       DEF Touch, RefuseJoin, Sift, Update, FailAndTell, FailUnconfirmed, pastVars
  <2>2. Looked(r)' => Looked(r)
    BY <2>1, LookedStay DEF Steps
  <2> QED
    BY <2>1, <2>2, RollKept
<1>6. ASSUME NEW r \in Reqs, WriteJoin(r) \/ WriteLeave(r) PROVE RollInv'
  <2>1. /\ Apart(r) /\ UNCHANGED <<op, roll, blind>> /\ Stay(r, "uncache")
        /\ \A q \in Reqs : stay'[q] \subseteq stay[q] /\ away'[q] \subseteq away[q]
    BY <1>6, WriteJoinTInv, WriteLeaveTInv DEF WriteJoin, WriteLeave
  <2>2. Looked(r)' => Looked(r)
    BY <2>1, LookedStay DEF Steps
  <2> QED
    BY <2>1, <2>2, RollKept
<1>7. ASSUME NEW r \in Reqs, UncacheChat(r) PROVE RollInv'
  <2>1. /\ Apart(r) /\ UNCHANGED <<op, roll, blind, stay, away>> /\ Proceed(r)
        /\ Call(r) = "update"
    BY <1>7, UncacheChatTInv DEF UncacheChat, Announcing, pastVars
  <2>2. Looked(r)' => Looked(r)
    BY <2>1, LookedProceed
  <2> QED
    BY <2>1, <2>2, RollKept
<1>8. CASE Crash
  <2>1. \A r \in Reqs : ~Looked(r)'
    BY <1>8 DEF Crash, Looked
  <2> QED
    BY <2>1 DEF RollInv
<1>9. CASE ExpireMembers \/ ExpireChat \/ Remove \/ UNCHANGED vars
  <2>1. UNCHANGED <<op, at, step, roll, blind, stay, away>>
    BY <1>9 DEF ExpireMembers, ExpireChat, Remove, vars, callVars, gotVars, pastVars
  <2> QED
    BY <2>1 DEF RollInv, Looked, Kind, Fits
<1> QED
  BY <1>1, <1>2, <1>3, <1>4, <1>5, <1>6, <1>7, <1>8, <1>9, LookMembersRoll,
     FillMembersRoll, FailUnnoticedRoll DEF Next, Run

\* The members from whom an answer takes its users include whoever has been a
\* member since the request arrived and nobody who has not been one, unless they
\* come from a list that was cached late or kept by a change that was reported as
\* failed, or from a failed read.
THEOREM RollCorrect == Spec => []RollIsRight
<1>1. Init => TInv /\ LInv /\ RollInv
  <2>1. Init => RollInv
    BY DEF Init, RollInv, Looked
  <2> QED
    BY <2>1, TInvInit, LInvInit
<1>2. TInv /\ LInv /\ RollInv /\ [Next]_vars => (TInv /\ LInv /\ RollInv)'
  BY TInvNext, LInvNext, RollInvNext
<1>3. RollInv => RollIsRight
  BY DEF RollInv, RollIsRight, Looked, Fits
<1> QED
  BY <1>1, <1>2, <1>3, PTL DEF Spec

-----------------------------------------------------------------------------
(* The cached chat.                                                        *)

CInv ==
  /\ chatCache.on /\ ~chatCache.late /\ ~ChatChanging => chatCache.chat = chat
  /\ \A r \in Reqs : Reading(r, ChatCalls) /\ ~late[r] /\ ~ChatChanging => gotChat[r] = chat

\* after the step it reads no chat, and has no cached chat to drop
CalmChat(r) ==
  Apart(r) /\ ~Reading(r, ChatCalls)' /\ ~Announcing(r, {"update"})'

LEMMA CalmIsCalmChat ==
  ASSUME NEW r \in Reqs, Calm(r) PROVE CalmChat(r)
  BY OffFacts DEF Calm, CalmChat

\* a step of r that leaves the row alone, and makes or caches no wrong chat
LEMMA ChatStep ==
  ASSUME CInv, NEW r \in Reqs, Apart(r), chat' = chat,
         ~Announcing(r, {"update"}), ~Announcing(r, {"update"})',
         chatCache'.on /\ ~chatCache'.late /\ ~ChatChanging => chatCache'.chat = chat,
         Reading(r, ChatCalls)' /\ ~late'[r] /\ ~ChatChanging => gotChat'[r] = chat,
         \A q \in Reqs \ {r} : gotChat'[q] = gotChat[q] /\ (late[q] => late'[q])
  PROVE  CInv'
<1>1. ChatChanging' = ChatChanging
  BY OtherCall DEF ChatChanging
<1>2. ASSUME NEW q \in Reqs, Reading(q, ChatCalls)', ~late'[q], ~ChatChanging
      PROVE  gotChat'[q] = chat
  <2>1. CASE q = r
    BY <1>2, <2>1
  <2>2. CASE q # r
    <3>1. Reading(q, ChatCalls) /\ ~late[q] /\ gotChat'[q] = gotChat[q]
      BY <1>2, <2>2, OtherCall
    <3> QED
      BY <1>2, <3>1 DEF CInv
  <2> QED
    BY <2>1, <2>2
<1> QED
  BY <1>1, <1>2 DEF CInv

LEMMA ChatQuiet ==
  ASSUME CInv, NEW r \in Reqs, CalmChat(r), ~Announcing(r, {"update"}),
         UNCHANGED <<chat, gotChat>>,
         chatCache'.on => chatCache' = chatCache,
         \A q \in Reqs \ {r} : late[q] => late'[q]
  PROVE  CInv'
<1>1. chatCache'.on /\ ~chatCache'.late /\ ~ChatChanging => chatCache'.chat = chat
  BY DEF CInv
<1> QED
  BY <1>1, ChatStep DEF CalmChat

LEMMA LookMembersCalmChat ==
  ASSUME TInv, NEW r \in Reqs, LookMembers(r) PROVE CalmChat(r)
<1>1. CASE memberCache.on
  <2>1. step'[r] \in Off
    BY <1>1, ProceedOff DEF LookMembers
  <2> QED
    BY <2>1, LookMembersTInv, CalmIsCalmChat DEF Calm
<1>2. CASE ~memberCache.on
  <2>1. step'[r] = "fill" /\ at' = at /\ op' = op /\ Call(r) \in MemberCalls
    BY <1>2, StayFacts DEF LookMembers, TInv, Steps
  <2>2. Call(r)' \notin ChatCalls
    BY <2>1 DEF Call, Kind, ChatCalls, MemberCalls
  <2> QED
    BY <2>1, <2>2, LookMembersTInv DEF CalmChat, Reading, Announcing
<1> QED
  BY <1>1, <1>2

LEMMA WriteMemberCalmChat ==
  ASSUME TInv, NEW r \in Reqs, WriteJoin(r) \/ WriteLeave(r) PROVE CalmChat(r)
<1>1. /\ op' = op /\ Call(r) \in {"join", "leave"} /\ Apart(r) /\ Stay(r, "uncache")
  BY WriteJoinTInv, WriteLeaveTInv DEF WriteJoin, WriteLeave
<1>2. step'[r] = "uncache" /\ at' = at
  BY <1>1, StayFacts DEF TInv, Steps
<1>3. Call(r)' \in {"join", "leave"}
  BY <1>1, <1>2 DEF Call, Kind
<1> QED
  BY <1>1, <1>2, <1>3 DEF CalmChat, Reading, Announcing

LEMMA LookChatChat ==
  ASSUME TInv, CInv, NEW r \in Reqs, LookChat(r) PROVE CInv'
<1>1. /\ UNCHANGED <<chat, chatCache, late>> /\ step[r] = "look" /\ Apart(r)
      /\ \A q \in Reqs \ {r} : gotChat'[q] = gotChat[q]
  BY LookChatTInv DEF LookChat, dbVars, cacheVars, TInv, Types
<1>2. step'[r] # "uncache" /\ (step'[r] = "fill" => gotChat'[r] = chat)
  <2>1. CASE chatCache.on
    BY <2>1, HoldOff DEF LookChat, Off
  <2>2. CASE ~chatCache.on
    BY <2>2, StayFacts DEF LookChat, TInv, Types, Steps
  <2> QED
    BY <2>1, <2>2
<1>3. chatCache'.on /\ ~chatCache'.late /\ ~ChatChanging => chatCache'.chat = chat
  BY <1>1 DEF CInv
<1> QED
  BY <1>1, <1>2, <1>3, ChatStep DEF Reading, Announcing

LEMMA FillChatChat ==
  ASSUME TInv, CInv, NEW r \in Reqs, FillChat(r) PROVE CInv'
<1>1. /\ chat' = chat /\ Reading(r, ChatCalls) /\ ~Announcing(r, {"update"})
      /\ chatCache' = [on |-> TRUE, chat |-> gotChat[r], late |-> late[r]]
      /\ \A q \in Reqs \ {r} : gotChat'[q] = gotChat[q] /\ late'[q] = late[q]
  BY DEF FillChat, Reading, Announcing, dbVars, TInv, Types
<1>2. CalmChat(r)
  BY FillChatCalm, CalmIsCalmChat
<1>3. chatCache'.on /\ ~chatCache'.late /\ ~ChatChanging => chatCache'.chat = chat
  BY <1>1 DEF CInv
<1> QED
  BY <1>1, <1>2, <1>3, ChatStep DEF CalmChat

LEMMA UpdateChat ==
  ASSUME TInv, CInv, NEW r \in Reqs, Update(r) PROVE CInv'
<1>1. step'[r] = "uncache" /\ at' = at /\ op' = op /\ Call(r) = "update"
  BY StayFacts DEF Update, TInv, Steps
<1>2. ChatChanging'
  BY <1>1 DEF ChatChanging, Announcing, Call, Kind
<1> QED
  BY <1>2 DEF CInv

\* whatever is cached or being read when a change of the row ends is late, or
\* dropped
LEMMA ChangeEndsChat ==
  ASSUME TInv, CInv, NEW r \in Reqs,
         UncacheChat(r) \/ (FailUnconfirmed(r) /\ Call(r) = "update")
  PROVE  CInv'
<1>1. /\ chatCache'.on => chatCache'.late
      /\ \A q \in Reqs : late'[q] = (late[q] \/ Reading(q, ChatCalls))
  <2>1. CASE UncacheChat(r)
    BY <2>1 DEF UncacheChat, NoEntry
  <2>2. CASE FailUnconfirmed(r) /\ Call(r) = "update"
    BY <2>2 DEF FailUnconfirmed, TInv, Types
  <2> QED
    BY <2>1, <2>2
<1>2. Apart(r) /\ ~Reading(r, ChatCalls)'
  BY UncacheChatCalm, FailUnconfirmedCalm, CalmIsCalmChat DEF CalmChat
<1>3. \A q \in Reqs : Reading(q, ChatCalls)' => late'[q]
  BY <1>1, <1>2, OtherCall
<1> QED
  BY <1>1, <1>3 DEF CInv

LEMMA CInvNext == TInv /\ CInv /\ [Next]_vars => CInv'
<1> SUFFICES ASSUME TInv, CInv, [Next]_vars PROVE CInv'
  OBVIOUS
<1>1. ASSUME NEW r \in Reqs,
             \/ Arrive(r) \/ Touch(r) \/ ReadRow(r) \/ RefuseJoin(r) \/ Sift(r)
             \/ FailAndTell(r) \/ FailUnnoticed(r) \/ Answer(r)
             \/ LookMembers(r) \/ WriteJoin(r) \/ WriteLeave(r)
      PROVE  CInv'
  <2>1. CalmChat(r)
    BY <1>1, CalmIsCalmChat, ArriveCalm, TouchCalm, ReadRowCalm, RefuseJoinCalm,
       SiftCalm, FailAndTellCalm, FailUnnoticedCalm, AnswerCalm, LookMembersCalmChat,
       WriteMemberCalmChat
  <2>2. UNCHANGED <<chat, gotChat, late>>
    BY <1>1 DEF Arrive, Touch, ReadRow, RefuseJoin, Sift, FailAndTell, FailUnnoticed,
       Answer, LookMembers, WriteJoin, WriteLeave, dbVars, gotVars
  <2>4. chatCache'.on => chatCache' = chatCache
    <3>1. chatCache' = NoEntry \/ chatCache' = chatCache
      BY <1>1 DEF Arrive, Touch, ReadRow, RefuseJoin, Sift, FailAndTell, FailUnnoticed,
         Answer, LookMembers, WriteJoin, WriteLeave, cacheVars
    <3> QED
      BY <3>1 DEF NoEntry
  <2>3. step[r] # "uncache"
    BY <1>1 DEF Arrive, Touch, ReadRow, RefuseJoin, Sift, FailAndTell, FailUnnoticed,
       Answer, LookMembers, WriteJoin, WriteLeave, ReadsChat, ReadsMembers
  <2> QED
    BY <2>1, <2>2, <2>3, <2>4, ChatQuiet, NotAnnouncing
<1>2. ASSUME NEW r \in Reqs, FillMembers(r) \/ UncacheMembers(r) PROVE CInv'
  <2>1. CalmChat(r)
    BY <1>2, CalmIsCalmChat, FillMembersCalm, UncacheMembersCalm
  <2>2. UNCHANGED <<chat, gotChat, chatCache>>
    BY <1>2 DEF FillMembers, UncacheMembers, dbVars
  <2>4. \A q \in Reqs \ {r} : late[q] => late'[q]
    <3>1. CASE FillMembers(r)
      BY <3>1 DEF FillMembers, TInv, Types
    <3>2. CASE UncacheMembers(r)
      BY <3>2 DEF UncacheMembers
    <3> QED
      BY <1>2, <3>1, <3>2
  <2>3. ~Announcing(r, {"update"})
    BY <1>2 DEF FillMembers, UncacheMembers, Reading, Announcing
  <2> QED
    BY <2>1, <2>2, <2>3, <2>4, ChatQuiet
<1>5. ASSUME NEW r \in Reqs, FailUnconfirmed(r), Call(r) \in {"join", "leave"}
      PROVE  CInv'
  <2>1. CalmChat(r)
    BY <1>5, CalmIsCalmChat, FailUnconfirmedCalm
  <2>2. /\ UNCHANGED <<chat, gotChat, chatCache>>
        /\ \A q \in Reqs : late[q] => late'[q]
    BY <1>5 DEF FailUnconfirmed, dbVars
  <2> QED
    BY <1>5, <2>1, <2>2, ChatQuiet, NotAnnouncing
<1>6. ASSUME NEW r \in Reqs, FailUnconfirmed(r) PROVE CInv'
  BY <1>5, <1>6, ChangeEndsChat DEF FailUnconfirmed
<1>3. CASE Crash
  BY <1>3 DEF Crash, CInv, NoEntry, Reading
<1>4. CASE ExpireMembers \/ ExpireChat \/ Remove \/ UNCHANGED vars
  <2>1. /\ UNCHANGED <<chat, op, at, step, gotChat, late>>
        /\ chatCache'.on => chatCache' = chatCache
    BY <1>4 DEF ExpireMembers, ExpireChat, Remove, vars, dbVars, cacheVars,
       gotVars, NoEntry
  <2>2. \A r \in Reqs : \A calls : Reading(r, calls)' = Reading(r, calls)
        /\ Announcing(r, calls)' = Announcing(r, calls)
    BY <2>1 DEF Reading, Announcing, Call, Kind
  <2>3. ChatChanging' = ChatChanging
    BY <2>2 DEF ChatChanging
  <2> QED
    BY <2>1, <2>2, <2>3 DEF CInv
<1> QED
  BY <1>1, <1>2, <1>3, <1>4, <1>6, LookChatChat, FillChatChat, UpdateChat, ChangeEndsChat
     DEF Next, Run

LEMMA CInvInit == Init => CInv
  BY DEF Init, CInv, NoEntry, Reading

\* The cached chat is the row, unless a change has yet to drop it, or it was read
\* before a change and cached after it or kept by one that was reported as failed.
THEOREM ChatAccounted == Spec => []ChatCacheAccounted
<1>1. Init => TInv /\ CInv
  BY TInvInit, CInvInit
<1>2. TInv /\ CInv /\ [Next]_vars => (TInv /\ CInv)'
  BY TInvNext, CInvNext
<1>3. CInv => ChatCacheAccounted
  BY DEF CInv, ChatCacheAccounted
<1> QED
  BY <1>1, <1>2, <1>3, PTL DEF Spec

-----------------------------------------------------------------------------
(* Pinned messages.                                                        *)

\* what r goes on from, if nobody has changed the chat since it was read
BaseOK(r) ==
  IF Kind(r) = "pin" /\ step[r] = "write"
    THEN Cardinality(chat.pinned) <= MaxPins => chat.pinned \ held[r].pinned \subseteq gone
    ELSE held[r].pinned = chat.pinned

PInv == \A r \in Reqs : Basing(r) /\ ~behind[r] => BaseOK(r)

LEMMA OtherBase ==
  ASSUME NEW r \in Reqs, Apart(r), NEW q \in Reqs \ {r}
  PROVE  Basing(q)' = Basing(q)
  BY OtherCall DEF Basing, Apart

\* a step of r after which r is not about to change the row
LEMMA PinsQuiet ==
  ASSUME PInv, NEW r \in Reqs, Apart(r), ~Basing(r)', chat' = chat, gone \subseteq gone',
         \A q \in Reqs \ {r} : held'[q] = held[q] /\ behind'[q] = behind[q]
  PROVE  PInv'
<1>1. ASSUME NEW q \in Reqs \ {r}, Basing(q), ~behind[q] PROVE BaseOK(q)'
  <2>1. BaseOK(q) /\ Kind(q)' = Kind(q) /\ step'[q] = step[q]
    BY <1>1, OtherCall DEF PInv, Apart
  <2> QED
    BY <2>1 DEF BaseOK
<1> QED
  BY <1>1, OtherBase DEF PInv

\* the row is changed in the second call only
LEMMA ProceedNotBasing ==
  ASSUME TInv, NEW r \in Reqs, Proceed(r), op'[r] = op[r], at[r] # 1
  PROVE  ~Basing(r)'
<1> DEFINE s == Script[Kind(r)]
<1>1. /\ Kind(r) \in Kinds /\ ScriptIs(Kind(r), s) /\ at[r] \in 1 .. Len(s)
      /\ Kind(r)' = Kind(r)
  BY CallFacts, TInvImplies DEF TypeOK, Kind
<1>2. \/ step'[r] = "answer"
      \/ at'[r] = at[r] + 1 /\ at[r] + 1 \in 1 .. Len(s)
  BY ProceedFacts, TInvImplies DEF TypeOK
<1>3. Call(r)' = s[at'[r]]
  BY <1>1 DEF Call
<1> HIDE DEF s
<1>4. CASE at'[r] = at[r] + 1 /\ at[r] + 1 \in 1 .. Len(s)
  BY <1>1, <1>3, <1>4 DEF ScriptIs, Basing
<1> QED
  BY <1>2, <1>4 DEF Basing

LEMMA NextUserNotBasing ==
  ASSUME TInv, NEW r \in Reqs, NEW u, NextUser(r, u), op'[r] = op[r],
         Call(r) \in {"join", "leave"}
  PROVE  ~Basing(r)'
<1>1. CASE Proceed(r)
  <2>1. at[r] # 1
    BY CallFacts, TInvImplies DEF TypeOK
  <2> QED
    BY <1>1, <2>1, ProceedNotBasing
<1>2. CASE Stay(r, First(Call(r), Kind(r)))
  <2>1. at' = at
    BY <1>2 DEF Stay
  <2>2. Call(r)' = Call(r)
    BY <2>1 DEF Call, Kind
  <2> QED
    BY <2>2 DEF Basing
<1> QED
  BY <1>1, <1>2 DEF NextUser

\* the chat that r goes on from is the row
LEMMA HoldPins ==
  ASSUME TInv, PInv, NEW r \in Reqs, Apart(r), op'[r] = op[r], Call(r) \in ChatCalls,
         NEW c \in Chat, NEW stale \in BOOLEAN, Hold(r, c, stale),
         UNCHANGED <<chat, gone>>,
         ~stale /\ ~ChatChanging => c = chat
  PROVE  PInv'
<1>1. /\ held'[r] = c /\ behind'[r] = (Call(r) = "base" /\ (stale \/ ChatChanging))
      /\ \A q \in Reqs \ {r} : held'[q] = held[q] /\ behind'[q] = behind[q]
  BY DEF Hold, TInv, Types
<1>2. CASE Call(r) = "base"
  <2>1. Basing(r)' /\ ~behind'[r] => BaseOK(r)'
    <3> SUFFICES ASSUME Basing(r)', ~behind'[r] PROVE BaseOK(r)'
      OBVIOUS
    <3>1. c = chat
      BY <1>1, <1>2
    <3>2. ~(Kind(r)' = "pin" /\ step'[r] = "write")
      <4>1. Kind(r)' = Kind(r) /\ Kind(r) \in Kinds
        BY CallFacts, TInvImplies DEF TypeOK, Kind
      <4>2. Proceed(r)
        BY <1>2 DEF Hold, Stay, Basing, TInv, Types
      <4>3. step'[r] = First(Script[Kind(r)][at[r] + 1], Kind(r))
            /\ at'[r] = at[r] + 1
        BY <4>2, ProceedFacts, TInvImplies DEF TypeOK, Basing
      <4>4. Call(r)' = Script[Kind(r)][at[r] + 1] /\ Call(r)' = "update"
        BY <4>1, <4>3 DEF Call, Basing
      <4>5. "update" \in Calls
        BY DEF Calls
      <4> QED
        BY <4>1, <4>3, <4>4, <4>5, FirstFacts
    <3> QED
      BY <1>1, <3>1, <3>2 DEF BaseOK
  <2>2. ASSUME NEW q \in Reqs \ {r}, Basing(q), ~behind[q] PROVE BaseOK(q)'
    <3>1. BaseOK(q) /\ Kind(q)' = Kind(q) /\ step'[q] = step[q]
      BY <2>2, OtherCall DEF PInv, Apart
    <3> QED
      BY <1>1, <3>1 DEF BaseOK
  <2> QED
    BY <1>1, <2>1, <2>2, OtherBase DEF PInv
<1>3. CASE Call(r) # "base"
  <2>1. at[r] # 1
    BY <1>3, CallFacts, TInvImplies DEF TypeOK
  <2>2. ~Basing(r)'
    BY <1>3, <2>1, ProceedNotBasing DEF Hold
  <2> QED
    BY <1>1, <2>2, PinsQuiet
<1> QED
  BY <1>2, <1>3

LEMMA LookChatPins ==
  ASSUME TInv, CInv, PInv, NEW r \in Reqs, LookChat(r) PROVE PInv'
<1>1. /\ UNCHANGED <<chat, gone, op>> /\ Apart(r) /\ Call(r) \in ChatCalls
  BY LookChatTInv DEF LookChat, dbVars
<1>2. CASE chatCache.on
  <2>1. Hold(r, chatCache.chat, chatCache.late)
    BY <1>2 DEF LookChat
  <2>2. chatCache.chat \in Chat /\ chatCache.late \in BOOLEAN
    BY DEF TInv, Types
  <2>3. ~chatCache.late /\ ~ChatChanging => chatCache.chat = chat
    BY <1>2 DEF CInv
  <2> QED
    BY <1>1, <2>1, <2>2, <2>3, HoldPins
<1>3. CASE ~chatCache.on
  <2>1. step'[r] = "fill" /\ UNCHANGED <<held, behind>>
    BY <1>3, StayFacts DEF LookChat, TInv, Steps
  <2> QED
    BY <1>1, <2>1, PinsQuiet DEF Basing
<1> QED
  BY <1>2, <1>3

LEMMA FillChatPins ==
  ASSUME TInv, CInv, PInv, NEW r \in Reqs, FillChat(r) PROVE PInv'
<1>1. /\ UNCHANGED <<chat, gone, op>> /\ Apart(r) /\ Call(r) \in ChatCalls
      /\ Hold(r, gotChat[r], late[r])
  BY FillChatTInv DEF FillChat, Reading, dbVars
<1>2. gotChat[r] \in Chat /\ late[r] \in BOOLEAN
  BY DEF TInv, Types
<1>3. ~late[r] /\ ~ChatChanging => gotChat[r] = chat
  BY DEF FillChat, CInv
<1> QED
  BY <1>1, <1>2, <1>3, HoldPins

\* few enough messages are all gone on from
LEMMA LowestIsAll ==
  ASSUME NEW S \in SUBSET Nat, IsFiniteSet(S), NEW n \in Nat, Cardinality(S) <= n
  PROVE  Lowest(S, n) = S
<1>1. ASSUME NEW m \in S PROVE Cardinality({k \in S : k < m}) < n
  <2> DEFINE L == {k \in S : k < m}
  <2>1. L \subseteq S \ {m}
    OBVIOUS
  <2>2. IsFiniteSet(S \ {m}) /\ Cardinality(S \ {m}) = Cardinality(S) - 1
    BY FS_RemoveElement
  <2>3. Cardinality(L) <= Cardinality(S) - 1 /\ Cardinality(L) \in Nat
    BY <2>1, <2>2, FS_Subset, FS_CardinalityType
  <2>4. Cardinality(S) \in Nat
    BY FS_CardinalityType
  <2> QED
    BY <2>3, <2>4
<1> QED
  BY <1>1 DEF Lowest

LEMMA SiftPins ==
  ASSUME TInv, PInv, NEW r \in Reqs, Sift(r) PROVE PInv'
<1>1. /\ UNCHANGED <<chat, gone, op, at, behind>> /\ Apart(r) /\ step[r] = "sift"
      /\ step'[r] = "write" /\ Kind(r) = "pin"
      /\ held' = [held EXCEPT ![r].pinned = Lowest(held[r].pinned \ gone, MaxPins)]
  BY SiftTInv, StayFacts DEF Sift, dbVars, TInv, Steps, CallOK
<1>2. /\ held'[r].pinned = Lowest(held[r].pinned \ gone, MaxPins)
      /\ \A q \in Reqs \ {r} : held'[q] = held[q]
  BY <1>1 DEF TInv, Types, Chat
<1>3. Basing(r)' = Basing(r) /\ Basing(r) /\ Kind(r)' = "pin"
  <2>1. Call(r)' = Call(r) /\ Call(r) = "update"
    BY <1>1 DEF Call, Kind, TInv, CallOK
  <2> QED
    BY <1>1, <2>1 DEF Basing, Kind
<1>4. ASSUME ~behind[r], Cardinality(chat.pinned) <= MaxPins
      PROVE  chat.pinned \ held'[r].pinned \subseteq gone
  <2> DEFINE S == chat.pinned \ gone
  <2>1. held[r].pinned = chat.pinned
    BY <1>1, <1>3, <1>4 DEF PInv, BaseOK
  <2>2. IsFiniteSet(chat.pinned)
    BY GroupChatAssumption, FS_Subset DEF TInv, Types, Chat
  <2>3. IsFiniteSet(S) /\ Cardinality(S) <= Cardinality(chat.pinned)
    BY <2>2, FS_Subset
  <2>4. Cardinality(S) \in Nat /\ Cardinality(chat.pinned) \in Nat
    BY <2>2, <2>3, FS_CardinalityType
  <2>5. Cardinality(S) <= MaxPins /\ MaxPins \in Nat
    BY <1>4, <2>3, <2>4, GroupChatAssumption
  <2>6. Lowest(S, MaxPins) = S
    BY <2>3, <2>5, LowestIsAll, GroupChatAssumption DEF TInv, Types, Chat
  <2> QED
    BY <1>2, <2>1, <2>6
<1>5. Basing(r)' /\ ~behind'[r] => BaseOK(r)'
  BY <1>1, <1>3, <1>4 DEF BaseOK
<1>6. ASSUME NEW q \in Reqs \ {r}, Basing(q), ~behind[q] PROVE BaseOK(q)'
  <2>1. BaseOK(q) /\ Kind(q)' = Kind(q) /\ step'[q] = step[q]
    BY <1>1, <1>6, OtherCall DEF PInv, Apart
  <2> QED
    BY <1>1, <1>2, <2>1 DEF BaseOK
<1> QED
  BY <1>1, <1>5, <1>6, OtherBase DEF PInv

\* whoever else was about to change the row is behind from now on
LEMMA UpdatePins ==
  ASSUME TInv, PInv, NEW r \in Reqs, Update(r) PROVE PInv'
<1>1. /\ Apart(r) /\ step'[r] = "uncache"
      /\ behind' = [q \in Reqs |-> q # r /\ (behind[q] \/ Basing(q))]
  BY UpdateTInv, StayFacts DEF Update, TInv, Steps
<1>2. ASSUME NEW q \in Reqs, Basing(q)', ~behind'[q] PROVE FALSE
  <2>1. q # r
    BY <1>1, <1>2 DEF Basing
  <2>2. Basing(q)
    BY <1>1, <1>2, <2>1, OtherBase
  <2> QED
    BY <1>1, <1>2, <2>1, <2>2
<1> QED
  BY <1>2 DEF PInv

LEMMA PInvNext == TInv /\ CInv /\ PInv /\ [Next]_vars => PInv'
<1> SUFFICES ASSUME TInv, CInv, PInv, [Next]_vars PROVE PInv'
  OBVIOUS
<1>1. ASSUME NEW r \in Reqs,
             \/ Arrive(r) \/ Answer(r) \/ Touch(r) \/ RefuseJoin(r) \/ FailAndTell(r)
             \/ FailUnconfirmed(r) \/ WriteLeave(r) \/ WriteJoin(r)
      PROVE  PInv'
  <2>1. Apart(r)
    BY <1>1, ArriveTInv, AnswerTInv, TouchTInv, RefuseJoinTInv, FailAndTellTInv,
       FailUnconfirmedTInv, WriteLeaveTInv, WriteJoinTInv
  <2>2. step'[r] \in {"look", "idle", "row", "fail", "uncache"}
    BY <1>1, StayFacts DEF Arrive, Answer, Touch, RefuseJoin, FailAndTell,
       FailUnconfirmed, WriteLeave, WriteJoin, Steps, TInv, Types
  <2>3. /\ UNCHANGED <<chat, gone>>
        /\ \A q \in Reqs \ {r} : held'[q] = held[q] /\ behind'[q] = behind[q]
    BY <1>1 DEF Arrive, Answer, Touch, RefuseJoin, FailAndTell, FailUnconfirmed,
       WriteLeave, WriteJoin, dbVars, TInv, Types
  <2> QED
    BY <2>1, <2>2, <2>3, PinsQuiet DEF Basing
<1>2. ASSUME NEW r \in Reqs,
             LookMembers(r) \/ FillMembers(r) \/ FailUnnoticed(r) \/ UncacheChat(r)
      PROVE  PInv'
  <2>1. Apart(r)
    BY <1>2, LookMembersTInv, FillMembersTInv, FailUnnoticedTInv, UncacheChatTInv
  <2>2. UNCHANGED <<chat, gone, op, held, behind>>
    BY <1>2 DEF LookMembers, FillMembers, FailUnnoticed, UncacheChat, dbVars
  <2>3. Call(r) \in MemberCalls \/ Call(r) = "update"
    BY <1>2 DEF LookMembers, FillMembers, FailUnnoticed, UncacheChat, Reading,
       Announcing, ReadsMembers
  <2>4. at[r] # 1
    BY <2>3, CallFacts, TInvImplies DEF TypeOK, MemberCalls
  <2>5. Proceed(r) \/ step'[r] = "fill"
    BY <1>2, StayFacts DEF LookMembers, FillMembers, FailUnnoticed, UncacheChat,
       TInv, Steps
  <2>6. ~Basing(r)'
    BY <2>2, <2>4, <2>5, ProceedNotBasing DEF Basing
  <2> QED
    BY <2>1, <2>2, <2>6, PinsQuiet
<1>3. ASSUME NEW r \in Reqs, ReadRow(r) \/ UncacheMembers(r) PROVE PInv'
  <2>1. Apart(r) /\ UNCHANGED <<chat, gone, op, held, behind>>
        /\ Call(r) \in {"join", "leave"}
    BY <1>3, ReadRowTInv, UncacheMembersTInv
       DEF ReadRow, UncacheMembers, Announcing, dbVars, TInv, CallOK
  <2>2. (\E u : NextUser(r, u)) \/ Stay(r, "write")
    BY <1>3 DEF ReadRow, UncacheMembers
  <2>3. CASE Stay(r, "write")
    <3>1. Call(r)' = Call(r)
      BY <2>1, <2>3 DEF Stay, Call, Kind
    <3> QED
      BY <2>1, <3>1, PinsQuiet DEF Basing
  <2> QED
    BY <2>1, <2>2, <2>3, NextUserNotBasing, PinsQuiet
<1>4. CASE Crash
  BY <1>4 DEF Crash, PInv, Basing
<1>5. CASE ExpireMembers \/ ExpireChat \/ Remove \/ UNCHANGED vars
  <2>1. /\ UNCHANGED <<chat, op, at, step, held, behind>> /\ gone \subseteq gone'
    BY <1>5 DEF ExpireMembers, ExpireChat, Remove, vars, dbVars
  <2> QED
    BY <2>1 DEF PInv, Basing, Call, Kind, BaseOK
<1> QED
  BY <1>1, <1>2, <1>3, <1>4, <1>5, LookChatPins, FillChatPins, SiftPins, UpdatePins
     DEF Next, Run

\* the row of the chat is written by Update alone
LEMMA OnlyUpdate ==
  ASSUME TInv, Next, NEW r \in Reqs,
         Call(r) = "update", step[r] = "write", step'[r] = "uncache"
  PROVE  Update(r)
<1>1. ASSUME NEW q \in Reqs,
             Arrive(q) \/ Run(q) \/ FailAndTell(q) \/ FailUnconfirmed(q) \/ FailUnnoticed(q)
      PROVE  Apart(q)
  BY <1>1, ArriveTInv, LookChatTInv, FillChatTInv, LookMembersTInv, FillMembersTInv,
     TouchTInv, ReadRowTInv, RefuseJoinTInv, WriteJoinTInv, WriteLeaveTInv,
     UncacheMembersTInv, SiftTInv, UpdateTInv, UncacheChatTInv, AnswerTInv,
     FailAndTellTInv, FailUnconfirmedTInv, FailUnnoticedTInv DEF Run
<1>2. ~(Crash \/ ExpireMembers \/ ExpireChat \/ Remove)
  BY DEF Crash, ExpireMembers, ExpireChat, Remove
<1>3. PICK q \in Reqs :
        Arrive(q) \/ Run(q) \/ FailAndTell(q) \/ FailUnconfirmed(q) \/ FailUnnoticed(q)
  BY <1>2 DEF Next
<1>4. q = r
  BY <1>1, <1>3 DEF Apart
<1>5. ~FailAndTell(r)
  BY StayFacts DEF FailAndTell, TInv, Steps
<1>6. ~(Arrive(r) \/ FailUnconfirmed(r) \/ FailUnnoticed(r) \/ LookChat(r)
        \/ FillChat(r) \/ LookMembers(r) \/ FillMembers(r) \/ Touch(r) \/ ReadRow(r)
        \/ UncacheMembers(r) \/ Sift(r) \/ UncacheChat(r) \/ Answer(r))
  BY DEF Arrive, FailUnconfirmed, FailUnnoticed, ReadsMembers, LookChat, FillChat, LookMembers,
     FillMembers, Reading, Touch, ReadRow, UncacheMembers, Announcing, Sift,
     UncacheChat, Answer
<1>7. ~(RefuseJoin(r) \/ WriteJoin(r) \/ WriteLeave(r))
  BY DEF RefuseJoin, WriteJoin, WriteLeave
<1> QED
  BY <1>3, <1>4, <1>5, <1>6, <1>7 DEF Run

LEMMA UpdateKeepsPins ==
  ASSUME TInv, PInv, NEW r \in Reqs, Update(r), ~behind[r],
         Cardinality(chat.pinned) <= MaxPins
  PROVE  chat.pinned \ chat'.pinned \subseteq
           gone \cup (IF Kind(r) = "unpin" THEN op[r].msgs ELSE {})
<1>1. chat' = Updated(r) /\ chat \in Chat /\ BaseOK(r) /\ step[r] = "write"
  BY DEF Update, PInv, Basing, TInv, Types
<1>2. Kind(r) \in {"dismiss", "rename", "pin", "unpin"}
  BY CallFacts, TInvImplies DEF TypeOK, Update
<1>3. CASE Kind(r) \in {"dismiss", "rename"}
  <2>1. chat'.pinned = chat.pinned
    BY <1>1, <1>3 DEF Updated, Chat
  <2> QED
    BY <2>1
<1>4. CASE Kind(r) = "pin"
  <2>1. chat'.pinned = held[r].pinned \cup op[r].msgs
    BY <1>1, <1>4 DEF Updated, Chat
  <2>2. chat.pinned \ held[r].pinned \subseteq gone
    BY <1>1, <1>4 DEF BaseOK
  <2> QED
    BY <2>1, <2>2
<1>5. CASE Kind(r) = "unpin"
  <2>1. chat'.pinned = held[r].pinned \ op[r].msgs
    BY <1>1, <1>5 DEF Updated, Chat
  <2>2. held[r].pinned = chat.pinned
    BY <1>1, <1>5 DEF BaseOK
  <2> QED
    BY <1>5, <2>1, <2>2
<1> QED
  BY <1>2, <1>3, <1>4, <1>5

\* A request that goes on from a chat which nobody has changed since it was read,
\* be it with an error, drops no pinned message but those it unpins and those that
\* are gone, as long as there are not too many.
THEOREM PinsAreKept == Spec => PinsKept
<1>1. Init => TInv /\ CInv /\ PInv
  <2>1. Init => PInv
    BY DEF Init, PInv, Basing
  <2> QED
    BY <2>1, TInvInit, CInvInit
<1>2. TInv /\ CInv /\ PInv /\ [Next]_vars => (TInv /\ CInv /\ PInv)'
  BY TInvNext, CInvNext, PInvNext
<1>3. TInv /\ PInv /\ [Next]_vars =>
        [\A r \in Reqs :
           /\ Call(r) = "update" /\ step[r] = "write" /\ step'[r] = "uncache"
           /\ ~behind[r] /\ Cardinality(chat.pinned) <= MaxPins
           => chat.pinned \ chat'.pinned \subseteq
                gone \cup (IF Kind(r) = "unpin" THEN op[r].msgs ELSE {})]_vars
  <2> SUFFICES ASSUME TInv, PInv, Next, NEW r \in Reqs,
                      Call(r) = "update", step[r] = "write", step'[r] = "uncache",
                      ~behind[r], Cardinality(chat.pinned) <= MaxPins
               PROVE  chat.pinned \ chat'.pinned \subseteq
                        gone \cup (IF Kind(r) = "unpin" THEN op[r].msgs ELSE {})
    OBVIOUS
  <2> QED
    BY OnlyUpdate, UpdateKeepsPins
<1> QED
  BY <1>1, <1>2, <1>3, PTL DEF Spec, PinsKept

-----------------------------------------------------------------------------
(* GroupChat implements Membership. A request has taken effect on whom it  *)
(* names but for those it has left, and none is left when the call is over *)
(* that joins them or takes them out.                                      *)

MemberKinds == {"join", "invite", "leave", "kick"}

MOK(r) ==
  /\ op[r] \in Ops \cup {NoOp}
  /\ step[r] = "idle" => op[r] = NoOp /\ done[r] = {}
  /\ done[r] \cup todo[r] = Aims(op[r])
  /\ at[r] > 2 \/ step[r] = "answer" => todo[r] = {}
  /\ step[r] = "uncache" /\ Call(r) # "update" => user[r] \in done[r]

MInv == \A r \in Reqs : MOK(r)

LEMMA MInvStep ==
  ASSUME MInv, NEW r \in Reqs, Apart(r), MOK(r)',
         \A q \in Reqs \ {r} : done'[q] = done[q]
  PROVE  MInv'
<1>1. ASSUME NEW q \in Reqs \ {r} PROVE MOK(q)'
  BY OtherCall DEF MInv, MOK, Apart
<1> QED
  BY <1>1 DEF MInv

\* the other requests name nobody
LEMMA NobodyLeft ==
  ASSUME NEW r \in Reqs, MOK(r), Kind(r) \notin MemberKinds PROVE todo[r] = {}
<1>1. op[r].users = {}
  BY GroupChatAssumption DEF MOK, NoOp, Kind, MemberKinds
<1> QED
  BY <1>1 DEF MOK, Aims, Kind, MemberKinds

LEMMA ProceedMOK ==
  ASSUME TInv, NEW r \in Reqs, MOK(r), Proceed(r), Call(r) \notin {"join", "leave"},
         op'[r] = op[r], todo'[r] = todo[r], done'[r] = done[r]
  PROVE  MOK(r)'
<1> DEFINE s == Script[Kind(r)]
<1>1. /\ Kind(r) \in Kinds /\ ScriptIs(Kind(r), s) /\ at[r] \in 1 .. Len(s)
      /\ Call(r) = s[at[r]] /\ at[r] \in Nat
      /\ Call(r) = "base" <=> at[r] = 1
      /\ Call(r) = "join" <=> at[r] = 2 /\ Kind(r) \in {"join", "invite"}
      /\ Call(r) = "leave" <=> at[r] = 2 /\ Kind(r) \in {"leave", "kick"}
  BY CallFacts, TInvImplies DEF TypeOK
<1>2. \/ LastCall(r) /\ step'[r] = "answer" /\ at'[r] = at[r]
      \/ /\ ~LastCall(r) /\ at[r] + 1 \in 1 .. Len(s)
         /\ at'[r] = at[r] + 1 /\ step'[r] = First(s[at[r] + 1], Kind(r))
  BY ProceedFacts, TInvImplies DEF TypeOK
<1>3. LastCall(r) => Call(r) \in {"users", "data"} \/ at[r] = Len(s)
  BY DEF LastCall
<1> HIDE DEF s
<1>4. step'[r] \notin {"idle", "uncache"}
  BY <1>1, <1>2, FirstFacts DEF ScriptIs
<1>5. at'[r] > 2 \/ step'[r] = "answer" => todo[r] = {}
  <2>1. CASE Kind(r) \notin MemberKinds
    BY <2>1, NobodyLeft
  <2>2. CASE at[r] > 2
    BY <2>2 DEF MOK
  <2>3. CASE Kind(r) \in MemberKinds /\ at[r] = 1
    <3>1. step'[r] # "answer" /\ at'[r] = 2
      BY <1>1, <1>2, <1>3, <2>3, FirstFacts DEF ScriptIs
    <3> QED
      BY <3>1
  <2> QED
    BY <1>1, <2>1, <2>2, <2>3 DEF MemberKinds
<1> QED
  BY <1>4, <1>5 DEF MOK

LEMMA StayMOK ==
  ASSUME TInv, NEW r \in Reqs, MOK(r), NEW t \in Steps, Stay(r, t),
         t \notin {"idle", "answer"},
         t = "uncache" /\ Call(r) # "update" => user'[r] \in done'[r],
         op'[r] = op[r], todo'[r] = todo[r], done'[r] \cup todo[r] = done[r] \cup todo[r]
  PROVE  MOK(r)'
<1>1. at'[r] = at[r] /\ step'[r] = t
  BY StayFacts DEF TInv
<1>2. Call(r)' = Call(r)
  BY <1>1 DEF Call, Kind
<1> QED
  BY <1>1, <1>2 DEF MOK

\* after the last user the handler goes on to its third call
LEMMA NextUserMOK ==
  ASSUME TInv, NEW r \in Reqs, MOK(r), NEW u \in todo[r], NextUser(r, u),
         Call(r) \in {"join", "leave"}, op'[r] = op[r], done'[r] = done[r] \cup {u}
  PROVE  MOK(r)' /\ step'[r] \notin {"answer", "fail"}
<1>1. /\ Kind(r) \in Kinds /\ ScriptIs(Kind(r), Script[Kind(r)]) /\ at[r] = 2
      /\ Kind(r) \in MemberKinds /\ Call(r) \in Calls
  BY CallFacts, TInvImplies DEF TypeOK, MemberKinds
<1>2. todo'[r] = todo[r] \ {u}
  BY DEF NextUser, TInv, Types
<1>3. CASE todo[r] = {u}
  <2>1. ~LastCall(r)
    BY <1>1 DEF LastCall, ScriptIs, MemberKinds
  <2>2. step'[r] = First(Script[Kind(r)][at[r] + 1], Kind(r)) /\ at[r] + 1 \in 1 .. Len(Script[Kind(r)])
    BY <1>3, <2>1, ProceedFacts, TInvImplies DEF TypeOK, NextUser
  <2>3. step'[r] \in {"look", "touch", "sift", "write"}
    BY <1>1, <2>2, FirstFacts DEF ScriptIs
  <2> QED
    BY <1>2, <1>3, <2>3 DEF MOK
<1>4. CASE todo[r] # {u}
  <2>1. Stay(r, First(Call(r), Kind(r)))
    BY <1>4 DEF NextUser
  <2>2. First(Call(r), Kind(r)) \in {"look", "touch", "sift", "write"}
    BY <1>1, FirstFacts
  <2>3. at'[r] = 2 /\ step'[r] \in {"look", "touch", "sift", "write"}
    BY <1>1, <2>1, <2>2, StayFacts DEF TInv, Steps
  <2> QED
    BY <1>2, <2>3 DEF MOK
<1> QED
  BY <1>3, <1>4

-----------------------------------------------------------------------------
(* The steps as steps of Membership.                                       *)

Res(r) == CASE step[r] = "answer" -> "success"
            [] step[r] = "fail" -> "fail"
            [] OTHER -> "none"
Over == {"answer", "fail"}
MapsOn == Promise!Next \/ UNCHANGED Promise!memVars

LEMMA ResFacts ==
  ASSUME NEW r \in Reqs
  PROVE  /\ step[r] \notin Over <=> Res(r) = "none"
         /\ step'[r] \notin Over <=> Res(r)' = "none"
         /\ step'[r] = "answer" <=> Res(r)' = "success"
         /\ step'[r] = "fail" <=> Res(r)' = "fail"
         /\ step'[r] = step[r] => Res(r)' = Res(r)
  BY DEF Res, Over

LEMMA AnAnswer ==
  ASSUME NEW r \in Reqs, NEW w \in {"success", "fail"}, UNCHANGED <<rows, op, done>>,
         Res(r) = "none", Res(r)' = w, \A q \in Reqs \ {r} : Res(q)' = Res(q),
         w = "success" => done[r] = Task(op[r]).users
  PROVE  MapsOn
<1>1. [q \in Reqs |-> Res(q)'] = [[q \in Reqs |-> Res(q)] EXCEPT ![r] = w]
  OBVIOUS
<1>2. Promise!Answer(r, w)
  BY <1>1 DEF Promise!Answer, Res, Members
<1> QED
  BY <1>2 DEF MapsOn, Promise!Next

\* a step that changes nobody's row ends the handler or maps to a stutter
LEMMA GoMaps ==
  ASSUME MInv', NEW r \in Reqs, Apart(r), UNCHANGED <<rows, op, done>>, step[r] \notin Over
  PROVE  MapsOn
<1>1. \A q \in Reqs \ {r} : Res(q)' = Res(q)
  BY DEF Apart, Res
<1>2. Res(r) = "none" /\ Members' = Members
  BY ResFacts DEF Members
<1>3. CASE step'[r] \notin Over
  <2>1. \A q \in Reqs : Res(q)' = Res(q)
    BY <1>1, <1>2, <1>3, ResFacts
  <2>2. UNCHANGED Promise!memVars
    BY <1>2, <2>1 DEF Promise!memVars, Res
  <2> QED
    BY <2>2 DEF MapsOn
<1>4. CASE step'[r] \in Over
  <2> DEFINE w == IF step'[r] = "answer" THEN "success" ELSE "fail"
  <2>1. w \in {"success", "fail"} /\ (w = "success" => step'[r] = "answer")
        /\ Res(r)' = w
    BY <1>4, ResFacts DEF Over
  <2>2. w = "success" => done[r] = Task(op[r]).users
    <3>1. w = "success" => done'[r] = Aims(op'[r])
      BY <2>1 DEF MInv, MOK
    <3> QED
      BY <3>1 DEF Task
  <2> HIDE DEF w
  <2> QED
    BY <1>1, <1>2, <2>1, <2>2, AnAnswer
<1> QED
  BY <1>3, <1>4

LEMMA EffectMaps ==
  ASSUME NEW r \in Reqs, NEW u \in Aims(op[r]), Apart(r), op' = op,
         step[r] \notin Over, step'[r] \notin Over,
         done' = [done EXCEPT ![r] = @ \cup {u}],
         Members' = IF Task(op[r]).aim = "in" THEN Members \cup {u} ELSE Members \ {u}
  PROVE  MapsOn
<1>1. \A q \in Reqs : Res(q)' = Res(q)
  BY ResFacts DEF Apart
<1>2. Res(r) = "none" /\ u \in Task(op[r]).users
  BY ResFacts DEF Task
<1>3. Promise!TakeEffect(r)
  BY <1>1, <1>2 DEF Promise!TakeEffect, Res
<1> QED
  BY <1>3 DEF MapsOn, Promise!Next

\* a step of a request, and what is left of it to do
MapsWell == MInv' /\ MapsOn

LEMMA GoMapsWell ==
  ASSUME MInv, NEW r \in Reqs, Apart(r), UNCHANGED <<rows, op, done>>,
         step[r] \notin Over, MOK(r)'
  PROVE  MapsWell
  BY MInvStep, GoMaps DEF MapsWell

LEMMA ProceedMaps ==
  ASSUME TInv, MInv, NEW r \in Reqs, Apart(r), UNCHANGED <<rows, op, todo, done>>,
         step[r] \notin Over, Call(r) \notin {"join", "leave"},
         Proceed(r) \/ Stay(r, "fail") \/ Stay(r, "fill")
  PROVE  MapsWell
<1>1. MOK(r)'
  BY ProceedMOK, StayMOK DEF MInv, Steps
<1> QED
  BY <1>1, GoMapsWell

LEMMA StayMaps ==
  ASSUME TInv, MInv, NEW r \in Reqs, Apart(r), UNCHANGED <<rows, op, todo, done>>,
         step[r] \notin Over, NEW t \in {"row", "write", "uncache", "fail"}, Stay(r, t),
         t = "uncache" => Call(r) = "update"
  PROVE  MapsWell
<1>1. MOK(r)'
  BY StayMOK DEF MInv, Steps
<1> QED
  BY <1>1, GoMapsWell

LEMMA ReadsMap ==
  ASSUME TInv, MInv, NEW r \in Reqs,
         \/ LookChat(r) \/ FillChat(r) \/ LookMembers(r) \/ FillMembers(r)
         \/ FailUnnoticed(r) \/ UncacheChat(r)
  PROVE  MapsWell
<1>1. Apart(r)
  BY LookChatTInv, FillChatTInv, LookMembersTInv, FillMembersTInv, FailUnnoticedTInv,
     UncacheChatTInv
<1>2. /\ UNCHANGED <<rows, op, todo, done>>
      /\ step[r] \notin Over /\ Call(r) \notin {"join", "leave"}
  BY DEF LookChat, FillChat, LookMembers, FillMembers, FailUnnoticed, UncacheChat,
     dbVars, callVars, pastVars, Over, Reading, Announcing, ReadsMembers, ChatCalls,
     MemberCalls
<1>3. Proceed(r) \/ Stay(r, "fail") \/ Stay(r, "fill")
  BY DEF LookChat, FillChat, LookMembers, FillMembers, FailUnnoticed, UncacheChat, Hold
<1> QED
  BY <1>1, <1>2, <1>3, ProceedMaps

LEMMA StaysMap ==
  ASSUME TInv, MInv, NEW r \in Reqs,
         \/ Touch(r) \/ RefuseJoin(r) \/ Sift(r) \/ Update(r)
         \/ FailAndTell(r) \/ FailUnconfirmed(r)
  PROVE  MapsWell
<1>1. Apart(r)
  BY TouchTInv, RefuseJoinTInv, SiftTInv, UpdateTInv, FailAndTellTInv, FailUnconfirmedTInv
<1>2. /\ UNCHANGED <<rows, op, todo, done>> /\ step[r] \notin Over
  BY DEF Touch, RefuseJoin, Sift, Update, FailAndTell, FailUnconfirmed, dbVars,
     callVars, pastVars, Over, ReadsChat, ReadsMembers
<1>3. \E t \in {"row", "write", "uncache", "fail"} :
        Stay(r, t) /\ (t = "uncache" => Call(r) = "update")
  BY DEF Touch, RefuseJoin, Sift, Update, FailAndTell, FailUnconfirmed
<1> QED
  BY <1>1, <1>2, <1>3, StayMaps

LEMMA ReadRowMaps ==
  ASSUME TInv, MInv, NEW r \in Reqs, ReadRow(r) PROVE MapsWell
<1>1. /\ Apart(r) /\ UNCHANGED <<rows, op>> /\ step[r] \notin Over /\ MOK(r)
      /\ Call(r) = "join" /\ Members' = Members
  BY ReadRowTInv DEF ReadRow, dbVars, Over, MInv, TInv, CallOK, Members
<1>2. CASE Stay(r, "write") /\ UNCHANGED <<todo, done>>
  BY <1>1, <1>2, StayMaps
<1>3. ASSUME NEW u \in todo[r], rows[u] = "in", NextUser(r, u),
             done' = [done EXCEPT ![r] = @ \cup {u}]
      PROVE  MapsWell
  <2>1. done'[r] = done[r] \cup {u} /\ \A q \in Reqs \ {r} : done'[q] = done[q]
    BY <1>3 DEF TInv, Types
  <2>2. MOK(r)' /\ step'[r] \notin Over
    BY <1>1, <1>3, <2>1, NextUserMOK DEF Over
  <2>3. u \in Aims(op[r]) /\ u \in Members /\ Task(op[r]).aim = "in"
    <3>1. Kind(r) \in {"join", "invite"}
      BY <1>1, CallFacts, TInvImplies DEF TypeOK
    <3> QED
      BY <1>1, <1>3, <3>1 DEF MOK, Members, Task, Kind, TInv, Types
  <2>4. MapsOn
    BY <1>1, <1>3, <2>2, <2>3, EffectMaps
  <2> QED
    BY <1>1, <2>1, <2>2, <2>4, MInvStep DEF MapsWell
<1> QED
  BY <1>2, <1>3 DEF ReadRow

LEMMA WriteJoinMaps ==
  ASSUME TInv, MInv, NEW r \in Reqs, WriteJoin(r) PROVE MapsWell
<1> DEFINE u == user[r]
<1>1. /\ Apart(r) /\ UNCHANGED <<op, todo, user>> /\ step[r] \notin Over /\ MOK(r)
      /\ Call(r) = "join" /\ Stay(r, "uncache") /\ u \in todo[r] /\ u \in Users
      /\ rows' = [rows EXCEPT ![u] = "in"] /\ done' = [done EXCEPT ![r] = @ \cup {u}]
  BY WriteJoinTInv DEF WriteJoin, Over, MInv, TInv, CallOK, Types
<1>2. Kind(r) \in {"join", "invite"}
  BY <1>1, CallFacts, TInvImplies DEF TypeOK
<1> HIDE DEF u
<1>3. u \in Aims(op[r]) /\ Task(op[r]).aim = "in"
  BY <1>1, <1>2 DEF MOK, Task, Kind
<1>4. Members' = Members \cup {u}
  BY <1>1 DEF Members, TInv, Types
<1>5. done'[r] = done[r] \cup {u} /\ \A q \in Reqs \ {r} : done'[q] = done[q]
  BY <1>1 DEF TInv, Types
<1>6. step'[r] \notin Over
  BY <1>1, StayFacts DEF TInv, Steps, Over
<1>7. MOK(r)'
  BY <1>1, <1>5, StayMOK DEF Steps, u
<1> QED
  BY <1>1, <1>3, <1>4, <1>5, <1>6, <1>7, EffectMaps, MInvStep DEF MapsWell

LEMMA WriteLeaveMaps ==
  ASSUME TInv, MInv, NEW r \in Reqs, WriteLeave(r) PROVE MapsWell
<1>1. PICK u \in todo[r] :
        /\ rows' = [rows EXCEPT ![u] = IF @ = "none" THEN "none" ELSE "out"]
        /\ user' = [user EXCEPT ![r] = u] /\ done' = [done EXCEPT ![r] = @ \cup {u}]
  BY DEF WriteLeave
<1>2. /\ Apart(r) /\ UNCHANGED <<op, todo>> /\ step[r] \notin Over /\ MOK(r)
      /\ Call(r) = "leave" /\ Stay(r, "uncache") /\ user'[r] = u /\ u \in Users
  <2>1. Apart(r)
    BY WriteLeaveTInv
  <2>2. user'[r] = u /\ u \in Users
    BY <1>1 DEF TInv, Types
  <2> QED
    BY <2>1, <2>2 DEF WriteLeave, Over, MInv
<1>3. Kind(r) \in {"leave", "kick"}
  BY <1>2, CallFacts, TInvImplies DEF TypeOK
<1>4. u \in Aims(op[r]) /\ Task(op[r]).aim = "out"
  BY <1>2, <1>3 DEF MOK, Task, Kind
<1>5. Members' = Members \ {u}
  BY <1>1, <1>2 DEF Members, TInv, Types
<1>6. done'[r] = done[r] \cup {u} /\ \A q \in Reqs \ {r} : done'[q] = done[q]
  BY <1>1 DEF TInv, Types
<1>7. step'[r] \notin Over
  BY <1>2, StayFacts DEF TInv, Steps, Over
<1>8. MOK(r)'
  BY <1>2, <1>6, StayMOK DEF Steps
<1> QED
  BY <1>1, <1>2, <1>4, <1>5, <1>6, <1>7, <1>8, EffectMaps, MInvStep DEF MapsWell

LEMMA UncacheMembersMaps ==
  ASSUME TInv, MInv, NEW r \in Reqs, UncacheMembers(r) PROVE MapsWell
<1>1. /\ Apart(r) /\ UNCHANGED <<rows, op, done>> /\ step[r] \notin Over /\ MOK(r)
      /\ Call(r) \in {"join", "leave"} /\ NextUser(r, user[r])
      /\ user[r] \in todo[r] /\ user[r] \in done[r]
  BY UncacheMembersTInv
     DEF UncacheMembers, Announcing, dbVars, pastVars, Over, MInv, MOK, TInv, CallOK
<1>2. MOK(r)'
  BY <1>1, NextUserMOK
<1> QED
  BY <1>1, <1>2, GoMapsWell

LEMMA ArriveMaps ==
  ASSUME TInv, MInv, NEW r \in Reqs, Arrive(r) PROVE MapsWell
<1>1. PICK o \in Ops : op' = [op EXCEPT ![r] = o] /\ todo' = [todo EXCEPT ![r] = Aims(o)]
  BY DEF Arrive
<1>2. /\ Apart(r) /\ step[r] = "idle" /\ step'[r] = "look" /\ at'[r] = 1
      /\ rows' = rows /\ op[r] = NoOp /\ done[r] = {} /\ done' = [done EXCEPT ![r] = {}]
  <2>1. Apart(r) /\ MOK(r)
    BY ArriveTInv DEF MInv
  <2>2. /\ step[r] = "idle" /\ step'[r] = "look" /\ at'[r] = 1
        /\ rows' = rows /\ done' = [done EXCEPT ![r] = {}]
    BY DEF Arrive, dbVars, TInv, Types
  <2> QED
    BY <2>1, <2>2 DEF MOK
<1>3. /\ op'[r] = o /\ todo'[r] = Aims(o) /\ done'[r] = {} /\ done' = done
  BY <1>1, <1>2 DEF TInv, Types
<1>4. MOK(r)'
  BY <1>2, <1>3 DEF MOK
<1>5. \A q \in Reqs : Res(q)' = Res(q)
  BY <1>2, ResFacts DEF Apart, Over
<1>6. Res(r) = "none" /\ Members' = Members
  BY <1>2, ResFacts DEF Over, Members
<1>7. Task(op[r]) = Promise!NoTask
  BY <1>2 DEF Task, NoOp, Aims, Promise!NoTask
<1>8. [q \in Reqs |-> Task(op'[q])] = [[q \in Reqs |-> Task(op[q])] EXCEPT ![r] = Task(o)]
  BY <1>1 DEF TInv, Types
<1>9. Promise!Ask(r)
  BY <1>3, <1>5, <1>6, <1>7, <1>8 DEF Promise!Ask, Res
<1> QED
  BY <1>2, <1>3, <1>4, <1>9, MInvStep DEF MapsWell, MapsOn, Promise!Next

LEMMA AnswerMaps ==
  ASSUME TInv, MInv, NEW r \in Reqs, Answer(r) PROVE MapsWell
<1>1. /\ Apart(r) /\ step[r] \in Over /\ step'[r] = "idle" /\ at'[r] = 1
      /\ rows' = rows /\ op' = [op EXCEPT ![r] = NoOp] /\ todo'[r] = {}
      /\ done' = [done EXCEPT ![r] = {}]
  <2>1. Apart(r)
    BY AnswerTInv
  <2> QED
    BY <2>1 DEF Answer, Over, dbVars, TInv, Types
<1>2. op'[r] = NoOp /\ done'[r] = {} /\ \A q \in Reqs \ {r} : done'[q] = done[q]
  BY <1>1 DEF TInv, Types
<1>3. MOK(r)'
  BY <1>1, <1>2, SMTT(30) DEF MOK, Aims, NoOp
<1>4. \A q \in Reqs \ {r} : Res(q)' = Res(q)
  BY <1>1, ResFacts DEF Apart
<1>5. Res(r) # "none" /\ Res(r)' = "none" /\ Members' = Members
  BY <1>1, ResFacts DEF Over, Members
<1>6. Task(NoOp) = Promise!NoTask
  BY DEF Task, NoOp, Aims, Promise!NoTask
<1>7. [q \in Reqs |-> Task(op'[q])]
        = [[q \in Reqs |-> Task(op[q])] EXCEPT ![r] = Promise!NoTask]
  BY <1>1, <1>6 DEF TInv, Types
<1>8. Promise!Finish(r)
  BY <1>1, <1>4, <1>5, <1>7 DEF Promise!Finish, Res
<1> QED
  BY <1>1, <1>2, <1>3, <1>8, MInvStep DEF MapsWell, MapsOn, Promise!Next

LEMMA CrashMaps ==
  ASSUME TInv, MInv, Crash PROVE MapsWell
<1>1. /\ \A r \in Reqs : /\ step'[r] = "idle" /\ op'[r] = NoOp /\ todo'[r] = {}
                         /\ done'[r] = {} /\ at'[r] = 1
      /\ done' = [r \in Reqs |-> {}] /\ rows' = rows
  BY DEF Crash, dbVars
<1>2. MInv'
  <2>1. Aims(NoOp) = {}
    BY DEF Aims, NoOp
  <2> QED
    BY <1>1, <2>1 DEF MInv, MOK
<1>3. \A r \in Reqs : Res(r)' = "none"
  BY <1>1, ResFacts DEF Over
<1>4. Task(NoOp) = Promise!NoTask
  BY DEF Task, NoOp, Aims, Promise!NoTask
<1>5. Members' = Members
  BY <1>1 DEF Members
<1>6. Promise!Restart
  BY <1>1, <1>3, <1>4, <1>5 DEF Promise!Restart, Res
<1> QED
  BY <1>2, <1>6 DEF MapsWell, MapsOn, Promise!Next

\* Joining and leaving take effect on one user after the other, each at one
\* moment between the arrival of the request and its answer, and an answered
\* success means that they have on everybody named.
THEOREM MembershipImplemented == Spec => ImplementsMembership
<1>1. Init => TInv /\ MInv /\ Promise!Init
  <2>1. Init => MInv
    BY DEF Init, MInv, MOK, Aims, NoOp
  <2>2. Init => Promise!Init
    BY GroupChatAssumption
       DEF Init, Promise!Init, Members, Task, Aims, NoOp, Promise!NoTask
  <2> QED
    BY <2>1, <2>2, TInvInit
<1>2. TInv /\ MInv /\ [Next]_vars => MapsWell
  <2> SUFFICES ASSUME TInv, MInv, [Next]_vars PROVE MapsWell
    OBVIOUS
  <2>1. CASE ExpireMembers \/ ExpireChat \/ Remove \/ UNCHANGED vars
    <3>1. UNCHANGED <<rows, op, at, step, todo, user, done>>
      BY <2>1 DEF ExpireMembers, ExpireChat, Remove, vars, dbVars, callVars, pastVars
    <3>2. MInv'
      BY <3>1 DEF MInv, MOK, Call, Kind
    <3>3. UNCHANGED Promise!memVars
      BY <3>1 DEF Promise!memVars, Members
    <3> QED
      BY <3>2, <3>3 DEF MapsWell, MapsOn
  <2> QED
    BY <2>1, ReadsMap, StaysMap, ReadRowMaps, WriteJoinMaps, WriteLeaveMaps,
       UncacheMembersMaps, ArriveMaps, AnswerMaps, CrashMaps DEF Next, Run
<1>3. TInv /\ MInv /\ [Next]_vars => (TInv /\ MInv)'
  BY <1>2, TInvNext DEF MapsWell
<1>4. TInv /\ MInv /\ [Next]_vars => [Promise!Next]_(Promise!memVars)
  BY <1>2 DEF MapsWell, MapsOn
<1> QED
  BY <1>1, <1>3, <1>4, PTL DEF Spec, ImplementsMembership, Promise!Spec

=============================================================================
