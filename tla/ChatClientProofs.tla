-------------------------- MODULE ChatClientProofs --------------------------
(***************************************************************************)
(* Theorems about ChatClient: types, and the four invariants that its run  *)
(* checks.                                                                 *)
(***************************************************************************)
EXTENDS ChatClient, FiniteSetTheorems, WellFoundedInduction, TLAPS

(***************************************************************************)
(* Least and greatest indexes                                              *)
(***************************************************************************)

\* A set of natural numbers that is not empty has a least element.
LEMMA HasLeast ==
  ASSUME NEW S, S \subseteq Nat, S # {}
  PROVE  Min(S) \in S /\ \A y \in S : Min(S) <= y
<1> DEFINE Less == OpToRel(<, Nat)
<1>1. \A x, y \in Nat : y < x => <<y, x>> \in Less
  BY DEF OpToRel
<1>2. PICK x \in S : \A y \in S : ~ (<<y, x>> \in Less)
  BY NatLessThanWellFounded, WFMin, Zenon
<1> HIDE DEF Less
<1>3. ASSUME NEW y \in S PROVE x <= y
  <2>1. x \in Nat /\ y \in Nat
    OBVIOUS
  <2>2. ~ (y < x)
    BY <1>1, <1>2, <2>1, Zenon
  <2> QED
    BY <2>1, <2>2
<1> QED
  BY <1>3 DEF Min

\* One that is bounded as well has a greatest.
LEMMA HasGreatest ==
  ASSUME NEW b \in Nat, NEW S, S \subseteq 0 .. b, S # {}
  PROVE  Max(S) \in S /\ \A y \in S : y <= Max(S)
<1> DEFINE T == {b - x : x \in S}
<1>1. \A x \in S : x \in Int /\ b - x \in Nat
  OBVIOUS
<1>2. T \subseteq Nat /\ T # {}
  BY <1>1, Zenon
<1>3. PICK t \in T : \A y \in T : t <= y
  BY <1>2, HasLeast
<1>4. PICK x \in S : t = b - x
  BY <1>3
<1>5. \A y \in S : b - y \in T
  BY Zenon
<1>6. \A y \in S : x >= y
  BY <1>1, <1>3, <1>4, <1>5
<1> QED
  BY <1>6 DEF Max

\* Of two integers one is the greatest.
LEMMA GreaterOfTwo ==
  ASSUME NEW a \in Int, NEW b \in Int
  PROVE  Max({a, b}) = IF a >= b THEN a ELSE b
BY DEF Max

\* An interval begins with its least element.
LEMMA IntervalBegins ==
  ASSUME NEW a \in Nat, NEW b \in Nat, a <= b
  PROVE  Min(a .. b) = a
<1>1. a .. b \subseteq Nat /\ a \in a .. b
  OBVIOUS
<1>2. Min(a .. b) \in a .. b /\ Min(a .. b) <= a
  BY <1>1, HasLeast
<1> QED
  BY <1>2

(***************************************************************************)
(* What the client's operators return                                      *)
(***************************************************************************)
USE DEF Indexes, TheChat, Due

\* A list of indexes that is made up by the check has no gap, ends with the last
\* message, and names no message that is not there; local messages are left alone.
LEMMA CheckedResult ==
  ASSUME NEW n \in Nat, NEW c \in Chat, c.last \in 1 .. n, c.list \subseteq 1 .. n,
         Cardinality(c.list) >= 2, c.last - Min(c.list) + 1 # Cardinality(c.list),
         Cardinality(c.list) \in Nat, Backlog \in Nat
  PROVE  /\ Checked(c) \in Chat /\ Checked(c).last = c.last /\ Checked(c).local = c.local
         /\ Checked(c).list \subseteq 1 .. n /\ Whole(Checked(c))
<1> DEFINE starts == {p \in 1 .. c.last : p .. c.last - 1 \subseteq c.list \ {Max(c.list)}}
           first  == Max({Min(starts) - Backlog, 1})
<1>1. c.last \in starts
  OBVIOUS
<1>2. Min(starts) \in 1 .. c.last
  <2>1. starts \subseteq Nat /\ starts # {}
    BY <1>1
  <2> QED
    BY <2>1, HasLeast
<1>3. first \in 1 .. c.last
  BY <1>2, GreaterOfTwo
<1>4. Checked(c) = [c EXCEPT !.list = first .. c.last]
  <2>1. ~ (Cardinality(c.list) < 2 \/ c.last - Min(c.list) + 1 = Cardinality(c.list))
    OBVIOUS
  <2> QED
    BY <2>1, Zenon DEF Checked
<1> HIDE DEF starts, first
<1>5. first .. c.last # {} /\ Min(first .. c.last) = first
  BY <1>3, IntervalBegins
<1>6. Checked(c).list = first .. c.last /\ Checked(c).last = c.last
  BY <1>4 DEF Chat
<1> QED
  BY <1>3, <1>4, <1>5, <1>6 DEF Chat, Whole

\* A list of indexes up to the last message, as long as from the first to the last, has
\* no gap.
LEMMA FullListIsWhole ==
  ASSUME NEW n \in Nat, NEW S, S \subseteq 1 .. n, S # {},
         n - Min(S) + 1 = Cardinality(S)
  PROVE  S = Min(S) .. n
<1>1. S \subseteq Nat
  OBVIOUS
<1>2. Min(S) \in S /\ \A y \in S : Min(S) <= y
  BY <1>1, HasLeast
<1>3. \A y \in S : y \in 1 .. n
  OBVIOUS
<1>4. Min(S) \in 1 .. n /\ \A y \in S : y \in Min(S) .. n
  <2>1. Min(S) \in 1 .. n
    BY <1>2, <1>3, Zenon
  <2> QED
    BY <1>2, <1>3, <2>1
<1>5. IsFiniteSet(Min(S) .. n) /\ Cardinality(Min(S) .. n) = n - Min(S) + 1
  BY <1>4, FS_Interval
<1>6. S \in SUBSET (Min(S) .. n)
  BY <1>4, Zenon
<1> QED
  BY <1>5, <1>6, FS_Subset, Zenon

\* What setLatestMessages makes of a chat.
LEMMA LatestResult ==
  ASSUME NEW n \in Nat, NEW c \in Chat, c.last \in 0 .. n, c.list \subseteq 1 .. n,
         NEW is \in SUBSET (1 .. n), Backlog \in Nat
  PROVE  /\ SetLatest(c, is) \in Chat
         /\ SetLatest(c, is).last \in {c.last} \cup is
         /\ \A i \in {c.last} \cup is : i <= SetLatest(c, is).last
         /\ SetLatest(c, is).list \subseteq 1 .. n
         /\ SetLatest(c, is).local = c.local \ Gids(is)
         /\ Whole(c) => Whole(SetLatest(c, is))
<1>1. PICK last : last = Max({c.last} \cup is)
  OBVIOUS
<1>2. PICK list : list = c.list \cup is
  OBVIOUS
<1>3. PICK new : new = [last |-> last, list |-> list, local |-> c.local \ Gids(is)]
  OBVIOUS
<1>4. \A i \in {c.last} \cup is : i \in 0 .. n
  <2>1. \A i \in 1 .. n : i \in 0 .. n
    OBVIOUS
  <2> QED
    BY <2>1, Zenon
<1>5. last \in {c.last} \cup is /\ \A i \in {c.last} \cup is : i <= last
  <2>1. {c.last} \cup is \subseteq 0 .. n /\ {c.last} \cup is # {}
    BY <1>4, Zenon
  <2> QED
    BY <1>1, <2>1, HasGreatest
<1>6. last \in 0 .. n /\ c.last \in Nat
  BY <1>4, <1>5
<1>7. c.last \in Nat /\ c.list \in SUBSET (Nat \ {0}) /\ c.local \in SUBSET Own
  BY DEF Chat
<1>8. list \subseteq 1 .. n /\ list \subseteq Nat \ {0} /\ IsFiniteSet(list)
  <2>1. list \subseteq 1 .. n
    BY <1>2
  <2>2. \A i \in 1 .. n : i \in Nat \ {0}
    OBVIOUS
  <2>3. IsFiniteSet(1 .. n)
    BY FS_Interval
  <2> QED
    BY <2>1, <2>2, <2>3, FS_Subset, Zenon
<1>9. new.last = last /\ new.list = list /\ new.local = c.local \ Gids(is)
  BY <1>3
<1>10. new \in Chat
  <2>1. last \in Nat /\ c.local \ Gids(is) \in SUBSET Own
    BY <1>6, <1>7
  <2> QED
    BY <1>3, <1>8, <2>1 DEF Chat
<1>11. ASSUME Whole(c) PROVE (c.list = {} /\ c.last = 0)
                              \/ (c.last \in c.list /\ c.list \subseteq 1 .. c.last)
  <2>1. CASE c.list = {}
    BY <1>11, <2>1 DEF Whole
  <2>2. CASE c.list # {}
    <3>1. c.list = Min(c.list) .. c.last
      BY <1>11, <2>2 DEF Whole
    <3>2. c.list \subseteq Nat /\ Min(c.list) \in c.list
      BY <1>7, <2>2, HasLeast
    <3>3. Min(c.list) \in 1 .. c.last
      BY <1>7, <3>1, <3>2
    <3> QED
      BY <1>6, <3>1, <3>3
  <2> QED
    BY <2>1, <2>2
<1>12. CASE is \subseteq c.list
  <2>1. SetLatest(c, is) = new
    BY <1>1, <1>2, <1>3, <1>12 DEF SetLatest
  <2>2. list = c.list
    BY <1>2, <1>12
  <2>3. ASSUME Whole(c) PROVE last = c.last
    <3>1. \A i \in is : i <= c.last
      BY <1>6, <1>11, <1>12, <2>3
    <3> QED
      BY <1>5, <1>6, <3>1
  <2>4. ASSUME Whole(c) PROVE Whole(new)
    <3>1. last = c.last
      BY <2>3, <2>4
    <3> QED
      BY <1>9, <2>2, <2>4, <3>1 DEF Whole
  <2> QED
    BY <1>5, <1>8, <1>9, <1>10, <2>1, <2>4
<1>13. CASE ~ (is \subseteq c.list)
  <2>1. SetLatest(c, is) = Checked(new)
    BY <1>1, <1>2, <1>3, <1>13 DEF SetLatest
  <2>2. PICK i \in is : i \notin c.list
    BY <1>13
  <2>3. last \in 1 .. n /\ list # {} /\ i \in list
    BY <1>2, <1>5, <1>6, <2>2
  <2>4. Cardinality(list) \in Nat
    BY <1>8, FS_CardinalityType
  <2>5. CASE Cardinality(list) >= 2 /\ last - Min(list) + 1 # Cardinality(list)
    <3>1. /\ Checked(new) \in Chat /\ Checked(new).last = new.last
          /\ Checked(new).local = new.local
          /\ Checked(new).list \subseteq 1 .. n /\ Whole(Checked(new))
      BY <1>8, <1>9, <1>10, <2>3, <2>4, <2>5, CheckedResult
    <3> QED
      BY <1>5, <1>9, <2>1, <3>1
  <2>6. CASE Cardinality(list) < 2 \/ last - Min(list) + 1 = Cardinality(list)
    <3>1. Checked(new) = new
      BY <1>9, <2>6 DEF Checked
    <3>2. ASSUME Whole(c) PROVE Whole(new)
      <4>1. \A j \in list : j \in 1 .. last
        BY <1>2, <1>5, <1>6, <1>7, <1>8, <1>11, <3>2
      <4>2. CASE Cardinality(list) < 2
        <5>1. list = {i}
          <6>1. Cardinality({i}) = 1 /\ IsFiniteSet({i}) /\ {i} \in SUBSET list
            BY <2>3, FS_Singleton
          <6>2. Cardinality({i}) <= Cardinality(list)
                /\ (Cardinality(list) = Cardinality({i}) => list = {i})
            BY <1>8, <6>1, FS_Subset
          <6>3. Cardinality(list) = 1
            BY <2>4, <4>2, <6>1, <6>2
          <6> QED
            BY <6>1, <6>2, <6>3
        <5>2. c.list = {} /\ is = {i} /\ c.last = 0
          BY <1>2, <1>11, <2>2, <3>2, <5>1
        <5>3. last = i /\ i \in Nat
          BY <1>5, <1>6, <2>3, <5>2
        <5>4. Min(i .. i) = i /\ i .. i = {i}
          <6>1. i <= i
            BY <5>3
          <6>2. Min(i .. i) = i
            BY <5>3, <6>1, IntervalBegins, Zenon
          <6>3. i .. i = {i}
            BY <5>3
          <6> QED
            BY <6>2, <6>3
        <5> QED
          BY <1>9, <5>1, <5>3, <5>4 DEF Whole
      <4>3. CASE last - Min(list) + 1 = Cardinality(list)
        <5>1. list \subseteq 1 .. last
          BY <4>1
        <5>2. list = Min(list) .. last
          <6>1. last \in Nat
            BY <1>6
          <6> QED
            BY <2>3, <4>3, <5>1, <6>1, FullListIsWhole, Zenon
        <5> QED
          BY <1>9, <2>3, <5>2 DEF Whole
      <4> QED
        BY <2>6, <4>2, <4>3
    <3> QED
      BY <1>5, <1>8, <1>9, <1>10, <2>1, <3>1, <3>2
  <2> QED
    BY <2>4, <2>5, <2>6
<1> QED
  BY <1>12, <1>13

(***************************************************************************)
(* Type correctness                                                        *)
(***************************************************************************)

\* No index is beyond the table of messages.
Ends    == 0 .. Len(log)
ChatIn  == [last : Ends, list : SUBSET Indexes, local : SUBSET Own]
RowIn   == [last : Ends, local : SUBSET Own]
ListIn  == [last : Ends, failed : BOOLEAN]
MergeIn == [list : ListIn, indexes : SUBSET Indexes, row : RowIn]
Maybe(s, S) == s = <<>> \/ (s = <<s[1]>> /\ s[1] \in S)

ServerTypes == log \in Seq(Own \cup {Other}) /\ requests \subseteq Own
LinkTypes   == link \in {"off", "listed", "on"} /\ sent \in ListIn
ChatTypes   ==
  Maybe(chat, ChatIn) /\ known \subseteq Own /\ bodies \subseteq Own /\ late \subseteq Own
  /\ carried \in BOOLEAN
SendTypes   ==
  /\ written \subseteq Own /\ listening \subseteq written /\ bodies \subseteq written
  /\ kept \subseteq Own
  /\ dirty \in {"no", "yes", "reset"} /\ (chat = <<>> => dirty = "no" /\ listening = {})
RowTypes    == Maybe(merge, MergeIn) /\ db \in RowIn /\ Maybe(putting, RowIn)
BoundTypes  == logins \in 0 .. MaxLogins /\ restarts \in 0 .. MaxRestarts

\* The database reports an error.
DatabaseFails == MergeFails \/ SaveFails \/ PutFails

TypeInv == ServerTypes /\ LinkTypes /\ ChatTypes /\ SendTypes /\ RowTypes /\ BoundTypes

\* A sequence of one element or none.
LEMMA MaybeIsSeq ==
  ASSUME NEW s, NEW S, Maybe(s, S)
  PROVE  s \in Seq(S) /\ Len(s) <= 1
<1>1. CASE s = <<>>
  BY <1>1
<1>2. ASSUME NEW x \in S, s = <<x>> PROVE s \in Seq(S) /\ Len(s) <= 1
  BY <1>2
<1> QED
  BY <1>1, <1>2, Zenon DEF Maybe

LEMMA OneElement ==
  ASSUME NEW x
  PROVE  <<x>> # <<>> /\ <<x>>[1] = x
OBVIOUS

LEMMA OneIsMaybe ==
  ASSUME NEW x, NEW S, x \in S
  PROVE  Maybe(<<x>>, S)
BY OneElement DEF Maybe

\* The bounds are natural numbers.
LEMMA Bounds == Backlog \in Nat /\ MaxLogins \in Nat /\ MaxRestarts \in Nat /\ Other \notin Own
BY ChatClientAssumption

\* What is kept of the table stays in it when it grows.
LEMMA Grown ==
  ASSUME TypeInv, NEW x \in Own \cup {Other}, log' = Append(log, x),
         UNCHANGED <<sent, chat, merge, db, putting>>
  PROVE  /\ log' \in Seq(Own \cup {Other}) /\ Len(log') = Len(log) + 1
         /\ Gids(Indexes)' = Gids(Indexes) \cup {x}
         /\ sent' \in ListIn' /\ Maybe(chat', ChatIn') /\ RowTypes'
<1>1. log' \in Seq(Own \cup {Other}) /\ Len(log') = Len(log) + 1 /\ Len(log) \in Nat
  BY DEF TypeInv, ServerTypes
<1>2. Ends \subseteq Ends' /\ Indexes \subseteq Indexes'
  BY <1>1 DEF Ends
<1>3. RowIn \subseteq RowIn' /\ ListIn \subseteq ListIn' /\ ChatIn \subseteq ChatIn'
  BY <1>2 DEF RowIn, ListIn, ChatIn
<1>4. MergeIn \subseteq MergeIn'
  BY <1>2, <1>3 DEF MergeIn
<1>5. Gids(Indexes)' = Gids(Indexes) \cup {x}
  BY <1>1 DEF Gids, TypeInv, ServerTypes
<1> QED
  BY <1>1, <1>3, <1>4, <1>5, Zenon DEF TypeInv, LinkTypes, ChatTypes, RowTypes, Maybe

\* A chat of bounded indexes is a chat.
LEMMA BoundedChat ==
  ASSUME TypeInv, chat # <<>>
  PROVE  /\ chat = <<TheChat>> /\ TheChat \in ChatIn /\ TheChat \in Chat
         /\ TheChat.last \in 0 .. Len(log) /\ TheChat.list \subseteq Indexes
         /\ TheChat.local \subseteq Own /\ Len(log) \in Nat
<1>1. chat = <<TheChat>> /\ TheChat \in ChatIn /\ Len(log) \in Nat
  BY DEF TypeInv, ChatTypes, Maybe, ServerTypes
<1>2. /\ TheChat.last \in 0 .. Len(log) /\ TheChat.list \subseteq Indexes
      /\ TheChat.local \subseteq Own
  BY <1>1 DEF ChatIn, Ends
<1>3. Ends \subseteq Nat /\ Indexes \subseteq Nat \ {0}
  BY <1>1 DEF Ends
<1>4. TheChat \in Chat
  BY <1>1, <1>3 DEF ChatIn, Chat
<1> QED
  BY <1>1, <1>2, <1>4

\* What storing messages of the server does to the cache.
LEMMA Stored ==
  ASSUME TypeInv, NEW is \in SUBSET Indexes, StoreMessages(is), UNCHANGED <<log, bodies>>
  PROVE  /\ ChatTypes' /\ dirty' \in {"no", "yes", "reset"} /\ known' = known \cup (Gids(is) \cap Own)
         /\ chat = <<>> => UNCHANGED <<chat, carried, dirty, late>>
         /\ chat # <<>> =>
              /\ chat' # <<>> /\ chat'[1].local = TheChat.local \ Gids(is) /\ late' = late \ Gids(is)
              /\ chat'[1].last \in {TheChat.last} \cup is
              /\ carried' = (carried /\ ~Whole(chat'[1]))
              /\ Whole(TheChat) => Whole(chat'[1])
<1>1. known' = known \cup (Gids(is) \cap Own)
  BY DEF StoreMessages
<1>2. CASE chat = <<>>
  BY <1>1, <1>2 DEF StoreMessages, TypeInv, ChatTypes, SendTypes, ChatIn, Ends
<1>3. CASE chat # <<>>
  <2>1. PICK c : c = SetLatest(TheChat, is)
    OBVIOUS
  <2>2. /\ chat' = <<c>> /\ carried' = (carried /\ ~Whole(chat'[1])) /\ late' = late \ Gids(is)
        /\ dirty' = IF chat'[1].last # TheChat.last \/ chat'[1].local # TheChat.local
                    THEN Due ELSE dirty
    BY <1>3, <2>1 DEF StoreMessages
  <2>3. chat' # <<>> /\ chat'[1] = c
    BY <2>2, OneElement
  <2>4. /\ c \in Chat /\ c.last \in {TheChat.last} \cup is
        /\ c.list \subseteq Indexes /\ c.local = TheChat.local \ Gids(is)
        /\ (Whole(TheChat) => Whole(c))
    BY <1>3, <2>1, BoundedChat, LatestResult, Bounds
  <2>5. c \in ChatIn'
    <3>1. c.last \in Ends /\ c.list \in SUBSET Indexes /\ c.local \in SUBSET Own
      BY <1>3, <2>4, BoundedChat DEF Ends
    <3> QED
      BY <2>4, <3>1 DEF Chat, ChatIn, Ends
  <2>6. Maybe(chat', ChatIn')
    BY <2>2, <2>5, OneIsMaybe
  <2>7. dirty' \in {"no", "yes", "reset"}
    BY <2>2 DEF TypeInv, SendTypes
  <2>8. carried' \in BOOLEAN
    BY <2>2
  <2>9. known' \subseteq Own /\ bodies' \subseteq Own /\ late' \subseteq Own
    BY <1>1, <2>2 DEF TypeInv, ChatTypes
  <2>10. ChatTypes'
    BY <2>6, <2>8, <2>9 DEF ChatTypes
  <2> QED
    BY <1>1, <1>3, <2>2, <2>3, <2>4, <2>7, <2>10
<1> QED
  BY <1>2, <1>3

\* A step that leaves the table alone leaves the bounds alone.
LEMMA SameBounds ==
  ASSUME log' = log
  PROVE  Ends' = Ends /\ Indexes' = Indexes /\ ChatIn' = ChatIn /\ RowIn' = RowIn
         /\ ListIn' = ListIn /\ MergeIn' = MergeIn /\ Gids(Indexes)' = Gids(Indexes)
BY DEF Ends, ChatIn, RowIn, ListIn, MergeIn, Gids

\* A message of the user is stored in the chat there is.
LEMMA LocalStored ==
  ASSUME TypeInv, chat # <<>>, NEW g \in Own, StoreLocal(g), UNCHANGED <<log, known, carried>>
  PROVE  /\ ChatTypes' /\ chat' # <<>> /\ dirty' \in {"no", "yes", "reset"}
         /\ chat'[1].last = TheChat.last /\ chat'[1].list = TheChat.list
         /\ chat'[1].local = TheChat.local \cup {g}
         /\ bodies' = bodies \cup {g} /\ late' = IF g \in known THEN late \cup {g} ELSE late
<1>1. PICK c : c = [TheChat EXCEPT !.local = @ \cup {g}]
  OBVIOUS
<1>2. /\ chat' = <<c>> /\ bodies' = bodies \cup {g} /\ dirty' = Due
      /\ late' = IF g \in known THEN late \cup {g} ELSE late
  BY <1>1 DEF StoreLocal
<1>3. chat' # <<>> /\ chat'[1] = c
  BY <1>2, OneElement
<1>4. TheChat \in ChatIn
  BY BoundedChat
<1>5. /\ c \in ChatIn /\ c.last = TheChat.last /\ c.list = TheChat.list
      /\ c.local = TheChat.local \cup {g}
  BY <1>1, <1>4 DEF ChatIn
<1>6. Maybe(chat', ChatIn')
  BY <1>2, <1>5, SameBounds, OneIsMaybe
<1>7. ChatTypes' /\ dirty' \in {"no", "yes", "reset"}
  BY <1>2, <1>6 DEF ChatTypes, TypeInv, SendTypes
<1> QED
  BY <1>2, <1>3, <1>5, <1>7

\* Types are right at first.
LEMMA TypeInit == Init => TypeInv
<1> SUFFICES ASSUME Init PROVE TypeInv
  OBVIOUS
<1>1. ServerTypes
  BY DEF Init, ServerTypes
<1>2. Len(log) = 0
  BY DEF Init
<1>3. LinkTypes
  BY <1>2 DEF Init, LinkTypes, ListIn, Ends, NoList
<1>4. ChatTypes /\ SendTypes
  BY DEF Init, ChatTypes, SendTypes, Maybe
<1>5. RowTypes
  BY <1>2 DEF Init, RowTypes, Maybe, RowIn, NoRow, Ends
<1>6. BoundTypes
  BY Bounds DEF Init, BoundTypes
<1> QED
  BY <1>1, <1>3, <1>4, <1>5, <1>6 DEF TypeInv

\* Every step keeps them.
LEMMA TypeStep == TypeInv /\ [Next]_vars => TypeInv'
<1> SUFFICES ASSUME TypeInv, [Next]_vars PROVE TypeInv'
  OBVIOUS
<1> USE DEF serverVars, linkVars, chatVars, sendVars, dbVars, boundVars
<1>1. CASE StoreOther
  <2>1. log' = Append(log, Other)
    BY <1>1 DEF StoreOther
  <2>2. UNCHANGED <<requests, kept, clientVars>>
    BY <1>1 DEF StoreOther
  <2>3. log' \in Seq(Own \cup {Other}) /\ sent' \in ListIn' /\ Maybe(chat', ChatIn') /\ RowTypes'
    BY <2>1, <2>2, Grown DEF clientVars
  <2> QED
    BY <2>2, <2>3 DEF TypeInv, ServerTypes, LinkTypes, ChatTypes, SendTypes, BoundTypes, clientVars
<1>2. ASSUME NEW g \in Own, StoreOwn(g) PROVE TypeInv'
  <2>1. UNCHANGED clientVars /\ requests' \subseteq requests /\ kept' \subseteq kept
    BY <1>2 DEF StoreOwn
  <2>2. CASE log' = log
    BY <2>1, <2>2, SameBounds
    DEF TypeInv, ServerTypes, LinkTypes, ChatTypes, SendTypes, RowTypes, BoundTypes, clientVars
  <2>3. CASE log' = Append(log, g)
    <3>1. log' \in Seq(Own \cup {Other}) /\ sent' \in ListIn' /\ Maybe(chat', ChatIn') /\ RowTypes'
      BY <2>1, <2>3, Grown DEF clientVars
    <3> QED
      BY <2>1, <3>1
      DEF TypeInv, ServerTypes, LinkTypes, ChatTypes, SendTypes, BoundTypes, clientVars
  <2> QED
    BY <1>2, <2>2, <2>3 DEF StoreOwn
<1>3. CASE Login
  <2>1. UNCHANGED <<serverVars, chatVars, sendVars, dbVars, restarts, merge>> /\ link' = "listed"
    BY <1>3 DEF Login
  <2>2. sent' \in ListIn'
    <3>1. PICK failed \in BOOLEAN : sent' = [last |-> IF failed THEN 0 ELSE Len(log), failed |-> failed]
      BY <1>3 DEF Login
    <3>2. (IF failed THEN 0 ELSE Len(log)) \in Ends
      BY DEF TypeInv, ServerTypes, Ends
    <3> QED
      BY <2>1, <3>1, <3>2, SameBounds DEF ListIn
  <2>3. logins' \in 0 .. MaxLogins
    BY <1>3, Bounds DEF Login, TypeInv, BoundTypes
  <2> QED
    BY <2>1, <2>2, <2>3, SameBounds
    DEF TypeInv, ServerTypes, LinkTypes, ChatTypes, SendTypes, RowTypes, BoundTypes
<1>4. CASE Break
  <2>1. /\ UNCHANGED <<serverVars, chatVars, sendVars, dbVars, boundVars, merge>>
        /\ link' = "off" /\ sent' = NoList
    BY <1>4 DEF Break
  <2>2. NoList \in ListIn
    BY DEF NoList, ListIn, Ends, TypeInv, ServerTypes
  <2> QED
    BY <2>1, <2>2, SameBounds
    DEF TypeInv, ServerTypes, LinkTypes, ChatTypes, SendTypes, RowTypes, BoundTypes
<1>5. CASE ReceiveList
  <2>1. /\ UNCHANGED <<serverVars, sendVars, bodies, db, putting, boundVars>> /\ kept' \subseteq kept
        /\ link' = "on" /\ sent' = NoList /\ StoreMessages({sent.last} \ {0})
        /\ merge' = <<[list |-> sent, row |-> db,
                       indexes |-> IF chat = <<>> THEN {} ELSE TheChat.list]>>
    BY <1>5 DEF ReceiveList
  <2>2. sent \in ListIn /\ {sent.last} \ {0} \in SUBSET Indexes /\ NoList \in ListIn
    <3>1. sent \in ListIn /\ Len(log) \in Nat
      BY DEF TypeInv, LinkTypes, ServerTypes
    <3> QED
      BY <3>1 DEF ListIn, Ends, NoList
  <2>3. /\ ChatTypes' /\ dirty' \in {"no", "yes", "reset"}
        /\ chat = <<>> => UNCHANGED <<chat, carried, dirty, late>>
        /\ chat # <<>> => chat' # <<>>
    BY <2>1, <2>2, Stored
  <2>4. SendTypes'
    BY <2>1, <2>3 DEF TypeInv, SendTypes
  <2>5. Maybe(merge', MergeIn)
    <3>1. (IF chat = <<>> THEN {} ELSE TheChat.list) \in SUBSET Indexes
      BY BoundedChat
    <3>2. [list |-> sent, row |-> db,
           indexes |-> IF chat = <<>> THEN {} ELSE TheChat.list] \in MergeIn
      BY <2>2, <3>1 DEF MergeIn, TypeInv, RowTypes
    <3> QED
      BY <2>1, <3>2, OneIsMaybe
  <2> QED
    BY <2>1, <2>2, <2>3, <2>4, <2>5, SameBounds
    DEF TypeInv, ServerTypes, LinkTypes, RowTypes, BoundTypes
<1>6. ASSUME NEW is \in SUBSET Indexes, Receive(is) PROVE TypeInv'
  <2>1. /\ UNCHANGED <<serverVars, linkVars, bodies, written, merge, db, putting, kept, boundVars>>
        /\ StoreMessages(is) /\ listening' \subseteq listening /\ chat # <<>>
    BY <1>6 DEF Receive
  <2>2. ChatTypes' /\ dirty' \in {"no", "yes", "reset"} /\ chat' # <<>>
    BY <2>1, Stored
  <2> QED
    BY <2>1, <2>2, SameBounds
    DEF TypeInv, ServerTypes, LinkTypes, SendTypes, RowTypes, BoundTypes
<1>7. CASE FinishMerge
  <2>1. /\ UNCHANGED <<serverVars, linkVars, sendVars, db, putting, kept, boundVars>>
        /\ merge # <<>> /\ merge' = <<>> /\ chat' = <<Merged(merge[1])>>
        /\ carried' = ~Whole(chat'[1]) /\ dirty' = "reset"
        /\ late' \subseteq merge[1].row.local
        /\ known' \subseteq known /\ bodies' \subseteq bodies
    BY <1>7 DEF FinishMerge
  <2>2. merge[1] \in MergeIn
    BY <2>1 DEF TypeInv, RowTypes, Maybe
  <2>3. Merged(merge[1]) \in ChatIn
    <3>1. /\ merge[1].list.last \in Ends /\ merge[1].row.local \in SUBSET Own
          /\ merge[1].indexes \in SUBSET Indexes
      BY <2>2 DEF MergeIn, RowIn, ListIn
    <3>2. (IF merge[1].indexes = {} THEN {merge[1].list.last} \ {0} ELSE merge[1].indexes)
            \in SUBSET Indexes
      BY <3>1 DEF Ends, TypeInv, ServerTypes
    <3> QED
      BY <3>1, <3>2 DEF Merged, ChatIn
  <2>4. Maybe(chat', ChatIn) /\ chat' # <<>> /\ Maybe(merge', MergeIn)
    BY <2>1, <2>3, OneIsMaybe, OneElement DEF Maybe
  <2>5. carried' \in BOOLEAN /\ late' \subseteq Own
    BY <2>1, <2>2 DEF MergeIn, RowIn
  <2> QED
    BY <2>1, <2>4, <2>5, SameBounds
    DEF TypeInv, ServerTypes, LinkTypes, ChatTypes, SendTypes, RowTypes, BoundTypes
<1>8. ASSUME NEW g \in Own, Send(g), chat # <<>>, written' = written \cup {g}, g \in written'
      PROVE TypeInv'
  <2>1. /\ UNCHANGED <<writeRest, kept>> /\ StoreLocal(g)
        /\ requests' \subseteq requests \cup {g} /\ listening' \subseteq listening \cup {g}
    BY <1>8 DEF Send
  <2>2. /\ ChatTypes' /\ chat' # <<>> /\ dirty' \in {"no", "yes", "reset"}
        /\ bodies' = bodies \cup {g}
    BY <1>8, <2>1, LocalStored DEF writeRest
  <2> QED
    BY <1>8, <2>1, <2>2, SameBounds
    DEF TypeInv, ServerTypes, LinkTypes, SendTypes, RowTypes, BoundTypes, writeRest
<1>9. ASSUME NEW g \in Own, Delete(g) PROVE TypeInv'
  <2>1. /\ UNCHANGED <<writeRest, requests, sendVars>> /\ chat # <<>>
        /\ chat' = <<[TheChat EXCEPT !.local = @ \ {g}]>> /\ dirty' = Due
        /\ bodies' = bodies \ {g} /\ kept' = kept \ {g} /\ late' = late \ {g}
    BY <1>9 DEF Delete, HasFailed
  <2>2. Maybe(chat', ChatIn) /\ chat' # <<>>
    <3>1. [TheChat EXCEPT !.local = @ \ {g}] \in ChatIn
      BY <2>1, BoundedChat DEF ChatIn
    <3> QED
      BY <2>1, <3>1, OneIsMaybe, OneElement
  <2> QED
    BY <2>1, <2>2, SameBounds
    DEF TypeInv, ServerTypes, LinkTypes, ChatTypes, SendTypes, RowTypes, BoundTypes, writeRest
<1>10. ASSUME NEW g \in Own, Fail(g) PROVE TypeInv'
  <2>1. /\ UNCHANGED <<writeRest, requests, written, kept>> /\ StoreLocal(g)
        /\ g \in listening /\ listening' \subseteq listening
    BY <1>10 DEF Fail
  <2>2. chat # <<>>
    BY <2>1 DEF TypeInv, SendTypes
  <2>3. /\ ChatTypes' /\ chat' # <<>> /\ dirty' \in {"no", "yes", "reset"}
        /\ bodies' = bodies \cup {g}
    BY <2>1, <2>2, LocalStored DEF writeRest
  <2> QED
    BY <2>1, <2>3, SameBounds
    DEF TypeInv, ServerTypes, LinkTypes, SendTypes, RowTypes, BoundTypes, writeRest
<1>11. CASE Save
  <2>1. /\ UNCHANGED saveRest /\ dirty # "no" /\ dirty' = "no"
        /\ kept' \subseteq kept \cup TheChat.local
        /\ \/ db' = [last |-> TheChat.last, local |-> TheChat.local] /\ putting' = putting
           \/ db' = NoRow /\ putting' = <<[last |-> TheChat.last, local |-> TheChat.local]>>
    BY <1>11 DEF Save
  <2>2. chat # <<>>
    BY <2>1 DEF TypeInv, SendTypes
  <2>3. /\ [last |-> TheChat.last, local |-> TheChat.local] \in RowIn
        /\ NoRow \in RowIn /\ TheChat.local \subseteq Own
    BY <2>2, BoundedChat DEF RowIn, NoRow, Ends
  <2>4. db' \in RowIn /\ Maybe(putting', RowIn)
    BY <2>1, <2>3, OneIsMaybe DEF TypeInv, RowTypes
  <2>5. UNCHANGED <<log, merge, link, sent, logins, restarts>> /\ kept' \subseteq Own
    BY <2>1, <2>3 DEF saveRest, TypeInv, SendTypes
  <2> QED
    BY <2>1, <2>4, <2>5, SameBounds
    DEF TypeInv, ServerTypes, LinkTypes, ChatTypes, SendTypes, RowTypes, BoundTypes, saveRest
<1>12. CASE Put
  <2>1. UNCHANGED <<saveRest, dirty, kept>> /\ putting # <<>> /\ db' = putting[1] /\ putting' = <<>>
    BY <1>12 DEF Put
  <2>2. db' \in RowIn /\ Maybe(putting', RowIn)
    BY <2>1 DEF TypeInv, RowTypes, Maybe
  <2> QED
    BY <2>1, <2>2, SameBounds
    DEF TypeInv, ServerTypes, LinkTypes, ChatTypes, SendTypes, RowTypes, BoundTypes, saveRest
<1>13. CASE Restart
  <2>1. /\ UNCHANGED <<serverVars, linkVars, written, db, logins>> /\ kept' \subseteq kept
        /\ chat' = <<>> /\ merge' = <<>> /\ known' = {} /\ bodies' = {} /\ late' = {}
        /\ carried' = FALSE /\ listening' = {} /\ dirty' = "no" /\ putting' = <<>>
        /\ restarts < MaxRestarts /\ restarts' = restarts + 1
    BY <1>13 DEF Restart
  <2>2. restarts' \in 0 .. MaxRestarts
    BY <2>1, Bounds DEF TypeInv, BoundTypes
  <2> QED
    BY <2>1, <2>2, SameBounds
    DEF TypeInv, ServerTypes, LinkTypes, ChatTypes, SendTypes, RowTypes, BoundTypes, Maybe
<1>14. CASE UNCHANGED vars
  BY <1>14, SameBounds
  DEF TypeInv, ServerTypes, LinkTypes, ChatTypes, SendTypes, RowTypes, BoundTypes, vars
<1>15. ASSUME NEW g \in Own, Compose(g) \/ Resend(g) PROVE TypeInv'
  BY <1>8, <1>15 DEF Compose, Resend, HasFailed, TypeInv, SendTypes
<1>16. CASE DatabaseFails
  <2>1. /\ UNCHANGED <<serverVars, linkVars, chatVars, sendVars, db, boundVars>>
        /\ merge' \in {merge, <<>>} /\ putting' \in {putting, <<>>} /\ kept' \subseteq kept
        /\ dirty' \in {dirty, "no"}
    BY <1>16 DEF DatabaseFails, MergeFails, SaveFails, PutFails, saveRest
  <2>2. Maybe(merge', MergeIn) /\ Maybe(putting', RowIn)
    BY <2>1 DEF TypeInv, RowTypes, Maybe
  <2> QED
    BY <2>1, <2>2, SameBounds
    DEF TypeInv, ServerTypes, LinkTypes, ChatTypes, SendTypes, RowTypes, BoundTypes
<1> QED
  BY <1>1, <1>2, <1>3, <1>4, <1>5, <1>6, <1>7, <1>9, <1>10, <1>11, <1>12, <1>13, <1>14, <1>15,
     <1>16
  DEF Next, OwnMessage, DatabaseFails

\* No action brings the client, or the model of the server, into a state of another
\* type, for any messages, bounds and backlog (TypeOK).
THEOREM TypeCorrect == Spec => []TypeOK
<1>1. TypeInv => TypeOK
  <2> SUFFICES ASSUME TypeInv PROVE TypeOK
    OBVIOUS
  <2>1. log \in Seq(Own \cup {Other}) /\ Len(log) \in Nat
    BY DEF TypeInv, ServerTypes
  <2>2. Ends \subseteq Nat /\ Indexes \subseteq Nat \ {0}
    BY <2>1 DEF Ends
  <2>3. chat \in Seq(Chat) /\ Len(chat) <= 1
    <3>1. ChatIn \subseteq Chat
      BY <2>2 DEF ChatIn, Chat
    <3> QED
      BY <3>1, MaybeIsSeq DEF Maybe, TypeInv, ChatTypes
  <2>4. RowIn \subseteq Row /\ ListIn \subseteq List
    BY <2>2 DEF RowIn, Row, ListIn, List
  <2>5. merge \in Seq([list : List, indexes : SUBSET (Nat \ {0}), row : Row]) /\ Len(merge) <= 1
    <3>1. MergeIn \subseteq [list : List, indexes : SUBSET (Nat \ {0}), row : Row]
      BY <2>2, <2>4 DEF MergeIn
    <3> QED
      BY <3>1, MaybeIsSeq DEF Maybe, TypeInv, RowTypes
  <2>6. putting \in Seq(Row) /\ Len(putting) <= 1 /\ db \in Row
    BY <2>4, MaybeIsSeq DEF Maybe, TypeInv, RowTypes
  <2> QED
    BY <2>3, <2>4, <2>5, <2>6
    DEF TypeOK, TypeInv, ServerTypes, LinkTypes, ChatTypes, SendTypes, BoundTypes
<1> QED
  BY <1>1, TypeInit, TypeStep, PTL DEF Spec

\* Types hold at all times; for the proofs below.
LEMMA Typed == Spec => []TypeInv
BY TypeInit, TypeStep, PTL DEF Spec

(***************************************************************************)
(* What the steps do to the chat                                           *)
(***************************************************************************)

\* The steps of the server, of the connection and of the saving, and those that do
\* nothing, leave the cache alone.
LEMMA CacheAlone ==
  ASSUME StoreOther \/ (\E g \in Own : StoreOwn(g)) \/ Login \/ Break \/ Save \/ Put
         \/ DatabaseFails \/ UNCHANGED vars
  PROVE  UNCHANGED chatVars
BY DEF StoreOther, StoreOwn, Login, Break, Save, Put, DatabaseFails, MergeFails,
       SaveFails, PutFails, vars, clientVars, saveRest

\* The others store messages of the server, store or drop a message of the user, end
\* a merge or a session.
LEMMA CacheSteps ==
  ASSUME TypeInv, [Next]_vars
  PROVE  \/ UNCHANGED chatVars
         \/ /\ \E is \in SUBSET Indexes : StoreMessages(is)
            /\ UNCHANGED <<log, bodies>>
         \/ /\ \E g \in Own : StoreLocal(g)
            /\ chat # <<>> /\ UNCHANGED <<log, known, carried>>
         \/ \E g \in Own : Delete(g)
         \/ FinishMerge
         \/ Restart
<1>1. CASE StoreOther \/ (\E g \in Own : StoreOwn(g)) \/ Login \/ Break \/ Save \/ Put
           \/ DatabaseFails \/ UNCHANGED vars
  BY <1>1, CacheAlone
<1>2. CASE ReceiveList
  <2>1. sent \in ListIn /\ Len(log) \in Nat
    BY DEF TypeInv, LinkTypes, ServerTypes
  <2>2. {sent.last} \ {0} \in SUBSET Indexes
    BY <2>1 DEF ListIn, Ends
  <2> QED
    BY <1>2, <2>2 DEF ReceiveList, serverVars
<1>3. ASSUME NEW is \in SUBSET Indexes, Receive(is) PROVE StoreMessages(is) /\ UNCHANGED <<log, bodies>>
  BY <1>3 DEF Receive, serverVars
<1>4. ASSUME NEW g \in Own, Compose(g) \/ Resend(g)
      PROVE  StoreLocal(g) /\ chat # <<>> /\ UNCHANGED <<log, known, carried>>
  BY <1>4 DEF Compose, Resend, Send, HasFailed, writeRest
<1>5. ASSUME NEW g \in Own, Fail(g)
      PROVE  StoreLocal(g) /\ chat # <<>> /\ UNCHANGED <<log, known, carried>>
  BY <1>5 DEF Fail, writeRest, TypeInv, SendTypes
<1> QED
  BY <1>1, <1>2, <1>3, <1>4, <1>5, Zenon DEF Next, OwnMessage, DatabaseFails

(***************************************************************************)
(* A message of the user is not shown twice                                *)
(***************************************************************************)
LEMMA ShownStep == TypeInv /\ ShownOnce /\ [Next]_vars => ShownOnce'
<1> SUFFICES ASSUME TypeInv, ShownOnce, [Next]_vars PROVE ShownOnce'
  OBVIOUS
<1>1. CASE UNCHANGED chatVars
  BY <1>1 DEF ShownOnce, chatVars
<1>2. ASSUME NEW is \in SUBSET Indexes, StoreMessages(is), UNCHANGED <<log, bodies>>
      PROVE  ShownOnce'
  <2>1. /\ known' = known \cup (Gids(is) \cap Own)
        /\ chat = <<>> => UNCHANGED <<chat, carried, dirty, late>>
        /\ chat # <<>> => chat' # <<>> /\ chat'[1].local = TheChat.local \ Gids(is)
                          /\ late' = late \ Gids(is)
    BY <1>2, Stored
  <2> QED
    BY <1>2, <2>1 DEF ShownOnce
<1>3. ASSUME NEW g \in Own, StoreLocal(g), chat # <<>>, UNCHANGED <<log, known, carried>>
      PROVE  ShownOnce'
  <2>1. /\ chat'[1].local = TheChat.local \cup {g} /\ bodies' = bodies \cup {g}
        /\ late' = IF g \in known THEN late \cup {g} ELSE late
    BY <1>3, LocalStored
  <2> QED
    BY <1>3, <2>1 DEF ShownOnce
<1>4. ASSUME NEW g \in Own, Delete(g) PROVE ShownOnce'
  <2>1. /\ chat # <<>> /\ chat' = <<[TheChat EXCEPT !.local = @ \ {g}]>>
        /\ bodies' = bodies \ {g} /\ late' = late \ {g} /\ known' = known
    BY <1>4 DEF Delete, HasFailed, writeRest
  <2>2. chat'[1].local = TheChat.local \ {g}
    BY <2>1, BoundedChat DEF ChatIn
  <2> QED
    BY <2>1, <2>2 DEF ShownOnce
<1>5. CASE FinishMerge
  <2>1. /\ chat' = <<Merged(merge[1])>> /\ late' = merge[1].row.local \cap known'
    BY <1>5 DEF FinishMerge
  <2>2. chat'[1].local = merge[1].row.local
    BY <2>1, OneElement DEF Merged
  <2> QED
    BY <2>1, <2>2 DEF ShownOnce
<1>6. CASE Restart
  BY <1>6 DEF Restart, ShownOnce
<1> QED
  BY <1>1, <1>2, <1>3, <1>4, <1>5, <1>6, CacheSteps

\* Whatever is pushed, loaded, lost or repeated, and however connections break, a
\* message of the user is not shown both as sent and as failed, unless it was given up,
\* sent again or restored when it was known to be sent (ShownOnce).
THEOREM ShownOnlyOnce == Spec => []ShownOnce
<1>1. Init => ShownOnce
  BY DEF Init, ShownOnce
<1> QED
  BY <1>1, Typed, ShownStep, PTL DEF Spec

(***************************************************************************)
(* The list of indexes is whole                                            *)
(***************************************************************************)
LEMMA WholeStep == TypeInv /\ ListWhole /\ [Next]_vars => ListWhole'
<1> SUFFICES ASSUME TypeInv, ListWhole, [Next]_vars PROVE ListWhole'
  OBVIOUS
<1>1. CASE UNCHANGED chatVars
  BY <1>1 DEF ListWhole, chatVars, Whole
<1>2. ASSUME NEW is \in SUBSET Indexes, StoreMessages(is), UNCHANGED <<log, bodies>>
      PROVE  ListWhole'
  <2>1. CASE chat = <<>>
    BY <1>2, <2>1 DEF StoreMessages, ListWhole
  <2>2. CASE chat # <<>>
    <3>1. carried' = (carried /\ ~Whole(chat'[1])) /\ (Whole(TheChat) => Whole(chat'[1]))
      BY <1>2, <2>2, Stored
    <3>2. CASE carried' = FALSE
      <4>1. Whole(chat'[1])
        BY <2>2, <3>1, <3>2, Zenon DEF ListWhole
      <4> QED
        BY <4>1 DEF ListWhole, Whole
    <3>3. CASE carried' = TRUE
      BY <3>3 DEF ListWhole
    <3> QED
      BY <3>1, <3>2, <3>3
  <2> QED
    BY <2>1, <2>2
<1>3. ASSUME NEW g \in Own, StoreLocal(g), chat # <<>>, UNCHANGED <<log, known, carried>>
      PROVE  ListWhole'
  <2>1. chat'[1].last = TheChat.last /\ chat'[1].list = TheChat.list
    BY <1>3, LocalStored
  <2> QED
    BY <1>3, <2>1 DEF ListWhole, Whole
<1>4. ASSUME NEW g \in Own, Delete(g) PROVE ListWhole'
  <2>1. chat # <<>> /\ chat' = <<[TheChat EXCEPT !.local = @ \ {g}]>> /\ carried' = carried
    BY <1>4 DEF Delete, HasFailed, writeRest
  <2>2. chat'[1].last = TheChat.last /\ chat'[1].list = TheChat.list
    BY <2>1, BoundedChat DEF ChatIn
  <2> QED
    BY <2>1, <2>2 DEF ListWhole, Whole
<1>5. CASE FinishMerge
  <2>1. carried' = ~Whole(chat'[1])
    BY <1>5 DEF FinishMerge
  <2> QED
    BY <2>1 DEF ListWhole, Whole
<1>6. CASE Restart
  BY <1>6 DEF Restart, ListWhole
<1> QED
  BY <1>1, <1>2, <1>3, <1>4, <1>5, <1>6, CacheSteps

\* Whatever order messages arrive in, the list of indexes to show is unbroken up to the
\* last message, unless it is still the one carried over a list of chats (ListWhole).
THEOREM ListIsWhole == Spec => []ListWhole
<1>1. Init => ListWhole
  BY DEF Init, ListWhole
<1> QED
  BY <1>1, Typed, WholeStep, PTL DEF Spec

(***************************************************************************)
(* A saved message is kept until it is sent                                *)
(***************************************************************************)

\* A message in kept is not at the server, and is wherever the list of messages to
\* send may next be taken from: in the chat, in the row a merge has read, and in the
\* table, or in the row that goes to it when it has been cleared.
KeptWhere(g) ==
  /\ g \notin Gids(Indexes)
  /\ chat # <<>> => g \in TheChat.local
  /\ merge # <<>> => g \in merge[1].row.local
  /\ IF putting = <<>> THEN g \in db.local ELSE g \in putting[1].local
KeptInv == \A g \in kept : KeptWhere(g)

LEMMA KeptStep == TypeInv /\ KeptInv /\ [Next]_vars => KeptInv'
<1> SUFFICES ASSUME TypeInv, KeptInv, [Next]_vars, NEW k \in kept' PROVE KeptWhere(k)'
  BY DEF KeptInv
<1> USE DEF serverVars, linkVars, chatVars, sendVars, dbVars, boundVars
<1>1. CASE StoreOther
  <2>1. /\ log' = Append(log, Other) /\ UNCHANGED <<sent, chat, merge, db, putting, kept>>
    BY <1>1 DEF StoreOther, clientVars
  <2>2. Gids(Indexes)' = Gids(Indexes) \cup {Other}
    BY <2>1, Grown
  <2>3. KeptWhere(k) /\ k # Other
    BY <2>1, Bounds DEF KeptInv, TypeInv, SendTypes
  <2> QED
    BY <2>1, <2>2, <2>3 DEF KeptWhere
<1>2. ASSUME NEW g \in Own, StoreOwn(g) PROVE KeptWhere(k)'
  <2>1. UNCHANGED <<sent, chat, merge, db, putting>> /\ kept' = kept \ {g}
    BY <1>2 DEF StoreOwn, clientVars
  <2>2. Gids(Indexes)' \subseteq Gids(Indexes) \cup {g}
    <3>1. CASE log' = log
      BY <3>1, SameBounds
    <3>2. CASE log' = Append(log, g)
      BY <2>1, <3>2, Grown
    <3> QED
      BY <1>2, <3>1, <3>2 DEF StoreOwn
  <2>3. KeptWhere(k) /\ k # g
    BY <2>1 DEF KeptInv
  <2> QED
    BY <2>1, <2>2, <2>3 DEF KeptWhere
<1>3. ASSUME log' = log, UNCHANGED <<chat, merge, db, putting>>, kept' \subseteq kept
      PROVE  KeptWhere(k)'
  BY <1>3, SameBounds DEF KeptInv, KeptWhere
<1>4. CASE Login \/ Break \/ UNCHANGED vars
  BY <1>3, <1>4 DEF Login, Break, vars
<1>5. ASSUME NEW is \in SUBSET Indexes, StoreMessages(is), UNCHANGED <<log, bodies>>, k \in kept
      PROVE  chat' # <<>> => k \in chat'[1].local
  <2>1. chat = <<>> => chat' = <<>>
    BY <1>5, Stored
  <2>2. ASSUME chat # <<>> PROVE chat'[1].local = TheChat.local \ Gids(is)
    BY <1>5, <2>2, Stored
  <2>3. KeptWhere(k) /\ Gids(is) \subseteq Gids(Indexes)
    BY <1>5 DEF KeptInv, Gids
  <2> QED
    BY <2>1, <2>2, <2>3 DEF KeptWhere
<1>6. CASE ReceiveList
  <2>1. /\ UNCHANGED <<log, bodies, db, putting>> /\ kept' = IF putting = <<>> THEN kept ELSE {}
        /\ StoreMessages({sent.last} \ {0})
        /\ merge' = <<[list |-> sent, row |-> db,
                       indexes |-> IF chat = <<>> THEN {} ELSE TheChat.list]>>
    BY <1>6 DEF ReceiveList
  <2>2. k \in kept /\ putting = <<>> /\ KeptWhere(k)
    BY <2>1 DEF KeptInv
  <2>3. merge'[1].row = db
    BY <2>1, OneElement
  <2>4. {sent.last} \ {0} \in SUBSET Indexes
    <3>1. sent \in ListIn /\ Len(log) \in Nat
      BY DEF TypeInv, LinkTypes, ServerTypes
    <3> QED
      BY <3>1 DEF ListIn, Ends
  <2>5. chat' # <<>> => k \in chat'[1].local
    BY <1>5, <2>1, <2>2, <2>4
  <2> QED
    BY <2>1, <2>2, <2>3, <2>5, SameBounds DEF KeptWhere
<1>7. ASSUME NEW is \in SUBSET Indexes, Receive(is) PROVE KeptWhere(k)'
  <2>1. StoreMessages(is) /\ UNCHANGED <<log, bodies, merge, db, putting, kept>>
    BY <1>7 DEF Receive
  <2>2. KeptWhere(k) /\ (chat' # <<>> => k \in chat'[1].local)
    BY <1>5, <2>1 DEF KeptInv
  <2> QED
    BY <2>1, <2>2, SameBounds DEF KeptWhere
<1>8. CASE FinishMerge
  <2>1. /\ UNCHANGED <<log, db, putting, kept>> /\ merge # <<>> /\ merge' = <<>>
        /\ chat' = <<Merged(merge[1])>>
    BY <1>8 DEF FinishMerge
  <2>2. chat'[1].local = merge[1].row.local
    BY <2>1, OneElement DEF Merged
  <2>3. KeptWhere(k)
    BY <2>1 DEF KeptInv
  <2> QED
    BY <2>1, <2>2, <2>3, SameBounds DEF KeptWhere
<1>9. ASSUME NEW g \in Own, StoreLocal(g), chat # <<>>,
             UNCHANGED <<log, known, carried, merge, db, putting, kept>>
      PROVE  KeptWhere(k)'
  <2>1. chat'[1].local = TheChat.local \cup {g}
    BY <1>9, LocalStored
  <2>2. KeptWhere(k)
    BY <1>9 DEF KeptInv
  <2> QED
    BY <1>9, <2>1, <2>2, SameBounds DEF KeptWhere
<1>10. ASSUME NEW g \in Own, Compose(g) \/ Resend(g) \/ Fail(g) PROVE KeptWhere(k)'
  <2>1. /\ StoreLocal(g) /\ chat # <<>>
        /\ UNCHANGED <<log, known, carried, merge, db, putting, kept>>
    BY <1>10 DEF Compose, Resend, Fail, Send, HasFailed, writeRest, TypeInv, SendTypes
  <2> QED
    BY <1>9, <2>1
<1>11. ASSUME NEW g \in Own, Delete(g) PROVE KeptWhere(k)'
  <2>1. /\ chat # <<>> /\ chat' = <<[TheChat EXCEPT !.local = @ \ {g}]>>
        /\ kept' = kept \ {g} /\ UNCHANGED <<log, merge, db, putting>>
    BY <1>11 DEF Delete, HasFailed, writeRest
  <2>2. chat'[1].local = TheChat.local \ {g}
    BY <2>1, BoundedChat DEF ChatIn
  <2>3. KeptWhere(k) /\ k # g
    BY <2>1 DEF KeptInv
  <2> QED
    BY <2>1, <2>2, <2>3, SameBounds DEF KeptWhere
<1>12. CASE Save
  <2>1. PICK row : row = [last |-> TheChat.last, local |-> TheChat.local]
    OBVIOUS
  <2>2. /\ dirty # "no" /\ UNCHANGED <<log, chat, merge>> /\ row.local = TheChat.local
        /\ \/ db' = row /\ putting' = putting
           \/ putting = <<>> /\ putting' = <<row>>
        /\ kept' = IF merge = <<>> /\ putting = <<>>
                   THEN kept \cup (TheChat.local \ Gids(Indexes)) ELSE kept
    BY <1>12, <2>1 DEF Save, saveRest
  <2>3. chat # <<>>
    BY <2>2 DEF TypeInv, SendTypes
  <2>4. k \notin Gids(Indexes) /\ k \in TheChat.local /\ (merge # <<>> => k \in merge[1].row.local)
        /\ (putting # <<>> => k \in putting[1].local)
    <3>1. CASE k \in kept
      BY <2>3, <3>1 DEF KeptInv, KeptWhere
    <3>2. CASE k \notin kept
      BY <2>2, <3>2
    <3> QED
      BY <3>1, <3>2
  <2>5. putting' = <<row>> => putting' # <<>> /\ putting'[1] = row
    BY OneElement
  <2> QED
    BY <2>2, <2>4, <2>5, SameBounds DEF KeptWhere
<1>13. CASE Put
  BY <1>13, SameBounds DEF Put, saveRest, KeptInv, KeptWhere
<1>14. CASE Restart
  <2>1. /\ UNCHANGED <<log, db>> /\ kept' = IF putting = <<>> THEN kept ELSE {}
        /\ chat' = <<>> /\ merge' = <<>> /\ putting' = <<>>
    BY <1>14 DEF Restart
  <2>2. putting = <<>> /\ KeptWhere(k)
    BY <2>1 DEF KeptInv
  <2> QED
    BY <2>1, <2>2, SameBounds DEF KeptWhere
<1>15. CASE MergeFails \/ SaveFails
  <2>1. UNCHANGED <<log, chat, db, putting, kept>> /\ merge' \in {merge, <<>>}
    BY <1>15 DEF MergeFails, SaveFails, saveRest
  <2>2. KeptWhere(k)
    BY <2>1 DEF KeptInv
  <2> QED
    BY <2>1, <2>2, SameBounds DEF KeptWhere
<1>16. CASE PutFails
  <2>1. /\ UNCHANGED <<log, chat, merge, db>> /\ putting' = <<>>
        /\ k \in kept /\ k \in db.local
    BY <1>16 DEF PutFails, saveRest
  <2>2. KeptWhere(k)
    BY <2>1 DEF KeptInv
  <2> QED
    BY <2>1, <2>2, SameBounds DEF KeptWhere
<1> QED
  BY <1>1, <1>2, <1>4, <1>6, <1>7, <1>8, <1>10, <1>11, <1>12, <1>13, <1>14, <1>15, <1>16, Zenon
  DEF Next, OwnMessage

\* A message of the user that was saved when nothing else was under way stays on the
\* list of messages to send through merges, saves that succeed or fail, broken
\* connections and restarts, until the server has it or the user deletes it, or the
\* table is cleared and the row cannot be put (KeptUntilSent).
THEOREM SavedIsKept == Spec => []KeptUntilSent
<1>1. Init => KeptInv
  BY DEF Init, KeptInv
<1>2. KeptInv => KeptUntilSent
  BY DEF KeptInv, KeptWhere, KeptUntilSent
<1> QED
  BY <1>1, <1>2, Typed, KeptStep, PTL DEF Spec

(***************************************************************************)
(* The server's data is not taken for rolled back                          *)
(***************************************************************************)

\* While a list of chats that was read is on its way, nothing the client has, and
\* nothing a merge may bring, goes beyond it; and the row a merge compares it with is
\* from before.
NothingBeyond(n) ==
  /\ chat # <<>> => TheChat.last <= n
  /\ merge # <<>> => merge[1].list.last <= n /\ merge[1].row.last <= n
  /\ db.last <= n
  /\ putting # <<>> => putting[1].last <= n
ListInv ==
  /\ link = "listed" /\ ~sent.failed => NothingBeyond(sent.last)
  /\ merge # <<>> /\ ~merge[1].list.failed => merge[1].row.last <= merge[1].list.last

LEMMA ListStep == TypeInv /\ ListInv /\ [Next]_vars => ListInv'
<1> SUFFICES ASSUME TypeInv, ListInv, [Next]_vars PROVE ListInv'
  OBVIOUS
<1> USE DEF serverVars, linkVars, chatVars, sendVars, dbVars, boundVars
<1>1. ASSUME UNCHANGED <<link, sent, chat, merge, db, putting>> PROVE ListInv'
  BY <1>1 DEF ListInv, NothingBeyond
<1>2. CASE StoreOther \/ (\E g \in Own : StoreOwn(g)) \/ UNCHANGED vars
  BY <1>1, <1>2 DEF StoreOther, StoreOwn, clientVars, vars
<1>3. CASE Login
  <2>1. PICK failed \in BOOLEAN : sent' = [last |-> IF failed THEN 0 ELSE Len(log), failed |-> failed]
    BY <1>3 DEF Login
  <2>2. UNCHANGED <<log, chat, merge, db, putting>>
    BY <1>3 DEF Login
  <2>3. NothingBeyond(Len(log))
    <3>1. Len(log) \in Nat /\ Maybe(merge, MergeIn) /\ db \in RowIn /\ Maybe(putting, RowIn)
      BY DEF TypeInv, ServerTypes, RowTypes
    <3>2. \A row \in RowIn : row.last <= Len(log)
      BY <3>1 DEF RowIn, Ends
    <3>3. \A m \in MergeIn : m.list.last <= Len(log) /\ m.row \in RowIn
      BY <3>1 DEF MergeIn, ListIn, Ends
    <3>4. chat # <<>> => TheChat.last <= Len(log)
      BY BoundedChat
    <3> QED
      BY <3>1, <3>2, <3>3, <3>4 DEF Maybe, NothingBeyond
  <2>4. ~sent'.failed => sent'.last = Len(log)
    BY <2>1
  <2> QED
    BY <2>2, <2>3, <2>4 DEF ListInv, NothingBeyond
<1>4. CASE Break
  BY <1>4 DEF Break, ListInv
<1>5. CASE ReceiveList
  <2>1. /\ link = "listed" /\ link' = "on"
        /\ merge' = <<[list |-> sent, row |-> db,
                       indexes |-> IF chat = <<>> THEN {} ELSE TheChat.list]>>
    BY <1>5 DEF ReceiveList
  <2>2. merge'[1].list = sent /\ merge'[1].row = db
    BY <2>1, OneElement
  <2> QED
    BY <2>1, <2>2 DEF ListInv, NothingBeyond
<1>6. ASSUME NEW is \in SUBSET Indexes, Receive(is) PROVE ListInv'
  BY <1>6 DEF Receive, ListInv
<1>7. CASE FinishMerge
  <2>1. /\ UNCHANGED <<link, sent, db, putting>> /\ merge # <<>> /\ merge' = <<>>
        /\ chat' = <<Merged(merge[1])>>
    BY <1>7 DEF FinishMerge
  <2>2. chat'[1].last = merge[1].list.last
    BY <2>1, OneElement DEF Merged
  <2> QED
    BY <2>1, <2>2 DEF ListInv, NothingBeyond
<1>8. ASSUME UNCHANGED <<link, sent, merge, db, putting>>, chat # <<>>, chat'[1].last = TheChat.last
      PROVE  ListInv'
  BY <1>8 DEF ListInv, NothingBeyond
<1>9. ASSUME NEW g \in Own, Compose(g) \/ Resend(g) \/ Fail(g) PROVE ListInv'
  <2>1. /\ StoreLocal(g) /\ chat # <<>>
        /\ UNCHANGED <<log, known, carried, link, sent, merge, db, putting>>
    BY <1>9 DEF Compose, Resend, Fail, Send, HasFailed, writeRest, TypeInv, SendTypes
  <2>2. chat'[1].last = TheChat.last
    BY <2>1, LocalStored
  <2> QED
    BY <1>8, <2>1, <2>2
<1>10. ASSUME NEW g \in Own, Delete(g) PROVE ListInv'
  <2>1. /\ chat # <<>> /\ chat' = <<[TheChat EXCEPT !.local = @ \ {g}]>>
        /\ UNCHANGED <<link, sent, merge, db, putting>>
    BY <1>10 DEF Delete, HasFailed, writeRest
  <2>2. chat'[1].last = TheChat.last
    BY <2>1, BoundedChat DEF ChatIn
  <2> QED
    BY <1>8, <2>1, <2>2
<1>11. CASE Save
  <2>1. PICK row : row = [last |-> TheChat.last, local |-> TheChat.local]
    OBVIOUS
  <2>2. /\ dirty # "no" /\ UNCHANGED <<link, sent, chat, merge>> /\ row.last = TheChat.last
        /\ \/ db' = row /\ putting' = putting
           \/ db' = NoRow /\ putting' = <<row>>
    BY <1>11, <2>1 DEF Save, saveRest
  <2>3. chat # <<>>
    BY <2>2 DEF TypeInv, SendTypes
  <2>4. putting' = <<row>> => putting' # <<>> /\ putting'[1] = row
    BY OneElement
  <2>5. NoRow.last <= sent.last
    BY DEF NoRow, TypeInv, LinkTypes, ListIn, Ends
  <2> QED
    BY <2>2, <2>3, <2>4, <2>5 DEF ListInv, NothingBeyond
<1>12. CASE Put
  BY <1>12 DEF Put, saveRest, ListInv, NothingBeyond
<1>13. CASE Restart
  BY <1>13 DEF Restart, ListInv
<1>14. CASE DatabaseFails
  <2>1. /\ UNCHANGED <<link, sent, chat, db>> /\ merge' \in {merge, <<>>}
        /\ putting' \in {putting, <<>>}
    BY <1>14 DEF DatabaseFails, MergeFails, SaveFails, PutFails, saveRest
  <2> QED
    BY <2>1 DEF ListInv, NothingBeyond
<1> QED
  BY <1>2, <1>3, <1>4, <1>5, <1>6, <1>7, <1>9, <1>10, <1>11, <1>12, <1>13, <1>14, Zenon
  DEF Next, OwnMessage, DatabaseFails

\* The client takes the server's data for rolled back, and clears its messages, only
\* when the last messages could not be read, however late rows are written and merges
\* end (NoFalseRollback).
THEOREM OnlyFailuresRollBack == Spec => []NoFalseRollback
<1>1. Init => ListInv
  BY DEF Init, ListInv
<1>2. TypeInv /\ ListInv => NoFalseRollback
  <2> SUFFICES ASSUME TypeInv, ListInv, merge # <<>>, RolledBack(merge[1]), ~merge[1].list.failed
               PROVE  FALSE
    BY DEF NoFalseRollback
  <2>1. merge[1] \in MergeIn /\ Len(log) \in Nat
    BY DEF TypeInv, RowTypes, ServerTypes, Maybe
  <2>2. merge[1].list.last \in Nat /\ merge[1].row.last \in Nat
    BY <2>1 DEF MergeIn, ListIn, RowIn, Ends
  <2> QED
    BY <2>2 DEF RolledBack, ListInv
<1> QED
  BY <1>1, <1>2, Typed, ListStep, PTL DEF Spec
=============================================================================
