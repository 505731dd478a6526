-------------------------- MODULE MessageLogProofs --------------------------
(***************************************************************************)
(* Theorems about MessageLog, for any number of chats, users, messages and *)
(* requests and any batches, faults and restarts.                          *)
(***************************************************************************)
EXTENDS MessageLog, SequenceTheorems, TLAPS

-----------------------------------------------------------------------------
(* Types. A request that has not reached its messages is at position 1.    *)

EarlySteps == {"idle", "find", "create", "created", "fill", "permit",
               "committer", "members", "statuses"}
AtStart == \A r \in Reqs : pc[r] \in EarlySteps => at[r] = 1
TypeInv == TypeOK /\ AtStart

LEMMA ConstantTypes ==
  /\ \A r \in Reqs :
       /\ Len(Batch[r]) \in Nat \ {0}
       /\ \A k \in 1 .. Len(Batch[r]) : Batch[r][k] \in Gids
       /\ Chat(r) \in Chats
  /\ \A g \in Gids : ChatOf[g] \in Chats
  /\ \A c \in Chats :
       /\ Len(MembersOf[c]) \in Nat \ {0}
       /\ \A k \in 1 .. Len(MembersOf[c]) : MembersOf[c][k] \in Users
       /\ Members(c) \subseteq Users
<1>1. ASSUME NEW r \in Reqs
      PROVE  /\ Len(Batch[r]) \in Nat \ {0}
             /\ \A k \in 1 .. Len(Batch[r]) : Batch[r][k] \in Gids
  <2>1. Batch[r] \in Seq(Gids) /\ Batch[r] # <<>>
    BY MessageLogAssumption
  <2> QED
    BY <2>1
<1>2. ASSUME NEW c \in Chats
      PROVE  /\ Len(MembersOf[c]) \in Nat \ {0}
             /\ \A k \in 1 .. Len(MembersOf[c]) : MembersOf[c][k] \in Users
  <2>1. MembersOf[c] \in Seq(Users) /\ MembersOf[c] # <<>>
    BY MessageLogAssumption
  <2> QED
    BY <2>1
<1>3. \A g \in Gids : ChatOf[g] \in Chats
  BY MessageLogAssumption
<1> QED
  BY <1>1, <1>2, <1>3 DEF Chat, Members

LEMMA TypeInit == Init => TypeInv
<1> SUFFICES ASSUME Init PROVE TypeInv
  OBVIOUS
<1>1. Types
  BY ConstantTypes DEF Init, Types, Steps
<1>2. Placed /\ AtStart
  BY DEF Init, Placed, AtStart
<1> QED
  BY <1>1, <1>2 DEF TypeInv, TypeOK

\* the message a request has reached while it stores it
LEMMA Reached ==
  ASSUME TypeOK, NEW r \in Reqs, pc[r] \in {"dedup", "lock", "insert", "commit"}
  PROVE  /\ at[r] \in 1 .. Len(Batch[r])
         /\ Gid(r) \in Gids
         /\ Home(r) \in Chats
  BY ConstantTypes DEF TypeOK, Placed, Gid, Home

\* the positions stay good when one request moves on to a good one
LEMMA Moved ==
  ASSUME TypeInv, NEW r \in Reqs, NEW step \in Steps, Goto(r, step),
         NEW n \in Nat, at' = [at EXCEPT ![r] = n],
         step \in {"join", "joining"} => n \in 1 .. Len(MembersOf[Chat(r)]),
         step \in {"dedup", "lock", "insert", "commit"}
           => n \in 1 .. Len(Batch[r]),
         step \in EarlySteps => n = 1
  PROVE  /\ pc' \in [Reqs -> Steps] /\ at' \in [Reqs -> Nat]
         /\ Placed' /\ AtStart'
<1>1. pc \in [Reqs -> Steps] /\ at \in [Reqs -> Nat]
  BY DEF TypeInv, TypeOK, Types
<1>2. /\ pc'[r] = step /\ at'[r] = n
      /\ \A s \in Reqs \ {r} : pc'[s] = pc[s] /\ at'[s] = at[s]
      /\ pc' \in [Reqs -> Steps] /\ at' \in [Reqs -> Nat]
  BY <1>1 DEF Goto
<1>3. \A s \in Reqs : Chat(s)' = Chat(s)
  BY DEF Chat
<1>4. Placed'
  BY <1>2, <1>3 DEF Placed, TypeInv, TypeOK
<1>5. AtStart'
  BY <1>2 DEF AtStart, TypeInv
<1> QED
  BY <1>2, <1>4, <1>5

LEMMA MovedOnly ==
  ASSUME TypeInv, NEW r \in Reqs, NEW step \in Steps, Goto(r, step),
         UNCHANGED at,
         step \in {"join", "joining"} => at[r] \in 1 .. Len(MembersOf[Chat(r)]),
         step \in {"dedup", "lock", "insert", "commit"}
           => at[r] \in 1 .. Len(Batch[r]),
         step \in EarlySteps => at[r] = 1
  PROVE  /\ pc' \in [Reqs -> Steps] /\ at' \in [Reqs -> Nat]
         /\ Placed' /\ AtStart'
<1>1. at' = [at EXCEPT ![r] = at[r]] /\ at[r] \in Nat
  BY DEF TypeInv, TypeOK, Types
<1> QED
  BY <1>1, Moved

LEMMA TypeFind ==
  ASSUME TypeInv, NEW r \in Reqs,
         Begin(r) \/ FindChat(r) \/ FindFails(r) \/ CreateChat(r)
  PROVE  TypeInv'
<1> USE DEF dbVars, taskVars, fetchVars, pastVars, envVars
<1>0. /\ pc[r] \in EarlySteps /\ at[r] = 1
      /\ Chat(r) \in Chats /\ Len(MembersOf[Chat(r)]) \in Nat \ {0}
  BY ConstantTypes DEF TypeInv, AtStart, Begin, FindChat, FindFails, CreateChat,
     EarlySteps
<1>1. CASE Begin(r)
  <2>1. {m.gid : m \in messages} \in SUBSET Gids
    BY DEF TypeInv, TypeOK, Types
  <2>2. pc' \in [Reqs -> Steps] /\ at' \in [Reqs -> Nat] /\ Placed' /\ AtStart'
    BY <1>0, <1>1, MovedOnly DEF Begin, EarlySteps, Steps
  <2> QED
    BY <1>1, <2>1, <2>2 DEF TypeInv, TypeOK, Types, Begin
<1>2. CASE FindChat(r)
  <2>1. pc' \in [Reqs -> Steps] /\ at' \in [Reqs -> Nat] /\ Placed' /\ AtStart'
    BY <1>0, <1>2, MovedOnly DEF FindChat, EarlySteps, Steps
  <2> QED
    BY <1>2, <2>1 DEF TypeInv, TypeOK, Types, FindChat
<1>3. CASE FindFails(r)
  <2>1. pc' \in [Reqs -> Steps] /\ at' \in [Reqs -> Nat] /\ Placed' /\ AtStart'
    BY <1>0, <1>3, MovedOnly DEF FindFails, EarlySteps, Steps
  <2> QED
    BY <1>3, <2>1 DEF TypeInv, TypeOK, Types, FindFails, Fault
<1>4. CASE CreateChat(r)
  <2>1. pc' \in [Reqs -> Steps] /\ at' \in [Reqs -> Nat] /\ Placed' /\ AtStart'
    BY <1>0, <1>4, MovedOnly DEF CreateChat, EarlySteps, Steps
  <2>2. rows' \in [Chats -> Nat]
    BY <1>0, <1>4 DEF CreateChat, TypeInv, TypeOK, Types
  <2> QED
    BY <1>4, <2>1, <2>2 DEF TypeInv, TypeOK, Types, CreateChat
<1> QED
  BY <1>1, <1>2, <1>3, <1>4

LEMMA TypeJoin ==
  ASSUME TypeInv, NEW r \in Reqs, JoinCheck(r) \/ JoinInsert(r)
  PROVE  TypeInv'
<1> USE DEF fetchVars, pastVars, envVars, JoinFrame
<1>0. /\ at[r] \in 1 .. Len(MembersOf[Chat(r)]) /\ at[r] \in Nat
      /\ MembersOf[Chat(r)][at[r]] \in Users
      /\ Chat(r) \in Chats /\ Len(MembersOf[Chat(r)]) \in Nat
  BY ConstantTypes DEF JoinCheck, JoinInsert, TypeInv, TypeOK, Types, Placed
<1>1. ASSUME NextMember(r)
      PROVE  pc' \in [Reqs -> Steps] /\ at' \in [Reqs -> Nat]
             /\ Placed' /\ AtStart'
  <2>1. CASE at[r] < Len(MembersOf[Chat(r)])
    <3>1. at' = [at EXCEPT ![r] = at[r] + 1] /\ Goto(r, "join")
      BY <1>1, <2>1 DEF NextMember
    <3>2. at[r] + 1 \in 1 .. Len(MembersOf[Chat(r)]) /\ at[r] + 1 \in Nat
      BY <1>0, <2>1
    <3> QED
      BY <3>1, <3>2, Moved DEF EarlySteps, Steps
  <2>2. CASE ~(at[r] < Len(MembersOf[Chat(r)]))
    <3>1. at' = [at EXCEPT ![r] = 1] /\ Goto(r, "created")
      BY <1>1, <2>2 DEF NextMember
    <3> QED
      BY <3>1, Moved DEF EarlySteps, Steps
  <2> QED
    BY <2>1, <2>2
<1>2. CASE JoinCheck(r)
  <2>1. pc' \in [Reqs -> Steps] /\ at' \in [Reqs -> Nat] /\ Placed' /\ AtStart'
    BY <1>0, <1>1, <1>2, MovedOnly DEF JoinCheck, EarlySteps, Steps
  <2> QED
    BY <1>2, <2>1 DEF TypeInv, TypeOK, Types, JoinCheck
<1>3. CASE JoinInsert(r)
  <2>1. pc' \in [Reqs -> Steps] /\ at' \in [Reqs -> Nat] /\ Placed' /\ AtStart'
    BY <1>0, <1>1, <1>3, MovedOnly DEF JoinInsert, EarlySteps, Steps
  <2>2. joined' \in [Chats -> SUBSET Users] /\ cache' \in [Chats -> SUBSET Users]
    <3>1. joined \in [Chats -> SUBSET Users] /\ cache \in [Chats -> SUBSET Users]
      BY DEF TypeInv, TypeOK, Types
    <3>2. joined[Chat(r)] \cup {MembersOf[Chat(r)][at[r]]} \in SUBSET Users
      BY <1>0, <3>1
    <3>3. \/ UNCHANGED <<joined, cache>>
          \/ /\ joined' = [joined EXCEPT ![Chat(r)] =
                             joined[Chat(r)] \cup {MembersOf[Chat(r)][at[r]]}]
             /\ cache' = [cache EXCEPT ![Chat(r)] = {}]
      BY <1>3 DEF JoinInsert
    <3> QED
      BY <3>1, <3>2, <3>3
  <2> QED
    BY <1>3, <2>1, <2>2 DEF TypeInv, TypeOK, Types, JoinInsert
<1> QED
  BY <1>2, <1>3

LEMMA TypeRead ==
  ASSUME TypeInv, NEW r \in Reqs,
         LookUp(r) \/ FillCache(r) \/ IsCommitter(r) \/ ReadStatuses(r)
           \/ ReadFails(r)
  PROVE  TypeInv'
<1> USE DEF dbVars, taskVars, fetchVars, pastVars, envVars
<1>0. /\ SenderOf[r] \in Users /\ Chat(r) \in Chats
      /\ Len(Batch[r]) \in Nat \ {0}
      /\ pc[r] \in EarlySteps /\ at[r] = 1
  BY ConstantTypes, MessageLogAssumption DEF TypeInv, AtStart, EarlySteps,
     LookUp, After, FillCache, IsCommitter, ReadStatuses, ReadFails
<1>1. CASE LookUp(r)
  <2>1. /\ After[pc[r]] \in {"permit", "committer", "statuses"}
        /\ joined[Chat(r)] \in SUBSET Users /\ cache[Chat(r)] \in SUBSET Users
    BY <1>0, <1>1 DEF LookUp, After, TypeInv, TypeOK, Types
  <2>2. pc' \in [Reqs -> Steps] /\ at' \in [Reqs -> Nat] /\ Placed' /\ AtStart'
    BY <1>0, <1>1, <2>1, MovedOnly DEF LookUp, EarlySteps, Steps
  <2> QED
    BY ZenonT(40), <1>1, <2>1, <2>2 DEF TypeInv, TypeOK, Types, LookUp
<1>2. CASE FillCache(r)
  <2>1. then[r] \in {"permit", "committer", "statuses"}
    BY DEF TypeInv, TypeOK, Types
  <2>2. pc' \in [Reqs -> Steps] /\ at' \in [Reqs -> Nat] /\ Placed' /\ AtStart'
    BY <1>0, <1>2, <2>1, MovedOnly DEF FillCache, EarlySteps, Steps
  <2> QED
    BY <1>2, <2>2 DEF TypeInv, TypeOK, Types, FillCache
<1>3. CASE IsCommitter(r)
  <2>1. pc' \in [Reqs -> Steps] /\ at' \in [Reqs -> Nat] /\ Placed' /\ AtStart'
    BY <1>0, <1>3, MovedOnly DEF IsCommitter, EarlySteps, Steps
  <2> QED
    BY <1>3, <2>1 DEF TypeInv, TypeOK, Types, IsCommitter
<1>4. ASSUME NEW us \in SUBSET Users, Address(r, us), UNCHANGED at
      PROVE  /\ pc' \in [Reqs -> Steps] /\ at' \in [Reqs -> Nat]
             /\ Placed' /\ AtStart'
             /\ push' \in [Reqs -> SUBSET Users]
             /\ offline' \in [Reqs -> SUBSET Users]
  <2>1. pc' \in [Reqs -> Steps] /\ at' \in [Reqs -> Nat] /\ Placed' /\ AtStart'
    BY <1>0, <1>4, MovedOnly DEF Address, EarlySteps, Steps
  <2>2. /\ push' \in [Reqs -> SUBSET Users]
        /\ offline' \in [Reqs -> SUBSET Users]
    BY <1>0, <1>4 DEF Address, TypeInv, TypeOK, Types
  <2> QED
    BY <2>1, <2>2
<1>5. CASE ReadStatuses(r)
  <2>1. seen[r] \in SUBSET Users
    BY DEF TypeInv, TypeOK, Types
  <2> QED
    BY <1>4, <1>5, <2>1 DEF TypeInv, TypeOK, Types, ReadStatuses
<1>6. CASE ReadFails(r)
  BY <1>4, <1>6 DEF TypeInv, TypeOK, Types, ReadFails, Fault
<1> QED
  BY <1>1, <1>2, <1>3, <1>5, <1>6

LEMMA TypeAdvance ==
  ASSUME TypeInv, NEW r \in Reqs, pc[r] \in {"dedup", "lock", "insert", "commit"},
         NEW i \in Nat, Advance(r, i)
  PROVE  /\ pc' \in [Reqs -> Steps] /\ at' \in [Reqs -> Nat]
         /\ Placed' /\ AtStart'
         /\ ids' \in [Reqs -> SUBSET Nat] /\ unsaved' \in [Reqs -> SUBSET Nat]
<1>1. /\ ids' \in [Reqs -> SUBSET Nat] /\ unsaved' \in [Reqs -> SUBSET Nat]
  <2>1. ids \in [Reqs -> SUBSET Nat] /\ unsaved \in [Reqs -> SUBSET Nat]
    BY DEF TypeInv, TypeOK, Types
  <2>2. ids' = [ids EXCEPT ![r] = ids[r] \cup {i}]
        /\ ids[r] \cup {i} \in SUBSET Nat
    BY <2>1 DEF Advance
  <2>3. ids' \in [Reqs -> SUBSET Nat]
    BY <2>1, <2>2
  <2>4. unsaved' = unsaved \/ unsaved' = [unsaved EXCEPT ![r] = ids'[r]]
    BY DEF Advance
  <2> QED
    BY <2>1, <2>3, <2>4
<1>2. at[r] \in 1 .. Len(Batch[r]) /\ at[r] \in Nat /\ Len(Batch[r]) \in Nat
  BY Reached, ConstantTypes DEF TypeInv
<1>3. CASE at[r] < Len(Batch[r])
  <2>1. at' = [at EXCEPT ![r] = at[r] + 1] /\ Goto(r, "dedup")
    BY <1>3 DEF Advance
  <2>2. at[r] + 1 \in 1 .. Len(Batch[r]) /\ at[r] + 1 \in Nat
    BY <1>2, <1>3
  <2> QED
    BY <1>1, <2>1, <2>2, Moved DEF EarlySteps, Steps
<1>4. CASE ~(at[r] < Len(Batch[r]))
  BY <1>1, <1>4, MovedOnly DEF Advance, EarlySteps, Steps
<1> QED
  BY <1>3, <1>4

LEMMA TypeStore ==
  ASSUME TypeInv, NEW r \in Reqs,
         Dedup(r) \/ DedupFails(r) \/ LockRow(r) \/ Insert(r) \/ Stored(r)
           \/ CommitUnconfirmed(r)
  PROVE  TypeInv'
<1> USE DEF fetchVars, StoreFrame
<1>0. /\ pc[r] \in {"dedup", "lock", "insert", "commit"}
      /\ at[r] \in 1 .. Len(Batch[r]) /\ Gid(r) \in Gids /\ Home(r) \in Chats
      /\ last[Home(r)] \in [index : Nat, id : Nat]
      /\ tx[r] \in [index : Nat, id : Nat]
  BY Reached DEF TypeInv, TypeOK, Types, Dedup, DedupFails, LockRow, Insert,
     Stored, CommitUnconfirmed
<1>1. CASE Dedup(r)
  <2>1. CASE Goto(r, "lock") /\ UNCHANGED <<at, ids, unsaved>>
    <3>1. pc' \in [Reqs -> Steps] /\ at' \in [Reqs -> Nat]
          /\ Placed' /\ AtStart'
      BY <1>0, <2>1, MovedOnly DEF EarlySteps, Steps
    <3> QED
      BY <1>1, <2>1, <3>1 DEF TypeInv, TypeOK, Types, Dedup
  <2>2. CASE \E i \in {m.id : m \in {n \in messages : n.gid = Gid(r)}} :
               Advance(r, i)
    <3>1. PICK i \in {m.id : m \in {n \in messages : n.gid = Gid(r)}} :
            Advance(r, i)
      BY <2>2
    <3>2. i \in Nat
      BY <3>1 DEF TypeInv, TypeOK, Types
    <3>3. /\ pc' \in [Reqs -> Steps] /\ at' \in [Reqs -> Nat]
          /\ Placed' /\ AtStart'
          /\ ids' \in [Reqs -> SUBSET Nat] /\ unsaved' \in [Reqs -> SUBSET Nat]
      BY <1>0, <3>1, <3>2, TypeAdvance
    <3> QED
      BY <1>1, <3>3 DEF TypeInv, TypeOK, Types, Dedup
  <2> QED
    BY <1>1, <2>1, <2>2 DEF Dedup
<1>2. CASE DedupFails(r)
  <2>1. pc' \in [Reqs -> Steps] /\ at' \in [Reqs -> Nat] /\ Placed' /\ AtStart'
    BY <1>0, <1>2, MovedOnly DEF DedupFails, EarlySteps, Steps
  <2>2. blind' \in [Reqs -> SUBSET {"gid", "members"}]
    BY <1>2 DEF TypeInv, TypeOK, Types, DedupFails
  <2> QED
    BY <1>2, <2>1, <2>2 DEF TypeInv, TypeOK, Types, DedupFails, Fault
<1>3. CASE LockRow(r)
  <2>1. pc' \in [Reqs -> Steps] /\ at' \in [Reqs -> Nat] /\ Placed' /\ AtStart'
    BY <1>0, <1>3, MovedOnly DEF LockRow, EarlySteps, Steps
  <2>2. lock' \in [Chats -> SUBSET Reqs] /\ tx' \in [Reqs -> [index : Nat, id : Nat]]
    <3>1. last[Home(r)].index + 1 \in Nat
      BY <1>0
    <3>2. tx \in [Reqs -> [index : Nat, id : Nat]] /\ lock \in [Chats -> SUBSET Reqs]
      BY DEF TypeInv, TypeOK, Types
    <3>3. \/ UNCHANGED <<lock, tx>>
          \/ /\ lock' = [lock EXCEPT ![Home(r)] = {r}]
             /\ tx' = [tx EXCEPT ![r].index = last[Home(r)].index + 1]
      BY <1>3 DEF LockRow
    <3>4. tx' \in [Reqs -> [index : Nat, id : Nat]]
      BY <3>1, <3>2, <3>3
    <3>5. lock' \in [Chats -> SUBSET Reqs]
      BY <3>2, <3>3
    <3> QED
      BY <3>4, <3>5
  <2> QED
    BY <1>3, <2>1, <2>2 DEF TypeInv, TypeOK, Types, LockRow
<1>4. CASE Insert(r)
  <2>1. pc' \in [Reqs -> Steps] /\ at' \in [Reqs -> Nat] /\ Placed' /\ AtStart'
    BY <1>0, <1>4, MovedOnly DEF Insert, EarlySteps, Steps
  <2>2. nextId' \in Nat /\ tx' \in [Reqs -> [index : Nat, id : Nat]]
    <3>1. tx \in [Reqs -> [index : Nat, id : Nat]] /\ nextId \in Nat
      BY DEF TypeInv, TypeOK, Types
    <3>2. tx' = [tx EXCEPT ![r].id = nextId] /\ nextId' = nextId + 1
      BY <1>4 DEF Insert
    <3> QED
      BY <3>1, <3>2
  <2> QED
    BY <1>4, <2>1, <2>2 DEF TypeInv, TypeOK, Types, Insert
<1>5. ASSUME Commit(r)
      PROVE  /\ messages' \subseteq
                  [id : Nat, gid : Gids, chat : Chats, index : Nat, by : Reqs]
             /\ last' \in [Chats -> [index : Nat, id : Nat]]
             /\ lock' \in [Chats -> SUBSET Reqs]
  BY <1>0, <1>5 DEF Commit, TypeInv, TypeOK, Types
<1>6. CASE Stored(r)
  <2>1. /\ pc' \in [Reqs -> Steps] /\ at' \in [Reqs -> Nat]
        /\ Placed' /\ AtStart'
        /\ ids' \in [Reqs -> SUBSET Nat] /\ unsaved' \in [Reqs -> SUBSET Nat]
    BY <1>0, <1>6, TypeAdvance DEF Stored
  <2> QED
    BY <1>5, <1>6, <2>1 DEF TypeInv, TypeOK, Types, Stored, Commit
<1>7. CASE CommitUnconfirmed(r)
  <2>1. pc' \in [Reqs -> Steps] /\ at' \in [Reqs -> Nat] /\ Placed' /\ AtStart'
    BY <1>0, <1>7, MovedOnly DEF CommitUnconfirmed, EarlySteps, Steps
  <2> QED
    BY <1>5, <1>7, <2>1 DEF TypeInv, TypeOK, Types, CommitUnconfirmed, Commit,
       Fault
<1> QED
  BY <1>1, <1>2, <1>3, <1>4, <1>6, <1>7

LEMMA TypeEnd ==
  ASSUME TypeInv, NEW r \in Reqs, SaveStatus(r) \/ Answer(r) \/ Fail(r)
  PROVE  TypeInv'
<1> USE DEF dbVars, taskVars, fetchVars, pastVars, envVars
<1>1. CASE SaveStatus(r)
  <2>1. PICK i \in unsaved[r] :
          /\ waiting' = waiting \cup (offline[r] \X {i})
          /\ unsaved' = [unsaved EXCEPT ![r] = @ \ {i}]
          /\ Goto(r, IF unsaved[r] = {i} THEN "answer" ELSE "save")
    BY <1>1 DEF SaveStatus
  <2>2. pc' \in [Reqs -> Steps] /\ at' \in [Reqs -> Nat] /\ Placed' /\ AtStart'
    BY <1>1, <2>1, MovedOnly DEF SaveStatus, EarlySteps, Steps
  <2>3. i \in Nat /\ offline[r] \in SUBSET Users
    BY DEF TypeInv, TypeOK, Types
  <2>4. waiting' \subseteq Users \X Nat /\ unsaved' \in [Reqs -> SUBSET Nat]
    BY <2>1, <2>3 DEF TypeInv, TypeOK, Types
  <2> QED
    BY <1>1, <2>2, <2>4 DEF TypeInv, TypeOK, Types, SaveStatus
<1>2. CASE Answer(r)
  <2>1. pc' \in [Reqs -> Steps] /\ at' \in [Reqs -> Nat] /\ Placed' /\ AtStart'
    BY <1>2, MovedOnly DEF Answer, EarlySteps, Steps
  <2> QED
    BY <1>2, <2>1 DEF TypeInv, TypeOK, Types, Answer
<1>3. CASE Fail(r)
  <2>1. pc' \in [Reqs -> Steps] /\ at' \in [Reqs -> Nat] /\ Placed' /\ AtStart'
    BY <1>3, MovedOnly DEF Fail, EarlySteps, Steps
  <2>2. lock' \in [Chats -> SUBSET Reqs]
    BY <1>3 DEF Fail, TypeInv, TypeOK, Types
  <2> QED
    BY <1>3, <2>1, <2>2 DEF TypeInv, TypeOK, Types, Fail, Fault
<1> QED
  BY <1>1, <1>2, <1>3

LEMMA TypeUser ==
  ASSUME TypeInv, NEW u \in Users, UserStep(u) PROVE TypeInv'
<1> USE DEF dbVars, taskVars, fetchVars, pastVars, envVars
<1>0. pc' = pc /\ at' = at
  BY DEF UserStep, GoOnline, GoOffline, FetchRead, FetchDelete, FetchFails
<1>1. Placed' /\ AtStart'
  BY <1>0 DEF Placed, AtStart, TypeInv, TypeOK, Chat
<1>2. CASE GoOnline(u)
  BY <1>1, <1>2 DEF TypeInv, TypeOK, Types, GoOnline
<1>3. CASE GoOffline(u)
  BY <1>1, <1>3 DEF TypeInv, TypeOK, Types, GoOffline
<1>4. CASE FetchRead(u)
  <2>1. {i \in {m.id : m \in messages} : <<u, i>> \in waiting} \in SUBSET Nat
    BY DEF TypeInv, TypeOK, Types
  <2> QED
    BY <1>1, <1>4, <2>1 DEF TypeInv, TypeOK, Types, FetchRead
<1>5. CASE FetchDelete(u)
  <2>1. reply[u] \in SUBSET Nat
    BY DEF TypeInv, TypeOK, Types
  <2>2. waiting' \subseteq Users \X Nat /\ fetched' \subseteq Users \X Nat
    BY <1>5, <2>1 DEF TypeInv, TypeOK, Types, FetchDelete
  <2> QED
    BY <1>1, <1>5, <2>2 DEF TypeInv, TypeOK, Types, FetchDelete
<1>6. CASE FetchFails(u)
  BY <1>1, <1>6 DEF TypeInv, TypeOK, Types, FetchFails, Fault
<1> QED
  BY <1>2, <1>3, <1>4, <1>5, <1>6 DEF UserStep

LEMMA TypeRest ==
  ASSUME TypeInv, Crash \/ (\E c \in Chats : Expire(c)) \/ UNCHANGED vars
  PROVE  TypeInv'
<1> USE DEF dbVars, taskVars, fetchVars, pastVars, envVars
<1>1. CASE Crash
  <2>1. pc \in [Reqs -> Steps]
    BY DEF TypeInv, TypeOK, Types
  <2>2. /\ \A s \in Reqs : pc'[s] = pc[s] \/ pc'[s] = "failed"
        /\ at' = at /\ pc' \in [Reqs -> Steps]
    BY <1>1, <2>1 DEF Crash, Steps
  <2>3. Placed' /\ AtStart'
    BY <2>2 DEF Placed, AtStart, EarlySteps, TypeInv, TypeOK, Chat
  <2> QED
    BY <1>1, <2>2, <2>3 DEF TypeInv, TypeOK, Types, Crash
<1>2. CASE \E c \in Chats : Expire(c)
  <2>1. PICK c \in Chats : Expire(c)
    BY <1>2
  <2>2. Placed' /\ AtStart'
    BY <2>1 DEF Expire, Placed, AtStart, TypeInv, TypeOK, Chat
  <2> QED
    BY <2>1, <2>2 DEF TypeInv, TypeOK, Types, Expire
<1>3. CASE UNCHANGED vars
  BY <1>3 DEF vars, TypeInv, TypeOK, Types, Placed, AtStart, Chat
<1> QED
  BY <1>1, <1>2, <1>3

LEMMA TypeStep ==
  ASSUME TypeInv, [Next]_vars PROVE TypeInv'
<1>1. ASSUME NEW r \in Reqs, Begin(r) \/ Go(r) \/ GoWrong(r) PROVE TypeInv'
  BY <1>1, TypeFind, TypeJoin, TypeRead, TypeStore, TypeEnd DEF Go, GoWrong
<1>2. ASSUME NEW u \in Users, UserStep(u) PROVE TypeInv'
  BY <1>2, TypeUser
<1> QED
  BY <1>1, <1>2, TypeRest DEF Next

\* Every variable keeps its type, and no request runs past its members or its
\* messages (message.go:339, chat.go:349).
THEOREM LogTypeCorrect == Spec => []TypeOK
<1>1. Init => TypeInv
  BY TypeInit
<1>2. TypeInv /\ [Next]_vars => TypeInv'
  BY TypeStep
<1>3. TypeInv => TypeOK
  BY DEF TypeInv
<1> QED
  BY <1>1, <1>2, <1>3, PTL DEF Spec

-----------------------------------------------------------------------------
(* The log. A request in a transaction holds the row of its chat, and has  *)
(* the next index; its id, once it has one, is above those in the chat.    *)

InTransaction(r) == pc[r] \in {"insert", "commit"}

LockInv ==
  \A r \in Reqs : InTransaction(r) =>
    /\ lock[Home(r)] = {r}
    /\ tx[r].index = last[Home(r)].index + 1

IdInv ==
  /\ \A m \in messages : m.id < nextId
  /\ \A r \in Reqs : pc[r] = "commit" =>
       /\ tx[r].id < nextId
       /\ \A m \in messages : m.chat = Home(r) => m.id < tx[r].id

LogInv ==
  /\ \A m \in messages :
       m.index \in 1 .. last[m.chat].index /\ m.id <= last[m.chat].id
  /\ \A m, n \in messages : m.chat = n.chat =>
       /\ m.index = n.index => m = n
       /\ m.index < n.index => m.id < n.id
  /\ \A c \in Chats : \A i \in 1 .. last[c].index :
       \E m \in messages : m.chat = c /\ m.index = i
  /\ \A c \in Chats : last[c].index > 0 =>
       \E m \in messages :
         m.chat = c /\ m.index = last[c].index /\ m.id = last[c].id

StoreInv == LockInv /\ IdInv /\ LogInv

LEMMA StoreInit == Init => StoreInv
<1> SUFFICES ASSUME Init PROVE StoreInv
  OBVIOUS
<1>1. LockInv /\ IdInv
  BY DEF Init, LockInv, IdInv, InTransaction
<1>2. LogInv
  BY DEF Init, LogInv
<1> QED
  BY <1>1, <1>2 DEF StoreInv

\* a step that touches neither the messages nor a transaction
LEMMA StoreKept ==
  ASSUME StoreInv, UNCHANGED <<last, messages, nextId>>,
         \A s \in Reqs : InTransaction(s)' =>
           /\ pc'[s] = pc[s] /\ at'[s] = at[s] /\ tx'[s] = tx[s]
           /\ lock'[Home(s)] = lock[Home(s)]
  PROVE  StoreInv'
<1>1. ASSUME NEW s \in Reqs, InTransaction(s)'
      PROVE  InTransaction(s) /\ Home(s)' = Home(s) /\ tx'[s] = tx[s]
             /\ pc'[s] = pc[s] /\ lock'[Home(s)] = lock[Home(s)]
  BY <1>1 DEF InTransaction, Home, Gid
<1>2. LockInv'
  BY <1>1 DEF LockInv, StoreInv
<1>3. IdInv'
  BY <1>1 DEF IdInv, StoreInv, InTransaction
<1>4. LogInv'
  BY DEF LogInv, StoreInv
<1> QED
  BY <1>2, <1>3, <1>4 DEF StoreInv

\* the same, when one request leaves its place for one out of a transaction
LEMMA StoreLeft ==
  ASSUME TypeOK, StoreInv, UNCHANGED <<last, messages, nextId, lock, tx>>,
         NEW r \in Reqs, NEW step, Goto(r, step),
         step \notin {"insert", "commit"},
         \A s \in Reqs \ {r} : at'[s] = at[s]
  PROVE  StoreInv'
<1>1. pc \in [Reqs -> Steps]
  BY DEF TypeOK, Types
<1>2. pc'[r] = step /\ \A s \in Reqs \ {r} : pc'[s] = pc[s]
  BY <1>1 DEF Goto
<1>3. \A s \in Reqs : InTransaction(s)' => s # r
  BY <1>2 DEF InTransaction
<1> QED
  BY <1>2, <1>3, StoreKept

LEMMA StoreQuiet ==
  ASSUME TypeOK, StoreInv, NEW r \in Reqs,
         \/ Begin(r) \/ FindChat(r) \/ FindFails(r) \/ CreateChat(r)
         \/ JoinCheck(r) \/ JoinInsert(r) \/ LookUp(r) \/ FillCache(r)
         \/ IsCommitter(r) \/ ReadStatuses(r) \/ ReadFails(r)
         \/ Dedup(r) \/ DedupFails(r) \/ SaveStatus(r) \/ Answer(r)
  PROVE  StoreInv'
<1> USE DEF dbVars, taskVars
<1>0. at \in [Reqs -> Nat] /\ then[r] \notin {"insert", "commit"}
  BY DEF TypeOK, Types
<1>1. CASE Begin(r)
  BY <1>1, StoreLeft DEF Begin
<1>2. CASE FindChat(r)
  BY <1>2, StoreLeft DEF FindChat
<1>3. CASE FindFails(r)
  BY <1>3, StoreLeft DEF FindFails
<1>4. CASE CreateChat(r)
  BY <1>4, StoreLeft DEF CreateChat
<1>5. CASE JoinCheck(r)
  BY <1>0, <1>5, StoreLeft DEF JoinCheck, JoinFrame, NextMember
<1>6. CASE JoinInsert(r)
  BY <1>0, <1>6, StoreLeft DEF JoinInsert, JoinFrame, NextMember
<1>7. CASE LookUp(r)
  BY <1>7, StoreLeft DEF LookUp, After
<1>8. CASE FillCache(r)
  BY <1>0, <1>8, StoreLeft DEF FillCache
<1>9. CASE IsCommitter(r)
  BY <1>9, StoreLeft DEF IsCommitter
<1>10. CASE ReadStatuses(r)
  BY <1>10, StoreLeft DEF ReadStatuses, Address
<1>11. CASE ReadFails(r)
  BY <1>11, StoreLeft DEF ReadFails, Address
<1>12. CASE Dedup(r)
  BY <1>0, <1>12, StoreLeft DEF Dedup, Advance
<1>13. CASE DedupFails(r)
  BY <1>13, StoreLeft DEF DedupFails
<1>14. CASE SaveStatus(r)
  BY <1>14, StoreLeft DEF SaveStatus
<1>15. CASE Answer(r)
  BY <1>15, StoreLeft DEF Answer
<1> QED
  BY <1>1, <1>2, <1>3, <1>4, <1>5, <1>6, <1>7, <1>8, <1>9, <1>10, <1>11,
     <1>12, <1>13, <1>14, <1>15

\* what ends a request, or comes from elsewhere
LEMMA StoreCutOff ==
  ASSUME TypeOK, StoreInv,
         \/ \E r \in Reqs : Fail(r)
         \/ \E u \in Users : UserStep(u)
         \/ Crash \/ (\E c \in Chats : Expire(c)) \/ UNCHANGED vars
  PROVE  StoreInv'
<1> USE DEF dbVars, taskVars
<1>0. /\ pc \in [Reqs -> Steps]
      /\ \A s \in Reqs : InTransaction(s) => Home(s) \in Chats
  BY Reached DEF TypeOK, Types, InTransaction
<1>1. ASSUME NEW r \in Reqs, Fail(r) PROVE StoreInv'
  <2>1. pc'[r] = "failed" /\ \A s \in Reqs \ {r} : pc'[s] = pc[s]
    BY <1>0, <1>1 DEF Fail, Goto
  <2>2. ASSUME NEW s \in Reqs, InTransaction(s)'
        PROVE  /\ s # r /\ pc'[s] = pc[s] /\ at'[s] = at[s] /\ tx'[s] = tx[s]
               /\ lock'[Home(s)] = lock[Home(s)]
    <3>1. s # r /\ InTransaction(s)
      BY <2>1, <2>2 DEF InTransaction
    <3>2. lock[Home(s)] = {s} /\ Home(s) \in Chats
      BY <1>0, <3>1 DEF StoreInv, LockInv
    <3>3. lock'[Home(s)] = lock[Home(s)] \ {r}
      BY <1>1, <3>2 DEF Fail
    <3>4. lock'[Home(s)] = lock[Home(s)]
      BY <3>1, <3>2, <3>3
    <3> QED
      BY <1>1, <2>1, <3>1, <3>4 DEF Fail
  <2> QED
    BY <1>1, <2>2, StoreKept DEF Fail
<1>2. ASSUME NEW u \in Users, UserStep(u) PROVE StoreInv'
  <2>1. UNCHANGED <<last, messages, nextId, lock, pc, at, tx>>
    BY <1>2 DEF UserStep, GoOnline, GoOffline, FetchRead, FetchDelete,
       FetchFails
  <2> QED
    BY <2>1, StoreKept
<1>3. CASE Crash
  <2>1. \A s \in Reqs : ~InTransaction(s)'
    BY <1>3 DEF Crash, InTransaction
  <2> QED
    BY <1>3, <2>1, StoreKept DEF Crash
<1>4. ASSUME NEW c \in Chats, Expire(c) PROVE StoreInv'
  <2>1. UNCHANGED <<last, messages, nextId, lock, pc, at, tx>>
    BY <1>4 DEF Expire
  <2> QED
    BY <2>1, StoreKept
<1>5. CASE UNCHANGED vars
  <2>1. UNCHANGED <<last, messages, nextId, lock, pc, at, tx>>
    BY <1>5 DEF vars
  <2> QED
    BY <2>1, StoreKept
<1> QED
  BY <1>1, <1>2, <1>3, <1>4, <1>5

LEMMA StoreLock ==
  ASSUME TypeOK, StoreInv, NEW r \in Reqs, LockRow(r) PROVE StoreInv'
<1>0. /\ pc \in [Reqs -> Steps] /\ tx \in [Reqs -> [index : Nat, id : Nat]]
      /\ lock \in [Chats -> SUBSET Reqs] /\ Home(r) \in Chats
      /\ \A s \in Reqs : InTransaction(s) => Home(s) \in Chats
  BY Reached DEF TypeOK, Types, InTransaction, LockRow
<1>1. CASE rows[Home(r)] = 0
  BY <1>1, StoreLeft DEF LockRow
<1>2. CASE rows[Home(r)] # 0
  <2>1. /\ lock[Home(r)] = {} /\ lock' = [lock EXCEPT ![Home(r)] = {r}]
        /\ tx' = [tx EXCEPT ![r].index = last[Home(r)].index + 1]
        /\ pc' = [pc EXCEPT ![r] = "insert"]
        /\ UNCHANGED <<last, messages, nextId, at>>
    BY <1>2 DEF LockRow, Goto
  <2>2. /\ pc'[r] = "insert" /\ tx'[r].index = last[Home(r)].index + 1
        /\ \A s \in Reqs \ {r} : pc'[s] = pc[s] /\ tx'[s] = tx[s]
    BY <1>0, <2>1
  <2>3. \A s \in Reqs : Home(s)' = Home(s)
    BY <2>1 DEF Home, Gid
  <2>4. LockInv'
    <3>1. ASSUME NEW s \in Reqs, InTransaction(s)'
          PROVE  lock'[Home(s)] = {s} /\ tx'[s].index = last[Home(s)].index + 1
      <4>1. CASE s = r
        BY <1>0, <2>1, <2>2, <4>1
      <4>2. CASE s # r
        <5>1. InTransaction(s) /\ lock[Home(s)] = {s} /\ Home(s) \in Chats
              /\ tx[s].index = last[Home(s)].index + 1
          BY <1>0, <2>2, <3>1, <4>2 DEF InTransaction, LockInv, StoreInv
        <5> QED
          BY <1>0, <2>1, <2>2, <4>2, <5>1
      <4> QED
        BY <4>1, <4>2
    <3> QED
      BY <2>1, <2>3, <3>1 DEF LockInv
  <2>5. IdInv'
    BY <2>1, <2>2, <2>3 DEF IdInv, StoreInv
  <2>6. LogInv'
    BY <2>1 DEF LogInv, StoreInv
  <2> QED
    BY <2>4, <2>5, <2>6 DEF StoreInv
<1> QED
  BY <1>1, <1>2

LEMMA StoreInsert ==
  ASSUME TypeOK, StoreInv, NEW r \in Reqs, Insert(r) PROVE StoreInv'
<1>0. /\ pc \in [Reqs -> Steps] /\ tx \in [Reqs -> [index : Nat, id : Nat]]
      /\ nextId \in Nat
      /\ \A m \in messages : m.id \in Nat
  BY DEF TypeOK, Types
<1>1. /\ tx' = [tx EXCEPT ![r].id = nextId] /\ nextId' = nextId + 1
      /\ pc[r] = "insert" /\ pc' = [pc EXCEPT ![r] = "commit"]
      /\ UNCHANGED <<last, messages, lock, at>>
  BY DEF Insert, Goto
<1>2. /\ pc'[r] = "commit" /\ tx'[r].id = nextId /\ tx'[r].index = tx[r].index
      /\ \A s \in Reqs \ {r} : pc'[s] = pc[s] /\ tx'[s] = tx[s]
  BY <1>0, <1>1
<1>3. \A s \in Reqs : Home(s)' = Home(s) /\ (InTransaction(s)' => InTransaction(s))
  BY <1>1, <1>2 DEF Home, Gid, InTransaction
<1>4. LockInv'
  BY <1>1, <1>2, <1>3 DEF LockInv, StoreInv
<1>5. \A s \in Reqs : tx[s].id \in Nat
  BY <1>0
<1>6. IdInv'
  BY <1>0, <1>1, <1>2, <1>3, <1>5 DEF IdInv, StoreInv
<1>7. LogInv'
  BY <1>1 DEF LogInv, StoreInv
<1> QED
  BY <1>4, <1>6, <1>7 DEF StoreInv

\* the message a commit makes visible
Committed(r) == [id |-> tx[r].id, gid |-> Gid(r), chat |-> Home(r),
                 index |-> tx[r].index, by |-> r]

\* It is the next of its chat, and its id is above all others there.
LEMMA CommitNext ==
  ASSUME TypeOK, StoreInv, NEW r \in Reqs, pc[r] = "commit", Commit(r)
  PROVE  /\ Home(r) \in Chats /\ tx[r].id \in Nat /\ last[Home(r)].index \in Nat
         /\ messages' = messages \cup {Committed(r)}
         /\ Committed(r).chat = Home(r) /\ Committed(r).id = tx[r].id
         /\ Committed(r).index = last[Home(r)].index + 1
         /\ last'[Home(r)].index = last[Home(r)].index + 1
         /\ last'[Home(r)].id = tx[r].id
         /\ \A c \in Chats \ {Home(r)} : last'[c] = last[c]
         /\ \A m \in messages : m.chat = Home(r) => m.id < tx[r].id
<1>1. Home(r) \in Chats
  BY Reached
<1>2. tx[r] \in [index : Nat, id : Nat] /\ last \in [Chats -> [index : Nat, id : Nat]]
  BY DEF TypeOK, Types
<1>3. tx[r].index = last[Home(r)].index + 1
  BY DEF StoreInv, LockInv, InTransaction
<1>4. last' = [last EXCEPT ![Home(r)] = tx[r]]
  BY DEF Commit
<1>5. \A m \in messages : m.chat = Home(r) => m.id < tx[r].id
  BY DEF StoreInv, IdInv
<1>6. messages' = messages \cup {Committed(r)}
  BY DEF Commit, Committed
<1> QED
  BY <1>1, <1>2, <1>3, <1>4, <1>5, <1>6 DEF Committed

LEMMA StoreCommit ==
  ASSUME TypeInv, StoreInv, NEW r \in Reqs, Stored(r) \/ CommitUnconfirmed(r)
  PROVE  StoreInv'
<1>0. /\ TypeOK /\ pc[r] = "commit" /\ Commit(r)
      /\ UNCHANGED <<nextId, tx>> /\ lock' = [lock EXCEPT ![Home(r)] = {}]
  BY DEF Stored, CommitUnconfirmed, Commit, TypeInv
<1> DEFINE new == Committed(r)
           home == Home(r)
<1> HIDE DEF new, home
<1>1. /\ home \in Chats /\ tx[r].id \in Nat /\ last[home].index \in Nat
      /\ messages' = messages \cup {new}
      /\ new.chat = home /\ new.id = tx[r].id
      /\ new.index = last[home].index + 1
      /\ last'[home].index = last[home].index + 1 /\ last'[home].id = tx[r].id
      /\ \A c \in Chats \ {home} : last'[c] = last[c]
      /\ \A m \in messages : m.chat = home => m.id < tx[r].id
  BY <1>0, CommitNext DEF new, home
<1>2. /\ \A m \in messages : m.chat \in Chats /\ m.id \in Nat /\ m.index \in Nat
      /\ \A c \in Chats : last[c].index \in Nat /\ last[c].id \in Nat
      /\ lock \in [Chats -> SUBSET Reqs]
  BY <1>0 DEF TypeOK, Types
\* the other transactions are in other chats
<1>3. ASSUME NEW s \in Reqs, (InTransaction(s))'
      PROVE  /\ s # r /\ InTransaction(s) /\ pc'[s] = pc[s]
             /\ Home(s)' = Home(s) /\ Home(s) \in Chats \ {home}
  <2>1. /\ pc \in [Reqs -> Steps] /\ at \in [Reqs -> Nat]
    BY <1>0 DEF TypeOK, Types
  <2>2. /\ pc'[r] \notin {"insert", "commit"}
        /\ \A q \in Reqs \ {r} : pc'[q] = pc[q] /\ at'[q] = at[q]
    BY <2>1 DEF Stored, CommitUnconfirmed, Advance, Goto
  <2>3. s # r /\ InTransaction(s) /\ pc'[s] = pc[s] /\ Home(s)' = Home(s)
    BY <1>3, <2>2 DEF InTransaction, Home, Gid
  <2>4. Home(s) \in Chats
    BY <1>0, <2>3, Reached DEF InTransaction
  <2>5. lock[Home(s)] = {s} /\ lock[home] = {r}
    BY <1>0, <2>3 DEF StoreInv, LockInv, InTransaction, home
  <2> QED
    BY <2>3, <2>4, <2>5
<1>4. LockInv'
  <2>1. ASSUME NEW s \in Reqs, (InTransaction(s))'
        PROVE  lock'[Home(s)] = {s} /\ tx'[s].index = last'[Home(s)].index + 1
    <3>1. lock[Home(s)] = {s} /\ tx[s].index = last[Home(s)].index + 1
      BY <1>3, <2>1 DEF StoreInv, LockInv
    <3>2. lock'[Home(s)] = lock[Home(s)] /\ last'[Home(s)] = last[Home(s)]
      BY <1>0, <1>1, <1>2, <1>3, <2>1 DEF home
    <3> QED
      BY <1>0, <3>1, <3>2
  <2> QED
    BY <1>3, <2>1 DEF LockInv
<1>5. IdInv'
  <2>1. \A m \in messages' : m.id < nextId'
    BY <1>0, <1>1 DEF StoreInv, IdInv
  <2>2. ASSUME NEW s \in Reqs, pc'[s] = "commit"
        PROVE  /\ tx'[s].id < nextId'
               /\ \A m \in messages' : m.chat = Home(s)' => m.id < tx'[s].id
    <3>1. pc[s] = "commit" /\ Home(s)' = Home(s) /\ Home(s) # home
      BY <1>3, <2>2 DEF InTransaction
    <3>2. /\ tx[s].id < nextId
          /\ \A m \in messages : m.chat = Home(s) => m.id < tx[s].id
      BY <3>1 DEF StoreInv, IdInv
    <3> QED
      BY <1>0, <1>1, <3>1, <3>2
  <2> QED
    BY <2>1, <2>2 DEF IdInv
<1>6. LogInv'
  <2>1. /\ \A m \in messages :
             m.index \in 1 .. last[m.chat].index /\ m.id <= last[m.chat].id
        /\ \A m, n \in messages : m.chat = n.chat =>
             /\ m.index = n.index => m = n
             /\ m.index < n.index => m.id < n.id
    BY DEF StoreInv, LogInv
  <2>2. \A m \in messages' :
          m.index \in 1 .. last'[m.chat].index /\ m.id <= last'[m.chat].id
    <3>1. ASSUME NEW m \in messages
          PROVE  m.index \in 1 .. last'[m.chat].index /\ m.id <= last'[m.chat].id
      BY <1>1, <1>2, <2>1
    <3>2. new.index \in 1 .. last'[new.chat].index /\ new.id <= last'[new.chat].id
      BY <1>1
    <3> QED
      BY <1>1, <3>1, <3>2
  <2>3. ASSUME NEW m \in messages, m.chat = new.chat
        PROVE  m.index < new.index /\ m.id < new.id
    BY <1>1, <1>2, <2>1, <2>3
  <2>4. \A m, n \in messages' : m.chat = n.chat =>
          /\ m.index = n.index => m = n
          /\ m.index < n.index => m.id < n.id
    <3>1. \A m \in messages : m.index \in Nat /\ m.id \in Nat
      BY <1>2
    <3>2. new.index \in Nat /\ new.id \in Nat
      BY <1>1
    <3> QED
      BY <1>1, <2>1, <2>3, <3>1, <3>2
  <2>5. ASSUME NEW c \in Chats, NEW i \in 1 .. last'[c].index
        PROVE  \E m \in messages' : m.chat = c /\ m.index = i
    <3>1. CASE c = home /\ i = last[home].index + 1
      BY <1>1, <3>1
    <3>2. CASE ~(c = home /\ i = last[home].index + 1)
      <4>1. i \in 1 .. last[c].index
        BY <1>1, <1>2, <2>5, <3>2
      <4> QED
        BY <1>1, <4>1 DEF StoreInv, LogInv
    <3> QED
      BY <3>1, <3>2
  <2>6. ASSUME NEW c \in Chats, last'[c].index > 0
        PROVE  \E m \in messages' :
                 m.chat = c /\ m.index = last'[c].index /\ m.id = last'[c].id
    <3>1. CASE c = home
      BY <1>1, <3>1
    <3>2. CASE c # home
      BY <1>1, <2>6, <3>2 DEF StoreInv, LogInv
    <3> QED
      BY <3>1, <3>2
  <2> QED
    BY <2>2, <2>4, <2>5, <2>6 DEF LogInv
<1> QED
  BY <1>4, <1>5, <1>6 DEF StoreInv

LEMMA StoreStep ==
  ASSUME TypeInv, StoreInv, [Next]_vars PROVE StoreInv'
<1>0. TypeOK
  BY DEF TypeInv
<1>1. ASSUME NEW r \in Reqs, Begin(r) \/ Go(r) \/ GoWrong(r) PROVE StoreInv'
  <2>1. CASE LockRow(r)
    BY <1>0, <2>1, StoreLock
  <2>2. CASE Insert(r)
    BY <1>0, <2>2, StoreInsert
  <2>3. CASE Stored(r) \/ CommitUnconfirmed(r)
    BY <2>3, StoreCommit
  <2>4. CASE Fail(r)
    BY <1>0, <2>4, StoreCutOff
  <2> QED
    BY <1>0, <1>1, <2>1, <2>2, <2>3, <2>4, StoreQuiet DEF Go, GoWrong
<1> QED
  BY <1>0, <1>1, StoreCutOff DEF Next

LEMMA StoreInvariant == Spec => [](TypeInv /\ StoreInv)
<1>1. Init => TypeInv /\ StoreInv
  BY TypeInit, StoreInit
<1>2. TypeInv /\ StoreInv /\ [Next]_vars => TypeInv' /\ StoreInv'
  BY TypeStep, StoreStep
<1> QED
  BY <1>1, <1>2, PTL DEF Spec

\* The indexes of a chat are 1, 2, ... without gap or repetition
\* (message_create.go:45-116).
THEOREM Contiguous == Spec => []IndexesContiguous
<1>1. TypeInv /\ StoreInv => IndexesContiguous
  <2> SUFFICES ASSUME TypeInv, StoreInv, NEW c \in Chats
               PROVE  LET inChat == {m \in messages : m.chat = c} IN
                      /\ {m.index : m \in inChat} = 1 .. last[c].index
                      /\ \A m, n \in inChat : m.index = n.index => m = n
    BY DEF IndexesContiguous
  <2> DEFINE inChat == {m \in messages : m.chat = c}
  <2>1. \A m \in inChat : m.index \in 1 .. last[c].index
    BY DEF StoreInv, LogInv
  <2>2. \A i \in 1 .. last[c].index : \E m \in inChat : m.index = i
    BY DEF StoreInv, LogInv
  <2>3. \A m, n \in inChat : m.index = n.index => m = n
    BY DEF StoreInv, LogInv
  <2> QED
    BY <2>1, <2>2, <2>3
<1> QED
  BY <1>1, StoreInvariant, PTL

\* A chat's last message is its newest by index and by id
\* (message_create.go:101-109).
THEOREM NewestIsLast == Spec => []LastMessageIsNewest
<1>1. TypeInv /\ StoreInv => LastMessageIsNewest
  <2> SUFFICES ASSUME TypeInv, StoreInv, NEW c \in Chats
               PROVE  LET inChat == {m \in messages : m.chat = c} IN
                      /\ \A m \in inChat : m.id <= last[c].id
                      /\ inChat # {} => \E m \in inChat :
                           m.id = last[c].id /\ m.index = last[c].index
                      /\ \A m, n \in inChat : m.index < n.index => m.id < n.id
    BY DEF LastMessageIsNewest
  <2> DEFINE inChat == {m \in messages : m.chat = c}
  <2>1. /\ \A m \in inChat : m.id <= last[c].id
        /\ \A m, n \in inChat : m.index < n.index => m.id < n.id
    BY DEF StoreInv, LogInv
  <2>2. ASSUME inChat # {}
        PROVE  \E m \in inChat : m.id = last[c].id /\ m.index = last[c].index
    <3>1. last[c].index > 0
      <4>1. PICK m \in inChat : m.index \in 1 .. last[c].index
        BY <2>2 DEF StoreInv, LogInv
      <4>2. last[c].index \in Nat
        BY DEF TypeInv, TypeOK, Types
      <4> QED
        BY <4>1, <4>2
    <3> QED
      BY <3>1 DEF StoreInv, LogInv
  <2> QED
    BY <2>1, <2>2
<1> QED
  BY <1>1, StoreInvariant, PTL

-----------------------------------------------------------------------------
(* Messages that are sent again. A request that found no message with the  *)
(* gid it stores cannot have begun after such a message was stored.        *)

Storing(r) == pc[r] \in {"lock", "insert", "commit"}

GidInv ==
  /\ \A r \in Reqs : \A g \in before[r] : \E m \in messages : m.gid = g
  /\ \A m \in messages : pc[m.by] # "idle"
  /\ \A r \in Reqs : Storing(r) => Gid(r) \notin before[r] \/ "gid" \in blind[r]
  /\ ResendIsRecognised

LEMMA GidKept ==
  ASSUME TypeOK, GidInv, UNCHANGED <<messages, before>>,
         \A s \in Reqs :
           /\ pc[s] # "idle" => pc'[s] # "idle"
           /\ blind[s] \subseteq blind'[s]
           /\ pc'[s] \in {"lock", "insert", "commit"}
                => Storing(s) /\ at'[s] = at[s]
  PROVE  GidInv'
<1>0. \A m \in messages : m.by \in Reqs
  BY DEF TypeOK, Types
<1>1. ASSUME NEW s \in Reqs, (Storing(s))'
      PROVE  Gid(s)' \notin before'[s] \/ "gid" \in blind'[s]
  BY <1>1 DEF Storing, GidInv, Gid
<1>2. \A m \in messages' : pc'[m.by] # "idle"
  BY <1>0 DEF GidInv
<1>3. ResendIsRecognised'
  BY <1>0 DEF GidInv, ResendIsRecognised
<1> QED
  BY <1>1, <1>2, <1>3 DEF GidInv

\* the same, when one request moves on
LEMMA GidMoved ==
  ASSUME TypeOK, GidInv, UNCHANGED <<messages, before>>,
         NEW r \in Reqs, NEW step, Goto(r, step), step # "idle",
         blind[r] \subseteq blind'[r],
         step \in {"lock", "insert", "commit"} => Storing(r) /\ at'[r] = at[r],
         \A s \in Reqs \ {r} : at'[s] = at[s] /\ blind'[s] = blind[s]
  PROVE  GidInv'
<1>1. pc \in [Reqs -> Steps]
  BY DEF TypeOK, Types
<1>2. pc'[r] = step /\ \A s \in Reqs \ {r} : pc'[s] = pc[s]
  BY <1>1 DEF Goto
<1> QED
  BY <1>2, GidKept DEF Storing

LEMMA GidBegin ==
  ASSUME TypeOK, GidInv, NEW r \in Reqs, Begin(r) PROVE GidInv'
<1>0. /\ pc \in [Reqs -> Steps] /\ before \in [Reqs -> SUBSET Gids]
      /\ \A m \in messages : m.by \in Reqs
  BY DEF TypeOK, Types
<1>1. /\ pc[r] = "idle" /\ before' = [before EXCEPT ![r] = {m.gid : m \in messages}]
      /\ pc' = [pc EXCEPT ![r] = "find"] /\ UNCHANGED <<messages, at, blind>>
  BY DEF Begin, Goto, dbVars, taskVars
<1>2. /\ before'[r] = {m.gid : m \in messages} /\ pc'[r] = "find"
      /\ \A s \in Reqs \ {r} : before'[s] = before[s] /\ pc'[s] = pc[s]
  BY <1>0, <1>1
<1>3. \A m \in messages : m.by # r
  BY <1>1 DEF GidInv
<1>4. \A s \in Reqs : \A g \in before'[s] : \E m \in messages' : m.gid = g
  BY <1>1, <1>2 DEF GidInv
<1>5. \A m \in messages' : pc'[m.by] # "idle"
  BY <1>0, <1>1, <1>2 DEF GidInv
<1>6. ASSUME NEW s \in Reqs, (Storing(s))'
      PROVE  Gid(s)' \notin before'[s] \/ "gid" \in blind'[s]
  BY <1>1, <1>2, <1>6 DEF Storing, Gid, GidInv
<1>7. ResendIsRecognised'
  BY <1>0, <1>1, <1>2, <1>3 DEF GidInv, ResendIsRecognised
<1> QED
  BY <1>4, <1>5, <1>6, <1>7 DEF GidInv

LEMMA GidDedup ==
  ASSUME TypeOK, GidInv, NEW r \in Reqs, Dedup(r) \/ DedupFails(r)
  PROVE  GidInv'
<1>0. /\ pc \in [Reqs -> Steps] /\ blind \in [Reqs -> SUBSET {"gid", "members"}]
      /\ at \in [Reqs -> Nat] /\ pc[r] = "dedup"
      /\ \A m \in messages : m.by \in Reqs
      /\ UNCHANGED <<messages, before>>
  BY DEF TypeOK, Types, Dedup, DedupFails, StoreFrame
\* it goes on to store the message
<1>1. ASSUME Goto(r, "lock"), UNCHANGED at, \A s \in Reqs : blind[s] \subseteq blind'[s],
             Gid(r) \notin before[r] \/ "gid" \in blind'[r]
      PROVE  GidInv'
  <2>1. pc'[r] = "lock" /\ \A s \in Reqs \ {r} : pc'[s] = pc[s]
    BY <1>0, <1>1 DEF Goto
  <2>2. ASSUME NEW s \in Reqs, (Storing(s))'
        PROVE  Gid(s)' \notin before'[s] \/ "gid" \in blind'[s]
    BY <1>0, <1>1, <2>1, <2>2 DEF Storing, Gid, GidInv
  <2>3. \A m \in messages' : pc'[m.by] # "idle"
    BY <1>0, <2>1 DEF GidInv
  <2>4. ResendIsRecognised'
    BY <1>0, <1>1 DEF GidInv, ResendIsRecognised
  <2> QED
    BY <1>0, <2>2, <2>3, <2>4 DEF GidInv
<1>2. CASE DedupFails(r)
  <2>1. blind' = [blind EXCEPT ![r] = blind[r] \cup {"gid"}] /\ Goto(r, "lock")
        /\ UNCHANGED at
    BY <1>2 DEF DedupFails
  <2> QED
    BY <1>0, <1>1, <2>1
<1>3. CASE Dedup(r) /\ ~\E m \in messages : m.gid = Gid(r)
  <2>1. {m.id : m \in {n \in messages : n.gid = Gid(r)}} = {}
    BY <1>3
  <2>2. Goto(r, "lock") /\ UNCHANGED <<at, blind>>
    BY <1>3, <2>1 DEF Dedup
  <2>3. Gid(r) \notin before[r]
    BY <1>3 DEF GidInv
  <2> QED
    BY <1>1, <2>2, <2>3
<1>4. CASE Dedup(r) /\ \E m \in messages : m.gid = Gid(r)
  <2>1. {m.id : m \in {n \in messages : n.gid = Gid(r)}} # {}
    BY <1>4
  <2>2. PICK i : Advance(r, i)
    BY <1>4, <2>1 DEF Dedup
  <2>3. PICK step \in {"dedup", "save", "answer"} : Goto(r, step)
    BY <2>2 DEF Advance
  <2>4. blind' = blind /\ \A s \in Reqs \ {r} : at'[s] = at[s]
    BY <1>0, <1>4, <2>2 DEF Dedup, Advance
  <2> QED
    BY <1>0, <2>3, <2>4, GidMoved
<1> QED
  BY <1>2, <1>3, <1>4

LEMMA GidCommit ==
  ASSUME TypeOK, GidInv, NEW r \in Reqs, Stored(r) \/ CommitUnconfirmed(r)
  PROVE  GidInv'
<1>0. /\ pc \in [Reqs -> Steps] /\ at \in [Reqs -> Nat]
      /\ \A m \in messages : m.by \in Reqs
      /\ pc[r] = "commit" /\ messages' = messages \cup {Committed(r)}
      /\ UNCHANGED <<before, blind>>
  BY DEF TypeOK, Types, Stored, CommitUnconfirmed, Commit, Committed, StoreFrame
<1>1. /\ pc'[r] \in {"dedup", "save", "answer", "failed"}
      /\ \A s \in Reqs \ {r} : pc'[s] = pc[s] /\ at'[s] = at[s]
  BY <1>0 DEF Stored, CommitUnconfirmed, Advance, Goto
<1>2. Committed(r).by = r /\ Committed(r).gid = Gid(r)
  BY DEF Committed
<1>3. Gid(r) \notin before[r] \/ "gid" \in blind[r]
  BY <1>0 DEF GidInv, Storing
<1>4. ASSUME NEW s \in Reqs, (Storing(s))'
      PROVE  Gid(s)' \notin before'[s] \/ "gid" \in blind'[s]
  BY <1>0, <1>1, <1>4 DEF Storing, Gid, GidInv
<1>5. \A m \in messages' : pc'[m.by] # "idle"
  BY <1>0, <1>1, <1>2 DEF GidInv
<1>6. ResendIsRecognised'
  BY <1>0, <1>2, <1>3 DEF GidInv, ResendIsRecognised
<1>7. \A s \in Reqs : \A g \in before'[s] : \E m \in messages' : m.gid = g
  BY <1>0 DEF GidInv
<1> QED
  BY <1>4, <1>5, <1>6, <1>7 DEF GidInv

LEMMA GidQuiet ==
  ASSUME TypeOK, GidInv, NEW r \in Reqs,
         \/ FindChat(r) \/ FindFails(r) \/ CreateChat(r)
         \/ JoinCheck(r) \/ JoinInsert(r) \/ LookUp(r) \/ FillCache(r)
         \/ IsCommitter(r) \/ ReadStatuses(r) \/ ReadFails(r)
         \/ LockRow(r) \/ Insert(r) \/ SaveStatus(r) \/ Answer(r) \/ Fail(r)
  PROVE  GidInv'
<1> USE DEF dbVars, taskVars, pastVars
<1>0. /\ at \in [Reqs -> Nat] /\ blind \in [Reqs -> SUBSET {"gid", "members"}]
      /\ then[r] \notin {"idle", "lock", "insert", "commit"}
  BY DEF TypeOK, Types
<1>1. CASE FindChat(r)
  BY <1>1, GidMoved DEF FindChat
<1>2. CASE FindFails(r)
  BY <1>2, GidMoved DEF FindFails
<1>3. CASE CreateChat(r)
  BY <1>3, GidMoved DEF CreateChat
<1>4. CASE JoinCheck(r)
  BY <1>0, <1>4, GidMoved DEF JoinCheck, JoinFrame, NextMember
<1>5. CASE JoinInsert(r)
  BY <1>0, <1>5, GidMoved DEF JoinInsert, JoinFrame, NextMember
<1>6. CASE LookUp(r)
  BY <1>6, GidMoved DEF LookUp, After
<1>7. CASE FillCache(r)
  BY <1>0, <1>7, GidMoved DEF FillCache
<1>8. CASE IsCommitter(r)
  BY <1>8, GidMoved DEF IsCommitter
<1>9. CASE ReadStatuses(r)
  BY <1>0, <1>9, GidMoved DEF ReadStatuses, Address
<1>10. CASE ReadFails(r)
  BY <1>0, <1>10, GidMoved DEF ReadFails, Address
<1>11. CASE LockRow(r)
  BY <1>11, GidMoved DEF LockRow, StoreFrame, Storing
<1>12. CASE Insert(r)
  BY <1>12, GidMoved DEF Insert, StoreFrame, Storing
<1>13. CASE SaveStatus(r)
  BY <1>13, GidMoved DEF SaveStatus
<1>14. CASE Answer(r)
  BY <1>14, GidMoved DEF Answer
<1>15. CASE Fail(r)
  BY <1>15, GidMoved DEF Fail
<1> QED
  BY <1>1, <1>2, <1>3, <1>4, <1>5, <1>6, <1>7, <1>8, <1>9, <1>10, <1>11,
     <1>12, <1>13, <1>14, <1>15

LEMMA GidStep ==
  ASSUME TypeOK, GidInv, [Next]_vars PROVE GidInv'
<1>1. ASSUME NEW r \in Reqs, Begin(r) \/ Go(r) \/ GoWrong(r) PROVE GidInv'
  BY <1>1, GidBegin, GidDedup, GidCommit, GidQuiet DEF Go, GoWrong
<1>2. CASE Crash
  <2>1. UNCHANGED <<messages, before, at, blind>>
    BY <1>2 DEF Crash, taskVars, pastVars
  <2>2. \A s \in Reqs : pc'[s] = IF pc[s] \in {"idle", "ok"} THEN pc[s] ELSE "failed"
    BY <1>2 DEF Crash
  <2> QED
    BY <2>1, <2>2, GidKept
<1>3. ASSUME UNCHANGED <<messages, before, at, blind, pc>> PROVE GidInv'
  BY <1>3, GidKept DEF Storing
<1>4. ASSUME NEW u \in Users, UserStep(u) PROVE GidInv'
  BY <1>3, <1>4 DEF UserStep, GoOnline, GoOffline, FetchRead, FetchDelete,
     FetchFails, dbVars, taskVars, pastVars
<1>5. ASSUME NEW c \in Chats, Expire(c) PROVE GidInv'
  BY <1>3, <1>5 DEF Expire, dbVars, taskVars, pastVars
<1>6. CASE UNCHANGED vars
  BY <1>3, <1>6 DEF vars, dbVars, taskVars, pastVars
<1> QED
  BY <1>1, <1>2, <1>4, <1>5, <1>6 DEF Next

\* A message that was stored when a request with its gid arrived is not stored
\* again by it, unless its look-up failed (message.go:341).
THEOREM Recognised == Spec => []ResendIsRecognised
<1>1. Init => GidInv
  BY DEF Init, GidInv, ResendIsRecognised, Storing
<1>2. TypeOK /\ GidInv /\ [Next]_vars => GidInv'
  BY GidStep
<1>3. GidInv => ResendIsRecognised
  BY DEF GidInv
<1> QED
  BY <1>1, <1>2, <1>3, LogTypeCorrect, PTL DEF Spec

-----------------------------------------------------------------------------
(* Whom a request addresses. Once it has read the members and statuses,    *)
(* every member is pushed to or recorded as offline; it lists the id of    *)
(* each message it is past; and each id it is done with waits for those    *)
(* recorded, or has been fetched, which only adds to waiting and fetched   *)
(* taken together.                                                         *)

AtMessages == {"dedup", "lock", "insert", "commit"}
AtEnd == {"save", "answer", "ok"}

Listed(r, k) == \E m \in messages : m.gid = Batch[r][k] /\ m.id \in ids[r]

Addressing(r) ==
  /\ pc[r] \in AtMessages \cup AtEnd /\ "members" \notin blind[r]
       => Members(Chat(r)) \subseteq push[r] \cup offline[r]
  /\ pc[r] \in AtMessages
       => \A k \in 1 .. Len(Batch[r]) : k < at[r] => Listed(r, k)
  /\ pc[r] \in AtEnd => \A k \in 1 .. Len(Batch[r]) : Listed(r, k)
  /\ pc[r] \in AtEnd =>
       \A u \in offline[r], i \in ids[r] :
         i \in unsaved[r] \/ <<u, i>> \in waiting \cup fetched
  /\ pc[r] \in {"answer", "ok"} => offline[r] = {} \/ unsaved[r] = {}

AddressInv == \A r \in Reqs : Addressing(r)

\* Messages, and waiting and fetched together, only grow: a request that stays
\* where it is, or moves on without passing a message, keeps its part.
LEMMA AddressKept ==
  ASSUME AddressInv, messages \subseteq messages',
         waiting \cup fetched \subseteq waiting' \cup fetched',
         NEW s \in Reqs, blind[s] \subseteq blind'[s], at'[s] = at[s],
         push'[s] = push[s], offline'[s] = offline[s], ids'[s] = ids[s],
         unsaved'[s] = unsaved[s],
         \/ pc'[s] = pc[s]
         \/ pc'[s] \notin AtMessages \cup AtEnd
         \/ pc[s] \in AtMessages /\ pc'[s] \in AtMessages
         \/ pc[s] = "answer" /\ pc'[s] = "ok"
  PROVE  Addressing(s)'
<1>1. \A k \in 1 .. Len(Batch[s]) : Listed(s, k) => Listed(s, k)'
  BY DEF Listed
<1>2. Addressing(s)
  BY DEF AddressInv
<1> QED
  BY <1>1, <1>2 DEF Addressing, AtMessages, AtEnd

\* one request moves on without passing a message
LEMMA AddressMoved ==
  ASSUME TypeOK, AddressInv, messages \subseteq messages',
         NEW r \in Reqs, NEW step, Goto(r, step),
         UNCHANGED <<push, offline, ids, unsaved, waiting, fetched>>,
         \A s \in Reqs : blind[s] \subseteq blind'[s],
         \A s \in Reqs \ {r} : at'[s] = at[s],
         \/ step \notin AtMessages \cup AtEnd
         \/ at'[r] = at[r] /\ pc[r] \in AtMessages /\ step \in AtMessages
         \/ at'[r] = at[r] /\ pc[r] = "answer" /\ step = "ok"
  PROVE  AddressInv'
<1>1. pc'[r] = step /\ \A s \in Reqs \ {r} : pc'[s] = pc[s]
  BY DEF TypeOK, Types, Goto
<1>2. \A s \in Reqs \ {r} : Addressing(s)'
  BY <1>1, AddressKept
<1>3. Addressing(r)'
  <2>1. CASE step \notin AtMessages \cup AtEnd
    BY <1>1, <2>1 DEF Addressing, AtMessages, AtEnd
  <2>2. CASE step \in AtMessages \cup AtEnd
    BY <1>1, <2>2, AddressKept DEF AtMessages, AtEnd
  <2> QED
    BY <2>1, <2>2
<1> QED
  BY <1>2, <1>3 DEF AddressInv

\* a request passes the message it has reached
LEMMA AddressAdvance ==
  ASSUME TypeOK, AddressInv, messages \subseteq messages', NEW r \in Reqs,
         pc[r] \in {"dedup", "commit"}, NEW i, Advance(r, i),
         \E m \in messages' : m.gid = Gid(r) /\ m.id = i,
         UNCHANGED <<push, offline, waiting, fetched, blind>>
  PROVE  AddressInv'
<1>0. /\ at[r] \in 1 .. Len(Batch[r]) /\ Len(Batch[r]) \in Nat
      /\ pc \in [Reqs -> Steps] /\ at \in [Reqs -> Nat]
      /\ ids \in [Reqs -> SUBSET Nat] /\ unsaved \in [Reqs -> SUBSET Nat]
  BY Reached, ConstantTypes DEF TypeOK, Types
<1>1. /\ \A s \in Reqs \ {r} : /\ pc'[s] = pc[s] /\ at'[s] = at[s]
                               /\ ids'[s] = ids[s] /\ unsaved'[s] = unsaved[s]
      /\ ids'[r] = ids[r] \cup {i}
  BY <1>0 DEF Advance, Goto
<1>2. \A s \in Reqs \ {r} : Addressing(s)'
  BY <1>1, AddressKept
<1>3. \A k \in 1 .. Len(Batch[r]) : k <= at[r] => Listed(r, k)'
  <2> SUFFICES ASSUME NEW k \in 1 .. Len(Batch[r]), k <= at[r]
               PROVE  Listed(r, k)'
    OBVIOUS
  <2>1. CASE k < at[r]
    <3>1. Listed(r, k)
      BY <2>1 DEF AddressInv, Addressing, AtMessages
    <3> QED
      BY <1>1, <3>1 DEF Listed
  <2>2. CASE k = at[r]
    BY <1>1, <2>2 DEF Listed, Gid
  <2> QED
    BY <1>0, <2>1, <2>2
<1>4. "members" \notin blind'[r] => Members(Chat(r)) \subseteq push'[r] \cup offline'[r]
  BY DEF AddressInv, Addressing, AtMessages
<1>5. CASE at[r] < Len(Batch[r])
  <2>1. at'[r] = at[r] + 1 /\ pc'[r] = "dedup"
    BY <1>0, <1>5 DEF Advance, Goto
  <2>2. Addressing(r)'
    BY <1>0, <1>3, <1>4, <2>1 DEF Addressing, AtMessages, AtEnd
  <2> QED
    BY <1>2, <2>2 DEF AddressInv
<1>6. CASE ~(at[r] < Len(Batch[r]))
  <2>1. /\ pc'[r] = (IF offline[r] = {} THEN "answer" ELSE "save")
        /\ unsaved'[r] = ids'[r]
    BY <1>0, <1>6 DEF Advance, Goto
  <2>2. \A k \in 1 .. Len(Batch[r]) : Listed(r, k)'
    BY <1>0, <1>3, <1>6
  <2>3. Addressing(r)'
    BY <1>4, <2>1, <2>2 DEF Addressing, AtMessages, AtEnd
  <2> QED
    BY <1>2, <2>3 DEF AddressInv
<1> QED
  BY <1>5, <1>6

\* a request has just learnt whom it addresses
LEMMA AddressRead ==
  ASSUME TypeInv, AddressInv, NEW r \in Reqs, pc[r] \in {"members", "statuses"},
         NEW us \in SUBSET Users, Address(r, us),
         UNCHANGED <<messages, waiting, fetched, at, ids, unsaved>>,
         \A s \in Reqs : blind[s] \subseteq blind'[s],
         "members" \notin blind'[r] => Members(Chat(r)) \subseteq us
  PROVE  AddressInv'
<1>1. /\ pc'[r] = "dedup" /\ at'[r] = 1
      /\ push'[r] = {SenderOf[r]} \cup {u \in us : status[u] = "online"}
      /\ offline'[r] = {u \in us \ {SenderOf[r]} : status[u] = "offline"}
      /\ \A s \in Reqs \ {r} : /\ pc'[s] = pc[s] /\ push'[s] = push[s]
                               /\ offline'[s] = offline[s]
  BY DEF TypeInv, TypeOK, Types, AtStart, EarlySteps, Address, Goto
<1>2. \A s \in Reqs \ {r} : Addressing(s)'
  BY <1>1, AddressKept
<1>3. us \subseteq push'[r] \cup offline'[r]
  BY <1>1 DEF TypeInv, TypeOK, Types
<1>4. \A k \in 1 .. Len(Batch[r]) : ~(k < at'[r])
  BY <1>1
<1>5. Addressing(r)'
  BY <1>1, <1>3, <1>4 DEF Addressing, AtMessages, AtEnd
<1> QED
  BY <1>2, <1>5 DEF AddressInv

LEMMA AddressSave ==
  ASSUME TypeOK, AddressInv, NEW r \in Reqs, SaveStatus(r)
  PROVE  AddressInv'
<1>0. pc \in [Reqs -> Steps] /\ unsaved \in [Reqs -> SUBSET Nat]
  BY DEF TypeOK, Types
<1>1. PICK i \in unsaved[r] :
        /\ waiting' = waiting \cup (offline[r] \X {i})
        /\ unsaved' = [unsaved EXCEPT ![r] = @ \ {i}]
        /\ Goto(r, IF unsaved[r] = {i} THEN "answer" ELSE "save")
  BY DEF SaveStatus
<1>2. /\ pc[r] = "save"
      /\ UNCHANGED <<messages, fetched, at, push, offline, ids, blind>>
  BY DEF SaveStatus, fetchVars, pastVars
<1>3. /\ pc'[r] = (IF unsaved[r] = {i} THEN "answer" ELSE "save")
      /\ unsaved'[r] = unsaved[r] \ {i}
      /\ \A s \in Reqs \ {r} : pc'[s] = pc[s] /\ unsaved'[s] = unsaved[s]
  BY <1>0, <1>1 DEF Goto
<1>4. \A s \in Reqs \ {r} : Addressing(s)'
  BY <1>1, <1>2, <1>3, AddressKept
<1>5. \A k \in 1 .. Len(Batch[r]) : Listed(r, k)'
  BY <1>2 DEF AddressInv, Addressing, AtEnd, Listed
<1>6. \A u \in offline'[r], j \in ids'[r] :
        j \in unsaved'[r] \/ <<u, j>> \in waiting' \cup fetched'
  BY <1>1, <1>2, <1>3 DEF AddressInv, Addressing, AtEnd
<1>7. "members" \notin blind'[r] => Members(Chat(r)) \subseteq push'[r] \cup offline'[r]
  BY <1>2 DEF AddressInv, Addressing, AtEnd
<1>8. Addressing(r)'
  BY <1>3, <1>5, <1>6, <1>7 DEF Addressing, AtMessages, AtEnd
<1> QED
  BY <1>4, <1>8 DEF AddressInv

LEMMA AddressRequest ==
  ASSUME TypeInv, AddressInv, NEW r \in Reqs, Begin(r) \/ Go(r) \/ GoWrong(r)
  PROVE  AddressInv'
<1> USE DEF dbVars, taskVars, fetchVars, pastVars
<1>0. /\ TypeOK /\ at \in [Reqs -> Nat] /\ blind \in [Reqs -> SUBSET {"gid", "members"}]
      /\ then[r] \in {"permit", "committer", "statuses"}
      /\ seen[r] \in SUBSET Users
  BY DEF TypeInv, TypeOK, Types
<1>1. CASE Begin(r)
  BY <1>0, <1>1, AddressMoved DEF Begin, AtMessages, AtEnd
<1>2. CASE FindChat(r) \/ FindFails(r) \/ CreateChat(r)
  BY <1>0, <1>2, AddressMoved DEF FindChat, FindFails, CreateChat, AtMessages, AtEnd
<1>3. CASE JoinCheck(r)
  BY <1>0, <1>3, AddressMoved DEF JoinCheck, JoinFrame, NextMember, AtMessages, AtEnd
<1>4. CASE JoinInsert(r)
  BY <1>0, <1>4, AddressMoved DEF JoinInsert, JoinFrame, NextMember, AtMessages, AtEnd
<1>5. CASE LookUp(r)
  BY <1>0, <1>5, AddressMoved DEF LookUp, After, AtMessages, AtEnd
<1>6. CASE FillCache(r)
  BY <1>0, <1>6, AddressMoved DEF FillCache, AtMessages, AtEnd
<1>7. CASE IsCommitter(r)
  BY <1>0, <1>7, AddressMoved DEF IsCommitter, AtMessages, AtEnd
<1>8. CASE ReadStatuses(r)
  <2>1. "members" \notin blind'[r] => Members(Chat(r)) \subseteq seen[r]
    BY <1>0, <1>8 DEF ReadStatuses
  <2>2. \A s \in Reqs : blind[s] \subseteq blind'[s]
    BY <1>0, <1>8 DEF ReadStatuses
  <2> QED
    BY <1>0, <1>8, <2>1, <2>2, AddressRead DEF ReadStatuses
<1>9. CASE ReadFails(r)
  <2>1. "members" \in blind'[r] /\ \A s \in Reqs : blind[s] \subseteq blind'[s]
    BY <1>0, <1>9 DEF ReadFails
  <2>2. PICK us \in SUBSET Users : Address(r, us) /\ pc[r] \in {"members", "statuses"}
    BY <1>9 DEF ReadFails
  <2> QED
    BY <1>0, <1>9, <2>1, <2>2, AddressRead DEF ReadFails
<1>10. CASE Dedup(r)
  <2>1. /\ UNCHANGED <<messages, push, offline, waiting, fetched, blind>>
        /\ pc[r] = "dedup"
    BY <1>10 DEF Dedup, StoreFrame
  <2>2. CASE Goto(r, "lock") /\ UNCHANGED <<at, ids, unsaved>>
    BY <1>0, <2>1, <2>2, AddressMoved DEF AtMessages, AtEnd
  <2>3. CASE \E i \in {m.id : m \in {n \in messages : n.gid = Gid(r)}} :
               Advance(r, i)
    BY <1>0, <2>1, <2>3, AddressAdvance
  <2> QED
    BY <1>10, <2>2, <2>3 DEF Dedup
<1>11. CASE DedupFails(r)
  <2>1. \A s \in Reqs : blind[s] \subseteq blind'[s]
    BY <1>0, <1>11 DEF DedupFails
  <2> QED
    BY <1>0, <1>11, <2>1, AddressMoved DEF DedupFails, StoreFrame, AtMessages, AtEnd
<1>12. CASE LockRow(r)
  BY <1>0, <1>12, AddressMoved DEF LockRow, StoreFrame, AtMessages, AtEnd
<1>13. CASE Insert(r)
  BY <1>0, <1>13, AddressMoved DEF Insert, StoreFrame, AtMessages, AtEnd
<1>14. CASE Stored(r)
  <2>1. /\ messages' = messages \cup {Committed(r)}
        /\ Committed(r).gid = Gid(r) /\ Committed(r).id = tx[r].id
    BY <1>14 DEF Stored, Commit, Committed
  <2>2. UNCHANGED <<push, offline, waiting, fetched, blind>>
    BY <1>14 DEF Stored, Commit, StoreFrame
  <2> QED
    BY <1>0, <1>14, <2>1, <2>2, AddressAdvance DEF Stored
<1>15. CASE CommitUnconfirmed(r)
  <2>1. messages \subseteq messages'
    BY <1>15 DEF CommitUnconfirmed, Commit
  <2>2. /\ Goto(r, "failed")
        /\ UNCHANGED <<at, push, offline, ids, unsaved, waiting, fetched, blind>>
    BY <1>15 DEF CommitUnconfirmed, Commit, StoreFrame
  <2> QED
    BY <1>0, <2>1, <2>2, AddressMoved DEF AtMessages, AtEnd
<1>16. CASE SaveStatus(r)
  BY <1>0, <1>16, AddressSave
<1>17. CASE Answer(r)
  BY <1>0, <1>17, AddressMoved DEF Answer, AtMessages, AtEnd
<1>18. CASE Fail(r)
  BY <1>0, <1>18, AddressMoved DEF Fail, AtMessages, AtEnd
<1> QED
  BY <1>1, <1>2, <1>3, <1>4, <1>5, <1>6, <1>7, <1>8, <1>9, <1>10, <1>11,
     <1>12, <1>13, <1>14, <1>15, <1>16, <1>17, <1>18 DEF Go, GoWrong

LEMMA AddressStep ==
  ASSUME TypeInv, AddressInv, [Next]_vars PROVE AddressInv'
<1> USE DEF dbVars, taskVars, fetchVars, pastVars
<1>1. CASE Crash
  <2>1. UNCHANGED <<messages, waiting, fetched, at, push, offline, ids, unsaved, blind>>
    BY <1>1 DEF Crash
  <2>2. \A s \in Reqs : pc'[s] = IF pc[s] \in {"idle", "ok"} THEN pc[s] ELSE "failed"
    BY <1>1 DEF Crash
  <2>3. \A s \in Reqs : pc'[s] = pc[s] \/ pc'[s] \notin AtMessages \cup AtEnd
    BY <2>2 DEF AtMessages, AtEnd
  <2> QED
    BY <2>1, <2>3, AddressKept DEF AddressInv
<1>2. ASSUME UNCHANGED <<messages, at, pc, push, offline, ids, unsaved, blind>>,
             waiting \cup fetched \subseteq waiting' \cup fetched'
      PROVE  AddressInv'
  BY <1>2, AddressKept DEF AddressInv
<1>3. ASSUME NEW u \in Users, UserStep(u) PROVE AddressInv'
  <2>1. CASE FetchDelete(u)
    BY <1>2, <2>1 DEF FetchDelete
  <2>2. CASE GoOnline(u) \/ GoOffline(u) \/ FetchRead(u) \/ FetchFails(u)
    BY <1>2, <2>2 DEF GoOnline, GoOffline, FetchRead, FetchFails
  <2> QED
    BY <1>3, <2>1, <2>2 DEF UserStep
<1>4. ASSUME NEW c \in Chats, Expire(c) PROVE AddressInv'
  BY <1>2, <1>4 DEF Expire
<1>5. CASE UNCHANGED vars
  BY <1>2, <1>5 DEF vars
<1> QED
  BY <1>1, <1>3, <1>4, <1>5, AddressRequest DEF Next

\* each message of a request that was answered with success has been pushed to,
\* waits for or was fetched by every other member of the chat (send.go:110-133,
\* messagestatus.go:40-100)
THEOREM Addressed == Spec => []AnsweredIsAddressed
<1>1. Init => AddressInv
  BY DEF Init, AddressInv, Addressing, AtMessages, AtEnd
<1>2. TypeInv /\ AddressInv /\ [Next]_vars => AddressInv'
  BY AddressStep
<1>3. AddressInv => AnsweredIsAddressed
  <2> SUFFICES ASSUME AddressInv, NEW r \in Reqs, pc[r] = "ok",
                      "members" \notin blind[r],
                      NEW k \in 1 .. Len(Batch[r]),
                      NEW u \in Members(Chat(r)) \ push[r]
               PROVE  \E m \in messages :
                        /\ m.gid = Batch[r][k]
                        /\ <<u, m.id>> \in waiting \cup fetched
    BY DEF AnsweredIsAddressed
  <2>1. u \in offline[r] /\ unsaved[r] = {}
    BY DEF AddressInv, Addressing, AtEnd
  <2>2. PICK m \in messages : m.gid = Batch[r][k] /\ m.id \in ids[r]
    BY DEF AddressInv, Addressing, AtEnd, Listed
  <2> QED
    BY <2>1, <2>2 DEF AddressInv, Addressing, AtEnd
<1> QED
  BY <1>1, <1>2, <1>3, StoreInvariant, PTL DEF Spec

-----------------------------------------------------------------------------
(* The log is the one of ChatLog. A request that is past a message of its  *)
(* batch has found it stored or has stored it.                             *)

InMessages(g) == \E m \in messages : m.gid = g

PassedInv ==
  \A r \in Reqs :
    /\ pc[r] \in {"dedup", "lock", "insert", "commit"} =>
         \A k \in 1 .. Len(Batch[r]) : k < at[r] => InMessages(Batch[r][k])
    /\ pc[r] \in {"save", "answer"} =>
         \A k \in 1 .. Len(Batch[r]) : InMessages(Batch[r][k])

\* No message is lost, and a request that does not move on past one has
\* passed no other.
LEMMA PassedKept ==
  ASSUME PassedInv, messages \subseteq messages', NEW S \in SUBSET Reqs,
         \A s \in S :
           /\ pc'[s] \in {"dedup", "lock", "insert", "commit"} =>
                /\ at'[s] = at[s]
                /\ pc[s] \in {"dedup", "lock", "insert", "commit"} \/ at[s] = 1
           /\ pc'[s] \in {"save", "answer"} => pc[s] \in {"save", "answer"}
  PROVE  \A s \in S :
           /\ pc'[s] \in {"dedup", "lock", "insert", "commit"} =>
                \A k \in 1 .. Len(Batch[s]) : k < at'[s] => InMessages(Batch[s][k])'
           /\ pc'[s] \in {"save", "answer"} =>
                \A k \in 1 .. Len(Batch[s]) : InMessages(Batch[s][k])'
  BY DEF PassedInv, InMessages

LEMMA PassedMoved ==
  ASSUME TypeOK, PassedInv, messages \subseteq messages',
         NEW r \in Reqs, NEW step, Goto(r, step),
         step \in {"dedup", "lock", "insert", "commit"} =>
           /\ at'[r] = at[r]
           /\ pc[r] \in {"dedup", "lock", "insert", "commit"} \/ at[r] = 1,
         step \in {"save", "answer"} => pc[r] \in {"save", "answer"},
         \A s \in Reqs \ {r} : at'[s] = at[s]
  PROVE  PassedInv'
<1>1. pc \in [Reqs -> Steps]
  BY DEF TypeOK, Types
<1>2. pc'[r] = step /\ \A s \in Reqs \ {r} : pc'[s] = pc[s]
  BY <1>1 DEF Goto
<1> QED
  BY <1>2, PassedKept DEF PassedInv

LEMMA PassedAdvance ==
  ASSUME TypeOK, PassedInv, messages \subseteq messages', NEW r \in Reqs,
         pc[r] \in {"dedup", "commit"}, NEW i, Advance(r, i),
         \E m \in messages' : m.gid = Gid(r)
  PROVE  PassedInv'
<1>0. /\ at[r] \in 1 .. Len(Batch[r]) /\ Len(Batch[r]) \in Nat
      /\ pc \in [Reqs -> Steps] /\ at \in [Reqs -> Nat]
  BY Reached, ConstantTypes DEF TypeOK, Types
<1>1. \A s \in Reqs \ {r} : pc'[s] = pc[s] /\ at'[s] = at[s]
  BY <1>0 DEF Advance, Goto
<1>2. \A k \in 1 .. Len(Batch[r]) : k <= at[r] => InMessages(Batch[r][k])'
  BY <1>0 DEF PassedInv, InMessages, Gid
<1>3. /\ pc'[r] \in {"dedup", "lock", "insert", "commit"} =>
           \A k \in 1 .. Len(Batch[r]) : k < at'[r] => InMessages(Batch[r][k])'
      /\ pc'[r] \in {"save", "answer"} =>
           \A k \in 1 .. Len(Batch[r]) : InMessages(Batch[r][k])'
  <2>1. CASE at[r] < Len(Batch[r])
    BY <1>0, <1>2, <2>1 DEF Advance, Goto
  <2>2. CASE ~(at[r] < Len(Batch[r]))
    BY <1>0, <1>2, <2>2 DEF Advance, Goto
  <2> QED
    BY <2>1, <2>2
<1>4. \A s \in Reqs \ {r} :
        /\ pc'[s] \in {"dedup", "lock", "insert", "commit"} =>
             \A k \in 1 .. Len(Batch[s]) : k < at'[s] => InMessages(Batch[s][k])'
        /\ pc'[s] \in {"save", "answer"} =>
             \A k \in 1 .. Len(Batch[s]) : InMessages(Batch[s][k])'
  BY <1>1, PassedKept
<1> QED
  BY <1>3, <1>4 DEF PassedInv

LEMMA PassedRequest ==
  ASSUME TypeInv, PassedInv, NEW r \in Reqs, Begin(r) \/ Go(r) \/ GoWrong(r)
  PROVE  PassedInv'
<1> USE DEF dbVars, taskVars, pastVars
<1>0. /\ TypeOK /\ at \in [Reqs -> Nat]
      /\ then[r] \in {"permit", "committer", "statuses"}
  BY DEF TypeInv, TypeOK, Types
<1>1. CASE Begin(r)
  BY <1>0, <1>1, PassedMoved DEF Begin
<1>2. CASE FindChat(r) \/ FindFails(r) \/ CreateChat(r)
  BY <1>0, <1>2, PassedMoved DEF FindChat, FindFails, CreateChat
<1>3. CASE JoinCheck(r)
  BY <1>0, <1>3, PassedMoved DEF JoinCheck, JoinFrame, NextMember
<1>4. CASE JoinInsert(r)
  BY <1>0, <1>4, PassedMoved DEF JoinInsert, JoinFrame, NextMember
<1>5. CASE LookUp(r)
  BY <1>0, <1>5, PassedMoved DEF LookUp, After
<1>6. CASE FillCache(r)
  BY <1>0, <1>6, PassedMoved DEF FillCache
<1>7. CASE IsCommitter(r)
  BY <1>0, <1>7, PassedMoved DEF IsCommitter
<1>8. CASE ReadStatuses(r) \/ ReadFails(r)
  <2>1. at[r] = 1
    BY <1>8 DEF TypeInv, AtStart, EarlySteps, ReadStatuses, ReadFails
  <2> QED
    BY <1>0, <1>8, <2>1, PassedMoved DEF ReadStatuses, ReadFails, Address
<1>9. CASE Dedup(r)
  <2>1. UNCHANGED messages /\ pc[r] = "dedup"
    BY <1>9 DEF Dedup
  <2>2. CASE Goto(r, "lock") /\ UNCHANGED at
    BY <1>0, <2>1, <2>2, PassedMoved
  <2>3. CASE \E i \in {m.id : m \in {n \in messages : n.gid = Gid(r)}} :
               Advance(r, i)
    BY <1>0, <2>1, <2>3, PassedAdvance
  <2> QED
    BY <1>9, <2>2, <2>3 DEF Dedup
<1>10. CASE DedupFails(r)
  BY <1>0, <1>10, PassedMoved DEF DedupFails
<1>11. CASE LockRow(r)
  BY <1>0, <1>11, PassedMoved DEF LockRow
<1>12. CASE Insert(r)
  BY <1>0, <1>12, PassedMoved DEF Insert
<1>13. CASE Stored(r)
  <2>1. messages' = messages \cup {Committed(r)} /\ Committed(r).gid = Gid(r)
    BY <1>13 DEF Stored, Commit, Committed
  <2> QED
    BY <1>0, <1>13, <2>1, PassedAdvance DEF Stored
<1>14. CASE CommitUnconfirmed(r)
  <2>1. messages \subseteq messages'
    BY <1>14 DEF CommitUnconfirmed, Commit
  <2> QED
    BY <1>0, <1>14, <2>1, PassedMoved DEF CommitUnconfirmed
<1>15. CASE SaveStatus(r)
  BY <1>0, <1>15, PassedMoved DEF SaveStatus
<1>16. CASE Answer(r)
  BY <1>0, <1>16, PassedMoved DEF Answer
<1>17. CASE Fail(r)
  BY <1>0, <1>17, PassedMoved DEF Fail
<1> QED
  BY <1>1, <1>2, <1>3, <1>4, <1>5, <1>6, <1>7, <1>8, <1>9, <1>10, <1>11,
     <1>12, <1>13, <1>14, <1>15, <1>16, <1>17 DEF Go, GoWrong

LEMMA PassedStep ==
  ASSUME TypeInv, PassedInv, [Next]_vars PROVE PassedInv'
<1>1. CASE Crash
  <2>1. UNCHANGED <<messages, at>>
    BY <1>1 DEF Crash, taskVars
  <2>2. \A s \in Reqs : pc'[s] = IF pc[s] \in {"idle", "ok"} THEN pc[s] ELSE "failed"
    BY <1>1 DEF Crash
  <2> QED
    BY <2>1, <2>2, PassedKept DEF PassedInv
<1>2. ASSUME UNCHANGED <<messages, at, pc>> PROVE PassedInv'
  BY <1>2, PassedKept DEF PassedInv, InMessages
<1>3. ASSUME NEW u \in Users, UserStep(u) PROVE PassedInv'
  BY <1>2, <1>3 DEF UserStep, GoOnline, GoOffline, FetchRead, FetchDelete,
     FetchFails, dbVars, taskVars
<1>4. ASSUME NEW c \in Chats, Expire(c) PROVE PassedInv'
  BY <1>2, <1>4 DEF Expire, dbVars, taskVars
<1>5. CASE UNCHANGED vars
  BY <1>2, <1>5 DEF vars, dbVars, taskVars
<1> QED
  BY <1>1, <1>3, <1>4, <1>5, PassedRequest DEF Next

\* the log that n of the messages ms make in chat c
LogFrom(ms, n, c) ==
  [i \in 1 .. n |-> (CHOOSE m \in ms : m.chat = c /\ m.index = i).gid]

\* They have the indexes 1 to n.
Numbered(ms, n, c) ==
  /\ n \in Nat
  /\ \A m \in ms : m.gid \in Gids
  /\ \A i \in 1 .. n : \E m \in ms : m.chat = c /\ m.index = i
  /\ \A m \in ms : m.chat = c => m.index \in 1 .. n
  /\ \A l, m \in ms : l.chat = c /\ m.chat = c /\ l.index = m.index => l = m

LEMMA LogEntries ==
  ASSUME NEW ms, NEW n, NEW c, Numbered(ms, n, c)
  PROVE  /\ LogFrom(ms, n, c) \in Seq(Gids)
         /\ Len(LogFrom(ms, n, c)) = n
         /\ \A m \in ms : m.chat = c => LogFrom(ms, n, c)[m.index] = m.gid
<1> DEFINE Entry(i) == CHOOSE m \in ms : m.chat = c /\ m.index = i
<1>1. ASSUME NEW i \in 1 .. n
      PROVE  Entry(i) \in ms /\ Entry(i).chat = c /\ Entry(i).index = i
  BY <1>1 DEF Numbered
<1>2. \A m \in ms : m.chat = c => Entry(m.index) = m
  BY <1>1 DEF Numbered
<1> HIDE DEF Entry
<1>3. LogFrom(ms, n, c) = [i \in 1 .. n |-> Entry(i).gid]
  BY DEF LogFrom, Entry
<1>4. LogFrom(ms, n, c) \in [1 .. n -> Gids]
  BY <1>1, <1>3 DEF Numbered
<1>5. LogFrom(ms, n, c) \in Seq(Gids) /\ Len(LogFrom(ms, n, c)) = n
  BY <1>4 DEF Numbered
<1>6. \A m \in ms : m.chat = c => LogFrom(ms, n, c)[m.index] = m.gid
  BY <1>2, <1>3 DEF Numbered
<1> QED
  BY <1>5, <1>6

LEMMA LogIsLog ==
  ASSUME TypeOK, StoreInv, NEW c \in Chats
  PROVE  /\ LogOf(c) = LogFrom(messages, last[c].index, c)
         /\ last[c].index \in Nat
         /\ LogOf(c) \in Seq(Gids) /\ Len(LogOf(c)) = last[c].index
         /\ \A m \in messages : m.chat = c =>
              m.index \in 1 .. Len(LogOf(c)) /\ LogOf(c)[m.index] = m.gid
<1>1. LogOf(c) = LogFrom(messages, last[c].index, c)
  BY DEF LogOf, LogFrom
<1>2. last[c].index \in Nat /\ \A m \in messages : m.gid \in Gids
  BY DEF TypeOK, Types
<1>3. Numbered(messages, last[c].index, c)
  BY <1>2 DEF Numbered, StoreInv, LogInv
<1>4. /\ LogFrom(messages, last[c].index, c) \in Seq(Gids)
      /\ Len(LogFrom(messages, last[c].index, c)) = last[c].index
      /\ \A m \in messages : m.chat = c
           => LogFrom(messages, last[c].index, c)[m.index] = m.gid
  BY <1>3, LogEntries
<1>5. \A m \in messages : m.chat = c => m.index \in 1 .. last[c].index
  BY <1>3 DEF Numbered
<1> QED
  BY <1>1, <1>2, <1>4, <1>5

Logs == [c \in Chats |-> LogOf(c)]
Acks == [r \in Reqs |-> IF pc[r] = "ok" THEN BatchSet(r) ELSE {}]

\* A commit appends its message to the log of its chat.
LEMMA LogAppended ==
  ASSUME TypeOK, StoreInv, TypeOK', StoreInv', NEW r \in Reqs,
         pc[r] = "commit", Commit(r)
  PROVE  Logs' = [Logs EXCEPT ![Home(r)] = Append(Logs[Home(r)], Gid(r))]
<1> DEFINE new  == Committed(r)
           home == Home(r)
           Old(c) == LogFrom(messages, last[c].index, c)
           New(c) == LogFrom(messages', last'[c].index, c)
<1>0. /\ home \in Chats /\ messages' = messages \cup {new}
      /\ new.chat = home /\ new.index = last[home].index + 1
      /\ new.gid = Gid(r) /\ Gid(r) \in Gids
      /\ last'[home].index = last[home].index + 1
      /\ \A c \in Chats \ {home} : last'[c] = last[c]
  BY CommitNext, Reached DEF Committed
<1> HIDE DEF new, home
<1>1. ASSUME NEW c \in Chats
      PROVE  /\ LogOf(c) = Old(c) /\ last[c].index \in Nat
             /\ Old(c) \in Seq(Gids) /\ Len(Old(c)) = last[c].index
             /\ \A m \in messages : m.chat = c =>
                  m.index \in 1 .. Len(Old(c)) /\ Old(c)[m.index] = m.gid
             /\ \A i \in 1 .. last[c].index :
                  \E m \in messages : m.chat = c /\ m.index = i
  BY LogIsLog DEF StoreInv, LogInv
<1>2. ASSUME NEW c \in Chats
      PROVE  /\ LogOf(c)' = New(c) /\ last'[c].index \in Nat
             /\ New(c) \in Seq(Gids) /\ Len(New(c)) = last'[c].index
             /\ \A m \in messages' : m.chat = c => New(c)[m.index] = m.gid
  <2>1. LogOf(c)' = New(c)
    BY DEF LogOf, LogFrom
  <2>2. last'[c].index \in Nat /\ \A m \in messages' : m.gid \in Gids
    BY DEF TypeOK, Types
  <2>3. Numbered(messages', last'[c].index, c)
    BY <2>2 DEF Numbered, StoreInv, LogInv
  <2>4. /\ New(c) \in Seq(Gids) /\ Len(New(c)) = last'[c].index
        /\ \A m \in messages' : m.chat = c => New(c)[m.index] = m.gid
    BY <2>3, LogEntries
  <2> QED
    BY <2>1, <2>2, <2>4
<1> HIDE DEF Old, New
<1>3. ASSUME NEW c \in Chats, NEW i \in 1 .. last[c].index
      PROVE  New(c)[i] = Old(c)[i]
  <2>1. PICK m \in messages : m.chat = c /\ m.index = i
    BY <1>1, <1>3
  <2> QED
    BY <1>0, <1>1, <1>2, <1>3, <2>1
<1>4. ASSUME NEW c \in Chats \ {home} PROVE New(c) = Old(c)
  <2>1. c \in Chats /\ last'[c] = last[c]
    BY <1>0
  <2>2. /\ New(c) \in Seq(Gids) /\ Old(c) \in Seq(Gids)
        /\ Len(New(c)) = last[c].index /\ Len(Old(c)) = last[c].index
    BY <1>1, <1>2, <2>1
  <2>3. \A i \in 1 .. Len(New(c)) : New(c)[i] = Old(c)[i]
    BY <1>3, <2>1, <2>2
  <2> QED
    BY <2>2, <2>3, SeqEqual
<1>5. New(home) = Append(Old(home), Gid(r))
  <2>1. /\ Append(Old(home), Gid(r)) \in Seq(Gids)
        /\ Len(Append(Old(home), Gid(r))) = Len(Old(home)) + 1
        /\ \A i \in 1 .. Len(Old(home)) :
             Append(Old(home), Gid(r))[i] = Old(home)[i]
        /\ Append(Old(home), Gid(r))[Len(Old(home)) + 1] = Gid(r)
    BY <1>0, <1>1, AppendProperties
  <2>2. New(home)[last[home].index + 1] = Gid(r)
    BY <1>0, <1>2
  <2>3. /\ New(home) \in Seq(Gids) /\ Len(New(home)) = Len(Old(home)) + 1
        /\ Len(Old(home)) \in Nat /\ Len(Old(home)) = last[home].index
    BY <1>0, <1>1, <1>2
  <2>4. ASSUME NEW i \in 1 .. Len(Old(home)) + 1
        PROVE  New(home)[i] = Append(Old(home), Gid(r))[i]
    <3>1. CASE i \in 1 .. Len(Old(home))
      BY <1>0, <1>3, <2>1, <2>3, <3>1
    <3>2. CASE i = Len(Old(home)) + 1
      BY <2>1, <2>2, <2>3, <3>2
    <3> QED
      BY <2>3, <2>4, <3>1, <3>2
  <2> QED
    BY <2>1, <2>3, <2>4, SeqEqual
<1>6. Logs' = [c \in Chats |-> New(c)] /\ Logs = [c \in Chats |-> Old(c)]
  BY <1>1, <1>2 DEF Logs
<1> QED
  BY <1>0, <1>4, <1>5, <1>6 DEF home

LEMMA AbstractInit == Init => Abstract!Init
<1> SUFFICES ASSUME Init PROVE Abstract!Init
  OBVIOUS
<1>1. ASSUME NEW c \in Chats PROVE LogOf(c) = <<>>
  <2>1. last[c].index = 0 /\ messages = {}
    BY DEF Init
  <2>2. Numbered(messages, 0, c)
    BY <2>1 DEF Numbered
  <2>3. LogOf(c) = LogFrom(messages, 0, c)
    BY <2>1 DEF LogOf, LogFrom
  <2>4. LogOf(c) \in Seq(Gids) /\ Len(LogOf(c)) = 0
    BY <2>2, <2>3, LogEntries
  <2> QED
    BY <2>4
<1>2. \A c \in Chats : LogOf(c) = <<>>
  BY <1>1
<1>3. \A r \in Reqs : pc[r] # "ok"
  BY DEF Init
<1> QED
  BY <1>2, <1>3 DEF Abstract!Init

\* the steps of the abstract log, as seen from here
LEMMA AbstractStore ==
  ASSUME NEW c \in Chats, NEW g \in Gids, UNCHANGED Acks,
         Logs' = [Logs EXCEPT ![c] = Append(Logs[c], g)]
  PROVE  Abstract!Next
<1>1. Abstract!Store(c, g)
  BY DEF Abstract!Store, Logs, Acks
<1> QED
  BY <1>1 DEF Abstract!Next

LEMMA AbstractAcknowledge ==
  ASSUME NEW r \in Reqs, NEW gids \in SUBSET Gids, UNCHANGED Logs,
         \A g \in gids : \E c \in Chats : \E i \in 1 .. Len(LogOf(c)) :
           LogOf(c)[i] = g,
         Acks' = [Acks EXCEPT ![r] = gids]
  PROVE  Abstract!Next
<1>1. \A g \in gids : Abstract!Stored(g)
  BY DEF Abstract!Stored
<1>2. Abstract!Acknowledge(r, gids)
  BY <1>1 DEF Abstract!Acknowledge, Logs, Acks
<1> QED
  BY <1>2 DEF Abstract!Next

LEMMA LogsKept == ASSUME UNCHANGED <<messages, last>> PROVE UNCHANGED Logs
  BY DEF Logs, LogOf

LEMMA AcksKept ==
  ASSUME \A s \in Reqs : pc'[s] = "ok" <=> pc[s] = "ok" PROVE UNCHANGED Acks
<1>1. \A s \in Reqs : BatchSet(s)' = BatchSet(s)
  BY DEF BatchSet
<1> QED
  BY <1>1 DEF Acks

\* a step that the abstract log does not take
LEMMA AbstractQuiet ==
  ASSUME UNCHANGED <<messages, last>>,
         \A s \in Reqs : pc'[s] = "ok" <=> pc[s] = "ok"
  PROVE  UNCHANGED Abstract!logVars
<1>1. UNCHANGED <<Logs, Acks>>
  BY LogsKept, AcksKept
<1> QED
  BY <1>1 DEF Abstract!logVars, Logs, Acks

LEMMA AbstractMoved ==
  ASSUME TypeOK, UNCHANGED <<messages, last>>, NEW r \in Reqs, NEW step,
         Goto(r, step), step # "ok", pc[r] # "ok"
  PROVE  UNCHANGED Abstract!logVars
<1>1. pc \in [Reqs -> Steps]
  BY DEF TypeOK, Types
<1>2. pc'[r] = step /\ \A s \in Reqs \ {r} : pc'[s] = pc[s]
  BY <1>1 DEF Goto
<1> QED
  BY <1>2, AbstractQuiet

LEMMA AbstractCommit ==
  ASSUME TypeInv, StoreInv, TypeInv', StoreInv', NEW r \in Reqs,
         Stored(r) \/ CommitUnconfirmed(r)
  PROVE  Abstract!Next
<1>0. /\ TypeOK /\ TypeOK' /\ pc[r] = "commit" /\ Commit(r)
      /\ pc \in [Reqs -> Steps]
  BY DEF TypeInv, TypeOK, Types, Stored, CommitUnconfirmed
<1>1. Logs' = [Logs EXCEPT ![Home(r)] = Append(Logs[Home(r)], Gid(r))]
  BY <1>0, LogAppended
<1>2. \A s \in Reqs : pc'[s] = "ok" <=> pc[s] = "ok"
  BY <1>0 DEF Stored, CommitUnconfirmed, Advance, Goto
<1>3. UNCHANGED Acks
  BY <1>2, AcksKept
<1>4. Home(r) \in Chats /\ Gid(r) \in Gids
  BY <1>0, Reached
<1> QED
  BY <1>1, <1>3, <1>4, AbstractStore

LEMMA AbstractAnswer ==
  ASSUME TypeInv, StoreInv, PassedInv, NEW r \in Reqs, Answer(r)
  PROVE  Abstract!Next
<1>0. /\ TypeOK /\ pc \in [Reqs -> Steps] /\ pc[r] = "answer"
      /\ pc' = [pc EXCEPT ![r] = "ok"] /\ UNCHANGED <<messages, last>>
  BY DEF TypeInv, TypeOK, Types, Answer, Goto, dbVars
<1>1. UNCHANGED Logs
  BY <1>0, LogsKept
<1>2. Acks' = [Acks EXCEPT ![r] = BatchSet(r)]
  <2>1. pc'[r] = "ok" /\ \A s \in Reqs \ {r} : pc'[s] = pc[s]
    BY <1>0
  <2>2. \A s \in Reqs : BatchSet(s)' = BatchSet(s)
    BY DEF BatchSet
  <2> QED
    BY <2>1, <2>2 DEF Acks
<1>3. BatchSet(r) \in SUBSET Gids
  BY ConstantTypes DEF BatchSet
<1>4. ASSUME NEW g \in BatchSet(r)
      PROVE  \E c \in Chats : \E i \in 1 .. Len(LogOf(c)) : LogOf(c)[i] = g
  <2>1. PICK m \in messages : m.gid = g
    BY <1>0, <1>4 DEF BatchSet, PassedInv, InMessages
  <2>2. m.chat \in Chats
    BY <1>0 DEF TypeOK, Types
  <2>3. m.index \in 1 .. Len(LogOf(m.chat)) /\ LogOf(m.chat)[m.index] = g
    BY <1>0, <2>1, <2>2, LogIsLog
  <2> QED
    BY <2>2, <2>3
<1> QED
  BY <1>1, <1>2, <1>3, <1>4, AbstractAcknowledge

LEMMA AbstractRequest ==
  ASSUME TypeInv, StoreInv, PassedInv, TypeInv', StoreInv',
         NEW r \in Reqs, Begin(r) \/ Go(r) \/ GoWrong(r)
  PROVE  [Abstract!Next]_(Abstract!logVars)
<1> USE DEF dbVars
<1>0. TypeOK /\ then[r] \in {"permit", "committer", "statuses"}
  BY DEF TypeInv, TypeOK, Types
<1>1. CASE Stored(r) \/ CommitUnconfirmed(r)
  BY <1>1, AbstractCommit
<1>2. CASE Answer(r)
  BY <1>2, AbstractAnswer
<1>3. CASE Begin(r) \/ FindChat(r) \/ FindFails(r) \/ CreateChat(r)
  BY <1>0, <1>3, AbstractMoved DEF Begin, FindChat, FindFails, CreateChat
<1>4. CASE JoinCheck(r) \/ JoinInsert(r)
  BY <1>0, <1>4, AbstractMoved DEF JoinCheck, JoinInsert, JoinFrame, NextMember
<1>5. CASE LookUp(r) \/ FillCache(r) \/ IsCommitter(r)
  BY <1>0, <1>5, AbstractMoved DEF LookUp, After, FillCache, IsCommitter
<1>6. CASE ReadStatuses(r) \/ ReadFails(r)
  BY <1>0, <1>6, AbstractMoved DEF ReadStatuses, ReadFails, Address
<1>7. CASE Dedup(r) \/ DedupFails(r)
  BY <1>0, <1>7, AbstractMoved DEF Dedup, DedupFails, Advance
<1>8. CASE LockRow(r) \/ Insert(r)
  BY <1>0, <1>8, AbstractMoved DEF LockRow, Insert
<1>9. CASE SaveStatus(r)
  BY <1>0, <1>9, AbstractMoved DEF SaveStatus
<1>10. CASE Fail(r)
  BY <1>0, <1>10, AbstractMoved DEF Fail, MayFail
<1> QED
  BY <1>1, <1>2, <1>3, <1>4, <1>5, <1>6, <1>7, <1>8, <1>9, <1>10 DEF Go, GoWrong

LEMMA AbstractStep ==
  ASSUME TypeInv, StoreInv, PassedInv, TypeInv', StoreInv', [Next]_vars
  PROVE  [Abstract!Next]_(Abstract!logVars)
<1>1. CASE Crash
  <2>1. UNCHANGED <<messages, last>>
    BY <1>1 DEF Crash
  <2>2. \A s \in Reqs : pc'[s] = IF pc[s] \in {"idle", "ok"} THEN pc[s] ELSE "failed"
    BY <1>1 DEF Crash
  <2> QED
    BY <2>1, <2>2, AbstractQuiet
<1>2. ASSUME UNCHANGED <<messages, last, pc>> PROVE UNCHANGED Abstract!logVars
  BY <1>2, AbstractQuiet
<1>3. ASSUME NEW u \in Users, UserStep(u) PROVE UNCHANGED Abstract!logVars
  BY <1>2, <1>3 DEF UserStep, GoOnline, GoOffline, FetchRead, FetchDelete,
     FetchFails, dbVars
<1>4. ASSUME NEW c \in Chats, Expire(c) PROVE UNCHANGED Abstract!logVars
  BY <1>2, <1>4 DEF Expire, dbVars
<1>5. CASE UNCHANGED vars
  BY <1>2, <1>5 DEF vars, dbVars
<1> QED
  BY <1>1, <1>3, <1>4, <1>5, AbstractRequest DEF Next

\* MessageLog implements ChatLog: the chats are logs that only grow, and a
\* request is answered with success only when its messages are in them
\* (message.go:326-372, send.go:126-150).
THEOREM LogImplemented == Spec => ImplementsChatLog
<1>1. Init => Abstract!Init
  BY AbstractInit
<1>2. Init => PassedInv
  BY DEF Init, PassedInv
<1>3. TypeInv /\ PassedInv /\ [Next]_vars => PassedInv'
  BY PassedStep
<1>4. /\ TypeInv /\ StoreInv /\ PassedInv /\ TypeInv' /\ StoreInv'
      /\ [Next]_vars
      => [Abstract!Next]_(Abstract!logVars)
  BY AbstractStep
<1> QED
  BY <1>1, <1>2, <1>3, <1>4, StoreInvariant, PTL
     DEF Spec, ImplementsChatLog, Abstract!Spec

=============================================================================
