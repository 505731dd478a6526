----------------------------- MODULE HubProofs -----------------------------
(***************************************************************************)
(* Theorems about Hub, for any number of connections, users and devices    *)
(* and any capacity of the channels.                                       *)
(***************************************************************************)
EXTENDS Hub, SequenceTheorems, TLAPS

USE DEF Procs

\* what a full channel lets through of n copies offered to it
LEMMA OfferType ==
  ASSUME NEW buffer \in Seq({"msg", "kick"}), Len(buffer) <= SendCap,
         NEW n \in Nat
  PROVE  /\ Offer(buffer, n) \in Seq({"msg", "kick"})
         /\ Len(Offer(buffer, n)) <= SendCap
<1>1. SendCap \in Nat \ {0}
  BY HubAssumption
<1> DEFINE copies == [i \in 1 .. n |-> "msg"]
           all == buffer \o copies
<1>2. copies \in Seq({"msg", "kick"})
  BY IsASeq
<1>3. all \in Seq({"msg", "kick"}) /\ Len(all) \in Nat
  BY <1>2, ConcatProperties, LenProperties
<1> HIDE DEF all
<1>4. CASE Len(all) > SendCap
  BY <1>1, <1>3, <1>4, SubSeqProperties DEF Offer, all
<1>5. CASE ~(Len(all) > SendCap)
  BY <1>1, <1>3, <1>5, SubSeqProperties DEF Offer, all
<1> QED
  BY <1>4, <1>5

LEMMA CopiesType ==
  ASSUME NEW job, NEW c PROVE Copies(job, c) \in Nat
  BY DEF Copies

\* a message appended to a channel with room, or taken from one
LEMMA AppendType ==
  ASSUME NEW buffer \in Seq({"msg", "kick"}), Len(buffer) < SendCap,
         NEW m \in {"msg", "kick"}
  PROVE  /\ Append(buffer, m) \in Seq({"msg", "kick"})
         /\ Len(Append(buffer, m)) <= SendCap
  BY HubAssumption, AppendProperties, LenProperties

LEMMA TailType ==
  ASSUME NEW buffer \in Seq({"msg", "kick"}), Len(buffer) <= SendCap,
         buffer # <<>>
  PROVE  /\ Tail(buffer) \in Seq({"msg", "kick"})
         /\ Len(Tail(buffer)) <= SendCap
  BY HubAssumption, HeadTailProperties, LenProperties

LEMMA TypeInit == Init => TypeOK
  BY HubAssumption DEF Init, TypeOK, Jobs, LoginSteps, LeaveSteps

\* the client of a register or an unregister that the hub has taken
LEMMA JobClient ==
  ASSUME hub \in Jobs, hub.kind \in {"register", "unregister"}
  PROVE  hub.client \in Conns
  BY DEF Jobs, Idle

LEMMA IdleJob == Idle \in Jobs
  BY DEF Jobs

\* one message more, or one less, in the channel of a connection
LEMMA SendType ==
  ASSUME TypeOK, NEW c \in Conns,
         \/ /\ Len(send[c]) < SendCap
            /\ \E m \in {"msg", "kick"} :
                 send' = [send EXCEPT ![c] = Append(@, m)]
         \/ send[c] # <<>> /\ send' = [send EXCEPT ![c] = Tail(@)]
  PROVE  /\ send' \in [Conns -> Seq({"msg", "kick"})]
         /\ \A d \in Conns : Len(send'[d]) <= SendCap
<1>1. /\ send \in [Conns -> Seq({"msg", "kick"})]
      /\ \A d \in Conns : Len(send[d]) <= SendCap
  BY DEF TypeOK
<1>2. CASE /\ Len(send[c]) < SendCap
           /\ \E m \in {"msg", "kick"} :
                send' = [send EXCEPT ![c] = Append(@, m)]
  <2>1. PICK m \in {"msg", "kick"} : send' = [send EXCEPT ![c] = Append(@, m)]
    BY <1>2
  <2>2. /\ Append(send[c], m) \in Seq({"msg", "kick"})
        /\ Len(Append(send[c], m)) <= SendCap
    BY <1>1, <1>2, AppendType
  <2> QED
    BY <1>1, <2>1, <2>2
<1>3. CASE send[c] # <<>> /\ send' = [send EXCEPT ![c] = Tail(@)]
  <2>1. /\ Tail(send[c]) \in Seq({"msg", "kick"})
        /\ Len(Tail(send[c])) <= SendCap
    BY <1>1, <1>3, TailType
  <2> QED
    BY <1>1, <1>3, <2>1
<1> QED
  BY <1>2, <1>3

\* what the consumer of results does keeps its variables in their types
LEMMA ReportType ==
  ASSUME TypeOK, NEW c \in Conns, NEW err \in BOOLEAN, NEW loggedOut \in BOOLEAN,
         Report(c, err, loggedOut)
  PROVE  /\ isLoggedOut' \in [Conns -> BOOLEAN]
         /\ consumer' \in [Conns -> {"wait", "dead"}]
<1>1. /\ isLoggedOut \in [Conns -> BOOLEAN]
      /\ consumer \in [Conns -> {"wait", "dead"}]
  BY DEF TypeOK
<1>2. CASE consumer[c] = "dead"
  BY <1>1, <1>2 DEF Report
<1>3. CASE consumer[c] # "dead"
  <2>1. isLoggedOut' = [isLoggedOut EXCEPT ![c] = loggedOut]
    BY <1>3 DEF Report
  <2>2. \E r \in {"wait", "dead"} : consumer' = [consumer EXCEPT ![c] = r]
    BY <1>3 DEF Report
  <2> QED
    BY <1>1, <2>1, <2>2
<1> QED
  BY <1>2, <1>3

LEMMA ReturnType ==
  ASSUME TypeOK, NEW c \in Conns, NEW p \in Procs, Return(c, p)
  PROVE  /\ isLoggedOut' \in [Conns -> BOOLEAN]
         /\ consumer' \in [Conns -> {"wait", "dead"}]
         /\ pc' \in [Conns -> [Procs -> LeaveSteps]]
<1>1. pc' \in [Conns -> [Procs -> LeaveSteps]]
  BY DEF TypeOK, Return, Goto, LeaveSteps
<1>2. CASE p = "quit"
  BY <1>1, <1>2, ReportType DEF Return
<1>3. CASE p # "quit"
  BY <1>1, <1>3 DEF Return, TypeOK
<1> QED
  BY <1>2, <1>3

LEMMA TypeStep == TypeOK /\ [Next]_vars => TypeOK'
<1> SUFFICES ASSUME TypeOK, [Next]_vars PROVE TypeOK'
  OBVIOUS
<1> USE HubAssumption
<1> USE DEF TypeOK, hubVars, connVars, taskVars, statusVars, envVars
<1>1. CASE HubStep
  <2> USE JobClient, IdleJob DEF RegisterFrame, Taken, Reply, EndLogin, Enter, LoginSteps
  <2>1. CASE RegisterIgnored
    BY <2>1 DEF RegisterIgnored
  <2>2. CASE RegisterFirst
    BY <2>2 DEF RegisterFirst
  <2>3. CASE RegisterDisplacing
    BY <2>3 DEF RegisterDisplacing, Peers
  <2>4. CASE RegisterWeb
    BY SMTT(30), <2>4 DEF RegisterWeb, Peers
  <2>5. CASE HubUnregister
    BY <2>5 DEF HubUnregister
  <2>6. CASE HubCast
    <3>1. \A c \in Conns :
            /\ Offer(send[c], Copies(hub, c)) \in Seq({"msg", "kick"})
            /\ Len(Offer(send[c], Copies(hub, c))) <= SendCap
      BY OfferType, CopiesType
    <3> QED
      BY <2>6, <3>1 DEF HubCast
  <2> QED
    BY <1>1, <2>1, <2>2, <2>3, <2>4, <2>5, <2>6 DEF HubStep
<1>2. CASE Tick \/ Cast \/ PollLock \/ PollStep
  <2>1. CASE Tick
    BY <2>1 DEF Tick
  <2>2. CASE Cast
    BY <2>2 DEF Cast, Multicast, Publish, Jobs
  <2>3. CASE PollLock
    BY <2>3 DEF PollLock
  <2>4. CASE PollPush
    <3>1. PICK c \in poll.todo :
            /\ Len(send[c]) < SendCap
            /\ send' = [send EXCEPT ![c] = Append(@, "msg")]
            /\ poll' = [poll EXCEPT !.todo = @ \ {c}]
            /\ UNCHANGED <<hubVars, subscription, session, told, socket, writer,
                           taskVars, statusVars, envVars, hub>>
      BY <2>4 DEF PollPush
    <3>2. /\ send' \in [Conns -> Seq({"msg", "kick"})]
          /\ \A d \in Conns : Len(send'[d]) <= SendCap
      BY <3>1, SendType
    <3> QED
      BY <3>1, <3>2
  <2>5. CASE PollUnlock
    BY <2>5 DEF PollUnlock
  <2> QED
    BY <1>2, <2>1, <2>2, <2>3, <2>4, <2>5 DEF PollStep
<1>3. ASSUME NEW c \in Conns, ClientStep(c) \/ FinishRequest(c) \/ ReadError(c)
      PROVE  TypeOK'
  <2> USE DEF Goto, AfterRead, LeaveSteps
  <2>1. CASE Drop(c)
    BY <2>1 DEF Drop
  <2>2. CASE ReceiveLogin(c)
    BY <2>2 DEF ReceiveLogin, LoginSteps
  <2>3. CASE ReceiveLogout(c)
    BY <2>3 DEF ReceiveLogout
  <2>4. CASE ReceiveRequest(c)
    BY <2>4 DEF ReceiveRequest
  <2>5. CASE FinishRequest(c)
    <3>1. /\ isLoggedOut' \in [Conns -> BOOLEAN]
          /\ consumer' \in [Conns -> {"wait", "dead"}]
      BY <2>5, ReportType DEF FinishRequest
    <3>2. subscription' \in [Conns -> SUBSET Users]
      <4>1. CASE request[c] = "subscribe"
        <5>1. PICK us \in SUBSET Users :
                subscription' = [subscription EXCEPT ![c] = @ \cup us]
          BY <2>5, <4>1 DEF FinishRequest
        <5> QED
          BY <5>1
      <4>2. CASE request[c] # "subscribe"
        BY <2>5, <4>2 DEF FinishRequest
      <4> QED
        BY <4>1, <4>2
    <3> QED
      BY <2>5, <3>1, <3>2 DEF FinishRequest
  <2>6. CASE ReadError(c)
    <3>1. /\ isLoggedOut' \in [Conns -> BOOLEAN]
          /\ consumer' \in [Conns -> {"wait", "dead"}]
      BY <2>6, ReportType DEF ReadError
    <3>2. \E step \in LeaveSteps : pc' = [pc EXCEPT ![c]["reader"] = step]
      BY <2>6 DEF ReadError
    <3>3. pc' \in [Conns -> [Procs -> LeaveSteps]]
      BY <3>2
    <3> QED
      BY <2>6, <3>1, <3>3 DEF ReadError
  <2> QED
    BY <1>3, <2>1, <2>2, <2>3, <2>4, <2>5, <2>6 DEF ClientStep
<1>4. ASSUME NEW c \in Conns, LoginStep(c)
      PROVE  TypeOK'
  <2> USE DEF Advance, LoginFrame, LoginSteps
  <2>1. ASSUME Refuse(c)
        PROVE  /\ send' \in [Conns -> Seq({"msg", "kick"})]
               /\ \A d \in Conns : Len(send'[d]) <= SendCap
               /\ isLoggedOut' \in [Conns -> BOOLEAN]
               /\ consumer' \in [Conns -> {"wait", "dead"}]
               /\ login' \in [Conns -> LoginSteps]
    BY <2>1, SendType, ReportType DEF Refuse
  <2>2. CASE CheckLimit(c)
    <3>1. CASE LimitReached
      BY <2>1, <2>2, <3>1 DEF CheckLimit
    <3>2. CASE ~LimitReached
      BY ZenonT(40), <2>2, <3>2 DEF CheckLimit
    <3> QED
      BY <3>1, <3>2
  <2>3. CASE Authenticate(c)
    BY <2>3 DEF Authenticate, MarkOnline
  <2>4. CASE AuthenticateFails(c)
    <3>1. /\ clientStatus' \in [Users -> {"online", "offline"}]
          /\ stranded' \subseteq Users
      <4>1. /\ clientStatus \in [Users -> {"online", "offline"}]
            /\ stranded \subseteq Users /\ UserOf[c] \in Users
        BY DEF TypeOK
      <4>2. \/ UNCHANGED <<clientStatus, stranded>>
            \/ /\ clientStatus' = [clientStatus EXCEPT ![UserOf[c]] = "online"]
               /\ stranded' = stranded \cup {UserOf[c]}
        BY <2>4 DEF AuthenticateFails, MarkOnline
      <4> HIDE DEF TypeOK
      <4> QED
        BY <4>1, <4>2
    <3> QED
      BY <2>1, <2>4, <3>1 DEF AuthenticateFails
  <2>5. CASE Announce(c)
    BY <2>5 DEF Announce, Publish, Jobs
  <2>8. CASE AnnounceFails(c)
    <3>1. /\ isLoggedOut' \in [Conns -> BOOLEAN]
          /\ consumer' \in [Conns -> {"wait", "dead"}]
      BY <2>8, ReportType DEF AnnounceFails
    <3>2. hub' \in Jobs
      BY <2>8 DEF AnnounceFails, Publish, Jobs
    <3>4. late' \subseteq Conns
      <4>1. late' \in {late, late \cup {c}} /\ late \subseteq Conns
        BY <2>8 DEF AnnounceFails, EndLogin, TypeOK
      <4> QED
        BY <4>1
    <3> QED
      BY <2>8, <3>1, <3>2, <3>4 DEF AnnounceFails
  <2>6. CASE AskRegister(c)
    BY <2>6 DEF AskRegister, Register, Jobs
  <2>7. CASE Judge(c)
    <3>1. /\ send' \in [Conns -> Seq({"msg", "kick"})]
          /\ \A d \in Conns : Len(send'[d]) <= SendCap
      BY <2>7, SendType DEF Judge
    <3>2. /\ isLoggedOut' \in [Conns -> BOOLEAN]
          /\ consumer' \in [Conns -> {"wait", "dead"}]
      BY <2>7, ReportType DEF Judge
    <3> QED
      BY <2>7, <3>1, <3>2 DEF Judge
  <2> QED
    BY <1>4, <2>2, <2>3, <2>4, <2>5, <2>6, <2>7, <2>8 DEF LoginStep
<1>5. ASSUME NEW c \in Conns, WriteStep(c)
      PROVE  TypeOK'
  <2>1. CASE WriteMessage(c)
    <3>1. /\ send' \in [Conns -> Seq({"msg", "kick"})]
          /\ \A d \in Conns : Len(send'[d]) <= SendCap
      BY <2>1, SendType DEF WriteMessage
    <3> QED
      BY <2>1, <3>1 DEF WriteMessage
  <2>2. CASE WriteFails(c)
    <3>1. /\ send' \in [Conns -> Seq({"msg", "kick"})]
          /\ \A d \in Conns : Len(send'[d]) <= SendCap
      BY <2>2, SendType DEF WriteFails
    <3> QED
      BY <2>2, <3>1 DEF WriteFails
  <2> QED
    BY <1>5, <2>1, <2>2 DEF WriteStep
<1>6. ASSUME NEW c \in Conns, NEW p \in Procs, LeaveStep(c, p)
      PROVE  TypeOK'
  <2> USE DEF Goto, Proceed, LogoutDone, LeaveFrame, LeaveSteps
  <2>1. CASE SendUnregister(c, p)
    <3>1. LoggedIn(c) \in BOOLEAN
      BY DEF LoggedIn
    <3> QED
      BY <2>1, <3>1 DEF SendUnregister, Unregister, Jobs
  <2>2. CASE EnterLogout(c, p)
    <3>1. CASE Return(c, p) /\ UNCHANGED logoutOnce
      <4>1. UNCHANGED <<socket, known, statusVars, hub>> /\ LeaveFrame
        BY <2>2 DEF EnterLogout
      <4> QED
        BY <3>1, <4>1, ReturnType, SMTT(30)
    <3>2. CASE /\ logoutOnce' = [logoutOnce EXCEPT ![c] = "busy"]
               /\ Proceed(c, p, "unreg")
      BY <2>2, <3>2 DEF EnterLogout
    <3> QED
      BY <2>2, <3>1, <3>2 DEF EnterLogout
  <2>3. CASE SendUnregisterAgain(c, p)
    BY <2>3 DEF SendUnregisterAgain, Unregister, Jobs
  <2>4. CASE CheckAllOut(c, p)
    <3>1. CASE LogoutDone(c) /\ Return(c, p)
      BY SMTT(30), <2>4, <3>1, ReturnType DEF CheckAllOut
    <3>2. CASE Proceed(c, p, "offline") /\ UNCHANGED logoutOnce
      BY <2>4, <3>2 DEF CheckAllOut
    <3> QED
      BY <2>4, <3>1, <3>2 DEF CheckAllOut
  <2>5. CASE MarkOffline(c, p)
    <3>1. UNCHANGED <<socket, known, hub>> /\ LeaveFrame
      BY <2>5 DEF MarkOffline
    <3>2. CASE LoggedIn(c)
      <4>1. /\ clientStatus' = [clientStatus EXCEPT ![UserOf[c]] = "offline"]
            /\ stranded' \subseteq Users
            /\ \E step \in LeaveSteps : pc' = [pc EXCEPT ![c][p] = step]
            /\ UNCHANGED <<isLoggedOut, consumer, logoutOnce>>
        BY <2>5, <3>2 DEF MarkOffline
      <4> QED
        BY <3>1, <4>1
    <3>3. CASE ~LoggedIn(c)
      <4>1. LogoutDone(c) /\ Return(c, p) /\ UNCHANGED statusVars
        BY <2>5, <3>3 DEF MarkOffline
      <4> QED
        BY <3>1, <4>1, ReturnType, SMTT(30)
    <3> QED
      BY <3>2, <3>3
  <2>6. CASE Notify(c, p)
    BY SMTT(30), <2>6, ReturnType DEF Notify, Publish, Multicast, Jobs
  <2>7. CASE MarkOfflineFails(c, p)
    <3>1. /\ clientStatus' \in [Users -> {"online", "offline"}]
          /\ stranded' \subseteq Users
      <4>1. /\ clientStatus \in [Users -> {"online", "offline"}]
            /\ stranded \subseteq Users /\ UserOf[c] \in Users
        BY DEF TypeOK
      <4>2. PICK status \in {clientStatus[UserOf[c]], "offline"} :
              /\ clientStatus' = [clientStatus EXCEPT ![UserOf[c]] = status]
              /\ stranded' = IF status = "online" THEN stranded \cup {UserOf[c]}
                                                  ELSE stranded \ {UserOf[c]}
        BY <2>7 DEF MarkOfflineFails
      <4> HIDE DEF TypeOK
      <4> QED
        BY <4>1, <4>2
    <3>2. /\ UNCHANGED <<socket, known, hub>> /\ LeaveFrame
          /\ LogoutDone(c) /\ Return(c, p)
      BY <2>7 DEF MarkOfflineFails
    <3> QED
      BY <3>1, <3>2, ReturnType, SMTT(30)
  <2> QED
    BY <1>6, <2>1, <2>2, <2>3, <2>4, <2>5, <2>6, <2>7 DEF LeaveStep
<1>7. CASE UNCHANGED vars
  BY <1>7 DEF vars
<1> HIDE DEF TypeOK, hubVars, connVars, taskVars, statusVars, envVars
<1> QED
  BY <1>1, <1>2, <1>3, <1>4, <1>5, <1>6, <1>7 DEF Next

\* every variable keeps its type; a channel never holds more than its capacity
THEOREM TypeCorrect == Spec => []TypeOK
  BY TypeInit, TypeStep, PTL DEF Spec

-----------------------------------------------------------------------------
(* The map of sessions. A connection is in it only after its own login has *)
(* registered it, and it registers once: its flag repeatLogin is clear     *)
(* when it enters, and set only when it is taken out.                      *)

DisplacedIsOut == \A c \in registered : ~repeatLogin[c]

SessionInv ==
  /\ \A c \in registered : login[c] \in {"judge", "done"}
  /\ hub.kind = "register" => login[hub.client] = "wait"
  /\ \A c \in Conns : repeatLogin[c] => login[c] \in {"judge", "done"}
  /\ OneSessionPerDevice
  /\ DisplacedIsOut

LEMMA SessionInit == Init => SessionInv
  BY DEF Init, SessionInv, OneSessionPerDevice, DisplacedIsOut, Idle

\* steps that bring nobody into the map and leave logins and flags alone
LEMMA SessionFrame ==
  ASSUME SessionInv, registered' \subseteq registered,
         UNCHANGED <<login, repeatLogin>>,
         hub' = hub \/ hub'.kind # "register"
  PROVE  SessionInv'
  BY DEF SessionInv, OneSessionPerDevice, DisplacedIsOut

\* steps of a login up to the registration, and after it
LEMMA SessionLogin ==
  ASSUME TypeOK, SessionInv, NEW c \in Conns, NEW step,
         login[c] \notin {"wait", "done"}, login[c] = "judge" => step = "done",
         login' = [login EXCEPT ![c] = step],
         UNCHANGED <<registered, repeatLogin>>,
         \/ hub' = hub
         \/ hub'.kind # "register"
         \/ hub' = Register(c) /\ step = "wait"
  PROVE  SessionInv'
  BY JobClient DEF TypeOK, SessionInv, OneSessionPerDevice, DisplacedIsOut, Register

LEMMA SessionStep == TypeOK /\ SessionInv /\ [Next]_vars => SessionInv'
<1> SUFFICES ASSUME TypeOK, SessionInv, [Next]_vars PROVE SessionInv'
  OBVIOUS
<1> USE DEF hubVars, connVars, taskVars, statusVars, envVars
<1>1. CASE RegisterIgnored \/ RegisterFirst \/ RegisterDisplacing \/ RegisterWeb
  <2> DEFINE c == hub.client
  <2>1. /\ c \in Conns /\ c \notin registered /\ ~repeatLogin[c]
        /\ hub' = Idle /\ login' = [login EXCEPT ![c] = "judge"]
    BY <1>1, JobClient
       DEF RegisterIgnored, RegisterFirst, RegisterDisplacing, RegisterWeb,
           Taken, Reply, TypeOK, SessionInv
  <2>2. hub'.kind # "register"
    BY <2>1 DEF Idle
  <2>3. /\ registered \subseteq Conns
        /\ login \in [Conns -> LoginSteps]
        /\ repeatLogin \in [Conns -> BOOLEAN]
    BY DEF TypeOK
  <2> HIDE DEF c
  <2>4. CASE RegisterIgnored
    <3>1. UNCHANGED <<registered, repeatLogin>>
      BY <2>4 DEF RegisterIgnored
    <3> QED
      BY <2>1, <2>2, <2>3, <3>1 DEF SessionInv, OneSessionPerDevice, DisplacedIsOut
  <2>5. CASE RegisterFirst
    <3>1. registered' = registered \cup {c} /\ Peers(c) = {} /\ UNCHANGED repeatLogin
      BY <2>5 DEF RegisterFirst, Enter, c
    <3> QED
      BY <2>1, <2>2, <2>3, <3>1
         DEF SessionInv, OneSessionPerDevice, DisplacedIsOut, Peers
  <2>6. CASE RegisterDisplacing
    <3>1. PICK old \in Peers(c) :
            /\ repeatLogin' = [repeatLogin EXCEPT ![old] = TRUE]
            /\ registered' = (registered \ {old}) \cup {c}
      BY <2>6 DEF RegisterDisplacing, Enter, c
    <3>2. PlatOf[c] # Web
      BY <2>6 DEF RegisterDisplacing, c
    <3>3. Peers(c) = {old}
      BY <2>3, <3>1, <3>2 DEF SessionInv, OneSessionPerDevice, Peers
    <3> QED
      BY <2>1, <2>2, <2>3, <3>1, <3>2, <3>3
         DEF SessionInv, OneSessionPerDevice, DisplacedIsOut, Peers
  <2>7. CASE RegisterWeb
    <3>1. /\ registered' \subseteq registered \cup {c}
          /\ PlatOf[c] = Web /\ UNCHANGED repeatLogin
      BY <2>7 DEF RegisterWeb, Enter, c
    <3> QED
      BY <2>1, <2>2, <2>3, <3>1
         DEF SessionInv, OneSessionPerDevice, DisplacedIsOut
  <2> QED
    BY <1>1, <2>4, <2>5, <2>6, <2>7
<1>2. CASE HubUnregister \/ HubCast
  BY <1>2, SessionFrame DEF HubUnregister, HubCast, Taken, Idle
<1>3. CASE Tick \/ Cast \/ PollLock \/ PollStep
  BY <1>3, SessionFrame
     DEF Tick, Cast, Multicast, Publish, PollLock, PollStep, PollPush, PollUnlock
<1>4. ASSUME NEW c \in Conns, ClientStep(c) PROVE SessionInv'
  <2>1. CASE ReceiveLogin(c)
    BY <2>1, SessionLogin DEF ReceiveLogin
  <2>2. CASE Drop(c) \/ ReceiveLogout(c) \/ ReceiveRequest(c)
    BY <2>2, SessionFrame DEF Drop, ReceiveLogout, ReceiveRequest
  <2> QED
    BY <1>4, <2>1, <2>2 DEF ClientStep
<1>5. ASSUME NEW c \in Conns, FinishRequest(c) \/ ReadError(c) \/ WriteStep(c)
      PROVE  SessionInv'
  BY <1>5, SessionFrame
     DEF FinishRequest, ReadError, WriteStep, WriteMessage, WriteFails
<1>6. ASSUME NEW c \in Conns, LoginStep(c) PROVE SessionInv'
  <2>1. PICK step :
          /\ login[c] \notin {"wait", "done"} /\ (login[c] = "judge" => step = "done")
          /\ login' = [login EXCEPT ![c] = step]
          /\ UNCHANGED <<registered, repeatLogin>>
          /\ \/ hub' = hub
             \/ hub'.kind # "register"
             \/ hub' = Register(c) /\ step = "wait"
    <3> USE DEF Advance, LoginFrame
    <3>1. CASE CheckLimit(c)
      BY <3>1 DEF CheckLimit, Refuse
    <3>2. CASE Authenticate(c) \/ AuthenticateFails(c)
      BY <3>2 DEF Authenticate, AuthenticateFails, Refuse
    <3>3. CASE Announce(c) \/ AskRegister(c)
      BY <3>3 DEF Announce, AskRegister, Publish
    <3>4. CASE AnnounceFails(c)
      BY <3>4 DEF AnnounceFails, Publish
    <3>5. CASE Judge(c)
      BY <3>5 DEF Judge
    <3> QED
      BY <1>6, <3>1, <3>2, <3>3, <3>4, <3>5 DEF LoginStep
  <2> QED
    BY <2>1, SessionLogin
<1>7. ASSUME NEW c \in Conns, NEW p \in Procs, LeaveStep(c, p) PROVE SessionInv'
  <2>1. UNCHANGED <<registered, login, repeatLogin>>
    BY <1>7 DEF LeaveStep, LeaveFrame, SendUnregister, EnterLogout,
                SendUnregisterAgain, CheckAllOut, MarkOffline, MarkOfflineFails,
                Notify
  <2>2. hub' = hub \/ hub'.kind # "register"
    <3>1. CASE MarkOfflineFails(c, p)
      BY <3>1 DEF MarkOfflineFails
    <3>2. CASE ~MarkOfflineFails(c, p)
      BY <1>7, <3>2 DEF LeaveStep, SendUnregister, EnterLogout,
                        SendUnregisterAgain, CheckAllOut, MarkOffline, Notify,
                        Unregister, Publish, Multicast
    <3> QED
      BY <3>1, <3>2
  <2> QED
    BY <2>1, <2>2, SessionFrame
<1>8. CASE UNCHANGED vars
  BY <1>8, SessionFrame DEF vars
<1> QED
  BY <1>1, <1>2, <1>3, <1>4, <1>5, <1>6, <1>7, <1>8 DEF Next, HubStep

LEMMA SessionCorrect == Spec => [](TypeOK /\ SessionInv)
<1>1. Init => TypeOK /\ SessionInv
  BY TypeInit, SessionInit
<1>2. TypeOK /\ SessionInv /\ [Next]_vars => (TypeOK /\ SessionInv)'
  BY TypeStep, SessionStep
<1> QED
  BY <1>1, <1>2, PTL DEF Spec

\* at most one session per user and device, zentaoweb excepted (hub.go:71-88)
THEOREM OneSession == Spec => []OneSessionPerDevice
<1>1. SessionInv => OneSessionPerDevice
  BY DEF SessionInv
<1> QED
  BY <1>1, SessionCorrect, PTL

LEMMA IdleIsNoUnregister == \A c : Idle # Unregister(c)
  BY DEF Idle, Unregister

\* nobody but Hub.run writes to the map
LEMMA MapByHubOnly ==
  ASSUME Next, ~HubStep PROVE registered' = registered
<1> USE DEF hubVars, connVars, taskVars, statusVars, envVars
<1>1. CASE Tick \/ Cast \/ PollLock \/ PollStep
  BY <1>1 DEF Tick, Cast, PollLock, PollStep, PollPush, PollUnlock
<1>2. ASSUME NEW c \in Conns,
             ClientStep(c) \/ FinishRequest(c) \/ ReadError(c) \/ WriteStep(c)
      PROVE  registered' = registered
  BY <1>2 DEF ClientStep, Drop, ReceiveLogin, ReceiveLogout, ReceiveRequest,
              FinishRequest, ReadError, WriteStep, WriteMessage, WriteFails
<1>3. ASSUME NEW c \in Conns, LoginStep(c) PROVE registered' = registered
  BY <1>3 DEF LoginStep, CheckLimit, Authenticate, AuthenticateFails, Announce,
              AnnounceFails, AskRegister, Judge, LoginFrame
<1>4. ASSUME NEW c \in Conns, NEW p \in Procs, LeaveStep(c, p)
      PROVE  registered' = registered
  BY <1>4 DEF LeaveStep, LeaveFrame, SendUnregister, EnterLogout,
              SendUnregisterAgain, CheckAllOut, MarkOffline, MarkOfflineFails,
              Notify
<1> QED
  BY <1>1, <1>2, <1>3, <1>4 DEF Next

\* an unregister of a displaced connection leaves the map alone, whoever has
\* taken its place (hub.go:80, 106)
THEOREM SuccessorIsKept == Spec => SuccessorStays
<1>1. [Next]_vars
        => [\A c \in Conns :
              hub = Unregister(c) /\ repeatLogin[c] => registered' = registered]_vars
  <2> SUFFICES ASSUME Next, NEW c \in Conns, hub = Unregister(c), repeatLogin[c]
               PROVE  registered' = registered
    OBVIOUS
  <2> USE DEF hubVars, connVars, taskVars, statusVars, envVars
  <2>1. hub.kind = "unregister" /\ hub.client = c /\ hub # Idle
    BY IdleIsNoUnregister DEF Unregister
  <2>2. CASE HubStep
    <3>1. HubUnregister
      BY <2>1, <2>2 DEF HubStep, RegisterIgnored, RegisterFirst, RegisterDisplacing,
                        RegisterWeb, HubCast, Taken
    <3> QED
      BY <2>1, <3>1 DEF HubUnregister
  <2>3. CASE ~HubStep
    BY <2>3, MapByHubOnly
  <2> QED
    BY <2>2, <2>3
<1> QED
  BY <1>1, PTL DEF Spec, SuccessorStays

\* An unregister of c takes c out of the map whatever c's device, so that from
\* then on only a login still in progress can bring it back, and is late.
LeavingInv ==
  /\ \A c \in Conns : isLoggedOut[c] => pc[c]["quit"] = "end"
  /\ \A c \in Conns :
       HasLeft(c) /\ c \notin late /\ hub # Unregister(c) => c \notin registered
  /\ \A c \in Conns, p \in Procs :
       pc[c][p] \in {"check", "offline", "notify", "refuse"} /\ c \notin late
         => c \notin registered

LEMMA LeavingInit == Init => LeavingInv
  BY DEF Init, LeavingInv, HasLeft

\* only userlogout sets isLoggedOut
LEMMA ReportSetsNothing ==
  ASSUME TypeOK, NEW c \in Conns, NEW err, Report(c, err, FALSE)
  PROVE  \A d \in Conns : isLoggedOut'[d] => isLoggedOut[d]
<1>1. isLoggedOut \in [Conns -> BOOLEAN]
  BY DEF TypeOK
<1>2. \/ UNCHANGED isLoggedOut
      \/ isLoggedOut' = [isLoggedOut EXCEPT ![c] = FALSE]
  BY DEF Report
<1> QED
  BY <1>1, <1>2

\* steps that bring nobody into the map and move no process
LEMMA LeavingFrame ==
  ASSUME LeavingInv, registered' \subseteq registered,
         late \subseteq late', UNCHANGED pc,
         \A c \in Conns : isLoggedOut'[c] => isLoggedOut[c],
         \/ hub' = hub
         \/ \A c \in Conns : hub # Unregister(c)
  PROVE  LeavingInv'
  BY DEF LeavingInv, HasLeft

\* one process of c goes on to the next step
LEMMA LeavingMove ==
  ASSUME TypeOK, LeavingInv, NEW c \in Conns, NEW p \in Procs, NEW step,
         pc[c][p] # "end", pc' = [pc EXCEPT ![c][p] = step],
         UNCHANGED <<registered, late>>,
         \A d \in Conns :
           isLoggedOut'[d] => isLoggedOut[d] \/ (d = c /\ p = "quit" /\ step = "end"),
         \/ step \in {"read", "eof", "leave"}
         \/ HasLeft(c)
         \/ hub' = Unregister(c),
         step \in {"check", "offline", "notify", "refuse"}
           => \/ c \in late \/ c \notin registered
              \/ pc[c][p] \in {"check", "offline", "notify", "refuse"},
         hub' = hub \/ hub = Idle
  PROVE  LeavingInv'
<1>1. pc \in [Conns -> [Procs -> LeaveSteps]]
  BY DEF TypeOK
<1>2. \A d \in Conns, q \in Procs :
        pc'[d][q] = IF d = c /\ q = p THEN step ELSE pc[d][q]
  BY <1>1
<1>3. \A d \in Conns : isLoggedOut'[d] => pc'[d]["quit"] = "end"
  BY <1>2 DEF LeavingInv
<1>4. \A d \in Conns, q \in Procs :
        pc'[d][q] \in {"check", "offline", "notify", "refuse"} /\ d \notin late'
          => d \notin registered'
  BY <1>2 DEF LeavingInv
<1>5. ASSUME NEW d \in Conns, HasLeft(d)', d \notin late', hub' # Unregister(d)
      PROVE  d \notin registered'
  <2>1. HasLeft(d)
    BY <1>2, <1>5 DEF HasLeft
  <2>2. hub # Unregister(d)
    BY <1>5, IdleIsNoUnregister
  <2> QED
    BY <1>5, <2>1, <2>2 DEF LeavingInv
<1> QED
  BY <1>3, <1>4, <1>5 DEF LeavingInv

\* what an unregister takes out of the map includes the connection itself
LEMMA UnregisterRemoves ==
  ASSUME TypeOK, SessionInv, HubUnregister, NEW c \in Conns, hub = Unregister(c)
  PROVE  c \notin registered'
<1>1. hub.client = c
  BY DEF Unregister
<1>2. CASE repeatLogin[c]
  BY <1>1, <1>2 DEF HubUnregister, SessionInv, DisplacedIsOut
<1>3. CASE ~repeatLogin[c]
  <2>1. registered' = registered \ Removed(c)
    BY <1>1, <1>3 DEF HubUnregister
  <2>2. c \in registered => c \in Removed(c)
    BY DEF SessionInv, Removed, LoggedIn, Peers
  <2> QED
    BY <2>1, <2>2
<1> QED
  BY <1>2, <1>3

LEMMA LeavingStep ==
  TypeOK /\ SessionInv /\ LeavingInv /\ [Next]_vars => LeavingInv'
<1> SUFFICES ASSUME TypeOK, SessionInv, LeavingInv, [Next]_vars PROVE LeavingInv'
  OBVIOUS
<1> USE DEF hubVars, connVars, taskVars, statusVars, envVars
<1>1. CASE RegisterIgnored \/ RegisterFirst \/ RegisterDisplacing \/ RegisterWeb
  <2> DEFINE c == hub.client
  <2>1. /\ c \in Conns /\ UNCHANGED <<pc, isLoggedOut>> /\ hub' = Idle
        /\ late' = (IF HasLeft(c) THEN late \cup {c} ELSE late)
        /\ registered' \subseteq registered \cup {c}
    BY <1>1, JobClient
       DEF RegisterIgnored, RegisterFirst, RegisterDisplacing, RegisterWeb,
           RegisterFrame, Enter, Taken, Reply, EndLogin, TypeOK
  <2>2. \A d \in Conns : hub # Unregister(d)
    BY <1>1 DEF RegisterIgnored, RegisterFirst, RegisterDisplacing, RegisterWeb,
                Taken, Unregister
  <2> HIDE DEF c
  <2>3. \A d \in Conns : HasLeft(d)' <=> HasLeft(d)
    BY <2>1 DEF HasLeft
  <2>4. \A d \in Conns, p \in Procs :
          pc[d][p] \in {"check", "offline", "notify", "refuse"} => HasLeft(d)
    BY DEF HasLeft
  <2>5. \A d \in Conns : HasLeft(d) /\ d \notin late' => d \notin registered'
    BY <2>1, <2>2 DEF LeavingInv
  <2> QED
    BY <2>1, <2>3, <2>4, <2>5 DEF LeavingInv
<1>2. CASE HubUnregister
  <2>1. /\ hub' = Idle /\ registered' \subseteq registered
        /\ UNCHANGED <<pc, late, isLoggedOut>>
    BY <1>2 DEF HubUnregister, Taken
  <2>2. ASSUME NEW d \in Conns, HasLeft(d)', d \notin late'
        PROVE  d \notin registered'
    <3>1. CASE hub = Unregister(d)
      BY <1>2, <3>1, UnregisterRemoves
    <3>2. CASE hub # Unregister(d)
      BY <2>1, <2>2, <3>2 DEF LeavingInv, HasLeft
    <3> QED
      BY <3>1, <3>2
  <2> QED
    BY <2>1, <2>2 DEF LeavingInv
<1>3. CASE HubCast
  BY <1>3, LeavingFrame DEF HubCast, Unregister
<1>4. CASE Tick \/ Cast \/ PollLock \/ PollStep
  BY <1>4, LeavingFrame, IdleIsNoUnregister
     DEF Tick, Cast, PollLock, PollStep, PollPush, PollUnlock
<1>5. ASSUME NEW c \in Conns, ClientStep(c) PROVE LeavingInv'
  <2>1. isLoggedOut[c] => HasLeft(c)
    BY DEF LeavingInv, HasLeft
  <2>2. CASE ReceiveLogin(c) \/ ReceiveRequest(c)
    <3>1. /\ pc[c]["reader"] = "read"
          /\ pc' = [pc EXCEPT ![c]["reader"] = AfterRead(c)]
          /\ UNCHANGED <<registered, late, isLoggedOut, hub>>
      BY <2>2 DEF ReceiveLogin, ReceiveRequest, CanRequest, CanRead, Goto
    <3>2. /\ AfterRead(c) \in {"read", "leave", "end"}
          /\ AfterRead(c) = "end" => isLoggedOut[c]
      BY DEF AfterRead
    <3> QED
      BY <2>1, <3>1, <3>2, LeavingMove
  <2>3. CASE ReceiveLogout(c)
    <3>1. /\ pc[c]["reader"] = "read" /\ pc[c]["quit"] = "idle"
          /\ pc' = [pc EXCEPT ![c]["reader"] = AfterRead(c), ![c]["quit"] = "leave"]
          /\ UNCHANGED <<registered, late, isLoggedOut, hub>>
      BY <2>3 DEF ReceiveLogout, CanRequest, CanRead
    <3>2. ~isLoggedOut[c]
      BY <3>1 DEF LeavingInv
    <3>3. AfterRead(c) \in {"read", "leave"}
      BY <3>2 DEF AfterRead
    <3>4. \A d \in Conns, q \in Procs :
            pc'[d][q] = pc[d][q] \/ pc'[d][q] \in {"read", "leave"}
      BY <3>1, <3>3 DEF TypeOK
    <3>5. \A d \in Conns : pc[d]["quit"] = "end" => pc'[d]["quit"] = "end"
      BY <3>1 DEF TypeOK
    <3> QED
      BY ZenonT(40), <3>1, <3>4, <3>5 DEF LeavingInv, HasLeft
  <2>4. CASE Drop(c)
    BY <2>4, LeavingFrame DEF Drop
  <2> QED
    BY <1>5, <2>2, <2>3, <2>4 DEF ClientStep
<1>6. ASSUME NEW c \in Conns, FinishRequest(c) PROVE LeavingInv'
  <2>1. \A d \in Conns : isLoggedOut'[d] => isLoggedOut[d]
    BY <1>6, ReportSetsNothing DEF FinishRequest
  <2> QED
    BY <1>6, <2>1, LeavingFrame DEF FinishRequest
<1>7. ASSUME NEW c \in Conns, ReadError(c) PROVE LeavingInv'
  <2>1. \A d \in Conns : isLoggedOut'[d] => isLoggedOut[d]
    BY <1>7, ReportSetsNothing DEF ReadError
  <2>2. isLoggedOut[c] => HasLeft(c)
    BY DEF LeavingInv, HasLeft
  <2>3. /\ pc[c]["reader"] = "read"
        /\ UNCHANGED <<registered, late, hub>>
        /\ \E step \in {"eof", "leave", "end"} :
             /\ pc' = [pc EXCEPT ![c]["reader"] = step]
             /\ step = "end" => isLoggedOut[c]
    BY <1>7 DEF ReadError, Goto
  <2> QED
    BY <2>1, <2>2, <2>3, LeavingMove
<1>8. ASSUME NEW c \in Conns, LoginStep(c) \/ WriteStep(c) PROVE LeavingInv'
  <2> USE DEF EndLogin
  <2>1. \A d \in Conns : isLoggedOut'[d] => isLoggedOut[d]
    <3>1. \/ Report(c, TRUE, FALSE) \/ Report(c, FALSE, FALSE)
          \/ UNCHANGED isLoggedOut
      BY <1>8 DEF LoginStep, CheckLimit, Authenticate, AuthenticateFails, Refuse,
                  Announce, AnnounceFails, AskRegister, Judge, WriteStep,
                  WriteMessage, WriteFails
    <3> QED
      BY <3>1, ReportSetsNothing
  <2>2. /\ UNCHANGED <<registered, pc>> /\ late \subseteq late'
        /\ hub' = hub \/ hub = Idle
    BY <1>8 DEF LoginStep, CheckLimit, Authenticate, AuthenticateFails, Announce,
                AnnounceFails, AskRegister, Judge, LoginFrame, WriteStep,
                WriteMessage, WriteFails
  <2> QED
    BY <2>1, <2>2, LeavingFrame, IdleIsNoUnregister
<1>9. ASSUME NEW c \in Conns, NEW p \in Procs, LeaveStep(c, p) PROVE LeavingInv'
  <2> USE DEF LeaveFrame, Proceed, Goto
  <2>1. ASSUME Return(c, p)
        PROVE  /\ pc' = [pc EXCEPT ![c][p] = "end"]
               /\ \A d \in Conns :
                    isLoggedOut'[d] => isLoggedOut[d] \/ (d = c /\ p = "quit")
    BY <2>1 DEF Return, Report, TypeOK
  <2>2. pc[c][p] \notin {"idle", "read", "eof", "leave"} => HasLeft(c)
    BY DEF HasLeft
  <2>3. CASE SendUnregister(c, p)
    BY <2>3, LeavingMove DEF SendUnregister
  <2>4. CASE EnterLogout(c, p)
    <3>1. /\ pc[c][p] = "logout" /\ UNCHANGED <<registered, late, hub>>
          /\ \/ Return(c, p)
             \/ Proceed(c, p, "unreg")
      BY <2>4 DEF EnterLogout
    <3> QED
      BY <2>1, <2>2, <3>1, LeavingMove
  <2>5. CASE SendUnregisterAgain(c, p)
    <3>1. c \in late \/ c \notin registered
      BY <2>2, <2>5, IdleIsNoUnregister DEF SendUnregisterAgain, LeavingInv
    <3> QED
      BY <2>2, <2>5, <3>1, LeavingMove DEF SendUnregisterAgain
  <2>6. CASE CheckAllOut(c, p)
    <3>1. /\ pc[c][p] = "check" /\ UNCHANGED <<registered, late, hub>>
          /\ Return(c, p) \/ Proceed(c, p, "offline")
      BY <2>6 DEF CheckAllOut
    <3> QED
      BY <2>1, <2>2, <3>1, LeavingMove
  <2>7. CASE MarkOffline(c, p) \/ MarkOfflineFails(c, p)
    <3>1. /\ pc[c][p] = "offline" /\ UNCHANGED <<registered, late, hub>>
          /\ \/ Return(c, p)
             \/ Proceed(c, p, "notify")
             \/ Proceed(c, p, "refuse")
      BY <2>7 DEF MarkOffline, MarkOfflineFails
    <3> QED
      BY <2>1, <2>2, <3>1, LeavingMove
  <2>8. CASE Notify(c, p)
    <3>1. /\ pc[c][p] \in {"notify", "refuse"} /\ UNCHANGED <<registered, late>>
          /\ hub = Idle /\ Return(c, p)
      BY <2>8 DEF Notify
    <3> QED
      BY <2>1, <2>2, <3>1, LeavingMove
  <2> QED
    BY <1>9, <2>3, <2>4, <2>5, <2>6, <2>7, <2>8 DEF LeaveStep
<1>10. CASE UNCHANGED vars
  BY <1>10, LeavingFrame DEF vars
<1> QED
  BY <1>1, <1>2, <1>3, <1>4, <1>5, <1>6, <1>7, <1>8, <1>9, <1>10 DEF Next, HubStep

LEMMA LeavingCorrect == Spec => [](TypeOK /\ SessionInv /\ LeavingInv)
<1>1. Init => LeavingInv
  BY LeavingInit
<1>2. TypeOK /\ SessionInv /\ LeavingInv /\ [Next]_vars => LeavingInv'
  BY LeavingStep
<1> QED
  BY <1>1, <1>2, SessionCorrect, PTL DEF Spec

\* whoever asks whether the user is all out is no longer in the map itself
\* (client.go:393-402)
THEOREM OwnEntryIsGone == Spec => []OwnEntryGone
<1>1. LeavingInv => OwnEntryGone
  BY DEF LeavingInv, OwnEntryGone
<1> QED
  BY <1>1, LeavingCorrect, PTL

-----------------------------------------------------------------------------
\* the map stands still while apiSync holds clientsMutex (server.go:119-129)
THEOREM MapIsStable == Spec => MapStableWhilePolling
<1>1. [Next]_vars => [poll.on => registered' = registered]_vars
  <2> SUFFICES ASSUME Next, poll.on PROVE registered' = registered
    OBVIOUS
  <2> USE DEF hubVars, connVars, taskVars, statusVars, envVars, MutexFree
  <2>1. CASE HubStep
    <3>1. HubUnregister
      BY <2>1 DEF HubStep, RegisterIgnored, RegisterFirst, RegisterDisplacing,
                  RegisterWeb, HubCast
    <3> QED
      BY <3>1 DEF HubUnregister
  <2>2. CASE ~HubStep
    BY <2>2, MapByHubOnly
  <2> QED
    BY <2>1, <2>2
<1> QED
  BY <1>1, PTL DEF Spec, MapStableWhilePolling

-----------------------------------------------------------------------------
(* Who owes a user who is online the row that says offline: a connection   *)
(* whose login has been accepted and that no later login displaced, until  *)
(* the body of its logoutOnce has settled the matter. Clause by clause:    *)
(* the body runs for a connection that has left; it leaves none in the     *)
(* map; the user id is never unset; one that was unset when the connection *)
(* left means that the login is late; and a process of a connection ends   *)
(* only when the connection owes nothing. Nobody owes it to the stranded.   *)

\* the login has ended, and the user id of the connection is set
Returned == {"judge", "done", "nosession"}
USE DEF Returned

Settled(c) ==
  \/ logoutOnce[c] = "done"
  \/ \E p \in Procs : pc[c][p] \in {"notify", "refuse"}

Owes(c) ==
  \/ c \in late
  \/ login[c] \in {"announce", "register", "wait"}
  \/ login[c] \in Returned /\ ~repeatLogin[c] /\ ~Settled(c)

Settling ==
  /\ \A c \in Conns : logoutOnce[c] # "free" => HasLeft(c)
  /\ \A c \in Conns : logoutOnce[c] = "done" /\ c \notin late => c \notin registered
  /\ \A c \in Conns, p \in Procs : known[c][p] => LoggedIn(c)
  /\ \A c \in Conns, p \in Procs :
       pc[c][p] = "logout" /\ ~known[c][p] /\ login[c] \in Returned
         => c \in late
  /\ \A c \in Conns, p \in Procs :
       pc[c][p] = "end" /\ login[c] \in Returned
         => repeatLogin[c] \/ logoutOnce[c] = "done" \/ c \in late

OnlineIsOwed ==
  \A u \in Users \ stranded : clientStatus[u] = "online" =>
    \E c \in Conns : UserOf[c] = u /\ Owes(c)

DutyInv == Settling /\ OnlineIsOwed

LEMMA DutyInit == Init => DutyInv
  BY DEF Init, DutyInv, Settling, OnlineIsOwed, HasLeft

\* steps that bring nobody into the map and leave logins and leaving alone
LEMMA DutyFrame ==
  ASSUME DutyInv, registered' \subseteq registered,
         UNCHANGED <<pc, late, login, repeatLogin, known, logoutOnce, statusVars>>
  PROVE  DutyInv'
  BY DEF DutyInv, Settling, OnlineIsOwed, Owes, Settled, HasLeft, LoggedIn,
         statusVars

\* steps of a login up to the registration, and after it
LEMMA DutyLogin ==
  ASSUME TypeOK, DutyInv, NEW c \in Conns, NEW step,
         login' = [login EXCEPT ![c] = step],
         \/ ~LoggedIn(c) /\ step \notin Returned
         \/ /\ login[c] \in {"announce", "register"}
            /\ step \in {"register", "wait"}
         \/ login[c] = "judge" /\ step = "done",
         \A u \in Users \ stranded' : clientStatus'[u] = "online" =>
           \/ clientStatus[u] = "online" /\ u \notin stranded
           \/ u = UserOf[c] /\ step = "announce",
         UNCHANGED <<registered, pc, late, repeatLogin, known, logoutOnce>>
  PROVE  DutyInv'
<1>1. login \in [Conns -> LoginSteps]
  BY DEF TypeOK
<1>2. \A d \in Conns : login'[d] = IF d = c THEN step ELSE login[d]
  BY <1>1
<1>3. Settling'
  BY <1>2 DEF DutyInv, Settling, HasLeft, LoggedIn
<1>4. \A d \in Conns : Owes(d) => Owes(d)'
  BY <1>2 DEF Owes, Settled, LoggedIn
<1>5. step = "announce" => Owes(c)'
  BY <1>2 DEF Owes
<1> QED
  BY <1>3, <1>4, <1>5 DEF DutyInv, OnlineIsOwed

\* one process of c goes on to the next step
LEMMA SettlingMove ==
  ASSUME TypeOK, Settling, NEW c \in Conns, NEW p \in Procs, NEW step,
         pc' = [pc EXCEPT ![c][p] = step],
         \A d \in Conns : d # c => logoutOnce'[d] = logoutOnce[d],
         step # "logout" => UNCHANGED known,
         step = "logout" => known' = [known EXCEPT ![c][p] = LoggedIn(c)],
         UNCHANGED <<registered, late, login, repeatLogin>>,
         logoutOnce'[c] # "free" => HasLeft(c)',
         logoutOnce'[c] = "done"
           => logoutOnce[c] = "done" \/ c \in late \/ c \notin registered,
         logoutOnce[c] = "done" => logoutOnce'[c] = "done",
         step = "end" /\ login[c] \in Returned
           => repeatLogin[c] \/ logoutOnce'[c] = "done" \/ c \in late
  PROVE  Settling'
<1>1. \A d \in Conns, q \in Procs :
        pc'[d][q] = IF d = c /\ q = p THEN step ELSE pc[d][q]
  BY DEF TypeOK
<1>2. \A d \in Conns, q \in Procs :
        known'[d][q] <=> (IF d = c /\ q = p /\ step = "logout"
                            THEN LoggedIn(c) ELSE known[d][q])
  BY DEF TypeOK
<1>3. \A d \in Conns : d # c => (HasLeft(d)' <=> HasLeft(d))
  BY <1>1 DEF HasLeft
<1>4. \A d \in Conns : LoggedIn(d)' <=> LoggedIn(d)
  BY DEF LoggedIn
<1>5. \A d \in Conns : logoutOnce'[d] # "free" => HasLeft(d)'
  BY <1>3 DEF Settling
<1>6. \A d \in Conns :
        logoutOnce'[d] = "done" /\ d \notin late' => d \notin registered'
  BY DEF Settling
<1>7. \A d \in Conns, q \in Procs : known'[d][q] => LoggedIn(d)'
  BY <1>2, <1>4 DEF Settling
<1>8. \A d \in Conns, q \in Procs :
        pc'[d][q] = "logout" /\ ~known'[d][q] /\ login'[d] \in Returned
          => d \in late'
  <2> SUFFICES ASSUME NEW d \in Conns, NEW q \in Procs, pc'[d][q] = "logout",
                      ~known'[d][q], login'[d] \in Returned
               PROVE  d \in late
    OBVIOUS
  <2>1. CASE d = c /\ q = p
    BY <1>1, <1>2, <2>1 DEF LoggedIn
  <2>2. CASE ~(d = c /\ q = p)
    BY <1>1, <1>2, <2>2 DEF Settling
  <2> QED
    BY <2>1, <2>2
<1>9. \A d \in Conns, q \in Procs :
        pc'[d][q] = "end" /\ login'[d] \in Returned
          => repeatLogin'[d] \/ logoutOnce'[d] = "done" \/ d \in late'
  BY <1>1 DEF Settling
<1> QED
  BY <1>5, <1>6, <1>7, <1>8, <1>9 DEF Settling

\* what c owed it still owes, or the user has just been marked as offline, or
\* somebody else owes it
LEMMA OwedMove ==
  ASSUME TypeOK, OnlineIsOwed, NEW c \in Conns, NEW p \in Procs, NEW step,
         pc' = [pc EXCEPT ![c][p] = step],
         \A d \in Conns : d # c => logoutOnce'[d] = logoutOnce[d],
         UNCHANGED <<late, login, repeatLogin>>,
         \A u \in Users \ stranded' : clientStatus'[u] = "online" =>
           clientStatus[u] = "online" /\ u \notin stranded,
         \/ Owes(c) => Owes(c)'
         \/ clientStatus'[UserOf[c]] # "online" \/ UserOf[c] \in stranded'
         \/ \E d \in Conns : UserOf[d] = UserOf[c] /\ Owes(d)'
  PROVE  OnlineIsOwed'
<1>1. \A d \in Conns : d # c =>
        logoutOnce'[d] = logoutOnce[d] /\ \A q \in Procs : pc'[d][q] = pc[d][q]
  BY DEF TypeOK
<1>2. \A d \in Conns : d # c => (Owes(d) => Owes(d)')
  BY <1>1 DEF Owes, Settled
<1> QED
  BY <1>2 DEF OnlineIsOwed

\* steps of the reader before it leaves
LEMMA DutyRead ==
  ASSUME TypeOK, DutyInv, NEW c \in Conns, NEW step,
         pc[c]["reader"] = "read", pc' = [pc EXCEPT ![c]["reader"] = step],
         step \in {"read", "eof", "leave", "end"},
         step = "end" => pc[c]["quit"] = "end",
         UNCHANGED <<registered, late, login, repeatLogin, known, logoutOnce,
                     statusVars>>
  PROVE  DutyInv'
<1>1. \A q \in Procs : pc'[c][q] = IF q = "reader" THEN step ELSE pc[c][q]
  BY DEF TypeOK
<1>2. HasLeft(c) => HasLeft(c)'
  BY <1>1 DEF HasLeft
<1>3. step = "end" /\ login[c] \in Returned
        => repeatLogin[c] \/ logoutOnce[c] = "done" \/ c \in late
  BY DEF DutyInv, Settling
<1>4. logoutOnce'[c] # "free" => HasLeft(c)'
  BY <1>2 DEF DutyInv, Settling
<1>5. Settling'
  BY <1>3, <1>4, SettlingMove DEF DutyInv
<1>6. Owes(c) => Owes(c)'
  BY <1>1 DEF Owes, Settled
<1> QED
  BY <1>5, <1>6, OwedMove DEF DutyInv, statusVars

\* a login of c ends: if c has left by then it is late. It may displace another
\* session of the user.
LEMMA DutyReturn ==
  ASSUME TypeOK, DutyInv, NEW c \in Conns, NEW step \in Returned,
         login[c] \in {"announce", "wait"}, ~repeatLogin[c],
         login' = [login EXCEPT ![c] = step], EndLogin(c),
         registered' \subseteq registered \cup {c},
         UNCHANGED <<pc, known, logoutOnce, statusVars>>,
         \/ UNCHANGED repeatLogin
         \/ \E old \in registered :
              /\ UserOf[old] = UserOf[c] /\ old # c
              /\ repeatLogin' = [repeatLogin EXCEPT ![old] = TRUE]
  PROVE  DutyInv'
<1> USE DEF statusVars, EndLogin
<1>3. /\ login \in [Conns -> LoginSteps]
      /\ repeatLogin \in [Conns -> BOOLEAN]
      /\ registered \subseteq Conns
  BY DEF TypeOK
<1>4. /\ \A d \in Conns : login'[d] = IF d = c THEN step ELSE login[d]
      /\ \A d \in Conns : repeatLogin[d] => repeatLogin'[d]
      /\ \A d \in Conns : d \in late => d \in late'
      /\ ~repeatLogin'[c]
  BY <1>3
<1>5. \A d \in Conns : HasLeft(d)' <=> HasLeft(d)
  BY DEF HasLeft
<1>6. HasLeft(c) => c \in late'
  OBVIOUS
<1>7. Owes(c)'
  <2>1. c \in Conns /\ login'[c] = step
    BY <1>4
  <2>2. Settled(c) => HasLeft(c)
    BY <2>1 DEF DutyInv, Settling, Settled, HasLeft
  <2>3. Settled(c)' <=> Settled(c)
    BY DEF Settled
  <2> QED
    BY <1>4, <1>6, <2>1, <2>2, <2>3 DEF Owes
<1>8. Settling'
  <2>1. \A d \in Conns : logoutOnce'[d] # "free" => HasLeft(d)'
    BY <1>5 DEF DutyInv, Settling
  <2>2. \A d \in Conns :
          logoutOnce'[d] = "done" /\ d \notin late' => d \notin registered'
    BY <1>4, <1>6 DEF DutyInv, Settling
  <2>3. \A d \in Conns, p \in Procs : known'[d][p] => LoggedIn(d)'
    BY <1>4 DEF DutyInv, Settling, LoggedIn
  <2>4. \A d \in Conns, p \in Procs :
          pc'[d][p] = "logout" /\ ~known'[d][p] /\ login'[d] \in Returned
            => d \in late'
    BY <1>4, <1>6 DEF DutyInv, Settling, HasLeft
  <2>5. \A d \in Conns, p \in Procs :
          pc'[d][p] = "end" /\ login'[d] \in Returned
            => repeatLogin'[d] \/ logoutOnce'[d] = "done" \/ d \in late'
    BY <1>4, <1>6 DEF DutyInv, Settling, HasLeft
  <2> QED
    BY <2>1, <2>2, <2>3, <2>4, <2>5 DEF Settling
<1>9. ASSUME NEW u \in Users, u \notin stranded', clientStatus'[u] = "online"
      PROVE  \E d \in Conns : UserOf[d] = u /\ Owes(d)'
  <2>1. PICK d \in Conns : UserOf[d] = u /\ Owes(d)
    BY <1>9 DEF DutyInv, OnlineIsOwed
  <2>2. CASE u = UserOf[c]
    BY <1>7, <2>2
  <2>3. CASE u # UserOf[c]
    <3>1. d # c /\ repeatLogin'[d] = repeatLogin[d]
      BY <1>3, <2>1, <2>3
    <3>2. Settled(d)' <=> Settled(d)
      BY DEF Settled
    <3>3. Owes(d)'
      BY <1>4, <2>1, <3>1, <3>2 DEF Owes
    <3> QED
      BY <2>1, <3>3
  <2> QED
    BY <2>2, <2>3
<1> QED
  BY <1>8, <1>9 DEF DutyInv, OnlineIsOwed

LEMMA DutyStep ==
  TypeOK /\ SessionInv /\ LeavingInv /\ DutyInv /\ [Next]_vars => DutyInv'
<1> SUFFICES ASSUME TypeOK, SessionInv, LeavingInv, DutyInv, [Next]_vars
             PROVE  DutyInv'
  OBVIOUS
<1> USE DEF hubVars, connVars, taskVars, statusVars, envVars
<1>1. CASE RegisterIgnored \/ RegisterFirst \/ RegisterDisplacing \/ RegisterWeb
  <2>1. PICK c \in Conns :
        /\ c = hub.client /\ login[c] = "wait" /\ ~repeatLogin[c]
        /\ login' = [login EXCEPT ![c] = "judge"]
        /\ EndLogin(c)
        /\ registered' \subseteq registered \cup {c}
        /\ UNCHANGED <<pc, known, logoutOnce, statusVars>>
    BY <1>1, JobClient
       DEF RegisterIgnored, RegisterFirst, RegisterDisplacing, RegisterWeb,
           RegisterFrame, Enter, Taken, Reply, TypeOK, SessionInv
  <2>2. \/ UNCHANGED repeatLogin
        \/ \E old \in registered :
             /\ UserOf[old] = UserOf[c] /\ old # c
             /\ repeatLogin' = [repeatLogin EXCEPT ![old] = TRUE]
    BY <1>1, <2>1 DEF RegisterIgnored, RegisterFirst, RegisterDisplacing,
                      RegisterWeb, Peers, SessionInv
  <2> QED
    BY <2>1, <2>2, DutyReturn
<1>2. CASE HubUnregister \/ HubCast
  BY <1>2, DutyFrame DEF HubUnregister, HubCast
<1>3. CASE Tick \/ Cast \/ PollLock \/ PollStep
  BY <1>3, DutyFrame DEF Tick, Cast, PollLock, PollStep, PollPush, PollUnlock
<1>4. ASSUME NEW c \in Conns, ClientStep(c) PROVE DutyInv'
  <2>1. isLoggedOut[c] => pc[c]["quit"] = "end"
    BY DEF LeavingInv
  <2>2. AfterRead(c) \in {"read", "leave", "end"} /\ (AfterRead(c) = "end" => isLoggedOut[c])
    BY DEF AfterRead
  <2>3. CASE ReceiveLogin(c)
    <3> DEFINE next == IF MaxOnlineUser > 0 THEN "limit" ELSE "auth"
    <3>1. /\ pc[c]["reader"] = "read" /\ login[c] = "idle"
          /\ pc' = [pc EXCEPT ![c]["reader"] = AfterRead(c)]
          /\ login' = [login EXCEPT ![c] = next]
          /\ UNCHANGED <<registered, late, repeatLogin, known, logoutOnce, statusVars>>
      BY <2>3 DEF ReceiveLogin, CanRead, Goto
    <3>2. \A d \in Conns :
            /\ d # c => login'[d] = login[d] /\ \A q \in Procs : pc'[d][q] = pc[d][q]
            /\ login'[c] \in {"limit", "auth"}
            /\ \A q \in Procs : pc'[c][q] = IF q = "reader" THEN AfterRead(c)
                                            ELSE pc[c][q]
      BY <3>1 DEF TypeOK
    <3>3. AfterRead(c) # "logout" /\ (HasLeft(c) => HasLeft(c)')
      BY <2>2, <3>1, <3>2 DEF HasLeft
    <3>4. \A d \in Conns : d # c => (HasLeft(d)' <=> HasLeft(d))
      BY <3>2 DEF HasLeft
    <3>5. Settling'
      BY <3>1, <3>2, <3>3, <3>4 DEF DutyInv, Settling, LoggedIn
    <3>6. \A d \in Conns : Owes(d) => Owes(d)'
      BY <3>1, <3>2 DEF Owes, Settled
    <3> QED
      BY <3>1, <3>5, <3>6 DEF DutyInv, OnlineIsOwed
  <2>4. CASE ReceiveRequest(c)
    BY <2>1, <2>2, <2>4, DutyRead DEF ReceiveRequest, CanRequest, CanRead, Goto
  <2>5. CASE ReceiveLogout(c)
    <3>1. /\ pc[c]["reader"] = "read" /\ pc[c]["quit"] = "idle"
          /\ pc' = [pc EXCEPT ![c]["reader"] = AfterRead(c), ![c]["quit"] = "leave"]
          /\ UNCHANGED <<registered, late, login, repeatLogin, known, logoutOnce,
                         statusVars>>
      BY <2>5 DEF ReceiveLogout, CanRequest, CanRead
    <3>2. AfterRead(c) \in {"read", "leave"}
      BY <2>1, <2>2, <3>1
    <3>3. \A d \in Conns, q \in Procs :
            \/ pc'[d][q] = pc[d][q]
            \/ /\ pc[d][q] \in {"read", "idle"}
               /\ pc'[d][q] \in {"read", "leave"}
      BY <3>1, <3>2 DEF TypeOK
    <3>4. \A d \in Conns : HasLeft(d) => HasLeft(d)'
      BY <3>3 DEF HasLeft
    <3>5. \A d \in Conns : Settled(d)' <=> Settled(d)
      <4>1. \A d \in Conns, q \in Procs :
              pc'[d][q] \in {"notify", "refuse"} <=> pc[d][q] \in {"notify", "refuse"}
        BY <3>3
      <4>2. \A d \in Conns : logoutOnce'[d] = logoutOnce[d]
        BY <3>1
      <4> HIDE DEF Procs
      <4> QED
        BY <4>1, <4>2, Zenon DEF Settled
    <3>6. Settling'
      <4>1. \A d \in Conns, q \in Procs :
              /\ pc'[d][q] = "logout" => pc[d][q] = "logout"
              /\ pc'[d][q] = "end" => pc[d][q] = "end"
        BY <3>3
      <4>2. \A d \in Conns : LoggedIn(d)' <=> LoggedIn(d)
        BY <3>1 DEF LoggedIn
      <4>3. \A d \in Conns : logoutOnce'[d] # "free" => HasLeft(d)'
        BY <3>1, <3>4 DEF DutyInv, Settling
      <4>4. \A d \in Conns :
              logoutOnce'[d] = "done" /\ d \notin late' => d \notin registered'
        BY <3>1 DEF DutyInv, Settling
      <4>5. \A d \in Conns, q \in Procs : known'[d][q] => LoggedIn(d)'
        BY <3>1, <4>2 DEF DutyInv, Settling
      <4>6. \A d \in Conns, q \in Procs :
              pc'[d][q] = "logout" /\ ~known'[d][q] /\ login'[d] \in Returned
                => d \in late'
        BY <3>1, <4>1 DEF DutyInv, Settling
      <4>7. \A d \in Conns, q \in Procs :
              pc'[d][q] = "end" /\ login'[d] \in Returned
                => repeatLogin'[d] \/ logoutOnce'[d] = "done" \/ d \in late'
        BY <3>1, <4>1 DEF DutyInv, Settling
      <4> QED
        BY <4>3, <4>4, <4>5, <4>6, <4>7 DEF Settling
    <3>7. \A d \in Conns : Owes(d)' <=> Owes(d)
      BY <3>1, <3>5 DEF Owes
    <3> QED
      BY <3>1, <3>6, <3>7 DEF DutyInv, OnlineIsOwed
  <2>6. CASE Drop(c)
    BY <2>6, DutyFrame DEF Drop
  <2> QED
    BY <1>4, <2>3, <2>4, <2>5, <2>6 DEF ClientStep
<1>5. ASSUME NEW c \in Conns, FinishRequest(c) \/ WriteStep(c) PROVE DutyInv'
  BY <1>5, DutyFrame DEF FinishRequest, WriteStep, WriteMessage, WriteFails
<1>6. ASSUME NEW c \in Conns, ReadError(c) PROVE DutyInv'
  <2>1. isLoggedOut[c] => pc[c]["quit"] = "end"
    BY DEF LeavingInv
  <2> QED
    BY <1>6, <2>1, DutyRead DEF ReadError, Goto
<1>7. ASSUME NEW c \in Conns, LoginStep(c) PROVE DutyInv'
  <2> USE DEF Advance, LoginFrame
  <2>1. CASE CheckLimit(c) \/ AuthenticateFails(c)
    <3>1. /\ login[c] \in {"limit", "auth"}
          /\ \E step \in {"auth", "failed"} : login' = [login EXCEPT ![c] = step]
          /\ UNCHANGED <<registered, pc, late, repeatLogin, known, logoutOnce>>
      BY <2>1 DEF CheckLimit, AuthenticateFails, Refuse
    <3>2. \A u \in Users \ stranded' : clientStatus'[u] = "online" =>
            clientStatus[u] = "online" /\ u \notin stranded
      <4>1. /\ clientStatus \in [Users -> {"online", "offline"}] /\ UserOf[c] \in Users
            /\ \/ UNCHANGED <<clientStatus, stranded>>
               \/ /\ clientStatus' = [clientStatus EXCEPT ![UserOf[c]] = "online"]
                  /\ stranded' = stranded \cup {UserOf[c]}
        BY <2>1, HubAssumption DEF CheckLimit, AuthenticateFails, MarkOnline, TypeOK
      <4> HIDE DEF TypeOK
      <4> QED
        BY <4>1
    <3> QED
      BY <3>1, <3>2, DutyLogin DEF LoggedIn
  <2>2. CASE Authenticate(c)
    <3>1. \A u \in Users \ stranded' : clientStatus'[u] = "online" =>
            (clientStatus[u] = "online" /\ u \notin stranded) \/ u = UserOf[c]
      BY <2>2 DEF Authenticate, MarkOnline, TypeOK
    <3> QED
      BY <2>2, <3>1, DutyLogin DEF Authenticate, LoggedIn
  <2>3. CASE Announce(c) \/ AskRegister(c)
    BY <2>3, DutyLogin DEF Announce, AskRegister
  <2>4. CASE Judge(c)
    BY <2>4, DutyLogin DEF Judge
  <2>5. CASE AnnounceFails(c)
    <3>1. ~repeatLogin[c]
      BY <2>5 DEF AnnounceFails, SessionInv
    <3> QED
      BY <2>5, <3>1, DutyReturn DEF AnnounceFails
  <2> QED
    BY <1>7, <2>1, <2>2, <2>3, <2>4, <2>5 DEF LoginStep
<1>8. ASSUME NEW c \in Conns, NEW p \in Procs, LeaveStep(c, p) PROVE DutyInv'
  <2> USE DEF LeaveFrame, Proceed, LogoutDone, Goto
  <2>1. Return(c, p) => pc' = [pc EXCEPT ![c][p] = "end"]
    BY DEF Return
  <2>3. /\ logoutOnce[c] # "free" => HasLeft(c)
        /\ logoutOnce[c] = "done" => c \in late \/ c \notin registered
        /\ known[c][p] => LoggedIn(c)
    BY DEF DutyInv, Settling
  <2>4. CASE SendUnregister(c, p)
    <3>1. /\ pc' = [pc EXCEPT ![c][p] = "logout"] /\ pc[c][p] = "leave"
          /\ UNCHANGED <<registered, late, login, repeatLogin, logoutOnce,
                         statusVars>>
      BY <2>4 DEF SendUnregister
    <3>2. Settling'
      <4>1. HasLeft(c)'
        BY <3>1 DEF TypeOK, HasLeft
      <4>2. known' = [known EXCEPT ![c][p] = LoggedIn(c)]
        BY <2>4 DEF SendUnregister
      <4> QED
        BY <2>3, <3>1, <4>1, <4>2, SettlingMove DEF DutyInv
    <3>3. Settled(c)' <=> Settled(c)
      BY <3>1 DEF TypeOK, Settled
    <3> QED
      BY <3>1, <3>2, <3>3, OwedMove DEF DutyInv, Owes
  <2>5. CASE EnterLogout(c, p)
    <3>1. CASE repeatLogin[c] \/ known[c][p] # LoggedIn(c) \/ logoutOnce[c] = "done"
      <4>1. /\ pc' = [pc EXCEPT ![c][p] = "end"] /\ pc[c][p] = "logout"
            /\ UNCHANGED <<registered, late, login, repeatLogin, known,
                           logoutOnce, statusVars>>
        BY <2>1, <2>5, <3>1 DEF EnterLogout
      <4>2. login[c] \in Returned /\ known[c][p] # LoggedIn(c)
              => c \in late
        BY <2>3, <4>1 DEF DutyInv, Settling, LoggedIn, TypeOK
      <4>3. Settling'
        <5>1. HasLeft(c)'
          BY <4>1 DEF TypeOK, HasLeft
        <5>2. login[c] \in Returned
                => repeatLogin[c] \/ logoutOnce[c] = "done" \/ c \in late
          BY <3>1, <4>2
        <5> QED
          BY <2>3, <4>1, <5>1, <5>2, SettlingMove DEF DutyInv
      <4>4. Settled(c)' <=> Settled(c)
        BY <4>1 DEF TypeOK, Settled
      <4> QED
        BY <4>1, <4>3, <4>4, OwedMove DEF DutyInv, Owes
    <3>2. CASE ~(repeatLogin[c] \/ known[c][p] # LoggedIn(c) \/ logoutOnce[c] = "done")
      <4>1. /\ pc' = [pc EXCEPT ![c][p] = "unreg"] /\ pc[c][p] = "logout"
            /\ logoutOnce[c] = "free"
            /\ logoutOnce' = [logoutOnce EXCEPT ![c] = "busy"]
            /\ UNCHANGED <<registered, late, login, repeatLogin, known, statusVars>>
        BY <2>5, <3>2 DEF EnterLogout
      <4>2. /\ logoutOnce'[c] = "busy"
            /\ \A d \in Conns : d # c => logoutOnce'[d] = logoutOnce[d]
        BY <4>1 DEF TypeOK
      <4>3. Settling'
        <5>1. HasLeft(c)'
          BY <4>1 DEF TypeOK, HasLeft
        <5> QED
          BY <3>2, <4>1, <4>2, <5>1, SettlingMove DEF DutyInv
      <4>4. Settled(c)' <=> Settled(c)
        BY <4>1, <4>2 DEF TypeOK, Settled
      <4> QED
        BY <4>1, <4>2, <4>3, <4>4, OwedMove DEF DutyInv, Owes
    <3> QED
      BY <3>1, <3>2
  <2>6. CASE SendUnregisterAgain(c, p)
    <3>1. /\ pc' = [pc EXCEPT ![c][p] = "check"] /\ pc[c][p] = "unreg"
          /\ UNCHANGED <<registered, late, login, repeatLogin, known, logoutOnce,
                         statusVars>>
      BY <2>6 DEF SendUnregisterAgain
    <3>2. Settling'
      <4>1. HasLeft(c)'
        BY <3>1 DEF TypeOK, HasLeft
      <4> QED
        BY <2>3, <3>1, <4>1, SettlingMove DEF DutyInv
    <3>3. Settled(c)' <=> Settled(c)
      BY <3>1 DEF TypeOK, Settled
    <3> QED
      BY <3>1, <3>2, <3>3, OwedMove DEF DutyInv, Owes
  <2>7. CASE CheckAllOut(c, p)
    <3>1. CASE Sessions(UserOf[c]) # {} /\ LogoutDone(c) /\ Return(c, p)
      <4>1. /\ pc' = [pc EXCEPT ![c][p] = "end"] /\ pc[c][p] = "check"
            /\ UNCHANGED <<registered, late, login, repeatLogin, known, statusVars>>
        BY <2>1, <2>7, <3>1 DEF CheckAllOut
      <4>2. /\ logoutOnce'[c] = "done"
            /\ \A d \in Conns : d # c => logoutOnce'[d] = logoutOnce[d]
        BY <3>1 DEF TypeOK
      <4>3. c \in late \/ c \notin registered
        BY <4>1 DEF LeavingInv
      <4>4. Settling'
        <5>1. HasLeft(c)'
          BY <4>1 DEF TypeOK, HasLeft
        <5> QED
          BY <4>1, <4>2, <4>3, <5>1, SettlingMove DEF DutyInv
      <4>5. PICK d \in registered : UserOf[d] = UserOf[c]
        BY <3>1 DEF Sessions
      <4>6. d \in Conns /\ login[d] \in Returned /\ ~repeatLogin[d]
        BY DEF TypeOK, SessionInv, DisplacedIsOut
      <4>7. d \in late \/ ~Settled(d)
        BY <4>6 DEF LeavingInv, DutyInv, Settling, Settled
      <4>8. d # c => (Settled(d)' <=> Settled(d))
        BY <4>1, <4>2, <4>6 DEF TypeOK, Settled
      <4>9. Owes(d)'
        BY <4>1, <4>3, <4>6, <4>7, <4>8 DEF Owes
      <4> QED
        BY <4>1, <4>2, <4>4, <4>5, <4>6, <4>9, OwedMove DEF DutyInv
    <3>2. CASE Proceed(c, p, "offline") /\ UNCHANGED logoutOnce
      <4>1. /\ pc' = [pc EXCEPT ![c][p] = "offline"] /\ pc[c][p] = "check"
            /\ UNCHANGED <<registered, late, login, repeatLogin, known,
                           logoutOnce, statusVars>>
        BY <2>7, <3>2 DEF CheckAllOut
      <4>2. Settling'
        <5>1. HasLeft(c)'
          BY <4>1 DEF TypeOK, HasLeft
        <5> QED
          BY <2>3, <4>1, <5>1, SettlingMove DEF DutyInv
      <4>3. Settled(c)' <=> Settled(c)
        BY <4>1 DEF TypeOK, Settled
      <4> QED
        BY <4>1, <4>2, <4>3, OwedMove DEF DutyInv, Owes
    <3> QED
      BY <2>7, <3>1, <3>2 DEF CheckAllOut
  <2>8. CASE MarkOffline(c, p)
    <3>1. CASE LoggedIn(c)
      <4>1. PICK step \in {"notify", "refuse"} :
              /\ pc' = [pc EXCEPT ![c][p] = step]
              /\ clientStatus' = [clientStatus EXCEPT ![UserOf[c]] = "offline"]
              /\ stranded' = stranded \ {UserOf[c]}
              /\ UNCHANGED <<registered, late, login, repeatLogin, known, logoutOnce>>
        BY <2>8, <3>1 DEF MarkOffline
      <4>2. Settling'
        <5>1. HasLeft(c)'
          BY <4>1 DEF TypeOK, HasLeft
        <5> QED
          BY <2>3, <4>1, <5>1, SettlingMove DEF DutyInv
      <4>3. /\ clientStatus'[UserOf[c]] = "offline"
            /\ \A u \in Users \ stranded' : clientStatus'[u] = "online" =>
                 clientStatus[u] = "online" /\ u \notin stranded
        <5>1. UserOf[c] \in Users /\ clientStatus \in [Users -> {"online", "offline"}]
          BY HubAssumption DEF TypeOK
        <5> HIDE DEF TypeOK
        <5> QED
          BY <4>1, <5>1
      <4> QED
        BY <4>1, <4>2, <4>3, OwedMove DEF DutyInv
    <3>2. CASE ~LoggedIn(c)
      <4>1. /\ pc' = [pc EXCEPT ![c][p] = "end"] /\ pc[c][p] = "offline"
            /\ logoutOnce' = [logoutOnce EXCEPT ![c] = "done"]
            /\ UNCHANGED <<registered, late, login, repeatLogin, known, statusVars>>
        BY <2>1, <2>8, <3>2 DEF MarkOffline
      <4>2. /\ logoutOnce'[c] = "done"
            /\ \A d \in Conns : d # c => logoutOnce'[d] = logoutOnce[d]
        BY <4>1 DEF TypeOK
      <4>3. c \in late \/ c \notin registered
        BY <4>1 DEF LeavingInv
      <4>4. Settling'
        <5>1. HasLeft(c)'
          BY <4>1 DEF TypeOK, HasLeft
        <5> QED
          BY <4>1, <4>2, <4>3, <5>1, SettlingMove DEF DutyInv
      <4>5. Owes(c) => Owes(c)'
        BY <3>2, <4>1 DEF Owes, LoggedIn
      <4> QED
        BY <4>1, <4>2, <4>4, <4>5, OwedMove DEF DutyInv
    <3> QED
      BY <3>1, <3>2
  <2>9. CASE Notify(c, p)
    <3>1. /\ pc' = [pc EXCEPT ![c][p] = "end"] /\ pc[c][p] \in {"notify", "refuse"}
          /\ logoutOnce' = [logoutOnce EXCEPT ![c] = "done"]
          /\ UNCHANGED <<registered, late, login, repeatLogin, known, statusVars>>
      BY <2>1, <2>9 DEF Notify
    <3>2. /\ logoutOnce'[c] = "done"
          /\ \A d \in Conns : d # c => logoutOnce'[d] = logoutOnce[d]
      BY <3>1 DEF TypeOK
    <3>3. c \in late \/ c \notin registered
      BY <3>1 DEF LeavingInv
    <3>4. Settling'
      <4>1. HasLeft(c)'
        BY <3>1 DEF TypeOK, HasLeft
      <4> QED
        BY <3>1, <3>2, <3>3, <4>1, SettlingMove DEF DutyInv
    <3>5. Owes(c) => Owes(c)'
      BY <3>1 DEF Owes, Settled
    <3> QED
      BY <3>1, <3>2, <3>4, <3>5, OwedMove DEF DutyInv
  <2>10. CASE MarkOfflineFails(c, p)
    <3>1. /\ pc' = [pc EXCEPT ![c][p] = "end"] /\ pc[c][p] = "offline"
          /\ logoutOnce' = [logoutOnce EXCEPT ![c] = "done"]
          /\ UNCHANGED <<registered, late, login, repeatLogin, known>>
      BY <2>1, <2>10 DEF MarkOfflineFails
    <3>2. /\ logoutOnce'[c] = "done"
          /\ \A d \in Conns : d # c => logoutOnce'[d] = logoutOnce[d]
      BY <3>1 DEF TypeOK
    <3>3. c \in late \/ c \notin registered
      BY <3>1 DEF LeavingInv
    <3>4. Settling'
      <4>1. HasLeft(c)'
        BY <3>1 DEF TypeOK, HasLeft
      <4> QED
        BY <3>1, <3>2, <3>3, <4>1, SettlingMove DEF DutyInv
    <3>5. /\ clientStatus'[UserOf[c]] # "online" \/ UserOf[c] \in stranded'
          /\ \A u \in Users \ stranded' : clientStatus'[u] = "online" =>
               clientStatus[u] = "online" /\ u \notin stranded
      <4>1. PICK status \in {clientStatus[UserOf[c]], "offline"} :
              /\ clientStatus' = [clientStatus EXCEPT ![UserOf[c]] = status]
              /\ stranded' = IF status = "online" THEN stranded \cup {UserOf[c]}
                                                  ELSE stranded \ {UserOf[c]}
        BY <2>10 DEF MarkOfflineFails
      <4> QED
        BY <4>1, HubAssumption DEF TypeOK
    <3> QED
      BY <3>1, <3>2, <3>4, <3>5, OwedMove DEF DutyInv
  <2> QED
    BY <1>8, <2>4, <2>5, <2>6, <2>7, <2>8, <2>9, <2>10 DEF LeaveStep
<1>9. CASE UNCHANGED vars
  BY <1>9, DutyFrame DEF vars
<1> QED
  BY <1>1, <1>2, <1>3, <1>4, <1>5, <1>6, <1>7, <1>8, <1>9 DEF Next, HubStep

LEMMA DutyCorrect == Spec => [](TypeOK /\ SessionInv /\ LeavingInv /\ DutyInv)
<1>1. Init => DutyInv
  BY DutyInit
<1>2. TypeOK /\ SessionInv /\ LeavingInv /\ DutyInv /\ [Next]_vars => DutyInv'
  BY DutyStep
<1> QED
  BY <1>1, <1>2, LeavingCorrect, PTL DEF Spec

\* when every connection of a user has ended, the user is offline in the
\* database (client.go:383-442), unless an error has stranded the user there:
\* somebody always owes it
THEOREM AllEndedAreOffline == Spec => []AllEndedIsOffline
<1>1. TypeOK /\ DutyInv => AllEndedIsOffline
  <2> SUFFICES ASSUME TypeOK, DutyInv, NEW u \in Users \ stranded,
                      \A c \in Conns : UserOf[c] = u => Ended(c),
                      clientStatus[u] = "online"
               PROVE  FALSE
    BY DEF AllEndedIsOffline, TypeOK
  <2>1. PICK c \in Conns : UserOf[c] = u /\ Owes(c)
    BY DEF DutyInv, OnlineIsOwed
  <2>2. Ended(c)
    BY <2>1
  <2>3. login[c] \in Returned /\ ~repeatLogin[c] /\ logoutOnce[c] # "done" /\ c \notin late
    BY <2>1, <2>2 DEF Owes, Ended, Settled
  <2>4. pc[c]["reader"] = "end"
    BY <2>2 DEF Ended
  <2> QED
    BY <2>3, <2>4 DEF DutyInv, Settling
<1> QED
  BY <1>1, DutyCorrect, PTL

=============================================================================
