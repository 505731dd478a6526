-------------------------------- MODULE Hub --------------------------------
(***************************************************************************)
(* The connection hub of xxd (src/xxd/wsocket): which connection is        *)
(* registered for which user and device, how a login displaces an earlier  *)
(* session, how a connection leaves, and how the user's clientStatus in    *)
(* the database follows.                                                   *)
(*                                                                         *)
(* Processes: the goroutine Hub.run, which takes one job at a time from    *)
(* unbuffered channels; for every connection the goroutines readPump (the  *)
(* process "reader"), its consumer of processing results, writePump, one   *)
(* dataProcessing goroutine per request (userlogin has the program counter *)
(* login, userlogout is the process "quit"); and the poller apiSync.       *)
(* A send on an unbuffered channel is a rendezvous: the sender goes on as  *)
(* soon as Hub.run has taken the job, before the job is carried out.       *)
(***************************************************************************)
EXTENDS Naturals, Sequences, FiniteSets

CONSTANTS
  Conns,          \* the connections, one Client struct each
  Users,          \* the accounts
  Devices,        \* device names that clients send
  Plats,          \* util.Plats, the devices the hub has a map for
  Web,            \* the platform "zentaoweb", which may have several sessions
  UserOf,         \* UserOf[c]: the account connection c logs in as
  PlatOf,         \* PlatOf[c]: the device connection c logs in from
  SendCap,        \* capacity of the channel Client.send (256 in the code)
  MaxOnlineUser,  \* the configured limit, 0 for none
  Inputs,         \* what clients do besides logging in, a subset of AllInputs
  Leavers,        \* bound: the connections that vanish
  Requesters,     \* bound: the connections that log out or make OrdinaryRequests
  MaxClock,       \* bound: seconds that pass
  Casts,          \* what other parts of the server send, a subset of AllCasts
  MaxCasts,       \* bound: how many of them
  MaxPolls        \* bound: rounds of apiSync with notifications

\* a request of the client's protocol, one that cannot be parsed, usersubscribe,
\* userlogout, and logins and logouts in which an access to the database or the
\* making of the SessionID reports an error
OrdinaryRequests == {"ok", "bad", "subscribe"}
AllInputs == OrdinaryRequests \cup
  {"userlogout", "failing login", "failing session", "failing logout"}

\* to all sessions of users, to the other sessions of one user, to subscribers
AllCasts == {"users", "others", "publish"}

ASSUME HubAssumption ==
  /\ Plats \subseteq Devices
  /\ UserOf \in [Conns -> Users]
  /\ PlatOf \in [Conns -> Devices]
  /\ SendCap \in Nat \ {0}
  /\ MaxOnlineUser \in Nat
  /\ Inputs \subseteq AllInputs /\ Casts \subseteq AllCasts
  /\ Leavers \subseteq Conns /\ Requesters \subseteq Conns
  /\ MaxClock \in Nat /\ MaxCasts \in Nat /\ MaxPolls \in Nat

VARIABLES
  registered,   \* Hub.clients: the connections in the map
  id,           \* Client.id: the key of c under its user, a Unix time
  repeatLogin,  \* Client.repeatLogin: c was displaced by a later login
  late,         \* history: its login ended after its connection had left
  subscription, \* Client.subscription["userlogin"] and its twins
  session,      \* the second in Client.SessionID, an MD5 of server, user, time
  send,         \* Client.send: the buffered channel of outbound messages
  told,         \* history: connections that got the repeated-login kick-off
  socket,       \* Client.conn: "open" or "closed"
  writer,       \* writePump: "run" or "dead"
  login,        \* program counter of the goroutine that runs userlogin
  retClient,    \* the client the hub returned to a login
  pc,           \* program counters of the processes reader and quit
  known,        \* chatLogout was called with the id of a logged-in user
  logoutOnce,   \* Client.logoutOnce: "free", "busy" or "done"
  isLoggedOut,  \* the local of readPump that its consumer goroutine assigns
  request,      \* the ordinary request in progress, or "none"
  consumer,     \* the consumer goroutine of readPump: "wait" or "dead"
  clientStatus, \* the column clientStatus of the user in the database
  stranded,     \* history: users whose status an error has left online, and
                \* who have not logged in or out since
  clock,        \* util.GetUnixTime()
  casts,        \* messages sent so far by other parts of the server
  polls,        \* rounds of apiSync so far
  hub,          \* the job Hub.run has taken, or Idle
  poll          \* apiSync: does it hold clientsMutex, whom has it yet to push to

hubVars  == <<registered, id, repeatLogin, late>>
connVars == <<subscription, session, send, told, socket, writer>>
taskVars == <<login, retClient, pc, known, logoutOnce, isLoggedOut, request,
              consumer>>
statusVars == <<clientStatus, stranded>>
envVars  == <<clock, casts, polls>>
vars     == <<hubVars, connVars, taskVars, statusVars, envVars, hub, poll>>

Procs == {"reader", "quit"}
LoginSteps == {"idle", "limit", "auth", "announce", "register", "wait",
               "judge", "done", "failed", "nosession"}
LeaveSteps == {"idle", "read", "eof", "leave", "logout", "unreg", "check",
               "offline", "notify", "refuse", "end"}

Idle == [kind |-> "idle"]
Register(c)   == [kind |-> "register", client |-> c]
Unregister(c) == [kind |-> "unregister", client |-> c]
\* SendMsg: to a set of users, but for the session whose SessionID is excluded,
\* if any; or by subscription, if subType is set
Multicast(users, except) ==
  [kind |-> "cast", users |-> users, except |-> except]
Publish(from) == [kind |-> "publish", from |-> from]
Jobs ==
  {Idle}
    \cup [kind : {"register", "unregister"}, client : Conns]
    \cup [kind : {"cast"}, users : SUBSET Users, except : SUBSET Conns]
    \cup [kind : {"publish"}, from : Users]

TypeOK ==
  /\ registered \subseteq Conns
  /\ id \in [Conns -> Nat]
  /\ repeatLogin \in [Conns -> BOOLEAN]
  /\ late \subseteq Conns
  /\ subscription \in [Conns -> SUBSET Users]
  /\ session \in [Conns -> Nat]
  /\ send \in [Conns -> Seq({"msg", "kick"})]
  /\ \A c \in Conns : Len(send[c]) <= SendCap
  /\ told \subseteq Conns
  /\ socket \in [Conns -> {"open", "closed"}]
  /\ writer \in [Conns -> {"run", "dead"}]
  /\ login \in [Conns -> LoginSteps]
  /\ retClient \in [Conns -> Conns]
  /\ pc \in [Conns -> [Procs -> LeaveSteps]]
  /\ known \in [Conns -> [Procs -> BOOLEAN]]
  /\ logoutOnce \in [Conns -> {"free", "busy", "done"}]
  /\ isLoggedOut \in [Conns -> BOOLEAN]
  /\ request \in [Conns -> {"none"} \cup OrdinaryRequests]
  /\ consumer \in [Conns -> {"wait", "dead"}]
  /\ clientStatus \in [Users -> {"online", "offline"}]
  /\ stranded \subseteq Users
  /\ clock \in Nat /\ casts \in Nat /\ polls \in Nat
  /\ hub \in Jobs
  /\ poll \in [on : BOOLEAN, todo : SUBSET Conns]

\* Every connection has been accepted by serveWs; nobody has logged in.
Init ==
  /\ registered = {} /\ told = {} /\ late = {} /\ stranded = {}
  /\ id = [c \in Conns |-> 0]
  /\ session = [c \in Conns |-> 0]
  /\ repeatLogin = [c \in Conns |-> FALSE]
  /\ subscription = [c \in Conns |-> {}]
  /\ send = [c \in Conns |-> <<>>]
  /\ socket = [c \in Conns |-> "open"]
  /\ writer = [c \in Conns |-> "run"]
  /\ login = [c \in Conns |-> "idle"]
  /\ retClient = [c \in Conns |-> c]
  /\ pc = [c \in Conns |->
             [p \in Procs |-> IF p = "reader" THEN "read" ELSE "idle"]]
  /\ known = [c \in Conns |-> [p \in Procs |-> FALSE]]
  /\ logoutOnce = [c \in Conns |-> "free"]
  /\ isLoggedOut = [c \in Conns |-> FALSE]
  /\ request = [c \in Conns |-> "none"]
  /\ consumer = [c \in Conns |-> "wait"]
  /\ clientStatus = [u \in Users |-> "offline"]
  /\ clock = 0 /\ casts = 0 /\ polls = 0
  /\ hub = Idle
  /\ poll = [on |-> FALSE, todo |-> {}]

-----------------------------------------------------------------------------
(* State predicates the code tests.                                        *)

\* clientsMutex is held across steps only by apiSync.
MutexFree == ~poll.on

\* Hub.clients[server][PlatOf[c]][UserOf[c]]
Peers(c) ==
  {d \in registered : UserOf[d] = UserOf[c] /\ PlatOf[d] = PlatOf[c]}

Sessions(u) == {d \in registered : UserOf[d] = u}

\* len(Hub.clients[server][p]): the users with a session on platform p
OnlineOn(p) == {UserOf[d] : d \in {e \in registered : PlatOf[e] = p}}

\* client.userID and client.device are set
LoggedIn(c) ==
  login[c] \in {"announce", "register", "wait", "judge", "done", "nosession"}

\* the hub has handled an unregister of c
HasLeft(c) ==
  \E p \in Procs : pc[c][p] \notin {"idle", "read", "eof", "leave"}

\* Client.writable: cleared by the consumer on an error and by writePump
Writable(c) == consumer[c] = "wait" /\ writer[c] = "run"

SameSession(c, d) == UserOf[c] = UserOf[d] /\ session[c] = session[d]

\* Hub.subscribes[server][method] is set once anybody has subscribed
AnySubscription == \E c \in Conns : subscription[c] # {}

-----------------------------------------------------------------------------
(* The environment: clients vanish, seconds pass, and other requests make  *)
(* the server send.                                                        *)

\* The peer closes, or a pong or a write is overdue.
Drop(c) ==
  /\ c \in Leavers
  /\ socket[c] = "open"
  /\ socket' = [socket EXCEPT ![c] = "closed"]
  /\ UNCHANGED <<hubVars, subscription, session, send, told, writer, taskVars,
                 statusVars, envVars, hub, poll>>

Tick ==
  /\ clock < MaxClock
  /\ clock' = clock + 1
  /\ UNCHANGED <<hubVars, connVars, taskVars, statusVars, casts, polls, hub,
                 poll>>

\* X2cSend and X2cSendToOtherSessions on behalf of any request.
Cast ==
  /\ casts < MaxCasts
  /\ hub = Idle
  /\ \/ /\ "users" \in Casts
        /\ \E us \in SUBSET Users \ {{}} : hub' = Multicast(us, {})
     \/ /\ "others" \in Casts
        /\ \E c \in Conns : LoggedIn(c) /\ hub' = Multicast({UserOf[c]}, {c})
     \/ /\ "publish" \in Casts
        /\ \E u \in Users : AnySubscription /\ hub' = Publish(u)
  /\ casts' = casts + 1
  /\ UNCHANGED <<hubVars, connVars, taskVars, statusVars, clock, polls, poll>>

-----------------------------------------------------------------------------
(* readPump: a message is read and handed to a goroutine of its own, then  *)
(* the loop tests writable; the deferred function tests isLoggedOut.       *)

Goto(c, p, step) == pc' = [pc EXCEPT ![c][p] = step]

AfterRead(c) ==
  IF Writable(c) THEN "read" ELSE IF isLoggedOut[c] THEN "end" ELSE "leave"

CanRead(c) == pc[c]["reader"] = "read" /\ socket[c] = "open"

\* The consumer takes a result as soon as it is offered. It stops on an error,
\* or when it then finds writable cleared; from then on nobody takes results
\* and a goroutine that offers one stays blocked.
Report(c, err, loggedOut) ==
  IF consumer[c] = "dead" THEN UNCHANGED <<isLoggedOut, consumer>>
  ELSE /\ isLoggedOut' = [isLoggedOut EXCEPT ![c] = loggedOut]
       /\ consumer' = [consumer EXCEPT ![c] =
            IF err \/ writer[c] = "dead" THEN "dead" ELSE "wait"]

\* The client sends userlogin once per connection.
ReceiveLogin(c) ==
  /\ CanRead(c)
  /\ login[c] = "idle"
  /\ login' = [login EXCEPT ![c] = IF MaxOnlineUser > 0 THEN "limit" ELSE "auth"]
  /\ Goto(c, "reader", AfterRead(c))
  /\ UNCHANGED <<hubVars, connVars, retClient, known, logoutOnce, isLoggedOut,
                 request, consumer, statusVars, envVars, hub, poll>>

\* Other requests follow the answer to userlogin, and none follows userlogout.
CanRequest(c) == CanRead(c) /\ LoggedIn(c) /\ pc[c]["quit"] = "idle"

ReceiveLogout(c) ==
  /\ "userlogout" \in Inputs /\ c \in Requesters
  /\ CanRequest(c)
  /\ pc' = [pc EXCEPT ![c]["reader"] = AfterRead(c), ![c]["quit"] = "leave"]
  /\ UNCHANGED <<hubVars, connVars, login, retClient, known, logoutOnce,
                 isLoggedOut, request, consumer, statusVars, envVars, hub,
                 poll>>

ReceiveRequest(c) ==
  /\ CanRequest(c) /\ c \in Requesters
  /\ request[c] = "none"
  /\ \E r \in Inputs \cap OrdinaryRequests :
       request' = [request EXCEPT ![c] = r]
  /\ Goto(c, "reader", AfterRead(c))
  /\ UNCHANGED <<hubVars, connVars, login, retClient, known, logoutOnce,
                 isLoggedOut, consumer, statusVars, envVars, hub, poll>>

\* The goroutine of the request ends with an error only if it cannot be parsed:
\* transitData reports its errors to the client. What it sends is a Cast.
FinishRequest(c) ==
  /\ request[c] # "none"
  /\ request' = [request EXCEPT ![c] = "none"]
  /\ IF request[c] = "subscribe"
       THEN \E us \in SUBSET Users \ {{}} :
              subscription' = [subscription EXCEPT ![c] = @ \cup us]
       ELSE UNCHANGED subscription
  /\ Report(c, request[c] = "bad", FALSE)
  /\ UNCHANGED <<hubVars, session, send, told, socket, writer, login,
                 retClient, pc, known, logoutOnce, statusVars, envVars, hub,
                 poll>>

\* mutated: the deferred function tests isLoggedOut the wrong way round
ReadErrorInverted(c) ==
  /\ pc[c]["reader"] = "read"
  /\ socket[c] = "closed"
  /\ Report(c, TRUE, FALSE)
  /\ IF consumer[c] = "dead" THEN Goto(c, "reader", "eof")
     ELSE Goto(c, "reader", IF isLoggedOut[c] THEN "leave" ELSE "end")
  /\ UNCHANGED <<hubVars, connVars, login, retClient, known, logoutOnce,
                 request, statusVars, envVars, hub, poll>>

\* ReadMessage fails. The deferred function runs once the consumer has taken the
\* error; it reads isLoggedOut, which the consumer has just overwritten or is
\* about to: nothing orders the two. Without a consumer the reader hangs here.
ReadError(c) ==
  /\ pc[c]["reader"] = "read"
  /\ socket[c] = "closed"
  /\ Report(c, TRUE, FALSE)
  /\ IF consumer[c] = "dead" THEN Goto(c, "reader", "eof")
     ELSE \E seen \in {isLoggedOut[c], FALSE} :
            Goto(c, "reader", IF seen THEN "end" ELSE "leave")
  /\ UNCHANGED <<hubVars, connVars, login, retClient, known, logoutOnce,
                 request, statusVars, envVars, hub, poll>>

-----------------------------------------------------------------------------
(* chatLogin, run by a dataProcessing goroutine. The answers it queues on  *)
(* the still unregistered connection cannot fill the channel and are left  *)
(* out, but for the refusals.                                              *)

LoginFrame ==
  UNCHANGED <<hubVars, subscription, told, socket, writer, pc, known,
              logoutOnce, request, envVars, poll>>

LimitReached ==
  \E p \in Plats : Cardinality(OnlineOn(p)) >= MaxOnlineUser

Advance(c, step) == login' = [login EXCEPT ![c] = step]

\* from now on the login of c changes nothing
EndLogin(c) == late' = IF HasLeft(c) THEN late \cup {c} ELSE late

\* chatLogin returns an error after queueing a message for the client.
Refuse(c) ==
  /\ Len(send[c]) < SendCap
  /\ send' = [send EXCEPT ![c] = Append(@, "msg")]
  /\ Advance(c, "failed")
  /\ Report(c, TRUE, FALSE)

CheckLimit(c) ==
  /\ login[c] = "limit"
  /\ MutexFree
  /\ IF LimitReached
       THEN Refuse(c)
       ELSE Advance(c, "auth") /\ UNCHANGED <<send, isLoggedOut, consumer>>
  /\ UNCHANGED <<session, retClient, statusVars, hub>>
  /\ LoginFrame

MarkOnline(u) ==
  clientStatus' = [clientStatus EXCEPT ![u] = "online"]

\* LoginService accepts the credentials and writes the status.
Authenticate(c) ==
  /\ login[c] = "auth"
  /\ MarkOnline(UserOf[c])
  /\ stranded' = stranded \ {UserOf[c]}
  /\ Advance(c, "announce")
  /\ UNCHANGED <<session, send, retClient, isLoggedOut, consumer, hub>>
  /\ LoginFrame

\* LoginService returns an error, and the user id stays unset: the database
\* refuses the new status, or it has taken it and cannot say so. The request is
\* echoed to the client.
AuthenticateFails(c) ==
  /\ "failing login" \in Inputs
  /\ login[c] = "auth"
  /\ \/ UNCHANGED statusVars
     \/ MarkOnline(UserOf[c]) /\ stranded' = stranded \cup {UserOf[c]}
  /\ Refuse(c)
  /\ UNCHANGED <<session, retClient, hub>>
  /\ LoginFrame

\* The success is published to the subscribers, then the SessionID is made.
Announce(c) ==
  /\ login[c] = "announce"
  /\ hub = Idle
  /\ hub' = Publish(UserOf[c])
  /\ session' = [session EXCEPT ![c] = clock]
  /\ Advance(c, "register")
  /\ UNCHANGED <<send, retClient, isLoggedOut, consumer, statusVars>>
  /\ LoginFrame

\* The SessionID cannot be made (AesEncrypt): chatLogin returns the error, with
\* the login announced and the user id set, and never registers the client.
AnnounceFails(c) ==
  /\ "failing session" \in Inputs
  /\ login[c] = "announce"
  /\ hub = Idle
  /\ hub' = Publish(UserOf[c])
  /\ Advance(c, "nosession")
  /\ EndLogin(c)
  /\ Report(c, TRUE, FALSE)
  /\ UNCHANGED <<registered, id, repeatLogin, connVars, retClient, pc, known,
                 logoutOnce, request, statusVars, envVars, poll>>

AskRegister(c) ==
  /\ login[c] = "register"
  /\ hub = Idle
  /\ hub' = Register(c)
  /\ Advance(c, "wait")
  /\ UNCHANGED <<session, send, retClient, isLoggedOut, consumer, statusVars>>
  /\ LoginFrame

\* mutated: the kick-off is dropped if the channel is full
JudgeWithoutBlocking(c) ==
  /\ login[c] = "judge"
  /\ IF repeatLogin[retClient[c]] /\ Len(send[retClient[c]]) < SendCap
       THEN send' = [send EXCEPT ![retClient[c]] = Append(@, "kick")]
       ELSE UNCHANGED send
  /\ Advance(c, "done")
  /\ Report(c, FALSE, FALSE)
  /\ UNCHANGED <<session, retClient, statusVars, hub>>
  /\ LoginFrame

\* The returned client is told if it is marked as displaced; the send blocks
\* while its channel is full.
Judge(c) ==
  /\ login[c] = "judge"
  /\ IF repeatLogin[retClient[c]]
       THEN /\ Len(send[retClient[c]]) < SendCap
            /\ send' = [send EXCEPT ![retClient[c]] = Append(@, "kick")]
       ELSE UNCHANGED send
  /\ Advance(c, "done")
  /\ Report(c, FALSE, FALSE)
  /\ UNCHANGED <<session, retClient, statusVars, hub>>
  /\ LoginFrame

-----------------------------------------------------------------------------
(* Leaving: userlogout (process quit) and the deferred function of         *)
(* readPump (process reader) both send an unregister, close the connection *)
(* and call chatLogout.                                                    *)

LeaveFrame ==
  UNCHANGED <<hubVars, subscription, session, send, told, writer, login,
              retClient, request, envVars, poll>>

\* userlogout ends with a result for the consumer.
Return(c, p) ==
  /\ Goto(c, p, "end")
  /\ IF p = "quit" THEN Report(c, FALSE, TRUE)
                   ELSE UNCHANGED <<isLoggedOut, consumer>>

Proceed(c, p, step) == Goto(c, p, step) /\ UNCHANGED <<isLoggedOut, consumer>>

LogoutDone(c) == logoutOnce' = [logoutOnce EXCEPT ![c] = "done"]

\* mutated: chatLogout alone unregisters the connection
CloseOnly(c, p) ==
  /\ pc[c][p] = "leave"
  /\ socket' = [socket EXCEPT ![c] = "closed"]
  /\ known' = [known EXCEPT ![c][p] = LoggedIn(c)]
  /\ Proceed(c, p, "logout")
  /\ UNCHANGED <<logoutOnce, statusVars, hub>>
  /\ LeaveFrame

\* The connection is closed as soon as the hub has taken the unregister.
SendUnregister(c, p) ==
  /\ pc[c][p] = "leave"
  /\ hub = Idle
  /\ hub' = Unregister(c)
  /\ socket' = [socket EXCEPT ![c] = "closed"]
  /\ known' = [known EXCEPT ![c][p] = LoggedIn(c)]
  /\ Proceed(c, p, "logout")
  /\ UNCHANGED <<logoutOnce, statusVars>>
  /\ LeaveFrame

\* chatLogout up to logoutOnce.Do, whose second caller waits for the first. It
\* returns at once if the user id was set only after it was called.
EnterLogout(c, p) ==
  /\ pc[c][p] = "logout"
  /\ IF repeatLogin[c] \/ known[c][p] # LoggedIn(c) \/ logoutOnce[c] = "done"
       THEN Return(c, p) /\ UNCHANGED logoutOnce
       ELSE /\ logoutOnce[c] = "free"
            /\ logoutOnce' = [logoutOnce EXCEPT ![c] = "busy"]
            /\ Proceed(c, p, "unreg")
  /\ UNCHANGED <<socket, known, statusVars, hub>>
  /\ LeaveFrame

SendUnregisterAgain(c, p) ==
  /\ pc[c][p] = "unreg"
  /\ hub = Idle
  /\ hub' = Unregister(c)
  /\ Proceed(c, p, "check")
  /\ UNCHANGED <<socket, known, logoutOnce, statusVars>>
  /\ LeaveFrame

\* allOut: does the user have any entry left, on any platform?
CheckAllOut(c, p) ==
  /\ pc[c][p] = "check"
  /\ MutexFree
  /\ IF known[c][p] /\ Sessions(UserOf[c]) # {}
       THEN LogoutDone(c) /\ Return(c, p)
       ELSE Proceed(c, p, "offline") /\ UNCHANGED logoutOnce
  /\ UNCHANGED <<socket, known, statusVars, hub>>
  /\ LeaveFrame

\* UserLoginOutService up to its list of online users. Without a user id the
\* update is refused with an error.
MarkOffline(c, p) ==
  /\ pc[c][p] = "offline"
  /\ IF LoggedIn(c)
       THEN /\ clientStatus' = [clientStatus EXCEPT ![UserOf[c]] = "offline"]
            /\ stranded' = stranded \ {UserOf[c]}
            /\ Proceed(c, p, IF clientStatus[UserOf[c]] = "offline"
                               THEN "refuse" ELSE "notify")
            /\ UNCHANGED logoutOnce
       ELSE LogoutDone(c) /\ Return(c, p) /\ UNCHANGED statusVars
  /\ UNCHANGED <<socket, known, hub>>
  /\ LeaveFrame

\* The user cannot be read or the status not written, or it is written and an
\* error is reported: nobody is told, and logoutOnce is spent.
MarkOfflineFails(c, p) ==
  /\ "failing logout" \in Inputs
  /\ pc[c][p] = "offline" /\ LoggedIn(c)
  /\ \E status \in {clientStatus[UserOf[c]], "offline"} :
       /\ clientStatus' = [clientStatus EXCEPT ![UserOf[c]] = status]
       /\ stranded' = IF status = "online" THEN stranded \cup {UserOf[c]}
                                           ELSE stranded \ {UserOf[c]}
  /\ LogoutDone(c) /\ Return(c, p)
  /\ UNCHANGED <<socket, known, hub>>
  /\ LeaveFrame

\* The users online are told, or the subscribers if anybody has subscribed;
\* the user alone if the status was offline already. An empty list of users
\* makes X2cSend broadcast.
Notify(c, p) ==
  /\ pc[c][p] \in {"notify", "refuse"}
  /\ hub = Idle
  /\ LET online == {u \in Users : clientStatus[u] = "online"} IN
       hub' = IF AnySubscription THEN Publish(UserOf[c])
              ELSE IF pc[c][p] = "refuse" THEN Multicast({UserOf[c]}, {})
              ELSE Multicast(IF online = {} THEN Users ELSE online, {})
  /\ LogoutDone(c)
  /\ Return(c, p)
  /\ UNCHANGED <<socket, known, statusVars>>
  /\ LeaveFrame

-----------------------------------------------------------------------------
(* Hub.run carries out the job it has taken, under clientsMutex.           *)

Taken(kind) == hub.kind = kind /\ hub' = Idle

\* The login goroutine receives the client that the hub returns.
Reply(c, r) ==
  /\ retClient' = [retClient EXCEPT ![c] = r]
  /\ login' = [login EXCEPT ![c] = "judge"]
  /\ EndLogin(c)

Enter(c, others, key) ==
  /\ registered' = others \cup {c}
  /\ id' = [id EXCEPT ![c] = key]

RegisterFrame ==
  UNCHANGED <<connVars, pc, known, logoutOnce, isLoggedOut, request, consumer,
              statusVars, envVars, poll>>

\* No map for the device.
RegisterIgnored ==
  /\ MutexFree
  /\ Taken("register")
  /\ PlatOf[hub.client] \notin Plats
  /\ Reply(hub.client, hub.client)
  /\ UNCHANGED <<registered, id, repeatLogin>>
  /\ RegisterFrame

RegisterFirst ==
  /\ MutexFree
  /\ Taken("register")
  /\ PlatOf[hub.client] \in Plats
  /\ Peers(hub.client) = {}
  /\ Enter(hub.client, registered, clock)
  /\ Reply(hub.client, hub.client)
  /\ UNCHANGED repeatLogin
  /\ RegisterFrame

\* mutated: the new session is put beside the old one
RegisterBeside ==
  /\ MutexFree
  /\ Taken("register")
  /\ PlatOf[hub.client] \in Plats \ {Web}
  /\ Peers(hub.client) # {}
  /\ Enter(hub.client, registered, clock)
  /\ Reply(hub.client, hub.client)
  /\ UNCHANGED repeatLogin
  /\ RegisterFrame

\* The map has an entry: it is replaced under its key, and returned.
RegisterDisplacing ==
  /\ MutexFree
  /\ Taken("register")
  /\ PlatOf[hub.client] \in Plats \ {Web}
  /\ \E old \in Peers(hub.client) :
       /\ repeatLogin' = [repeatLogin EXCEPT ![old] = TRUE]
       /\ Enter(hub.client, registered \ {old}, id[old])
       /\ Reply(hub.client, old)
  /\ RegisterFrame

\* A further zentaoweb session is put under the key of this second.
RegisterWeb ==
  /\ MutexFree
  /\ Taken("register")
  /\ PlatOf[hub.client] \in Plats \cap {Web}
  /\ Peers(hub.client) # {}
  /\ LET sameKey == {d \in Peers(hub.client) : id[d] = clock} IN
       Enter(hub.client, registered \ sameKey, clock)
  /\ Reply(hub.client, hub.client)
  /\ UNCHANGED repeatLogin
  /\ RegisterFrame

\* The entries an unregister of c deletes: all of the user's on the platform,
\* except that among several zentaoweb sessions only the one with c's key goes.
\* client.device and client.userID are unset before the login is accepted.
Removed(c) ==
  IF ~LoggedIn(c) THEN {}
  ELSE IF PlatOf[c] = Web /\ Cardinality(Peers(c)) # 1
    THEN {d \in Peers(c) : id[d] = id[c]}
    ELSE Peers(c)

\* mutated: clientsMutex is not taken
HubUnregisterUnlocked ==
  /\ Taken("unregister")
  /\ registered' = IF repeatLogin[hub.client]
                     THEN registered ELSE registered \ Removed(hub.client)
  /\ UNCHANGED <<id, repeatLogin, late, connVars, taskVars, statusVars,
                 envVars, poll>>

\* mutated: the flag repeatLogin is not tested
HubUnregisterUntested ==
  /\ Taken("unregister")
  /\ MutexFree
  /\ registered' = registered \ Removed(hub.client)
  /\ UNCHANGED <<id, repeatLogin, late, connVars, taskVars, statusVars,
                 envVars, poll>>

HubUnregister ==
  /\ Taken("unregister")
  /\ repeatLogin[hub.client] \/ MutexFree
  /\ registered' = IF repeatLogin[hub.client]
                     THEN registered ELSE registered \ Removed(hub.client)
  /\ UNCHANGED <<id, repeatLogin, late, connVars, taskVars, statusVars,
                 envVars, poll>>

\* How many copies of the message connection c is offered. A connection of the
\* publishing user that has also subscribed to that user is offered two.
Copies(job, c) ==
  LET one(b) == IF b THEN 1 ELSE 0 IN
  IF c \notin registered THEN 0
  ELSE IF job.kind = "publish"
    THEN one(UserOf[c] = job.from) + one(job.from \in subscription[c])
    ELSE one(/\ UserOf[c] \in job.users
             /\ ~\E e \in job.except : SameSession(c, e))

\* mutated: one message too many
OfferOneTooMany(buffer, n) ==
  LET all == buffer \o [i \in 1 .. n |-> "msg"] IN
  SubSeq(all, 1, IF Len(all) > SendCap THEN SendCap + 1 ELSE Len(all))

Offer(buffer, n) ==
  LET all == buffer \o [i \in 1 .. n |-> "msg"] IN
  SubSeq(all, 1, IF Len(all) > SendCap THEN SendCap ELSE Len(all))

\* A connection whose channel is full is skipped, and all entries of its user
\* on its platform are deleted.
HubCast ==
  /\ MutexFree
  /\ hub.kind \in {"cast", "publish"} /\ hub' = Idle
  /\ LET full == {c \in registered : Len(send[c]) + Copies(hub, c) > SendCap}
     IN  registered' = registered \ UNION {Peers(c) : c \in full}
  /\ send' = [c \in Conns |-> Offer(send[c], Copies(hub, c))]
  /\ UNCHANGED <<id, repeatLogin, late, subscription, session, told, socket,
                 writer, taskVars, statusVars, envVars, poll>>

-----------------------------------------------------------------------------
(* writePump                                                               *)

WriteMessage(c) ==
  /\ writer[c] = "run"
  /\ socket[c] = "open"
  /\ send[c] # <<>>
  /\ send' = [send EXCEPT ![c] = Tail(@)]
  /\ told' = IF Head(send[c]) = "kick" THEN told \cup {c} ELSE told
  /\ UNCHANGED <<hubVars, subscription, session, socket, writer, taskVars,
                 statusVars, envVars, hub, poll>>

\* A message or a ping cannot be written: the message taken from the channel is
\* lost and writePump ends.
WriteFails(c) ==
  /\ writer[c] = "run"
  /\ socket[c] = "closed"
  /\ writer' = [writer EXCEPT ![c] = "dead"]
  /\ \/ UNCHANGED send
     \/ send[c] # <<>> /\ send' = [send EXCEPT ![c] = Tail(@)]
  /\ UNCHANGED <<hubVars, subscription, session, told, socket, taskVars,
                 statusVars, envVars, hub, poll>>

-----------------------------------------------------------------------------
(* apiSync pushes notifications while it holds clientsMutex; its send on a *)
(* full channel blocks.                                                    *)

PollLock ==
  /\ polls < MaxPolls
  /\ ~poll.on
  /\ \E us \in SUBSET Users \ {{}} :
       poll' = [on |-> TRUE, todo |-> {c \in registered : UserOf[c] \in us}]
  /\ polls' = polls + 1
  /\ UNCHANGED <<hubVars, connVars, taskVars, statusVars, clock, casts, hub>>

PollPush ==
  \E c \in poll.todo :
    /\ Len(send[c]) < SendCap
    /\ send' = [send EXCEPT ![c] = Append(@, "msg")]
    /\ poll' = [poll EXCEPT !.todo = @ \ {c}]
    /\ UNCHANGED <<hubVars, subscription, session, told, socket, writer,
                   taskVars, statusVars, envVars, hub>>

PollUnlock ==
  /\ poll.on
  /\ poll.todo = {}
  /\ poll' = [on |-> FALSE, todo |-> {}]
  /\ UNCHANGED <<hubVars, connVars, taskVars, statusVars, envVars, hub>>

-----------------------------------------------------------------------------
HubStep ==
  \/ RegisterIgnored \/ RegisterFirst \/ RegisterDisplacing \/ RegisterWeb
  \/ HubUnregister \/ HubCast

LoginStep(c) ==
  \/ CheckLimit(c) \/ Authenticate(c) \/ AuthenticateFails(c)
  \/ Announce(c) \/ AnnounceFails(c) \/ AskRegister(c) \/ Judge(c)

LeaveStep(c, p) ==
  \/ SendUnregister(c, p) \/ EnterLogout(c, p)
  \/ SendUnregisterAgain(c, p) \/ CheckAllOut(c, p) \/ MarkOffline(c, p)
  \/ MarkOfflineFails(c, p) \/ Notify(c, p)

WriteStep(c) == WriteMessage(c) \/ WriteFails(c)

PollStep == PollPush \/ PollUnlock

ClientStep(c) ==
  \/ Drop(c) \/ ReceiveLogin(c) \/ ReceiveLogout(c) \/ ReceiveRequest(c)

Next ==
  \/ HubStep
  \/ Tick \/ Cast \/ PollLock \/ PollStep
  \/ \E c \in Conns :
       \/ ClientStep(c) \/ FinishRequest(c) \/ ReadError(c)
       \/ LoginStep(c) \/ WriteStep(c)
       \/ \E p \in Procs : LeaveStep(c, p)

Spec == Init /\ [][Next]_vars

\* Every goroutine that can go on does; clients and clocks owe nothing.
Fairness ==
  /\ WF_vars(HubStep) /\ WF_vars(PollStep)
  /\ \A c \in Conns :
       /\ WF_vars(LoginStep(c)) /\ WF_vars(WriteStep(c))
       /\ WF_vars(ReadError(c)) /\ WF_vars(FinishRequest(c))
       /\ \A p \in Procs : WF_vars(LeaveStep(c, p))

FairSpec == Spec /\ Fairness

-----------------------------------------------------------------------------
(* Properties                                                              *)

\* Registering replaces the entry of the same user and device (hub.go:71-88),
\* so that at most one session per user and device is ever addressed, whatever
\* logins race; only zentaoweb may have several.
OneSessionPerDevice ==
  \A c, d \in registered :
    UserOf[c] = UserOf[d] /\ PlatOf[c] = PlatOf[d] /\ c # d => PlatOf[c] = Web

\* The end of a displaced session is not taken for the end of its successor,
\* which is registered under the same user, device and key: from the moment the
\* hub takes the unregister of a displaced connection until it is done with it,
\* nobody leaves the map (hub.go:80, 106), however late or often the connection
\* unregisters and whoever has taken its place since.
SuccessorStays ==
  [][\A c \in Conns :
       hub = Unregister(c) /\ repeatLogin[c] => registered' = registered]_vars

\* chatLogout decides whether the user is all out only when the hub has carried
\* out an unregister of this very connection (client.go:393-402): the first of
\* its two unregisters is done once the second has been taken. Without it the
\* connection would see itself and the user would stay online. Only a login
\* that completes after the connection left escapes.
OwnEntryGone ==
  \A c \in Conns, p \in Procs :
    pc[c][p] = "check" /\ c \notin late => c \notin registered

\* When every connection of a user has ended, the user is offline in the
\* database, however logins, displacements, logouts and read errors overlapped
\* (client.go:383-442): the connections cannot all leave the duty to each other.
\* A login that completes after its connection left escapes again; and so does,
\* until the next login or logout of the user, a login that wrote the status and
\* returned an error (login.go:154), and a logout whose write of the status failed,
\* since its logoutOnce is spent (logout.go:50). A login that fails later does not.
Ended(c) ==
  /\ pc[c]["reader"] = "end" /\ pc[c]["quit"] \in {"idle", "end"}
  /\ login[c] \in {"idle", "failed", "done", "nosession"} /\ c \notin late
AllEndedIsOffline ==
  \A u \in Users \ stranded :
    (\A c \in Conns : UserOf[c] = u => Ended(c)) => clientStatus[u] = "offline"

\* While apiSync walks the map and may block on a full channel, nothing enters
\* or leaves the map (server.go:119-129).
MapStableWhilePolling == [][poll.on => registered' = registered]_vars

\* A session displaced by a later login is told so, unless its connection
\* closes first (client.go:373-375), whatever the state of its channel.
DisplacedIsTold ==
  \A c \in Conns :
    repeatLogin[c] ~> (c \in told \/ socket[c] = "closed")

\* A connection that fails while its consumer still listens and none of its
\* requests is in progress leaves the hub and ends (client.go:519-569).
Quiet(c) ==
  /\ consumer[c] = "wait" /\ request[c] = "none"
  /\ login[c] \in {"idle", "done"} /\ pc[c]["quit"] = "idle"
QuietDisconnectEnds ==
  \A c \in Conns :
    (socket[c] = "closed" /\ Quiet(c))
      ~> (c \notin registered /\ pc[c]["reader"] = "end")

-----------------------------------------------------------------------------
(* Statements of the source that the code does not keep.                   *)

\* "When there is more than one zentaoweb client, remove only the one that
\* disconnected" (hub.go:116): the unregister of a logged-in browser session
\* takes no session out of the hub that is registered under another key.
OnlyTheDisconnected ==
  [][\A c \in Conns :
       hub = Unregister(c) /\ hub' = Idle /\ PlatOf[c] = Web /\ login[c] = "done"
         => \A d \in registered \ registered' : id[d] = id[c]]_vars

\* "A socket that failed is unregistered" (hub.go:110).
FailedSocketUnregistered ==
  \A c \in Conns : socket[c] = "closed" ~> c \notin registered

\* "Judge whether the user is out everywhere, otherwise there is no need to
\* tell others that the user has left" (client.go:394): the status goes offline
\* only while no other session of the user is registered.
OfflineOnlyWhenAllOut ==
  [][\A u \in Users :
       clientStatus[u] = "online" /\ clientStatus'[u] = "offline"
         => \A c \in Sessions(u) : HasLeft(c)]_vars

=============================================================================
