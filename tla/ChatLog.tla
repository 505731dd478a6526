------------------------------ MODULE ChatLog ------------------------------
(***************************************************************************)
(* What xxd promises about the messages of its chats: every chat is a log  *)
(* that only grows at its end, one message at a time, and a messagesend is *)
(* answered with success only when all its messages are in the log.        *)
(* MessageLog, which models how the code does it, implements this module.  *)
(***************************************************************************)
EXTENDS Naturals, Sequences

CONSTANTS Chats, Gids, Reqs

VARIABLES
  log,    \* log[c]: the gids of the messages of chat c, by index
  acked   \* acked[r]: the messages request r has been told are stored

logVars == <<log, acked>>

Init ==
  /\ log = [c \in Chats |-> <<>>]
  /\ acked = [r \in Reqs |-> {}]

Store(c, g) ==
  /\ log' = [log EXCEPT ![c] = Append(@, g)]
  /\ UNCHANGED acked

\* gid g is somewhere in a log
Stored(g) == \E c \in Chats : \E i \in 1 .. Len(log[c]) : log[c][i] = g

Acknowledge(r, gids) ==
  /\ \A g \in gids : Stored(g)
  /\ acked' = [acked EXCEPT ![r] = gids]
  /\ UNCHANGED log

Next ==
  \/ \E c \in Chats, g \in Gids : Store(c, g)
  \/ \E r \in Reqs, gids \in SUBSET Gids : Acknowledge(r, gids)

Spec == Init /\ [][Next]_logVars

=============================================================================
