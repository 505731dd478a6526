----------------------------- MODULE Membership -----------------------------
(***************************************************************************)
(* What xxd promises about the members of a group: a request of several    *)
(* users to join or to leave takes effect on one user after the other,     *)
(* each at one moment between its arrival and its answer, in any order     *)
(* with other requests, and it is answered with success only when it has   *)
(* taken effect on everybody it names. GroupChat, which models how the     *)
(* code does it, implements this module.                                   *)
(***************************************************************************)
CONSTANTS
  Reqs,
  Start,   \* the members at first
  Tasks    \* what may be asked for: [aim |-> "in" or "out", users |-> a set]

VARIABLES
  members,
  task,    \* task[r]: what request r was asked for
  done,    \* done[r]: the users it has taken effect on
  result   \* result[r]: the answer r is about to give, or "none"

memVars == <<members, task, done, result>>

NoTask == [aim |-> "in", users |-> {}]

Init ==
  /\ members = Start
  /\ task = [r \in Reqs |-> NoTask]
  /\ done = [r \in Reqs |-> {}]
  /\ result = [r \in Reqs |-> "none"]

Ask(r) ==
  /\ result[r] = "none" /\ task[r] = NoTask
  /\ \E t \in Tasks : task' = [task EXCEPT ![r] = t]
  /\ UNCHANGED <<members, done, result>>

TakeEffect(r) ==
  /\ result[r] = "none"
  /\ \E u \in task[r].users :
       /\ members' = IF task[r].aim = "in" THEN members \cup {u} ELSE members \ {u}
       /\ done' = [done EXCEPT ![r] = @ \cup {u}]
  /\ UNCHANGED <<task, result>>

Answer(r, w) ==
  /\ result[r] = "none"
  /\ w = "success" => done[r] = task[r].users
  /\ result' = [result EXCEPT ![r] = w]
  /\ UNCHANGED <<members, task, done>>

\* The answer is sent.
Finish(r) ==
  /\ result[r] # "none"
  /\ result' = [result EXCEPT ![r] = "none"]
  /\ task' = [task EXCEPT ![r] = NoTask]
  /\ done' = [done EXCEPT ![r] = {}]
  /\ UNCHANGED members

\* xxd is started again; nobody who waits is answered.
Restart ==
  /\ task' = [r \in Reqs |-> NoTask]
  /\ done' = [r \in Reqs |-> {}]
  /\ result' = [r \in Reqs |-> "none"]
  /\ UNCHANGED members

Next ==
  \/ \E r \in Reqs :
       \/ Ask(r) \/ TakeEffect(r) \/ Finish(r)
       \/ \E w \in {"success", "fail"} : Answer(r, w)
  \/ Restart

Spec == Init /\ [][Next]_memVars

=============================================================================
