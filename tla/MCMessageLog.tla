---------------------------- MODULE MCMessageLog ----------------------------
(* Instances of MessageLog: ann and bob have a chat of their own, and a     *)
(* group with cat; ann sends request r1, and r2 resends its messages.       *)
EXTENDS MessageLog, TLC

CONSTANTS duo, team, ann, bob, cat, g1, g2, r1, r2

WhoIsIn == [c \in Chats |-> IF c = duo THEN <<ann, bob>> ELSE <<ann, bob, cat>>]
ToDuo == [g \in Gids |-> duo]
ToTeam == [g \in Gids |-> team]
FromAnn == [r \in Reqs |-> ann]
One == [r \in Reqs |-> <<g1>>]
Two == [r \in Reqs |-> <<g1, g2>>]

\* the two requests are interchangeable
EitherSend == Permutations(Reqs)
=============================================================================
