------------------------ MODULE MCMessagePartition ------------------------
(* Instances of MessagePartition with two messages to a table: a first      *)
(* table is due with five messages, a second with seven.                    *)
EXTENDS MessagePartition

CONSTANTS team, duo

MostlyTeam == [c \in Chats |-> IF c = team THEN 5 ELSE 2]
===========================================================================
