---------------------------- MODULE MCChatClient ----------------------------
(* An instance of ChatClient: the user writes one message, g1.              *)
EXTENDS ChatClient

CONSTANTS g1, other

OneMessage == {g1}
=============================================================================
