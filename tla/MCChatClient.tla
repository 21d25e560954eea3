---------------------------- MODULE MCChatClient ----------------------------
(* ChatClient on a small instance.                                         *)
EXTENDS ChatClient
=============================================================================
