---------------------------- MODULE MCChatServer ----------------------------
(* ChatServer on a small instance.                                         *)
EXTENDS ChatServer
=============================================================================
