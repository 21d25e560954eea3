---------------------------- MODULE MCChatSystem ----------------------------
(* ChatSystem on a small instance.                                         *)
EXTENDS ChatSystem
=============================================================================
