---------------------------- MODULE MCDecoders ----------------------------
(* What is made of the bytes that arrive, on a small instance: the initial *)
(* state chooses between the chat message and the HTTP request.            *)
EXTENDS ChatMessage, RequestParsers

VARIABLE decoder

MCInit == decoder \in {"message", "request"} /\ MessageInit /\ Init

MCNext ==
  \/ decoder = "message" /\ MessageNext /\ UNCHANGED <<decoder, vars>>
  \/ decoder = "request" /\ Next /\ UNCHANGED <<decoder, messageVars>>

MCSpec == MCInit /\ [][MCNext]_<<decoder, messageVars, vars>>
===========================================================================
