-------------------------- MODULE MCRequestHandler --------------------------
(* The instance of RequestHandler that TLC checks.                         *)
EXTENDS RequestHandler
=============================================================================
