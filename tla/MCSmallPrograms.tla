-------------------------- MODULE MCSmallPrograms --------------------------
(* The small programs on a small instance: the initial state chooses one,  *)
(* and the other module's part stays as it is.                             *)
EXTENDS SmallServers, Strands

MCInit == Init /\ ThreadInit

MCNext ==
  \/ Next /\ UNCHANGED threadVars
  \/ ThreadNext /\ UNCHANGED vars

MCSpec == MCInit /\ [][MCNext]_<<vars, threadVars>> /\ Fairness /\ ThreadFairness

=============================================================================
