-------------------------- MODULE ServerLifecycle --------------------------
(***************************************************************************)
(* What http::server::server of boost_http_server_1 promises about its     *)
(* shutdown, with no sockets and no handlers: while it runs, connections   *)
(* come and go; a stop is final, no connection comes after it, the ones    *)
(* there are end by themselves, and then run() returns.                    *)
(***************************************************************************)
CONSTANT Conns     \* the connections

VARIABLES stage,   \* "running", "stopping" or "returned"
          live     \* the connections that still have work to do

vars == <<stage, live>>

Init == stage = "running" /\ live = {}

Come(c) ==
  /\ stage = "running"
  /\ live' = live \cup {c}
  /\ UNCHANGED stage

Go(c) ==
  /\ live' = live \ {c}
  /\ UNCHANGED stage

Stop ==
  /\ stage = "running"
  /\ stage' = "stopping"
  /\ UNCHANGED live

\* run() returns with the handler that leaves nothing to do.
Return ==
  /\ stage = "stopping"
  /\ stage' = "returned"
  /\ live' = {}
  /\ \A c, d \in live : c = d

Next ==
  \/ \E c \in Conns : Come(c) \/ Go(c)
  \/ Stop
  \/ Return

Spec == Init /\ [][Next]_vars /\ (stage = "stopping" ~> stage = "returned")
=============================================================================
