---------------------------- MODULE HttpServer1 ----------------------------
(***************************************************************************)
(* The accept loop, the connections, the connection manager and the        *)
(* shutdown of cpp_03_example/boost_http_server_1/src.  One thread runs    *)
(* io_context::run(), so every handler is one step.  An operation finishes *)
(* in two steps: the system (or close()) gives it a result, and later its  *)
(* handler runs; other handlers may run in between.                        *)
(***************************************************************************)
EXTENDS FiniteSets

CONSTANT Conns   \* bound: the connection objects that exist at one time

VARIABLES
  acceptor_open,   \* server::acceptor_.is_open()
  accept,          \* the outstanding async_accept
  signals,         \* the one async_wait on server::signals_
  new_connection,  \* server::new_connection_
  connections,     \* connection_manager::connections_
  open,            \* open[c]: c's socket is open
  op,              \* op[c]: c's outstanding operation
  result           \* result[c]: what op[c] will report, once it is known

vars == <<acceptor_open, accept, signals, new_connection, connections, open, op,
          result>>

\* "pending": not finished; "aborted": operation_aborted, the result close()
\* gives to a pending operation; "error": any other error, among them the
\* bad_descriptor of an operation started on a closed socket.
Results == {"pending", "ok", "error", "aborted"}

\* Every variable has its type, and a connection has a result, known or still
\* pending, exactly when it has an operation: no handler ends with an operation it
\* thinks it has started.
TypeOK ==
  /\ acceptor_open \in BOOLEAN
  /\ accept \in Results \cup {"none"}
  /\ signals \in {"waiting", "raised", "handled"}
  /\ new_connection \in Conns
  /\ connections \subseteq Conns
  /\ open \in [Conns -> BOOLEAN]
  /\ op \in [Conns -> {"none", "read", "write"}]
  /\ result \in [Conns -> Results \cup {"none"}]
  /\ \A c \in Conns : op[c] = "none" <=> result[c] = "none"

-----------------------------------------------------------------------------
(* The steps the handlers share, and, before each of them, the faults a    *)
(* change of that code might bring, to try the properties with: no action  *)
(* uses one.                                                               *)

\* No shared_ptr refers to these: the model may use them for a new connection.
Free(conns, ops) == {c \in Conns : c \notin conns /\ ops[c] = "none"}

\* start_accept(): a new connection waits in async_accept, which fails at once
\* on a closed acceptor.
StartAccept(conns, ops) ==
  /\ new_connection' \in Free(conns, ops)
  /\ accept' = IF acceptor_open THEN "pending" ELSE "error"

\* An operation started now: it fails at once on a closed socket.
Started(c) == IF open[c] THEN "pending" ELSE "error"

\* Fault: stop_all() forgets the connections without closing their sockets.
ResultsAfterClear(c) == {result[c]}

\* What close() does to an outstanding operation.  One that has its result
\* keeps it.  A pending async_write that has sent a part of its buffers goes on
\* with a closed socket instead, and fails with another error.
ResultsAfterClose(c) ==
  IF result[c] # "pending" THEN {result[c]}
  ELSE IF op[c] = "write" THEN {"aborted", "error"} ELSE {"aborted"}

\* Fault: the socket is closed, the connection stays in the set.
CloseOnly(c) ==
  /\ connections' = connections
  /\ open' = [open EXCEPT ![c] = FALSE]

\* connection_manager::stop(c).
ManagerStop(c) ==
  /\ connections' = connections \ {c}
  /\ open' = [open EXCEPT ![c] = FALSE]

\* Fault: handle_accept does not make the test.
NeverStopped == FALSE

\* handle_accept's test "the server was stopped before this handler ran".
StoppedBySignal == ~acceptor_open

-----------------------------------------------------------------------------
Init ==
  /\ acceptor_open = TRUE
  /\ accept = "pending"
  /\ signals = "waiting"
  /\ new_connection \in Conns
  /\ connections = {}
  /\ open = [c \in Conns |-> FALSE]
  /\ op = [c \in Conns |-> "none"]
  /\ result = [c \in Conns |-> "none"]

(* The system.                                                             *)

SignalArrives ==
  /\ signals = "waiting"
  /\ signals' = "raised"
  /\ UNCHANGED <<acceptor_open, accept, new_connection, connections, open, op, result>>

\* A client connects (if the bound leaves an object for the next accept), or
\* accept fails.
AcceptFinishes ==
  /\ accept = "pending"
  /\ \/ accept' = "ok" /\ Free(connections, op) # {new_connection}
     \/ accept' = "error"
  /\ UNCHANGED <<acceptor_open, signals, new_connection, connections, open, op, result>>

\* A read or a write is done, or the connection is lost.
OpFinishes(c) ==
  /\ result[c] = "pending"
  /\ \E r \in {"ok", "error"} : result' = [result EXCEPT ![c] = r]
  /\ UNCHANGED <<acceptor_open, accept, signals, new_connection, connections, open, op>>

(* The handlers.                                                           *)

\* handle_accept after handle_stop: the connection, if there is one, is left
\* alone.
HandleAcceptAfterStop ==
  /\ accept \notin {"none", "pending"}
  /\ StoppedBySignal
  /\ open' = [open EXCEPT ![new_connection] = accept = "ok"]
  /\ accept' = "none"
  /\ UNCHANGED <<acceptor_open, signals, new_connection, connections, op, result>>

\* handle_accept: the manager starts the connection, which starts to read, and
\* the next one is accepted.
HandleAccept ==
  /\ accept = "ok"
  /\ ~StoppedBySignal
  /\ connections' = connections \cup {new_connection}
  /\ open' = [open EXCEPT ![new_connection] = TRUE]
  /\ op' = [op EXCEPT ![new_connection] = "read"]
  /\ result' = [result EXCEPT ![new_connection] = "pending"]
  /\ StartAccept(connections', op')
  /\ UNCHANGED <<acceptor_open, signals>>

\* Fault: an error ends the accept loop.
AcceptErrorIsLast ==
  /\ accept \in {"error", "aborted"}
  /\ ~StoppedBySignal
  /\ accept' = "none"
  /\ UNCHANGED <<acceptor_open, signals, new_connection, connections, open, op, result>>

\* handle_accept with an error: accept again.
HandleAcceptError ==
  /\ accept \in {"error", "aborted"}
  /\ ~StoppedBySignal
  /\ StartAccept(connections, op)
  /\ UNCHANGED <<acceptor_open, signals, connections, open, op, result>>

\* handle_stop: close the acceptor, then connection_manager::stop_all().
HandleStop ==
  /\ signals = "raised"
  /\ signals' = "handled"
  /\ acceptor_open' = FALSE
  /\ accept' = IF accept = "pending" THEN "aborted" ELSE accept
  /\ open' = [c \in Conns |-> open[c] /\ c \notin connections]
  /\ result' \in [Conns -> Results \cup {"none"}]
  /\ \A c \in Conns :
       result'[c] \in IF c \in connections THEN ResultsAfterClose(c) ELSE {result[c]}
  /\ connections' = {}
  /\ UNCHANGED <<new_connection, op>>

\* handle_read when the parser knows: the reply, or the 400, is written.
HandleReadReply(c) ==
  /\ op[c] = "read" /\ result[c] = "ok"
  /\ op' = [op EXCEPT ![c] = "write"]
  /\ result' = [result EXCEPT ![c] = Started(c)]
  /\ UNCHANGED <<acceptor_open, accept, signals, new_connection, connections, open>>

\* handle_read when the parser needs more input.
HandleReadMore(c) ==
  /\ op[c] = "read" /\ result[c] = "ok"
  /\ result' = [result EXCEPT ![c] = Started(c)]
  /\ UNCHANGED <<acceptor_open, accept, signals, new_connection, connections, open, op>>

\* handle_write without an error, or either handler with one: the manager stops
\* the connection.
HandleLast(c) ==
  /\ \/ op[c] = "write" /\ result[c] = "ok"
     \/ result[c] = "error"
  /\ op' = [op EXCEPT ![c] = "none"]
  /\ result' = [result EXCEPT ![c] = "none"]
  /\ ManagerStop(c)
  /\ UNCHANGED <<acceptor_open, accept, signals, new_connection>>

\* handle_read or handle_write with operation_aborted: whoever closed the socket
\* has removed the connection.
HandleAborted(c) ==
  /\ result[c] = "aborted"
  /\ op' = [op EXCEPT ![c] = "none"]
  /\ result' = [result EXCEPT ![c] = "none"]
  /\ UNCHANGED <<acceptor_open, accept, signals, new_connection, connections, open>>

HandleOp(c) ==
  HandleReadReply(c) \/ HandleReadMore(c) \/ HandleLast(c) \/ HandleAborted(c)

\* io_context::run() has no operation left to wait for.
RunReturned ==
  /\ accept = "none"
  /\ signals = "handled"
  /\ \A c \in Conns : op[c] = "none"

Terminated == RunReturned /\ UNCHANGED vars

Next ==
  \/ SignalArrives
  \/ AcceptFinishes
  \/ HandleAcceptAfterStop
  \/ HandleAccept
  \/ HandleAcceptError
  \/ HandleStop
  \/ \E c \in Conns : OpFinishes(c) \/ HandleOp(c)
  \/ Terminated

Spec == Init /\ [][Next]_vars

\* run() executes every handler that is ready; a write finishes or fails.
\* Nothing makes a client connect or send, and no signal need arrive.
Fairness ==
  /\ WF_vars(HandleStop)
  /\ WF_vars(HandleAccept \/ HandleAcceptError \/ HandleAcceptAfterStop)
  /\ \A c \in Conns : /\ WF_vars(HandleOp(c))
                      /\ WF_vars(op[c] = "write" /\ OpFinishes(c))

FairSpec == Spec /\ Fairness

-----------------------------------------------------------------------------
(* Safety.                                                                 *)

\* "While the server is running, there is always at least one asynchronous
\* operation outstanding: the asynchronous accept call" (server.cpp:52-54), so
\* run() does not return before a stop, and a connection waits in it that no one
\* else uses.
AcceptIsOutstanding ==
  acceptor_open =>
    /\ accept # "none"
    /\ new_connection \in Free(connections, op)

\* The manager holds exactly the connections that have an operation outstanding
\* on an open socket: none is forgotten in the set after its last handler, and
\* none runs that a stop would miss.
ManagerHoldsTheLiveOnes ==
  /\ \A c \in connections : open[c] /\ op[c] # "none"
  /\ acceptor_open => \A c \in Conns : op[c] # "none" => c \in connections

\* After handle_stop the manager is empty for good, and whatever is still
\* outstanding has its result: an accept that had succeeded, a read that had
\* data when the socket was closed, or the write such a read went on to start.
StopReachesEverything ==
  ~acceptor_open =>
    /\ connections = {}
    /\ accept # "pending"
    /\ \A c \in Conns : op[c] # "none" => ~open[c] /\ result[c] # "pending"

-----------------------------------------------------------------------------
(* The server implements ServerLifecycle.                                  *)

Live == {c \in Conns : op[c] # "none"}

Stage ==
  IF acceptor_open THEN "running"
  ELSE IF RunReturned THEN "returned" ELSE "stopping"

Lifecycle == INSTANCE ServerLifecycle WITH stage <- Stage, live <- Live

\* Connections come only while the server runs.  "Once all operations have finished
\* the io_context::run() call will exit" (server.cpp:89-91): a stop is followed by
\* the return of run() with no connection left, whatever the clients do.
ImplementsLifecycle == Lifecycle!Spec
=============================================================================
