---------------------------- MODULE HttpServer2 ----------------------------
(***************************************************************************)
(* cpp_03_example/boost_http_server_2/src: a pool of io_contexts with one  *)
(* thread each, the accept loop that hands connections to them in turn,    *)
(* and the stop.  Handlers of one io_context run one after the other,      *)
(* those of different ones at the same time: a handler that only touches   *)
(* its own connection is one step, handle_accept and handle_stop, which    *)
(* reach into other io_contexts, take several.                             *)
(***************************************************************************)
EXTENDS Integers, FiniteSets

CONSTANTS N,       \* io_context_pool_size
          Conns    \* bound: the connection objects that exist at one time

\* The constructor of io_context_pool refuses a pool of size 0.
ASSUME HttpServer2Assumption == N \in Nat /\ N > 0

Contexts == 0..N-1

VARIABLES
  next_io_context,  \* io_context_pool::next_io_context_
  created, joined,  \* io_context_pool::run(): threads created, threads joined
  thread,           \* thread[i]: what the thread of io_context i does
  to_stop,          \* io_context_pool::stop(): the loop's index
  stopped,          \* the io_contexts that stop() was called on
  signals,          \* the async_wait on server::signals_
  accept,           \* the outstanding async_accept
  new_connection,   \* server::new_connection_
  context,          \* context[c]: the io_context of c's socket
  op,               \* op[c]: c's outstanding operation
  result,           \* result[c]: what op[c] will report, once it is known
  lead              \* history: lead[i]: how many objects more than the least
                    \* used io_context i was given by get_io_context()

pool == <<created, joined, to_stop, stopped>>
handing == <<next_io_context, lead>>
conns == <<context, op, result>>
vars == <<pool, handing, conns, thread, signals, accept, new_connection>>

Results == {"none", "pending", "ok", "error"}

\* Every variable has its type; a connection has a result, known or pending,
\* exactly when it has an operation.
TypeOK ==
  /\ next_io_context \in Contexts
  /\ created \in 0..N /\ joined \in 0..N
  /\ thread \in [Contexts -> {"idle", "accepting", "stopping", "returned"}]
  /\ to_stop \in 0..N
  /\ stopped \subseteq Contexts
  /\ signals \in {"waiting", "raised", "handled"}
  /\ accept \in Results
  /\ new_connection \in Conns
  /\ context \in [Conns -> Contexts]
  /\ op \in [Conns -> {"none", "read", "write"}]
  /\ result \in [Conns -> Results]
  /\ lead \in [Contexts -> Nat]
  /\ \A c \in Conns : op[c] = "none" <=> result[c] = "none"

-----------------------------------------------------------------------------
(* The steps the handlers share, and, before each of them, the faults a    *)
(* change of that code might bring, to try the properties with: no action  *)
(* uses one.                                                               *)

\* Fault: it starts again where the acceptor is.
SuccessorFromOne(i) == IF i + 1 = N THEN 1 % N ELSE i + 1

\* get_io_context()'s round robin.
Successor(i) == IF i + 1 = N THEN 0 ELSE i + 1

\* The server's constructor asks for the signals' io_context, then for the
\* acceptor's, then for that of the first connection.
SignalContext == 0
AcceptContext == Successor(SignalContext)
FirstContext == Successor(AcceptContext)

\* lead, after io_context i was given one more object.
LeadAfter(l, i) ==
  LET more == [l EXCEPT ![i] = @ + 1]
  IN  IF \A j \in Contexts : more[j] > 0
      THEN [j \in Contexts |-> more[j] - 1] ELSE more

\* Fault: nothing keeps an io_context at work that has no operation.
NothingTracked == {}

\* The io_contexts whose outstanding_work.tracked executor work_ holds: all, for
\* good.
Tracked == Contexts

\* An operation of io_context i is outstanding.
HasOperation(i) ==
  \/ i = SignalContext /\ signals # "handled"
  \/ i = AcceptContext /\ accept # "none"
  \/ \E c \in Conns : op[c] # "none" /\ context[c] = i

\* The thread of io_context i may take the next handler.
MayRun(i) == i < created /\ thread[i] = "idle" /\ i \notin stopped

\* Fault: the loop begins with the second one.
FirstToStop == 1

\* Where the loop in io_context_pool::stop() begins.
StopsFrom == 0

\* After the result r, handle_accept goes on to start_accept().
AfterAccept(r) == "accepting"

-----------------------------------------------------------------------------
Init ==
  /\ next_io_context = Successor(FirstContext)
  /\ lead = [i \in Contexts |-> IF i < next_io_context THEN 1 ELSE 0]
  /\ created = 0 /\ joined = 0
  /\ thread = [i \in Contexts |-> "idle"]
  /\ to_stop = 0 /\ stopped = {}
  /\ signals = "waiting"
  /\ accept = "pending"
  /\ new_connection \in Conns
  /\ context = [c \in Conns |-> FirstContext]
  /\ op = [c \in Conns |-> "none"]
  /\ result = [c \in Conns |-> "none"]

(* The main thread, in io_context_pool::run().                             *)

CreateThread ==
  /\ created < N
  /\ created' = created + 1
  /\ UNCHANGED <<joined, to_stop, stopped, handing, conns, thread, signals, accept,
                 new_connection>>

JoinThread ==
  /\ created = N /\ joined < N
  /\ thread[joined] = "returned"
  /\ joined' = joined + 1
  /\ UNCHANGED <<created, to_stop, stopped, handing, conns, thread, signals, accept,
                 new_connection>>

(* The system.                                                             *)

SignalArrives ==
  /\ signals = "waiting"
  /\ signals' = "raised"
  /\ UNCHANGED <<pool, handing, conns, thread, accept, new_connection>>

\* A client connects (if the bound leaves an object for the next accept), or
\* accept fails.
AcceptFinishes ==
  /\ accept = "pending"
  /\ \/ accept' = "ok" /\ \E c \in Conns \ {new_connection} : op[c] = "none"
     \/ accept' = "error"
  /\ UNCHANGED <<pool, handing, conns, thread, signals, new_connection>>

OpFinishes(c) ==
  /\ result[c] = "pending"
  /\ \E r \in {"ok", "error"} : result' = [result EXCEPT ![c] = r]
  /\ UNCHANGED <<pool, handing, context, op, thread, signals, accept, new_connection>>

(* The threads of the pool.                                                *)

\* handle_accept: without an error the connection starts to read, and from now on
\* its handlers may run on another thread.
HandleAccept ==
  /\ MayRun(AcceptContext)
  /\ accept \in {"ok", "error"}
  /\ accept' = "none"
  /\ thread' = [thread EXCEPT ![AcceptContext] = AfterAccept(accept)]
  /\ IF accept = "ok"
     THEN /\ op' = [op EXCEPT ![new_connection] = "read"]
          /\ result' = [result EXCEPT ![new_connection] = "pending"]
     ELSE UNCHANGED <<op, result>>
  /\ UNCHANGED <<pool, handing, context, signals, new_connection>>

\* The rest of handle_accept, start_accept(): a new connection on the io_context
\* whose turn it is.
StartAccept ==
  /\ thread[AcceptContext] = "accepting"
  /\ \E c \in Conns :
       /\ op[c] = "none"
       /\ new_connection' = c
       /\ context' = [context EXCEPT ![c] = next_io_context]
  /\ next_io_context' = Successor(next_io_context)
  /\ lead' = LeadAfter(lead, next_io_context)
  /\ accept' = "pending"
  /\ thread' = [thread EXCEPT ![AcceptContext] = "idle"]
  /\ UNCHANGED <<pool, op, result, signals>>

\* handle_read when the parser knows: the reply, or the 400, is written.
HandleReadReply(c) ==
  /\ MayRun(context[c])
  /\ op[c] = "read" /\ result[c] = "ok"
  /\ op' = [op EXCEPT ![c] = "write"]
  /\ result' = [result EXCEPT ![c] = "pending"]
  /\ UNCHANGED <<pool, handing, context, thread, signals, accept, new_connection>>

\* handle_read when the parser needs more input.
HandleReadMore(c) ==
  /\ MayRun(context[c])
  /\ op[c] = "read" /\ result[c] = "ok"
  /\ result' = [result EXCEPT ![c] = "pending"]
  /\ UNCHANGED <<pool, handing, context, op, thread, signals, accept, new_connection>>

\* handle_write, or either handler with an error: no operation is started, and
\* the connection is destroyed with its last shared_ptr.
HandleLast(c) ==
  /\ MayRun(context[c])
  /\ \/ op[c] = "write" /\ result[c] = "ok"
     \/ result[c] = "error"
  /\ op' = [op EXCEPT ![c] = "none"]
  /\ result' = [result EXCEPT ![c] = "none"]
  /\ UNCHANGED <<pool, handing, context, thread, signals, accept, new_connection>>

HandleOp(c) == HandleReadReply(c) \/ HandleReadMore(c) \/ HandleLast(c)

\* handle_stop begins io_context_pool::stop().
HandleStop ==
  /\ MayRun(SignalContext)
  /\ signals = "raised"
  /\ signals' = "handled"
  /\ thread' = [thread EXCEPT ![SignalContext] = "stopping"]
  /\ to_stop' = StopsFrom
  /\ UNCHANGED <<created, joined, stopped, handing, conns, accept, new_connection>>

\* io_context::stop() on one more io_context; with the last, the handler ends.
StopOne ==
  /\ thread[SignalContext] = "stopping"
  /\ IF to_stop < N
     THEN /\ stopped' = stopped \cup {to_stop}
          /\ to_stop' = to_stop + 1
          /\ UNCHANGED thread
     ELSE /\ thread' = [thread EXCEPT ![SignalContext] = "idle"]
          /\ UNCHANGED <<to_stop, stopped>>
  /\ UNCHANGED <<created, joined, handing, conns, signals, accept, new_connection>>

\* run() returns between two handlers, even if others are ready, or when it has
\* no work.
ThreadReturns(i) ==
  /\ i < created /\ thread[i] = "idle"
  /\ i \in stopped \/ (i \notin Tracked /\ ~HasOperation(i))
  /\ thread' = [thread EXCEPT ![i] = "returned"]
  /\ UNCHANGED <<pool, handing, conns, signals, accept, new_connection>>

\* main() has returned from server::run().
Terminated == joined = N /\ UNCHANGED vars

Next ==
  \/ CreateThread \/ JoinThread
  \/ SignalArrives \/ AcceptFinishes
  \/ HandleAccept \/ StartAccept
  \/ \E c \in Conns : OpFinishes(c) \/ HandleOp(c)
  \/ HandleStop \/ StopOne
  \/ \E i \in Contexts : ThreadReturns(i)
  \/ Terminated

Spec == Init /\ [][Next]_vars

\* Every thread runs, and takes the handlers that are ready.  Nothing makes a
\* client connect or send, and no signal need arrive.
Fairness ==
  /\ WF_vars(CreateThread) /\ WF_vars(JoinThread)
  /\ WF_vars(HandleStop) /\ WF_vars(StopOne)
  /\ SF_vars(HandleAccept) /\ WF_vars(StartAccept)
  /\ \A c \in Conns : SF_vars(HandleOp(c))
  /\ \A i \in Contexts : WF_vars(ThreadReturns(i))

FairSpec == Spec /\ Fairness

-----------------------------------------------------------------------------
(* Safety.                                                                 *)

\* get_io_context() spreads the connections evenly: no io_context was ever given
\* more than one object more than another, although it is called from the
\* constructor and from the acceptor's thread, and after failed accepts too.
Balanced == \A i, j \in Contexts : lead[i] <= lead[j] + 1

\* "Give all the io_contexts work to do so that their run() functions will not
\* exit until they are explicitly stopped" (io_context_pool.cpp:24-25): a thread
\* that is gone has been stopped, however idle it was, so a connection is never
\* handed to an io_context that nobody runs unless the stop has begun.
RunsUntilStopped ==
  /\ \A i \in Contexts : thread[i] = "returned" => i \in stopped
  /\ stopped # {} => signals = "handled"

\* An accept is outstanding or about to be started, on a connection that no
\* handler uses.
AcceptIsOutstanding ==
  thread[AcceptContext] # "accepting" =>
    accept # "none" /\ op[new_connection] = "none"

\* When a stop is over, not even the handlers that are ready are executed: from
\* then on no connection is touched, and the rest is left to the destructors.
StoppedForGood ==
  [][stopped = Contexts =>
       /\ op' = op /\ signals' = signals
       /\ accept' = "none" => accept = "none"]_vars

-----------------------------------------------------------------------------
(* Liveness, under Fairness.                                               *)

\* A signal ends server::run(): the stop reaches each io_context, the one whose
\* thread executes it included, and main() joins every thread, even when the
\* signal comes before the threads have been created.
StopEndsRun == signals = "raised" ~> joined = N
=============================================================================
