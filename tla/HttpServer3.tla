---------------------------- MODULE HttpServer3 ----------------------------
(***************************************************************************)
(* cpp_03_example/boost_http_server_3/server.cpp: one class is the accept  *)
(* loop and the connections, as a stackless coroutine that is copied.  The *)
(* handler of every outstanding operation is a copy of the coroutine, with *)
(* its own point of resumption and shared_ptrs to the socket, the buffer,  *)
(* the request and the reply.  One thread runs all of them, and main()     *)
(* waits for a signal, whose handler is io_context::stop().                *)
(***************************************************************************)
EXTENDS FiniteSets

CONSTANTS Sockets,   \* bound: the sockets that exist at one time
          Objects,   \* bound: the sets of buffer, request and reply, likewise
          NoObjects  \* buffer_, request_ and reply_ have not been made

ASSUME HttpServer3Assumption == NoObjects \notin Objects

VARIABLES
  coroutines,  \* the copies that wait for an operation
  signals      \* main()'s async_wait

vars == <<coroutines, signals>>

\* at: the yield the coroutine waits in; result: what its operation will report.
Coroutine ==
  [at : {"accept", "read", "write"},
   socket : Sockets,
   objects : Objects \cup {NoObjects},
   result : {"pending", "ok", "error"}]

\* Every coroutine that waits has a socket and a point of resumption, and it has
\* made its objects exactly when it has left the accept loop.
TypeOK ==
  /\ coroutines \subseteq Coroutine
  /\ signals \in {"waiting", "raised", "handled"}
  /\ \A k \in coroutines : k.at = "accept" <=> k.objects = NoObjects

-----------------------------------------------------------------------------
(* The steps of the coroutine, and, before them, the faults a change of    *)
(* that code might bring, to try the properties with: no action uses one.  *)

FreeSockets == {s \in Sockets : \A k \in coroutines : k.socket # s}
FreeObjects == {o \in Objects : \A k \in coroutines : k.objects # o}

Waiting(at, s, o) == [at |-> at, socket |-> s, objects |-> o, result |-> "pending"]

\* Fault: the socket is made before the loop, once.
NotReset(k, s) == k.socket

\* socket_.reset(new ...), at the beginning of each turn of the loop.
NextSocket(k, s) == s

\* The objects the child makes when it has left the loop.
Made(o) == o

\* Fault: only the child goes on after the fork.
ChildOnly(k, s, o) == {Waiting("read", k.socket, Made(o))}

\* fork: the child runs until it waits for data, then the parent makes the next
\* socket s and accepts again.
Forked(k, s, o) ==
  {Waiting("read", k.socket, Made(o)),
   Waiting("accept", NextSocket(k, s), k.objects)}

\* After the reply the coroutine comes to its end.
AfterReply(k) == {}

\* io_context::stop() has made run() return.  Without it run() goes on, since the
\* wait for the signal is outstanding, even when no coroutine is left.
RunReturned == signals = "handled"

-----------------------------------------------------------------------------
\* The first call of operator(), from main(), and then the wait for a signal.
Init ==
  /\ \E s \in Sockets : coroutines = {Waiting("accept", s, NoObjects)}
  /\ signals = "waiting"

\* The operation of k finishes.  A client connects if the bounds leave a socket
\* and objects for it.
Finishes(k) ==
  /\ k.result = "pending" /\ ~RunReturned
  /\ \E r \in {"ok", "error"} :
       /\ k.at = "accept" /\ r = "ok" => FreeSockets # {} /\ FreeObjects # {}
       /\ coroutines' = (coroutines \ {k}) \cup {[k EXCEPT !.result = r]}
  /\ UNCHANGED signals

\* operator() without an error, resumed in the accept loop.
ResumeAccept(k) ==
  /\ k.result = "ok" /\ k.at = "accept"
  /\ \E s \in FreeSockets, o \in FreeObjects :
       coroutines' = (coroutines \ {k}) \cup Forked(k, s, o)

\* Resumed with data: the request is not complete.
ResumeReadMore(k) ==
  /\ k.result = "ok" /\ k.at = "read"
  /\ coroutines' = (coroutines \ {k}) \cup {Waiting("read", k.socket, k.objects)}

\* Resumed with data: the parser has its verdict, and the reply is written.
ResumeReadReply(k) ==
  /\ k.result = "ok" /\ k.at = "read"
  /\ coroutines' = (coroutines \ {k}) \cup {Waiting("write", k.socket, k.objects)}

\* Resumed when the reply has been written.
ResumeWrite(k) ==
  /\ k.result = "ok" /\ k.at = "write"
  /\ coroutines' = (coroutines \ {k}) \cup AfterReply(k)

\* "If an error occurs then the coroutine is not reentered": that ends the
\* connection, and the accept loop too.
NotReentered(k) ==
  /\ k.result = "error"
  /\ coroutines' = coroutines \ {k}

Resume(k) ==
  /\ ~RunReturned
  /\ \/ ResumeAccept(k)
     \/ ResumeReadMore(k) \/ ResumeReadReply(k)
     \/ ResumeWrite(k)
     \/ NotReentered(k)
  /\ UNCHANGED signals

SignalArrives ==
  /\ signals = "waiting"
  /\ signals' = "raised"
  /\ UNCHANGED coroutines

\* The coroutines that wait are destroyed with the io_context, and none of them is
\* resumed.
HandleStop ==
  /\ signals = "raised"
  /\ signals' = "handled"
  /\ coroutines' = {}

\* main() has returned.
Terminated == RunReturned /\ UNCHANGED vars

Next ==
  \/ \E k \in coroutines : Finishes(k) \/ Resume(k)
  \/ SignalArrives \/ HandleStop
  \/ Terminated

Spec == Init /\ [][Next]_vars

-----------------------------------------------------------------------------
(* Safety.                                                                 *)

\* After every fork each socket, buffer, request and reply belongs to one
\* coroutine alone: the parent lets go of the socket before it accepts into
\* another, and the child makes its objects after the fork.
NothingShared ==
  \A k, l \in coroutines :
    k.socket = l.socket \/ (k.objects = l.objects /\ k.objects # NoObjects) => k = l

AcceptLoop == {k \in coroutines : k.at = "accept"}

\* After a fork the parent goes on accepting and the child does not: one coroutine
\* accepts, never two.
OneListener == \A k, l \in AcceptLoop : k = l

\* fork leaves two coroutines that go on independently of each other.
ForksApart == TypeOK /\ NothingShared /\ OneListener

-----------------------------------------------------------------------------
(* Until the signal, the coroutines implement the safety of                *)
(* ServerLifecycle, where the stop is the first accept that fails.         *)

Live == {k.socket : k \in {l \in coroutines : l.at # "accept"}}

\* "returned": no coroutine is left, and the program does nothing any more but
\* wait for the signal.
Stage ==
  IF coroutines = {} THEN "returned"
  ELSE IF \E k \in AcceptLoop : k.result # "error" THEN "running" ELSE "stopping"

Lifecycle == INSTANCE ServerLifecycle WITH
  Conns <- Sockets, stage <- Stage, live <- Live

\* Connections come one at a time, and only until an accept fails; from then on
\* those there are go on to their ends, and no error of theirs touches another one
\* or the accept loop.
ImplementsLifecycle ==
  Lifecycle!Init /\ [][RunReturned' \/ Lifecycle!Next]_(Lifecycle!vars)
=============================================================================
