------------------------- MODULE HttpServer2Proofs -------------------------
(***************************************************************************)
(* Theorems about HttpServer2, for every size of the pool above 0 and      *)
(* every set of connections.                                               *)
(***************************************************************************)
EXTENDS HttpServer2, TLAPS

-----------------------------------------------------------------------------
(* The round robin.                                                        *)

\* get_io_context() stays in the pool.
LEMMA SuccessorType ==
  ASSUME NEW i \in Contexts
  PROVE  Successor(i) \in Contexts
BY HttpServer2Assumption DEF Successor, Contexts

\* The constructor's three calls of get_io_context() stay in the pool.
LEMMA FirstContexts ==
  /\ SignalContext \in Contexts
  /\ AcceptContext \in Contexts
  /\ FirstContext \in Contexts
  /\ Successor(FirstContext) \in Contexts
<1>1. SignalContext \in Contexts
  BY HttpServer2Assumption DEF SignalContext, Contexts
<1>. QED  BY <1>1, SuccessorType DEF AcceptContext, FirstContext

\* The io_contexts before the next one are one object ahead of the others.
LeadBefore(k) == [i \in Contexts |-> IF i < k THEN 1 ELSE 0]

\* Giving the next io_context an object keeps that shape: the last one of a
\* round brings all of them level again.
LEMMA LeadRound ==
  ASSUME NEW k \in Contexts
  PROVE  LeadAfter(LeadBefore(k), k) = LeadBefore(Successor(k))
<1> DEFINE more == [LeadBefore(k) EXCEPT ![k] = @ + 1]
<1>1. /\ k \in Int /\ N \in Int /\ 0 <= k /\ k < N
      /\ \A j \in Contexts : j \in Int /\ 0 <= j /\ j < N
  BY HttpServer2Assumption DEF Contexts
<1>2. \A j \in Contexts : more[j] = IF j < k + 1 THEN 1 ELSE 0
  BY <1>1 DEF LeadBefore
<1>3. more = [j \in Contexts |-> IF j < k + 1 THEN 1 ELSE 0]
  BY <1>2 DEF LeadBefore
<1>4. CASE k + 1 = N
  <2>1. \A j \in Contexts : more[j] = 1
    BY <1>1, <1>2, <1>4
  <2>2. LeadAfter(LeadBefore(k), k) = [j \in Contexts |-> 0]
    BY <2>1 DEF LeadAfter
  <2>3. LeadBefore(Successor(k)) = [j \in Contexts |-> 0]
    BY <1>1, <1>4 DEF LeadBefore, Successor
  <2>. QED  BY <2>2, <2>3
<1>5. CASE k + 1 # N
  <2>1. k + 1 \in Contexts /\ more[k + 1] = 0
    BY <1>1, <1>2, <1>5 DEF Contexts
  <2>2. LeadAfter(LeadBefore(k), k) = more
    BY <2>1 DEF LeadAfter
  <2>3. LeadBefore(Successor(k)) = [j \in Contexts |-> IF j < k + 1 THEN 1 ELSE 0]
    BY <1>5 DEF LeadBefore, Successor
  <2>. QED  BY <1>3, <2>2, <2>3
<1>. QED  BY <1>4, <1>5

-----------------------------------------------------------------------------
(* The inductive invariant.                                                *)

\* Where the round robin stands tells which io_contexts are ahead.
LeadFollowsNext == lead = LeadBefore(next_io_context)

\* io_context_pool::stop() is called by handle_stop only.
StoppingAfterSignal ==
  thread[SignalContext] = "stopping" => signals = "handled"

\* The inductive invariant.
IInv ==
  /\ TypeOK
  /\ LeadFollowsNext
  /\ StoppingAfterSignal
  /\ RunsUntilStopped
  /\ AcceptIsOutstanding

\* The server starts in the invariant, with its first three io_contexts given
\* away and an accept outstanding.
LEMMA InitIInv == Init => IInv
<1> SUFFICES ASSUME Init PROVE IInv
  OBVIOUS
<1>1. LeadFollowsNext
  BY DEF Init, LeadFollowsNext, LeadBefore
<1>2. TypeOK
  <2>1. lead \in [Contexts -> Nat]
    BY <1>1 DEF LeadFollowsNext, LeadBefore
  <2>2. 0 \in 0..N
    BY HttpServer2Assumption
  <2>. QED  BY <2>1, <2>2, FirstContexts DEF Init, TypeOK, Results
<1>3. RunsUntilStopped /\ AcceptIsOutstanding
  BY FirstContexts DEF Init, RunsUntilStopped, AcceptIsOutstanding
<1>4. StoppingAfterSignal
  BY FirstContexts DEF Init, StoppingAfterSignal
<1>. QED  BY <1>1, <1>2, <1>3, <1>4 DEF IInv

\* main() creates and joins threads, and changes nothing else.
LEMMA MainStep == IInv /\ (CreateThread \/ JoinThread) => IInv'
<1> SUFFICES ASSUME IInv, CreateThread \/ JoinThread PROVE IInv'
  OBVIOUS
<1>1. created' \in 0..N /\ joined' \in 0..N
  BY HttpServer2Assumption DEF IInv, TypeOK, CreateThread, JoinThread
<1>2. TypeOK'
  BY <1>1 DEF IInv, TypeOK, CreateThread, JoinThread, handing, conns
<1>3. /\ LeadFollowsNext' /\ StoppingAfterSignal'
      /\ RunsUntilStopped' /\ AcceptIsOutstanding'
  BY DEF IInv, CreateThread, JoinThread, handing, conns, LeadFollowsNext,
         LeadBefore, StoppingAfterSignal, RunsUntilStopped, AcceptIsOutstanding
<1>. QED  BY <1>2, <1>3 DEF IInv

\* What the system reports is a result; the accept stays outstanding until its
\* handler has run.
LEMMA SystemStep ==
  ASSUME IInv,
         SignalArrives \/ AcceptFinishes \/ \E c \in Conns : OpFinishes(c)
  PROVE  IInv'
<1>1. TypeOK'
  BY DEF IInv, TypeOK, Results, SignalArrives, AcceptFinishes, OpFinishes, pool,
         handing, conns
<1>2. LeadFollowsNext' /\ AcceptIsOutstanding'
  BY DEF IInv, SignalArrives, AcceptFinishes, OpFinishes, pool, handing, conns,
         LeadFollowsNext, LeadBefore, AcceptIsOutstanding
<1>3. signals = "handled" => signals' = "handled"
  BY DEF SignalArrives, AcceptFinishes, OpFinishes
<1>4. StoppingAfterSignal' /\ RunsUntilStopped'
  BY <1>3 DEF IInv, SignalArrives, AcceptFinishes, OpFinishes, pool,
         StoppingAfterSignal, RunsUntilStopped
<1>. QED  BY <1>1, <1>2, <1>4 DEF IInv

\* handle_accept, up to start_accept(): the accept is about to be started again.
LEMMA AcceptStep == IInv /\ HandleAccept => IInv'
<1> SUFFICES ASSUME IInv, HandleAccept PROVE IInv'
  OBVIOUS
<1> USE FirstContexts
<1>1. TypeOK'
  BY DEF IInv, TypeOK, Results, HandleAccept, AfterAccept, pool, handing
<1>2. LeadFollowsNext'
  BY DEF IInv, HandleAccept, handing, LeadFollowsNext, LeadBefore
<1>3. thread'[AcceptContext] = "accepting"
  BY DEF IInv, TypeOK, HandleAccept, AfterAccept
<1>4. StoppingAfterSignal' /\ RunsUntilStopped' /\ AcceptIsOutstanding'
  BY <1>3 DEF IInv, TypeOK, HandleAccept, AfterAccept, pool, StoppingAfterSignal,
              RunsUntilStopped, AcceptIsOutstanding
<1>. QED  BY <1>1, <1>2, <1>4 DEF IInv

\* start_accept() gives a connection no handler uses to the next io_context.
LEMMA StartAcceptStep == IInv /\ StartAccept => IInv'
<1> SUFFICES ASSUME IInv, StartAccept PROVE IInv'
  OBVIOUS
<1> USE FirstContexts
<1>1. /\ next_io_context' \in Contexts
      /\ LeadFollowsNext'
  BY SuccessorType, LeadRound
     DEF IInv, TypeOK, StartAccept, LeadFollowsNext
<1>2. lead' \in [Contexts -> Nat]
  BY <1>1 DEF LeadFollowsNext, LeadBefore
<1>3. TypeOK'
  BY <1>1, <1>2 DEF IInv, TypeOK, Results, StartAccept, pool
<1>4. AcceptIsOutstanding'
  BY DEF IInv, TypeOK, StartAccept, AcceptIsOutstanding
<1>5. StoppingAfterSignal' /\ RunsUntilStopped'
  BY DEF IInv, TypeOK, StartAccept, pool, StoppingAfterSignal, RunsUntilStopped
<1>. QED  BY <1>1, <1>3, <1>4, <1>5 DEF IInv

\* A handler of a connection leaves the one that waits in async_accept alone.
LEMMA OpStep ==
  ASSUME IInv, NEW c \in Conns, HandleOp(c)
  PROVE  IInv'
<1>1. TypeOK'
  BY DEF IInv, TypeOK, Results, HandleOp, HandleReadReply, HandleReadMore,
         HandleLast, pool, handing
<1>2. LeadFollowsNext' /\ StoppingAfterSignal' /\ RunsUntilStopped'
  BY DEF IInv, HandleOp, HandleReadReply, HandleReadMore, HandleLast, pool,
         handing, LeadFollowsNext, LeadBefore, StoppingAfterSignal,
         RunsUntilStopped
<1>3. AcceptIsOutstanding'
  <2>1. op[c] # "none"
    BY DEF IInv, TypeOK, HandleOp, HandleReadReply, HandleReadMore, HandleLast
  <2>2. \A d \in Conns \ {c} : op'[d] = op[d]
    BY DEF IInv, TypeOK, HandleOp, HandleReadReply, HandleReadMore, HandleLast
  <2>. QED  BY <2>1, <2>2 DEF IInv, TypeOK, HandleOp, HandleReadReply,
                 HandleReadMore, HandleLast, AcceptIsOutstanding
<1>. QED  BY <1>1, <1>2, <1>3 DEF IInv

\* handle_stop begins the stop, and stops the io_contexts one by one.
LEMMA StopStep == IInv /\ (HandleStop \/ StopOne) => IInv'
<1> SUFFICES ASSUME IInv, HandleStop \/ StopOne PROVE IInv'
  OBVIOUS
<1> USE FirstContexts
<1>1. CASE HandleStop
  <2>1. to_stop' \in 0..N
    BY <1>1, HttpServer2Assumption DEF HandleStop, StopsFrom
  <2>2. TypeOK'
    BY <1>1, <2>1 DEF IInv, TypeOK, HandleStop, handing, conns
  <2>3. LeadFollowsNext' /\ StoppingAfterSignal' /\ RunsUntilStopped'
    BY <1>1 DEF IInv, TypeOK, HandleStop, handing, LeadFollowsNext, LeadBefore,
                StoppingAfterSignal, RunsUntilStopped
  <2>4. AcceptIsOutstanding'
    BY <1>1 DEF IInv, TypeOK, HandleStop, MayRun, conns, AcceptIsOutstanding
  <2>. QED  BY <2>2, <2>3, <2>4 DEF IInv
<1>2. CASE StopOne
  <2>1. to_stop' \in 0..N /\ stopped' \subseteq Contexts
    <3>1. to_stop < N => to_stop \in Contexts /\ to_stop + 1 \in 0..N
      BY HttpServer2Assumption DEF IInv, TypeOK, Contexts
    <3>. QED  BY <1>2, <3>1 DEF IInv, TypeOK, StopOne
  <2>2. TypeOK'
    BY <1>2, <2>1 DEF IInv, TypeOK, StopOne, handing, conns
  <2>3. LeadFollowsNext' /\ StoppingAfterSignal'
    BY <1>2 DEF IInv, TypeOK, StopOne, handing, LeadFollowsNext, LeadBefore,
                StoppingAfterSignal
  <2>4. RunsUntilStopped'
    BY <1>2 DEF IInv, TypeOK, StopOne, StoppingAfterSignal, RunsUntilStopped
  <2>5. AcceptIsOutstanding'
    BY <1>2 DEF IInv, TypeOK, StopOne, conns, AcceptIsOutstanding
  <2>. QED  BY <2>2, <2>3, <2>4, <2>5 DEF IInv
<1>. QED  BY <1>1, <1>2

\* A thread ends because its io_context was stopped: each has tracked work.
LEMMA ReturnStep ==
  ASSUME IInv, NEW i \in Contexts, ThreadReturns(i)
  PROVE  IInv'
<1> USE FirstContexts
<1>1. i \in stopped
  BY DEF ThreadReturns, Tracked
<1>2. TypeOK'
  BY DEF IInv, TypeOK, ThreadReturns, pool, handing, conns
<1>3. LeadFollowsNext' /\ StoppingAfterSignal'
  BY DEF IInv, TypeOK, ThreadReturns, handing, LeadFollowsNext, LeadBefore,
         StoppingAfterSignal
<1>4. RunsUntilStopped'
  BY <1>1 DEF IInv, TypeOK, ThreadReturns, pool, RunsUntilStopped
<1>5. AcceptIsOutstanding'
  BY DEF IInv, TypeOK, ThreadReturns, conns, AcceptIsOutstanding
<1>. QED  BY <1>2, <1>3, <1>4, <1>5 DEF IInv

\* Every step keeps the invariant.
LEMMA IInvStep == IInv /\ [Next]_vars => IInv'
<1> SUFFICES ASSUME IInv, [Next]_vars PROVE IInv'
  OBVIOUS
<1>1. CASE vars' = vars
  BY <1>1 DEF vars, pool, handing, conns, IInv, TypeOK, LeadFollowsNext,
              LeadBefore, StoppingAfterSignal, RunsUntilStopped,
              AcceptIsOutstanding
<1>2. CASE Next
  BY <1>1, <1>2, MainStep, SystemStep, AcceptStep, StartAcceptStep, OpStep,
     StopStep, ReturnStep DEF Next, Terminated
<1>. QED  BY <1>1, <1>2

-----------------------------------------------------------------------------
(* The theorems.                                                           *)

\* The inductive invariant holds in every reachable state.
THEOREM Invariance == Spec => []IInv
BY InitIInv, IInvStep, PTL DEF Spec

\* Type correctness: the round robin's index stays in the pool, and every
\* connection has a result exactly when it has an operation.
THEOREM TypeCorrect == Spec => []TypeOK
BY Invariance, PTL DEF IInv

\* get_io_context() spreads the objects evenly over any number of io_contexts.
THEOREM RoundRobinCorrect == Spec => []Balanced
<1>1. IInv => Balanced
  BY DEF IInv, LeadFollowsNext, LeadBefore, Balanced
<1>. QED  BY <1>1, Invariance, PTL

\* The threads of the pool run until handle_stop has stopped their io_contexts.
THEOREM PoolRunsCorrect == Spec => []RunsUntilStopped
BY Invariance, PTL DEF IInv

\* The accept loop never ends, and no connection is accepted into that is in use.
THEOREM AcceptCorrect == Spec => []AcceptIsOutstanding
BY Invariance, PTL DEF IInv

\* No step touches a connection once every io_context is stopped.
LEMMA FrozenStep ==
  IInv /\ [Next]_vars =>
    (stopped = Contexts =>
       /\ op' = op /\ signals' = signals
       /\ accept' = "none" => accept = "none")
<1> SUFFICES ASSUME IInv, [Next]_vars, stopped = Contexts
             PROVE  /\ op' = op /\ signals' = signals
                    /\ accept' = "none" => accept = "none"
  OBVIOUS
<1>1. signals = "handled"
  BY FirstContexts DEF IInv, RunsUntilStopped
<1>2. \A i \in Contexts : ~MayRun(i)
  BY DEF MayRun
<1>3. ~HandleAccept /\ ~HandleStop /\ \A c \in Conns : ~HandleOp(c)
  BY <1>2, FirstContexts
     DEF IInv, TypeOK, HandleAccept, HandleStop, HandleOp, HandleReadReply,
         HandleReadMore, HandleLast
<1>4. CASE vars' = vars
  BY <1>4 DEF vars, conns
<1>5. CASE Next
  BY <1>1, <1>3, <1>4, <1>5
     DEF Next, CreateThread, JoinThread, SignalArrives, AcceptFinishes, StartAccept,
         OpFinishes, StopOne, ThreadReturns, Terminated, conns
<1>. QED  BY <1>4, <1>5

\* A stop is final on every connection of every io_context.
THEOREM StopCorrect == Spec => StoppedForGood
<1>1. IInv /\ [Next]_vars =>
        [stopped = Contexts =>
           /\ op' = op /\ signals' = signals
           /\ accept' = "none" => accept = "none"]_vars
  BY FrozenStep
<1>. QED  BY <1>1, Invariance, PTL DEF Spec, StoppedForGood
=============================================================================
