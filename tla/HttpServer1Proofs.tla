------------------------- MODULE HttpServer1Proofs -------------------------
(***************************************************************************)
(* Theorems about HttpServer1, for every set of connections.               *)
(***************************************************************************)
EXTENDS HttpServer1, TLAPS

-----------------------------------------------------------------------------
(* The inductive invariant.                                                *)

\* handle_stop runs once, and it is what closes the acceptor.
StoppedOnce == acceptor_open <=> signals # "handled"

\* The connection that waits in async_accept is nobody else's.
NewIsFree == accept # "none" => new_connection \in Free(connections, op)

\* Only handle_stop closes a socket under a pending operation.
AbortedByStop == \A c \in Conns : result[c] = "aborted" => ~acceptor_open

\* The inductive invariant.
IInv ==
  /\ TypeOK
  /\ StoppedOnce
  /\ NewIsFree
  /\ AbortedByStop
  /\ AcceptIsOutstanding
  /\ ManagerHoldsTheLiveOnes
  /\ StopReachesEverything

\* The server starts in the invariant: it waits for a connection and a signal.
LEMMA InitIInv == Init => IInv
  BY DEF Init, IInv, TypeOK, Results, StoppedOnce, NewIsFree, Free, AbortedByStop,
         AcceptIsOutstanding, ManagerHoldsTheLiveOnes, StopReachesEverything

-----------------------------------------------------------------------------
(* One lemma per step of the server.                                       *)

\* A signal changes nothing but itself.
LEMMA SignalStep == IInv /\ SignalArrives => IInv'
  BY DEF IInv, SignalArrives, TypeOK, StoppedOnce, NewIsFree, Free, AbortedByStop,
         AcceptIsOutstanding, ManagerHoldsTheLiveOnes, StopReachesEverything

\* An accept has a result.
LEMMA AcceptFinishesStep == IInv /\ AcceptFinishes => IInv'
  BY DEF IInv, AcceptFinishes, TypeOK, Results, StoppedOnce, NewIsFree, Free,
         AbortedByStop, AcceptIsOutstanding, ManagerHoldsTheLiveOnes,
         StopReachesEverything

\* A read or write has a result.
LEMMA OpFinishesStep ==
  ASSUME IInv, NEW c \in Conns, OpFinishes(c)
  PROVE  IInv'
  BY DEF IInv, OpFinishes, TypeOK, Results, StoppedOnce, NewIsFree, Free, AbortedByStop,
         AcceptIsOutstanding, ManagerHoldsTheLiveOnes, StopReachesEverything

\* The accept that was under way when the server was stopped ends.
LEMMA AcceptAfterStopStep == IInv /\ HandleAcceptAfterStop => IInv'
  BY DEF IInv, HandleAcceptAfterStop, StoppedBySignal, TypeOK, Results, StoppedOnce,
         NewIsFree, Free, AbortedByStop, AcceptIsOutstanding, ManagerHoldsTheLiveOnes,
         StopReachesEverything

\* A new connection is in the manager and reads; another one waits.
LEMMA AcceptStep == IInv /\ HandleAccept => IInv'
  BY DEF IInv, HandleAccept, StoppedBySignal, StartAccept, TypeOK, Results, StoppedOnce,
         NewIsFree, Free, AbortedByStop, AcceptIsOutstanding, ManagerHoldsTheLiveOnes,
         StopReachesEverything

\* After an error another connection waits.
LEMMA AcceptErrorStep == IInv /\ HandleAcceptError => IInv'
  BY DEF IInv, HandleAcceptError, StoppedBySignal, StartAccept, TypeOK, Results,
         StoppedOnce, NewIsFree, Free, AbortedByStop, AcceptIsOutstanding,
         ManagerHoldsTheLiveOnes, StopReachesEverything

\* handle_stop empties the manager and gives every pending operation a result.
LEMMA StopStep == IInv /\ HandleStop => IInv'
<1> SUFFICES ASSUME IInv, HandleStop PROVE IInv'
  OBVIOUS
<1>1. \A c \in Conns : /\ op[c] # "none" <=> c \in connections
                       /\ op[c] # "none" <=> result[c] # "none"
  BY DEF IInv, HandleStop, StoppedOnce, ManagerHoldsTheLiveOnes, TypeOK
<1>2. \A c \in Conns : /\ result'[c] # "pending" /\ (result'[c] = "none" <=> op[c] = "none")
                       /\ op[c] # "none" => ~open'[c]
  BY <1>1 DEF IInv, HandleStop, ResultsAfterClose, TypeOK
<1>3. TypeOK'
  BY <1>2 DEF IInv, HandleStop, TypeOK, Results
<1>4. NewIsFree' /\ StopReachesEverything'
  BY <1>2 DEF IInv, HandleStop, NewIsFree, Free, StopReachesEverything
<1>. QED
  BY <1>2, <1>3, <1>4 DEF IInv, HandleStop, StoppedOnce, AbortedByStop,
                          AcceptIsOutstanding, ManagerHoldsTheLiveOnes, TypeOK

\* The handlers of a connection: it keeps an operation, or leaves the manager.
LEMMA OpStep ==
  ASSUME IInv, NEW c \in Conns, HandleOp(c)
  PROVE  IInv'
<1>1. CASE HandleReadReply(c) \/ HandleReadMore(c)
  BY <1>1 DEF IInv, HandleReadReply, HandleReadMore, Started, TypeOK, Results, StoppedOnce,
              NewIsFree, Free, AbortedByStop, AcceptIsOutstanding,
              ManagerHoldsTheLiveOnes, StopReachesEverything
<1>2. CASE HandleLast(c)
  BY <1>2 DEF IInv, HandleLast, ManagerStop, TypeOK, Results, StoppedOnce, NewIsFree, Free,
              AbortedByStop, AcceptIsOutstanding, ManagerHoldsTheLiveOnes,
              StopReachesEverything
<1>3. CASE HandleAborted(c)
  BY <1>3 DEF IInv, HandleAborted, TypeOK, Results, StoppedOnce, NewIsFree, Free,
              AbortedByStop, AcceptIsOutstanding, ManagerHoldsTheLiveOnes,
              StopReachesEverything
<1>. QED  BY <1>1, <1>2, <1>3 DEF HandleOp

\* Every step of the server preserves the invariant.
LEMMA IInvStep == IInv /\ [Next]_vars => IInv'
<1>1. ASSUME IInv, UNCHANGED vars PROVE IInv'
  BY <1>1 DEF vars, IInv, TypeOK, StoppedOnce, NewIsFree, Free, AbortedByStop,
              AcceptIsOutstanding, ManagerHoldsTheLiveOnes, StopReachesEverything
<1>. QED
  BY <1>1, SignalStep, AcceptFinishesStep, OpFinishesStep, AcceptAfterStopStep, AcceptStep,
     AcceptErrorStep, StopStep, OpStep DEF Next, Terminated

-----------------------------------------------------------------------------
(* The theorems.                                                           *)

\* The inductive invariant holds in every reachable state of the server.
THEOREM Invariance == Spec => []IInv
  BY InitIInv, IInvStep, PTL DEF Spec

\* The state keeps its type, and a connection has an operation as long as it has
\* a result to wait for.
THEOREM TypeCorrect == Spec => []TypeOK
  BY Invariance, PTL DEF IInv

\* The accept loop never ends before a stop: run() has something to wait for.
THEOREM AcceptCorrect == Spec => []AcceptIsOutstanding
  BY Invariance, PTL DEF IInv

\* The manager has every live connection, and no dead one.
THEOREM ManagerCorrect == Spec => []ManagerHoldsTheLiveOnes
  BY Invariance, PTL DEF IInv

\* No connection and no pending operation escapes handle_stop.
THEOREM StopCorrect == Spec => []StopReachesEverything
  BY Invariance, PTL DEF IInv

-----------------------------------------------------------------------------
(* The server implements the safety part of ServerLifecycle; that a stop    *)
(* ends in the return of run() is a liveness property.                      *)

\* The server starts running, with no connection.
LEMMA RefinesInit == Init => Lifecycle!Init
  BY DEF Init, Lifecycle!Init, Stage, Live

\* The steps that bring no connection and end none, before the last one.
LEMMA RefinesStutter ==
  ASSUME IInv,
         \/ SignalArrives \/ AcceptFinishes \/ HandleAcceptError \/ UNCHANGED vars
         \/ \E c \in Conns : OpFinishes(c) \/ HandleReadReply(c) \/ HandleReadMore(c)
  PROVE  UNCHANGED Lifecycle!vars
<1>1. CASE SignalArrives \/ AcceptFinishes \/ HandleAcceptError
  <2>1. acceptor_open /\ acceptor_open'
    BY <1>1 DEF IInv, StoppedOnce, StopReachesEverything, StoppedBySignal,
                SignalArrives, AcceptFinishes, HandleAcceptError
  <2>2. op' = op
    BY <1>1 DEF SignalArrives, AcceptFinishes, HandleAcceptError
  <2>. QED  BY <2>1, <2>2 DEF Lifecycle!vars, Stage, Live
<1>2. ASSUME NEW c \in Conns, OpFinishes(c) \/ UNCHANGED vars
      PROVE  UNCHANGED Lifecycle!vars
  BY <1>2 DEF OpFinishes, vars, Lifecycle!vars, Stage, Live, RunReturned
<1>3. CASE UNCHANGED vars
  BY <1>3 DEF vars, Lifecycle!vars, Stage, Live, RunReturned
<1>4. ASSUME NEW c \in Conns, HandleReadReply(c) \/ HandleReadMore(c)
      PROVE  UNCHANGED Lifecycle!vars
  <2>1. /\ acceptor_open' = acceptor_open
        /\ op[c] # "none" /\ op'[c] # "none"
        /\ \A d \in Conns : op[d] = "none" <=> op'[d] = "none"
    BY <1>4 DEF IInv, TypeOK, HandleReadReply, HandleReadMore
  <2>2. ~RunReturned /\ ~RunReturned' /\ Live' = Live
    BY <2>1 DEF RunReturned, Live
  <2>. QED  BY <2>1, <2>2 DEF Lifecycle!vars, Stage
<1>. QED  BY <1>1, <1>2, <1>3, <1>4

\* An accepted connection comes while the server runs.
LEMMA RefinesCome ==
  ASSUME IInv, HandleAccept
  PROVE  \E c \in Conns : Lifecycle!Come(c)
<1>1. /\ acceptor_open /\ acceptor_open'
      /\ new_connection \in Conns
      /\ op' = [op EXCEPT ![new_connection] = "read"]
  BY DEF IInv, TypeOK, HandleAccept, StoppedBySignal
<1>2. Live' = Live \cup {new_connection}
  BY <1>1 DEF Live, IInv, TypeOK
<1>. QED  BY <1>1, <1>2 DEF Lifecycle!Come, Stage

\* handle_stop is the stop: the accept is outstanding, so run() goes on.
LEMMA RefinesStop ==
  ASSUME IInv, HandleStop
  PROVE  Lifecycle!Stop
<1>1. acceptor_open /\ ~acceptor_open' /\ accept' # "none" /\ op' = op
  BY DEF IInv, StoppedOnce, AcceptIsOutstanding, HandleStop
<1>. QED  BY <1>1 DEF Lifecycle!Stop, Stage, Live, RunReturned

\* The last handler of a connection ends it, and run() if it is the last of all.
LEMMA RefinesGo ==
  ASSUME IInv, NEW c \in Conns, HandleLast(c) \/ HandleAborted(c)
  PROVE  Lifecycle!Go(c) \/ Lifecycle!Return
<1>1. /\ acceptor_open' = acceptor_open
      /\ op[c] # "none" /\ op' = [op EXCEPT ![c] = "none"]
  BY DEF IInv, TypeOK, HandleLast, HandleAborted
<1>2. Live' = Live \ {c} /\ ~RunReturned
  BY <1>1 DEF Live, RunReturned, IInv, TypeOK
<1>3. CASE acceptor_open \/ ~RunReturned'
  BY <1>1, <1>2, <1>3 DEF Lifecycle!Go, Stage
<1>4. CASE ~acceptor_open /\ RunReturned'
  <2>1. Live' = {}
    BY <1>4 DEF Live, RunReturned
  <2>. QED  BY <1>1, <1>2, <1>4, <2>1 DEF Lifecycle!Return, Stage
<1>. QED  BY <1>3, <1>4

\* The accept that was under way when the server was stopped is not a
\* connection; run() may return with it.
LEMMA RefinesLastAccept ==
  ASSUME IInv, HandleAcceptAfterStop
  PROVE  UNCHANGED Lifecycle!vars \/ Lifecycle!Return
<1>1. /\ ~acceptor_open /\ ~acceptor_open' /\ accept # "none" /\ op' = op
  BY DEF HandleAcceptAfterStop, StoppedBySignal
<1>2. ~RunReturned /\ Live' = Live
  BY <1>1 DEF RunReturned, Live
<1>3. RunReturned' => Live = {} /\ Live' = {}
  BY <1>1 DEF RunReturned, Live
<1>. QED  BY <1>1, <1>2, <1>3 DEF Lifecycle!vars, Lifecycle!Return, Stage

\* Every step of the server is a step of the abstract one or changes nothing.
LEMMA RefinesNext == IInv /\ [Next]_vars => [Lifecycle!Next]_(Lifecycle!vars)
<1> SUFFICES ASSUME IInv, [Next]_vars PROVE Lifecycle!Next \/ UNCHANGED Lifecycle!vars
  OBVIOUS
<1>1. ASSUME NEW c \in Conns, HandleOp(c) PROVE Lifecycle!Next \/ UNCHANGED Lifecycle!vars
  BY <1>1, RefinesGo, RefinesStutter DEF HandleOp, Lifecycle!Next
<1>. QED
  BY <1>1, RefinesStutter, RefinesCome, RefinesStop, RefinesLastAccept
     DEF Next, Terminated, Lifecycle!Next

\* Connections come only before a stop, a stop is final, and run() returns with
\* no connection left.
THEOREM SafeLifecycle == Spec => Lifecycle!Init /\ [][Lifecycle!Next]_(Lifecycle!vars)
  BY RefinesInit, RefinesNext, Invariance, PTL DEF Spec
=============================================================================
