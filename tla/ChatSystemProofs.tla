-------------------------- MODULE ChatSystemProofs --------------------------
(***************************************************************************)
(* Theorems about ChatClient, for all lines, every MaxLines and every      *)
(* number of endpoints, and about ChatSystem.  The composition of a client *)
(* and the server does with each of them what its own module allows, and   *)
(* nothing else; so what is proved of either alone holds of it in the      *)
(* system, and the user's lines keep their order from end to end.          *)
(***************************************************************************)
EXTENDS ChatSystem, ChatMessage, SequenceTheorems, WellFoundedInduction, TLAPS

-----------------------------------------------------------------------------
(* Sequences.                                                              *)

\* A line that is at the front of one sequence may as well be at the end of the
\* sequence before it.
LEMMA MoveFront ==
  ASSUME NEW S, NEW p \in Seq(S), NEW q \in Seq(S), q # <<>>
  PROVE  /\ Append(p, Head(q)) \o Tail(q) = p \o q
         /\ Head(q) \in S /\ Tail(q) \in Seq(S)
<1>1. Head(q) \in S /\ Tail(q) \in Seq(S) /\ <<Head(q)>> \in Seq(S)
  BY HeadTailProperties
<1>2. Append(p, Head(q)) = p \o <<Head(q)>>
  BY <1>1, AppendIsConcat
<1>3. <<Head(q)>> \o Tail(q) = q
  BY HeadTailProperties
<1>4. (p \o <<Head(q)>>) \o Tail(q) = p \o (<<Head(q)>> \o Tail(q))
  BY <1>1, ConcatAssociative
<1>. QED  BY <1>1, <1>2, <1>3, <1>4

\* A line that comes in at the end of the second comes in at the end of both.
LEMMA AppendToConcat ==
  ASSUME NEW S, NEW p \in Seq(S), NEW q \in Seq(S), NEW l \in S
  PROVE  p \o Append(q, l) = Append(p \o q, l)
<1>1. <<l>> \in Seq(S) /\ p \o q \in Seq(S)
  BY ConcatProperties
<1>2. Append(q, l) = q \o <<l>> /\ Append(p \o q, l) = (p \o q) \o <<l>>
  BY <1>1, AppendIsConcat
<1>3. (p \o q) \o <<l>> = p \o (q \o <<l>>)
  BY <1>1, ConcatAssociative
<1>. QED  BY <1>2, <1>3

-----------------------------------------------------------------------------
(* The inductive invariant.                                                *)

\* A write is of a line that is in the queue.
WritesFromQueue == write # "none" => write_msgs # <<>>

\* What the connect operation knows agrees with the socket.
ConnectInStep ==
  /\ connect = "pending" => link = "connecting"
  /\ connect = "ok" => link \in {"up", "lost", "closed"}
  /\ connect = "error" => link \in {"refused", "closed"}

\* run() does not return with an operation outstanding.
StoppedIsIdle ==
  stopped => connect = "none" /\ read = "none" /\ write = "none"

\* The inductive invariant.
IInv ==
  /\ TypeOK
  /\ WritesFromQueue
  /\ ConnectInStep
  /\ StoppedIsIdle
  /\ NoLineLostOrRepeated
  /\ StalledOnlyWhenClosed
  /\ ListensWhileConnected
  /\ NothingHangs

\* A handler of the io thread, with what it does to stopped left out.
Handler ==
  \/ DoWrite \/ DoClose
  \/ HandleConnect \/ TryNextEndpoint \/ HandleConnectError
  \/ HandleReadHeader \/ HandleReadBody \/ HandleReadError
  \/ HandleWrite \/ HandleWriteError

\* Every step is one of main(), of the system, or a handler; and run() goes on
\* exactly while there is work.
LEMMA StepCases ==
  ASSUME [Next]_vars
  PROVE  \/ \E l \in Lines : TypeLine(l)
         \/ InputEnds \/ Join
         \/ Handler /\ ~stopped /\ stopped' = ~Work'
         \/ ConnectFinishes \/ ReadSucceeds \/ ReadFails
         \/ WriteSucceeds \/ WriteFails \/ ServerCloses
         \/ UNCHANGED vars
  BY DEF Next, RunPosted, RunConnect, RunRead, RunWrite, Runs, Handler, Terminated

-----------------------------------------------------------------------------
(* Each part of the invariant is preserved.                                *)

\* The client starts in the invariant, with nothing typed.
LEMMA InitIInv == Init => IInv
<1> SUFFICES ASSUME Init PROVE IInv
  OBVIOUS
<1>1. <<>> \in Seq(Lines) /\ <<>> \o <<>> = <<>>
  OBVIOUS
<1>2. NoLineLostOrRepeated
  BY <1>1 DEF Init, NoLineLostOrRepeated, Unsent
<1>3. TypeOK
  <2>1. Endpoints \in Nat /\ Endpoints > 0 /\ endpoints = Endpoints - 1
    BY ChatClientAssumption DEF Init
  <2>2. endpoints \in 0..Endpoints
    BY <2>1
  <2>. QED  BY <1>1, <2>2 DEF Init, TypeOK, Links, Results
<1>. QED
  BY <1>2, <1>3 DEF Init, IInv, WritesFromQueue, ConnectInStep, StoppedIsIdle,
                    StalledOnlyWhenClosed, ListensWhileConnected, NothingHangs

\* No handler takes a variable out of its type.
LEMMA TypeStep == TypeOK /\ WritesFromQueue /\ [Next]_vars => TypeOK'
<1> SUFFICES ASSUME TypeOK, WritesFromQueue, [Next]_vars PROVE TypeOK'
  OBVIOUS
<1>1. \A q \in Seq(Lines) : q # <<>> => Head(q) \in Lines /\ Tail(q) \in Seq(Lines)
  BY HeadTailProperties
<1>2. \A q \in Seq(Lines), l \in Lines : Append(q, l) \in Seq(Lines)
  OBVIOUS
<1>3. ASSUME NEW l \in Lines, TypeLine(l) PROVE TypeOK'
  BY <1>2, <1>3 DEF TypeOK, TypeLine
<1>4. CASE InputEnds \/ Join
  BY <1>4 DEF TypeOK, InputEnds, Join
<1>5. ASSUME stopped' = ~Work' PROVE stopped' \in BOOLEAN
  BY <1>5 DEF Work
<1>6. CASE DoWrite /\ stopped' = ~Work'
  BY <1>1, <1>2, <1>5, <1>6 DEF TypeOK, DoWrite, AfterDoWrite, Started, Results, user
<1>7. CASE (DoClose \/ HandleReadError \/ HandleWriteError) /\ stopped' = ~Work'
  BY <1>5, <1>7 DEF TypeOK, DoClose, HandleReadError, HandleWriteError, Close,
                    Aborted, Results, Links, user, tasks
<1>8. CASE HandleConnect /\ stopped' = ~Work'
  BY <1>5, <1>8 DEF TypeOK, HandleConnect, AfterConnect, Started, Results, user, tasks
<1>9. CASE TryNextEndpoint /\ stopped' = ~Work'
  <2>1. endpoints' \in 0..Endpoints
    <3>1. endpoints \in 0..Endpoints /\ endpoints > 0 /\ endpoints' = endpoints - 1
      BY <1>9 DEF TypeOK, TryNextEndpoint, TriesNext
    <3>. QED  BY <3>1, ChatClientAssumption
  <2>. QED
    BY <1>5, <1>9, <2>1 DEF TypeOK, TryNextEndpoint, Aborted, Results, Links, user, tasks
<1>10. CASE HandleConnectError /\ stopped' = ~Work'
  BY <1>5, <1>10 DEF TypeOK, HandleConnectError, Results, user, tasks
<1>11. CASE (HandleReadHeader \/ HandleReadBody) /\ stopped' = ~Work'
  BY <1>5, <1>11 DEF TypeOK, HandleReadHeader, HandleReadBody, Started, Results,
                     user, tasks
<1>12. CASE HandleWrite /\ stopped' = ~Work'
  BY <1>1, <1>5, <1>12 DEF TypeOK, WritesFromQueue, HandleWrite, AfterHandleWrite,
                          Started, Results, user, tasks
<1>13. CASE ConnectFinishes \/ ReadSucceeds \/ ReadFails \/ WriteFails \/ ServerCloses
  BY <1>13 DEF TypeOK, ConnectFinishes, ReadSucceeds, ReadFails, WriteFails,
               ServerCloses, Results, Links, user, tasks
<1>14. CASE WriteSucceeds
  BY <1>1, <1>2, <1>14 DEF TypeOK, WritesFromQueue, WriteSucceeds, Results, user, tasks
<1>15. CASE UNCHANGED vars
  BY <1>15 DEF TypeOK, vars
<1>. QED
  BY <1>3, <1>4, <1>6, <1>7, <1>8, <1>9, <1>10, <1>11, <1>12, <1>13, <1>14, <1>15,
     StepCases DEF Handler

\* The writes: do_write and handle_write start one exactly when the queue has
\* become, or stays, non-empty, and only a close leaves the queue without one.
LEMMA WritesStep ==
  ASSUME TypeOK, WritesFromQueue, ConnectInStep, StalledOnlyWhenClosed, [Next]_vars
  PROVE  WritesFromQueue' /\ StalledOnlyWhenClosed'
<1>1. CASE DoWrite
  <2>1. Append(write_msgs, Head(posted)) # <<>>
    <3>1. Head(posted) \in Lines /\ write_msgs \in Seq(Lines)
      BY <1>1, HeadTailProperties DEF TypeOK, DoWrite
    <3>. QED  BY <3>1, AppendProperties
  <2>. QED
    BY <1>1, <2>1 DEF DoWrite, AfterDoWrite, Started, WritesFromQueue,
                      StalledOnlyWhenClosed, Results, TypeOK
<1>2. CASE DoClose \/ HandleReadError \/ HandleWriteError
  BY <1>2 DEF DoClose, HandleReadError, HandleWriteError, Close, Aborted, tasks,
              WritesFromQueue, StalledOnlyWhenClosed
<1>3. CASE TryNextEndpoint
  BY <1>3 DEF TryNextEndpoint, TriesNext, Aborted, WritesFromQueue, StalledOnlyWhenClosed
<1>4. CASE HandleWrite
  BY <1>4 DEF HandleWrite, AfterHandleWrite, Started, WritesFromQueue,
              StalledOnlyWhenClosed
<1>5. CASE HandleConnect \/ HandleConnectError \/ HandleReadHeader \/ HandleReadBody
  BY <1>5 DEF HandleConnect, HandleConnectError, HandleReadHeader, HandleReadBody,
              WritesFromQueue, StalledOnlyWhenClosed
<1>6. CASE ConnectFinishes
  BY <1>6 DEF ConnectFinishes, ConnectInStep, WritesFromQueue, StalledOnlyWhenClosed
<1>7. CASE InputEnds \/ Join \/ ReadSucceeds \/ ReadFails \/ WriteSucceeds
             \/ WriteFails \/ ServerCloses \/ UNCHANGED vars
  BY <1>7 DEF InputEnds, Join, ReadSucceeds, ReadFails, WriteSucceeds, WriteFails,
              ServerCloses, vars, WritesFromQueue, StalledOnlyWhenClosed
<1>8. ASSUME NEW l \in Lines, TypeLine(l)
      PROVE  WritesFromQueue' /\ StalledOnlyWhenClosed'
  BY <1>8 DEF TypeLine, WritesFromQueue, StalledOnlyWhenClosed
<1>. QED
  BY <1>1, <1>2, <1>3, <1>4, <1>5, <1>6, <1>7, <1>8, StepCases DEF Handler

\* The connect operation and the socket change together.
LEMMA ConnectStep ==
  ASSUME TypeOK, ConnectInStep, [Next]_vars
  PROVE  ConnectInStep'
<1>1. CASE DoClose \/ HandleReadError \/ HandleWriteError
  BY <1>1 DEF DoClose, HandleReadError, HandleWriteError, Close, Aborted, ConnectInStep,
              TypeOK, Results
<1>2. CASE DoWrite \/ HandleReadHeader \/ HandleReadBody \/ HandleWrite
             \/ ReadSucceeds \/ ReadFails \/ WriteSucceeds \/ WriteFails
             \/ InputEnds \/ Join \/ UNCHANGED vars
  BY <1>2 DEF DoWrite, HandleReadHeader, HandleReadBody, HandleWrite, ReadSucceeds,
              ReadFails, WriteSucceeds, WriteFails, InputEnds, Join, vars, ConnectInStep
<1>3. CASE HandleConnect \/ TryNextEndpoint \/ HandleConnectError \/ ConnectFinishes
             \/ ServerCloses
  BY <1>3 DEF HandleConnect, TryNextEndpoint, HandleConnectError, ConnectFinishes,
              ServerCloses, ConnectInStep
<1>4. ASSUME NEW l \in Lines, TypeLine(l) PROVE ConnectInStep'
  BY <1>4 DEF TypeLine, ConnectInStep
<1>. QED  BY <1>1, <1>2, <1>3, <1>4, StepCases DEF Handler

\* run() returns on its last handler only, and no operation starts by itself.
LEMMA StoppedStep ==
  ASSUME StoppedIsIdle, [Next]_vars
  PROVE  StoppedIsIdle'
<1>1. CASE Handler /\ ~stopped /\ stopped' = ~Work'
  BY <1>1 DEF Work, StoppedIsIdle
<1>2. CASE ConnectFinishes \/ ReadSucceeds \/ ReadFails \/ WriteSucceeds \/ WriteFails
  BY <1>2 DEF ConnectFinishes, ReadSucceeds, ReadFails, WriteSucceeds, WriteFails,
              StoppedIsIdle
<1>3. CASE InputEnds \/ Join \/ ServerCloses \/ UNCHANGED vars
  BY <1>3 DEF InputEnds, Join, ServerCloses, vars, StoppedIsIdle
<1>4. ASSUME NEW l \in Lines, TypeLine(l) PROVE StoppedIsIdle'
  BY <1>4 DEF TypeLine, StoppedIsIdle
<1>. QED  BY <1>1, <1>2, <1>3, <1>4, StepCases

\* The client listens from handle_connect on until it closes the socket.
LEMMA ListensStep ==
  ASSUME TypeOK, ConnectInStep, StoppedIsIdle, ListensWhileConnected, [Next]_vars
  PROVE  ListensWhileConnected'
<1>1. CASE Handler /\ ~stopped /\ stopped' = ~Work'
  <2>1. link' \in {"up", "lost"} => connect' = "ok" \/ read' # "none"
    <3>1. CASE DoClose \/ HandleReadError \/ HandleWriteError \/ TryNextEndpoint
      BY <3>1 DEF DoClose, HandleReadError, HandleWriteError, TryNextEndpoint, Close
    <3>2. CASE HandleConnect \/ HandleReadHeader \/ HandleReadBody
      BY <3>2 DEF HandleConnect, HandleReadHeader, HandleReadBody, AfterConnect, Started
    <3>3. CASE DoWrite \/ HandleWrite
      BY <3>3 DEF DoWrite, HandleWrite, ListensWhileConnected
    <3>4. CASE HandleConnectError
      BY <3>4 DEF HandleConnectError, ConnectInStep
    <3>. QED  BY <1>1, <3>1, <3>2, <3>3, <3>4 DEF Handler
  <2>. QED  BY <1>1, <2>1 DEF Work, ListensWhileConnected
<1>2. CASE ConnectFinishes
  BY <1>2 DEF ConnectFinishes, StoppedIsIdle, ListensWhileConnected
<1>3. CASE ReadSucceeds \/ ReadFails \/ WriteSucceeds \/ WriteFails \/ ServerCloses
             \/ InputEnds \/ Join \/ UNCHANGED vars
  BY <1>3 DEF ReadSucceeds, ReadFails, WriteSucceeds, WriteFails, ServerCloses,
              InputEnds, Join, vars, ListensWhileConnected
<1>4. ASSUME NEW l \in Lines, TypeLine(l) PROVE ListensWhileConnected'
  BY <1>4 DEF TypeLine, ListensWhileConnected
<1>. QED  BY <1>1, <1>2, <1>3, <1>4, StepCases

\* do_close leaves nothing pending, and nothing that is started on a closed
\* socket is pending.
LEMMA HangsStep ==
  ASSUME NothingHangs, ConnectInStep, [Next]_vars
  PROVE  NothingHangs'
<1>1. CASE DoClose \/ HandleReadError \/ HandleWriteError
  BY <1>1 DEF DoClose, HandleReadError, HandleWriteError, Close, Aborted, NothingHangs
<1>2. CASE DoWrite \/ HandleConnect \/ HandleReadHeader \/ HandleReadBody
             \/ HandleWrite \/ HandleConnectError
  BY <1>2 DEF DoWrite, HandleConnect, HandleReadHeader, HandleReadBody, HandleWrite,
              HandleConnectError, AfterDoWrite, AfterHandleWrite, AfterConnect, Started,
              NothingHangs
<1>3. CASE TryNextEndpoint \/ ConnectFinishes \/ ServerCloses
  BY <1>3 DEF TryNextEndpoint, ConnectFinishes, ServerCloses, NothingHangs
<1>4. CASE ReadSucceeds \/ ReadFails \/ WriteSucceeds \/ WriteFails
             \/ InputEnds \/ Join \/ UNCHANGED vars
  BY <1>4 DEF ReadSucceeds, ReadFails, WriteSucceeds, WriteFails,
              InputEnds, Join, vars, NothingHangs
<1>5. ASSUME NEW l \in Lines, TypeLine(l) PROVE NothingHangs'
  BY <1>5 DEF TypeLine, NothingHangs
<1>. QED  BY <1>1, <1>2, <1>3, <1>4, <1>5, StepCases DEF Handler

\* The line moves on by one place, or stays where it is.
LEMMA LinesStep ==
  ASSUME TypeOK, WritesFromQueue, NoLineLostOrRepeated, [Next]_vars
  PROVE  NoLineLostOrRepeated'
<1>0. /\ typed = sent \o Unsent \o posted
      /\ sent \in Seq(Lines) /\ Unsent \in Seq(Lines) /\ posted \in Seq(Lines)
      /\ write_msgs \in Seq(Lines)
      /\ sent \o Unsent \in Seq(Lines)
  <2>1. write_msgs \in Seq(Lines) /\ (write = "ok" => Tail(write_msgs) \in Seq(Lines))
    BY HeadTailProperties DEF TypeOK, WritesFromQueue
  <2>2. Unsent \in Seq(Lines)
    BY <2>1 DEF Unsent
  <2>3. sent \in Seq(Lines) /\ posted \in Seq(Lines)
    BY DEF TypeOK
  <2>4. sent \o Unsent \in Seq(Lines)
    BY <2>2, <2>3, ConcatProperties
  <2>. QED  BY <2>1, <2>2, <2>3, <2>4 DEF NoLineLostOrRepeated
<1>1. ASSUME NEW l \in Lines, TypeLine(l) PROVE NoLineLostOrRepeated'
  <2>1. /\ typed' = Append(typed, l) /\ posted' = Append(posted, l)
        /\ sent' = sent /\ Unsent' = Unsent
    BY <1>1 DEF TypeLine, Unsent
  <2>2. sent \o Unsent \o Append(posted, l) = Append(sent \o Unsent \o posted, l)
    BY <1>0, AppendToConcat
  <2>. QED  BY <1>0, <2>1, <2>2 DEF NoLineLostOrRepeated
<1>2. CASE DoWrite
  <2>. DEFINE l == Head(posted)
  <2>1. posted # <<>> /\ l \in Lines /\ Tail(posted) \in Seq(Lines)
    BY <1>0, <1>2, HeadTailProperties DEF DoWrite
  <2>2. Unsent' = Append(Unsent, l)
    <3>1. CASE write = "ok"
      <4>1. write_msgs # <<>> /\ write' = "ok" /\ write_msgs' = Append(write_msgs, l)
        BY <1>2, <3>1 DEF WritesFromQueue, DoWrite, AfterDoWrite
      <4>2. Tail(Append(write_msgs, l)) = Append(Tail(write_msgs), l)
        BY <1>0, <4>1, HeadTailAppend
      <4>. QED  BY <3>1, <4>1, <4>2 DEF Unsent
    <3>2. CASE write # "ok"
      <4>1. write' # "ok" /\ write_msgs' = Append(write_msgs, l)
        BY <1>2, <3>2 DEF DoWrite, AfterDoWrite, Started
      <4>. QED  BY <3>2, <4>1 DEF Unsent
    <3>. QED  BY <3>1, <3>2
  <2>3. sent \o Append(Unsent, l) = Append(sent \o Unsent, l)
    BY <1>0, <2>1, AppendToConcat
  <2>4. Append(sent \o Unsent, l) \o Tail(posted) = sent \o Unsent \o posted
    BY <1>0, <2>1, MoveFront
  <2>5. typed' = typed /\ sent' = sent /\ posted' = Tail(posted)
    BY <1>2 DEF DoWrite, user
  <2>. QED  BY <1>0, <2>2, <2>3, <2>4, <2>5 DEF NoLineLostOrRepeated
<1>3. CASE WriteSucceeds
  <2>1. /\ Unsent = write_msgs /\ write_msgs # <<>>
        /\ Unsent' = Tail(write_msgs) /\ sent' = Append(sent, Head(write_msgs))
        /\ typed' = typed /\ posted' = posted
    BY <1>3 DEF WriteSucceeds, Unsent, WritesFromQueue, user, tasks
  <2>2. Append(sent, Head(write_msgs)) \o Tail(write_msgs) = sent \o write_msgs
    BY <1>0, <2>1, MoveFront
  <2>. QED  BY <1>0, <2>1, <2>2 DEF NoLineLostOrRepeated
<1>4. CASE HandleWrite
  <2>1. Unsent' = Unsent
    <3>1. /\ write = "ok" /\ write_msgs' = Tail(write_msgs)
          /\ write' # "ok"
      BY <1>4 DEF HandleWrite, AfterHandleWrite, Started
    <3>. QED  BY <3>1 DEF Unsent
  <2>. QED  BY <1>4, <2>1 DEF HandleWrite, NoLineLostOrRepeated, user, tasks
<1>5. ASSUME \/ UNCHANGED <<typed, sent, posted, write, write_msgs>>
             \/ /\ UNCHANGED <<typed, sent, posted, write_msgs>>
                /\ write # "ok" /\ write' # "ok"
             \/ /\ UNCHANGED <<typed, sent, posted, write_msgs>>
                /\ write' = Aborted(write)
      PROVE  NoLineLostOrRepeated'
  <2>1. Unsent' = Unsent
    BY <1>5 DEF Unsent, Aborted
  <2>. QED  BY <1>5, <2>1 DEF NoLineLostOrRepeated
<1>6. CASE DoClose \/ TryNextEndpoint \/ HandleReadError
  BY <1>5, <1>6 DEF DoClose, TryNextEndpoint, HandleReadError, Close, user, tasks
<1>7. CASE HandleWriteError \/ WriteFails
  BY <1>5, <1>7 DEF HandleWriteError, WriteFails, Close, Aborted, user, tasks
<1>8. CASE HandleConnect \/ HandleConnectError \/ HandleReadHeader \/ HandleReadBody
             \/ ConnectFinishes \/ ReadSucceeds \/ ReadFails \/ ServerCloses
             \/ InputEnds \/ Join \/ UNCHANGED vars
  BY <1>5, <1>8 DEF HandleConnect, HandleConnectError, HandleReadHeader, HandleReadBody,
                    ConnectFinishes, ReadSucceeds, ReadFails, ServerCloses,
                    InputEnds, Join, vars, user, tasks
<1>. QED
  BY <1>1, <1>2, <1>3, <1>4, <1>6, <1>7, <1>8, StepCases DEF Handler

\* Every step of the client preserves the invariant.
LEMMA IInvStep == IInv /\ [Next]_vars => IInv'
  BY TypeStep, WritesStep, ConnectStep, StoppedStep, ListensStep, HangsStep, LinesStep
     DEF IInv

-----------------------------------------------------------------------------
(* The theorems.                                                           *)

\* The inductive invariant holds in every reachable state of the client.
THEOREM Invariance == Spec => []IInv
  BY InitIInv, IInvStep, PTL DEF Spec

\* The state of the client keeps its type.
THEOREM TypeCorrect == Spec => []TypeOK
  BY Invariance, PTL DEF IInv

\* What the user typed is what was sent, what is queued and what is posted, in
\* this order: nothing is lost, repeated or overtaken between the two threads.
THEOREM LinesCorrect == Spec => []NoLineLostOrRepeated
  BY Invariance, PTL DEF IInv

\* A queue stands still only behind a closed socket.
THEOREM QueueCorrect == Spec => []StalledOnlyWhenClosed
  BY Invariance, PTL DEF IInv

\* A connected client listens, and its io thread runs.
THEOREM ListeningCorrect == Spec => []ListensWhileConnected
  BY Invariance, PTL DEF IInv

\* No operation hangs on a closed socket.
THEOREM HangingCorrect == Spec => []NothingHangs
  BY Invariance, PTL DEF IInv

\* The step behind CloseIsFinal.
LEMMA CloseStep ==
  IInv /\ [Next]_vars => (link = "closed" => link' = "closed" /\ sent' = sent)
<1> SUFFICES ASSUME IInv, [Next]_vars, link = "closed"
             PROVE  link' = "closed" /\ sent' = sent
  OBVIOUS
<1>1. CASE DoClose \/ HandleReadError \/ HandleWriteError
  BY <1>1 DEF DoClose, HandleReadError, HandleWriteError, Close
<1>2. CASE TryNextEndpoint \/ ConnectFinishes \/ WriteSucceeds \/ ServerCloses
  BY <1>2 DEF TryNextEndpoint, TriesNext, ConnectFinishes, WriteSucceeds, ServerCloses,
              IInv, ConnectInStep
<1>3. CASE DoWrite \/ HandleConnect \/ HandleConnectError \/ HandleReadHeader
             \/ HandleReadBody \/ HandleWrite \/ ReadSucceeds \/ ReadFails \/ WriteFails
             \/ InputEnds \/ Join \/ UNCHANGED vars
  BY <1>3 DEF DoWrite, HandleConnect, HandleConnectError, HandleReadHeader,
              HandleReadBody, HandleWrite, ReadSucceeds, ReadFails, WriteFails,
              InputEnds, Join, vars
<1>4. ASSUME NEW l \in Lines, TypeLine(l) PROVE link' = "closed" /\ sent' = sent
  BY <1>4 DEF TypeLine
<1>. QED  BY <1>1, <1>2, <1>3, <1>4, StepCases DEF Handler

\* A closed socket stays closed, and nothing is sent on it.
THEOREM CloseCorrect == Spec => CloseIsFinal
<1>1. IInv /\ [Next]_vars => [link = "closed" => link' = "closed" /\ sent' = sent]_vars
  BY CloseStep
<1>. QED  BY <1>1, Invariance, PTL DEF Spec, CloseIsFinal

-----------------------------------------------------------------------------
(* The client in the system.                                               *)

\* Seen from the client, a step of the system is one of its own, or none.
LEMMA ClientSide == [SystemNext]_systemVars => [Next]_vars
<1> SUFFICES ASSUME SystemNext \/ UNCHANGED systemVars PROVE Next \/ UNCHANGED vars
  BY Zenon
<1>1. CASE ClientAlone
  BY <1>1 DEF ClientAlone, Next
<1>2. CASE ClientReads
  BY <1>2 DEF ClientReads, Runs, RunRead, Next
<1>3. CASE ServerStep \/ UNCHANGED systemVars
  BY <1>3 DEF ServerStep, systemVars
<1>. QED  BY <1>1, <1>2, <1>3 DEF SystemNext, ClientStep

\* What a session of the server is given to read is a chat message.
LEMMA MessagesHeard ==
  ASSUME sent \in Seq(Lines), heard \in Nat, heard < Len(sent)
  PROVE  NextMessage \in Lines
BY DEF NextMessage

\* How far the server has read.
HeardTypeOK == heard \in Nat

\* It stays a number.
LEMMA HeardStep == HeardTypeOK /\ [SystemNext]_systemVars => HeardTypeOK'
<1> SUFFICES ASSUME HeardTypeOK, SystemNext \/ UNCHANGED systemVars
             PROVE  HeardTypeOK'
  BY Zenon
<1>. USE DEF HeardTypeOK
<1>1. CASE ClientStep \/ UNCHANGED systemVars
  BY <1>1 DEF ClientStep, systemVars
<1>2. CASE ServerStep
  BY <1>2 DEF ServerStep, HearsClient, LosesClient, AcceptClient, HearsOthers, ServerAlone
<1>. QED  BY <1>1, <1>2 DEF SystemNext

\* Seen from the server, a step of the system is one of its own, or none.
LEMMA ServerSide ==
  TypeOK /\ HeardTypeOK /\ [SystemNext]_systemVars => [Server!Next]_Server!vars
<1> SUFFICES ASSUME TypeOK, HeardTypeOK, SystemNext \/ UNCHANGED systemVars
             PROVE  Server!Next \/ UNCHANGED Server!vars
  BY Zenon
<1>1. CASE ClientStep \/ UNCHANGED systemVars
  BY <1>1 DEF ClientStep, systemVars, room_vars, Server!vars
<1>2. CASE AcceptClient
  BY <1>2, ChatSystemAssumption DEF AcceptClient, Server!Next
<1>3. CASE HearsClient
  <2>1. NextMessage \in Lines \cup OtherMsgs
    BY <1>3, MessagesHeard DEF HearsClient, TypeOK, HeardTypeOK
  <2>2. Server!ReadCompletes(Mine)
    BY <1>3, <2>1 DEF HearsClient, Server!ReadCompletes
  <2>. QED  BY <2>2, ChatSystemAssumption DEF Server!Next
<1>4. CASE LosesClient
  BY <1>4, ChatSystemAssumption DEF LosesClient, Server!Next
<1>5. ASSUME NEW s \in Sessions, HearsOthers(s) PROVE Server!Next
  BY <1>5 DEF HearsOthers, Server!Next, Server!ReadCompletes
<1>6. ASSUME NEW s \in Sessions, ServerAlone(s) PROVE Server!Next
  BY <1>6 DEF ServerAlone, Server!Next, Server!ReadCompletes
<1>. QED
  BY <1>1, <1>2, <1>3, <1>4, <1>5, <1>6 DEF SystemNext, ServerStep

\* In the system the client is the client of chat_client.cpp: whatever the server
\* does is among the things ChatClient lets a server do.
THEOREM ClientInSystem == SystemSpec => Spec
<1>1. SystemInit => Init
  BY DEF SystemInit
<1>. QED  BY <1>1, ClientSide, PTL DEF SystemSpec, Spec

\* In the system the server is the server of chat_server.cpp: whatever the client
\* sends, and when it goes, is among the things ChatServer lets a peer do.
THEOREM ServerInSystem == SystemSpec => Server!Spec
<1>1. SystemInit => Server!Init
  BY DEF SystemInit
<1>2. SystemInit => HeardTypeOK
  BY DEF SystemInit, HeardTypeOK
<1>3. SystemSpec => []HeardTypeOK
  BY <1>2, HeardStep, PTL DEF SystemSpec
<1>4. SystemSpec => []TypeOK
  BY ClientInSystem, TypeCorrect, PTL
<1>5. SystemSpec => [][Server!Next]_Server!vars
  BY <1>3, <1>4, ServerSide, PTL DEF SystemSpec
<1>. QED
  BY <1>1, <1>5, PTL DEF SystemSpec, Server!Spec

\* Also with the server at the other end no line is lost, written twice or
\* overtaken between the keyboard and the socket.
THEOREM LinesInSystem == SystemSpec => []NoLineLostOrRepeated
BY ClientInSystem, LinesCorrect, PTL

\* Also with the server at the other end a socket the client has closed stays
\* closed, and nothing more is sent.
THEOREM CloseInSystem == SystemSpec => CloseIsFinal
BY ClientInSystem, CloseCorrect, PTL

-----------------------------------------------------------------------------
(* What ChatServerProofs proves of a server is so of the one in the system. *)

RoomProofs ==
  INSTANCE ChatServerProofs WITH
    Msgs <- Lines \cup OtherMsgs,
    MaxPublished <- MaxLines + MaxOthers,
    phase <- room_phase,
    participants <- room_participants,
    recent_msgs <- room_recent_msgs,
    reading <- room_reading,
    write_msgs <- room_write_msgs,
    in_flight <- room_in_flight,
    closed <- room_closed,
    log <- room_log,
    joined <- room_joined,
    sent <- room_sent

\* The parameters of the system's server are as ChatServer assumes.
LEMMA RoomAssumption == RoomProofs!ChatServerAssumption
BY ChatSystemAssumption, ChatClientAssumption

\* The two instances of ChatServer, with and without its proofs, are one server.
LEMMA SameServer == Server!Spec => RoomProofs!Spec
<1>1. Server!Init => RoomProofs!Init
  BY DEF Server!Init, RoomProofs!Init
<1>2. Server!Next => RoomProofs!Next
  BY DEF Server!Next, RoomProofs!Next, Server!HandleAccept,
         RoomProofs!HandleAccept, Server!HandleAcceptError,
         RoomProofs!HandleAcceptError, Server!ReadCompletes,
         RoomProofs!ReadCompletes, Server!WriteCompletes,
         RoomProofs!WriteCompletes, Server!PeerCloses, RoomProofs!PeerCloses,
         Server!HandleReadHeader, RoomProofs!HandleReadHeader,
         Server!HandleBadHeader, RoomProofs!HandleBadHeader,
         Server!HandleReadBody, RoomProofs!HandleReadBody,
         Server!HandleReadError, RoomProofs!HandleReadError, Server!HandleWrite,
         RoomProofs!HandleWrite, Server!HandleWriteError,
         RoomProofs!HandleWriteError, Server!StartAccept,
         RoomProofs!StartAccept, Server!Leave, RoomProofs!Leave,
         Server!Recipients, RoomProofs!Recipients, Server!Trim, RoomProofs!Trim,
         Server!StartedByDeliver, RoomProofs!StartedByDeliver,
         Server!StartedByHandleWrite, RoomProofs!StartedByHandleWrite,
         Server!room, RoomProofs!room
<1>3. [Server!Next]_Server!vars => [RoomProofs!Next]_RoomProofs!vars
  BY <1>2 DEF Server!vars, RoomProofs!vars
<1>. QED  BY <1>1, <1>3, PTL DEF Server!Spec, RoomProofs!Spec

\* The invariant of the server holds in the system.
LEMMA RoomInvariance == SystemSpec => []RoomProofs!IInv
<1>1. RoomProofs!Spec => []RoomProofs!IInv
  BY RoomAssumption, RoomProofs!Invariance
<1>. QED  BY <1>1, ServerInSystem, SameServer, PTL

\* What it says of the client's session, Mine.
LEMMA MySession ==
  ASSUME RoomProofs!IInv
  PROVE  /\ room_phase \in [Sessions -> Server!Phases]
         /\ room_log \in Seq(Lines \cup OtherMsgs)
         /\ room_sent \in [Sessions -> Seq(Lines \cup OtherMsgs)]
         /\ room_joined \in [Sessions -> Nat]
         /\ Len(room_log) - Len(room_recent_msgs) \in 0..Len(room_log)
         /\ room_phase[Mine] # "started" =>
              room_reading[Mine] = "none" /\ room_sent[Mine] = <<>>
         /\ room_phase[Mine] = "started" =>
              /\ room_joined[Mine] + Len(room_sent[Mine]) <= Len(room_log)
              /\ \A i \in 1..Len(room_sent[Mine]) :
                   room_sent[Mine][i] = room_log[room_joined[Mine] + i]
<1>1. RoomProofs!TypeOK
  BY DEF RoomProofs!IInv
<1>2. /\ Len(room_log) \in Nat /\ Len(room_recent_msgs) \in Nat
      /\ Len(room_recent_msgs) <= Len(room_log)
  BY <1>1, ChatSystemAssumption
     DEF RoomProofs!TypeOK, RoomProofs!IInv, RoomProofs!HistoryIsLogSuffix
<1>3. Len(room_log) - Len(room_recent_msgs) \in 0..Len(room_log)
  BY <1>2
<1>4. room_phase[Mine] # "started" =>
        room_reading[Mine] = "none" /\ room_sent[Mine] = <<>>
  BY ChatSystemAssumption
     DEF RoomProofs!IInv, RoomProofs!NotStartedIsIdle, RoomProofs!Started
<1>5. room_phase[Mine] = "started" =>
        /\ room_joined[Mine] + Len(room_sent[Mine]) <= Len(room_log)
        /\ \A i \in 1..Len(room_sent[Mine]) :
             room_sent[Mine][i] = room_log[room_joined[Mine] + i]
  BY ChatSystemAssumption
     DEF RoomProofs!IInv, RoomProofs!GaplessStreams, RoomProofs!Started,
         RoomProofs!IsWindow
<1>. QED
  BY <1>1, <1>3, <1>4, <1>5 DEF RoomProofs!TypeOK, RoomProofs!Phases, Server!Phases

-----------------------------------------------------------------------------
(* Lines among messages.                                                   *)

\* A message of another client that comes in at the end changes nothing.
LEMMA FirstLinesOther ==
  ASSUME NEW S, NEW ms \in Seq(S), NEW m \in S, m \notin Lines, NEW n \in Nat,
         FirstLines(ms, n)
  PROVE  FirstLines(Append(ms, m), n)
<1>1. /\ Len(ms) \in Nat /\ DOMAIN ms = 1..Len(ms)
      /\ DOMAIN Append(ms, m) = 1..(Len(ms) + 1)
      /\ \A i \in 1..Len(ms) : Append(ms, m)[i] = ms[i]
      /\ Append(ms, m)[Len(ms) + 1] = m
  BY AppendProperties
<1>. QED  BY <1>1 DEF FirstLines

\* The next line comes in at the end.
LEMMA FirstLinesNext ==
  ASSUME NEW S, NEW ms \in Seq(S), NEW n \in Nat, n + 1 \in S, n + 1 \in Lines,
         FirstLines(ms, n)
  PROVE  FirstLines(Append(ms, n + 1), n + 1)
<1>1. /\ Len(ms) \in Nat /\ DOMAIN ms = 1..Len(ms)
      /\ DOMAIN Append(ms, n + 1) = 1..(Len(ms) + 1)
      /\ \A i \in 1..Len(ms) : Append(ms, n + 1)[i] = ms[i]
      /\ Append(ms, n + 1)[Len(ms) + 1] = n + 1
  BY AppendProperties
<1>2. \A l \in Lines : l \in Int
  BY ChatClientAssumption, ChatSystemAssumption
<1>. DEFINE q == Append(ms, n + 1)
<1>3. \A i \in DOMAIN ms : ms[i] \in Lines => ms[i] <= n
  BY DEF FirstLines
<1>4. \A i \in DOMAIN q : q[i] \in Lines => q[i] <= n + 1
  BY <1>1, <1>2, <1>3
<1>5. \A l \in 1..(n + 1) : \E i \in DOMAIN q : q[i] = l
  BY <1>1 DEF FirstLines
<1>6. \A i, j \in DOMAIN q : q[i] \in Lines /\ q[j] \in Lines /\ i < j => q[i] < q[j]
  BY <1>1, <1>2, <1>3 DEF FirstLines
<1>. QED  BY <1>4, <1>5, <1>6 DEF FirstLines

\* One more message is printed of what the room has, from where none of the
\* user's own lines came before.
LEMMA FirstLinesPrinted ==
  ASSUME NEW S, NEW log \in Seq(S), NEW p \in Seq(S), NEW j \in Nat, NEW k \in Nat,
         k <= MaxLines, NEW n \in 0..k,
         FirstLines(log, k), FirstLines(p, n),
         \A i \in 1..j : log[i] \notin Lines,
         j + Len(p) < Len(log),
         \A i \in 1..Len(p) : p[i] = log[j + i]
  PROVE  \E r \in 0..k : FirstLines(Append(p, log[j + Len(p) + 1]), r)
<1>. DEFINE c == j + Len(p) + 1
            x == log[c]
<1>1. /\ Len(p) \in Nat /\ Len(log) \in Nat /\ c \in 1..Len(log) /\ x \in S
      /\ DOMAIN p = 1..Len(p) /\ DOMAIN log = 1..Len(log)
  OBVIOUS
<1>2. CASE x \notin Lines
  BY <1>1, <1>2, FirstLinesOther
<1>3. CASE x \in Lines
  <2>1. x \in Nat /\ x <= k /\ n \in Nat /\ MaxLines \in Nat /\ Lines = 1..MaxLines
    BY <1>1, <1>3, ChatClientAssumption, ChatSystemAssumption DEF FirstLines
  <2>2. ASSUME NEW i \in 1..Len(p), p[i] \in Lines PROVE p[i] < x
    <3>1. j + i \in DOMAIN log /\ c \in DOMAIN log /\ j + i < c /\ p[i] = log[j + i]
      BY <1>1
    <3>. HIDE DEF c
    <3>. QED  BY <1>3, <2>2, <3>1 DEF FirstLines
  <2>3. x >= n + 1
    <3>1. SUFFICES ASSUME x \in 1..n PROVE FALSE
      BY <1>3, <2>1
    <3>2. PICK i \in 1..Len(p) : p[i] = x
      BY <1>1, <3>1 DEF FirstLines
    <3>. QED  BY <1>3, <2>1, <2>2, <3>2
  <2>4. x <= n + 1
    <3>1. SUFFICES ASSUME n + 1 < x PROVE FALSE
      BY <2>1
    <3>2. n + 1 \in 1..k /\ n + 1 \in Lines
      BY <2>1, <3>1
    <3>3. PICK i \in 1..Len(log) : log[i] = n + 1
      BY <1>1, <3>2 DEF FirstLines
    <3>4. i < c
      <4>1. i = c \/ c < i \/ i < c
        BY <1>1
      <4>2. CASE i = c
        BY <2>1, <3>1, <3>3, <4>2
      <4>3. CASE c < i
        <5>1. i \in DOMAIN log /\ c \in DOMAIN log /\ log[i] \in Lines
          BY <1>1, <3>2, <3>3
        <5>. HIDE DEF c
        <5>2. x < n + 1
          BY <1>3, <3>3, <4>3, <5>1 DEF FirstLines
        <5>. QED  BY <2>1, <3>1, <5>2
      <4>. QED  BY <4>1, <4>2, <4>3
    <3>5. i > j
      BY <3>2, <3>3
    <3>6. i - j \in 1..Len(p) /\ p[i - j] = n + 1
      <4>1. i - j \in 1..Len(p) /\ j + (i - j) = i
        BY <1>1, <3>4, <3>5
      <4>. QED  BY <3>3, <4>1
    <3>7. i - j \in DOMAIN p /\ p[i - j] \in Lines
      BY <1>1, <3>2, <3>6
    <3>8. p[i - j] <= n
      BY <3>7 DEF FirstLines
    <3>. QED  BY <2>1, <3>6, <3>8
  <2>5. x = n + 1 /\ n + 1 \in 0..k
    BY <2>1, <2>3, <2>4
  <2>. QED  BY <1>1, <1>3, <2>1, <2>5, FirstLinesNext
<1>. QED  BY <1>2, <1>3

-----------------------------------------------------------------------------
(* The lines of the client on their way.                                   *)

\* The lines are numbered as they are typed.
Numbered == \A i \in DOMAIN typed : typed[i] = i

\* The server reads what is sent, from the time it has accepted the client.
HeardIsSent ==
  /\ heard \in Nat /\ heard <= Len(sent)
  /\ room_phase[Mine] # "started" => heard = 0

\* The client prints what the server has sent it, and reads nothing else.
PrintedIsSent ==
  /\ printed \in Seq(Lines \cup OtherMsgs)
  /\ Len(printed) <= Len(room_sent[Mine])
  /\ \A i \in DOMAIN printed : printed[i] = room_sent[Mine][i]
  /\ read = "ok" => Len(printed) < Len(room_sent[Mine])

\* None of the client's lines is older than its session.
NoneBefore ==
  room_phase[Mine] = "started" =>
    \A i \in 1..room_joined[Mine] : room_log[i] \notin Lines

\* The inductive invariant of the system, on top of those of its two parts.
SystemIInv ==
  /\ Numbered
  /\ HeardIsSent
  /\ PrintedIsSent
  /\ NoneBefore
  /\ OwnLinesInOrder

\* What is known of the two parts apart.
PartsOK == IInv /\ RoomProofs!IInv

\* Nothing is typed, heard or printed at first.
LEMMA SystemInitIInv == SystemInit => SystemIInv
<1> SUFFICES ASSUME SystemInit PROVE SystemIInv
  OBVIOUS
<1>1. typed = <<>> /\ sent = <<>> /\ read = "none" /\ heard = 0 /\ printed = <<>>
  BY DEF SystemInit, Init
<1>2. room_log = <<>> /\ room_sent[Mine] = <<>> /\ room_joined[Mine] = 0
  BY ChatSystemAssumption DEF SystemInit, Server!Init
<1>3. FirstLines(<<>>, 0)
  BY DEF FirstLines
<1>. QED
  BY <1>1, <1>2, <1>3 DEF SystemIInv, Numbered, HeardIsSent, PrintedIsSent, NoneBefore,
                          OwnLinesInOrder

\* The lines that are sent are the first of those that are typed.
LEMMA SentIsTyped ==
  ASSUME PartsOK
  PROVE  /\ typed \in Seq(Lines) /\ sent \in Seq(Lines)
         /\ Len(sent) <= Len(typed)
         /\ \A i \in 1..Len(sent) : sent[i] = typed[i]
<1>1. /\ typed = sent \o Unsent \o posted
      /\ typed \in Seq(Lines) /\ sent \in Seq(Lines) /\ posted \in Seq(Lines)
      /\ write_msgs \in Seq(Lines) /\ (write = "ok" => write_msgs # <<>>)
  BY DEF PartsOK, IInv, TypeOK, NoLineLostOrRepeated, WritesFromQueue
<1>2. Unsent \in Seq(Lines)
  BY <1>1, HeadTailProperties DEF Unsent
<1>3. /\ sent \o Unsent \in Seq(Lines)
      /\ Len(sent \o Unsent) = Len(sent) + Len(Unsent)
      /\ \A i \in 1..Len(sent) : (sent \o Unsent)[i] = sent[i]
  BY <1>1, <1>2, ConcatProperties
<1>. DEFINE front == sent \o Unsent
<1>4. /\ Len(typed) = Len(front) + Len(posted)
      /\ \A i \in 1..Len(front) : typed[i] = front[i]
  <2>. HIDE DEF front
  <2>. QED  BY <1>1, <1>3, ConcatProperties DEF front
<1>. QED  BY <1>1, <1>2, <1>3, <1>4

\* What a step of the client does to its histories.
LEMMA ClientEffect ==
  ASSUME PartsOK, ClientStep
  PROVE  /\ UNCHANGED <<room_vars, heard>>
         /\ \/ UNCHANGED typed
            \/ typed' = Append(typed, Len(typed) + 1) /\ Len(typed) + 1 \in Lines
         /\ UNCHANGED sent \/ \E l \in Lines : sent' = Append(sent, l)
         /\ \/ /\ UNCHANGED printed
               /\ read' = "ok" => read = "ok" \/ Len(printed) < Len(room_sent[Mine])
            \/ /\ read = "ok" /\ read' # "ok"
               /\ printed' = Append(printed, room_sent[Mine][Len(printed) + 1])
<1>1. UNCHANGED <<room_vars, heard>>
  BY DEF ClientStep
<1>2. CASE ClientReads
  <2>1. CASE PrintsBody
    BY <1>1, <1>2, <2>1 DEF ClientReads, PrintsBody, Runs, HandleReadHeader, HandleReadBody,
                            Started, user
  <2>2. CASE ~PrintsBody
    BY <1>1, <1>2, <2>2 DEF ClientReads, PrintsBody, Runs, HandleReadHeader, HandleReadBody,
                            HandleReadError, Close, Aborted, Started, user
  <2>. QED  BY <2>1, <2>2
<1>3. CASE ClientAlone /\ UNCHANGED printed
  <2>1. ASSUME NEW l \in Lines, l = Len(typed) + 1, TypeLine(l)
        PROVE  /\ typed' = Append(typed, Len(typed) + 1) /\ Len(typed) + 1 \in Lines
               /\ UNCHANGED <<sent, read>>
    BY <2>1 DEF TypeLine
  <2>2. CASE InputEnds \/ Join \/ ConnectFinishes \/ ReadFails \/ WriteFails \/ ServerCloses
    BY <1>1, <1>3, <2>2 DEF InputEnds, Join, ConnectFinishes, ReadFails, WriteFails, ServerCloses, user
  <2>3. CASE RunPosted \/ RunConnect \/ RunWrite
    BY <1>1, <1>3, <2>3 DEF RunPosted, RunConnect, RunWrite, Runs, DoWrite, DoClose, HandleConnect,
                TryNextEndpoint, HandleConnectError, HandleWrite, HandleWriteError,
                Close, Aborted, AfterConnect, Started, user
  <2>4. CASE Arrived /\ ReadSucceeds
    BY <1>1, <1>3, <2>4 DEF Arrived, ReadSucceeds, user
  <2>5. CASE WriteSucceeds
    <3>1. Head(write_msgs) \in Lines /\ sent' = Append(sent, Head(write_msgs))
      BY <2>5, HeadTailProperties DEF WriteSucceeds, PartsOK, IInv, TypeOK, WritesFromQueue
    <3>. QED  BY <1>1, <1>3, <2>5, <3>1 DEF WriteSucceeds, Arrived, user
  <2>. QED  BY <1>1, <1>3, <2>1, <2>2, <2>3, <2>4, <2>5 DEF ClientAlone
<1>. QED  BY <1>2, <1>3 DEF ClientStep

\* What a step of the server does to the room's log.
LEMMA ServerLogEffect ==
  ASSUME PartsOK, SystemIInv, ServerStep
  PROVE  /\ UNCHANGED vars /\ UNCHANGED printed
         /\ \/ UNCHANGED <<room_log, heard>>
            \/ \E m \in OtherMsgs : room_log' = Append(room_log, m) /\ heard' = heard
            \/ /\ room_log' = Append(room_log, heard + 1) /\ heard' = heard + 1
               /\ heard < Len(sent) /\ heard + 1 \in Lines
               /\ room_phase[Mine] = "started"
<1>1. UNCHANGED vars /\ UNCHANGED printed
  BY DEF ServerStep
<1>2. CASE AcceptClient
  BY <1>1, <1>2 DEF AcceptClient, Server!HandleAccept
<1>3. CASE HearsClient
  <2>1. CASE Server!HandleReadHeader(Mine) /\ UNCHANGED heard
    BY <1>1, <2>1 DEF Server!HandleReadHeader, Server!room
  <2>2. CASE Server!HandleReadBody(Mine, NextMessage) /\ heard' = heard + 1
    <3>1. heard < Len(sent) /\ heard \in Nat
      BY <1>3 DEF HearsClient, SystemIInv, HeardIsSent
    <3>2. heard + 1 \in 1..Len(sent) /\ heard + 1 \in 1..Len(typed)
      BY <3>1, SentIsTyped
    <3>3. NextMessage = heard + 1 /\ NextMessage \in Lines
      BY <3>2, SentIsTyped DEF NextMessage, SystemIInv, Numbered
    <3>4. room_reading[Mine] = "body" /\ room_log' = Append(room_log, NextMessage)
      BY <2>2 DEF Server!HandleReadBody
    <3>5. room_phase[Mine] = "started"
      BY <3>4, MySession DEF PartsOK
    <3>. QED  BY <1>1, <2>2, <3>1, <3>3, <3>4, <3>5
  <2>. QED  BY <1>3, <2>1, <2>2 DEF HearsClient
<1>4. CASE LosesClient
  BY <1>1, <1>4 DEF LosesClient, Server!PeerCloses, Server!room
<1>5. ASSUME NEW s \in Sessions, HearsOthers(s)
      PROVE  \/ UNCHANGED <<room_log, heard>>
             \/ \E m \in OtherMsgs : room_log' = Append(room_log, m) /\ heard' = heard
  BY <1>5 DEF HearsOthers, Server!HandleAccept, Server!HandleReadHeader,
              Server!HandleBadHeader, Server!HandleReadBody, Server!PeerCloses, Server!room
<1>6. ASSUME NEW s \in Sessions, ServerAlone(s)
      PROVE  UNCHANGED <<room_log, heard>>
  BY <1>6 DEF ServerAlone, Server!HandleAcceptError, Server!HandleReadError,
              Server!WriteCompletes, Server!HandleWrite, Server!HandleWriteError, Server!room
<1>. QED  BY <1>1, <1>2, <1>3, <1>4, <1>5, <1>6 DEF ServerStep

\* What a step of the server does to the client's session.
LEMMA ServerSessionEffect ==
  ASSUME PartsOK, SystemIInv, ServerStep
  PROVE  /\ \/ room_sent'[Mine] = room_sent[Mine]
            \/ \E m \in Lines \cup OtherMsgs : room_sent'[Mine] = Append(room_sent[Mine], m)
         /\ \/ /\ room_phase'[Mine] = "started" <=> room_phase[Mine] = "started"
               /\ room_joined'[Mine] = room_joined[Mine]
            \/ /\ room_phase[Mine] # "started" /\ room_log' = room_log
               /\ heard' = heard /\ room_joined'[Mine] \in 0..Len(room_log)
<1>1. /\ room_phase \in [Sessions -> Server!Phases] /\ Mine \in Sessions
      /\ room_joined \in [Sessions -> Nat]
      /\ room_sent \in [Sessions -> Seq(Lines \cup OtherMsgs)]
      /\ Len(room_log) - Len(room_recent_msgs) \in 0..Len(room_log)
  BY MySession, ChatSystemAssumption DEF PartsOK
<1>2. ASSUME NEW ph \in [Sessions -> Server!Phases], Server!StartAccept(ph)
      PROVE  room_phase'[Mine] = "started" <=> ph[Mine] = "started"
  BY <1>1, <1>2 DEF Server!StartAccept
<1>3. CASE AcceptClient
  <2>1. /\ room_phase[Mine] = "accepting"
        /\ room_joined' = [room_joined EXCEPT ![Mine] = Len(room_log) - Len(room_recent_msgs)]
        /\ UNCHANGED <<room_log, room_sent, heard>>
    BY <1>3 DEF AcceptClient, Server!HandleAccept
  <2>. QED  BY <1>1, <2>1
<1>4. ASSUME NEW s \in Sessions, s # Mine,
             Server!HandleAccept(s) \/ Server!HandleAcceptError(s)
      PROVE  /\ room_phase'[Mine] = "started" <=> room_phase[Mine] = "started"
             /\ room_joined'[Mine] = room_joined[Mine] /\ UNCHANGED room_sent
  <2>1. CASE Server!HandleAccept(s)
    <3>1. [room_phase EXCEPT ![s] = "started"] \in [Sessions -> Server!Phases]
      BY <1>1 DEF Server!Phases
    <3>. QED  BY <1>1, <1>2, <1>4, <2>1, <3>1 DEF Server!HandleAccept
  <2>2. CASE Server!HandleAcceptError(s)
    <3>1. [room_phase EXCEPT ![s] = "dropped"] \in [Sessions -> Server!Phases]
      BY <1>1 DEF Server!Phases
    <3>. QED  BY <1>1, <1>2, <1>4, <2>2, <3>1 DEF Server!HandleAcceptError
  <2>. QED  BY <1>4, <2>1, <2>2
<1>5. CASE Server!HandleAcceptError(Mine)
  <2>1. [room_phase EXCEPT ![Mine] = "dropped"] \in [Sessions -> Server!Phases]
    BY <1>1 DEF Server!Phases
  <2>. QED  BY <1>1, <1>2, <1>5, <2>1 DEF Server!HandleAcceptError
<1>6. ASSUME UNCHANGED <<room_phase, room_joined>>,
             \/ UNCHANGED room_sent
             \/ \E s \in Sessions, m \in Lines \cup OtherMsgs :
                  room_sent' = [room_sent EXCEPT ![s] = Append(@, m)]
      PROVE  /\ room_phase'[Mine] = "started" <=> room_phase[Mine] = "started"
             /\ room_joined'[Mine] = room_joined[Mine]
             /\ \/ room_sent'[Mine] = room_sent[Mine]
                \/ \E m \in Lines \cup OtherMsgs : room_sent'[Mine] = Append(room_sent[Mine], m)
  BY <1>1, <1>6
<1>7. CASE HearsClient \/ LosesClient
  BY <1>6, <1>7 DEF HearsClient, LosesClient, Server!HandleReadHeader,
                    Server!HandleReadBody, Server!PeerCloses
<1>8. ASSUME NEW s \in Sessions, HearsOthers(s)
      PROVE  /\ room_phase'[Mine] = "started" <=> room_phase[Mine] = "started"
             /\ room_joined'[Mine] = room_joined[Mine] /\ UNCHANGED room_sent
  BY <1>4, <1>8 DEF HearsOthers, Server!HandleReadHeader, Server!HandleBadHeader,
                    Server!HandleReadBody, Server!PeerCloses
<1>9. ASSUME NEW s \in Sessions, Server!HandleReadError(s) \/ Server!WriteCompletes(s)
      PROVE  /\ UNCHANGED <<room_phase, room_joined>>
             /\ \/ UNCHANGED room_sent
                \/ \E m \in Lines \cup OtherMsgs : room_sent' = [room_sent EXCEPT ![s] = Append(@, m)]
  <2>1. room_in_flight[s] # <<>> => Head(room_in_flight[s]) \in Lines \cup OtherMsgs
    BY HeadTailProperties DEF PartsOK, RoomProofs!IInv, RoomProofs!TypeOK
  <2>. QED
    BY <1>9, <2>1 DEF Server!HandleReadError, Server!WriteCompletes, Server!HandleWrite,
                      Server!HandleWriteError
<1>. QED
  BY <1>3, <1>4, <1>5, <1>6, <1>7, <1>8, <1>9 DEF ServerStep, ServerAlone

\* A step of the client keeps the invariant: what it prints next is what the room
\* has next.
LEMMA ClientKeepsOrder ==
  ASSUME PartsOK, SystemIInv, ClientStep
  PROVE  SystemIInv'
<1>1. /\ room_phase' = room_phase /\ room_log' = room_log
      /\ room_sent' = room_sent /\ room_joined' = room_joined /\ heard' = heard
  BY ClientEffect DEF room_vars
<1>2. /\ typed \in Seq(Lines) /\ sent \in Seq(Lines) /\ Len(sent) <= Len(typed)
      /\ heard \in Nat /\ heard <= Len(sent) /\ Len(sent) \in Nat /\ Len(typed) \in Nat
  BY SentIsTyped DEF SystemIInv, HeardIsSent
<1>3. Numbered' /\ Len(typed') >= Len(typed)
  <2>1. CASE UNCHANGED typed
    BY <1>2, <2>1 DEF SystemIInv, Numbered
  <2>2. CASE typed' = Append(typed, Len(typed) + 1) /\ Len(typed) + 1 \in Lines
    <3>1. /\ DOMAIN typed' = 1..(Len(typed) + 1) /\ Len(typed') = Len(typed) + 1
          /\ \A i \in 1..Len(typed) : typed'[i] = typed[i]
          /\ typed'[Len(typed) + 1] = Len(typed) + 1
      BY <1>2, <2>2, AppendProperties
    <3>. QED  BY <1>2, <3>1 DEF SystemIInv, Numbered
  <2>. QED  BY <2>1, <2>2, ClientEffect
<1>4. HeardIsSent'
  <2>1. Len(sent') >= Len(sent)
    BY <1>2, ClientEffect, AppendProperties
  <2>. QED  BY <1>1, <1>2, <2>1 DEF SystemIInv, HeardIsSent
<1>5. NoneBefore'
  BY <1>1 DEF SystemIInv, NoneBefore
<1>. DEFINE s == room_sent[Mine]
            Msgs == Lines \cup OtherMsgs
<1>6. /\ s \in Seq(Msgs) /\ printed \in Seq(Msgs) /\ Len(printed) <= Len(s)
      /\ \A i \in 1..Len(printed) : printed[i] = s[i]
      /\ Len(printed) \in Nat /\ Len(s) \in Nat
      /\ read = "ok" => Len(printed) < Len(s)
  BY MySession, ChatSystemAssumption DEF PartsOK, SystemIInv, PrintedIsSent
<1>7. \/ /\ printed' = printed
         /\ read' = "ok" => Len(printed) < Len(s)
      \/ /\ read' # "ok" /\ Len(printed) < Len(s)
         /\ printed' = Append(printed, s[Len(printed) + 1])
  BY <1>6, ClientEffect
<1>8. PrintedIsSent' /\ \E n \in 0..heard : FirstLines(printed, n)'
  <2>1. PICK n \in 0..heard : FirstLines(printed, n)
    BY DEF SystemIInv, OwnLinesInOrder
  <2>2. CASE printed' = printed /\ (read' = "ok" => Len(printed) < Len(s))
    BY <1>1, <2>1, <2>2 DEF SystemIInv, PrintedIsSent
  <2>3. CASE /\ read' # "ok" /\ Len(printed) < Len(s)
             /\ printed' = Append(printed, s[Len(printed) + 1])
    <3>. DEFINE m == s[Len(printed) + 1]
    <3>1. m \in Msgs
      BY <1>6, <2>3
    <3>2. /\ printed' \in Seq(Msgs) /\ Len(printed') = Len(printed) + 1
          /\ DOMAIN printed' = 1..(Len(printed) + 1)
          /\ \A i \in 1..Len(printed) : printed'[i] = printed[i]
          /\ printed'[Len(printed) + 1] = m
      BY <1>6, <2>3, <3>1, AppendProperties
    <3>3. PrintedIsSent'
      BY <1>1, <1>6, <2>3, <3>2 DEF PrintedIsSent
    <3>. DEFINE j == room_joined[Mine]
    <3>4. /\ room_log \in Seq(Msgs) /\ j \in Nat
          /\ j + Len(s) <= Len(room_log)
          /\ \A i \in 1..Len(s) : s[i] = room_log[j + i]
          /\ \A i \in 1..j : room_log[i] \notin Lines
      <4>1. room_phase[Mine] = "started"
        <5>1. SUFFICES ASSUME room_phase[Mine] # "started" PROVE FALSE
          OBVIOUS
        <5>2. s = <<>>
          BY <5>1, MySession DEF PartsOK
        <5>. QED  BY <1>6, <2>3, <5>2
      <4>. QED  BY <4>1, MySession, ChatSystemAssumption DEF PartsOK, SystemIInv, NoneBefore
    <3>5. /\ j + Len(printed) < Len(room_log)
          /\ \A i \in 1..Len(printed) : printed[i] = room_log[j + i]
          /\ m = room_log[j + Len(printed) + 1]
      <4>. HIDE DEF s, j
      <4>1. j + Len(printed) < Len(room_log)
        BY <1>6, <2>3, <3>4
      <4>2. Len(printed) + 1 \in 1..Len(s) /\ j + (Len(printed) + 1) = j + Len(printed) + 1
        BY <1>6, <2>3, <3>4
      <4>. QED  BY <1>6, <3>4, <4>1, <4>2
    <3>6. heard <= MaxLines /\ FirstLines(room_log, heard)
      <4>1. heard = 0 \/ heard \in DOMAIN typed
        BY <1>2
      <4>2. heard = 0 \/ heard \in Lines
        BY <1>2, <4>1 DEF SystemIInv, Numbered
      <4>. QED
        BY <1>2, <4>2, ChatClientAssumption, ChatSystemAssumption
           DEF SystemIInv, OwnLinesInOrder
    <3>7. \E r \in 0..heard : FirstLines(Append(printed, room_log[j + Len(printed) + 1]), r)
      <4>. HIDE DEF s, j, Msgs, m
      <4>. QED  BY <1>2, <1>6, <2>1, <3>4, <3>5, <3>6, FirstLinesPrinted
    <3>. QED  BY <2>3, <3>3, <3>5, <3>7
  <2>. QED  BY <1>7, <2>2, <2>3
<1>9. OwnLinesInOrder'
  BY <1>1, <1>2, <1>3, <1>8 DEF SystemIInv, OwnLinesInOrder
<1>. QED  BY <1>3, <1>4, <1>5, <1>8, <1>9 DEF SystemIInv

\* A step of the server keeps the invariant: the line it hears is the next one,
\* and a session it opens starts before the client's first line.
LEMMA ServerKeepsOrder ==
  ASSUME PartsOK, SystemIInv, ServerStep
  PROVE  SystemIInv'
<1>. DEFINE Msgs == Lines \cup OtherMsgs
<1>1. /\ typed' = typed /\ sent' = sent /\ read' = read /\ printed' = printed
  BY ServerLogEffect DEF vars
<1>2. /\ Len(sent) <= Len(typed) /\ Len(sent) \in Nat /\ Len(typed) \in Nat
      /\ heard \in Nat /\ heard <= Len(sent)
      /\ room_phase[Mine] # "started" => heard = 0
  BY SentIsTyped DEF SystemIInv, HeardIsSent
<1>3. /\ room_log \in Seq(Msgs) /\ room_sent[Mine] \in Seq(Msgs)
      /\ room_joined[Mine] \in Nat
      /\ room_phase[Mine] = "started" => room_joined[Mine] <= Len(room_log)
  <2>1. /\ room_log \in Seq(Msgs) /\ room_sent[Mine] \in Seq(Msgs)
        /\ room_joined[Mine] \in Nat
    BY MySession, ChatSystemAssumption DEF PartsOK
  <2>2. room_phase[Mine] = "started" =>
          room_joined[Mine] + Len(room_sent[Mine]) <= Len(room_log)
    BY MySession DEF PartsOK
  <2>. QED  BY <2>1, <2>2
<1>4. Numbered'
  BY <1>1 DEF SystemIInv, Numbered
<1>5. HeardIsSent' /\ heard' <= Len(typed')
  BY <1>1, <1>2, ServerLogEffect, ServerSessionEffect DEF HeardIsSent
<1>6. PrintedIsSent'
  <2>1. /\ Len(room_sent'[Mine]) >= Len(room_sent[Mine])
        /\ \A i \in 1..Len(room_sent[Mine]) : room_sent'[Mine][i] = room_sent[Mine][i]
    BY <1>3, ServerSessionEffect, AppendProperties
  <2>2. /\ printed \in Seq(Msgs) /\ Len(printed) <= Len(room_sent[Mine])
        /\ \A i \in 1..Len(printed) : printed[i] = room_sent[Mine][i]
        /\ read = "ok" => Len(printed) < Len(room_sent[Mine])
    BY DEF SystemIInv, PrintedIsSent
  <2>3. /\ Len(printed) <= Len(room_sent'[Mine])
        /\ \A i \in 1..Len(printed) : printed[i] = room_sent'[Mine][i]
        /\ read = "ok" => Len(printed) < Len(room_sent'[Mine])
    <3>1. Len(printed) \in Nat /\ Len(room_sent[Mine]) \in Nat
      BY <1>3, <2>2
    <3>2. Len(room_sent'[Mine]) \in Nat
      BY <1>3, ServerSessionEffect, AppendProperties
    <3>3. \A i \in 1..Len(printed) : i \in 1..Len(room_sent[Mine])
      BY <2>2, <3>1
    <3>4. \A i \in 1..Len(printed) : printed[i] = room_sent'[Mine][i]
      BY <2>1, <2>2, <3>3
    <3>. QED  BY <2>1, <2>2, <3>1, <3>2, <3>4
  <2>. QED  BY <1>1, <2>2, <2>3 DEF PrintedIsSent
<1>7. FirstLines(room_log, heard)
  BY DEF SystemIInv, OwnLinesInOrder
<1>8. FirstLines(room_log, heard)'
  <2>1. CASE UNCHANGED <<room_log, heard>>
    BY <1>7, <2>1
  <2>2. ASSUME NEW m \in OtherMsgs, room_log' = Append(room_log, m), heard' = heard
        PROVE  FirstLines(room_log, heard)'
    BY <1>2, <1>3, <1>7, <2>2, FirstLinesOther, ChatSystemAssumption
  <2>3. CASE /\ room_log' = Append(room_log, heard + 1) /\ heard' = heard + 1
             /\ heard + 1 \in Lines
    BY <1>2, <1>3, <1>7, <2>3, FirstLinesNext
  <2>. QED  BY <2>1, <2>2, <2>3, ServerLogEffect
<1>9. NoneBefore'
  <2>1. CASE /\ room_phase'[Mine] = "started" <=> room_phase[Mine] = "started"
             /\ room_joined'[Mine] = room_joined[Mine]
    <3>1. \A i \in 1..Len(room_log) : room_log'[i] = room_log[i]
      <4>1. room_log' = room_log \/ \E m \in Msgs : room_log' = Append(room_log, m)
        BY ServerLogEffect
      <4>. QED  BY <1>3, <4>1, AppendProperties
    <3>. QED  BY <1>3, <2>1, <3>1 DEF SystemIInv, NoneBefore
  <2>2. CASE /\ room_phase[Mine] # "started" /\ room_log' = room_log
             /\ heard' = heard /\ room_joined'[Mine] \in 0..Len(room_log)
    <3>1. heard = 0
      BY <1>2, <2>2
    <3>2. \A i \in 1..Len(room_log) : room_log[i] \notin Lines
      BY <1>3, <1>7, <3>1, ChatClientAssumption, ChatSystemAssumption DEF FirstLines
    <3>. QED  BY <1>3, <2>2, <3>2 DEF NoneBefore
  <2>. QED  BY <2>1, <2>2, ServerSessionEffect
<1>10. \E n \in 0..heard' : FirstLines(printed, n)'
  <2>1. heard' \in Nat /\ heard <= heard'
    BY <1>2, ServerLogEffect
  <2>2. PICK n \in 0..heard : FirstLines(printed, n)
    BY DEF SystemIInv, OwnLinesInOrder
  <2>3. n \in 0..heard'
    BY <1>2, <2>1
  <2>. QED  BY <1>1, <2>2, <2>3
<1>. QED
  BY <1>4, <1>5, <1>6, <1>8, <1>9, <1>10 DEF SystemIInv, OwnLinesInOrder

\* Every step of the system preserves the invariant.
LEMMA SystemIInvStep == PartsOK /\ SystemIInv /\ [SystemNext]_systemVars => SystemIInv'
<1> SUFFICES ASSUME PartsOK, SystemIInv, SystemNext \/ UNCHANGED systemVars
             PROVE  SystemIInv'
  BY Zenon
<1>1. CASE UNCHANGED systemVars
  BY <1>1 DEF systemVars, vars, room_vars, SystemIInv, Numbered, HeardIsSent,
              PrintedIsSent, NoneBefore, OwnLinesInOrder, FirstLines
<1>. QED  BY <1>1, ClientKeepsOrder, ServerKeepsOrder DEF SystemNext

\* From the keyboard through the client, the room and back to the screen the
\* user's lines keep their order, none twice and none left out before another,
\* for any number of sessions, lines, endpoints and messages of other clients.
THEOREM OrderInSystem == SystemSpec => []OwnLinesInOrder
<1>1. SystemSpec => []PartsOK
  BY ClientInSystem, Invariance, RoomInvariance, PTL DEF PartsOK
<1>2. SystemIInv => OwnLinesInOrder
  BY DEF SystemIInv
<1>. QED  BY <1>1, <1>2, SystemInitIInv, SystemIInvStep, PTL DEF SystemSpec

\* Also with this client among its peers every session is sent a stretch of the
\* room's log without a gap, a repetition or a swap.
THEOREM StreamsInSystem == SystemSpec => []Server!StreamsFollowLog
<1>1. RoomProofs!IInv => Server!StreamsFollowLog
  BY DEF RoomProofs!IInv, Server!StreamsFollowLog,
         RoomProofs!HistoryIsLogSuffix, Server!HistoryIsLogSuffix,
         RoomProofs!GaplessStreams, Server!GaplessStreams, RoomProofs!StreamEnd,
         Server!StreamEnd, RoomProofs!Started, Server!Started,
         RoomProofs!IsWindow, Server!IsWindow
<1>. QED  BY <1>1, RoomInvariance, PTL

-----------------------------------------------------------------------------
(* The header of a message, ChatMessage: what is printed is read back.     *)

\* Every set of numbers that has an element has a least one.
LEMMA LeastNumber ==
  ASSUME NEW T, T \subseteq Nat, T # {}
  PROVE  \E m \in T : \A k \in T : m <= k
<1>1. PICK x \in T : \A y \in T : ~ (<<y, x>> \in OpToRel(<, Nat))
  BY NatLessThanWellFounded, WFMin
<1>2. \A k \in T : ~(k < x)
  BY <1>1 DEF OpToRel
<1>. QED  BY <1>2

\* The prefix ends where the first character outside of C is.
LEMMA PrefixEnds ==
  ASSUME NEW s \in Seq(Int), NEW C, NEW n \in 0..Len(s),
         \A i \in 1..n : s[i] \in C, n = Len(s) \/ s[n + 1] \notin C
  PROVE  PrefixIn(s, C) = SubSeq(s, 1, n)
<1>. DEFINE Ends(m) == (\A i \in 1..m : s[i] \in C) /\ (m = Len(s) \/ s[m + 1] \notin C)
<1>1. \A m \in 0..Len(s) : Ends(m) => m = n
  <2>1. SUFFICES ASSUME NEW m \in 0..Len(s), Ends(m), m # n PROVE FALSE
    OBVIOUS
  <2>2. CASE m < n
    <3>1. m + 1 \in 1..n /\ m # Len(s)
      BY <2>2
    <3>. QED  BY <2>1, <3>1
  <2>3. CASE n < m
    <3>1. n + 1 \in 1..m /\ n # Len(s)
      BY <2>3
    <3>. QED  BY <2>1, <3>1
  <2>. QED  BY <2>1, <2>2, <2>3
<1>2. Ends(n)
  OBVIOUS
<1>3. (CHOOSE m \in 0..Len(s) : Ends(m)) = n
  BY <1>1, <1>2
<1>. QED  BY <1>3 DEF PrefixIn

\* There always is a prefix, and it is no longer than the text.
LEMMA PrefixType ==
  ASSUME NEW s \in Seq(Int), NEW C
  PROVE  PrefixIn(s, C) \in Seq(Int) /\ Len(PrefixIn(s, C)) <= Len(s)
<1>. DEFINE T == {m \in 0..Len(s) : m = Len(s) \/ s[m + 1] \notin C}
<1>1. T \subseteq Nat /\ Len(s) \in T
  OBVIOUS
<1>2. PICK n \in T : \A k \in T : n <= k
  BY <1>1, LeastNumber, Zenon
<1>3. ASSUME NEW i \in 1..n PROVE s[i] \in C
  <2>1. i - 1 \in 0..Len(s) /\ i - 1 < n /\ (i - 1) + 1 = i
    OBVIOUS
  <2>2. i - 1 \notin T
    <3>1. SUFFICES ASSUME i - 1 \in T PROVE FALSE
      OBVIOUS
    <3>2. n <= i - 1
      BY <1>2, <3>1
    <3>. QED  BY <2>1, <3>2
  <2>. QED  BY <2>1, <2>2
<1>4. PrefixIn(s, C) = SubSeq(s, 1, n)
  BY <1>3, PrefixEnds
<1>. QED  BY <1>4

\* One more digit, when there is one.
OneMore(v, there, c) == IF there THEN 10 * v + (c - 48) ELSE v

\* The number that the digits at the positions S stand for, of four at most.
Number(digits, S) ==
  OneMore(OneMore(OneMore(OneMore(0, 1 \in S, digits[1]), 2 \in S, digits[2]),
                  3 \in S, digits[3]), 4 \in S, digits[4])

\* The greatest of at most four positions.
LEMMA MaxOfFew ==
  ASSUME NEW S, S \subseteq 1..4, S # {}
  PROVE  Max(S) \in S /\ \A k \in S : k <= Max(S)
<1>1. \E x \in S : \A y \in S : x >= y
  <2>1. CASE 4 \in S
    BY <2>1
  <2>2. CASE 4 \notin S /\ 3 \in S
    BY <2>2
  <2>3. CASE 4 \notin S /\ 3 \notin S /\ 2 \in S
    BY <2>3
  <2>4. CASE 4 \notin S /\ 3 \notin S /\ 2 \notin S
    <3>1. PICK y \in S : TRUE
      OBVIOUS
    <3>2. \A z \in S : z = 1
      BY <2>4
    <3>. QED  BY <3>1, <3>2
  <2>. QED  BY <2>1, <2>2, <2>3, <2>4
<1>2. Max(S) \in S /\ \A y \in S : Max(S) >= y
  BY <1>1 DEF Max
<1>. QED  BY <1>2

\* The last digit counts once, the digits before it ten times.
LEMMA NumberGrows ==
  ASSUME NEW digits, NEW S, S \subseteq 1..4, S # {}, NEW x \in S, \A k \in S : k <= x
  PROVE  Number(digits, S) = 10 * Number(digits, S \ {x}) + (digits[x] - 48)
<1>1. CASE x = 4
  BY <1>1 DEF Number, OneMore
<1>2. CASE x = 3
  BY <1>2 DEF Number, OneMore
<1>3. CASE x = 2
  BY <1>3 DEF Number, OneMore
<1>4. CASE x = 1
  BY <1>4 DEF Number, OneMore
<1>. QED  BY <1>1, <1>2, <1>3, <1>4

\* The fold of Value() over at most four digits is the number they stand for: that
\* number satisfies the equation by which the fold is defined, and the equation has
\* one solution.
LEMMA ValueOfDigits ==
  ASSUME NEW digits \in Seq(Int), Len(digits) <= 4
  PROVE  Value(digits) = Number(digits, 1..Len(digits))
<1>1. Len(digits) \in 0..4
  <2>1. Len(digits) \in Nat
    BY LenProperties
  <2>2. \A l \in Nat : l <= 4 => l \in 0..4
    OBVIOUS
  <2>. QED  BY <2>1, <2>2
<1>. DEFINE D == DOMAIN digits
            F(f) == [s \in SUBSET D |->
                       IF s = {} THEN 0
                       ELSE 10 * f[s \ {Max(s)}] + (digits[Max(s)] - 48)]
            iter == CHOOSE f : f = F(f)
            g == [s \in SUBSET D |-> Number(digits, s)]
<1>2. Value(digits) = iter[D]
  BY DEF Value, FoldLeft, MapThenFoldSet
<1>3. D \subseteq 1..4 /\ D = 1..Len(digits)
  OBVIOUS
<1>4. ASSUME NEW s \in SUBSET D, s # {}
      PROVE  /\ Max(s) \in s /\ s \ {Max(s)} \in SUBSET D
             /\ Number(digits, s) = 10 * Number(digits, s \ {Max(s)}) + (digits[Max(s)] - 48)
  <2>1. s \subseteq 1..4
    BY <1>3
  <2>2. Max(s) \in s /\ \A k \in s : k <= Max(s)
    BY <1>4, <2>1, MaxOfFew
  <2>. QED  BY <1>4, <2>1, <2>2, NumberGrows
<1>5. g = F(g)
  <2>1. Number(digits, {}) = 0
    BY DEF Number, OneMore
  <2>. QED  BY <1>4, <2>1
<1>6. iter = F(iter)
  BY <1>5
<1>. HIDE DEF iter
<1>7. ASSUME NEW s \in SUBSET D, NEW t \in SUBSET D, s = {} \/ (t = s \ {Max(s)} /\ iter[t] = g[t])
      PROVE  iter[s] = g[s]
  <2>1. CASE s = {}
    BY <1>6, <1>5, <2>1
  <2>2. CASE s # {}
    <3>1. iter[s] = 10 * iter[t] + (digits[Max(s)] - 48)
      BY <1>6, <1>7, <2>2
    <3>2. g[s] = 10 * g[t] + (digits[Max(s)] - 48)
      BY <1>4, <1>7, <2>2
    <3>. QED  BY <3>1, <3>2, <1>7, <2>2
  <2>. QED  BY <2>1, <2>2
<1>8. ASSUME NEW m \in 1..Len(digits), iter[1..(m - 1)] = g[1..(m - 1)]
      PROVE  iter[1..m] = g[1..m]
  <2>1. m \in 1..4 /\ m \in 1..Len(digits)
    BY <1>3
  <2>2. 1..m # {} /\ 1..m \subseteq 1..4
    BY <2>1
  <2>3. 1..m \subseteq 1..Len(digits) /\ 1..(m - 1) \subseteq 1..Len(digits)
    BY <2>1
  <2>4. Max(1..m) \in 1..m /\ \A k \in 1..m : k <= Max(1..m)
    BY <2>2, MaxOfFew
  <2>5. Max(1..m) = m
    BY <2>1, <2>4
  <2>6. 1..(m - 1) = (1..m) \ {Max(1..m)}
    BY <2>1, <2>5
  <2>. QED  BY <1>3, <1>7, <1>8, <2>3, <2>6
<1>9. iter[{}] = g[{}]
  <2>1. {} \in SUBSET D
    OBVIOUS
  <2>2. iter[{}] = 0
    BY <1>6, <2>1
  <2>3. g[{}] = 0
    BY <1>5, <2>1
  <2>. QED  BY <2>2, <2>3
<1>. DEFINE Q(m) == iter[1..m] = g[1..m]
<1>10. Q(0)
  <2>1. 1..0 = {}
    OBVIOUS
  <2>. QED  BY <1>9, <2>1
<1>11. \A m \in 1..Len(digits) : Q(m - 1) => Q(m)
  BY <1>8
<1>. HIDE DEF Q
<1>12. Q(Len(digits))
  <2>1. \A m \in 1..Len(digits), l \in 0..4 : l + 1 = m => (Q(l) => Q(m))
    BY <1>11, <1>1
  <2>2. 1 <= Len(digits) => Q(1)
    BY <1>10, <1>1, <2>1
  <2>3. 2 <= Len(digits) => Q(2)
    BY <1>1, <2>1, <2>2
  <2>4. 3 <= Len(digits) => Q(3)
    BY <1>1, <2>1, <2>3
  <2>5. 4 <= Len(digits) => Q(4)
    BY <1>1, <2>1, <2>4
  <2>. QED  BY <1>10, <1>1, <2>2, <2>3, <2>4, <2>5
<1>13. iter[1..Len(digits)] = g[1..Len(digits)]
  BY <1>12 DEF Q
<1>. QED  BY <1>2, <1>3, <1>13

\* So it is a number, whatever the four characters are.
LEMMA ValueType ==
  ASSUME NEW digits \in Seq(Int), Len(digits) <= 4 PROVE Value(digits) \in Int
<1>1. \A v \in Int, i \in 1..4 : OneMore(v, i \in 1..Len(digits), digits[i]) \in Int
  BY ElementOfSeq DEF OneMore
<1>2. Number(digits, 1..Len(digits)) \in Int
  <2>. DEFINE n1 == OneMore(0, 1 \in 1..Len(digits), digits[1])
              n2 == OneMore(n1, 2 \in 1..Len(digits), digits[2])
              n3 == OneMore(n2, 3 \in 1..Len(digits), digits[3])
              n4 == OneMore(n3, 4 \in 1..Len(digits), digits[4])
  <2>1. n1 \in Int
    BY <1>1
  <2>. HIDE DEF n1
  <2>2. n2 \in Int
    BY <1>1, <2>1
  <2>. HIDE DEF n2
  <2>3. n3 \in Int
    BY <1>1, <2>2
  <2>. HIDE DEF n3
  <2>4. n4 \in Int
    BY <1>1, <2>3
  <2>. QED  BY <2>4 DEF Number, n1, n2, n3
<1>. QED  BY <1>2, ValueOfDigits

\* atoi() returns a number for any four characters.
LEMMA AtoiType ==
  ASSUME NEW s \in Seq(Int), Len(s) <= 4 PROVE Atoi(s) \in Int
<1>. DEFINE n == Len(PrefixIn(s, {Space}))
            text == Drop(s, n)
            signed == text # <<>> /\ text[1] \in {Plus, Minus}
            rest == IF signed THEN Tail(text) ELSE text
            digits == PrefixIn(rest, Digits)
<1>1. n \in 0..Len(s)
  BY PrefixType, LenProperties
<1>2. text \in Seq(Int) /\ Len(text) <= 4
  BY <1>1, SubSeqProperties DEF Drop
<1>. HIDE DEF text
<1>3. rest \in Seq(Int) /\ Len(rest) <= 4
  BY <1>2, HeadTailProperties
<1>. HIDE DEF rest
<1>4. digits \in Seq(Int) /\ Len(digits) <= 4
  BY <1>3, PrefixType, LenProperties
<1>. HIDE DEF digits
<1>5. Value(digits) \in Int
  BY <1>4, ValueType
<1>6. Atoi(s) = IF signed /\ text[1] = Minus THEN -Value(digits) ELSE Value(digits)
  BY DEF Atoi, digits, rest, text
<1>. QED  BY <1>5, <1>6

\* What "%4d" prints of a number below 1000 is that number.
LEMMA DecimalDigitsType ==
  ASSUME NEW n \in 0..999
  PROVE  /\ DecimalDigits(n) \in Seq(Digits)
         /\ Len(DecimalDigits(n)) \in 1..3
         /\ Number(DecimalDigits(n), 1..Len(DecimalDigits(n))) = n
<1>1. CASE n < 10
  <2>1. DecimalDigits(n) = <<48 + n>>
    BY <1>1 DEF DecimalDigits
  <2>2. 48 + n \in Digits
    BY <1>1 DEF Digits
  <2>. QED  BY <2>1, <2>2 DEF Number, OneMore
<1>2. CASE n >= 10 /\ n < 100
  <2>. DEFINE d1 == n \div 10
              d2 == n % 10
  <2>1. DecimalDigits(n) = <<48 + d1, 48 + d2>>
    BY <1>2 DEF DecimalDigits
  <2>2. d1 \in 0..9 /\ d2 \in 0..9 /\ n = 10 * d1 + d2
    BY <1>2
  <2>. HIDE DEF d1, d2
  <2>3. 48 + d1 \in Digits /\ 48 + d2 \in Digits
    BY <2>2 DEF Digits
  <2>. QED  BY <2>1, <2>2, <2>3 DEF Number, OneMore
<1>3. CASE n >= 100
  <2>. DEFINE d1 == n \div 100
              d2 == (n \div 10) % 10
              d3 == n % 10
  <2>1. DecimalDigits(n) = <<48 + d1, 48 + d2, 48 + d3>>
    BY <1>3 DEF DecimalDigits
  <2>2. d1 \in 0..9 /\ d2 \in 0..9 /\ d3 \in 0..9 /\ n = 100 * d1 + 10 * d2 + d3
    BY <1>3
  <2>. HIDE DEF d1, d2, d3
  <2>3. 48 + d1 \in Digits /\ 48 + d2 \in Digits /\ 48 + d3 \in Digits
    BY <2>2 DEF Digits
  <2>. QED  BY <2>1, <2>2, <2>3 DEF Number, OneMore
<1>. QED  BY <1>1, <1>2, <1>3

\* Fewer than four digits, padded on the left, are all read, and nothing else.
LEMMA AtoiOfPadded ==
  ASSUME NEW digits \in Seq(Digits), Len(digits) \in 1..3
  PROVE  /\ Padded(digits) \in Seq(Int) /\ Len(Padded(digits)) = 4
         /\ Copied(Padded(digits)) = Padded(digits)
         /\ Atoi(Padded(digits)) = Value(digits)
<1>. DEFINE k == 4 - Len(digits)
            pad == [i \in 1..k |-> Space]
            s == Padded(digits)
<1>1. /\ k \in 1..3 /\ pad \in Seq(Int) /\ Len(pad) = k
      /\ digits \in Seq(Int) /\ Len(digits) = 4 - k
  <2>1. k \in 1..3 /\ Len(digits) = 4 - k
    <3>1. \A l \in 1..3 : 4 - l \in 1..3 /\ l = 4 - (4 - l)
      OBVIOUS
    <3>. QED  BY <3>1
  <2>2. digits \in Seq(Int)
    BY SeqMonotonic DEF Digits
  <2>3. k \in Nat /\ Space \in Int
    BY <2>1 DEF Space
  <2>. HIDE DEF k
  <2>4. pad \in Seq(Int) /\ Len(pad) = k
    BY <2>3
  <2>. QED  BY <2>1, <2>2, <2>4
<1>2. s = pad \o digits
  BY DEF Padded, HeaderLength
<1>. HIDE DEF pad, s, k
<1>3. /\ s \in Seq(Int) /\ Len(s) = 4
      /\ \A i \in 1..4 : s[i] = IF i <= k THEN pad[i] ELSE digits[i - k]
  BY <1>1, <1>2, ConcatProperties
<1>4. \A i \in 1..k : s[i] = Space
  BY <1>1, <1>3 DEF pad
<1>5. \A j \in 1..Len(digits) : s[k + j] = digits[j] /\ digits[j] \in Digits
  BY <1>1, <1>3
<1>6. Copied(s) = s
  <2>1. ASSUME NEW i \in 1..4 PROVE s[i] \in 1..255
    <3>1. CASE i <= k
      <4>1. i \in 1..k
        BY <1>1, <3>1
      <4>2. s[i] = 32
        BY <1>4, <4>1 DEF Space
      <4>. QED  BY <4>2
    <3>2. CASE i > k
      <4>1. i - k \in 1..Len(digits) /\ k + (i - k) = i
        BY <1>1, <3>2
      <4>2. s[i] \in Digits
        BY <1>5, <4>1
      <4>. QED  BY <4>2 DEF Digits
    <3>. QED  BY <1>1, <3>1, <3>2
  <2>2. PrefixIn(s, 1..255) = SubSeq(s, 1, Len(s))
    <3>1. \A i \in 1..Len(s) : s[i] \in 1..255
      BY <1>3, <2>1
    <3>2. Len(s) \in 0..Len(s)
      BY <1>3
    <3>. QED  BY <1>3, <3>1, <3>2, PrefixEnds
  <2>. QED  BY <1>3, <2>2, SubSeqFull DEF Copied
<1>7. Len(PrefixIn(s, {Space})) = k
  <2>1. s[k + 1] \notin {Space}
    <3>1. 1 \in 1..Len(digits)
      BY <1>1
    <3>2. s[k + 1] \in 48..57
      BY <1>5, <3>1 DEF Digits
    <3>. QED  BY <3>2 DEF Space
  <2>2. PrefixIn(s, {Space}) = SubSeq(s, 1, k)
    <3>1. k \in 0..Len(s)
      BY <1>1, <1>3
    <3>2. \A i \in 1..k : s[i] \in {Space}
      BY <1>4
    <3>. QED  BY <1>3, <2>1, <3>1, <3>2, PrefixEnds
  <2>. QED  BY <1>1, <1>3, <2>2, SubSeqProperties
<1>8. Drop(s, k) = digits
  <2>1. Drop(s, k) = SubSeq(s, k + 1, 4)
    BY <1>3 DEF Drop
  <2>2. /\ SubSeq(s, k + 1, 4) \in Seq(Int)
        /\ Len(SubSeq(s, k + 1, 4)) = Len(digits)
        /\ \A j \in 1..Len(digits) : SubSeq(s, k + 1, 4)[j] = digits[j]
    BY <1>1, <1>3, <1>5, SubSeqProperties
  <2>. QED  BY <1>1, <2>1, <2>2, SeqEqual
<1>9. digits # <<>> /\ digits[1] \notin {Plus, Minus}
  <2>1. 1 \in 1..Len(digits)
    BY <1>1
  <2>2. digits[1] \in 48..57
    BY <1>5, <2>1 DEF Digits
  <2>. QED  BY <2>1, <2>2 DEF Plus, Minus
<1>10. PrefixIn(digits, Digits) = digits
  BY <1>1, <1>5, PrefixEnds, SubSeqFull
<1>11. Atoi(s) = Value(digits)
  BY <1>7, <1>8, <1>9, <1>10 DEF Atoi
<1>. QED  BY <1>3, <1>6, <1>11 DEF s

-----------------------------------------------------------------------------
(* The message.                                                            *)

\* The header that encode_header() has written says the length the message has.
HeaderIsMine == role = "self" => header = Padded(DecimalDigits(body_length))

\* A header is four characters.
HeaderType == header = <<>> \/ (header \in Seq(Int) /\ Len(header) = 4)

\* The inductive invariant of a message.
MessageIInv == MessageTypeOK /\ HeaderType /\ HeaderIsMine /\ (header = <<>> => role = "none")

\* Every length that body_length() allows is read back from its header.
LEMMA MyHeader ==
  ASSUME NEW n \in 0..MaxBody
  PROVE  /\ Padded(DecimalDigits(n)) \in Seq(Int) /\ Len(Padded(DecimalDigits(n))) = 4
         /\ ToSize(Atoi(Copied(Padded(DecimalDigits(n))))) = n
<1>1. n \in 0..999 /\ SizeMod \in Nat /\ n < SizeMod
  BY ChatMessageAssumption
<1>2. /\ DecimalDigits(n) \in Seq(Digits)
      /\ Len(DecimalDigits(n)) \in 1..3
      /\ Number(DecimalDigits(n), 1..Len(DecimalDigits(n))) = n
  BY <1>1, DecimalDigitsType
<1>3. DecimalDigits(n) \in Seq(Int) /\ Len(DecimalDigits(n)) <= 4
  <2>1. Digits \subseteq Int
    BY DEF Digits
  <2>2. DecimalDigits(n) \in Seq(Int)
    BY <1>2, <2>1, SeqMonotonic
  <2>3. \A l \in 1..3 : l <= 4
    OBVIOUS
  <2>. QED  BY <1>2, <2>2, <2>3
<1>4. Value(DecimalDigits(n)) = n
  BY <1>2, <1>3, ValueOfDigits
<1>5. n % SizeMod = n
  BY <1>1
<1>. QED  BY <1>2, <1>4, <1>5, AtoiOfPadded DEF ToSize

\* Whatever the header is, a length is read from it.
LEMMA AnyHeader ==
  ASSUME header \in Seq(Int), Len(header) = 4 PROVE DecodedLength \in Nat
<1>1. Copied(header) \in Seq(Int) /\ Len(Copied(header)) <= 4
  BY PrefixType DEF Copied
<1>2. Atoi(Copied(header)) \in Int
  BY <1>1, AtoiType
<1>3. SizeMod \in Nat \ {0}
  BY ChatMessageAssumption
<1>4. \A a \in Int, m \in Nat \ {0} : a % m \in Nat
  OBVIOUS
<1>. QED  BY <1>2, <1>3, <1>4 DEF DecodedLength, ToSize

\* So a message of this program is read as it was written.
LEMMA MineDecodes == MessageIInv /\ role = "self" => DecodedLength = body_length
BY MyHeader DEF MessageIInv, MessageTypeOK, HeaderIsMine, DecodedLength

\* What a read puts into data() is a header.
LEMMA FourCharacters ==
  ASSUME NEW h \in [1..4 -> HeaderChars] PROVE h \in Seq(Int) /\ Len(h) = 4
<1>1. \A c \in HeaderChars : c \in Int
  BY ChatMessageAssumption
<1>2. \A i \in 1..4 : h[i] \in Int
  BY <1>1
<1>3. h = [i \in 1..4 |-> h[i]]
  OBVIOUS
<1>4. [i \in 1..4 |-> h[i]] \in Seq(Int) /\ Len([i \in 1..4 |-> h[i]]) = 4
  BY <1>2
<1>. QED  BY <1>3, <1>4

\* Every operation on a message preserves the invariant.
LEMMA MessageStep == MessageIInv /\ [MessageNext]_messageVars => MessageIInv'
<1> SUFFICES ASSUME MessageIInv, [MessageNext]_messageVars PROVE MessageIInv'
  OBVIOUS
<1>. USE DEF MessageIInv, MessageTypeOK, HeaderType, HeaderIsMine
<1>0. 0 \in 0..MaxBody /\ MaxBody \in 0..MaxBody /\ MaxBody \in Nat
  BY ChatMessageAssumption
<1>1. CASE SetBodyLength
  BY <1>0, <1>1, ChatMessageAssumption DEF SetBodyLength, TooLong
<1>2. CASE EncodeHeader
  <2>1. header' \in Seq(Int) /\ Len(header') = 4
    BY <1>2, MyHeader DEF EncodeHeader
  <2>2. header' # <<>>
    BY <2>1
  <2>. QED  BY <1>2, <2>1, <2>2 DEF EncodeHeader, HeaderLength
<1>3. CASE ReceiveHeader
  <2>1. header' \in Seq(Int) /\ Len(header') = 4
    BY <1>3, FourCharacters DEF ReceiveHeader, HeaderLength
  <2>2. header' # <<>>
    BY <2>1
  <2>. QED  BY <1>3, <2>1, <2>2 DEF ReceiveHeader, HeaderLength
<1>4. CASE DecodeHeader
  <2>1. DecodedLength \in 0..MaxBody
    BY <1>0, <1>4, AnyHeader DEF DecodeHeader, TooLong
  <2>2. role = "self" => body_length' = body_length
    BY <1>4, MineDecodes DEF DecodeHeader
  <2>. QED  BY <1>4, <2>1, <2>2 DEF DecodeHeader
<1>5. CASE DecodeHeaderRefuses
  <2>1. role # "self"
    BY <1>0, <1>5, MineDecodes DEF DecodeHeaderRefuses, TooLong
  <2>. QED  BY <1>0, <1>5, <2>1 DEF DecodeHeaderRefuses
<1>6. CASE UNCHANGED messageVars
  BY <1>6 DEF messageVars
<1>. QED  BY <1>1, <1>2, <1>3, <1>4, <1>5, <1>6 DEF MessageNext

\* Both ends agree on the length of a body, and none is longer than its memory: for
\* every MaxBody below 1000, the 512 of the code among them, and all bytes that a
\* peer may send.
THEOREM LengthsCorrect == MessageSpec => []LengthsAreSound
<1>1. MessageInit => MessageIInv
  BY ChatMessageAssumption DEF MessageInit, MessageIInv, MessageTypeOK, HeaderType, HeaderIsMine
<1>2. MessageIInv => LengthsAreSound
  BY MineDecodes DEF LengthsAreSound, RoundTrip, MessageIInv
<1>. QED  BY <1>1, <1>2, MessageStep, PTL DEF MessageSpec
=============================================================================
