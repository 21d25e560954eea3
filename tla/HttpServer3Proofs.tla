------------------------- MODULE HttpServer3Proofs -------------------------
(***************************************************************************)
(* Theorems about HttpServer3, for every number of sockets and objects.    *)
(***************************************************************************)
EXTENDS HttpServer3, TLAPS

\* ForksApart without the signal.
Apart ==
  /\ coroutines \subseteq Coroutine
  /\ \A k \in coroutines : k.at = "accept" <=> k.objects = NoObjects
  /\ NothingShared
  /\ OneListener

\* The parts of ForksApart.
LEMMA ForksApartParts == ForksApart <=> Apart /\ signals \in {"waiting", "raised", "handled"}
BY DEF ForksApart, Apart, TypeOK

\* A coroutine that has begun to wait is a Coroutine.
LEMMA WaitingType ==
  ASSUME NEW at \in {"accept", "read", "write"}, NEW s \in Sockets,
         NEW o \in Objects \cup {NoObjects}
  PROVE  /\ Waiting(at, s, o) \in Coroutine
         /\ Waiting(at, s, o).at = at
         /\ Waiting(at, s, o).socket = s /\ Waiting(at, s, o).objects = o
BY DEF Waiting, Coroutine

\* A coroutine that goes on with its socket and its objects, in the loop or behind
\* it as before, shares nothing that it did not share.
LEMMA GoesOnApart ==
  ASSUME Apart, NEW k \in coroutines, NEW m \in Coroutine,
         m.socket = k.socket, m.objects = k.objects,
         m.at = "accept" <=> k.at = "accept",
         coroutines' = (coroutines \ {k}) \cup {m}
  PROVE  Apart'
<1>1. coroutines' \subseteq Coroutine
  BY DEF Apart
<1>2. \A l \in coroutines' : l.at = "accept" <=> l.objects = NoObjects
  BY DEF Apart
<1>3. NothingShared'
  BY DEF Apart, NothingShared
<1>4. OneListener'
  BY DEF Apart, OneListener, AcceptLoop
<1>. QED  BY <1>1, <1>2, <1>3, <1>4 DEF Apart

\* fork leaves two coroutines with nothing in common, one of them in the loop.
LEMMA ForkApart ==
  ASSUME Apart, NEW k \in coroutines, ResumeAccept(k)
  PROVE  Apart'
<1>1. k \in Coroutine /\ k.at = "accept" /\ k.objects = NoObjects /\ k.socket \in Sockets
  BY DEF Apart, ResumeAccept, Coroutine
<1>2. PICK s \in FreeSockets, o \in FreeObjects :
        coroutines' = (coroutines \ {k}) \cup Forked(k, s, o)
  BY DEF ResumeAccept
<1>. DEFINE child == Waiting("read", k.socket, o)
            parent == Waiting("accept", s, NoObjects)
<1>3. coroutines' = (coroutines \ {k}) \cup {child, parent}
  BY <1>1, <1>2 DEF Forked, Made, NextSocket
<1>4. /\ s \in Sockets /\ o \in Objects /\ o # NoObjects
      /\ \A l \in coroutines : l.socket # s /\ l.objects # o
  BY HttpServer3Assumption DEF FreeSockets, FreeObjects
<1>5. /\ child \in Coroutine /\ child.at = "read"
      /\ child.socket = k.socket /\ child.objects = o
  BY <1>1, <1>4, WaitingType
<1>6. /\ parent \in Coroutine /\ parent.at = "accept"
      /\ parent.socket = s /\ parent.objects = NoObjects
  BY <1>4, WaitingType
<1>. HIDE DEF child, parent
<1>7. coroutines' \subseteq Coroutine
  BY <1>3, <1>5, <1>6 DEF Apart
<1>8. \A l \in coroutines' : l.at = "accept" <=> l.objects = NoObjects
  BY <1>3, <1>4, <1>5, <1>6 DEF Apart
<1>9. NothingShared'
  BY <1>1, <1>3, <1>4, <1>5, <1>6 DEF Apart, NothingShared
<1>10. OneListener'
  <2>1. \A l \in coroutines : l.at = "accept" => l = k
    BY <1>1 DEF Apart, OneListener, AcceptLoop
  <2>2. \A l \in coroutines' : l.at = "accept" => l = parent
    BY <1>3, <1>5, <2>1
  <2>. QED  BY <2>2 DEF OneListener, AcceptLoop
<1>. QED  BY <1>7, <1>8, <1>9, <1>10 DEF Apart

\* The first coroutine is alone.
LEMMA InitApart == Init => Apart
<1> SUFFICES ASSUME Init PROVE Apart
  OBVIOUS
<1>1. PICK s \in Sockets : coroutines = {Waiting("accept", s, NoObjects)}
  BY DEF Init
<1>2. /\ Waiting("accept", s, NoObjects) \in Coroutine
      /\ Waiting("accept", s, NoObjects).at = "accept"
      /\ Waiting("accept", s, NoObjects).objects = NoObjects
  BY WaitingType
<1>. QED  BY <1>1, <1>2 DEF Apart, NothingShared, OneListener, AcceptLoop

\* Whatever operation finishes and whichever coroutine is resumed, they stay apart.
LEMMA ApartStep == Apart /\ [Next]_vars => Apart'
<1> SUFFICES ASSUME Apart, Next \/ UNCHANGED vars PROVE Apart'
  OBVIOUS
<1>1. ASSUME NEW k \in coroutines, Finishes(k) PROVE Apart'
  <2>1. k \in Coroutine
    BY DEF Apart
  <2>2. PICK r \in {"ok", "error"} :
          coroutines' = (coroutines \ {k}) \cup {[k EXCEPT !.result = r]}
    BY <1>1 DEF Finishes
  <2>. DEFINE m == [k EXCEPT !.result = r]
  <2>3. m \in Coroutine /\ m.socket = k.socket /\ m.objects = k.objects /\ m.at = k.at
    BY <2>1 DEF Coroutine
  <2>. HIDE DEF m
  <2>4. coroutines' = (coroutines \ {k}) \cup {m}
    BY <2>2 DEF m
  <2>. QED  BY <2>3, <2>4, GoesOnApart
<1>2. ASSUME NEW k \in coroutines, Resume(k) PROVE Apart'
  <2>1. k \in Coroutine /\ k.socket \in Sockets /\ k.objects \in Objects \cup {NoObjects}
    BY DEF Apart, Coroutine
  <2>2. CASE ResumeAccept(k)
    BY <2>2, ForkApart
  <2>3. ASSUME NEW at \in {"read", "write"}, k.at # "accept",
               coroutines' = (coroutines \ {k}) \cup {Waiting(at, k.socket, k.objects)}
        PROVE  Apart'
    <3>. DEFINE m == Waiting(at, k.socket, k.objects)
    <3>1. /\ m \in Coroutine /\ m.at = at
          /\ m.socket = k.socket /\ m.objects = k.objects
      BY <2>1, WaitingType
    <3>. HIDE DEF m
    <3>2. coroutines' = (coroutines \ {k}) \cup {m}
      BY <2>3 DEF m
    <3>3. m.at = "accept" <=> k.at = "accept"
      BY <2>3, <3>1
    <3>. QED  BY <3>1, <3>2, <3>3, GoesOnApart
  <2>4. CASE ResumeReadMore(k) \/ ResumeReadReply(k)
    BY <2>3, <2>4 DEF ResumeReadMore, ResumeReadReply
  <2>5. CASE ResumeWrite(k) \/ NotReentered(k)
    <3>1. coroutines' = coroutines \ {k}
      BY <2>5 DEF ResumeWrite, AfterReply, NotReentered
    <3>. QED  BY <3>1 DEF Apart, NothingShared, OneListener, AcceptLoop
  <2>. QED  BY <1>2, <2>2, <2>4, <2>5 DEF Resume
<1>3. CASE UNCHANGED coroutines
  BY <1>3 DEF Apart, NothingShared, OneListener, AcceptLoop
<1>4. CASE HandleStop
  BY <1>4 DEF HandleStop, Apart, NothingShared, OneListener, AcceptLoop
<1>. QED
  BY <1>1, <1>2, <1>3, <1>4 DEF Next, SignalArrives, Terminated, vars

\* After every fork the two coroutines go on apart: no socket, buffer, request or
\* reply belongs to two of them, and one alone accepts, however many connections
\* there are.
THEOREM ForksStayApart == Spec => []ForksApart
<1>1. Init => ForksApart
  BY InitApart, ForksApartParts DEF Init
<1>2. ForksApart /\ [Next]_vars => ForksApart'
  <2> SUFFICES ASSUME ForksApart, [Next]_vars PROVE ForksApart'
    OBVIOUS
  <2>1. Apart'
    BY ApartStep, ForksApartParts
  <2>2. signals' \in {"waiting", "raised", "handled"}
    BY ForksApartParts
       DEF Next, Finishes, Resume, SignalArrives, HandleStop, Terminated, vars
  <2>. QED  BY <2>1, <2>2 DEF ForksApart, Apart, TypeOK
<1>. QED  BY <1>1, <1>2, PTL DEF Spec

-----------------------------------------------------------------------------
(* The coroutines implement the lifecycle.                                 *)

\* Which sockets are live, and in which stage the program is, said without sets.
LEMMA AbstractState ==
  /\ \A c : c \in Live <=> \E l \in coroutines : l.at # "accept" /\ l.socket = c
  /\ Stage = "returned" <=> coroutines = {}
  /\ Stage = "running" <=>
       \E l \in coroutines : l.at = "accept" /\ l.result # "error"
  /\ Stage \in {"running", "stopping", "returned"}
BY DEF Live, Stage, AcceptLoop

\* The same of the next state.
LEMMA AbstractStateNext ==
  /\ \A c : c \in Live' <=> \E l \in coroutines' : l.at # "accept" /\ l.socket = c
  /\ Stage' = "returned" <=> coroutines' = {}
  /\ Stage' = "running" <=>
       \E l \in coroutines' : l.at = "accept" /\ l.result # "error"
  /\ Stage' \in {"running", "stopping", "returned"}
BY DEF Live, Stage, AcceptLoop

\* A coroutine that goes on with its socket, in the loop or behind it as before,
\* changes nothing that can be seen, unless it is the accept that has failed.
LEMMA GoesOnUnseen ==
  ASSUME NEW k \in coroutines, NEW m, m.socket = k.socket,
         m.at = "accept" <=> k.at = "accept",
         k.at = "accept" => k.result # "error" /\ m.result # "error",
         coroutines' = (coroutines \ {k}) \cup {m}
  PROVE  UNCHANGED Lifecycle!vars
<1>1. Live' = Live
  <2>1. ASSUME NEW c, c \in Live' PROVE c \in Live
    <3>1. PICK l \in coroutines' : l.at # "accept" /\ l.socket = c
      BY <2>1, AbstractStateNext
    <3>. QED  BY <3>1, AbstractState
  <2>2. ASSUME NEW c, c \in Live PROVE c \in Live'
    <3>1. PICK l \in coroutines : l.at # "accept" /\ l.socket = c
      BY <2>2, AbstractState
    <3>. QED  BY <3>1, AbstractStateNext
  <2>. QED  BY <2>1, <2>2
<1>2. Stage' = Stage
  BY AbstractState, AbstractStateNext
<1>. QED  BY <1>1, <1>2 DEF Lifecycle!vars

\* The accept fails: nothing comes any more.
LEMMA AcceptFails ==
  ASSUME Apart, NEW k \in coroutines, NEW m, k.at = "accept", k.result # "error",
         m.at = "accept", m.result = "error",
         coroutines' = (coroutines \ {k}) \cup {m}
  PROVE  Lifecycle!Stop
<1>1. \A l \in coroutines : l.at = "accept" => l = k
  BY DEF Apart, OneListener, AcceptLoop
<1>2. Live' = Live
  <2>1. \A c : c \in Live' <=> c \in Live
    BY <1>1, AbstractState, AbstractStateNext
  <2>. QED  BY <2>1
<1>3. Stage = "running" /\ Stage' = "stopping"
  BY <1>1, AbstractState, AbstractStateNext
<1>. QED  BY <1>2, <1>3 DEF Lifecycle!Stop

\* The fork after an accept is a connection that comes.
LEMMA ForkComes ==
  ASSUME Apart, NEW k \in coroutines, ResumeAccept(k)
  PROVE  \E c \in Sockets : Lifecycle!Come(c)
<1>1. k.socket \in Sockets /\ k.at = "accept" /\ k.result = "ok" /\ k.objects = NoObjects
  BY DEF Apart, ResumeAccept, Coroutine
<1>2. PICK s \in FreeSockets, o \in FreeObjects :
        coroutines' = (coroutines \ {k}) \cup Forked(k, s, o)
  BY DEF ResumeAccept
<1>. DEFINE child == Waiting("read", k.socket, o)
            parent == Waiting("accept", s, NoObjects)
<1>3. coroutines' = (coroutines \ {k}) \cup {child, parent}
  BY <1>1, <1>2 DEF Forked, Made, NextSocket
<1>4. /\ child.at = "read" /\ child.socket = k.socket
      /\ parent.at = "accept" /\ parent.result = "pending"
  BY DEF Waiting
<1>. HIDE DEF child, parent
<1>5. Live' = Live \cup {k.socket}
  BY <1>1, <1>3, <1>4, AbstractState, AbstractStateNext
<1>6. Stage = "running" /\ Stage' = "running"
  BY <1>1, <1>3, <1>4, AbstractState, AbstractStateNext
<1>. QED  BY <1>1, <1>5, <1>6 DEF Lifecycle!Come

\* A connection that ends, well or with an error, touches no other one; and the
\* accept loop ends with its error.  The last of them all returns.
LEMMA EndIsGo ==
  ASSUME Apart, NEW k \in coroutines, k.at = "accept" => k.result = "error",
         coroutines' = coroutines \ {k}
  PROVE  Lifecycle!Next \/ UNCHANGED Lifecycle!vars
<1>1. /\ \A l \in coroutines : l.socket = k.socket => l = k
      /\ \A l \in coroutines : l.at = "accept" /\ k.at = "accept" => l = k
      /\ k.socket \in Sockets
  BY DEF Apart, NothingShared, OneListener, AcceptLoop, Coroutine
<1>2. CASE coroutines' = {}
  <2>1. \A l \in coroutines : l = k
    BY <1>2
  <2>2. Live' = {} /\ \A c, d \in Live : c = d
    BY <1>2, <2>1, AbstractState, AbstractStateNext
  <2>3. Stage = "stopping" /\ Stage' = "returned"
    BY <1>2, <2>1, AbstractState, AbstractStateNext
  <2>. QED  BY <2>2, <2>3 DEF Lifecycle!Next, Lifecycle!Return
<1>3. CASE coroutines' # {}
  <2>1. Stage' = Stage
    BY <1>3, AbstractState, AbstractStateNext
  <2>2. CASE k.at = "accept"
    <3>1. Live' = Live
      <4>1. \A c : c \in Live' <=> c \in Live
        BY <2>2, AbstractState, AbstractStateNext
      <4>. QED  BY <4>1
    <3>. QED  BY <2>1, <3>1 DEF Lifecycle!vars
  <2>3. CASE k.at # "accept"
    <3>1. Live' = Live \ {k.socket}
      BY <1>1, <2>3, AbstractState, AbstractStateNext
    <3>. QED  BY <1>1, <2>1, <3>1 DEF Lifecycle!Next, Lifecycle!Go
  <2>. QED  BY <2>2, <2>3
<1>. QED  BY <1>2, <1>3

\* The program starts with nothing but the accept loop.
LEMMA RefinesInit == Init => Lifecycle!Init
<1> SUFFICES ASSUME Init PROVE Lifecycle!Init
  OBVIOUS
<1>1. PICK s \in Sockets : coroutines = {Waiting("accept", s, NoObjects)}
  BY DEF Init
<1>2. Waiting("accept", s, NoObjects).at = "accept"
      /\ Waiting("accept", s, NoObjects).result = "pending"
  BY DEF Waiting
<1>3. Stage = "running" /\ Live = {}
  BY <1>1, <1>2, AbstractState
<1>. QED  BY <1>3 DEF Lifecycle!Init

\* Every step up to the signal's handler is a step of the lifecycle, or is not seen.
LEMMA RefinesNext ==
  Apart /\ [Next]_vars => [RunReturned' \/ Lifecycle!Next]_(Lifecycle!vars)
<1> SUFFICES ASSUME Apart, Next \/ UNCHANGED vars
             PROVE  RunReturned' \/ Lifecycle!Next \/ UNCHANGED Lifecycle!vars
  OBVIOUS
<1>1. ASSUME NEW k \in coroutines, Finishes(k)
      PROVE  Lifecycle!Next \/ UNCHANGED Lifecycle!vars
  <2>1. k \in Coroutine /\ k.result = "pending"
    BY <1>1 DEF Apart, Finishes
  <2>2. PICK r \in {"ok", "error"} :
          coroutines' = (coroutines \ {k}) \cup {[k EXCEPT !.result = r]}
    BY <1>1 DEF Finishes
  <2>. DEFINE m == [k EXCEPT !.result = r]
  <2>3. m.socket = k.socket /\ m.at = k.at /\ m.result = r
    BY <2>1 DEF Coroutine
  <2>. HIDE DEF m
  <2>4. coroutines' = (coroutines \ {k}) \cup {m}
    BY <2>2 DEF m
  <2>5. CASE k.at = "accept" /\ r = "error"
    <3>1. Lifecycle!Stop
      BY <2>1, <2>3, <2>4, <2>5, AcceptFails
    <3>. QED  BY <3>1 DEF Lifecycle!Next
  <2>6. CASE ~(k.at = "accept" /\ r = "error")
    BY <2>1, <2>3, <2>4, <2>6, GoesOnUnseen
  <2>. QED  BY <2>5, <2>6
<1>2. ASSUME NEW k \in coroutines, Resume(k)
      PROVE  Lifecycle!Next \/ UNCHANGED Lifecycle!vars
  <2>1. CASE ResumeAccept(k)
    BY <2>1, ForkComes DEF Lifecycle!Next
  <2>2. ASSUME NEW at \in {"read", "write"}, k.at # "accept",
               coroutines' = (coroutines \ {k}) \cup {Waiting(at, k.socket, k.objects)}
        PROVE  UNCHANGED Lifecycle!vars
    <3>. DEFINE m == Waiting(at, k.socket, k.objects)
    <3>1. m.at = at /\ m.socket = k.socket
      BY DEF Waiting
    <3>. HIDE DEF m
    <3>2. coroutines' = (coroutines \ {k}) \cup {m}
      BY <2>2 DEF m
    <3>. QED  BY <2>2, <3>1, <3>2, GoesOnUnseen
  <2>3. CASE ResumeReadMore(k) \/ ResumeReadReply(k)
    BY <2>2, <2>3 DEF ResumeReadMore, ResumeReadReply
  <2>4. CASE ResumeWrite(k) \/ NotReentered(k)
    <3>1. /\ coroutines' = coroutines \ {k}
          /\ k.at = "accept" => k.result = "error"
      BY <2>4 DEF ResumeWrite, AfterReply, NotReentered
    <3>. QED  BY <3>1, EndIsGo
  <2>. QED  BY <1>2, <2>1, <2>3, <2>4 DEF Resume
<1>3. CASE UNCHANGED coroutines
  BY <1>3 DEF Lifecycle!vars, Live, Stage, AcceptLoop
<1>4. CASE HandleStop
  BY <1>4 DEF HandleStop, RunReturned
<1>. QED
  BY <1>1, <1>2, <1>3, <1>4 DEF Next, SignalArrives, Terminated, vars

\* Up to the signal the coroutines come and go one by one: no end and no error of
\* one connection is seen at another, and none comes after a failed accept.
THEOREM Refinement == Spec => ImplementsLifecycle
<1>1. Spec => []Apart
  BY InitApart, ApartStep, PTL DEF Spec
<1>. QED  BY <1>1, RefinesInit, RefinesNext, PTL DEF Spec, ImplementsLifecycle
=============================================================================
