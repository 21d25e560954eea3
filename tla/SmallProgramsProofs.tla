------------------------ MODULE SmallProgramsProofs ------------------------
(***************************************************************************)
(* Theorems about SmallServers, for any sets of sessions and clients, any  *)
(* size of the buffer and all bounds; and, after them, about Strands, for  *)
(* any threads, limit and number of posts.                                 *)
(***************************************************************************)
EXTENDS SmallServers, Strands, SequenceTheorems, TLAPS

-----------------------------------------------------------------------------
(* Types: the sessions' variables, and the others.                         *)

SessionTypeOK ==
  /\ phase \in [Sessions -> Phases]
  /\ read \in [Sessions -> Places] /\ write \in [Sessions -> Places]
  /\ in_use \in [Sessions -> BOOLEAN]
  /\ data \in [Sessions -> [1..BufferSize -> Nat]]
  /\ from \in [Sessions -> Nat] /\ to \in [Sessions -> 0..BufferSize]
  /\ closed \in SUBSET Sessions
  /\ due \in [Sessions -> Nat] /\ out \in [Sessions -> Seq(Nat)]

DatagramTypeOK ==
  /\ receive \in {"none", "pending", "done", "failed"}
  /\ remote_endpoint \in Clients
  /\ arrived \in Seq(Clients) /\ sends \in Seq(Clients)
  /\ errors \in Nat
  /\ taken \in Seq(Clients) /\ answered \in Seq(Clients)

RestTypeOK == program \in Servers \cup Threaded /\ stage \in Stages

\* The parts are the whole.
LEMMA TypeParts == TypeOK <=> SessionTypeOK /\ DatagramTypeOK /\ RestTypeOK
BY DEF TypeOK, SessionTypeOK, DatagramTypeOK, RestTypeOK

\* The places of handlers are places.
LEMMA PlaceTypes ==
  /\ \A used : Place(used) \in Places
  /\ \A used \in BOOLEAN : Used(used) \in BOOLEAN
  /\ \A used \in BOOLEAN : \A place : Deallocated(used, place) \in BOOLEAN
BY DEF Place, Allocated, Places, Used, Deallocated

\* start_accept() changes the phase of one session at most, a fresh one.
LEMMA StartAcceptType ==
  ASSUME NEW ph \in [Sessions -> Phases], StartAccept(ph)
  PROVE  phase' \in [Sessions -> Phases]
BY DEF StartAccept, Phases

\* A buffer that is filled holds bytes.
LEMMA FillType ==
  ASSUME SessionTypeOK, NEW s \in Sessions, NEW n \in 1..BufferSize,
         NEW used \in BOOLEAN, Fill(s, n, used)
  PROVE  /\ data' \in [Sessions -> [1..BufferSize -> Nat]]
         /\ from' \in [Sessions -> Nat] /\ to' \in [Sessions -> 0..BufferSize]
         /\ due' \in [Sessions -> Nat]
         /\ write' \in [Sessions -> Places] /\ in_use' \in [Sessions -> BOOLEAN]
<1>. DEFINE filled == [i \in 1..BufferSize |-> IF i <= n THEN due[s] + i ELSE data[s][i]]
<1>1. due[s] \in Nat /\ data[s] \in [1..BufferSize -> Nat] /\ n \in Nat
  BY DEF SessionTypeOK
<1>2. \A i \in 1..BufferSize : due[s] + i \in Nat
  BY <1>1
<1>3. filled \in [1..BufferSize -> Nat]
  BY <1>1, <1>2
<1>4. data' = [data EXCEPT ![s] = filled]
  BY DEF Fill
<1>5. data' \in [Sessions -> [1..BufferSize -> Nat]]
  BY <1>3, <1>4 DEF SessionTypeOK
<1>6. due' \in [Sessions -> Nat]
  BY <1>1 DEF Fill, SessionTypeOK
<1>7. from' \in [Sessions -> Nat] /\ to' \in [Sessions -> 0..BufferSize]
  BY SmallServersAssumption DEF Fill, SessionTypeOK
<1>8. write' \in [Sessions -> Places] /\ in_use' \in [Sessions -> BOOLEAN]
  BY PlaceTypes DEF Fill, SessionTypeOK
<1>. QED  BY <1>5, <1>6, <1>7, <1>8

\* The elements of a sequence behind its first a ones.
LEMMA StretchProperties ==
  ASSUME NEW S, NEW f, NEW a \in Int, NEW n \in Int, n > 0,
         \A i \in (a + 1)..(a + n) : f[i] \in S
  PROVE  /\ SubSeq(f, a + 1, a + n) \in Seq(S)
         /\ Len(SubSeq(f, a + 1, a + n)) = n
         /\ \A i \in 1..n : SubSeq(f, a + 1, a + n)[i] = f[a + i]
<1>1. a + 1 \in Int /\ a + n \in Int
  OBVIOUS
<1>. DEFINE q == SubSeq(f, a + 1, a + n)
<1>2. q \in Seq(S)
  BY <1>1, SubSeqProperties
<1>3. Len(q) = IF a + 1 <= a + n THEN (a + n) - (a + 1) + 1 ELSE 0
  BY <1>1, SubSeqProperties
<1>4. \A i \in 1..((a + n) - (a + 1) + 1) : q[i] = f[(a + 1) + i - 1]
  BY <1>1, SubSeqProperties
<1>. HIDE DEF q
<1>5. Len(q) = n
  BY <1>3
<1>6. ASSUME NEW i \in 1..n PROVE q[i] = f[a + i]
  <2>1. i \in 1..((a + n) - (a + 1) + 1)
    OBVIOUS
  <2>2. (a + 1) + i - 1 = a + i
    OBVIOUS
  <2>. QED  BY <1>4, <2>1, <2>2
<1>. QED  BY <1>2, <1>5, <1>6 DEF q

\* The piece that is written: n bytes of the buffer behind the first from[s].
Piece(s, n) == SubSeq(data[s], from[s] + 1, from[s] + n)

\* A piece is a sequence of n bytes, those of the buffer.
LEMMA PieceProperties ==
  ASSUME SessionTypeOK, NEW s \in Sessions, NEW n \in 1..(to[s] - from[s])
  PROVE  /\ Piece(s, n) \in Seq(Nat)
         /\ Len(Piece(s, n)) = n
         /\ \A i \in 1..n : Piece(s, n)[i] = data[s][from[s] + i]
         /\ n \in Nat /\ n > 0 /\ from[s] + n <= to[s]
<1>1. /\ from[s] \in Nat /\ to[s] \in 0..BufferSize /\ BufferSize \in Nat
      /\ data[s] \in [1..BufferSize -> Nat]
  BY SmallServersAssumption DEF SessionTypeOK
<1>2. from[s] \in Int /\ n \in Int /\ n > 0 /\ from[s] + n <= to[s]
  BY <1>1
<1>3. \A i \in (from[s] + 1)..(from[s] + n) : i \in 1..BufferSize
  BY <1>1, <1>2
<1>4. \A i \in (from[s] + 1)..(from[s] + n) : data[s][i] \in Nat
  BY <1>1, <1>3
<1>. QED  BY <1>2, <1>4, StretchProperties DEF Piece

\* The handlers of a session keep the types of its variables.
LEMMA SessionTypeStep ==
  ASSUME SessionTypeOK, NEW s \in Sessions, SessionStep(s)
  PROVE  SessionTypeOK'
<1>1. /\ phase \in [Sessions -> Phases]
      /\ in_use[s] \in BOOLEAN
      /\ \A place : Freed(s, place) \in BOOLEAN
  BY PlaceTypes DEF SessionTypeOK, Freed
<1>2. \A used \in BOOLEAN : Used(used) \in BOOLEAN /\ Place(used) \in Places
  BY PlaceTypes
<1>3. \A x \in Phases : [phase EXCEPT ![s] = x] \in [Sessions -> Phases]
  BY <1>1
<1>4. "started" \in Phases /\ "dropped" \in Phases /\ "none" \in Places
  BY DEF Phases, Places
<1>5. CASE HandleAcceptEcho(s)
  <2>1. phase' \in [Sessions -> Phases]
    BY <1>3, <1>4, <1>5, StartAcceptType DEF HandleAcceptEcho
  <2>2. Place(in_use[s]) \in Places /\ Used(in_use[s]) \in BOOLEAN
    BY <1>1, <1>2
  <2>3. read' \in [Sessions -> Places] /\ in_use' \in [Sessions -> BOOLEAN]
    BY <1>5, <2>2 DEF HandleAcceptEcho, SessionTypeOK
  <2>4. UNCHANGED <<write, data, from, to, closed, due, out>>
    BY <1>5 DEF HandleAcceptEcho
  <2>. QED  BY <2>1, <2>3, <2>4 DEF SessionTypeOK
<1>6. CASE HandleAcceptTime(s)
  <2>1. phase' \in [Sessions -> Phases]
    BY <1>3, <1>4, <1>6, StartAcceptType DEF HandleAcceptTime
  <2>2. PICK n \in 1..BufferSize : Fill(s, n, in_use[s])
    BY <1>6 DEF HandleAcceptTime
  <2>3. /\ data' \in [Sessions -> [1..BufferSize -> Nat]]
        /\ from' \in [Sessions -> Nat] /\ to' \in [Sessions -> 0..BufferSize]
        /\ due' \in [Sessions -> Nat]
        /\ write' \in [Sessions -> Places] /\ in_use' \in [Sessions -> BOOLEAN]
    BY <1>1, <2>2, FillType
  <2>. QED  BY <1>6, <2>1, <2>3 DEF HandleAcceptTime, SessionTypeOK
<1>7. CASE HandleAcceptError(s)
  <2>1. phase' \in [Sessions -> Phases]
    BY <1>3, <1>4, <1>7, StartAcceptType DEF HandleAcceptError
  <2>. QED  BY <1>7, <2>1 DEF HandleAcceptError, SessionTypeOK
<1>8. CASE HandleRead(s)
  <2>1. PICK n \in 1..BufferSize : Fill(s, n, Freed(s, read[s]))
    BY <1>8 DEF HandleRead
  <2>2. read' \in [Sessions -> Places]
    BY <1>4, <1>8 DEF HandleRead, ReadOver, SessionTypeOK
  <2>3. /\ data' \in [Sessions -> [1..BufferSize -> Nat]]
        /\ from' \in [Sessions -> Nat] /\ to' \in [Sessions -> 0..BufferSize]
        /\ due' \in [Sessions -> Nat]
        /\ write' \in [Sessions -> Places] /\ in_use' \in [Sessions -> BOOLEAN]
    BY <1>1, <2>1, FillType
  <2>. QED  BY <1>8, <2>2, <2>3 DEF HandleRead, SessionTypeOK
<1>9. CASE HandleReadError(s)
  BY <1>1, <1>4, <1>9 DEF HandleReadError, SessionTypeOK
<1>10. ASSUME NEW n \in 1..(to[s] - from[s]), Written(s, n)
       PROVE  /\ out' \in [Sessions -> Seq(Nat)] /\ from' \in [Sessions -> Nat]
              /\ UNCHANGED <<phase, data, to, closed, due>>
  <2>1. Piece(s, n) \in Seq(Nat) /\ n \in Nat
    BY PieceProperties
  <2>2. out[s] \o Piece(s, n) \in Seq(Nat)
    BY <2>1, ConcatProperties DEF SessionTypeOK
  <2>3. out' = [out EXCEPT ![s] = out[s] \o Piece(s, n)]
    BY <1>10 DEF Written, Piece
  <2>4. from' \in [Sessions -> Nat]
    BY <1>10, <2>1 DEF Written, SessionTypeOK
  <2>. QED  BY <1>10, <2>2, <2>3, <2>4 DEF Written, SessionTypeOK
<1>11. CASE WritePiece(s)
  <2>1. PICK n \in 1..(to[s] - from[s]) : Written(s, n)
    BY <1>11 DEF WritePiece
  <2>2. write' \in [Sessions -> Places] /\ in_use' \in [Sessions -> BOOLEAN]
    BY <1>1, <1>2, <1>11 DEF WritePiece, SessionTypeOK
  <2>. QED  BY <1>10, <1>11, <2>1, <2>2 DEF WritePiece, SessionTypeOK
<1>12. CASE HandleWrite(s)
  <2>1. PICK n \in 1..(to[s] - from[s]) : Written(s, n)
    BY <1>12 DEF HandleWrite
  <2>2. /\ write' \in [Sessions -> Places] /\ in_use' \in [Sessions -> BOOLEAN]
        /\ read' \in [Sessions -> Places]
    BY <1>1, <1>2, <1>4, <1>12 DEF HandleWrite, SessionTypeOK
  <2>. QED  BY <1>10, <1>12, <2>1, <2>2 DEF HandleWrite, SessionTypeOK
<1>13. CASE HandleWriteError(s)
  BY <1>1, <1>4, <1>13 DEF HandleWriteError, SessionTypeOK
<1>14. CASE ClientCloses(s)
  BY <1>14 DEF ClientCloses, SessionTypeOK
<1>. QED
  BY <1>5, <1>6, <1>7, <1>8, <1>9, <1>11, <1>12, <1>13, <1>14 DEF SessionStep, Writes

\* The datagrams' handlers keep the types of theirs.
LEMMA DatagramTypeStep == DatagramTypeOK /\ DatagramStep => DatagramTypeOK'
<1> SUFFICES ASSUME DatagramTypeOK, DatagramStep PROVE DatagramTypeOK'
  OBVIOUS
<1>1. \A q \in Seq(Clients) : q # <<>> => Head(q) \in Clients /\ Tail(q) \in Seq(Clients)
  BY HeadTailProperties
<1>2. \A q \in Seq(Clients), c \in Clients : Append(q, c) \in Seq(Clients)
  OBVIOUS
<1>3. ASSUME StartReceive(arrived)
      PROVE  /\ receive' \in {"none", "pending", "done", "failed"}
             /\ remote_endpoint' \in Clients
             /\ arrived' \in Seq(Clients) /\ taken' \in Seq(Clients)
  BY <1>1, <1>2, <1>3 DEF StartReceive, TakeDatagram, DatagramTypeOK
<1>4. ASSUME NEW c \in Clients, DatagramArrives(c) PROVE DatagramTypeOK'
  BY <1>2, <1>4 DEF DatagramArrives, DatagramTypeOK
<1>5. CASE ReceiveSucceeds
  BY <1>1, <1>2, <1>5 DEF ReceiveSucceeds, TakeDatagram, DatagramTypeOK
<1>6. CASE ReceiveFails
  BY <1>6 DEF ReceiveFails, DatagramTypeOK
<1>7. CASE HandleReceive \/ HandleReceiveDaemon
  BY <1>2, <1>3, <1>7 DEF HandleReceive, HandleReceiveDaemon, Destination, DatagramTypeOK
<1>8. CASE HandleReceiveError
  BY <1>3, <1>8 DEF HandleReceiveError, DatagramTypeOK
<1>9. CASE HandleSend
  BY <1>1, <1>2, <1>9 DEF HandleSend, DatagramTypeOK
<1>. QED  BY <1>4, <1>5, <1>6, <1>7, <1>8, <1>9 DEF DatagramStep, HandlesReceive

\* Every variable has its type at the start.
LEMMA InitTypes == Init => TypeOK
<1> SUFFICES ASSUME Init PROVE TypeOK
  OBVIOUS
<1>1. \A q : q \in {<<>>} => q \in Seq(Nat) /\ q \in Seq(Clients)
  OBVIOUS
<1>2. 0 \in 0..BufferSize
  BY SmallServersAssumption
<1>3. phase \in [Sessions -> Phases]
  BY DEF Init, Phases
<1>4. SessionTypeOK
  BY <1>1, <1>2, <1>3 DEF Init, SessionTypeOK, Places
<1>5. DatagramTypeOK
  BY <1>1 DEF Init, DatagramTypeOK
<1>6. RestTypeOK
  BY DEF Init, ProgramStarts, RestTypeOK, Stages
<1>. QED  BY <1>4, <1>5, <1>6, TypeParts

\* No step takes a variable out of its type.
LEMMA TypeStep == TypeOK /\ [Next]_vars => TypeOK'
<1> SUFFICES ASSUME SessionTypeOK, DatagramTypeOK, RestTypeOK, Next \/ UNCHANGED vars
             PROVE  SessionTypeOK' /\ DatagramTypeOK' /\ RestTypeOK'
  BY TypeParts DEF TypeOK, SessionTypeOK, DatagramTypeOK, RestTypeOK
<1>1. ASSUME NEW s \in Sessions, SessionStep(s)
      PROVE  SessionTypeOK' /\ DatagramTypeOK' /\ RestTypeOK'
  <2>1. UNCHANGED <<program, datagram, stage>>
    BY <1>1 DEF SessionStep
  <2>. QED
    BY <1>1, <2>1, SessionTypeStep DEF datagram, DatagramTypeOK, RestTypeOK
<1>2. CASE DatagramStep
  <2>1. UNCHANGED <<program, session, stage>>
    BY <1>2 DEF DatagramStep
  <2>. QED
    BY <1>2, <2>1, DatagramTypeStep DEF session, SessionTypeOK, RestTypeOK
<1>3. CASE DaemonStep
  <2>1. UNCHANGED <<program, session, datagram>>
    BY <1>3 DEF DaemonStep
  <2>2. stage' \in Stages
    BY <1>3 DEF DaemonStep, BecomesDaemon, DaemonFails, DaemonStops, NextStage, Stages
  <2>. QED
    BY <2>1, <2>2 DEF session, datagram, SessionTypeOK, DatagramTypeOK, RestTypeOK
<1>4. CASE UNCHANGED vars
  BY <1>4 DEF vars, session, datagram, SessionTypeOK, DatagramTypeOK, RestTypeOK
<1>. QED  BY <1>1, <1>2, <1>3, <1>4 DEF Next

\* Every variable of the small servers keeps its type.
THEOREM TypeCorrect == Spec => []TypeOK
BY InitTypes, TypeStep, PTL DEF Spec

-----------------------------------------------------------------------------
(* The sessions: what is true of one of them, s.                           *)

\* Nothing has been done for a session that has not been started.
Idle(s) == /\ read[s] = "none" /\ write[s] = "none" /\ in_use[s] = FALSE
           /\ due[s] = 0 /\ out[s] = <<>>

\* A session has one operation at a time, and only the echo reads.
OneOperation(s) ==
  /\ read[s] = "none" \/ write[s] = "none"
  /\ ~Echoes => read[s] = "none"

\* The block is in use exactly while the handler of an operation lies there.
InBlock(s) ==
  Echoes =>
    /\ read[s] # "heap" /\ write[s] # "heap"
    /\ in_use[s] <=> read[s] = "block" \/ write[s] = "block"

\* The bytes o have been written, and those of d behind the first f and up to the
\* first t are the ones that follow; with them there are b.
Follows(o, d, f, t, b) ==
  /\ f < t
  /\ Len(o) + (t - f) = b
  /\ \A i \in (f + 1)..t : d[i] = Len(o) + (i - f)

Counts(o) == \A i \in 1..Len(o) : o[i] = i

\* The bytes that s has been sent, and those it is due.
Bytes(s) ==
  /\ Counts(out[s])
  /\ write[s] # "none" => Follows(out[s], data[s], from[s], to[s], due[s])
  /\ write[s] = "none" /\ (s \notin closed \/ read[s] # "none") => Len(out[s]) = due[s]

SessionInv ==
  \A s \in Sessions :
    /\ phase[s] # "started" => Idle(s)
    /\ OneOperation(s)
    /\ InBlock(s)
    /\ Bytes(s)

\* A buffer filled with the next n bytes follows what has been written.
LEMMA FillFollows ==
  ASSUME NEW o \in Seq(Nat), NEW n \in Nat, n > 0, NEW d, NEW b, Len(o) = b,
         \A i \in 1..n : d[i] = b + i
  PROVE  Follows(o, d, 0, n, b + n)
BY DEF Follows

\* After the bytes o, a piece p of n bytes is written of those that follow.
PieceOf(o, p, d, f, t, b, n) ==
  /\ o \in Seq(Nat) /\ p \in Seq(Nat)
  /\ f \in Nat /\ t \in Nat /\ b \in Nat /\ n \in Nat /\ n > 0 /\ f + n <= t
  /\ Counts(o) /\ Follows(o, d, f, t, b)
  /\ Len(p) = n /\ \A i \in 1..n : p[i] = d[f + i]

\* When a piece has been written the others follow it, if there are any.
LEMMA PieceFollows ==
  ASSUME NEW o, NEW p, NEW d, NEW f, NEW t, NEW b, NEW n, PieceOf(o, p, d, f, t, b, n)
  PROVE  /\ Counts(o \o p)
         /\ f + n # t => Follows(o \o p, d, f + n, t, b)
         /\ f + n = t => Len(o \o p) = b
<1>. USE DEF PieceOf
<1>0. /\ Len(o) \in Nat
      /\ Len(o \o p) = Len(o) + Len(p)
      /\ \A i \in 1..(Len(o) + Len(p)) :
           (o \o p)[i] = IF i <= Len(o) THEN o[i] ELSE p[i - Len(o)]
  BY ConcatProperties, LenProperties
<1>1. /\ Len(o) \in Nat /\ Len(o \o p) = Len(o) + n
      /\ \A i \in 1..(Len(o) + n) : (o \o p)[i] = IF i <= Len(o) THEN o[i] ELSE p[i - Len(o)]
  BY <1>0
<1>2. ASSUME NEW i \in 1..(Len(o) + n) PROVE (o \o p)[i] = i
  <2>1. CASE i <= Len(o)
    BY <1>1, <2>1 DEF Counts
  <2>2. CASE i > Len(o)
    <3>. DEFINE j == i - Len(o)
    <3>1. j \in 1..n /\ f + j \in (f + 1)..t
      BY <1>1, <2>2
    <3>2. (o \o p)[i] = p[j]
      BY <1>1, <2>2
    <3>3. p[j] = d[f + j]
      BY <3>1
    <3>4. d[f + j] = Len(o) + ((f + j) - f)
      BY <3>1 DEF Follows
    <3>5. Len(o) + ((f + j) - f) = i
      BY <1>1
    <3>. QED  BY <3>2, <3>3, <3>4, <3>5
  <2>. QED  BY <1>1, <2>1, <2>2
<1>3. Counts(o \o p)
  BY <1>1, <1>2 DEF Counts
<1>4. Len(o) + (t - f) = b
  BY DEF Follows
<1>5. PICK k \in Int : k = Len(o)
  BY <1>1
<1>6. /\ (Len(o) + n) + (t - (f + n)) = b
      /\ f + n = t => Len(o) + n = b
  <2>1. k + (t - f) = b
    BY <1>4, <1>5
  <2>2. (k + n) + (t - (f + n)) = b /\ (f + n = t => k + n = b)
    BY <2>1
  <2>. QED  BY <1>5, <2>2
<1>7. ASSUME f + n # t PROVE Follows(o \o p, d, f + n, t, b)
  <2>1. f + n < t /\ (Len(o) + n) + (t - (f + n)) = b
    BY <1>7, <1>6
  <2>2. ASSUME NEW i \in ((f + n) + 1)..t PROVE d[i] = (Len(o) + n) + (i - (f + n))
    <3>1. i \in (f + 1)..t
      OBVIOUS
    <3>2. d[i] = Len(o) + (i - f)
      BY <3>1 DEF Follows
    <3>. QED  BY <1>1, <3>2
  <2>. QED  BY <1>1, <2>1, <2>2 DEF Follows
<1>8. ASSUME f + n = t PROVE Len(o \o p) = b
  BY <1>1, <1>8, <1>6
<1>. QED  BY <1>3, <1>7, <1>8

\* start_accept() starts no session.
LEMMA StartAcceptPhase ==
  ASSUME NEW ph \in [Sessions -> Phases], StartAccept(ph), NEW t \in Sessions
  PROVE  phase'[t] = "started" <=> ph[t] = "started"
BY DEF StartAccept

\* A handler of s leaves the other sessions alone, but may give one to async_accept.
LEMMA OthersUnchanged ==
  ASSUME SessionTypeOK, NEW s \in Sessions, SessionStep(s),
         NEW t \in Sessions, t # s
  PROVE  /\ read'[t] = read[t] /\ write'[t] = write[t] /\ in_use'[t] = in_use[t]
         /\ data'[t] = data[t] /\ from'[t] = from[t] /\ to'[t] = to[t]
         /\ due'[t] = due[t] /\ out'[t] = out[t]
         /\ t \in closed' <=> t \in closed
         /\ phase'[t] = "started" <=> phase[t] = "started"
<1>1. \A x \in Phases : StartAccept([phase EXCEPT ![s] = x]) =>
        (phase'[t] = "started" <=> phase[t] = "started")
  <2>1. \A x \in Phases : /\ [phase EXCEPT ![s] = x] \in [Sessions -> Phases]
                          /\ [phase EXCEPT ![s] = x][t] = phase[t]
    BY DEF SessionTypeOK
  <2>. QED  BY <2>1, StartAcceptPhase
<1>2. "started" \in Phases /\ "dropped" \in Phases
  BY DEF Phases
<1>3. CASE HandleAcceptEcho(s)
  BY <1>1, <1>2, <1>3 DEF HandleAcceptEcho, SessionTypeOK
<1>4. CASE HandleAcceptTime(s)
  BY <1>1, <1>2, <1>4 DEF HandleAcceptTime, Fill, SessionTypeOK
<1>5. CASE HandleAcceptError(s)
  BY <1>1, <1>2, <1>5 DEF HandleAcceptError
<1>6. CASE HandleRead(s)
  BY <1>6 DEF HandleRead, ReadOver, Fill, SessionTypeOK
<1>7. CASE HandleReadError(s) \/ HandleWriteError(s)
  BY <1>7 DEF HandleReadError, HandleWriteError, SessionTypeOK
<1>8. CASE WritePiece(s)
  BY <1>8 DEF WritePiece, Written, SessionTypeOK
<1>9. CASE HandleWrite(s)
  BY <1>9 DEF HandleWrite, Written, SessionTypeOK
<1>10. CASE ClientCloses(s)
  BY <1>10 DEF ClientCloses
<1>. QED
  BY <1>3, <1>4, <1>5, <1>6, <1>7, <1>8, <1>9, <1>10 DEF SessionStep, Writes

\* What is true of a session stays true while others have their steps.
LEMMA OthersKeepInv ==
  ASSUME SessionTypeOK, NEW s \in Sessions, SessionStep(s),
         NEW t \in Sessions, t # s,
         phase[t] # "started" => Idle(t), OneOperation(t), InBlock(t), Bytes(t)
  PROVE  /\ phase'[t] # "started" => Idle(t)'
         /\ OneOperation(t)' /\ InBlock(t)' /\ Bytes(t)'
<1>1. Echoes' = Echoes
  BY DEF SessionStep, Echoes
<1>. QED
  BY <1>1, OthersUnchanged DEF Idle, OneOperation, InBlock, Bytes

\* Only a session that has been started has steps of its own but being accepted.
LEMMA OwnPhase ==
  ASSUME SessionTypeOK, NEW s \in Sessions, SessionStep(s),
         phase[s] # "started" => Idle(s)
  PROVE  phase'[s] # "started" => Idle(s)'
<1>1. \A x \in Phases : StartAccept([phase EXCEPT ![s] = x]) =>
        (phase'[s] = "started" <=> x = "started")
  <2>1. \A x \in Phases : /\ [phase EXCEPT ![s] = x] \in [Sessions -> Phases]
                          /\ [phase EXCEPT ![s] = x][s] = x
    BY DEF SessionTypeOK
  <2>. QED  BY <2>1, StartAcceptPhase
<1>2. "started" \in Phases /\ "dropped" \in Phases
  BY DEF Phases
<1>3. CASE HandleAcceptEcho(s) \/ HandleAcceptTime(s)
  BY <1>1, <1>2, <1>3 DEF HandleAcceptEcho, HandleAcceptTime
<1>4. CASE HandleAcceptError(s)
  BY <1>4 DEF HandleAcceptError, Idle
<1>5. CASE HandleRead(s) \/ HandleReadError(s)
  BY <1>5 DEF HandleRead, HandleReadError, Idle
<1>6. CASE Writes(s)
  BY <1>6 DEF Writes, WritePiece, HandleWrite, HandleWriteError, Written, Idle
<1>7. CASE ClientCloses(s)
  BY <1>7 DEF ClientCloses
<1>. QED  BY <1>3, <1>4, <1>5, <1>6, <1>7 DEF SessionStep

\* A session keeps to one operation, and every handler of the echo finds the block
\* free: the one before it has given it back.
LEMMA BlockStep ==
  ASSUME SessionTypeOK, NEW s \in Sessions, SessionStep(s),
         phase[s] # "started" => Idle(s), OneOperation(s), InBlock(s)
  PROVE  OneOperation(s)' /\ InBlock(s)'
<1>1. Echoes' = Echoes
  BY DEF SessionStep, Echoes
<1>2. /\ read[s] \in Places /\ write[s] \in Places /\ in_use[s] \in BOOLEAN
      /\ Sessions = DOMAIN read /\ Sessions = DOMAIN write /\ Sessions = DOMAIN in_use
  BY DEF SessionTypeOK
<1>3. ASSUME Echoes, read[s] # "none" \/ write[s] # "none"
      PROVE  /\ read[s] # "none" => Freed(s, read[s]) = FALSE
             /\ write[s] # "none" => Freed(s, write[s]) = FALSE
  BY <1>2, <1>3 DEF InBlock, Freed, Deallocated, Places
<1>4. /\ Place(FALSE) = IF Echoes THEN "block" ELSE "heap"
      /\ \A used \in BOOLEAN : Used(used) = IF Echoes THEN TRUE ELSE used
  BY DEF Place, Allocated, Used
<1>. USE DEF OneOperation, InBlock
<1>5. CASE HandleAcceptEcho(s)
  <2>1. /\ Echoes /\ write[s] = "none" /\ in_use[s] = FALSE
        /\ read' = [read EXCEPT ![s] = Place(in_use[s])]
        /\ in_use' = [in_use EXCEPT ![s] = Used(in_use[s])]
        /\ write' = write
    BY <1>5 DEF HandleAcceptEcho, Idle
  <2>2. read'[s] = "block" /\ in_use'[s] = TRUE /\ write'[s] = "none"
    BY <1>2, <1>4, <2>1
  <2>. QED  BY <1>1, <2>1, <2>2
<1>6. CASE HandleAcceptTime(s)
  <2>1. ~Echoes /\ read' = read
    BY <1>6 DEF HandleAcceptTime
  <2>2. read'[s] = "none" /\ ~Echoes'
    BY <1>1, <2>1
  <2>. QED  BY <2>2
<1>7. CASE HandleAcceptError(s)
  <2>1. UNCHANGED <<read, write, in_use>>
    BY <1>7 DEF HandleAcceptError
  <2>. QED  BY <1>1, <2>1
<1>8. CASE HandleRead(s)
  <2>1. /\ Echoes /\ read[s] # "none"
        /\ read' = [read EXCEPT ![s] = "none"]
        /\ write' = [write EXCEPT ![s] = Place(Freed(s, read[s]))]
        /\ in_use' = [in_use EXCEPT ![s] = Used(Freed(s, read[s]))]
    BY <1>8 DEF HandleRead, ReadOver, Fill
  <2>2. Freed(s, read[s]) = FALSE
    BY <1>3, <2>1
  <2>3. read'[s] = "none" /\ write'[s] = "block" /\ in_use'[s] = TRUE
    BY <1>2, <1>4, <2>1, <2>2
  <2>. QED  BY <1>1, <2>3
<1>9. CASE HandleReadError(s)
  <2>1. /\ Echoes /\ read[s] # "none" /\ write[s] = "none"
        /\ read' = [read EXCEPT ![s] = "none"]
        /\ in_use' = [in_use EXCEPT ![s] = Freed(s, read[s])]
        /\ write' = write
    BY <1>9 DEF HandleReadError
  <2>2. read'[s] = "none" /\ write'[s] = "none" /\ in_use'[s] = FALSE
    BY <1>2, <1>3, <2>1
  <2>. QED  BY <1>1, <2>2
<1>10. CASE WritePiece(s)
  <2>1. /\ write[s] # "none" /\ read[s] = "none" /\ read' = read
        /\ write' = [write EXCEPT ![s] = Place(Freed(s, write[s]))]
        /\ in_use' = [in_use EXCEPT ![s] = Used(Freed(s, write[s]))]
    BY <1>10 DEF WritePiece
  <2>2. Echoes => write'[s] = "block" /\ in_use'[s] = TRUE
    BY <1>2, <1>3, <1>4, <2>1
  <2>. QED  BY <1>1, <2>1, <2>2
<1>11. CASE HandleWrite(s)
  <2>1. /\ write[s] # "none" /\ read[s] = "none"
        /\ write' = [write EXCEPT ![s] = "none"]
        /\ read' = IF Echoes THEN [read EXCEPT ![s] = Place(Freed(s, write[s]))] ELSE read
        /\ in_use' = [in_use EXCEPT ![s] = Used(Freed(s, write[s]))]
    BY <1>11 DEF HandleWrite
  <2>2. write'[s] = "none" /\ (~Echoes => read'[s] = "none")
    BY <1>2, <2>1
  <2>3. Echoes => read'[s] = "block" /\ in_use'[s] = TRUE
    BY <1>2, <1>3, <1>4, <2>1
  <2>. QED  BY <1>1, <2>2, <2>3
<1>12. CASE HandleWriteError(s)
  <2>1. /\ write[s] # "none" /\ read[s] = "none" /\ read' = read
        /\ write' = [write EXCEPT ![s] = "none"]
        /\ in_use' = [in_use EXCEPT ![s] = Freed(s, write[s])]
    BY <1>12 DEF HandleWriteError
  <2>2. write'[s] = "none" /\ (Echoes => in_use'[s] = FALSE)
    BY <1>2, <1>3, <2>1
  <2>. QED  BY <1>1, <2>1, <2>2
<1>13. CASE ClientCloses(s)
  <2>1. UNCHANGED <<read, write, in_use>>
    BY <1>13 DEF ClientCloses
  <2>. QED  BY <1>1, <2>1
<1>. QED
  BY <1>5, <1>6, <1>7, <1>8, <1>9, <1>10, <1>11, <1>12, <1>13 DEF SessionStep, Writes

\* The next bytes are put into the buffer only when the ones before are written.
LEMMA FillStep ==
  ASSUME SessionTypeOK, NEW s \in Sessions, NEW n \in 1..BufferSize,
         NEW used \in BOOLEAN, Fill(s, n, used), Counts(out[s]), Len(out[s]) = due[s],
         out' = out
  PROVE  Bytes(s)'
<1>1. /\ out[s] \in Seq(Nat) /\ due[s] \in Nat /\ n \in Nat /\ n > 0
      /\ BufferSize \in Nat /\ n <= BufferSize
  BY SmallServersAssumption DEF SessionTypeOK
<1>2. /\ from'[s] = 0 /\ to'[s] = n /\ due'[s] = due[s] + n /\ write'[s] # "none"
      /\ \A i \in 1..BufferSize : data'[s][i] = IF i <= n THEN due[s] + i ELSE data[s][i]
  BY DEF Fill, SessionTypeOK, Place, Allocated
<1>3. \A i \in 1..n : data'[s][i] = due[s] + i
  BY <1>1, <1>2
<1>4. Follows(out[s], data'[s], 0, n, due[s] + n)
  BY <1>1, <1>3, FillFollows
<1>. QED  BY <1>2, <1>4 DEF Bytes

\* What the client gets are the bytes it is due, in order.
LEMMA BytesStep ==
  ASSUME SessionTypeOK, NEW s \in Sessions, SessionStep(s),
         phase[s] # "started" => Idle(s), OneOperation(s), Bytes(s)
  PROVE  Bytes(s)'
<1>1. /\ out[s] \in Seq(Nat) /\ due[s] \in Nat /\ from[s] \in Nat /\ to[s] \in Nat
      /\ in_use[s] \in BOOLEAN /\ read[s] \in Places /\ write[s] \in Places
  BY SmallServersAssumption DEF SessionTypeOK
<1>2. Counts(out[s])
  BY DEF Bytes
<1>3. CASE HandleAcceptEcho(s)
  <2>1. Idle(s)
    BY <1>3 DEF HandleAcceptEcho
  <2>2. Len(out[s]) = due[s]
    BY <2>1 DEF Idle
  <2>. QED  BY <1>2, <1>3, <2>1, <2>2 DEF HandleAcceptEcho, Bytes, Idle
<1>4. CASE HandleAcceptTime(s)
  <2>1. Idle(s)
    BY <1>4 DEF HandleAcceptTime
  <2>2. Len(out[s]) = due[s]
    BY <2>1 DEF Idle
  <2>3. PICK n \in 1..BufferSize : Fill(s, n, in_use[s])
    BY <1>4 DEF HandleAcceptTime
  <2>. QED  BY <1>1, <1>2, <1>4, <2>2, <2>3, FillStep DEF HandleAcceptTime
<1>5. CASE HandleRead(s)
  <2>1. PICK n \in 1..BufferSize : Fill(s, n, Freed(s, read[s]))
    BY <1>5 DEF HandleRead
  <2>2. Freed(s, read[s]) \in BOOLEAN
    BY <1>1 DEF Freed, Deallocated
  <2>3. Len(out[s]) = due[s]
    BY <1>5 DEF HandleRead, OneOperation, Bytes
  <2>. QED  BY <1>2, <1>5, <2>1, <2>2, <2>3, FillStep DEF HandleRead
<1>6. CASE HandleReadError(s)
  BY <1>6 DEF HandleReadError, Bytes
<1>7. ASSUME NEW n \in 1..(to[s] - from[s]), Written(s, n), write[s] # "none"
      PROVE  /\ Counts(out'[s])
             /\ ~AllWritten(s, n) => Follows(out'[s], data'[s], from'[s], to'[s], due'[s])
             /\ AllWritten(s, n) => Len(out'[s]) = due'[s]
  <2>1. Follows(out[s], data[s], from[s], to[s], due[s])
    BY <1>7 DEF Bytes
  <2>2. /\ Piece(s, n) \in Seq(Nat) /\ Len(Piece(s, n)) = n
        /\ \A i \in 1..n : Piece(s, n)[i] = data[s][from[s] + i]
        /\ n \in Nat /\ n > 0 /\ from[s] + n <= to[s]
    BY PieceProperties
  <2>3. /\ Counts(out[s] \o Piece(s, n))
        /\ from[s] + n # to[s] =>
             Follows(out[s] \o Piece(s, n), data[s], from[s] + n, to[s], due[s])
        /\ from[s] + n = to[s] => Len(out[s] \o Piece(s, n)) = due[s]
    <3>1. PieceOf(out[s], Piece(s, n), data[s], from[s], to[s], due[s], n)
      BY <1>1, <1>2, <2>1, <2>2 DEF PieceOf
    <3>. QED  BY <3>1, PieceFollows
  <2>4. /\ out'[s] = out[s] \o Piece(s, n) /\ from'[s] = from[s] + n
        /\ UNCHANGED <<data, to, due>>
    BY <1>7 DEF Written, Piece, SessionTypeOK
  <2>. QED  BY <2>3, <2>4 DEF AllWritten
<1>8. CASE WritePiece(s)
  <2>1. PICK n \in 1..(to[s] - from[s]) : ~AllWritten(s, n) /\ Written(s, n)
    BY <1>8 DEF WritePiece
  <2>2. write[s] # "none" /\ write'[s] # "none"
    BY <1>8 DEF WritePiece, Place, Allocated, SessionTypeOK
  <2>. QED  BY <1>7, <2>1, <2>2 DEF Bytes
<1>9. CASE HandleWrite(s)
  <2>1. PICK n \in 1..(to[s] - from[s]) : AllWritten(s, n) /\ Written(s, n)
    BY <1>9 DEF HandleWrite
  <2>2. write[s] # "none" /\ write'[s] = "none"
    BY <1>9 DEF HandleWrite, SessionTypeOK
  <2>. QED  BY <1>7, <2>1, <2>2 DEF Bytes
<1>10. CASE HandleWriteError(s)
  <2>1. /\ write[s] # "none" /\ s \in closed /\ write'[s] = "none"
        /\ UNCHANGED <<read, closed, out>>
    BY <1>10 DEF HandleWriteError, SessionTypeOK
  <2>2. read'[s] = "none"
    BY <2>1 DEF OneOperation
  <2>. QED  BY <1>2, <2>1, <2>2 DEF Bytes
<1>11. CASE ClientCloses(s) \/ HandleAcceptError(s)
  BY <1>11 DEF ClientCloses, HandleAcceptError, Bytes
<1>. QED
  BY <1>3, <1>4, <1>5, <1>6, <1>8, <1>9, <1>10, <1>11 DEF SessionStep, Writes

\* Nothing has been done for any session at the start.
LEMMA InitSessions == Init => SessionInv
<1> SUFFICES ASSUME Init, NEW s \in Sessions
             PROVE  Idle(s) /\ OneOperation(s) /\ InBlock(s) /\ Bytes(s)
  BY DEF SessionInv
<1>1. /\ read[s] = "none" /\ write[s] = "none" /\ in_use[s] = FALSE
      /\ due[s] = 0 /\ out[s] = <<>>
  BY DEF Init
<1>2. Len(out[s]) = 0 /\ Counts(out[s])
  BY <1>1 DEF Counts
<1>. QED  BY <1>1, <1>2 DEF Idle, OneOperation, InBlock, Bytes

\* No step of the program breaks what is true of the sessions.
LEMMA SessionInvStep == TypeOK /\ SessionInv /\ [Next]_vars => SessionInv'
<1> SUFFICES ASSUME SessionTypeOK, SessionInv, Next \/ UNCHANGED vars
             PROVE  SessionInv'
  BY TypeParts
<1>1. ASSUME NEW s \in Sessions, SessionStep(s) PROVE SessionInv'
  <2> SUFFICES ASSUME NEW t \in Sessions
               PROVE  /\ phase'[t] # "started" => Idle(t)'
                      /\ OneOperation(t)' /\ InBlock(t)' /\ Bytes(t)'
    BY DEF SessionInv
  <2>1. /\ phase[t] # "started" => Idle(t)
        /\ OneOperation(t) /\ InBlock(t) /\ Bytes(t)
    BY DEF SessionInv
  <2>2. CASE t = s
    BY <1>1, <2>1, <2>2, OwnPhase, BlockStep, BytesStep
  <2>3. CASE t # s
    BY <1>1, <2>1, <2>3, OthersKeepInv
  <2>. QED  BY <2>2, <2>3
<1>2. ASSUME UNCHANGED <<program, session>> PROVE SessionInv'
  <2>1. UNCHANGED <<program, phase, read, write, in_use, data, from, to, closed, due, out>>
    BY <1>2 DEF session
  <2>. QED
    BY <2>1 DEF SessionInv, Idle, OneOperation, InBlock, Bytes, Echoes
<1>. QED
  BY <1>1, <1>2 DEF Next, DatagramStep, DaemonStep, vars

\* What is true of the sessions stays true.
LEMMA SessionsInvariant == Spec => [](TypeOK /\ SessionInv)
<1>1. Init => TypeOK /\ SessionInv
  BY InitTypes, InitSessions
<1>2. TypeOK /\ SessionInv /\ [Next]_vars => TypeOK' /\ SessionInv'
  BY TypeStep, SessionInvStep
<1>. QED  BY <1>1, <1>2, PTL DEF Spec

\* In the allocation_server every handler lies in the block of its session: one
\* operation at a time, and its memory is given back before the next starts.
THEOREM BlockCorrect == Spec => []OneHandlerInBlock
<1>1. TypeOK /\ SessionInv => OneHandlerInBlock
  BY DEF SessionInv, OneOperation, InBlock, OneHandlerInBlock
<1>. QED  BY <1>1, SessionsInvariant, PTL

\* Every client gets exactly the bytes it is due, in order: async_write's pieces
\* come from a buffer that is not filled again before it is empty.
THEOREM BytesCorrect == Spec => []ClientsGetTheirBytes
<1>1. TypeOK /\ SessionInv => ClientsGetTheirBytes
  BY DEF SessionInv, Bytes, Follows, Counts, ClientsGetTheirBytes
<1>. QED  BY <1>1, SessionsInvariant, PTL

-----------------------------------------------------------------------------
(* The datagrams.                                                          *)

\* The daemon has no outstanding async_send_to: it calls send_to().
DatagramInv == RepliesGoToTheirSenders /\ (program = "daemon" => sends = <<>>)

\* A datagram that is received joins those that have been taken.
LEMMA StartReceiveTakes ==
  ASSUME DatagramTypeOK, StartReceive(arrived) \/ TakeDatagram(arrived)
  PROVE  taken' = taken \o InHand' /\ InHand' \in Seq(Clients)
<1>1. taken \in Seq(Clients) /\ arrived \in Seq(Clients)
  BY DEF DatagramTypeOK
<1>2. CASE TakeDatagram(arrived)
  <2>1. Head(arrived) \in Clients /\ InHand' = <<Head(arrived)>>
    BY <1>1, <1>2, HeadTailProperties DEF TakeDatagram, InHand
  <2>2. taken' = Append(taken, Head(arrived))
    BY <1>2 DEF TakeDatagram
  <2>. QED  BY <1>1, <2>1, <2>2, AppendIsConcat
<1>3. CASE ~TakeDatagram(arrived)
  <2>1. InHand' = <<>> /\ taken' = taken
    BY <1>3 DEF StartReceive, InHand
  <2>. QED  BY <1>1, <2>1, ConcatEmptySeq
<1>. QED  BY <1>2, <1>3

\* The front of the outstanding replies joins the answered ones.
LEMMA FrontMoves ==
  ASSUME NEW S, NEW p \in Seq(S), NEW q \in Seq(S), q # <<>>
  PROVE  Append(p, Head(q)) \o Tail(q) = p \o q
<1>1. Head(q) \in S /\ Tail(q) \in Seq(S) /\ <<Head(q)>> \in Seq(S)
  BY HeadTailProperties
<1>2. Append(p, Head(q)) = p \o <<Head(q)>>
  BY <1>1, AppendIsConcat
<1>3. <<Head(q)>> \o Tail(q) = q
  BY HeadTailProperties
<1>4. (p \o <<Head(q)>>) \o Tail(q) = p \o (<<Head(q)>> \o Tail(q))
  BY <1>1, ConcatAssociative
<1>. QED  BY <1>2, <1>3, <1>4

\* A new reply comes behind the outstanding ones.
LEMMA LastJoins ==
  ASSUME NEW S, NEW p \in Seq(S), NEW q \in Seq(S), NEW c \in S
  PROVE  p \o Append(q, c) = (p \o q) \o <<c>>
<1>1. Append(q, c) = q \o <<c>> /\ <<c>> \in Seq(S)
  BY AppendIsConcat
<1>. QED  BY <1>1, ConcatAssociative

\* No handler of a datagram loses or swaps a reply.
LEMMA DatagramInvStep ==
  ASSUME DatagramTypeOK, DatagramInv, DatagramStep
  PROVE  DatagramInv'
<1>1. /\ taken \in Seq(Clients) /\ answered \in Seq(Clients) /\ sends \in Seq(Clients)
      /\ remote_endpoint \in Clients /\ program' = program
      /\ taken = (answered \o sends) \o InHand
      /\ program = "daemon" => sends = <<>>
  BY DEF DatagramTypeOK, DatagramInv, RepliesGoToTheirSenders, DatagramStep
<1>2. /\ answered \o sends \in Seq(Clients)
      /\ (answered \o sends) \o <<>> = answered \o sends
  BY <1>1, ConcatProperties, ConcatEmptySeq
<1>3. ASSUME NEW c \in Clients, DatagramArrives(c) PROVE DatagramInv'
  BY <1>1, <1>3 DEF DatagramArrives, DatagramInv, RepliesGoToTheirSenders, InHand
<1>4. CASE ReceiveSucceeds
  <2>1. InHand = <<>> /\ taken' = taken \o InHand' /\ UNCHANGED <<sends, answered>>
    BY <1>4, StartReceiveTakes DEF ReceiveSucceeds, InHand
  <2>. QED  BY <1>1, <1>2, <2>1 DEF DatagramInv, RepliesGoToTheirSenders
<1>5. CASE ReceiveFails
  <2>1. InHand = <<>> /\ InHand' = <<>> /\ UNCHANGED <<sends, answered, taken>>
    BY <1>5 DEF ReceiveFails, InHand
  <2>. QED  BY <1>1, <2>1 DEF DatagramInv, RepliesGoToTheirSenders
<1>6. CASE HandleReceive
  <2>1. /\ InHand = <<remote_endpoint>> /\ taken' = taken \o InHand'
        /\ sends' = Append(sends, remote_endpoint) /\ answered' = answered
        /\ program # "daemon"
    BY <1>6, StartReceiveTakes DEF HandleReceive, InHand, Destination
  <2>2. answered \o Append(sends, remote_endpoint) = (answered \o sends) \o <<remote_endpoint>>
    BY <1>1, LastJoins
  <2>. QED  BY <1>1, <2>1, <2>2 DEF DatagramInv, RepliesGoToTheirSenders
<1>7. CASE HandleReceiveDaemon
  <2>1. /\ InHand = <<remote_endpoint>> /\ taken' = taken \o InHand'
        /\ answered' = Append(answered, remote_endpoint)
        /\ sends = <<>> /\ sends' = <<>>
    BY <1>1, <1>7, StartReceiveTakes DEF HandleReceiveDaemon, InHand, Destination
  <2>2. /\ answered \o <<>> = answered
        /\ Append(answered, remote_endpoint) \in Seq(Clients)
        /\ Append(answered, remote_endpoint) = answered \o <<remote_endpoint>>
    BY <1>1, ConcatEmptySeq, AppendIsConcat, AppendProperties
  <2>3. Append(answered, remote_endpoint) \o <<>> = Append(answered, remote_endpoint)
    BY <2>2, ConcatEmptySeq
  <2>. QED  BY <1>1, <2>1, <2>2, <2>3 DEF DatagramInv, RepliesGoToTheirSenders
<1>8. CASE HandleReceiveError
  <2>1. InHand = <<>> /\ UNCHANGED <<sends, answered>>
    BY <1>8 DEF HandleReceiveError, InHand
  <2>2. CASE EndsAfterError
    <3>1. InHand' = <<>> /\ taken' = taken
      BY <1>8, <2>2 DEF HandleReceiveError, InHand
    <3>. QED  BY <1>1, <2>1, <3>1 DEF DatagramInv, RepliesGoToTheirSenders
  <2>3. CASE ~EndsAfterError
    <3>1. taken' = taken \o InHand'
      BY <1>8, <2>3, StartReceiveTakes DEF HandleReceiveError
    <3>. QED  BY <1>1, <1>2, <2>1, <3>1 DEF DatagramInv, RepliesGoToTheirSenders
  <2>. QED  BY <2>2, <2>3
<1>9. CASE HandleSend
  <2>1. /\ sends # <<>> /\ InHand' = InHand /\ taken' = taken
        /\ answered' = Append(answered, Head(sends)) /\ sends' = Tail(sends)
    BY <1>9 DEF HandleSend, InHand
  <2>2. answered' \o sends' = answered \o sends
    BY <1>1, <2>1, FrontMoves
  <2>. QED  BY <1>1, <2>1, <2>2 DEF DatagramInv, RepliesGoToTheirSenders
<1>. QED
  BY <1>3, <1>4, <1>5, <1>6, <1>7, <1>8, <1>9 DEF DatagramStep, HandlesReceive

\* Every datagram is answered once, to its sender and in order, for any number of
\* clients and datagrams.
THEOREM RepliesCorrect == Spec => []RepliesGoToTheirSenders
<1>1. Init => DatagramInv
  <2> SUFFICES ASSUME Init PROVE DatagramInv
    OBVIOUS
  <2>1. answered = <<>> /\ sends = <<>> /\ taken = <<>> /\ InHand = <<>>
    BY DEF Init, InHand
  <2>. QED  BY <2>1, ConcatEmptySeq DEF DatagramInv, RepliesGoToTheirSenders
<1>2. TypeOK /\ DatagramInv /\ [Next]_vars => DatagramInv'
  <2> SUFFICES ASSUME DatagramTypeOK, DatagramInv, Next \/ UNCHANGED vars
               PROVE  DatagramInv'
    BY TypeParts
  <2>1. CASE DatagramStep
    BY <2>1, DatagramInvStep
  <2>2. ASSUME UNCHANGED <<program, datagram>> PROVE DatagramInv'
    BY <2>2 DEF datagram, DatagramInv, RepliesGoToTheirSenders, InHand
  <2>. QED  BY <2>1, <2>2 DEF Next, SessionStep, DaemonStep, vars
<1>3. DatagramInv => RepliesGoToTheirSenders
  BY DEF DatagramInv
<1>. QED  BY <1>1, <1>2, <1>3, InitTypes, TypeStep, PTL DEF Spec

-----------------------------------------------------------------------------
(* The functions: what they are and where they lie.                        *)

\* The program has timers, and posts nothing.
Timing == program \in {"timer3", "timer4", "timer5"}

Types ==
  /\ program \in Servers \cup Threaded
  /\ waiting \subseteq {1, 2}
  /\ posted \in 0..(2 * Posts)
  /\ guard \in BOOLEAN
  /\ ready \subseteq Functions
  /\ strand \in Seq(Functions)
  /\ runs \in [Threads -> Functions \cup {Nothing}]
  /\ step \in [Threads -> Steps]

\* Every function there is belongs to the program.
Belongs(f) == /\ f.kind = "timer" <=> Timing
              /\ f.kind = "timer" => f.n \in {1, 2}

Belonging ==
  /\ guard => program = "strand_test_1"
  /\ ~Timing => waiting = {}
  /\ \A f \in ready : Belongs(f)
  /\ \A i \in 1..Len(strand) : Belongs(strand[i])
  /\ \A t \in Threads : runs[t] # Nothing => Belongs(runs[t])
  /\ program = "timer4" => ready = {}

\* A thread runs a function between the steps of run(), and only those that call
\* run() do.
InStep ==
  \A t \in Threads :
    /\ runs[t] = Nothing <=> step[t] \in {"run", "returned"}
    /\ step[t] \in {"test", "count", "arm"} => runs[t].kind = "timer"
    /\ t \notin Runners => step[t] = "returned"

\* One thread at a time runs the function of a timer.
OneCounts ==
  Timing => \A t, u \in Threads : runs[t] # Nothing /\ runs[u] # Nothing => t = u

Base == Types /\ Belonging /\ InStep /\ OneCounts

\* The program never becomes another one.
LEMMA SameProgram ==
  ASSUME [ThreadNext]_threadVars
  PROVE  /\ program' = program /\ Timers' = Timers /\ Runners' = Runners
         /\ Timing' = Timing
<1>1. program' = program
  BY DEF ThreadNext, threadVars, Expires, Post, ResetWork, ThreadStep, RunReady, RunStrand,
         Begins, PrintPost, TestCount, PrintCount, Count, ArmTimer, GoesOn, RunReturns
<1>. QED  BY <1>1 DEF Timers, Runners, Timing

\* What each kind of function is.
LEMMA FunctionFacts ==
  /\ \A n \in {1, 2} : /\ Function("timer", n) \in Functions
                       /\ Function("timer", n).kind = "timer"
  /\ Nothing \notin Functions /\ Nothing.kind = "none"
  /\ \A f \in Functions : f.kind \in Kinds /\ f # Nothing
  /\ \A kind, n : Function(kind, n).kind = kind /\ Function(kind, n).n = n
<1>1. \A n \in {1, 2} : n \in 1..(Posts + 2)
  BY StrandsAssumption
<1>2. \A kind, n : Function(kind, n).kind = kind /\ Function(kind, n).n = n
  BY DEF Function
<1>3. Nothing.kind = "none"
  BY <1>2 DEF Nothing
<1>4. \A f \in Functions : f.kind \in Kinds
  BY DEF Functions
<1>5. \A f \in Functions : f # Nothing
  BY <1>3, <1>4 DEF Kinds
<1>6. \A n \in {1, 2} : Function("timer", n) \in Functions
  BY <1>1 DEF Function, Functions, Kinds
<1>. QED  BY <1>2, <1>3, <1>4, <1>5, <1>6

\* What main() posts is a function, and no timer's.
LEMMA PostFacts ==
  ASSUME NEW p \in Nat, p = posted, p < 2 * Posts
  PROVE  /\ NextPost \in Functions /\ NextPost.kind # "timer"
         /\ NextPost = IF p < Posts THEN Function("post", p + 1)
                                    ELSE Function("strand post", p + 1 - Posts)
<1>1. p < Posts => p + 1 \in 1..(Posts + 2)
  BY StrandsAssumption
<1>2. ~(p < Posts) => p + 1 - Posts \in 1..(Posts + 2)
  BY StrandsAssumption
<1>. QED  BY <1>1, <1>2 DEF NextPost, Function, Functions, Kinds

\* A function that is queued is queued in one of the two places.
LEMMA QueueFacts ==
  ASSUME Types, NEW f \in Functions, Queue(f)
  PROVE  /\ ready' \subseteq Functions /\ strand' \in Seq(Functions)
         /\ ready' \subseteq ready \cup {f}
         /\ Len(strand') \in Nat
         /\ \A i \in 1..Len(strand') :
              strand'[i] = f \/ (i \in 1..Len(strand) /\ strand'[i] = strand[i])
         /\ f \in ready' \/ strand' # <<>>
         /\ strand # <<>> => strand' # <<>>
         /\ ready \subseteq ready'
<1>1. strand \in Seq(Functions) /\ ready \subseteq Functions
  BY DEF Types
<1>2. CASE Bound(f)
  <2>1. strand' = Append(strand, f) /\ ready' = ready
    BY <1>2 DEF Queue
  <2>2. /\ Append(strand, f) \in Seq(Functions) /\ Append(strand, f) # <<>>
        /\ Len(Append(strand, f)) = Len(strand) + 1
        /\ \A i \in 1..Len(strand) : Append(strand, f)[i] = strand[i]
        /\ Append(strand, f)[Len(strand) + 1] = f
    BY <1>1, AppendProperties
  <2>3. \A i \in 1..(Len(strand) + 1) : i \in 1..Len(strand) \/ i = Len(strand) + 1
    BY <1>1
  <2>. QED  BY <1>1, <2>1, <2>2, <2>3
<1>3. CASE ~Bound(f)
  BY <1>1, <1>3 DEF Queue
<1>. QED  BY <1>2, <1>3

\* The functions of timer4 all belong to the strand.
LEMMA StrandOfTimer4 ==
  ASSUME Base, program = "timer4"
  PROVE  StrandFree <=> \A t \in Threads : runs[t] = Nothing
BY DEF StrandFree, Bound

\* A thread that begins with a function is the only one that counts.
LEMMA BeginsBase ==
  ASSUME Base, NEW t \in Threads, NEW f \in Functions, Belongs(f), Begins(t, f),
         ready' \subseteq ready, strand' \in Seq(Functions),
         \A i \in 1..Len(strand') : Belongs(strand'[i]),
         Timing => \A u \in Threads : runs[u] = Nothing
  PROVE  Base'
<1>1. /\ t \in Threads /\ step[t] = "run"
      /\ runs' = [runs EXCEPT ![t] = f]
      /\ step' = [step EXCEPT ![t] = IF f.kind = "timer" THEN "test" ELSE "print"]
      /\ UNCHANGED <<program, waiting, posted, guard>>
      /\ f # Nothing
  BY FunctionFacts DEF Begins
<1>2. /\ runs \in [Threads -> Functions \cup {Nothing}] /\ step \in [Threads -> Steps]
  BY DEF Base, Types
<1>3. /\ runs'[t] = f /\ \A u \in Threads : u # t => runs'[u] = runs[u]
      /\ step'[t] = IF f.kind = "timer" THEN "test" ELSE "print"
      /\ \A u \in Threads : u # t => step'[u] = step[u]
  BY <1>1, <1>2
<1>4. Timing' = Timing /\ Runners' = Runners
  BY <1>1 DEF Timing, Runners
<1>5. Types'
  BY <1>1, <1>2 DEF Base, Types, Steps
<1>6. Belonging'
  <2>1. \A g : Belongs(g)' <=> Belongs(g)
    BY <1>4 DEF Belongs
  <2>. QED  BY <1>1, <1>3, <1>4, <2>1 DEF Base, Belonging, Belongs
<1>7. InStep'
  BY <1>1, <1>3, <1>4 DEF Base, InStep
<1>8. OneCounts'
  BY <1>3, <1>4 DEF Base, OneCounts
<1>. QED  BY <1>5, <1>6, <1>7, <1>8 DEF Base

\* A thread that returns from its function leaves the rest as it is.
LEMMA EndsBase ==
  ASSUME Base, NEW t \in Threads, runs[t] # Nothing,
         runs' = [runs EXCEPT ![t] = Nothing], step' = [step EXCEPT ![t] = "run"],
         waiting' \subseteq {1, 2}, ~Timing => waiting' = waiting,
         UNCHANGED <<program, posted, guard, ready, strand>>
  PROVE  Base'
<1>1. /\ runs \in [Threads -> Functions \cup {Nothing}] /\ step \in [Threads -> Steps]
  BY DEF Base, Types
<1>2. /\ runs'[t] = Nothing /\ \A u \in Threads : u # t => runs'[u] = runs[u]
      /\ step'[t] = "run" /\ \A u \in Threads : u # t => step'[u] = step[u]
  BY <1>1
<1>3. Timing' = Timing /\ Runners' = Runners /\ \A g : Belongs(g)' <=> Belongs(g)
  BY DEF Timing, Runners, Belongs
<1>4. Types'
  BY <1>1 DEF Base, Types, Steps
<1>5. Belonging'
  BY <1>2, <1>3 DEF Base, Belonging, Belongs
<1>6. InStep'
  BY <1>2, <1>3 DEF Base, InStep
<1>7. OneCounts'
  BY <1>2, <1>3 DEF Base, OneCounts
<1>. QED  BY <1>4, <1>5, <1>6, <1>7 DEF Base

\* A thread that goes on in the function of a timer still runs it.
LEMMA GoesOnBase ==
  ASSUME Base, NEW t \in Threads, step[t] \in {"test", "print", "count"},
         runs[t].kind = "timer",
         NEW next \in {"print", "count", "arm"}, GoesOn(t, next), UNCHANGED <<waiting, runs>>
  PROVE  Base'
<1>1. /\ step' = [step EXCEPT ![t] = next]
      /\ UNCHANGED <<program, posted, ready, strand, guard, waiting, runs>>
  BY DEF GoesOn, functions
<1>2. step \in [Threads -> Steps] /\ next \in Steps
  BY DEF Base, Types, Steps
<1>3. step'[t] = next /\ \A u \in Threads : u # t => step'[u] = step[u]
  BY <1>1, <1>2
<1>4. Timing' = Timing /\ Runners' = Runners /\ \A g : Belongs(g)' <=> Belongs(g)
  BY <1>1 DEF Timing, Runners, Belongs
<1>5. Types'
  BY <1>1, <1>2 DEF Base, Types
<1>6. Belonging' /\ OneCounts'
  BY <1>1, <1>4 DEF Base, Belonging, OneCounts
<1>7. InStep'
  BY <1>1, <1>3, <1>4 DEF Base, InStep
<1>. QED  BY <1>5, <1>6, <1>7 DEF Base

\* A function that is queued belongs to the program.
LEMMA QueueBase ==
  ASSUME Base, NEW f \in Functions, Belongs(f), Queue(f),
         waiting' \subseteq waiting, posted' \in 0..(2 * Posts),
         UNCHANGED <<program, guard, runs, step>>
  PROVE  Base'
<1>1. /\ ready' \subseteq Functions /\ strand' \in Seq(Functions)
      /\ ready' \subseteq ready \cup {f}
      /\ \A i \in 1..Len(strand') :
           strand'[i] = f \/ (i \in 1..Len(strand) /\ strand'[i] = strand[i])
  BY QueueFacts DEF Base
<1>2. Timing' = Timing /\ Runners' = Runners /\ \A g : Belongs(g)' <=> Belongs(g)
  BY DEF Timing, Runners, Belongs
<1>3. program = "timer4" => ready' = ready
  BY DEF Queue, Bound
<1>4. Types'
  BY <1>1 DEF Base, Types
<1>5. Belonging'
  BY <1>1, <1>2, <1>3 DEF Base, Belonging
<1>6. InStep' /\ OneCounts'
  BY <1>2 DEF Base, InStep, OneCounts
<1>. QED  BY <1>4, <1>5, <1>6 DEF Base

\* Nothing is queued and nothing runs at the start.
LEMMA InitBase == ThreadInit => Base
<1> SUFFICES ASSUME ThreadInit PROVE Base
  OBVIOUS
<1>1. <<>> \in Seq(Functions) /\ Len(<<>>) = 0 /\ 0 \in 0..(2 * Posts)
  BY StrandsAssumption
<1>2. Types
  BY <1>1 DEF ThreadInit, ProgramStarts, Timers, Guarded, Types, Steps
<1>3. Belonging
  <2>1. ~Timing => waiting = {}
    BY DEF ThreadInit, Timers, Timing
  <2>2. guard => program = "strand_test_1"
    BY DEF ThreadInit, Guarded
  <2>3. /\ ready = {} /\ \A t \in Threads : runs[t] = Nothing
        /\ \A i \in 1..Len(strand) : Belongs(strand[i])
    BY <1>1 DEF ThreadInit
  <2>. QED  BY <2>1, <2>2, <2>3 DEF Belonging
<1>4. InStep
  BY DEF ThreadInit, InStep
<1>5. OneCounts
  BY DEF ThreadInit, OneCounts
<1>. QED  BY <1>2, <1>3, <1>4, <1>5 DEF Base

\* Only the one thread of timer3 and timer5 runs functions.
LEMMA FreeRunner ==
  ASSUME Base, Timing, NEW t \in Threads, step[t] = "run",
         program = "timer4" => StrandFree
  PROVE  \A u \in Threads : runs[u] = Nothing
<1>1. CASE program = "timer4"
  BY <1>1, StrandOfTimer4
<1>2. CASE program \in {"timer3", "timer5"}
  <2>1. Runners = {MainThread}
    BY <1>2 DEF Runners
  <2>2. t = MainThread
    BY <2>1 DEF Base, InStep
  <2>3. \A u \in Threads : u # t => step[u] = "returned"
    BY <2>1, <2>2 DEF Base, InStep
  <2>. QED  BY <2>3 DEF Base, InStep
<1>. QED  BY <1>1, <1>2 DEF Timing

\* Every step leaves every function where it belongs, and the timers' functions
\* apart from each other.
LEMMA BaseStep == Base /\ [ThreadNext]_threadVars => Base'
<1> SUFFICES ASSUME Base, [ThreadNext]_threadVars PROVE Base'
  OBVIOUS
<1>1. ASSUME NEW n \in {1, 2}, Expires(n) PROVE Base'
  <2>1. Timing /\ Belongs(Function("timer", n)) /\ Function("timer", n) \in Functions
    BY <1>1, FunctionFacts DEF Expires, Base, Belonging, Belongs
  <2>2. Queue(Function("timer", n)) /\ waiting' \subseteq waiting
    BY <1>1 DEF Expires
  <2>3. UNCHANGED <<program, posted, guard, runs, step>>
    BY <1>1 DEF Expires
  <2>4. posted' \in 0..(2 * Posts)
    BY <2>3 DEF Base, Types
  <2>. QED  BY <2>1, <2>2, <2>3, <2>4, QueueBase
<1>2. CASE Post
  <2>1. posted \in Nat /\ posted < 2 * Posts /\ posted' = posted + 1
    BY <1>2, StrandsAssumption DEF Post, Base, Types
  <2>2. NextPost \in Functions /\ NextPost.kind # "timer"
    BY <2>1, PostFacts
  <2>3. ~Timing
    BY <1>2 DEF Post, Base, Belonging, Timing
  <2>4. Belongs(NextPost)
    BY <2>2, <2>3 DEF Belongs
  <2>5. posted' \in 0..(2 * Posts)
    BY <2>1, StrandsAssumption
  <2>6. Queue(NextPost) /\ waiting' \subseteq waiting /\ UNCHANGED <<program, guard, runs, step>>
    BY <1>2 DEF Post
  <2>. QED  BY <2>2, <2>4, <2>5, <2>6, QueueBase
<1>3. CASE ResetWork
  <2>1. /\ guard' = FALSE
        /\ UNCHANGED <<program, waiting, posted, ready, strand, runs, step>>
    BY <1>3 DEF ResetWork, AfterReset, functions
  <2>2. Timing' = Timing /\ Runners' = Runners /\ \A g : Belongs(g)' <=> Belongs(g)
    BY <2>1 DEF Timing, Runners, Belongs
  <2>3. Types' /\ Belonging'
    BY <2>1, <2>2 DEF Base, Types, Belonging
  <2>4. InStep' /\ OneCounts'
    BY <2>1, <2>2 DEF Base, InStep, OneCounts
  <2>. QED  BY <2>3, <2>4 DEF Base
<1>4. ASSUME NEW t \in Threads, RunReady(t) PROVE Base'
  <2>1. PICK f \in ready : Begins(t, f) /\ ready' = ready \ {f}
    BY <1>4 DEF RunReady
  <2>2. /\ f \in Functions /\ Belongs(f) /\ strand' = strand /\ step[t] = "run"
        /\ program # "timer4"
    BY <1>4, <2>1 DEF RunReady, Begins, Base, Types, Belonging
  <2>3. strand' \in Seq(Functions) /\ \A i \in 1..Len(strand') : Belongs(strand'[i])
    BY <2>2 DEF Base, Types, Belonging
  <2>4. Timing => \A u \in Threads : runs[u] = Nothing
    BY <2>2, FreeRunner
  <2>. QED  BY <2>1, <2>2, <2>3, <2>4, BeginsBase
<1>5. ASSUME NEW t \in Threads, RunStrand(t) PROVE Base'
  <2>1. /\ strand # <<>> /\ strand \in Seq(Functions) /\ Begins(t, Head(strand))
        /\ strand' = Tail(strand) /\ ready' = ready /\ step[t] = "run" /\ StrandFree
    BY <1>5 DEF RunStrand, Begins, Base, Types
  <2>2. /\ Head(strand) \in Functions /\ Head(strand) = strand[1] /\ Len(strand) \in Nat
        /\ Tail(strand) \in Seq(Functions) /\ Len(Tail(strand)) = Len(strand) - 1
        /\ \A i \in 1..Len(Tail(strand)) : Tail(strand)[i] = strand[i + 1]
        /\ Len(strand) > 0
    BY <2>1, HeadTailProperties, EmptySeq, LenProperties
  <2>3. \A i \in 1..Len(strand) : Belongs(strand[i])
    BY DEF Base, Belonging
  <2>4. Belongs(Head(strand)) /\ \A i \in 1..Len(strand') : Belongs(strand'[i])
    <3>1. 1 \in 1..Len(strand) /\ \A i \in 1..(Len(strand) - 1) : i + 1 \in 1..Len(strand)
      BY <2>2
    <3>. QED  BY <2>1, <2>2, <2>3, <3>1
  <2>5. Timing => \A u \in Threads : runs[u] = Nothing
    BY <2>1, FreeRunner
  <2>. QED  BY <2>1, <2>2, <2>4, <2>5, BeginsBase
<1>6. ASSUME NEW t \in Threads, PrintPost(t) PROVE Base'
  <2>1. runs[t] # Nothing
    BY <1>6 DEF PrintPost, Base, InStep
  <2>2. /\ runs' = [runs EXCEPT ![t] = Nothing] /\ step' = [step EXCEPT ![t] = "run"]
        /\ UNCHANGED <<program, waiting, posted, guard, ready, strand>>
    BY <1>6 DEF PrintPost
  <2>. QED  BY <2>1, <2>2, EndsBase DEF Base, Types
<1>7. ASSUME NEW t \in Threads, TestCount(t) PROVE Base'
  <2>1. /\ runs[t] # Nothing /\ runs[t].kind = "timer" /\ step[t] = "test"
        /\ waiting' = waiting
    BY <1>7 DEF TestCount, Base, InStep
  <2>2. CASE count_ < Limit
    BY <1>7, <2>1, <2>2, GoesOnBase DEF TestCount
  <2>3. CASE ~(count_ < Limit)
    <3>1. /\ runs' = [runs EXCEPT ![t] = Nothing] /\ step' = [step EXCEPT ![t] = "run"]
          /\ UNCHANGED <<program, posted, guard, ready, strand>>
      BY <1>7, <2>3 DEF TestCount, GoesOn, functions
    <3>. QED  BY <2>1, <3>1, EndsBase DEF Base, Types
  <2>. QED  BY <2>2, <2>3
<1>8. ASSUME NEW t \in Threads, PrintCount(t) \/ Count(t) PROVE Base'
  <2>1. runs[t].kind = "timer" /\ step[t] \in {"print", "count"} /\ UNCHANGED <<waiting, runs>>
    BY <1>8 DEF PrintCount, Count, Base, InStep
  <2>2. GoesOn(t, "count") \/ GoesOn(t, "arm")
    BY <1>8 DEF PrintCount, Count
  <2>. QED  BY <2>1, <2>2, GoesOnBase
<1>9. ASSUME NEW t \in Threads, ArmTimer(t) PROVE Base'
  <2>1. /\ runs[t] # Nothing /\ runs[t].kind = "timer"
    BY <1>9 DEF ArmTimer, Base, InStep
  <2>2. Timing /\ runs[t].n \in {1, 2}
    BY <2>1 DEF Base, Belonging, Belongs
  <2>3. /\ runs' = [runs EXCEPT ![t] = Nothing] /\ step' = [step EXCEPT ![t] = "run"]
        /\ waiting' = waiting \cup {runs[t].n}
        /\ UNCHANGED <<program, posted, guard, ready, strand>>
    BY <1>9 DEF ArmTimer, GoesOn, functions
  <2>4. waiting' \subseteq {1, 2}
    BY <2>2, <2>3 DEF Base, Types
  <2>. QED  BY <2>1, <2>2, <2>3, <2>4, EndsBase
<1>10. ASSUME NEW t \in Threads, RunReturns(t) PROVE Base'
  <2>1. /\ step[t] = "run" /\ step' = [step EXCEPT ![t] = "returned"]
        /\ UNCHANGED <<program, waiting, posted, guard, ready, strand, runs>>
    BY <1>10 DEF RunReturns, functions
  <2>2. Timing' = Timing /\ Runners' = Runners /\ \A g : Belongs(g)' <=> Belongs(g)
    BY <2>1 DEF Timing, Runners, Belongs
  <2>3. Types' /\ Belonging' /\ OneCounts'
    BY <2>1, <2>2 DEF Base, Types, Belonging, OneCounts, Steps
  <2>4. InStep'
    BY <2>1, <2>2 DEF Base, InStep, Types
  <2>. QED  BY <2>3, <2>4 DEF Base
<1>11. CASE UNCHANGED threadVars
  <2>1. /\ UNCHANGED <<program, waiting, posted, guard, ready, strand, runs, step>>
    BY <1>11 DEF threadVars, functions
  <2>2. Timing' = Timing /\ Runners' = Runners /\ \A g : Belongs(g)' <=> Belongs(g)
    BY <2>1 DEF Timing, Runners, Belongs
  <2>. QED  BY <2>1, <2>2 DEF Base, Types, Belonging, OneCounts, InStep
<1>. QED
  BY <1>1, <1>2, <1>3, <1>4, <1>5, <1>6, <1>7, <1>8, <1>9, <1>10, <1>11
     DEF ThreadNext, ThreadStep

-----------------------------------------------------------------------------
(* The count.                                                              *)

\* What is printed so far: every number once, in order and below the limit.
Numbers ==
  /\ count_ \in Nat /\ printed \in Seq(Nat)
  /\ \A i \in 1..Len(printed) : printed[i] = i - 1
  /\ Len(printed) = count_ + Uncounted
  /\ Len(printed) <= Limit

\* A function that prints has seen the count below the limit.
TestedFirst == Timing => \A t \in Threads : step[t] = "print" => count_ < Limit

\* Until the limit is reached there is work, and nobody leaves run().
WorkUntilLimit ==
  Timing /\ count_ # Limit => Work /\ \A t \in Runners : step[t] # "returned"

Counting == Numbers /\ TestedFirst /\ WorkUntilLimit

\* The programs with timers.
LEMMA TimersFacts == Timers # {} <=> Timing
BY DEF Timers, Timing

\* Whoever runs functions is a thread.
LEMMA RunnersAreThreads == Runners \subseteq Threads
BY StrandsAssumption DEF Runners

\* The numbers do not hear of a step that neither counts nor prints.
LEMMA SameNumbers ==
  ASSUME Numbers, UNCHANGED <<count_, printed>>,
         \A t \in Threads : step'[t] = "count" <=> step[t] = "count"
  PROVE  Numbers'
<1>1. Uncounted' = Uncounted
  BY DEF Uncounted
<1>. QED  BY <1>1 DEF Numbers

\* The number that is printed is the next one.
LEMMA PrintNumbers ==
  ASSUME Base, Numbers, TestedFirst, NEW t \in Threads, PrintCount(t)
  PROVE  Numbers'
<1>1. /\ Timing /\ step[t] = "print" /\ runs[t] # Nothing
      /\ printed' = Append(printed, count_) /\ count_' = count_
      /\ step' = [step EXCEPT ![t] = "count"]
  BY DEF PrintCount, GoesOn, Base, InStep, Belonging, Belongs
<1>2. count_ < Limit /\ count_ \in Nat /\ Limit \in Nat /\ printed \in Seq(Nat)
  BY <1>1, StrandsAssumption DEF TestedFirst, Numbers
<1>3. \A u \in Threads : u # t => runs[u] = Nothing
  BY <1>1 DEF Base, OneCounts
<1>4. \A u \in Threads : step[u] # "count"
  BY <1>1, <1>3 DEF Base, InStep
<1>5. Uncounted = 0
  BY <1>4 DEF Uncounted
<1>6. Uncounted' = 1
  BY <1>1 DEF Uncounted, Base, Types
<1>7. Len(printed) = count_ /\ \A i \in 1..Len(printed) : printed[i] = i - 1
  BY <1>2, <1>5 DEF Numbers
<1>8. /\ printed' \in Seq(Nat) /\ Len(printed') = count_ + 1
      /\ printed'[count_ + 1] = count_ /\ \A i \in 1..count_ : printed'[i] = printed[i]
  BY <1>1, <1>2, <1>7, AppendProperties
<1>9. \A i \in 1..(count_ + 1) : printed'[i] = i - 1
  <2>1. \A i \in 1..(count_ + 1) : i \in 1..count_ \/ i = count_ + 1
    BY <1>2
  <2>2. count_ = (count_ + 1) - 1
    BY <1>2
  <2>. QED  BY <1>7, <1>8, <2>1, <2>2
<1>. QED  BY <1>1, <1>2, <1>6, <1>8, <1>9 DEF Numbers

\* The count follows what was printed.
LEMMA CountNumbers ==
  ASSUME Base, Numbers, NEW t \in Threads, Count(t)
  PROVE  /\ Numbers' /\ count_' = count_ + 1 /\ Timing
         /\ \A u \in Threads : u # t => runs[u] = Nothing
         /\ count_ # Limit
<1>1. /\ Timing /\ step[t] = "count" /\ runs[t] # Nothing
      /\ printed' = printed /\ count_' = count_ + 1
      /\ step' = [step EXCEPT ![t] = "arm"]
  BY DEF Count, GoesOn, Base, InStep, Belonging, Belongs
<1>2. count_ \in Nat /\ Limit \in Nat /\ Uncounted = 1
  BY <1>1, StrandsAssumption DEF Numbers, Uncounted
<1>3. \A u \in Threads : u # t => runs[u] = Nothing
  BY <1>1 DEF Base, OneCounts
<1>4. \A u \in Threads : u # t => step[u] # "count"
  BY <1>1, <1>3 DEF Base, InStep
<1>5. Uncounted' = 0
  BY <1>1, <1>4 DEF Uncounted, Base, Types
<1>6. Len(printed) = count_ + 1 /\ Len(printed) <= Limit
  BY <1>2 DEF Numbers
<1>7. Numbers'
  BY <1>1, <1>2, <1>5, <1>6 DEF Numbers
<1>. QED  BY <1>1, <1>2, <1>3, <1>6, <1>7

\* A thread that runs something is work.
LEMMA RunningIsWork == (\E t \in Threads : runs[t] # Nothing) => Work
BY DEF Work

\* No step breaks the count.
LEMMA CountingStep == Base /\ Counting /\ [ThreadNext]_threadVars => Counting'
<1> SUFFICES ASSUME Base, Counting, [ThreadNext]_threadVars PROVE Counting'
  OBVIOUS
<1>0. /\ Numbers /\ TestedFirst /\ WorkUntilLimit
      /\ Timing' = Timing /\ Runners' = Runners /\ Runners \subseteq Threads
      /\ step \in [Threads -> Steps] /\ runs \in [Threads -> Functions \cup {Nothing}]
      /\ count_ \in Nat /\ Limit \in Nat
  BY SameProgram, RunnersAreThreads, StrandsAssumption DEF Counting, Base, Types, Numbers
<1>1. ASSUME NEW n \in {1, 2}, Expires(n) PROVE Counting'
  <2>1. UNCHANGED <<count_, printed, step>> /\ Queue(Function("timer", n))
    BY <1>1 DEF Expires
  <2>2. Function("timer", n) \in Functions
    BY FunctionFacts
  <2>3. ready' # {} \/ strand' # <<>>
    BY <2>1, <2>2, QueueFacts DEF Base
  <2>4. Work'
    BY <2>3 DEF Work
  <2>5. Numbers'
    BY <1>0, <2>1, SameNumbers
  <2>. QED  BY <1>0, <2>1, <2>4, <2>5 DEF Counting, TestedFirst, WorkUntilLimit
<1>2. CASE Post \/ ResetWork
  <2>1. ~Timing /\ UNCHANGED <<count_, printed, step>>
    BY <1>2 DEF Post, ResetWork, Base, Belonging, Timing
  <2>2. Numbers'
    BY <1>0, <2>1, SameNumbers
  <2>. QED  BY <1>0, <2>1, <2>2 DEF Counting, TestedFirst, WorkUntilLimit
<1>3. ASSUME NEW t \in Threads, RunReady(t) \/ RunStrand(t) PROVE Counting'
  <2>1. PICK f \in Functions : Begins(t, f) /\ Belongs(f)
    <3>1. CASE RunReady(t)
      BY <3>1 DEF RunReady, Base, Types, Belonging
    <3>2. CASE RunStrand(t)
      <4>1. strand \in Seq(Functions) /\ strand # <<>> /\ Begins(t, Head(strand))
        BY <3>2 DEF RunStrand, Base, Types
      <4>2. /\ Head(strand) \in Functions /\ Head(strand) = strand[1]
            /\ Len(strand) \in Nat /\ Len(strand) > 0
        BY <4>1, HeadTailProperties, EmptySeq, LenProperties
      <4>3. 1 \in 1..Len(strand)
        BY <4>2
      <4>4. Belongs(strand[1])
        BY <4>3 DEF Base, Belonging
      <4>. QED  BY <4>1, <4>2, <4>4
    <3>. QED  BY <1>3, <3>1, <3>2
  <2>2. /\ step[t] = "run" /\ UNCHANGED <<count_, printed>>
        /\ step' = [step EXCEPT ![t] = IF f.kind = "timer" THEN "test" ELSE "print"]
        /\ runs' = [runs EXCEPT ![t] = f] /\ f # Nothing
    BY <2>1, FunctionFacts DEF Begins
  <2>3. /\ \A u \in Threads : u # t => step'[u] = step[u]
        /\ step'[t] \in {"test", "print"} /\ (Timing => step'[t] = "test")
        /\ runs'[t] # Nothing
    BY <1>0, <2>1, <2>2 DEF Belongs
  <2>4. Numbers'
    BY <1>0, <2>2, <2>3, SameNumbers
  <2>5. TestedFirst'
    BY <1>0, <2>2, <2>3 DEF TestedFirst
  <2>6. Work'
    BY <2>3 DEF Work
  <2>7. WorkUntilLimit'
    BY <1>0, <2>2, <2>3, <2>6 DEF WorkUntilLimit
  <2>. QED  BY <2>4, <2>5, <2>7 DEF Counting
<1>4. ASSUME NEW t \in Threads, PrintPost(t) PROVE Counting'
  <2>1. /\ ~Timing /\ step[t] = "print" /\ UNCHANGED <<count_, printed>>
        /\ step' = [step EXCEPT ![t] = "run"]
    BY <1>4 DEF PrintPost, Base, InStep, Belonging, Belongs
  <2>2. Numbers'
    BY <1>0, <2>1, SameNumbers
  <2>. QED  BY <1>0, <2>1, <2>2 DEF Counting, TestedFirst, WorkUntilLimit
<1>5. ASSUME NEW t \in Threads, TestCount(t) PROVE Counting'
  <2>1. /\ step[t] = "test" /\ UNCHANGED <<count_, printed>> /\ runs[t] # Nothing
    BY <1>5 DEF TestCount, Base, InStep
  <2>2. /\ count_ < Limit => step' = [step EXCEPT ![t] = "print"] /\ runs' = runs
        /\ ~(count_ < Limit) => step' = [step EXCEPT ![t] = "run"]
    BY <1>5 DEF TestCount, GoesOn
  <2>3. /\ \A u \in Threads : u # t => step'[u] = step[u]
        /\ count_ < Limit => step'[t] = "print"
        /\ ~(count_ < Limit) => step'[t] = "run"
    BY <1>0, <2>2
  <2>4. Numbers'
    BY <1>0, <2>1, <2>3, SameNumbers
  <2>5. TestedFirst'
    BY <1>0, <2>1, <2>3 DEF TestedFirst
  <2>6. count_ <= Limit
    <3>1. Uncounted \in {0, 1}
      BY DEF Uncounted
    <3>. QED  BY <1>0, <3>1 DEF Numbers
  <2>7. count_ # Limit => Work'
    <3>1. count_ # Limit => runs'[t] # Nothing
      BY <1>0, <2>1, <2>2, <2>6
    <3>. QED  BY <3>1 DEF Work
  <2>8. WorkUntilLimit'
    BY <1>0, <2>1, <2>3, <2>7 DEF WorkUntilLimit
  <2>. QED  BY <2>4, <2>5, <2>8 DEF Counting
<1>6. ASSUME NEW t \in Threads, PrintCount(t) PROVE Counting'
  <2>1. /\ step[t] = "print" /\ runs' = runs /\ runs[t] # Nothing /\ count_' = count_
        /\ step' = [step EXCEPT ![t] = "count"]
    BY <1>6 DEF PrintCount, GoesOn, Base, InStep
  <2>2. /\ \A u \in Threads : u # t => step'[u] = step[u]
        /\ step'[t] = "count"
    BY <1>0, <2>1
  <2>3. Numbers'
    BY <1>0, <1>6, PrintNumbers
  <2>4. Work'
    BY <2>1 DEF Work
  <2>. QED  BY <1>0, <2>1, <2>2, <2>3, <2>4 DEF Counting, TestedFirst, WorkUntilLimit
<1>7. ASSUME NEW t \in Threads, Count(t) PROVE Counting'
  <2>1. /\ Numbers' /\ count_' = count_ + 1 /\ Timing /\ count_ # Limit
        /\ \A u \in Threads : u # t => runs[u] = Nothing
    BY <1>0, <1>7, CountNumbers
  <2>2. /\ step' = [step EXCEPT ![t] = "arm"] /\ runs' = runs
        /\ step[t] = "count" /\ runs[t] # Nothing
    BY <1>7 DEF Count, GoesOn, Base, InStep
  <2>3. /\ step'[t] = "arm" /\ \A u \in Threads : u # t => step'[u] = step[u]
    BY <1>0, <2>2
  <2>4. \A u \in Threads : step'[u] # "print"
    BY <2>1, <2>3 DEF Base, InStep
  <2>5. Work'
    BY <2>2 DEF Work
  <2>6. \A u \in Runners : step'[u] # "returned"
    BY <1>0, <2>1, <2>3 DEF WorkUntilLimit
  <2>. QED  BY <1>0, <2>1, <2>4, <2>5, <2>6 DEF Counting, TestedFirst, WorkUntilLimit
<1>8. ASSUME NEW t \in Threads, ArmTimer(t) PROVE Counting'
  <2>1. /\ step[t] = "arm" /\ UNCHANGED <<count_, printed>>
        /\ step' = [step EXCEPT ![t] = "run"] /\ waiting' # {}
    BY <1>8 DEF ArmTimer, GoesOn
  <2>2. step'[t] = "run" /\ \A u \in Threads : u # t => step'[u] = step[u]
    BY <1>0, <2>1
  <2>3. Numbers'
    BY <1>0, <2>1, <2>2, SameNumbers
  <2>4. Work'
    BY <2>1 DEF Work
  <2>. QED  BY <1>0, <2>1, <2>2, <2>3, <2>4 DEF Counting, TestedFirst, WorkUntilLimit
<1>9. ASSUME NEW t \in Threads, RunReturns(t) PROVE Counting'
  <2>1. /\ step[t] = "run" /\ UNCHANGED <<count_, printed>> /\ ~Work
        /\ step' = [step EXCEPT ![t] = "returned"]
    BY <1>9 DEF RunReturns
  <2>2. step'[t] = "returned" /\ \A u \in Threads : u # t => step'[u] = step[u]
    BY <1>0, <2>1
  <2>3. Numbers'
    BY <1>0, <2>1, <2>2, SameNumbers
  <2>. QED  BY <1>0, <2>1, <2>2, <2>3 DEF Counting, TestedFirst, WorkUntilLimit
<1>10. CASE UNCHANGED threadVars
  <2>1. UNCHANGED <<waiting, ready, strand, guard, runs, step, count_, printed>>
    BY <1>10 DEF threadVars, functions
  <2>2. Numbers'
    BY <1>0, <2>1, SameNumbers
  <2>3. Work' = Work
    BY <2>1 DEF Work
  <2>. QED  BY <1>0, <2>1, <2>2, <2>3 DEF Counting, TestedFirst, WorkUntilLimit
<1>. QED
  BY <1>1, <1>2, <1>3, <1>4, <1>5, <1>6, <1>7, <1>8, <1>9, <1>10 DEF ThreadNext, ThreadStep

\* Nothing has been printed at the start.
LEMMA InitCounting == ThreadInit => Counting
<1> SUFFICES ASSUME ThreadInit PROVE Counting
  OBVIOUS
<1>1. /\ count_ = 0 /\ printed = <<>> /\ Limit \in Nat
      /\ \A t \in Threads : step[t] = IF t \in Runners THEN "run" ELSE "returned"
  BY StrandsAssumption DEF ThreadInit
<1>2. Uncounted = 0
  BY <1>1 DEF Uncounted
<1>3. Numbers
  BY <1>1, <1>2 DEF Numbers
<1>4. Timing => Work
  BY TimersFacts DEF ThreadInit, Work
<1>. QED
  BY <1>1, <1>3, <1>4, RunnersAreThreads DEF Counting, TestedFirst, WorkUntilLimit

\* The invariant of the count is one.
LEMMA CountingInvariant == ThreadSpec => [](Base /\ Counting)
<1>1. ThreadInit => Base /\ Counting
  BY InitBase, InitCounting
<1>2. Base /\ Counting /\ [ThreadNext]_threadVars => Base' /\ Counting'
  BY BaseStep, CountingStep
<1>. QED  BY <1>1, <1>2, PTL DEF ThreadSpec

\* The timers' functions print every number below the limit once and in order, on
\* two threads as on one, and run() does not return before that: for every limit and
\* any set of threads.
THEOREM CountCorrect == ThreadSpec => []CountsInOrder
<1>1. Base /\ Counting => CountsInOrder
  BY TimersFacts DEF Counting, Numbers, WorkUntilLimit, CountsInOrder
<1>. QED  BY <1>1, CountingInvariant, PTL

-----------------------------------------------------------------------------
(* The posts.                                                              *)

Posting == program = "strand_test_1"

\* The functions main() posts, without the strand and through it.
PlainPost(n) == Function("post", n)
StrandPost(n) == Function("strand post", n)
AllPosts == [kind : {"post", "strand post"}, n : 1..Posts]

Runs(f) == \E t \in Threads : runs[t] = f

\* How many functions main() has posted through the strand.
Made == IF posted <= Posts THEN 0 ELSE posted - Posts

\* The strand's posts start in order.
Ordered ==
  /\ started \in Seq(Nat)
  /\ Len(started) <= Posts
  /\ \A i \in 1..Len(started) : started[i] = i
  /\ ~Posting => started = <<>>

\* Those that have not started wait in the strand, in order.
Lined ==
  Posting => /\ Len(started) + Len(strand) = Made
             /\ \A i \in 1..Len(strand) : strand[i] = StrandPost(Len(started) + i)

\* All that have started have returned, but the last may still run.
OneAtATime ==
  Posting => \A i \in 1..Len(started) :
               StrandPost(i) \in ended \/ (i = Len(started) /\ Runs(StrandPost(i)))

\* No plain post gets lost.
Kept ==
  Posting => \A n \in 1..Posts : n <= posted =>
               PlainPost(n) \in ready \/ PlainPost(n) \in ended \/ Runs(PlainPost(n))

\* There are no other functions.
OnlyPosts ==
  /\ ended \subseteq Functions
  /\ Posting => /\ ended \subseteq AllPosts
                /\ \A f \in ready : f \in AllPosts /\ f.kind = "post"
                /\ \A t \in Threads : runs[t] # Nothing => runs[t] \in AllPosts

\* The work is given up when everything has been posted, and a thread leaves run()
\* when there is nothing left to do.
LeftLast ==
  Posting => /\ ~guard => posted = 2 * Posts
             /\ (\E t \in Runners : step[t] = "returned") => ~Work

PostsInv == Ordered /\ Lined /\ OneAtATime /\ Kept /\ OnlyPosts /\ LeftLast

\* The two kinds of posts differ, and so do two of one kind.
LEMMA PostKinds ==
  \A n, m : /\ PlainPost(n) # StrandPost(m)
            /\ StrandPost(n) = StrandPost(m) => n = m
            /\ PlainPost(n).kind = "post" /\ StrandPost(n).kind = "strand post"
            /\ StrandPost(n).n = n
<1>1. \A n : /\ PlainPost(n).kind = "post" /\ StrandPost(n).kind = "strand post"
             /\ StrandPost(n).n = n
  BY FunctionFacts DEF PlainPost, StrandPost
<1>. QED  BY <1>1

\* What main() posts are all the posts.
LEMMA AllPostsFacts ==
  /\ \A n \in 1..Posts : PlainPost(n) \in AllPosts /\ StrandPost(n) \in AllPosts
  /\ \A f \in AllPosts : /\ \E n \in 1..Posts : f = PlainPost(n) \/ f = StrandPost(n)
                         /\ f # Nothing
<1>1. \A n \in 1..Posts : PlainPost(n) \in AllPosts /\ StrandPost(n) \in AllPosts
  BY DEF PlainPost, StrandPost, AllPosts, Function
<1>2. ASSUME NEW f \in AllPosts
      PROVE  \E n \in 1..Posts : f = PlainPost(n) \/ f = StrandPost(n)
  BY DEF PlainPost, StrandPost, AllPosts, Function
<1>3. \A n : PlainPost(n) # Nothing /\ StrandPost(n) # Nothing
  <2>1. Nothing.kind = "none"
    BY FunctionFacts
  <2>. QED  BY <2>1, PostKinds
<1>. QED  BY <1>1, <1>2, <1>3

\* At most Posts functions are posted through the strand.
LEMMA MadeFacts ==
  ASSUME Types
  PROVE  Made \in Nat /\ Made <= Posts /\ posted \in Nat /\ Posts \in Nat
<1>1. Posts \in Nat /\ posted \in Nat /\ posted <= 2 * Posts
  BY StrandsAssumption DEF Types
<1>2. CASE posted <= Posts
  BY <1>1, <1>2 DEF Made
<1>3. CASE ~(posted <= Posts)
  <2>1. posted - Posts \in Nat /\ posted - Posts <= Posts
    BY <1>1, <1>3
  <2>. QED  BY <1>1, <1>3, <2>1 DEF Made
<1>. QED  BY <1>2, <1>3

\* main() posts the next function where it belongs.
LEMMA PostKeepsPosts ==
  ASSUME Base, PostsInv, Post
  PROVE  PostsInv'
<1>1. /\ Posting /\ Posting' /\ posted \in Nat /\ Posts \in Nat /\ posted < 2 * Posts
      /\ posted' = posted + 1 /\ Queue(NextPost) /\ guard /\ guard' = guard
      /\ UNCHANGED <<program, waiting, runs, step, started, ended>>
      /\ strand \in Seq(Functions) /\ started \in Seq(Nat)
      /\ Len(started) \in Nat /\ Len(strand) \in Nat /\ Made \in Nat
  BY MadeFacts, LenProperties
     DEF Post, Base, Types, Belonging, PostsInv, Ordered, Posting
<1>2. Ordered' /\ OneAtATime'
  BY <1>1 DEF PostsInv, Ordered, OneAtATime, Runs, Posting
<1>3. Work
  BY <1>1 DEF Work
<1>4. LeftLast'
  <2>1. \A t \in Runners : step[t] # "returned"
    BY <1>1, <1>3 DEF PostsInv, LeftLast
  <2>2. Runners' = Runners
    BY <1>1 DEF Runners
  <2>. QED  BY <1>1, <2>1, <2>2 DEF LeftLast
<1>5. CASE posted < Posts
  <2>1. NextPost = PlainPost(posted + 1) /\ posted + 1 \in 1..Posts
    BY <1>1, <1>5 DEF NextPost, PlainPost
  <2>2. ready' = ready \cup {PlainPost(posted + 1)} /\ strand' = strand
    BY <1>1, <2>1, PostKinds DEF Queue, Bound, Posting
  <2>3. Made = 0 /\ Made' = 0
    <3>1. posted <= Posts /\ posted + 1 <= Posts
      BY <1>1, <1>5
    <3>. QED  BY <1>1, <3>1 DEF Made
  <2>4. Lined'
    BY <1>1, <2>2, <2>3 DEF PostsInv, Lined
  <2>5. Kept'
    <3>1. ASSUME NEW n \in 1..Posts, n <= posted + 1
          PROVE  n <= posted \/ n = posted + 1
      BY <1>1, <3>1
    <3>. QED  BY <1>1, <2>2, <3>1 DEF PostsInv, Kept, Runs
  <2>6. PlainPost(posted + 1) \in AllPosts
    BY <2>1, AllPostsFacts
  <2>7. OnlyPosts'
    BY <1>1, <2>2, <2>6, PostKinds DEF PostsInv, OnlyPosts
  <2>. QED  BY <1>2, <1>4, <2>4, <2>5, <2>7 DEF PostsInv
<1>6. CASE ~(posted < Posts)
  <2>. DEFINE m == posted + 1 - Posts
  <2>1. NextPost = StrandPost(m)
    BY <1>6 DEF NextPost, StrandPost
  <2>2. strand' = Append(strand, StrandPost(m)) /\ ready' = ready
    BY <1>1, <2>1, PostKinds DEF Queue, Bound
  <2>3. NextPost \in Functions
    BY <1>1, PostFacts
  <2>4. /\ Len(strand') = Len(strand) + 1 /\ strand'[Len(strand) + 1] = StrandPost(m)
        /\ \A i \in 1..Len(strand) : strand'[i] = strand[i]
    BY <1>1, <2>1, <2>2, <2>3, AppendProperties
  <2>5. Made = posted - Posts /\ Made' = m
    <3>1. posted >= Posts /\ ~(posted + 1 <= Posts)
      BY <1>1, <1>6
    <3>2. posted <= Posts => posted - Posts = 0
      BY <1>1, <3>1
    <3>. QED  BY <1>1, <3>1, <3>2 DEF Made
  <2>6. Made' = Made + 1
    BY <1>1, <2>5
  <2>7. /\ Len(started) + Len(strand) = Made
        /\ \A i \in 1..Len(strand) : strand[i] = StrandPost(Len(started) + i)
    BY <1>1 DEF PostsInv, Lined
  <2>8. Lined'
    <3>1. Len(started) + (Len(strand) + 1) = Made'
      BY <1>1, <2>6, <2>7
    <3>2. \A i \in 1..(Len(strand) + 1) : i \in 1..Len(strand) \/ i = Len(strand) + 1
      BY <1>1
    <3>3. \A i \in 1..(Len(strand) + 1) : strand'[i] = StrandPost(Len(started) + i)
      BY <2>4, <2>5, <2>7, <3>1, <3>2
    <3>. QED  BY <1>1, <2>4, <3>1, <3>3 DEF Lined, StrandPost, Function
  <2>9. Kept'
    <3>1. \A n \in 1..Posts : n <= posted
      BY <1>1, <1>6
    <3>. QED  BY <1>1, <2>2, <3>1 DEF PostsInv, Kept, Runs
  <2>10. OnlyPosts'
    BY <1>1, <2>2 DEF PostsInv, OnlyPosts
  <2>. QED  BY <1>2, <1>4, <2>8, <2>9, <2>10 DEF PostsInv
<1>. QED  BY <1>5, <1>6

\* A plain post begins; whatever else runs goes on.
LEMMA ReadyKeepsPosts ==
  ASSUME Base, PostsInv, Posting, NEW t \in Threads, RunReady(t)
  PROVE  PostsInv'
<1>1. PICK f \in ready : Begins(t, f) /\ ready' = ready \ {f} /\ strand' = strand
  BY DEF RunReady
<1>2. /\ f \in AllPosts /\ f.kind = "post" /\ f # Nothing
      /\ step[t] = "run" /\ runs[t] = Nothing
      /\ runs' = [runs EXCEPT ![t] = f] /\ step' = [step EXCEPT ![t] = "print"]
      /\ UNCHANGED <<program, waiting, posted, guard, ended, started, strand>>
      /\ runs \in [Threads -> Functions \cup {Nothing}] /\ step \in [Threads -> Steps]
  BY <1>1, AllPostsFacts DEF Begins, Base, Types, InStep, PostsInv, OnlyPosts
<1>3. /\ runs'[t] = f /\ \A u \in Threads : u # t => runs'[u] = runs[u]
      /\ step'[t] = "print" /\ \A u \in Threads : u # t => step'[u] = step[u]
  BY <1>2
<1>4. \A n : /\ Runs(PlainPost(n)) => Runs(PlainPost(n))'
             /\ Runs(StrandPost(n)) => Runs(StrandPost(n))'
  <2>1. \A n : PlainPost(n) # Nothing /\ StrandPost(n) # Nothing
    BY PostKinds, FunctionFacts
  <2>. QED  BY <1>2, <1>3, <2>1 DEF Runs, PlainPost, StrandPost, Function
<1>5. Ordered' /\ Lined'
  BY <1>2 DEF PostsInv, Ordered, Lined, Posting, Made, StrandPost, Function
<1>6. OneAtATime'
  <2> SUFFICES ASSUME NEW i \in 1..Len(started)
               PROVE  \/ StrandPost(i) \in ended
                      \/ i = Len(started) /\ Runs(StrandPost(i))'
    BY <1>2 DEF OneAtATime, Posting, Runs, StrandPost, Function
  <2>. QED  BY <1>4 DEF PostsInv, OneAtATime
<1>7. Kept'
  <2> SUFFICES ASSUME NEW n \in 1..Posts, n <= posted
               PROVE  PlainPost(n) \in ready' \/ PlainPost(n) \in ended \/ Runs(PlainPost(n))'
    BY <1>2 DEF Kept, Posting, Runs, PlainPost, Function
  <2>1. CASE PlainPost(n) \in ready
    <3>1. CASE PlainPost(n) = f
      BY <1>3, <3>1 DEF Runs, PlainPost, Function
    <3>2. CASE PlainPost(n) # f
      BY <1>1, <2>1, <3>2
    <3>. QED  BY <3>1, <3>2
  <2>2. CASE PlainPost(n) \notin ready
    BY <1>4, <2>2 DEF PostsInv, Kept
  <2>. QED  BY <2>1, <2>2
<1>8. OnlyPosts'
  BY <1>1, <1>2, <1>3 DEF PostsInv, OnlyPosts, Posting, AllPosts, Function
<1>9. LeftLast'
  <2>1. Work /\ Runners' = Runners
    BY <1>2 DEF Work, Runners
  <2>2. \A u \in Runners : step[u] # "returned"
    BY <2>1 DEF PostsInv, LeftLast
  <2>. QED  BY <1>2, <1>3, <2>1, <2>2, RunnersAreThreads DEF PostsInv, LeftLast, Posting
<1>. QED  BY <1>5, <1>6, <1>7, <1>8, <1>9 DEF PostsInv

\* The next post of the strand begins when the one before has returned.
LEMMA StrandKeepsPosts ==
  ASSUME Base, PostsInv, Posting, NEW t \in Threads, RunStrand(t)
  PROVE  PostsInv'
<1>. DEFINE k == Len(started)
<1>1. /\ strand # <<>> /\ strand \in Seq(Functions) /\ Begins(t, Head(strand))
      /\ strand' = Tail(strand) /\ ready' = ready /\ StrandFree
      /\ started \in Seq(Nat) /\ k \in Nat
  BY LenProperties DEF RunStrand, Base, Types, PostsInv, Ordered
<1>2. /\ Head(strand) = strand[1] /\ Len(strand) \in Nat /\ Len(strand) > 0
      /\ Len(strand') = Len(strand) - 1
      /\ \A i \in 1..(Len(strand) - 1) : strand'[i] = strand[i + 1]
  BY <1>1, HeadTailProperties, EmptySeq, LenProperties
<1>3. /\ k + Len(strand) = Made /\ Made \in Nat /\ Made <= Posts /\ Posts \in Nat
      /\ \A i \in 1..Len(strand) : strand[i] = StrandPost(k + i)
  BY MadeFacts DEF Base, PostsInv, Lined
<1>4. Head(strand) = StrandPost(k + 1) /\ k + 1 \in 1..Posts
  BY <1>1, <1>2, <1>3
<1>5. /\ step[t] = "run" /\ runs[t] = Nothing
      /\ runs' = [runs EXCEPT ![t] = StrandPost(k + 1)]
      /\ step' = [step EXCEPT ![t] = "print"]
      /\ started' = Append(started, k + 1)
      /\ UNCHANGED <<program, waiting, posted, guard, ended>>
      /\ runs \in [Threads -> Functions \cup {Nothing}] /\ step \in [Threads -> Steps]
  BY <1>1, <1>4, PostKinds DEF Begins, Base, Types, InStep
<1>6. /\ runs'[t] = StrandPost(k + 1) /\ \A u \in Threads : u # t => runs'[u] = runs[u]
      /\ step'[t] = "print" /\ \A u \in Threads : u # t => step'[u] = step[u]
  BY <1>5
<1>7. /\ Len(started') = k + 1 /\ started' \in Seq(Nat)
      /\ \A i \in 1..k : started'[i] = started[i]
      /\ started'[k + 1] = k + 1
  BY <1>1, <1>5, AppendProperties
<1>8. \A i \in 1..(k + 1) : i \in 1..k \/ i = k + 1
  BY <1>1
<1>9. Ordered'
  <2>1. \A i \in 1..(k + 1) : started'[i] = i
    BY <1>7, <1>8 DEF PostsInv, Ordered
  <2>. QED  BY <1>4, <1>5, <1>7, <2>1 DEF Ordered, Posting
<1>10. Lined'
  <2>1. (k + 1) + (Len(strand) - 1) = Made
    <3>0. Len(strand) \in Int /\ k \in Int
      BY <1>1, <1>2
    <3>1. PICK l \in Int, j \in Int : l = Len(strand) /\ j = k
      BY <3>0, Zenon
    <3>2. j + l = Made
      BY <1>3, <3>1
    <3>3. (j + 1) + (l - 1) = j + l
      OBVIOUS
    <3>. QED  BY <3>1, <3>2, <3>3
  <2>2. ASSUME NEW i \in 1..(Len(strand) - 1)
        PROVE  strand'[i] = StrandPost((k + 1) + i)
    <3>1. i + 1 \in 1..Len(strand) /\ k + (i + 1) = (k + 1) + i
      BY <1>1, <1>2
    <3>2. strand'[i] = StrandPost(k + (i + 1))
      BY <1>2, <1>3, <3>1
    <3>. QED  BY <3>1, <3>2
  <2>3. Made' = Made
    BY <1>5 DEF Made
  <2>. QED  BY <1>2, <1>7, <2>1, <2>2, <2>3 DEF Lined, StrandPost, Function
<1>11. OneAtATime'
  <2>1. \A i \in 1..k : StrandPost(i) \in ended
    <3>1. \A i : ~Runs(StrandPost(i))
      BY <1>1, PostKinds, FunctionFacts DEF StrandFree, Bound, Runs
    <3>. QED  BY <3>1 DEF PostsInv, OneAtATime
  <2>2. \E u \in Threads : runs'[u] = StrandPost(k + 1)
    BY <1>6
  <2>3. ASSUME NEW i \in 1..(k + 1)
        PROVE  \/ StrandPost(i) \in ended
               \/ i = k + 1 /\ \E u \in Threads : runs'[u] = StrandPost(i)
    BY <1>8, <2>1, <2>2
  <2>. QED  BY <1>5, <1>7, <2>3 DEF OneAtATime, Runs, StrandPost, Function
<1>12. Kept'
  <2>1. ASSUME NEW n, Runs(PlainPost(n)) PROVE Runs(PlainPost(n))'
    <3>1. PICK u \in Threads : runs[u] = PlainPost(n)
      BY <2>1 DEF Runs
    <3>2. u # t
      BY <1>5, <3>1, PostKinds, FunctionFacts
    <3>. QED  BY <1>6, <3>1, <3>2 DEF Runs, PlainPost, Function
  <2> SUFFICES ASSUME NEW n \in 1..Posts, n <= posted
               PROVE  PlainPost(n) \in ready \/ PlainPost(n) \in ended \/ Runs(PlainPost(n))'
    BY <1>1, <1>5 DEF Kept, Posting, Runs, PlainPost, Function
  <2>. QED  BY <2>1 DEF PostsInv, Kept
<1>13. OnlyPosts'
  <2>1. StrandPost(k + 1) \in AllPosts
    BY <1>4, AllPostsFacts
  <2>. QED  BY <1>1, <1>5, <1>6, <2>1 DEF PostsInv, OnlyPosts, Posting, AllPosts
<1>14. LeftLast'
  <2>1. Work /\ Runners' = Runners
    BY <1>1, <1>5 DEF Work, Runners
  <2>2. \A u \in Runners : step[u] # "returned"
    BY <2>1 DEF PostsInv, LeftLast
  <2>. QED  BY <1>5, <1>6, <2>1, <2>2, RunnersAreThreads DEF PostsInv, LeftLast, Posting
<1>. QED  BY <1>9, <1>10, <1>11, <1>12, <1>13, <1>14 DEF PostsInv

\* A post that has printed its number is over.
LEMMA PrintKeepsPosts ==
  ASSUME Base, PostsInv, Posting, NEW t \in Threads, PrintPost(t)
  PROVE  PostsInv'
<1>1. /\ step[t] = "print" /\ runs[t] # Nothing /\ runs[t] \in AllPosts
      /\ ended' = ended \cup {runs[t]}
      /\ runs' = [runs EXCEPT ![t] = Nothing] /\ step' = [step EXCEPT ![t] = "run"]
      /\ UNCHANGED <<program, waiting, posted, guard, ready, strand, started>>
      /\ runs \in [Threads -> Functions \cup {Nothing}] /\ step \in [Threads -> Steps]
      /\ runs[t] \in Functions
  BY DEF PrintPost, Base, Types, InStep, PostsInv, OnlyPosts
<1>2. /\ runs'[t] = Nothing /\ \A u \in Threads : u # t => runs'[u] = runs[u]
      /\ step'[t] = "run" /\ \A u \in Threads : u # t => step'[u] = step[u]
  BY <1>1
<1>3. ASSUME NEW f, Runs(f) PROVE f \in ended' \/ \E u \in Threads : runs'[u] = f
  BY <1>1, <1>2, <1>3 DEF Runs
<1>4. Ordered' /\ Lined'
  BY <1>1 DEF PostsInv, Ordered, Lined, Posting, Made, StrandPost, Function
<1>5. OneAtATime'
  <2> SUFFICES ASSUME NEW i \in 1..Len(started)
               PROVE  \/ StrandPost(i) \in ended'
                      \/ i = Len(started) /\ \E u \in Threads : runs'[u] = StrandPost(i)
    BY <1>1 DEF OneAtATime, Posting, Runs, StrandPost, Function
  <2>. QED  BY <1>1, <1>3 DEF PostsInv, OneAtATime
<1>6. Kept'
  <2> SUFFICES ASSUME NEW n \in 1..Posts, n <= posted
               PROVE  \/ PlainPost(n) \in ready \/ PlainPost(n) \in ended'
                      \/ \E u \in Threads : runs'[u] = PlainPost(n)
    BY <1>1 DEF Kept, Posting, Runs, PlainPost, Function
  <2>. QED  BY <1>1, <1>3 DEF PostsInv, Kept
<1>7. OnlyPosts'
  BY <1>1, <1>2 DEF PostsInv, OnlyPosts, Posting, AllPosts
<1>8. LeftLast'
  <2>1. Work /\ Runners' = Runners
    BY <1>1 DEF Work, Runners
  <2>2. \A u \in Runners : step[u] # "returned"
    BY <2>1 DEF PostsInv, LeftLast
  <2>. QED  BY <1>1, <1>2, <2>1, <2>2, RunnersAreThreads DEF PostsInv, LeftLast, Posting
<1>. QED  BY <1>4, <1>5, <1>6, <1>7, <1>8 DEF PostsInv

\* Giving up the work and leaving run() touch no post.
LEMMA LeavesKeepPosts ==
  ASSUME Base, PostsInv, Posting,
         ResetWork \/ (\E t \in Threads : RunReturns(t)) \/ UNCHANGED threadVars
  PROVE  PostsInv'
<1>1. /\ UNCHANGED <<program, waiting, posted, ready, strand, started, ended, runs>>
  BY DEF ResetWork, RunReturns, functions, threadVars
<1>2. Runners' = Runners
  BY <1>1 DEF Runners
<1>3. Ordered' /\ Lined'
  BY <1>1 DEF PostsInv, Ordered, Lined, Posting, Made, StrandPost, Function
<1>4. OneAtATime' /\ Kept'
  BY <1>1 DEF PostsInv, OneAtATime, Kept, Posting, Runs, StrandPost, PlainPost, Function
<1>5. OnlyPosts'
  BY <1>1 DEF PostsInv, OnlyPosts, Posting, AllPosts
<1>6. CASE ResetWork
  <2>1. guard /\ posted = 2 * Posts /\ step' = step
    BY <1>6 DEF ResetWork
  <2>2. \A u \in Runners : step[u] # "returned"
    BY <2>1 DEF PostsInv, LeftLast, Work
  <2>3. LeftLast'
    BY <1>1, <1>2, <2>1, <2>2 DEF LeftLast
  <2>. QED  BY <1>3, <1>4, <1>5, <2>3 DEF PostsInv
<1>7. CASE ~ResetWork
  <2>1. guard' = guard
    BY <1>7 DEF RunReturns, threadVars
  <2>2. Work' = Work
    BY <1>1, <2>1 DEF Work
  <2>3. step' = step \/ ~Work
    BY <1>7 DEF RunReturns, threadVars
  <2>4. LeftLast'
    BY <1>1, <1>2, <2>1, <2>2, <2>3 DEF PostsInv, LeftLast, Posting
  <2>. QED  BY <1>3, <1>4, <1>5, <2>4 DEF PostsInv
<1>. QED  BY <1>6, <1>7

\* The other programs have no posts.
LEMMA NoPosts ==
  ASSUME Base, PostsInv, ~Posting, [ThreadNext]_threadVars
  PROVE  PostsInv'
<1>1. program' = program /\ started = <<>> /\ ended \subseteq Functions
  BY SameProgram DEF PostsInv, Ordered, OnlyPosts
<1>2. ASSUME NEW t \in Threads, step[t] # "returned" PROVE Timing
  BY <1>2 DEF Base, InStep, Runners, Timing, Posting
<1>3. ASSUME NEW t \in Threads, NEW f, Begins(t, f), Belongs(f)
      PROVE  started' = started /\ ended' = ended
  BY <1>2, <1>3 DEF Begins, Belongs
<1>4. ASSUME NEW t \in Threads, RunReady(t) \/ RunStrand(t)
      PROVE  started' = started /\ ended' = ended
  <2>1. CASE RunReady(t)
    BY <1>3, <2>1 DEF RunReady, Base, Belonging
  <2>2. CASE RunStrand(t)
    <3>1. strand \in Seq(Functions) /\ strand # <<>> /\ Begins(t, Head(strand))
      BY <2>2 DEF RunStrand, Base, Types
    <3>2. Head(strand) = strand[1] /\ Len(strand) \in Nat /\ Len(strand) > 0
      BY <3>1, HeadTailProperties, EmptySeq, LenProperties
    <3>3. 1 \in 1..Len(strand)
      BY <3>2
    <3>4. Belongs(Head(strand))
      BY <3>2, <3>3 DEF Base, Belonging
    <3>. QED  BY <1>3, <3>1, <3>4
  <2>. QED  BY <1>4, <2>1, <2>2
<1>5. ASSUME NEW t \in Threads, PrintPost(t) PROVE started' = started /\ ended' = ended
  <2>1. Timing /\ runs[t] # Nothing /\ runs[t].kind # "timer"
    BY <1>2, <1>5 DEF PrintPost, Base, InStep
  <2>. QED  BY <2>1 DEF Base, Belonging, Belongs
<1>6. started' = started /\ ended' = ended
  <2>1. CASE Post \/ ResetWork
    BY <2>1 DEF Post, ResetWork, functions
  <2>2. ASSUME NEW t \in Threads,
               TestCount(t) \/ PrintCount(t) \/ Count(t) \/ ArmTimer(t) \/ RunReturns(t)
        PROVE  started' = started /\ ended' = ended
    BY <2>2 DEF TestCount, PrintCount, Count, ArmTimer, RunReturns, GoesOn, functions
  <2>3. ASSUME NEW n \in {1, 2}, Expires(n) PROVE started' = started /\ ended' = ended
    BY <2>3 DEF Expires
  <2>4. CASE UNCHANGED threadVars
    BY <2>4 DEF threadVars, functions
  <2>. QED  BY <1>4, <1>5, <2>1, <2>2, <2>3, <2>4 DEF ThreadNext, ThreadStep
<1>. QED
  BY <1>1, <1>6
     DEF PostsInv, Ordered, Lined, OneAtATime, Kept, OnlyPosts, LeftLast, Posting

\* No step loses a post or runs two of the strand's at a time.
LEMMA PostsStep == Base /\ PostsInv /\ [ThreadNext]_threadVars => PostsInv'
<1> SUFFICES ASSUME Base, PostsInv, [ThreadNext]_threadVars, Posting PROVE PostsInv'
  BY NoPosts
<1>0. ~Timing /\ waiting = {}
  BY DEF Base, Belonging, Posting, Timing
<1>1. \A t \in Threads : runs[t] = Nothing \/ runs[t].kind # "timer"
  BY <1>0 DEF Base, Belonging, Belongs
<1>2. \A t \in Threads : step[t] \notin {"test", "count", "arm"}
  BY <1>1, FunctionFacts DEF Base, InStep
<1>3. \A t \in Threads : ~TestCount(t) /\ ~PrintCount(t) /\ ~Count(t) /\ ~ArmTimer(t)
  BY <1>1, <1>2, FunctionFacts DEF TestCount, PrintCount, Count, ArmTimer
<1>4. \A n \in {1, 2} : ~Expires(n)
  BY <1>0 DEF Expires
<1>5. CASE Post
  BY <1>5, PostKeepsPosts
<1>6. ASSUME NEW t \in Threads, RunReady(t) PROVE PostsInv'
  BY <1>6, ReadyKeepsPosts
<1>7. ASSUME NEW t \in Threads, RunStrand(t) PROVE PostsInv'
  BY <1>7, StrandKeepsPosts
<1>8. ASSUME NEW t \in Threads, PrintPost(t) PROVE PostsInv'
  BY <1>8, PrintKeepsPosts
<1>9. CASE ResetWork \/ (\E t \in Threads : RunReturns(t)) \/ UNCHANGED threadVars
  BY <1>9, LeavesKeepPosts
<1>. QED
  BY <1>3, <1>4, <1>5, <1>6, <1>7, <1>8, <1>9 DEF ThreadNext, ThreadStep

\* Nothing has been posted at the start.
LEMMA InitPosts == ThreadInit => PostsInv
<1> SUFFICES ASSUME ThreadInit PROVE PostsInv
  OBVIOUS
<1>1. /\ started = <<>> /\ strand = <<>> /\ ended = {} /\ ready = {} /\ posted = 0
      /\ Posts \in Nat /\ \A t \in Threads : runs[t] = Nothing
  BY StrandsAssumption DEF ThreadInit
<1>2. <<>> \in Seq(Nat) /\ Len(<<>>) = 0
  OBVIOUS
<1>3. Ordered
  BY <1>1, <1>2 DEF Ordered
<1>4. Made = 0
  BY <1>1 DEF Made
<1>5. Lined /\ OneAtATime
  BY <1>1, <1>2, <1>4 DEF Lined, OneAtATime
<1>6. Kept
  BY <1>1 DEF Kept
<1>7. OnlyPosts
  BY <1>1 DEF OnlyPosts
<1>8. LeftLast
  <2>1. Posting => guard /\ Runners = Threads
    BY DEF ThreadInit, Guarded, Posting, Runners
  <2>2. Posting => \A t \in Runners : step[t] = "run"
    BY <2>1 DEF ThreadInit
  <2>. QED  BY <2>1, <2>2 DEF LeftLast
<1>. QED  BY <1>3, <1>5, <1>6, <1>7, <1>8 DEF PostsInv

\* The invariant of the posts is one.
LEMMA PostsInvariant == ThreadSpec => [](Base /\ PostsInv)
<1>1. ThreadInit => Base /\ PostsInv
  BY InitBase, InitPosts
<1>2. Base /\ PostsInv /\ [ThreadNext]_threadVars => Base' /\ PostsInv'
  BY BaseStep, PostsStep
<1>. QED  BY <1>1, <1>2, PTL DEF ThreadSpec

\* When a thread has left run(), every post has returned.
LEMMA AllPostsEnded ==
  ASSUME Base, PostsInv, Posting, NEW t \in Runners, step[t] = "returned"
  PROVE  ended = AllPosts
<1>1. ~Work /\ posted = 2 * Posts /\ ended \subseteq AllPosts
  BY DEF PostsInv, LeftLast, OnlyPosts, Work
<1>2. ready = {} /\ strand = <<>> /\ \A u \in Threads : runs[u] = Nothing
  BY <1>1 DEF Work
<1>3. Posts \in Nat /\ \A n \in 1..Posts : n <= posted
  BY <1>1, StrandsAssumption
<1>4. \A f \in AllPosts : ~Runs(f)
  BY <1>2, AllPostsFacts DEF Runs
<1>5. \A n \in 1..Posts : PlainPost(n) \in ended
  BY <1>2, <1>3, <1>4, AllPostsFacts DEF PostsInv, Kept
<1>6. Len(started) = Posts
  <2>1. Made = Posts
    BY <1>1, <1>3 DEF Made
  <2>2. Len(strand) = 0 /\ Len(started) \in Nat
    BY <1>2, LenProperties DEF PostsInv, Ordered
  <2>. QED  BY <1>3, <2>1, <2>2 DEF PostsInv, Lined
<1>7. \A n \in 1..Posts : StrandPost(n) \in ended
  BY <1>4, <1>6, AllPostsFacts DEF PostsInv, OneAtATime
<1>8. AllPosts \subseteq ended
  BY <1>5, <1>7, AllPostsFacts
<1>. QED  BY <1>1, <1>8

\* The strand runs what is posted through it in order and one at a time, on any
\* number of threads, and no thread leaves run() before every post has run.
THEOREM OrderCorrect == ThreadSpec => []StrandKeepsOrder
<1>1. Base /\ PostsInv => StrandKeepsOrder
  <2> SUFFICES ASSUME Base, PostsInv PROVE StrandKeepsOrder
    OBVIOUS
  <2>1. \A i \in 1..Len(started) : started[i] = i
    BY DEF PostsInv, Ordered
  <2>2. \A i \in 1..(Len(started) - 1) : Function("strand post", i) \in ended
    <3>1. Len(started) \in Nat
      BY LenProperties DEF PostsInv, Ordered
    <3>2. ASSUME NEW i \in 1..(Len(started) - 1) PROVE StrandPost(i) \in ended
      <4>1. i \in 1..Len(started) /\ i # Len(started)
        BY <3>1
      <4>2. Posting
        BY <3>1, <4>1 DEF PostsInv, Ordered
      <4>. QED  BY <4>1, <4>2 DEF PostsInv, OneAtATime
    <3>. QED  BY <3>2 DEF StrandPost
  <2>3. Posting /\ (\E t \in Runners : step[t] = "returned") => ended = AllPosts
    BY AllPostsEnded
  <2>. QED  BY <2>1, <2>2, <2>3 DEF StrandKeepsOrder, Posting, AllPosts
<1>. QED  BY <1>1, PostsInvariant, PTL

\* Every variable of these programs keeps its type.
THEOREM ThreadTypesCorrect == ThreadSpec => []ThreadTypeOK
<1>1. Base /\ Counting /\ PostsInv => ThreadTypeOK
  <2> SUFFICES ASSUME Base, Counting, PostsInv PROVE ThreadTypeOK
    OBVIOUS
  <2>1. started \in Seq(Nat) /\ Len(started) \in Nat /\ Len(started) <= Posts
    BY LenProperties DEF PostsInv, Ordered
  <2>2. \A i \in 1..Len(started) : started[i] \in 1..Posts
    BY <2>1, StrandsAssumption DEF PostsInv, Ordered
  <2>3. started \in Seq(1..Posts)
    <3>. DEFINE s == [i \in 1..Len(started) |-> started[i]]
    <3>1. started = s
      BY <2>1, LenProperties
    <3>2. s \in Seq(1..Posts)
      BY <2>1, <2>2
    <3>. QED  BY <3>1, <3>2
  <2>. QED
    BY <2>3 DEF Base, Types, Counting, Numbers, PostsInv, OnlyPosts, ThreadTypeOK
<1>. QED  BY <1>1, CountingInvariant, PostsInvariant, PTL
=============================================================================
