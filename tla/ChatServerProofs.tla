-------------------------- MODULE ChatServerProofs --------------------------
(***************************************************************************)
(* Theorems about ChatServer, for every set of sessions and messages and   *)
(* every MaxRecent and MaxPublished.                                       *)
(***************************************************************************)
EXTENDS ChatServer, SequenceTheorems, TLAPS

-----------------------------------------------------------------------------
(* Stretches of a sequence.                                                *)

\* The stretch stays where it is when the sequence grows at its end.
LEMMA WindowOfAppend ==
  ASSUME NEW S, NEW q \in Seq(S), NEW l \in Seq(S), NEW e \in S, NEW n \in Nat,
         IsWindow(q, l, n)
  PROVE  IsWindow(q, Append(l, e), n)
<1>1. /\ Len(Append(l, e)) = Len(l) + 1
      /\ \A i \in 1..Len(l) : Append(l, e)[i] = l[i]
  BY AppendProperties
<1>2. Len(q) \in Nat /\ Len(l) \in Nat /\ n + Len(q) <= Len(l)
  BY DEF IsWindow
<1>3. ASSUME NEW i \in 1..Len(q)
      PROVE  q[i] = Append(l, e)[n + i]
  <2>1. n + i \in 1..Len(l)
    BY <1>2
  <2>. QED  BY <1>1, <2>1 DEF IsWindow
<1>. QED  BY <1>1, <1>2, <1>3 DEF IsWindow

\* A stretch that reaches the end still does when both grow by one element.
LEMMA WindowAppend ==
  ASSUME NEW S, NEW q \in Seq(S), NEW l \in Seq(S), NEW e \in S, NEW n \in Nat,
         IsWindow(q, l, n), n + Len(q) = Len(l)
  PROVE  IsWindow(Append(q, e), Append(l, e), n)
<1>1. /\ Len(Append(l, e)) = Len(l) + 1
      /\ \A i \in 1..Len(l) : Append(l, e)[i] = l[i]
      /\ Append(l, e)[Len(l) + 1] = e
  BY AppendProperties
<1>2. /\ Len(Append(q, e)) = Len(q) + 1
      /\ \A i \in 1..Len(q) : Append(q, e)[i] = q[i]
      /\ Append(q, e)[Len(q) + 1] = e
  BY AppendProperties
<1>3. Len(q) \in Nat /\ Len(l) \in Nat
  OBVIOUS
<1>4. ASSUME NEW i \in 1..(Len(q) + 1)
      PROVE  Append(q, e)[i] = Append(l, e)[n + i]
  <2>1. CASE i \in 1..Len(q)
    <3>1. n + i \in 1..Len(l)
      BY <1>3, <2>1
    <3>. QED  BY <1>1, <1>2, <2>1, <3>1 DEF IsWindow
  <2>2. CASE i = Len(q) + 1
    <3>1. n + i = Len(l) + 1
      BY <1>3, <2>2
    <3>. QED  BY <1>1, <1>2, <2>2, <3>1
  <2>. QED  BY <1>3, <2>1, <2>2
<1>5. n + (Len(q) + 1) <= Len(l) + 1
  BY <1>3
<1>. QED  BY <1>1, <1>2, <1>4, <1>5 DEF IsWindow

\* Two adjacent stretches stay adjacent when the first element of the second
\* becomes the last of the first.
LEMMA WindowShift ==
  ASSUME NEW S, NEW d \in Seq(S), NEW q \in Seq(S), NEW l \in Seq(S), NEW n \in Nat,
         IsWindow(d, l, n), IsWindow(q, l, n + Len(d)), q # <<>>
  PROVE  /\ IsWindow(Append(d, Head(q)), l, n)
         /\ IsWindow(Tail(q), l, n + Len(Append(d, Head(q))))
         /\ n + Len(Append(d, Head(q))) + Len(Tail(q)) = n + Len(d) + Len(q)
<1>1. /\ Head(q) \in S /\ Head(q) = q[1]
      /\ Len(Tail(q)) = Len(q) - 1
      /\ \A i \in 1..Len(Tail(q)) : Tail(q)[i] = q[i + 1]
  BY HeadTailProperties
<1>2. /\ Len(Append(d, Head(q))) = Len(d) + 1
      /\ \A i \in 1..Len(d) : Append(d, Head(q))[i] = d[i]
      /\ Append(d, Head(q))[Len(d) + 1] = Head(q)
  BY <1>1, AppendProperties
<1>3. Len(d) \in Nat /\ Len(l) \in Nat /\ Len(q) \in Nat /\ 1 \in 1..Len(q)
  OBVIOUS
<1>4. n + Len(d) + Len(q) <= Len(l)
  BY DEF IsWindow
<1>5. q[1] = l[n + Len(d) + 1]
  BY <1>3 DEF IsWindow
<1>6. ASSUME NEW i \in 1..(Len(d) + 1)
      PROVE  Append(d, Head(q))[i] = l[n + i]
  <2>1. CASE i \in 1..Len(d)
    BY <1>2, <2>1 DEF IsWindow
  <2>2. CASE i = Len(d) + 1
    <3>1. n + i = n + Len(d) + 1
      BY <1>3, <2>2
    <3>. QED  BY <1>1, <1>2, <1>5, <2>2, <3>1
  <2>. QED  BY <1>3, <2>1, <2>2
<1>7. ASSUME NEW i \in 1..(Len(q) - 1)
      PROVE  Tail(q)[i] = l[n + (Len(d) + 1) + i]
  <2>1. i + 1 \in 1..Len(q) /\ n + Len(d) + (i + 1) = n + (Len(d) + 1) + i
    BY <1>3
  <2>2. Tail(q)[i] = q[i + 1]
    BY <1>1
  <2>3. q[i + 1] = l[n + Len(d) + (i + 1)]
    BY <2>1 DEF IsWindow
  <2>. QED  BY <2>1, <2>2, <2>3
<1>8. n + (Len(d) + 1) <= Len(l) /\ n + (Len(d) + 1) + (Len(q) - 1) <= Len(l)
  BY <1>3, <1>4
<1>9. n + (Len(d) + 1) + (Len(q) - 1) = n + Len(d) + Len(q)
  BY <1>3
<1>. QED  BY <1>1, <1>2, <1>6, <1>7, <1>8, <1>9 DEF IsWindow

\* A stretch of a stretch is a stretch.
LEMMA WindowOfWindow ==
  ASSUME NEW S, NEW a \in Seq(S), NEW b \in Seq(S), NEW c \in Seq(S),
         NEW i \in Nat, NEW j \in Nat, IsWindow(a, b, i), IsWindow(b, c, j)
  PROVE  IsWindow(a, c, j + i)
<1>1. /\ Len(a) \in Nat /\ Len(b) \in Nat /\ Len(c) \in Nat
      /\ i + Len(a) <= Len(b) /\ j + Len(b) <= Len(c)
  BY DEF IsWindow
<1>2. ASSUME NEW x \in 1..Len(a)
      PROVE  a[x] = c[(j + i) + x]
  <2>1. i + x \in 1..Len(b) /\ j + (i + x) = (j + i) + x
    BY <1>1
  <2>2. a[x] = b[i + x]
    BY DEF IsWindow
  <2>3. b[i + x] = c[j + (i + x)]
    BY <2>1 DEF IsWindow
  <2>. QED  BY <2>1, <2>2, <2>3
<1>. QED  BY <1>1, <1>2 DEF IsWindow

-----------------------------------------------------------------------------
(* The operators the handlers share.                                       *)

\* What trimming leaves: the newest MaxRecent messages, or all.
LEMMA TrimProperties ==
  ASSUME NEW q \in Seq(Msgs)
  PROVE  /\ Trim(q) \in Seq(Msgs)
         /\ Len(Trim(q)) = IF Len(q) > MaxRecent THEN MaxRecent ELSE Len(q)
         /\ IsWindow(Trim(q), q, Len(q) - Len(Trim(q)))
<1>1. Len(q) \in Nat /\ MaxRecent \in Nat
  BY ChatServerAssumption
<1> DEFINE k == IF Len(q) > MaxRecent THEN Len(q) - MaxRecent + 1 ELSE 1
<1>2. k \in 1..(Len(q) + 1)
  BY <1>1
<1>3. Trim(q) = SubSeq(q, k, Len(q))
  BY DEF Trim
<1>4. /\ SubSeq(q, k, Len(q)) \in Seq(Msgs)
      /\ Len(SubSeq(q, k, Len(q))) = IF k <= Len(q) THEN Len(q) - k + 1 ELSE 0
      /\ \A i \in 1..(Len(q) - k + 1) : SubSeq(q, k, Len(q))[i] = q[k + i - 1]
  BY <1>1, <1>2
<1>5. Len(Trim(q)) = Len(q) - k + 1
  <2>1. k <= Len(q) \/ k = Len(q) + 1
    BY <1>1, <1>2
  <2> HIDE DEF k
  <2>. QED  BY <1>1, <1>2, <1>3, <1>4, <2>1
<1>6. Len(Trim(q)) = IF Len(q) > MaxRecent THEN MaxRecent ELSE Len(q)
  BY <1>1, <1>5
<1>7. ASSUME NEW i \in 1..Len(Trim(q))
      PROVE  Trim(q)[i] = q[Len(q) - Len(Trim(q)) + i]
  <2>1. Trim(q)[i] = q[k + i - 1]
    BY <1>3, <1>4, <1>5
  <2>2. k + i - 1 = Len(q) - Len(Trim(q)) + i
    BY <1>1, <1>2, <1>5
  <2>. QED  BY <2>1, <2>2
<1>8. Len(q) - Len(Trim(q)) + Len(Trim(q)) <= Len(q)
  BY <1>1, <1>6
<1>. QED  BY <1>3, <1>4, <1>6, <1>7, <1>8 DEF IsWindow

\* Each value a started write is made of is a message.
LEMMA StartedWriteType ==
  ASSUME NEW q \in Seq(Msgs), NEW ms \in Seq(Msgs)
  PROVE  /\ StartedByDeliver(q, ms) \in Seq(Msgs)
         /\ StartedByHandleWrite(q) \in Seq(Msgs)
  BY DEF StartedByDeliver, StartedByHandleWrite

\* start_accept() gives a phase to every session object.
LEMMA StartAcceptType ==
  ASSUME NEW ph \in [Sessions -> Phases], StartAccept(ph)
  PROVE  /\ phase' \in [Sessions -> Phases]
         /\ \A s \in Sessions : phase'[s] = "started" <=> ph[s] = "started"
  BY DEF StartAccept, Phases

-----------------------------------------------------------------------------

\* A session whose start() has not run has nothing queued, written or read.
NotStartedIsIdle ==
  \A s \in Sessions :
    ~Started(s) => /\ s \notin participants
                   /\ reading[s] = "none"
                   /\ write_msgs[s] = <<>>
                   /\ in_flight[s] = <<>>
                   /\ sent[s] = <<>>

\* The inductive invariant.
IInv ==
  /\ TypeOK
  /\ NotStartedIsIdle
  /\ SingleWriter
  /\ NoStalledQueue
  /\ MembershipFollowsReads
  /\ HistoryIsLogSuffix
  /\ GaplessStreams

\* The server starts in the invariant: one session waits in async_accept, and
\* the room, the queues and the histories are empty.
LEMMA InitIInv == Init => IInv
<1> SUFFICES ASSUME Init PROVE IInv
  OBVIOUS
<1>1. TypeOK
  BY ChatServerAssumption DEF Init, TypeOK, Phases, Reads
<1>2. NotStartedIsIdle /\ SingleWriter /\ NoStalledQueue /\ MembershipFollowsReads
  BY DEF Init, NotStartedIsIdle, SingleWriter, NoStalledQueue,
         MembershipFollowsReads, Started
<1>3. HistoryIsLogSuffix
  BY ChatServerAssumption DEF Init, HistoryIsLogSuffix, IsWindow
<1>4. GaplessStreams
  BY DEF Init, GaplessStreams, Started
<1>. QED  BY <1>1, <1>2, <1>3, <1>4 DEF IInv

\* No handler takes a variable out of its type; deliver() trims recent_msgs_
\* before it returns.
LEMMA TypeStep ==
  ASSUME TypeOK, HistoryIsLogSuffix, SingleWriter, [Next]_vars
  PROVE  TypeOK'
<1>. USE DEF TypeOK
<1>1. ASSUME NEW s \in Sessions, HandleAccept(s)
      PROVE  TypeOK'
  <2>1. phase' \in [Sessions -> Phases]
    <3>1. [phase EXCEPT ![s] = "started"] \in [Sessions -> Phases]
      BY DEF Phases
    <3>. QED  BY <1>1, <3>1, StartAcceptType DEF HandleAccept
  <2>2. Len(log) - Len(recent_msgs) \in Nat
    BY ChatServerAssumption DEF HistoryIsLogSuffix
  <2>3. StartedByDeliver(write_msgs[s], recent_msgs) \in Seq(Msgs)
    BY StartedWriteType
  <2>4. write_msgs' \in [Sessions -> Seq(Msgs)]
    BY <1>1 DEF HandleAccept
  <2>5. in_flight' \in [Sessions -> Seq(Msgs)]
    BY <1>1, <2>3 DEF HandleAccept
  <2>6. reading' \in [Sessions -> Reads]
    BY <1>1 DEF HandleAccept, Reads
  <2>. QED  BY <1>1, <2>1, <2>2, <2>4, <2>5, <2>6 DEF HandleAccept
<1>2. ASSUME NEW s \in Sessions, HandleAcceptError(s)
      PROVE  TypeOK'
  <2>1. [phase EXCEPT ![s] = "dropped"] \in [Sessions -> Phases]
    BY DEF Phases
  <2>. QED  BY <1>2, <2>1, StartAcceptType DEF HandleAcceptError
<1>3. ASSUME NEW s \in Sessions, HandleReadHeader(s)
      PROVE  TypeOK'
  BY <1>3 DEF HandleReadHeader, room, Reads
<1>4. ASSUME NEW s \in Sessions, HandleBadHeader(s)
      PROVE  TypeOK'
  BY <1>4 DEF HandleBadHeader, Leave, Reads
<1>5. ASSUME NEW s \in Sessions, NEW m \in Msgs, HandleReadBody(s, m)
      PROVE  TypeOK'
  <2>1. recent_msgs' \in Seq(Msgs) /\ Len(recent_msgs') <= MaxRecent
    <3>1. Append(recent_msgs, m) \in Seq(Msgs) /\ recent_msgs' = Trim(Append(recent_msgs, m))
      BY <1>5 DEF HandleReadBody
    <3>2. /\ recent_msgs' \in Seq(Msgs)
          /\ Len(recent_msgs') = IF Len(Append(recent_msgs, m)) > MaxRecent
                                 THEN MaxRecent ELSE Len(Append(recent_msgs, m))
      BY <3>1, TrimProperties
    <3>. QED  BY <3>1, <3>2, ChatServerAssumption
  <2>2. ASSUME NEW t \in Sessions
        PROVE  in_flight[t] \o StartedByDeliver(write_msgs[t], <<m>>) \in Seq(Msgs)
    <3>1. /\ write_msgs[t] \in Seq(Msgs)
          /\ in_flight[t] \in Seq(Msgs)
          /\ <<m>> \in Seq(Msgs)
      OBVIOUS
    <3>2. StartedByDeliver(write_msgs[t], <<m>>) \in Seq(Msgs)
      BY <3>1, StartedWriteType
    <3>. QED  BY <3>1, <3>2
  <2>3. write_msgs' \in [Sessions -> Seq(Msgs)]
    BY <1>5 DEF HandleReadBody
  <2>4. in_flight' \in [Sessions -> Seq(Msgs)]
    BY <1>5, <2>2 DEF HandleReadBody
  <2>5. reading' \in [Sessions -> Reads] /\ log' \in Seq(Msgs)
    BY <1>5 DEF HandleReadBody, Reads
  <2>. QED  BY <1>5, <2>1, <2>3, <2>4, <2>5 DEF HandleReadBody
<1>6. ASSUME NEW s \in Sessions, HandleReadError(s)
      PROVE  TypeOK'
  BY <1>6 DEF HandleReadError, Leave, Reads
<1>7. ASSUME NEW s \in Sessions, HandleWrite(s)
      PROVE  TypeOK'
  <2>1. write_msgs[s] # <<>> /\ in_flight[s] # <<>>
    BY <1>7 DEF SingleWriter, HandleWrite
  <2>2. /\ Tail(write_msgs[s]) \in Seq(Msgs)
        /\ Tail(in_flight[s]) \in Seq(Msgs)
        /\ Head(in_flight[s]) \in Msgs
    BY <2>1
  <2>3. StartedByHandleWrite(Tail(write_msgs[s])) \in Seq(Msgs)
    BY <2>2, StartedWriteType
  <2>. QED  BY <1>7, <2>2, <2>3 DEF HandleWrite, room
<1>8. ASSUME NEW s \in Sessions, HandleWriteError(s)
      PROVE  TypeOK'
  BY <1>8 DEF HandleWriteError, Leave
<1>9. ASSUME NEW s \in Sessions, PeerCloses(s)
      PROVE  TypeOK'
  BY <1>9 DEF PeerCloses, room
<1>10. CASE UNCHANGED vars
  BY <1>10 DEF vars
<1>. QED
  BY <1>1, <1>2, <1>3, <1>4, <1>5, <1>6, <1>7, <1>8, <1>9, <1>10
     DEF Next, ReadCompletes, WriteCompletes

-----------------------------------------------------------------------------
(* What the three handlers that touch the queues do, session by session.   *)

\* A newcomer starts with the room's history and one write, if there is any.
LEMMA AcceptEffect ==
  ASSUME TypeOK, NotStartedIsIdle, NEW s \in Sessions, HandleAccept(s)
  PROVE  /\ ~Started(s)
         /\ \A t \in Sessions : Started(t)' <=> Started(t) \/ t = s
         /\ write_msgs' = [write_msgs EXCEPT ![s] = recent_msgs]
         /\ in_flight' = [in_flight EXCEPT ![s] =
                            IF recent_msgs = <<>> THEN <<>> ELSE <<Head(recent_msgs)>>]
         /\ sent[s] = <<>>
<1>1. ~Started(s)
  BY DEF HandleAccept, Started
<1>2. \A t \in Sessions : Started(t)' <=> Started(t) \/ t = s
  <2>1. [phase EXCEPT ![s] = "started"] \in [Sessions -> Phases]
    BY DEF TypeOK, Phases
  <2>2. \A t \in Sessions :
           phase'[t] = "started" <=> [phase EXCEPT ![s] = "started"][t] = "started"
    BY <2>1, StartAcceptType DEF HandleAccept
  <2>. QED  BY <2>2 DEF Started, TypeOK
<1>3. write_msgs[s] = <<>> /\ in_flight[s] = <<>> /\ sent[s] = <<>>
  BY <1>1 DEF NotStartedIsIdle
<1>4. write_msgs[s] \o recent_msgs = recent_msgs
  BY <1>3 DEF TypeOK
<1>5. in_flight[s] \o StartedByDeliver(write_msgs[s], recent_msgs)
        = IF recent_msgs = <<>> THEN <<>> ELSE <<Head(recent_msgs)>>
  BY <1>3 DEF TypeOK, StartedByDeliver
<1>. QED  BY <1>1, <1>2, <1>3, <1>4, <1>5 DEF HandleAccept

\* A failed accept starts no session.
LEMMA AcceptErrorEffect ==
  ASSUME TypeOK, NEW s \in Sessions, HandleAcceptError(s)
  PROVE  \A t \in Sessions : Started(t)' <=> Started(t)
<1>1. [phase EXCEPT ![s] = "dropped"] \in [Sessions -> Phases]
  BY DEF TypeOK, Phases
<1>2. \A t \in Sessions :
        phase'[t] = "started" <=> [phase EXCEPT ![s] = "dropped"][t] = "started"
  BY <1>1, StartAcceptType DEF HandleAcceptError
<1>. QED  BY <1>2 DEF Started, HandleAcceptError, TypeOK

\* deliver() appends to the queues of the participants and starts a write
\* exactly where the queue was empty.
LEMMA BodyEffect ==
  ASSUME TypeOK, SingleWriter, NEW s \in Sessions, NEW m \in Msgs,
         HandleReadBody(s, m), NEW t \in Sessions
  PROVE  /\ write_msgs'[t] = IF t \in participants THEN Append(write_msgs[t], m)
                                                   ELSE write_msgs[t]
         /\ in_flight'[t] = IF t \in participants /\ write_msgs[t] = <<>>
                            THEN <<m>> ELSE in_flight[t]
<1>1. write_msgs'[t] = IF t \in participants THEN Append(write_msgs[t], m)
                                             ELSE write_msgs[t]
  BY DEF HandleReadBody, Recipients
<1>2. in_flight'[t] = IF t \in participants
                      THEN in_flight[t] \o StartedByDeliver(write_msgs[t], <<m>>)
                      ELSE in_flight[t]
  BY DEF HandleReadBody, Recipients
<1>3. CASE write_msgs[t] = <<>>
  <2>1. in_flight[t] = <<>>
    BY <1>3 DEF SingleWriter
  <2>2. StartedByDeliver(write_msgs[t], <<m>>) = <<m>>
    BY <1>3 DEF StartedByDeliver
  <2>3. in_flight[t] \o <<m>> = <<m>>
    BY <2>1
  <2>. QED  BY <1>1, <1>2, <1>3, <2>2, <2>3
<1>4. CASE write_msgs[t] # <<>>
  <2>1. StartedByDeliver(write_msgs[t], <<m>>) = <<>>
    BY <1>4 DEF StartedByDeliver
  <2>2. in_flight[t] \o <<>> = in_flight[t]
    BY DEF TypeOK
  <2>. QED  BY <1>1, <1>2, <1>4, <2>1, <2>2
<1>. QED  BY <1>3, <1>4

\* handle_write moves the front of the queue to what was sent and starts the
\* write of the next message, if there is one.
LEMMA WriteEffect ==
  ASSUME TypeOK, SingleWriter, NEW s \in Sessions, HandleWrite(s)
  PROVE  /\ write_msgs[s] # <<>>
         /\ Head(write_msgs[s]) \in Msgs
         /\ Tail(write_msgs[s]) \in Seq(Msgs)
         /\ sent' = [sent EXCEPT ![s] = Append(@, Head(write_msgs[s]))]
         /\ write_msgs' = [write_msgs EXCEPT ![s] = Tail(@)]
         /\ in_flight' = [in_flight EXCEPT ![s] =
                            IF Tail(write_msgs[s]) = <<>> THEN <<>>
                            ELSE <<Head(Tail(write_msgs[s]))>>]
<1>1. /\ write_msgs[s] # <<>>
      /\ in_flight[s] = <<Head(write_msgs[s])>>
  BY DEF HandleWrite, SingleWriter
<1>2. /\ Head(write_msgs[s]) \in Msgs
      /\ Tail(write_msgs[s]) \in Seq(Msgs)
  BY <1>1 DEF TypeOK
<1>3. Head(in_flight[s]) = Head(write_msgs[s]) /\ Tail(in_flight[s]) = <<>>
  BY <1>1, <1>2
<1>4. StartedByHandleWrite(Tail(write_msgs[s])) \in Seq(Msgs)
  BY <1>2, StartedWriteType
<1>5. Tail(in_flight[s]) \o StartedByHandleWrite(Tail(write_msgs[s]))
        = IF Tail(write_msgs[s]) = <<>> THEN <<>> ELSE <<Head(Tail(write_msgs[s]))>>
  <2>1. <<>> \o StartedByHandleWrite(Tail(write_msgs[s]))
          = StartedByHandleWrite(Tail(write_msgs[s]))
    BY <1>4
  <2>. QED  BY <1>3, <2>1 DEF StartedByHandleWrite
<1>. QED  BY <1>1, <1>2, <1>3, <1>5 DEF HandleWrite

\* A failed write leaves no write outstanding.
LEMMA WriteErrorEffect ==
  ASSUME TypeOK, SingleWriter, NEW s \in Sessions, HandleWriteError(s)
  PROVE  /\ write_msgs[s] # <<>>
         /\ in_flight' = [in_flight EXCEPT ![s] = <<>>]
<1>1. write_msgs[s] # <<>> /\ in_flight[s] = <<Head(write_msgs[s])>>
  BY DEF HandleWriteError, SingleWriter
<1>2. Head(write_msgs[s]) \in Msgs
  BY <1>1 DEF TypeOK
<1>3. Tail(in_flight[s]) = <<>>
  BY <1>1, <1>2
<1>. QED  BY <1>1, <1>3 DEF HandleWriteError

-----------------------------------------------------------------------------
(* The invariant is inductive.                                             *)

\* A handler touches only sessions that start() has run for.
LEMMA IdleStep ==
  ASSUME TypeOK, NotStartedIsIdle, SingleWriter, MembershipFollowsReads,
         [Next]_vars
  PROVE  NotStartedIsIdle'
<1>. USE DEF NotStartedIsIdle
<1>1. ASSUME NEW s \in Sessions, HandleAccept(s)
      PROVE  NotStartedIsIdle'
  <2>1. \A t \in Sessions : ~Started(t)' => ~Started(t) /\ t # s
    BY <1>1, AcceptEffect
  <2>. QED  BY <1>1, <2>1 DEF HandleAccept, TypeOK
<1>2. ASSUME NEW s \in Sessions, HandleAcceptError(s)
      PROVE  NotStartedIsIdle'
  BY <1>2, AcceptErrorEffect DEF HandleAcceptError
<1>3. ASSUME NEW s \in Sessions, ReadCompletes(s)
      PROVE  NotStartedIsIdle'
  <2>1. Started(s) /\ phase' = phase
    BY <1>3 DEF ReadCompletes, HandleReadHeader, HandleBadHeader, HandleReadBody,
                HandleReadError
  <2>2. CASE HandleReadHeader(s)
    BY <2>1, <2>2 DEF HandleReadHeader, room, Started, TypeOK
  <2>3. CASE HandleBadHeader(s) \/ HandleReadError(s)
    BY <2>1, <2>3 DEF HandleBadHeader, HandleReadError, Leave, Started, TypeOK
  <2>4. ASSUME NEW m \in Msgs, HandleReadBody(s, m)
        PROVE  NotStartedIsIdle'
    BY <2>1, <2>4, BodyEffect DEF HandleReadBody, Started, TypeOK
  <2>. QED  BY <1>3, <2>2, <2>3, <2>4 DEF ReadCompletes
<1>4. ASSUME NEW s \in Sessions, WriteCompletes(s)
      PROVE  NotStartedIsIdle'
  <2>1. Started(s) /\ phase' = phase
    BY <1>4 DEF WriteCompletes, HandleWrite, HandleWriteError
  <2>. QED
    BY <1>4, <2>1 DEF WriteCompletes, HandleWrite, HandleWriteError, room, Leave,
                      Started, TypeOK
<1>5. ASSUME NEW s \in Sessions, PeerCloses(s)
      PROVE  NotStartedIsIdle'
  BY <1>5 DEF PeerCloses, room, Started
<1>6. CASE UNCHANGED vars
  BY <1>6 DEF vars, Started
<1>. QED
  BY <1>1, <1>2, <1>3, <1>4, <1>5, <1>6 DEF Next

\* The two halves of the writing discipline are preserved together.
LEMMA WritingStep ==
  ASSUME TypeOK, NotStartedIsIdle, SingleWriter, NoStalledQueue,
         MembershipFollowsReads, [Next]_vars
  PROVE  SingleWriter' /\ NoStalledQueue'
<1>1. ASSUME NEW s \in Sessions, HandleAccept(s)
      PROVE  SingleWriter' /\ NoStalledQueue'
  <2>1. /\ write_msgs' = [write_msgs EXCEPT ![s] = recent_msgs]
        /\ in_flight' = [in_flight EXCEPT ![s] =
                           IF recent_msgs = <<>> THEN <<>> ELSE <<Head(recent_msgs)>>]
    BY <1>1, AcceptEffect
  <2>2. SingleWriter'
    BY <2>1 DEF SingleWriter, TypeOK
  <2>3. NoStalledQueue'
    <3>1. participants' = participants \cup {s}
      BY <1>1 DEF HandleAccept
    <3>2. ASSUME NEW t \in participants', write_msgs'[t] # <<>>
          PROVE  in_flight'[t] # <<>>
      <4>1. CASE t = s
        BY <2>1, <3>2, <4>1 DEF TypeOK
      <4>2. CASE t # s
        BY <2>1, <3>1, <3>2, <4>2 DEF NoStalledQueue, TypeOK
      <4>. QED  BY <4>1, <4>2
    <3>. QED  BY <3>2 DEF NoStalledQueue
  <2>. QED  BY <2>2, <2>3
<1>2. ASSUME NEW s \in Sessions, HandleAcceptError(s)
      PROVE  SingleWriter' /\ NoStalledQueue'
  BY <1>2 DEF SingleWriter, NoStalledQueue, HandleAcceptError
<1>3. ASSUME NEW s \in Sessions, HandleReadHeader(s)
      PROVE  SingleWriter' /\ NoStalledQueue'
  BY <1>3 DEF SingleWriter, NoStalledQueue, HandleReadHeader, room
<1>4. ASSUME NEW s \in Sessions, HandleBadHeader(s) \/ HandleReadError(s)
      PROVE  SingleWriter' /\ NoStalledQueue'
  BY <1>4 DEF SingleWriter, NoStalledQueue, HandleBadHeader, HandleReadError, Leave
<1>5. ASSUME NEW s \in Sessions, NEW m \in Msgs, HandleReadBody(s, m)
      PROVE  SingleWriter' /\ NoStalledQueue'
  <2>1. ASSUME NEW t \in Sessions
        PROVE  /\ in_flight'[t] # <<>> =>
                    /\ write_msgs'[t] # <<>>
                    /\ in_flight'[t] = <<Head(write_msgs'[t])>>
               /\ t \in participants /\ write_msgs'[t] # <<>> => in_flight'[t] # <<>>
    <3>1. CASE t \in participants /\ write_msgs[t] = <<>>
      <4>1. write_msgs'[t] = Append(<<>>, m) /\ in_flight'[t] = <<m>>
        BY <1>5, <3>1, BodyEffect
      <4>2. Append(<<>>, m) # <<>> /\ Head(Append(<<>>, m)) = m
        OBVIOUS
      <4>. QED  BY <4>1, <4>2
    <3>2. CASE t \in participants /\ write_msgs[t] # <<>>
      <4>1. write_msgs'[t] = Append(write_msgs[t], m) /\ in_flight'[t] = in_flight[t]
        BY <1>5, <3>2, BodyEffect
      <4>2. /\ Append(write_msgs[t], m) # <<>>
            /\ Head(Append(write_msgs[t], m)) = Head(write_msgs[t])
        BY <3>2 DEF TypeOK
      <4>3. in_flight[t] # <<>>
        BY <3>2 DEF NoStalledQueue
      <4>. QED  BY <4>1, <4>2, <4>3 DEF SingleWriter
    <3>3. CASE t \notin participants
      BY <1>5, <3>3, BodyEffect DEF SingleWriter
    <3>. QED  BY <3>1, <3>2, <3>3
  <2>2. participants' = participants
    BY <1>5 DEF HandleReadBody
  <2>. QED  BY <2>1, <2>2 DEF SingleWriter, NoStalledQueue, TypeOK
<1>6. ASSUME NEW s \in Sessions, HandleWrite(s)
      PROVE  SingleWriter' /\ NoStalledQueue'
  <2>1. participants' = participants
    BY <1>6 DEF HandleWrite, room
  <2>2. /\ write_msgs' = [write_msgs EXCEPT ![s] = Tail(@)]
        /\ in_flight' = [in_flight EXCEPT ![s] =
                           IF Tail(write_msgs[s]) = <<>> THEN <<>>
                           ELSE <<Head(Tail(write_msgs[s]))>>]
    BY <1>6, WriteEffect
  <2>3. SingleWriter'
    BY <2>2 DEF SingleWriter, TypeOK
  <2>4. NoStalledQueue'
    BY <2>1, <2>2 DEF NoStalledQueue, TypeOK
  <2>. QED  BY <2>3, <2>4
<1>7. ASSUME NEW s \in Sessions, HandleWriteError(s)
      PROVE  SingleWriter' /\ NoStalledQueue'
  BY <1>7, WriteErrorEffect
     DEF SingleWriter, NoStalledQueue, HandleWriteError, Leave, TypeOK
<1>8. ASSUME NEW s \in Sessions, PeerCloses(s)
      PROVE  SingleWriter' /\ NoStalledQueue'
  BY <1>8 DEF SingleWriter, NoStalledQueue, PeerCloses, room
<1>9. CASE UNCHANGED vars
  BY <1>9 DEF SingleWriter, NoStalledQueue, vars
<1>. QED
  BY <1>1, <1>2, <1>3, <1>4, <1>5, <1>6, <1>7, <1>8, <1>9
     DEF Next, ReadCompletes, WriteCompletes

\* start() joins the room and reads; every handler that ends the reads, or loses
\* the write, calls leave().
LEMMA MembershipStep ==
  ASSUME TypeOK, NotStartedIsIdle, SingleWriter, MembershipFollowsReads,
         [Next]_vars
  PROVE  MembershipFollowsReads'
<1>. USE DEF MembershipFollowsReads, TypeOK
<1>1. ASSUME NEW s \in Sessions, HandleAccept(s)
      PROVE  MembershipFollowsReads'
  <2>1. \A t \in Sessions : Started(t)' <=> Started(t) \/ t = s
    BY <1>1, AcceptEffect
  <2>. QED  BY <1>1, <2>1, AcceptEffect DEF HandleAccept
<1>2. ASSUME NEW s \in Sessions, HandleAcceptError(s)
      PROVE  MembershipFollowsReads'
  BY <1>2, AcceptErrorEffect DEF HandleAcceptError
<1>3. ASSUME NEW s \in Sessions, HandleReadHeader(s)
      PROVE  MembershipFollowsReads'
  BY <1>3 DEF HandleReadHeader, room, Started
<1>4. ASSUME NEW s \in Sessions, HandleBadHeader(s) \/ HandleReadError(s)
      PROVE  MembershipFollowsReads'
  BY <1>4 DEF HandleBadHeader, HandleReadError, Leave, Started
<1>5. ASSUME NEW s \in Sessions, NEW m \in Msgs, HandleReadBody(s, m)
      PROVE  MembershipFollowsReads'
  <2>1. \A t \in Sessions : t \notin participants =>
           write_msgs'[t] = write_msgs[t] /\ in_flight'[t] = in_flight[t]
    BY <1>5, BodyEffect
  <2>. QED  BY <1>5, <2>1 DEF HandleReadBody, Started
<1>6. ASSUME NEW s \in Sessions, HandleWrite(s)
      PROVE  MembershipFollowsReads'
  BY <1>6 DEF HandleWrite, room, Started
<1>7. ASSUME NEW s \in Sessions, HandleWriteError(s)
      PROVE  MembershipFollowsReads'
  BY <1>7, WriteErrorEffect DEF HandleWriteError, Leave, Started
<1>8. ASSUME NEW s \in Sessions, PeerCloses(s)
      PROVE  MembershipFollowsReads'
  BY <1>8 DEF PeerCloses, room, Started
<1>9. CASE UNCHANGED vars
  BY <1>9 DEF vars, Started
<1>. QED
  BY <1>1, <1>2, <1>3, <1>4, <1>5, <1>6, <1>7, <1>8, <1>9
     DEF Next, ReadCompletes, WriteCompletes

\* deliver() appends and trims, so the room keeps the newest messages.
LEMMA HistoryStep ==
  ASSUME TypeOK, HistoryIsLogSuffix, [Next]_vars
  PROVE  HistoryIsLogSuffix'
<1>1. ASSUME NEW s \in Sessions, NEW m \in Msgs, HandleReadBody(s, m)
      PROVE  HistoryIsLogSuffix'
  <2> DEFINE q == Append(recent_msgs, m)
             n == Len(log) - Len(recent_msgs)
  <2>1. recent_msgs' = Trim(q) /\ log' = Append(log, m)
    BY <1>1 DEF HandleReadBody
  <2>2. /\ q \in Seq(Msgs) /\ Len(q) = Len(recent_msgs) + 1
        /\ log' \in Seq(Msgs) /\ Len(log') = Len(log) + 1
    BY <2>1, AppendProperties DEF TypeOK
  <2>3. /\ Trim(q) \in Seq(Msgs)
        /\ Len(Trim(q)) = IF Len(q) > MaxRecent THEN MaxRecent ELSE Len(q)
        /\ IsWindow(Trim(q), q, Len(q) - Len(Trim(q)))
    BY <2>2, TrimProperties
  <2>4. /\ Len(log) \in Nat /\ Len(recent_msgs) \in Nat /\ MaxRecent \in Nat
        /\ Len(recent_msgs) = IF Len(log) > MaxRecent THEN MaxRecent ELSE Len(log)
    BY ChatServerAssumption DEF HistoryIsLogSuffix, TypeOK
  <2>5. n \in Nat /\ n + Len(recent_msgs) = Len(log)
    BY <2>4
  <2>6. IsWindow(q, log', n)
    BY <2>1, <2>5, WindowAppend DEF HistoryIsLogSuffix, TypeOK
  <2> HIDE DEF q, n
  <2>7. Len(Trim(q)) = IF Len(log') > MaxRecent THEN MaxRecent ELSE Len(log')
    BY <2>2, <2>3, <2>4
  <2>8. Len(q) - Len(Trim(q)) \in Nat
    BY <2>2, <2>3, <2>4
  <2>9. IsWindow(Trim(q), log', n + (Len(q) - Len(Trim(q))))
    BY <2>2, <2>3, <2>5, <2>6, <2>8, WindowOfWindow
  <2>10. n + (Len(q) - Len(Trim(q))) = Len(log') - Len(Trim(q))
    BY <2>2, <2>3, <2>4, <2>5
  <2>. QED  BY <2>1, <2>7, <2>9, <2>10 DEF HistoryIsLogSuffix
<1>2. CASE UNCHANGED <<recent_msgs, log>>
  BY <1>2 DEF HistoryIsLogSuffix
<1>. QED
  BY <1>1, <1>2 DEF Next, ReadCompletes, WriteCompletes, vars, room, HandleAccept,
     HandleAcceptError, HandleReadHeader, HandleBadHeader, HandleReadError,
     HandleWrite, HandleWriteError, PeerCloses

\* The types of what belongs to one session.
LEMMA SessionTypes ==
  ASSUME TypeOK, NEW s \in Sessions
  PROVE  /\ write_msgs[s] \in Seq(Msgs) /\ Len(write_msgs[s]) \in Nat
         /\ sent[s] \in Seq(Msgs) /\ Len(sent[s]) \in Nat
         /\ joined[s] \in Nat /\ log \in Seq(Msgs)
BY DEF TypeOK

\* GaplessStreams, for one session.
Gapless(s) ==
  /\ IsWindow(sent[s], log, joined[s])
  /\ IsWindow(write_msgs[s], log, joined[s] + Len(sent[s]))
  /\ s \in participants => StreamEnd(s) = Len(log)

\* Joining, delivering and writing each keep every stream in one piece.
LEMMA GaplessStep ==
  ASSUME TypeOK, TypeOK', NotStartedIsIdle, SingleWriter, MembershipFollowsReads,
         HistoryIsLogSuffix, GaplessStreams, [Next]_vars
  PROVE  GaplessStreams'
<1>0. \A t \in Sessions : Started(t) => Gapless(t)
  BY DEF GaplessStreams, Gapless
<1>1. ASSUME NEW s \in Sessions, HandleAccept(s), NEW t \in Sessions, Started(t)'
      PROVE  Gapless(t)'
  <2>1. CASE t = s
    <3>1. /\ write_msgs'[s] = recent_msgs
          /\ sent'[s] = <<>>
          /\ joined'[s] = Len(log) - Len(recent_msgs)
          /\ log' = log
      BY <1>1, AcceptEffect DEF HandleAccept, TypeOK
    <3>2. Len(recent_msgs) \in Nat /\ Len(log) \in Nat /\ Len(sent'[s]) = 0
      BY <3>1
    <3>3. Len(recent_msgs) <= Len(log)
      BY ChatServerAssumption, <3>2 DEF HistoryIsLogSuffix
    <3>4. StreamEnd(s)' = Len(log)
      BY <3>1, <3>2 DEF StreamEnd
    <3>5. IsWindow(sent'[s], log', joined'[s])
      BY <3>1, <3>2, <3>3 DEF IsWindow
    <3>6. IsWindow(write_msgs'[s], log', joined'[s] + Len(sent'[s]))
      <4>1. joined'[s] + Len(sent'[s]) = Len(log) - Len(recent_msgs)
        BY <3>1, <3>2
      <4>. QED  BY <3>1, <4>1 DEF HistoryIsLogSuffix
    <3>. QED  BY <2>1, <3>1, <3>4, <3>5, <3>6 DEF Gapless
  <2>2. CASE t # s
    <3>1. Started(t)
      BY <1>1, <2>2, AcceptEffect
    <3>2. /\ write_msgs'[t] = write_msgs[t]
          /\ joined'[t] = joined[t]
          /\ t \in participants' <=> t \in participants
          /\ sent' = sent /\ log' = log
      BY <1>1, <2>2 DEF HandleAccept
    <3>. QED  BY <1>0, <3>1, <3>2 DEF Gapless, StreamEnd
  <2>. QED  BY <2>1, <2>2
<1>2. ASSUME NEW s \in Sessions, HandleAcceptError(s), NEW t \in Sessions, Started(t)'
      PROVE  Gapless(t)'
  <2>1. Started(t)
    BY <1>2, AcceptErrorEffect
  <2>. QED  BY <1>0, <1>2, <2>1 DEF HandleAcceptError, Gapless, StreamEnd
<1>3. ASSUME NEW s \in Sessions, HandleReadHeader(s), NEW t \in Sessions, Started(t)'
      PROVE  Gapless(t)'
  BY <1>0, <1>3 DEF HandleReadHeader, room, Started, Gapless, StreamEnd
<1>4. ASSUME NEW s \in Sessions, HandleBadHeader(s) \/ HandleReadError(s),
             NEW t \in Sessions, Started(t)'
      PROVE  Gapless(t)'
  BY <1>0, <1>4
     DEF HandleBadHeader, HandleReadError, Leave, Started, Gapless, StreamEnd
<1>5. ASSUME NEW s \in Sessions, NEW m \in Msgs, HandleReadBody(s, m),
             NEW t \in Sessions, Started(t)'
      PROVE  Gapless(t)'
  <2>1. /\ Started(t)
        /\ participants' = participants /\ joined' = joined /\ sent' = sent
        /\ log' = Append(log, m)
    BY <1>5 DEF HandleReadBody, Started
  <2>2. Gapless(t)
    BY <1>0, <2>1
  <2>3. /\ joined[t] \in Nat /\ Len(sent[t]) \in Nat /\ Len(write_msgs[t]) \in Nat
        /\ joined[t] + Len(sent[t]) \in Nat
    BY SessionTypes
  <2>4. IsWindow(sent[t], log', joined[t])
    BY <2>1, <2>2, WindowOfAppend DEF Gapless, TypeOK
  <2>5. CASE t \in participants
    <3>1. write_msgs'[t] = Append(write_msgs[t], m)
      BY <1>5, <2>5, BodyEffect
    <3>2. joined[t] + Len(sent[t]) + Len(write_msgs[t]) = Len(log)
      BY <2>2, <2>5 DEF Gapless, StreamEnd
    <3>3. /\ IsWindow(write_msgs'[t], log', joined[t] + Len(sent[t]))
          /\ joined[t] + Len(sent[t]) + Len(write_msgs'[t]) = Len(log')
      <4> DEFINE n == joined[t] + Len(sent[t])
                 w == write_msgs[t]
      <4>1. n \in Nat /\ w \in Seq(Msgs) /\ log \in Seq(Msgs) /\ m \in Msgs
        BY <2>3 DEF TypeOK
      <4>2. IsWindow(w, log, n) /\ n + Len(w) = Len(log)
        BY <2>2, <3>2 DEF Gapless
      <4> HIDE DEF n, w
      <4>3. IsWindow(Append(w, m), Append(log, m), n)
        BY <4>1, <4>2, WindowAppend
      <4>4. /\ Len(Append(w, m)) = Len(w) + 1 /\ Len(Append(log, m)) = Len(log) + 1
            /\ Len(w) \in Nat /\ Len(log) \in Nat
        BY <4>1, AppendProperties
      <4>5. n + Len(Append(w, m)) = Len(Append(log, m))
        BY <4>1, <4>2, <4>4
      <4>. QED  BY <2>1, <3>1, <4>3, <4>5 DEF n, w
    <3>4. StreamEnd(t)' = Len(log')
      BY <2>1, <3>3 DEF StreamEnd
    <3>. QED  BY <2>1, <2>4, <3>3, <3>4 DEF Gapless
  <2>6. CASE t \notin participants
    <3>1. write_msgs'[t] = write_msgs[t]
      BY <1>5, <2>6, BodyEffect
    <3>2. IsWindow(write_msgs[t], log', joined[t] + Len(sent[t]))
      BY <2>1, <2>2, <2>3, WindowOfAppend DEF Gapless, TypeOK
    <3>. QED  BY <2>1, <2>4, <2>6, <3>1, <3>2 DEF Gapless
  <2>. QED  BY <2>5, <2>6
<1>6. ASSUME NEW s \in Sessions, HandleWrite(s), NEW t \in Sessions, Started(t)'
      PROVE  Gapless(t)'
  <2>1. /\ Started(t) /\ participants' = participants /\ joined' = joined
        /\ log' = log
    BY <1>6 DEF HandleWrite, room, Started
  <2>2. Gapless(t)
    BY <1>0, <2>1
  <2>3. CASE t = s
    <3> DEFINE q == write_msgs[s]
               d == sent[s]
    <3>1. /\ q # <<>>
          /\ Head(q) \in Msgs
          /\ write_msgs'[s] = Tail(q)
          /\ sent'[s] = Append(d, Head(q))
      BY <1>6, WriteEffect DEF TypeOK
    <3>2. /\ q \in Seq(Msgs) /\ d \in Seq(Msgs) /\ joined[s] \in Nat
          /\ log \in Seq(Msgs) /\ Len(q) \in Nat /\ Len(d) \in Nat
      BY SessionTypes
    <3>3. /\ IsWindow(d, log, joined[s])
          /\ IsWindow(q, log, joined[s] + Len(d))
      BY <2>2, <2>3 DEF Gapless
    <3>4. StreamEnd(s) = joined[s] + Len(d) + Len(q)
      BY DEF StreamEnd
    <3>5. StreamEnd(s)' = joined[s] + Len(Append(d, Head(q))) + Len(Tail(q))
      BY <2>1, <3>1 DEF StreamEnd
    <3>6. /\ IsWindow(Append(d, Head(q)), log, joined[s])
          /\ IsWindow(Tail(q), log, joined[s] + Len(Append(d, Head(q))))
          /\ joined[s] + Len(Append(d, Head(q))) + Len(Tail(q))
               = joined[s] + Len(d) + Len(q)
      <4> DEFINE n == joined[s]
      <4>1. n \in Nat /\ IsWindow(d, log, n) /\ IsWindow(q, log, n + Len(d))
        BY <3>2, <3>3
      <4> HIDE DEF q, d, n
      <4>2. /\ IsWindow(Append(d, Head(q)), log, n)
            /\ IsWindow(Tail(q), log, n + Len(Append(d, Head(q))))
            /\ n + Len(Append(d, Head(q))) + Len(Tail(q)) = n + Len(d) + Len(q)
        BY <3>1, <3>2, <4>1, WindowShift
      <4>. QED  BY <4>2 DEF n
    <3>7. /\ IsWindow(sent'[s], log', joined'[s])
          /\ IsWindow(write_msgs'[s], log', joined'[s] + Len(sent'[s]))
      BY <2>1, <3>1, <3>6
    <3>8. StreamEnd(s)' = StreamEnd(s)
      BY <3>4, <3>5, <3>6
    <3>. QED  BY <2>1, <2>2, <2>3, <3>7, <3>8 DEF Gapless
  <2>4. CASE t # s
    BY <1>6, <2>1, <2>2, <2>4 DEF HandleWrite, Gapless, StreamEnd
  <2>. QED  BY <2>3, <2>4
<1>7. ASSUME NEW s \in Sessions, HandleWriteError(s), NEW t \in Sessions, Started(t)'
      PROVE  Gapless(t)'
  BY <1>0, <1>7 DEF HandleWriteError, Leave, Started, Gapless, StreamEnd
<1>8. ASSUME NEW s \in Sessions, PeerCloses(s), NEW t \in Sessions, Started(t)'
      PROVE  Gapless(t)'
  BY <1>0, <1>8 DEF PeerCloses, room, Started, Gapless, StreamEnd
<1>9. ASSUME UNCHANGED vars, NEW t \in Sessions, Started(t)'
      PROVE  Gapless(t)'
  BY <1>0, <1>9 DEF vars, Started, Gapless, StreamEnd
<1>10. \A t \in Sessions : Started(t)' => Gapless(t)'
  BY <1>1, <1>2, <1>3, <1>4, <1>5, <1>6, <1>7, <1>8, <1>9
     DEF Next, ReadCompletes, WriteCompletes
<1>. QED  BY <1>10 DEF GaplessStreams, Gapless

\* Every step of the server preserves the invariant.
LEMMA IInvStep == IInv /\ [Next]_vars => IInv'
  BY TypeStep, IdleStep, WritingStep, MembershipStep, HistoryStep, GaplessStep
     DEF IInv

\* The inductive invariant holds in every reachable state of the server.
THEOREM Invariance == Spec => []IInv
  BY InitIInv, IInvStep, PTL DEF Spec

\* The state of the server keeps its type.
THEOREM TypeCorrect == Spec => []TypeOK
  BY Invariance, PTL DEF IInv

\* No session ever has two async_writes outstanding, or one of a message that is
\* not at the front of its queue; and a participant's queue never stands still.
THEOREM WritingDiscipline == Spec => []OneWritePerQueue
  BY Invariance, PTL DEF IInv, OneWritePerQueue

\* A participant always has a read outstanding, and a session is out of the room
\* only when its reads have ended or its write has failed.
THEOREM MembershipCorrect == Spec => []MembershipFollowsReads
  BY Invariance, PTL DEF IInv

\* The room replays exactly the newest MaxRecent messages to a newcomer; every
\* session is sent a stretch of the room's log without a gap, a repetition
\* or a swap, and a participant has nothing missing up to the newest message.
THEOREM StreamsCorrect == Spec => []StreamsFollowLog
  BY Invariance, PTL DEF IInv, StreamsFollowLog

\* The step behind SilentAfterLeaving, for one session.
LEMMA SilentStep ==
  ASSUME IInv, [Next]_vars, NEW t \in Sessions,
         Started(t), t \notin participants, in_flight[t] = <<>>
  PROVE  in_flight'[t] = <<>> /\ sent'[t] = sent[t]
<1>1. TypeOK /\ NotStartedIsIdle /\ SingleWriter
  BY DEF IInv
<1>2. ASSUME NEW s \in Sessions, HandleAccept(s)
      PROVE  in_flight'[t] = <<>> /\ sent'[t] = sent[t]
  <2>1. t # s
    BY <1>1, <1>2, AcceptEffect
  <2>. QED  BY <1>1, <1>2, <2>1, AcceptEffect DEF HandleAccept, TypeOK
<1>3. ASSUME NEW s \in Sessions, NEW m \in Msgs, HandleReadBody(s, m)
      PROVE  in_flight'[t] = <<>> /\ sent'[t] = sent[t]
  BY <1>1, <1>3, BodyEffect DEF HandleReadBody
<1>4. ASSUME NEW s \in Sessions, WriteCompletes(s)
      PROVE  in_flight'[t] = <<>> /\ sent'[t] = sent[t]
  <2>1. t # s
    BY <1>4 DEF WriteCompletes, HandleWrite, HandleWriteError
  <2>. QED
    BY <1>1, <1>4, <2>1 DEF WriteCompletes, HandleWrite, HandleWriteError, TypeOK
<1>5. CASE UNCHANGED <<in_flight, sent>>
  BY <1>5
<1>. QED
  BY <1>2, <1>3, <1>4, <1>5
     DEF Next, ReadCompletes, vars, HandleAcceptError, HandleReadHeader,
         HandleBadHeader, HandleReadError, PeerCloses

\* Once a session is out of the room with no write outstanding, nothing is
\* written to it again.
THEOREM SilenceCorrect == Spec => SilentAfterLeaving
<1>1. IInv /\ [Next]_vars =>
        [\A s \in Sessions :
           Started(s) /\ s \notin participants /\ in_flight[s] = <<>> =>
             in_flight'[s] = <<>> /\ sent'[s] = sent[s]]_vars
  BY SilentStep
<1>. QED  BY <1>1, Invariance, PTL DEF Spec, SilentAfterLeaving

-----------------------------------------------------------------------------
(* The server implements the abstract room.                                *)

\* The server starts as the abstract room does, with nobody in it.
LEMMA RefinesInit == Init => Broadcast!Init
<1> SUFFICES ASSUME Init PROVE Broadcast!Init
  OBVIOUS
<1>1. Former = {}
  BY DEF Init, Former, Started
<1>2. Horizon = [s \in Sessions |-> 0]
  BY <1>1 DEF Horizon
<1>. QED  BY <1>1, <1>2 DEF Init, Broadcast!Init

\* handle_accept is a Join: the room's history is what the abstract room promises
\* a newcomer.
LEMMA RefinesJoin ==
  ASSUME IInv, IInv', NEW s \in Sessions, HandleAccept(s)
  PROVE  Broadcast!Join(s)
<1>1. TypeOK /\ NotStartedIsIdle /\ HistoryIsLogSuffix
  BY DEF IInv
<1>2. /\ ~Started(s)
      /\ \A t \in Sessions : Started(t)' <=> Started(t) \/ t = s
      /\ participants' = participants \cup {s}
      /\ joined' = [joined EXCEPT ![s] = Len(log) - Len(recent_msgs)]
      /\ log' = log /\ sent' = sent
  BY <1>1, AcceptEffect DEF HandleAccept
<1>3. s \notin participants \cup Former
  BY <1>1, <1>2 DEF NotStartedIsIdle, Former
<1>4. Former' = Former
  BY <1>1, <1>2, <1>3 DEF Former, TypeOK
<1>5. Len(log) - Len(recent_msgs)
        = IF Len(log) > MaxRecent THEN Len(log) - MaxRecent ELSE 0
  BY <1>1, ChatServerAssumption DEF HistoryIsLogSuffix, TypeOK
<1>6. \A t \in Former : StreamEnd(t)' = StreamEnd(t)
  <2>1. \A t \in Former : t \in Sessions /\ t # s
    BY <1>3 DEF Former
  <2>2. \A t \in Former : write_msgs'[t] = write_msgs[t] /\ joined'[t] = joined[t]
    BY <1>1, <2>1, AcceptEffect DEF HandleAccept, TypeOK
  <2>. QED  BY <1>2, <2>2 DEF StreamEnd
<1>7. Horizon' = Horizon
  BY <1>4, <1>6 DEF Horizon
<1>. QED  BY <1>2, <1>3, <1>4, <1>5, <1>7 DEF Broadcast!Join

\* handle_read_body is a Publish: the log grows, and nobody has been sent the
\* message yet.
LEMMA RefinesPublish ==
  ASSUME IInv, NEW s \in Sessions, NEW m \in Msgs, HandleReadBody(s, m)
  PROVE  Broadcast!Publish(m)
<1>1. TypeOK /\ SingleWriter
  BY DEF IInv
<1>2. /\ log' = Append(log, m)
      /\ participants' = participants /\ phase' = phase
      /\ joined' = joined /\ sent' = sent
  BY DEF HandleReadBody
<1>3. Former' = Former
  BY <1>2 DEF Former, Started
<1>4. \A t \in Former : StreamEnd(t)' = StreamEnd(t)
  <2>1. \A t \in Former : write_msgs'[t] = write_msgs[t]
    BY <1>1, BodyEffect DEF Former
  <2>. QED  BY <1>2, <2>1 DEF StreamEnd
<1>5. Horizon' = Horizon
  BY <1>3, <1>4 DEF Horizon
<1>. QED  BY <1>2, <1>3, <1>5 DEF Broadcast!Publish

\* The three handlers that call leave(); the second call changes nothing.
LEMMA RefinesLeave ==
  ASSUME IInv, NEW s \in Sessions, Leave(s), phase' = phase,
         UNCHANGED <<log, write_msgs, joined, sent>>
  PROVE  Broadcast!Leave(s) \/ UNCHANGED Broadcast!vars
<1>1. TypeOK /\ MembershipFollowsReads /\ GaplessStreams
  BY DEF IInv
<1>2. \A t \in Sessions : StreamEnd(t)' = StreamEnd(t)
  BY DEF StreamEnd
<1>3. CASE s \in participants
  <2>1. Started(s) /\ StreamEnd(s) = Len(log)
    BY <1>1, <1>3 DEF MembershipFollowsReads, GaplessStreams
  <2>2. Former' = Former \cup {s}
    BY <1>1, <2>1 DEF Former, Leave, Started
  <2>3. Horizon' = [Horizon EXCEPT ![s] = Len(log)]
    BY <1>2, <2>1, <2>2 DEF Horizon
  <2>. QED  BY <1>3, <2>2, <2>3 DEF Broadcast!Leave, Leave
<1>4. CASE s \notin participants
  <2>1. participants' = participants
    BY <1>4 DEF Leave
  <2>2. Former' = Former
    BY <2>1 DEF Former, Started
  <2>3. Horizon' = Horizon
    BY <1>2, <2>2 DEF Horizon
  <2>. QED  BY <2>1, <2>2, <2>3 DEF Broadcast!vars
<1>. QED  BY <1>3, <1>4

\* handle_write is a Receive: the front of the queue is the next message of the
\* session's stretch of the log.
LEMMA RefinesReceive ==
  ASSUME IInv, IInv', NEW s \in Sessions, HandleWrite(s)
  PROVE  Broadcast!Receive(s)
<1>1. TypeOK /\ NotStartedIsIdle /\ SingleWriter /\ GaplessStreams
  BY DEF IInv
<1>2. /\ participants' = participants /\ phase' = phase
      /\ joined' = joined /\ log' = log
      /\ in_flight[s] # <<>>
  BY DEF HandleWrite, room
<1>3. Started(s)
  BY <1>1, <1>2 DEF NotStartedIsIdle
<1>4. /\ write_msgs[s] # <<>>
      /\ sent' = [sent EXCEPT ![s] = Append(@, Head(write_msgs[s]))]
      /\ write_msgs' = [write_msgs EXCEPT ![s] = Tail(@)]
  BY <1>1, WriteEffect
<1> DEFINE q == write_msgs[s]
           d == sent[s]
<1>5. /\ q \in Seq(Msgs) /\ d \in Seq(Msgs) /\ joined[s] \in Nat /\ q # <<>>
      /\ Len(q) \in Nat \ {0} /\ Len(d) \in Nat /\ Len(log) \in Nat
      /\ log \in Seq(Msgs)
  BY <1>1, <1>4 DEF TypeOK
<1>6. IsWindow(d, log, joined[s]) /\ IsWindow(q, log, joined[s] + Len(d))
  BY <1>1, <1>3 DEF GaplessStreams
<1>7. StreamEnd(s) = joined[s] + Len(d) + Len(q)
  BY DEF StreamEnd
<1>8. StreamEnd(s)' = joined[s] + Len(Append(d, Head(q))) + Len(Tail(q))
  BY <1>1, <1>2, <1>4 DEF StreamEnd, TypeOK
<1>9. Head(q) = log[joined[s] + Len(d) + 1] /\ joined[s] + Len(d) < StreamEnd(s)
  <2> HIDE DEF q, d
  <2>1. Head(q) = q[1] /\ 1 \in 1..Len(q)
    BY <1>5
  <2>2. q[1] = log[joined[s] + Len(d) + 1]
    BY <1>6, <2>1 DEF IsWindow
  <2>. QED  BY <1>5, <1>7, <2>1, <2>2
<1>10. \A t \in Sessions : StreamEnd(t)' = StreamEnd(t)
  <2>1. StreamEnd(s)' = StreamEnd(s)
    <3> HIDE DEF q, d
    <3>1. joined[s] + Len(Append(d, Head(q))) + Len(Tail(q)) = joined[s] + Len(d) + Len(q)
      <4>1. /\ d \in Seq(Msgs) /\ q \in Seq(Msgs) /\ log \in Seq(Msgs) /\ q # <<>>
            /\ joined[s] \in Nat
        BY <1>5
      <4>. QED  BY <1>6, <4>1, WindowShift
    <3>. QED  BY <1>7, <1>8, <3>1
  <2>2. ASSUME NEW t \in Sessions, t # s
        PROVE  StreamEnd(t)' = StreamEnd(t)
    BY <1>1, <1>2, <1>4, <2>2 DEF StreamEnd, TypeOK
  <2>. QED  BY <2>1, <2>2
<1>11. Former' = Former
  BY <1>2 DEF Former, Started
<1>12. Horizon' = Horizon
  BY <1>10, <1>11 DEF Horizon
<1>13. s \in participants \cup Former
  BY <1>3 DEF Former
<1>14. Broadcast!End(s) = StreamEnd(s)
  BY <1>1, <1>3, <1>13 DEF Broadcast!End, Horizon, GaplessStreams
<1>15. joined[s] + Len(sent[s]) < Broadcast!End(s)
  BY <1>9, <1>14
<1>16. sent' = [sent EXCEPT ![s] = Append(@, log[joined[s] + Len(sent[s]) + 1])]
  BY <1>4, <1>9
<1>. QED  BY <1>2, <1>11, <1>12, <1>13, <1>15, <1>16 DEF Broadcast!Receive

\* Every step of the server is a step of the abstract room or leaves it as it is.
LEMMA RefinesNext ==
  ASSUME IInv, IInv', [Next]_vars
  PROVE  [Broadcast!Next]_(Broadcast!vars)
<1>1. ASSUME NEW s \in Sessions, HandleAccept(s)
      PROVE  Broadcast!Next
  BY <1>1, RefinesJoin DEF Broadcast!Next
<1>2. ASSUME NEW s \in Sessions, NEW m \in Msgs, HandleReadBody(s, m)
      PROVE  Broadcast!Next
  BY <1>2, RefinesPublish DEF Broadcast!Next
<1>3. ASSUME NEW s \in Sessions,
             HandleBadHeader(s) \/ HandleReadError(s) \/ HandleWriteError(s)
      PROVE  [Broadcast!Next]_(Broadcast!vars)
  BY <1>3, RefinesLeave
     DEF HandleBadHeader, HandleReadError, HandleWriteError, Broadcast!Next
<1>4. ASSUME NEW s \in Sessions, HandleWrite(s)
      PROVE  Broadcast!Next
  BY <1>4, RefinesReceive DEF Broadcast!Next
<1>5. ASSUME \A t \in Sessions : Started(t)' <=> Started(t),
             UNCHANGED <<participants, log, write_msgs, joined, sent>>
      PROVE  UNCHANGED Broadcast!vars
  <2>1. Former' = Former /\ (\A t \in Sessions : StreamEnd(t)' = StreamEnd(t))
    BY <1>5 DEF Former, StreamEnd
  <2>2. Horizon' = Horizon
    BY <2>1 DEF Horizon
  <2>. QED  BY <1>5, <2>1, <2>2 DEF Broadcast!vars
<1>6. ASSUME NEW s \in Sessions, HandleAcceptError(s)
      PROVE  UNCHANGED Broadcast!vars
  BY <1>5, <1>6, AcceptErrorEffect DEF HandleAcceptError, IInv
<1>7. ASSUME NEW s \in Sessions, HandleReadHeader(s) \/ PeerCloses(s)
      PROVE  UNCHANGED Broadcast!vars
  BY <1>5, <1>7 DEF HandleReadHeader, PeerCloses, room, Started
<1>8. CASE UNCHANGED vars
  BY <1>5, <1>8 DEF vars, Started
<1>. QED
  BY <1>1, <1>2, <1>3, <1>4, <1>6, <1>7, <1>8
     DEF Next, ReadCompletes, WriteCompletes

\* The room, its queues and its handlers implement the abstract broadcast: every
\* client sees the history it was promised and then the log, in order.
THEOREM Refinement == Spec => ImplementsBroadcast
  BY RefinesInit, RefinesNext, Invariance, PTL
     DEF Spec, ImplementsBroadcast, Broadcast!Spec
=============================================================================
