----------------------------- MODULE ChatServer -----------------------------
(***************************************************************************)
(* One chat_server of boost_asio/cpp_03_example/chat_server.cpp: its room, *)
(* its acceptor and its sessions.  All handlers run on the one thread that *)
(* calls io_context.run(), so a handler is one atomic step; what           *)
(* interleaves is the completion of the outstanding accept, reads and      *)
(* writes, and the peers that go away.                                     *)
(***************************************************************************)
EXTENDS Integers, Sequences, FiniteSets

CONSTANTS Sessions,      \* the chat_session objects start_accept() may create
          Msgs,          \* the chat messages
          MaxRecent,     \* max_recent_msgs, 100 in the code
          MaxPublished   \* bound: how many messages the room is given

ASSUME ChatServerAssumption == /\ MaxRecent \in Nat
                               /\ MaxPublished \in Nat

VARIABLES
  phase,         \* phase[s]: where s is in its life, see Phases
  participants,  \* chat_room::participants_
  recent_msgs,   \* chat_room::recent_msgs_
  reading,       \* reading[s]: the outstanding async_read of s
  write_msgs,    \* write_msgs[s]: chat_session::write_msgs_
  in_flight,     \* in_flight[s]: the buffers of the outstanding async_writes
  closed,        \* the sessions whose peer closed or lost the connection
  log,           \* history: the messages given to chat_room::deliver
  joined,        \* history: joined[s]: how much of log s is not replayed
  sent           \* history: sent[s]: the messages written to s, in order

room == <<participants, recent_msgs, log>>
vars == <<phase, participants, recent_msgs, reading, write_msgs, in_flight,
          closed, log, joined, sent>>

\* "fresh": not created; "accepting": given to async_accept; "started": start()
\* ran; "dropped": its accept failed, so nothing refers to it any more.
Phases == {"fresh", "accepting", "started", "dropped"}
Reads == {"none", "header", "body"}

\* The room's history never holds more than max_recent_msgs messages
\* (chat_room::deliver pops the rest), and every other variable has its type.
TypeOK ==
  /\ phase \in [Sessions -> Phases]
  /\ participants \in SUBSET Sessions
  /\ recent_msgs \in Seq(Msgs) /\ Len(recent_msgs) <= MaxRecent
  /\ reading \in [Sessions -> Reads]
  /\ write_msgs \in [Sessions -> Seq(Msgs)]
  /\ in_flight \in [Sessions -> Seq(Msgs)]
  /\ closed \in SUBSET Sessions
  /\ log \in Seq(Msgs)
  /\ joined \in [Sessions -> Nat]
  /\ sent \in [Sessions -> Seq(Msgs)]

-----------------------------------------------------------------------------
(* The steps of the code that the handlers share, and, before each of them,  *)
(* the faults a change of that code might bring, to try the properties with: *)
(* no action uses one.                                                       *)

\* chat_room::deliver keeps the newest MaxRecent messages.
Trim(q) == SubSeq(q, IF Len(q) > MaxRecent THEN Len(q) - MaxRecent + 1 ELSE 1,
                  Len(q))

\* Fault: deliver() does not look at write_in_progress.
StartedAlways(q, ms) == IF ms # <<>> THEN <<Head(ms)>> ELSE <<>>

\* The async_writes chat_session::deliver starts when it is called with the
\* messages ms one after the other while the queue is q: only the first one
\* finds write_in_progress false.
StartedByDeliver(q, ms) ==
  IF q = <<>> /\ ms # <<>> THEN <<Head(ms)>> ELSE <<>>

\* Fault: handle_write leaves the next message to the next deliver().
NotStartedByHandleWrite(q) == <<>>

\* Fault: handle_write writes the newest message of the queue first.
NewestStartedByHandleWrite(q) == IF q = <<>> THEN <<>> ELSE <<q[Len(q)]>>

\* The async_write handle_write starts when the queue left by pop_front is q.
StartedByHandleWrite(q) == IF q = <<>> THEN <<>> ELSE <<Head(q)>>

\* Fault: the sessions that are still writing miss the message.
IdleRecipients == {s \in participants : write_msgs[s] = <<>>}

\* chat_room::deliver hands the message to these sessions.
Recipients == participants

\* Fault: the handler returns without leave().
StayInRoom(s) == participants' = participants

\* chat_room::leave called by s.
Leave(s) == participants' = participants \ {s}

\* start_accept(): a new session object waits in async_accept, while the
\* bound Sessions leaves one.  ph is the phase of the others.
StartAccept(ph) ==
  IF \E s \in Sessions : ph[s] = "fresh"
  THEN \E s \in Sessions :
         /\ ph[s] = "fresh"
         /\ phase' = [ph EXCEPT ![s] = "accepting"]
  ELSE phase' = ph

-----------------------------------------------------------------------------
Init ==
  /\ \E s \in Sessions :
       phase = [t \in Sessions |-> IF t = s THEN "accepting" ELSE "fresh"]
  /\ participants = {}
  /\ recent_msgs = <<>>
  /\ reading = [s \in Sessions |-> "none"]
  /\ write_msgs = [s \in Sessions |-> <<>>]
  /\ in_flight = [s \in Sessions |-> <<>>]
  /\ closed = {}
  /\ log = <<>>
  /\ joined = [s \in Sessions |-> 0]
  /\ sent = [s \in Sessions |-> <<>>]

\* handle_accept without an error: start() joins the room, which replays
\* recent_msgs_ to the newcomer, and reads the first header; then start_accept().
HandleAccept(s) ==
  /\ phase[s] = "accepting"
  /\ participants' = participants \cup {s}
  /\ write_msgs' = [write_msgs EXCEPT ![s] = @ \o recent_msgs]
  /\ in_flight' =
       [in_flight EXCEPT ![s] = @ \o StartedByDeliver(write_msgs[s], recent_msgs)]
  /\ joined' = [joined EXCEPT ![s] = Len(log) - Len(recent_msgs)]
  /\ reading' = [reading EXCEPT ![s] = "header"]
  /\ StartAccept([phase EXCEPT ![s] = "started"])
  /\ UNCHANGED <<recent_msgs, closed, log, sent>>

\* handle_accept with an error: the session is dropped, accepting goes on.
HandleAcceptError(s) ==
  /\ phase[s] = "accepting"
  /\ StartAccept([phase EXCEPT ![s] = "dropped"])
  /\ UNCHANGED <<participants, recent_msgs, reading, write_msgs, in_flight,
                 closed, log, joined, sent>>

\* handle_read_header with a header that decode_header accepts.
HandleReadHeader(s) ==
  /\ reading[s] = "header"
  /\ reading' = [reading EXCEPT ![s] = "body"]
  /\ UNCHANGED <<room, phase, write_msgs, in_flight, closed, joined, sent>>

\* handle_read_header with a header that decode_header refuses: no read is
\* started again, but a write in progress goes on.
HandleBadHeader(s) ==
  /\ reading[s] = "header"
  /\ reading' = [reading EXCEPT ![s] = "none"]
  /\ Leave(s)
  /\ UNCHANGED <<recent_msgs, log, phase, write_msgs, in_flight, closed, joined,
                 sent>>

\* handle_read_body: the room is given the message, every participant (s itself
\* included, if it is still one) queues it, and the next header is read.
HandleReadBody(s, m) ==
  /\ reading[s] = "body"
  /\ Len(log) < MaxPublished
  /\ log' = Append(log, m)
  /\ recent_msgs' = Trim(Append(recent_msgs, m))
  /\ write_msgs' = [t \in Sessions |->
                      IF t \in Recipients THEN Append(write_msgs[t], m)
                                          ELSE write_msgs[t]]
  /\ in_flight' = [t \in Sessions |->
                     IF t \in Recipients
                     THEN in_flight[t] \o StartedByDeliver(write_msgs[t], <<m>>)
                     ELSE in_flight[t]]
  /\ reading' = [reading EXCEPT ![s] = "header"]
  /\ UNCHANGED <<participants, phase, closed, joined, sent>>

\* handle_read_header or handle_read_body with an error.
HandleReadError(s) ==
  /\ reading[s] # "none"
  /\ s \in closed
  /\ reading' = [reading EXCEPT ![s] = "none"]
  /\ Leave(s)
  /\ UNCHANGED <<recent_msgs, log, phase, write_msgs, in_flight, closed, joined,
                 sent>>

\* handle_write without an error.  The peer may have gone already: a write
\* succeeds as soon as the system has taken the bytes.
HandleWrite(s) ==
  /\ in_flight[s] # <<>>
  /\ sent' = [sent EXCEPT ![s] = Append(@, Head(in_flight[s]))]
  /\ write_msgs' = [write_msgs EXCEPT ![s] = Tail(@)]
  /\ in_flight' =
       [in_flight EXCEPT ![s] = Tail(@) \o StartedByHandleWrite(Tail(write_msgs[s]))]
  /\ UNCHANGED <<room, phase, reading, closed, joined>>

\* handle_write with an error: the queue is left as it is, and so is the read.
HandleWriteError(s) ==
  /\ in_flight[s] # <<>>
  /\ s \in closed
  /\ in_flight' = [in_flight EXCEPT ![s] = Tail(@)]
  /\ Leave(s)
  /\ UNCHANGED <<recent_msgs, log, phase, reading, write_msgs, closed, joined,
                 sent>>

\* The peer closes its connection, or the connection is lost.
PeerCloses(s) ==
  /\ phase[s] = "started"
  /\ s \notin closed
  /\ closed' = closed \cup {s}
  /\ UNCHANGED <<room, phase, reading, write_msgs, in_flight, joined, sent>>

WriteCompletes(s) == HandleWrite(s) \/ HandleWriteError(s)

ReadCompletes(s) ==
  \/ HandleReadHeader(s)
  \/ HandleBadHeader(s)
  \/ \E m \in Msgs : HandleReadBody(s, m)
  \/ HandleReadError(s)

Next ==
  \E s \in Sessions :
    \/ HandleAccept(s)
    \/ HandleAcceptError(s)
    \/ ReadCompletes(s)
    \/ WriteCompletes(s)
    \/ PeerCloses(s)

Spec == Init /\ [][Next]_vars

\* An outstanding write completes, and so does an outstanding read once the
\* peer has gone.  Nothing forces a connected peer to send.
Fairness ==
  \A s \in Sessions :
    /\ WF_vars(WriteCompletes(s))
    /\ WF_vars(s \in closed /\ ReadCompletes(s))

FairSpec == Spec /\ Fairness

-----------------------------------------------------------------------------
(* Safety.                                                                 *)

Started(s) == phase[s] = "started"

\* No handler refers to s and the room does not hold it: the last shared_ptr to
\* the session is gone, and with it the session and its socket.
Destroyed(s) ==
  /\ Started(s)
  /\ s \notin participants
  /\ reading[s] = "none"
  /\ in_flight[s] = <<>>

\* async_write may not be called on a socket whose previous async_write has not
\* completed, and the buffer it was given must stay at the front of write_msgs_
\* until then: at most one write, of the message at the front.  deliver() and
\* handle_write() both start writes and each relies on the other's test.
SingleWriter ==
  \A s \in Sessions :
    in_flight[s] # <<>> =>
      write_msgs[s] # <<>> /\ in_flight[s] = <<Head(write_msgs[s])>>

\* A participant with something in write_msgs_ has a write outstanding: deliver()
\* starts none when the queue is not empty, so a queue without a write would
\* never move again.
NoStalledQueue ==
  \A s \in participants : write_msgs[s] # <<>> => in_flight[s] # <<>>

\* Each queue is written by one chain of handlers: never two writes, never none.
OneWritePerQueue == SingleWriter /\ NoStalledQueue

\* Membership follows the life of the connection: a participant always has a
\* read outstanding, so the end of the connection is noticed and leave() called;
\* a session that is out of the room either reads no more or lost its write.
MembershipFollowsReads ==
  \A s \in Sessions :
    /\ s \in participants => Started(s) /\ reading[s] # "none"
    /\ Started(s) /\ s \notin participants =>
         \/ reading[s] = "none"
         \/ s \in closed /\ write_msgs[s] # <<>> /\ in_flight[s] = <<>>

\* q is the stretch of l that follows its first n elements.
IsWindow(q, l, n) ==
  /\ n + Len(q) <= Len(l)
  /\ \A i \in 1..Len(q) : q[i] = l[n + i]

\* recent_msgs_ is exactly the newest MaxRecent messages, oldest first.
HistoryIsLogSuffix ==
  /\ Len(recent_msgs) = IF Len(log) > MaxRecent THEN MaxRecent ELSE Len(log)
  /\ IsWindow(recent_msgs, log, Len(log) - Len(recent_msgs))

\* Where in log the messages of s end: sent ones, then queued ones.
StreamEnd(s) == joined[s] + Len(sent[s]) + Len(write_msgs[s])

\* What s was sent and still has queued is one stretch of the room's log, from
\* the history it joined with and, for a participant, up to the newest message:
\* no message lost, repeated or out of order between the replay in join(), the
\* deliveries and the writes.
GaplessStreams ==
  \A s \in Sessions :
    Started(s) =>
      /\ IsWindow(sent[s], log, joined[s])
      /\ IsWindow(write_msgs[s], log, joined[s] + Len(sent[s]))
      /\ s \in participants => StreamEnd(s) = Len(log)

\* The replay in join(), the deliveries and the writes agree with the room's order.
StreamsFollowLog == HistoryIsLogSuffix /\ GaplessStreams

\* A session that has left the room with no write outstanding never writes
\* again, even while its read still publishes messages (leave() does not close
\* the socket): its peer sees a prefix of its stream, never a stream with a hole.
SilentAfterLeaving ==
  [][\A s \in Sessions :
       Started(s) /\ s \notin participants /\ in_flight[s] = <<>> =>
         in_flight'[s] = <<>> /\ sent'[s] = sent[s]]_vars

-----------------------------------------------------------------------------
(* Liveness, under Fairness.                                               *)

\* Message number i of the log reaches every participant that is due it, unless
\* its connection ends or it sent a bad header first.
EveryMessageIsSent ==
  \A s \in Sessions, i \in 1..MaxPublished :
    s \in participants /\ joined[s] < i /\ i <= Len(log)
      ~> joined[s] + Len(sent[s]) >= i \/ s \in closed

\* A session whose peer is gone, or that has left the room, does not stay
\* behind: its handlers run out and it is destroyed.
GoneSessionsAreDestroyed ==
  \A s \in Sessions :
    Started(s) /\ (s \in closed \/ s \notin participants) ~> Destroyed(s)

-----------------------------------------------------------------------------
(* The room implements ChatBroadcast.                                      *)

Former == {s \in Sessions : Started(s)} \ participants

\* A session that left the room will be sent its queue, and no more.
Horizon == [s \in Sessions |-> IF s \in Former THEN StreamEnd(s) ELSE 0]

Broadcast ==
  INSTANCE ChatBroadcast WITH
    log <- log,
    members <- participants,
    former <- Former,
    base <- joined,
    horizon <- Horizon,
    stream <- sent

\* Every step of the server is a step of the abstract room or changes nothing a
\* client can see.
ImplementsBroadcast == Broadcast!Spec
=============================================================================
