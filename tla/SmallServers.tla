---------------------------- MODULE SmallServers ----------------------------
(***************************************************************************)
(* The small servers: the TCP accept loop with one session per connection, *)
(* which echoes (allocation_server) or tells the time (reference_counted,  *)
(* daytime3, daytime7), and the UDP loop that tells the time (daytime6,    *)
(* daytime7, daemon).  One thread runs the handlers of an io_context.      *)
(***************************************************************************)
EXTENDS Programs, Integers, Sequences

CONSTANTS Sessions,      \* the session objects handle_accept may create
          Clients,       \* the endpoints that send datagrams
          BufferSize,    \* the size of session::data_, 1024 in the code
          MaxBytes,      \* bound: how many bytes go to one client
          MaxDatagrams,  \* bound: how many datagrams arrive
          MaxErrors      \* bound: how many receives fail

ASSUME SmallServersAssumption ==
  /\ BufferSize \in Nat /\ BufferSize > 0
  /\ MaxBytes \in Nat /\ MaxDatagrams \in Nat /\ MaxErrors \in Nat

\* The sessions.
VARIABLES
  phase,            \* phase[s]: as in the chat server, see Phases
  read, write,      \* where the handler of the outstanding operation lies
  in_use,           \* in_use[s]: handler_memory::in_use_
  data,             \* data[s]: session::data_, or the message
  from, to,         \* the part of data[s] that async_write has still to write
  closed,           \* the sessions whose client has gone
  due,              \* history: how many bytes s is due, they are 1, 2, 3...
  out               \* history: the bytes written to s

\* The datagrams.
VARIABLES
  receive,          \* the outstanding async_receive_from
  remote_endpoint,  \* udp_server::remote_endpoint_
  arrived,          \* the senders of the datagrams the socket holds
  sends,            \* the destinations of the outstanding async_send_tos
  errors,           \* how many receives have failed
  stage,            \* daemon: how far main() is, see Stages
  taken,            \* history: the senders of the datagrams received
  answered          \* history: the destinations of the finished sends

session == <<phase, read, write, in_use, data, from, to, closed, due, out>>
datagram == <<receive, remote_endpoint, arrived, sends, errors, taken, answered>>
vars == <<program, session, datagram, stage>>

Phases == {"fresh", "accepting", "started", "dropped"}

\* "none": there is no operation; "block": in session::handler_memory_.
Places == {"none", "block", "heap"}

Echoes == program = "allocation_server"
Listens == program \in {"allocation_server", "reference_counted", "daytime3", "daytime7"}
Receives == program \in {"daytime6", "daytime7", "daemon"}

\* The handlers run: the daemon has forked twice and reopened its descriptors.
Running == stage = "running"

\* "failed": main() has returned 1; "stopped": run() has returned.
Stages == {"first fork", "second fork", "descriptors", "running", "stopped", "failed"}

\* Every variable has its type, and every operation its place.
TypeOK ==
  /\ program \in Servers \cup Threaded
  /\ phase \in [Sessions -> Phases]
  /\ read \in [Sessions -> Places] /\ write \in [Sessions -> Places]
  /\ in_use \in [Sessions -> BOOLEAN]
  /\ data \in [Sessions -> [1..BufferSize -> Nat]]
  /\ from \in [Sessions -> Nat] /\ to \in [Sessions -> 0..BufferSize]
  /\ closed \in SUBSET Sessions
  /\ due \in [Sessions -> Nat] /\ out \in [Sessions -> Seq(Nat)]
  /\ receive \in {"none", "pending", "done", "failed"}
  /\ remote_endpoint \in Clients
  /\ arrived \in Seq(Clients) /\ sends \in Seq(Clients)
  /\ errors \in Nat
  /\ stage \in Stages
  /\ taken \in Seq(Clients) /\ answered \in Seq(Clients)

-----------------------------------------------------------------------------
(* The steps of the code that the handlers share, and, before each of them,  *)
(* the faults a change of that code might bring, to try the properties with: *)
(* no action uses one.                                                       *)

\* handler_memory::allocate, when in_use_ is used.  A handler of these programs
\* is smaller than the block.
Allocated(used) == IF used THEN "heap" ELSE "block"

\* Fault: in_use_ is not reset.
NotReset(used, place) == used

\* in_use_ after handler_memory::deallocate.
Deallocated(used, place) == IF place = "block" THEN FALSE ELSE used

\* Where the handler of a new operation lies; used: in_use_ when it is allocated.
\* Only the handlers of the allocation_server are wrapped by
\* make_custom_alloc_handler.
Place(used) == IF Echoes THEN Allocated(used) ELSE "heap"

\* in_use_ when the operation whose handler lies in place is over: Asio frees the
\* memory before it calls the handler.
Freed(s, place) == Deallocated(in_use[s], place)

\* in_use_ after a new operation has been started.
Used(used) == IF Echoes THEN TRUE ELSE used

\* Fault: handle_read starts the next read at once.
ReadOn(s) == [read EXCEPT ![s] = Allocated(TRUE)]

\* After handle_read no read is outstanding.
ReadOver(s) == [read EXCEPT ![s] = "none"]

\* async_write is complete when it has written n more bytes.
AllWritten(s, n) == from[s] + n = to[s]

\* new_session.reset(), and the new session waits in async_accept, while the
\* bound Sessions leaves one.  ph is the phase of the others.
StartAccept(ph) ==
  IF \E s \in Sessions : ph[s] = "fresh"
  THEN \E s \in Sessions : ph[s] = "fresh" /\ phase' = [ph EXCEPT ![s] = "accepting"]
  ELSE phase' = ph

\* A datagram of q is received: its sender is the remote endpoint now.
TakeDatagram(q) ==
  /\ q # <<>>
  /\ receive' = "done"
  /\ remote_endpoint' = Head(q)
  /\ arrived' = Tail(q)
  /\ taken' = Append(taken, Head(q))

\* start_receive() when the socket holds q: async_receive_from tries at once to
\* receive, or leaves it for later.
StartReceive(q) ==
  \/ TakeDatagram(q)
  \/ receive' = "pending" /\ arrived' = q /\ UNCHANGED <<remote_endpoint, taken>>

\* Fault: start_receive() is called before the reply is sent.
DestinationAfterReceive == remote_endpoint'

\* handle_receive sends the reply before it calls start_receive().
Destination == remote_endpoint

\* Fault: the daemon's loop ends with the first error, too.
EndsOnError == TRUE

\* start_receive() stands inside the test for an error, but not in the daemon.
EndsAfterError == program # "daemon"

-----------------------------------------------------------------------------
\* The first session is in async_accept; no datagram has come when the constructor
\* of the UDP server calls start_receive().
Init ==
  /\ ProgramStarts
  /\ IF Listens
     THEN \E s \in Sessions :
            phase = [t \in Sessions |-> IF t = s THEN "accepting" ELSE "fresh"]
     ELSE phase = [t \in Sessions |-> "fresh"]
  /\ read = [s \in Sessions |-> "none"] /\ write = [s \in Sessions |-> "none"]
  /\ in_use = [s \in Sessions |-> FALSE]
  /\ data = [s \in Sessions |-> [i \in 1..BufferSize |-> 0]]
  /\ from = [s \in Sessions |-> 0] /\ to = [s \in Sessions |-> 0]
  /\ closed = {}
  /\ due = [s \in Sessions |-> 0] /\ out = [s \in Sessions |-> <<>>]
  /\ receive = IF Receives THEN "pending" ELSE "none"
  /\ remote_endpoint \in Clients
  /\ arrived = <<>> /\ sends = <<>>
  /\ errors = 0
  /\ stage = IF program = "daemon" THEN "first fork" ELSE "running"
  /\ taken = <<>> /\ answered = <<>>

\* The first n bytes of the buffer of s are what s is due next, and async_write
\* writes them; used: in_use_ when it starts.
Fill(s, n, used) ==
  /\ data' = [data EXCEPT ![s] = [i \in 1..BufferSize |->
                                    IF i <= n THEN due[s] + i ELSE data[s][i]]]
  /\ due' = [due EXCEPT ![s] = @ + n]
  /\ from' = [from EXCEPT ![s] = 0]
  /\ to' = [to EXCEPT ![s] = n]
  /\ write' = [write EXCEPT ![s] = Place(used)]
  /\ in_use' = [in_use EXCEPT ![s] = Used(used)]

\* handle_accept without an error, in the allocation_server: start() reads.
HandleAcceptEcho(s) ==
  /\ Echoes /\ phase[s] = "accepting"
  /\ read' = [read EXCEPT ![s] = Place(in_use[s])]
  /\ in_use' = [in_use EXCEPT ![s] = Used(@)]
  /\ StartAccept([phase EXCEPT ![s] = "started"])
  /\ UNCHANGED <<write, data, from, to, closed, due, out>>

\* handle_accept without an error, elsewhere: start() writes the time.
HandleAcceptTime(s) ==
  /\ ~Echoes /\ phase[s] = "accepting"
  /\ \E n \in 1..BufferSize : n <= MaxBytes /\ Fill(s, n, in_use[s])
  /\ StartAccept([phase EXCEPT ![s] = "started"])
  /\ UNCHANGED <<read, closed, out>>

\* handle_accept with an error: the session is dropped, accepting goes on.
HandleAcceptError(s) ==
  /\ phase[s] = "accepting"
  /\ StartAccept([phase EXCEPT ![s] = "dropped"])
  /\ UNCHANGED <<read, write, in_use, data, from, to, closed, due, out>>

\* async_read_some has put up to BufferSize bytes into data_; handle_read.
HandleRead(s) ==
  /\ read[s] # "none"
  /\ \E n \in 1..BufferSize :
       due[s] + n <= MaxBytes /\ Fill(s, n, Freed(s, read[s]))
  /\ read' = ReadOver(s)
  /\ UNCHANGED <<phase, closed, out>>

\* handle_read with an error: nothing refers to the session any more.
HandleReadError(s) ==
  /\ read[s] # "none" /\ s \in closed
  /\ read' = [read EXCEPT ![s] = "none"]
  /\ in_use' = [in_use EXCEPT ![s] = Freed(s, read[s])]
  /\ UNCHANGED <<phase, write, data, from, to, closed, due, out>>

\* n bytes of the buffer are written.
Written(s, n) ==
  /\ out' = [out EXCEPT ![s] = @ \o SubSeq(data[s], from[s] + 1, from[s] + n)]
  /\ from' = [from EXCEPT ![s] = @ + n]
  /\ UNCHANGED <<phase, data, to, closed, due>>

\* async_write has written a piece and starts the next one, with the same handler.
WritePiece(s) ==
  /\ write[s] # "none"
  /\ \E n \in 1..(to[s] - from[s]) : ~AllWritten(s, n) /\ Written(s, n)
  /\ write' = [write EXCEPT ![s] = Place(Freed(s, write[s]))]
  /\ in_use' = [in_use EXCEPT ![s] = Used(Freed(s, write[s]))]
  /\ UNCHANGED read

\* async_write has written the last piece; handle_write.  Only the
\* allocation_server reads again.
HandleWrite(s) ==
  /\ write[s] # "none"
  /\ \E n \in 1..(to[s] - from[s]) : AllWritten(s, n) /\ Written(s, n)
  /\ write' = [write EXCEPT ![s] = "none"]
  /\ read' = IF Echoes THEN [read EXCEPT ![s] = Place(Freed(s, write[s]))] ELSE read
  /\ in_use' = [in_use EXCEPT ![s] = Used(Freed(s, write[s]))]

\* handle_write with an error.
HandleWriteError(s) ==
  /\ write[s] # "none" /\ s \in closed
  /\ write' = [write EXCEPT ![s] = "none"]
  /\ in_use' = [in_use EXCEPT ![s] = Freed(s, write[s])]
  /\ UNCHANGED <<phase, read, data, from, to, closed, due, out>>

\* The client closes the connection, or it is lost.
ClientCloses(s) ==
  /\ phase[s] = "started" /\ s \notin closed
  /\ closed' = closed \cup {s}
  /\ UNCHANGED <<phase, read, write, in_use, data, from, to, due, out>>

Writes(s) == WritePiece(s) \/ HandleWrite(s) \/ HandleWriteError(s)

SessionStep(s) ==
  /\ \/ HandleAcceptEcho(s) \/ HandleAcceptTime(s) \/ HandleAcceptError(s)
     \/ HandleRead(s) \/ HandleReadError(s)
     \/ Writes(s)
     \/ ClientCloses(s)
  /\ UNCHANGED <<program, datagram, stage>>

(* The datagrams.                                                          *)

\* A datagram comes in, also when nobody receives or the daemon still forks.
DatagramArrives(c) ==
  /\ Receives /\ stage \notin {"stopped", "failed"}
  /\ Len(taken) + Len(arrived) < MaxDatagrams
  /\ arrived' = Append(arrived, c)
  /\ UNCHANGED <<receive, remote_endpoint, sends, errors, taken, answered>>

ReceiveSucceeds ==
  /\ Running /\ receive = "pending"
  /\ TakeDatagram(arrived)
  /\ UNCHANGED <<sends, errors, answered>>

ReceiveFails ==
  /\ Running /\ receive = "pending" /\ errors < MaxErrors
  /\ receive' = "failed"
  /\ errors' = errors + 1
  /\ UNCHANGED <<remote_endpoint, arrived, sends, taken, answered>>

\* handle_receive without an error, in daytime6 and daytime7.
HandleReceive ==
  /\ Running /\ receive = "done" /\ program # "daemon"
  /\ StartReceive(arrived)
  /\ sends' = Append(sends, Destination)
  /\ UNCHANGED <<errors, answered>>

\* handle_receive without an error, in the daemon: send_to() returns when the
\* system has taken the reply, or with an error that is ignored.
HandleReceiveDaemon ==
  /\ Running /\ receive = "done" /\ program = "daemon"
  /\ StartReceive(arrived)
  /\ answered' = Append(answered, Destination)
  /\ UNCHANGED <<sends, errors>>

\* handle_receive with an error.
HandleReceiveError ==
  /\ Running /\ receive = "failed"
  /\ IF EndsAfterError
     THEN receive' = "none" /\ UNCHANGED <<remote_endpoint, arrived, taken>>
     ELSE StartReceive(arrived)
  /\ UNCHANGED <<sends, errors, answered>>

\* handle_send, with an error or without: it only gives up the message.
HandleSend ==
  /\ sends # <<>>
  /\ answered' = Append(answered, Head(sends))
  /\ sends' = Tail(sends)
  /\ UNCHANGED <<receive, remote_endpoint, arrived, errors, taken>>

HandlesReceive == HandleReceive \/ HandleReceiveDaemon \/ HandleReceiveError

DatagramStep ==
  /\ \/ \E c \in Clients : DatagramArrives(c)
     \/ ReceiveSucceeds \/ ReceiveFails
     \/ HandlesReceive
     \/ HandleSend
  /\ UNCHANGED <<program, session, stage>>

(* The daemon's main().  The constructor of the server has bound the socket *)
(* and called start_receive() before the first fork.                        *)

NextStage == [x \in {"first fork", "second fork", "descriptors"} |->
                CASE x = "first fork" -> "second fork"
                  [] x = "second fork" -> "descriptors"
                  [] OTHER -> "running"]

\* fork() and the parent's exit(0), or open(), open() and dup().
BecomesDaemon ==
  /\ stage \in DOMAIN NextStage
  /\ stage' = NextStage[stage]

\* One of these calls fails.
DaemonFails ==
  /\ stage \in DOMAIN NextStage
  /\ stage' = "failed"

\* SIGINT or SIGTERM: its handler is io_context::stop().
DaemonStops ==
  /\ program = "daemon" /\ Running
  /\ stage' = "stopped"

DaemonStep ==
  /\ BecomesDaemon \/ DaemonFails \/ DaemonStops
  /\ UNCHANGED <<program, session, datagram>>

Next == (\E s \in Sessions : SessionStep(s)) \/ DatagramStep \/ DaemonStep

Spec == Init /\ [][Next]_vars

\* A handler that is ready runs, what is written is taken by the system, a datagram
\* that is there is received, and the read from a client that has gone ends.
Fairness ==
  /\ \A s \in Sessions :
       /\ WF_vars(Writes(s) /\ UNCHANGED <<program, datagram, stage>>)
       /\ WF_vars(HandleReadError(s) /\ UNCHANGED <<program, datagram, stage>>)
  /\ WF_vars(ReceiveSucceeds /\ UNCHANGED <<program, session, stage>>)
  /\ WF_vars(HandlesReceive /\ UNCHANGED <<program, session, stage>>)
  /\ WF_vars(HandleSend /\ UNCHANGED <<program, session, stage>>)
  /\ WF_vars((BecomesDaemon \/ DaemonFails) /\ UNCHANGED <<program, session, datagram>>)

FairSpec == Spec /\ Fairness

-----------------------------------------------------------------------------
(* Safety.                                                                 *)

\* In the allocation_server every handler lies in the block of its session and no
\* handler ever finds it taken: a session has one operation at a time, and the
\* memory of the one that is over is free again when its handler starts the next.
OneHandlerInBlock ==
  \A s \in Sessions :
    Echoes =>
      /\ read[s] # "heap" /\ write[s] # "heap"
      /\ in_use[s] <=> read[s] = "block" \/ write[s] = "block"
      /\ read[s] = "none" \/ write[s] = "none"

\* What a client has been sent and what is still in the buffer of the outstanding
\* write is exactly what it is due, byte for byte: the buffer is not filled again
\* while the pieces of async_write still come from it.
ClientsGetTheirBytes ==
  \A s \in Sessions :
    /\ \A i \in 1..Len(out[s]) : out[s][i] = i
    /\ write[s] # "none" =>
         /\ from[s] < to[s]
         /\ Len(out[s]) + (to[s] - from[s]) = due[s]
         /\ \A i \in (from[s] + 1)..to[s] : data[s][i] = Len(out[s]) + (i - from[s])
    /\ write[s] = "none" /\ s \notin closed => Len(out[s]) = due[s]

\* The datagram that has been received and not been handled.
InHand == IF receive = "done" THEN <<remote_endpoint>> ELSE <<>>

\* Every datagram the server takes is answered once, to the one who sent it and in
\* the order they came, although the next receive may overwrite remote_endpoint_
\* while the reply is on its way.
RepliesGoToTheirSenders == taken = answered \o sends \o InHand

-----------------------------------------------------------------------------
(* Liveness, under Fairness.                                               *)

\* Every byte a client is due and every datagram is answered, whatever the other
\* clients do, unless the client goes.  daytime6 and daytime7 answer no datagram
\* after a receive that failed; the daemon does, until it is stopped.
EveryRequestIsAnswered ==
  /\ \A s \in Sessions, i \in 1..MaxBytes :
       due[s] >= i ~> Len(out[s]) >= i \/ s \in closed
  /\ \A i \in 1..MaxDatagrams :
       Len(taken) + Len(arrived) >= i ~>
         \/ Len(answered) >= i
         \/ receive = "none" /\ program # "daemon"
         \/ stage \in {"stopped", "failed"}
=============================================================================
