----------------------------- MODULE ChatClient -----------------------------
(***************************************************************************)
(* The chat client, boost_asio/cpp_03_example/chat_client.cpp.  Two        *)
(* threads: main() reads lines from the user and posts them, the io thread *)
(* runs io_context::run(), that is, one handler after the other.  They     *)
(* share only the queue of posted functions.  An operation finishes in two *)
(* steps: it gets its result, and later the io thread runs its handler.    *)
(***************************************************************************)
EXTENDS Integers, Sequences

CONSTANTS Lines,      \* the lines the user may type
          MaxLines,   \* bound: how many lines the user types
          Endpoints   \* how many endpoints the resolver returned

ASSUME ChatClientAssumption == /\ MaxLines \in Nat
                               /\ Endpoints \in Nat /\ Endpoints > 0

VARIABLES
  main,        \* main(): reads "input", is in t.join() ("joining") or is "done"
  closing,     \* the function chat_client::close() posts: "not yet", "posted", "ran"
  posted,      \* the lines of the posted do_write functions that have not run
  stopped,     \* io_context::run() has returned: it had nothing left to do
  link,        \* socket_: what it is connected to, see Links
  endpoints,   \* how many endpoints async_connect has not tried yet
  connect,     \* the outstanding async_connect
  read, part,  \* the outstanding async_read, and what it reads
  write,       \* the outstanding async_write, of the front of write_msgs_
  write_msgs,  \* chat_client::write_msgs_
  typed,       \* history: the lines typed so far
  sent         \* history: the lines written to a connection

vars == <<main, closing, posted, stopped, link, endpoints, connect, read, part,
          write, write_msgs, typed, sent>>
user == <<main, typed>>
tasks == <<closing, posted>>

\* "refused": the last endpoint tried did not answer; "lost": the server has
\* ended the connection; "closed": socket_.close() was called.
Links == {"connecting", "refused", "up", "lost", "closed"}

\* The result of an operation; "none": there is no operation.
Results == {"none", "pending", "ok", "error"}

\* Types, and the user's end of input is what posts the close.
TypeOK ==
  /\ main \in {"input", "joining", "done"}
  /\ closing \in {"not yet", "posted", "ran"}
  /\ main = "input" <=> closing = "not yet"
  /\ posted \in Seq(Lines)
  /\ stopped \in BOOLEAN
  /\ link \in Links
  /\ endpoints \in 0..Endpoints
  /\ connect \in Results /\ read \in Results /\ write \in Results
  /\ part \in {"header", "body"}
  /\ write_msgs \in Seq(Lines)
  /\ typed \in Seq(Lines)
  /\ sent \in Seq(Lines)

-----------------------------------------------------------------------------
(* The steps the handlers share, and, before each of them, the faults a     *)
(* change of that code might bring, to try the properties with: no action   *)
(* uses one.                                                                *)

\* What is left to do for io_context::run().
Work ==
  \/ posted # <<>> \/ closing = "posted"
  \/ connect # "none" \/ read # "none" \/ write # "none"

\* An operation on socket_ fails at once when the socket is closed.
Started == IF link = "closed" THEN "error" ELSE "pending"

\* Fault: an outstanding operation does not hear of the close.
Unaware(r) == r

\* close() ends a pending operation; one that has its result keeps it.
Aborted(r) == IF r = "pending" THEN "error" ELSE r

\* do_close(), with the operations that are outstanding.
Close(c, r, w) ==
  /\ link' = "closed"
  /\ connect' = Aborted(c)
  /\ read' = Aborted(r)
  /\ write' = Aborted(w)

\* Fault: do_write does not look at write_in_progress.
AlwaysStarted == Started

\* The write that is outstanding after do_write has queued a line.
AfterDoWrite == IF write_msgs = <<>> THEN Started ELSE write

\* Fault: handle_write leaves the next line to the next do_write.
NotStarted(q) == "none"

\* The write handle_write starts when pop_front has left the queue q.
AfterHandleWrite(q) == IF q = <<>> THEN "none" ELSE Started

\* Fault: the client writes only, it never listens.
NeverRead == "none"

\* The read handle_connect starts.
AfterConnect == Started

\* Fault: the next endpoint is tried even when the socket has been closed.
AfterAnyFailure == connect = "error" /\ endpoints > 0

\* async_connect goes on with the next endpoint.
TriesNext == connect = "error" /\ endpoints > 0 /\ link # "closed"

-----------------------------------------------------------------------------
Init ==
  /\ main = "input" /\ closing = "not yet" /\ posted = <<>>
  /\ stopped = FALSE
  /\ link = "connecting" /\ endpoints = Endpoints - 1
  /\ connect = "pending"
  /\ read = "none" /\ part = "header"
  /\ write = "none" /\ write_msgs = <<>>
  /\ typed = <<>> /\ sent = <<>>

(* The main thread.                                                        *)

\* getline() returns a line, and chat_client::write posts do_write.
TypeLine(l) ==
  /\ main = "input"
  /\ Len(typed) < MaxLines
  /\ typed' = Append(typed, l)
  /\ posted' = Append(posted, l)
  /\ UNCHANGED <<main, closing, stopped, link, endpoints, connect, read, part,
                 write, write_msgs, sent>>

\* getline() fails: the input has ended, or a line was longer than
\* max_body_length.  chat_client::close posts do_close.
InputEnds ==
  /\ main = "input"
  /\ main' = "joining"
  /\ closing' = "posted"
  /\ UNCHANGED <<posted, stopped, link, endpoints, connect, read, part, write,
                 write_msgs, typed, sent>>

\* t.join() returns.
Join ==
  /\ main = "joining" /\ stopped
  /\ main' = "done"
  /\ UNCHANGED <<closing, posted, stopped, link, endpoints, connect, read, part,
                 write, write_msgs, typed, sent>>

(* The io thread.  Posted functions run in the order they were posted.     *)

DoWrite ==
  /\ posted # <<>>
  /\ posted' = Tail(posted)
  /\ write_msgs' = Append(write_msgs, Head(posted))
  /\ write' = AfterDoWrite
  /\ UNCHANGED <<user, closing, link, endpoints, connect, read, part, sent>>

DoClose ==
  /\ posted = <<>> /\ closing = "posted"
  /\ closing' = "ran"
  /\ Close(connect, read, write)
  /\ UNCHANGED <<user, posted, endpoints, part, write_msgs, sent>>

\* handle_connect without an error.
HandleConnect ==
  /\ connect = "ok" /\ link # "closed"
  /\ connect' = "none"
  /\ read' = AfterConnect
  /\ part' = "header"
  /\ UNCHANGED <<user, tasks, link, endpoints, write, write_msgs, sent>>

\* async_connect closes the socket and opens it again for the next endpoint: a
\* line that has been typed in the meantime loses its write.
TryNextEndpoint ==
  /\ TriesNext
  /\ endpoints' = endpoints - 1
  /\ link' = "connecting"
  /\ connect' = "pending"
  /\ write' = Aborted(write)
  /\ UNCHANGED <<user, tasks, read, part, write_msgs, sent>>

\* handle_connect with an error, which it ignores.
HandleConnectError ==
  /\ ~TriesNext
  /\ \/ connect = "error"
     \/ connect = "ok" /\ link = "closed"
  /\ connect' = "none"
  /\ UNCHANGED <<user, tasks, link, endpoints, read, part, write, write_msgs, sent>>

\* handle_read_header with a header that decode_header accepts.
HandleReadHeader ==
  /\ read = "ok" /\ part = "header"
  /\ read' = Started
  /\ part' = "body"
  /\ UNCHANGED <<user, tasks, link, endpoints, connect, write, write_msgs, sent>>

\* handle_read_body: the message is printed.
HandleReadBody ==
  /\ read = "ok" /\ part = "body"
  /\ read' = Started
  /\ part' = "header"
  /\ UNCHANGED <<user, tasks, link, endpoints, connect, write, write_msgs, sent>>

\* handle_read_header or handle_read_body with an error, or with a header that
\* decode_header refuses.
HandleReadError ==
  /\ \/ read = "error"
     \/ read = "ok" /\ part = "header"
  /\ Close(connect, "none", write)
  /\ UNCHANGED <<user, tasks, endpoints, part, write_msgs, sent>>

HandleWrite ==
  /\ write = "ok"
  /\ write_msgs' = Tail(write_msgs)
  /\ write' = AfterHandleWrite(write_msgs')
  /\ UNCHANGED <<user, tasks, link, endpoints, connect, read, part, sent>>

\* handle_write with an error: the queue is left as it is.
HandleWriteError ==
  /\ write = "error"
  /\ Close(connect, read, "none")
  /\ UNCHANGED <<user, tasks, endpoints, part, write_msgs, sent>>

\* io_context::run() returns after the handler that leaves nothing to do.
Runs(handler) ==
  /\ ~stopped
  /\ handler
  /\ stopped' = ~Work'

RunPosted == Runs(DoWrite \/ DoClose)
RunConnect == Runs(HandleConnect \/ TryNextEndpoint \/ HandleConnectError)
RunRead == Runs(HandleReadHeader \/ HandleReadBody \/ HandleReadError)
RunWrite == Runs(HandleWrite \/ HandleWriteError)

(* The system and the server.                                              *)

ConnectFinishes ==
  /\ connect = "pending"
  /\ \/ connect' = "ok" /\ link' = "up"
     \/ connect' = "error" /\ link' = "refused"
  /\ UNCHANGED <<user, tasks, stopped, endpoints, read, part, write, write_msgs, sent>>

ReadSucceeds ==
  /\ read = "pending" /\ link \in {"up", "lost"}
  /\ read' = "ok"
  /\ UNCHANGED <<user, tasks, stopped, link, endpoints, connect, part, write,
                 write_msgs, sent>>

ReadFails ==
  /\ read = "pending" /\ link = "lost"
  /\ read' = "error"
  /\ UNCHANGED <<user, tasks, stopped, link, endpoints, connect, part, write,
                 write_msgs, sent>>

WriteSucceeds ==
  /\ write = "pending" /\ link \in {"up", "lost"}
  /\ write' = "ok"
  /\ sent' = Append(sent, Head(write_msgs))
  /\ UNCHANGED <<user, tasks, stopped, link, endpoints, connect, read, part, write_msgs>>

WriteFails ==
  /\ write = "pending" /\ link \in {"refused", "lost"}
  /\ write' = "error"
  /\ UNCHANGED <<user, tasks, stopped, link, endpoints, connect, read, part,
                 write_msgs, sent>>

\* The server ends the connection, or it is lost.
ServerCloses ==
  /\ link = "up"
  /\ link' = "lost"
  /\ UNCHANGED <<user, tasks, stopped, endpoints, connect, read, part, write,
                 write_msgs, sent>>

Terminated == main = "done" /\ UNCHANGED vars

Next ==
  \/ \E l \in Lines : TypeLine(l)
  \/ InputEnds
  \/ Join
  \/ RunPosted \/ RunConnect \/ RunRead \/ RunWrite
  \/ ConnectFinishes
  \/ ReadSucceeds \/ ReadFails
  \/ WriteSucceeds \/ WriteFails
  \/ ServerCloses
  \/ Terminated

Spec == Init /\ [][Next]_vars

\* The io thread runs what is ready, and join() returns.  A connect gets an
\* answer or times out; a server that is connected reads.  What a lost
\* connection still holds for the client is finite, so its reads fail at last.
Fairness ==
  /\ WF_vars(Join)
  /\ WF_vars(RunPosted) /\ WF_vars(RunConnect) /\ WF_vars(RunRead) /\ WF_vars(RunWrite)
  /\ WF_vars(ConnectFinishes)
  /\ WF_vars(WriteSucceeds \/ WriteFails)
  /\ SF_vars(ReadFails)

FairSpec == Spec /\ Fairness

-----------------------------------------------------------------------------
(* Safety.                                                                 *)

\* The front of the queue stays there until handle_write has run.
Unsent == IF write = "ok" THEN Tail(write_msgs) ELSE write_msgs

\* Every line goes from main() over the posted functions and write_msgs_ to the
\* server in the order it was typed: none is lost on the way, written twice or
\* overtaken, whatever fails; those the client does not send stay behind.
NoLineLostOrRepeated == typed = sent \o Unsent \o posted

\* do_write starts no write while the queue is not empty, so a queue without a
\* write stands still: only a write that failed leaves one, and it has closed
\* the socket.
StalledOnlyWhenClosed ==
  write = "none" /\ write_msgs # <<>> => link = "closed"

\* As long as the server is there, run() has not returned, and the client reads
\* or is about to: main() may post, and the end of the connection is noticed.
ListensWhileConnected ==
  link \in {"up", "lost"} => ~stopped /\ (connect = "ok" \/ read # "none")

\* No operation is left hanging on a closed socket: each has its result, so that
\* run() gets to its end and join() returns.
NothingHangs == link = "closed" => "pending" \notin {connect, read, write}

\* A close is final, even in the middle of async_connect's endpoints: the socket
\* is not opened again and not another line is sent.
CloseIsFinal ==
  [][link = "closed" => link' = "closed" /\ sent' = sent]_vars

-----------------------------------------------------------------------------
(* Liveness, under Fairness.                                               *)

\* A line is sent, unless the user ends the input or the connection fails first:
\* close() does not wait for the queue.
EveryLineIsSent ==
  \A i \in 1..MaxLines :
    Len(typed) >= i ~> \/ Len(sent) >= i
                       \/ main # "input"
                       \/ link \in {"refused", "lost", "closed"}

\* After the end of the input the client exits: join() does not wait for ever.
ExitsAfterInput == main = "joining" ~> main = "done"

\* The client does not keep a connection that the server has ended, even if the
\* user never types another line.
LostConnectionIsClosed == link = "lost" ~> link = "closed"
=============================================================================
