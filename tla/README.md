# A TLA+ verification project for boost-learn

The repository is a collection of programs built on Boost.Asio: a chat server and
its clients, three HTTP servers and their clients, and smaller examples (an
allocating echo server, daytime servers, timers, strands, a daemon). They have no
tests and no documents; the comments in the source say what each class is for.
All paths below are under `src/boost_asio/`; `ex/` stands for `cpp_03_example/`.

The project models the programs that keep state across asynchronous operations.
TLC checks the models on small instances, TLAPS proves every safety property of a passing run
for every value of the constants.

## 1. Inventory

Every server and every client is a set of *handlers* that `io_context::run()`
calls when an asynchronous operation completes. What is hard about them is not
data but order: which completions can come in which order, what a handler may
rely on when it starts, who still refers to an object, and what happens to the
operations that are outstanding when something is closed.

| component | source | state it keeps | operations | interacts with |
|---|---|---|---|---|
| chat server | `ex/chat_server.cpp` | room: `participants_`, `recent_msgs_`; session: socket, `read_msg_`, `write_msgs_` | `start_accept`, `handle_accept`, `join`, `leave`, `deliver` (room and session), `handle_read_header`, `handle_read_body`, `handle_write` | sessions share the room and call each other's `deliver` through it, inside one handler |
| chat client | `ex/chat_client.cpp` | socket, `read_msg_`, `write_msgs_` | `write`, `close` (main thread, posted), `do_write`, `do_close`, `handle_connect`, the two read handlers, `handle_write` | two threads that share only the queue of posted functions |
| posix chat client | `ex/posix_chat_cline.cpp` | socket, two descriptors, one message per direction, a `streambuf` of 512 | `handle_connect`, reads of the socket, of the terminal, writes to both, `close` | one thread, two chains of handlers |
| chat message | `ex/chat_message.hpp` | header of 4 digits and a body of at most 512 | `body_length`, `decode_header`, `encode_header` | used by the three above |
| HTTP server 1 | `ex/boost_http_server_1/src/server.cpp`, `connection.cpp`, `connection_manager.cpp` | acceptor, `new_connection_`, signal set; the set of connections; socket, parser, request and reply of each | `start_accept`, `handle_accept`, `handle_stop`; `start`, `stop`, `handle_read`, `handle_write`; the manager's `start`, `stop`, `stop_all` | server and connections share the manager |
| request parsers | `request_parser.cpp` of servers 1, 2, 3 | a state, or the point where a coroutine resumes; the request | `consume` | called by `handle_read` |
| request handler | `request_handler.cpp` (1, 2), `file_handler.cpp` (3) | none | `handle_request`, `url_decode` | called when the parser says true |
| replies, MIME types | `reply.cpp`, `mime_types.cpp`, `header.hpp` | status, headers, content | `to_buffers`, `stock_reply` | its buffers are written by the connection |
| HTTP server 2 | `ex/boost_http_server_2/src/server.cpp`, `connection.cpp`, `io_context_pool.cpp` | a pool of `io_context`s, `next_io_context_`, work guards | `run`, `stop`, `get_io_context`, as server 1 without a manager | one thread per `io_context`; connections are handed over by round robin |
| HTTP server 3 | `ex/boost_http_server_3/server.cpp` | a stackless coroutine per connection | `operator()`, `fork` | copies of the coroutine share socket, request and reply |
| HTTP clients | `async_client.cpp`, `sync_client.cpp` of server 1 | socket, request and response buffers | resolve, connect, write, read status line, headers, content | a chain of handlers, one operation at a time |
| allocation server | `ex/allocation_server.cpp` | one block of handler memory per session, `in_use_`, `data_` | `allocate`, `deallocate`; `start`, `handle_read`, `handle_write`; `handle_accept` | Asio allocates the session's handlers in the block |
| reference-counted buffer | `ex/reference_counted.cpp` | a buffer held by its handler | `start`, `handle_write`; `handle_accept` | |
| daemon | `ex/daemon.cpp` | how far `main()` is, a UDP socket, `remote_endpoint_` | two forks, descriptors; `start_receive`, `handle_receive`; stop by a signal | the socket is bound before the first fork |
| timers | `timer/*.cpp` | `count_`, one timer or two | `print`, `print1`, `print2` | timer4: two threads and a strand |
| strand test | `strand_test_1.cpp` | the work object, the posts that wait | posts to a strand and to an `io_context`, `worker.reset()` | five threads |
| daytime | `server/daytime1..7.cpp` | acceptor; a UDP buffer and sender | `start_accept`, `handle_accept`, `start`; `start_receive`, `handle_receive`, `handle_send` | daytime7: both loops in one `io_context` |
| book fragments | `boost_asio_net_program_book/` | none to speak of | | |
| language experiments | `duff.cpp`, `swith_case_*.cpp`, ... | none | | |

What makes each correct:

- **Chat server.** A session has at most one write outstanding and never stalls
  with a non-empty queue; every participant sees a gapless stretch of one common
  order of messages, starting with the history it joined with; the history is the
  newest `max_recent_msgs` messages; a session whose connection is gone leaves the
  room and is destroyed.
- **Chat client.** Lines are sent in the order they were typed, none lost between
  the threads and none twice; a close is final; the client always exits after the
  end of the input; it notices the end of its connection.
- **HTTP server 1.** An accept is always outstanding until the stop; the manager
  holds exactly the live connections; a stop reaches everything and `run()` returns.
- **Parsers.** A request ends at its first blank line, no control character is
  stored, `headers.back()` is reached only with a header; the rewritten parser of
  server 3 takes nothing the old one refuses.
- **HTTP server 2.** The round robin stays in the pool and spreads the connections
  evenly; no thread leaves before the stop; a stop ends every thread.
- **HTTP server 3.** After a fork the parent goes on accepting and the child answers;
  the two share no socket and no buffer.
- **Request handler.** A path that is opened is absolute and without `..`; a
  well-formed URI is decoded to what it means.
- **HTTP clients.** The answer is printed in order and complete, whatever pieces it
  comes in; the end of the connection is the end of the client.
- **Posix client.** Input longer than a message is cut into messages without loss;
  the end of either chain of handlers ends the other.
- **Chat message.** The length read back is the length written, and never above 512.
- **Allocation server.** A handler always finds the block free; `data_` is not filled
  again while a write still takes its bytes from it.
- **Daytime servers, daemon.** Every datagram is answered to the one who sent it, in
  order; a failed receive does not stop the daemon.
- **Timers, strand test.** However two threads interleave, each number is printed once
  and in order; what goes through the strand runs in order and one at a time; nobody
  leaves `run()` while there is something to do.
- **Client and server together.** What the user types comes back in order and once.

The places in the source where these can go wrong, each with the property that
would notice, are the `hazards` of `PROJECT.json`.

## 2. The plan

Ordered by how much of the program's own logic each item holds. All items are done.

| | module | models | main properties | proofs |
|---|---|---|---|---|
| 1 | `ChatServer`, abstract `ChatBroadcast` | chat server | gapless streams, one writer, membership | inductive invariant and refinement |
| 2 | `HttpServer1`, abstract `ServerLifecycle` | HTTP server 1 | accept outstanding, manager exact, stop final | invariant, safety part of the refinement |
| 3 | `RequestParsers` | all three parsers | blank line, control characters, equivalence up to named differences | inductive invariant over the class tables |
| 4 | `ChatClient` | chat client | order of lines, finality of close, exit | inductive invariant |
| 5 | `HttpServer2` | pool, accept, connections, stop on several threads | even round robin, threads run until the stop, stop ends all threads | inductive invariant |
| 6 | `HttpServer3` | the forked coroutine, accept error, stop | copies share nothing, one listener, lifecycle | invariant and refinement |
| 7 | `PosixChatClient` | three descriptors, long lines, end of input | input is cut without loss, either chain ends the other | inductive invariant |
| 8 | `ChatMessage`, `RequestHandler` | length field; URI to path and type | round trip, bounds, refusal, no `..` | both invariants, by least counterexample |
| 9 | `HttpClient`, `HttpReply` | both HTTP clients and the replies they read | answer complete and in order, end with the server | inductive invariant |
| 10 | `SmallServers` | allocation, reference-counted and daytime servers, daemon | one handler in the block, bytes and replies go where they belong | three inductive invariants |
| 11 | `Strands` | timers and posts on several threads | the count under the strand, order of the posts, end of `run()` | two inductive invariants |
| 12 | `ChatSystem` | `ChatClient` and `ChatServer` over one connection | typed lines come back, in order and once | both parts are implemented; inductive invariant on top of theirs |

`Programs` names the programs that `SmallServers` and `Strands` describe. The proofs are
in eight modules: `ChatServerProofs`, `ChatSystemProofs` (items 4, 12 and the messages of
8), `HttpServer1Proofs`, `HttpServer2Proofs`, `HttpServer3Proofs`, `HttpMessageProofs`
(items 3, 9 and the handler of 8), `PosixChatClientProofs` and `SmallProgramsProofs`
(items 10 and 11). What is left to TLC is liveness, which the prover does not reach.

## 3. What is assumed about Boost.Asio

Asio is not in the repository; what the models say about it is what the code relies
on.

- A handler runs on a thread that is in `run()`. With one such thread, as in the
  chat server, the io thread of the client and HTTP server 1, a handler is atomic:
  each is one action, with every call it makes. Where several threads are in `run()`,
  as in `HttpServer2` and `Strands`, what another thread could see is a step of its own.
- A strand runs one of its functions at a time, in the order they were given to it.
- Asio frees the memory of a handler before it calls it. A composed `async_write` starts
  its pieces one after the other, each with an allocation of its own.
- An operation first gets its result and later its handler runs. Other handlers can
  run in between; `HttpServer1` and `ChatClient` have a step for each half, since
  `close()` can come between them. `ChatServer` never closes a socket under an
  operation, so there the two halves are one step.
- `close()` ends a pending operation with `operation_aborted`. An operation that
  already has its result keeps it. An operation started on a closed socket fails
  with an error that is *not* `operation_aborted`. A composed `async_write` that had
  sent a part goes on on the closed socket, so it may report either.
- `async_connect` over several endpoints closes and reopens the socket for each,
  which aborts anything else outstanding on it, and gives up when it finds the
  socket closed.
- `post()`ed functions of one thread run in the order they were posted.
- `run()` returns with the handler that leaves nothing outstanding and nothing posted.
- A write succeeds once the system has taken the bytes, even if the peer is gone.

## 4. The modules

Every module keeps the names of the source. Before the helper operators some
modules define *faults*: what the operator would be after a plausible mistake in the
code (a dropped test, the wrong end of a queue). No action uses one. Each property
below is violated when the operator is replaced by one of them; `mutants` in
`PROJECT.json` lists the pairs.

### ChatServer, ChatBroadcast

| model | code |
|---|---|
| `phase` | where the session object is: not created, in `async_accept`, started, dropped after a failed accept |
| `participants`, `recent_msgs`, `write_msgs` | the members of the same names |
| `reading`, `in_flight` | which operation of the session is outstanding; `in_flight` is a sequence, so that a second concurrent write is a state the model can be in and `OneWritePerQueue` can refute |
| `closed` | the peer has gone |
| `log`, `joined`, `sent` | history: what the room was given, where each stream begins, what was written |
| `HandleAccept` | `handle_accept`, `start()`, `join()` with the replay of the history, the first `async_read`, and `start_accept()` |
| `HandleReadBody` | `handle_read_body` with `chat_room::deliver` and, for each participant, `chat_session::deliver` |
| `HandleReadError`, `HandleBadHeader`, `HandleWriteError` | the branches that call `leave()` |
| `HandleWrite` | `pop_front` and the next `async_write` |

A session whose write has failed has left the room but keeps reading: its messages
are still published. The model has that state, `MembershipFollowsReads` names it,
and `SilentAfterLeaving` says what nevertheless holds. `OneWritePerQueue` joins two
facts that need each other: never two writes (`SingleWriter`), and never a queue
without one (`NoStalledQueue`). `StreamsFollowLog` joins the history
(`HistoryIsLogSuffix`) with the streams that begin with it (`GaplessStreams`). `StartedByDeliver(q, ms)` is
the effect of a run of `deliver()` calls in one handler, as in the replay: only the
first call can find no write in progress.

`ChatBroadcast` has no queue and no socket: a log, and for each client a position in
it. `ChatServer` implements it with `members <- participants`, `stream <- sent` and
a horizon for those that have left (they may still be sent what was queued).

### HttpServer1, ServerLifecycle

| model | code |
|---|---|
| `acceptor_open`, `accept`, `signals` | `acceptor_`, the outstanding `async_accept`, the outstanding `async_wait` |
| `new_connection`, `connections` | the members of the same names |
| `open`, `op`, `result` | the socket, the outstanding operation, and what it will report |
| `HandleAccept`, `HandleAcceptError`, `HandleAcceptAfterStop` | the three branches of `handle_accept` |
| `HandleStop` | `handle_stop` with `stop_all()` |
| `HandleReadReply`, `HandleReadMore` | `handle_read`: the parser decided, or wants more |
| `HandleLast` | `handle_write` without an error, or either handler with one: `manager.stop` |
| `HandleAborted` | the `operation_aborted` branches |

The interesting interleaving is a result that is known before `handle_stop` runs and
handled after it: the accept that succeeded (its connection must not be started), the
read that had data (it goes on to write on a closed socket, fails with
`bad_descriptor`, and stops a connection that is no longer in the set). A connection
object may be used again once nothing refers to it, as memory is. `Conns` bounds how
many exist at a time.

`ServerLifecycle` is the promise: connections come only while running, a stop is
final, and then `run()` returns with none left.

### RequestParsers

Both parsers read the same characters until each has a verdict. What they do depends
on a character only through the classes of `Chars`, so the input is every sequence of
classes of any length; the states are finite, and TLC's check is complete but for
`MaxContent`. The transitions are tables: for a state, the classes that lead to the
next one; the order of the source's tests is the order in which a class is removed
from a later entry. `point` names the place where server 3's coroutine resumes by the
state of server 1 that waits for the same character, which makes the comparison
(`NewParserIsStricter`) a relation between the two. `KnownDifferences` names the only
three reasons why the new one refuses more. What the numbers amount to (version
digits, `Content-Length`) is not modelled.

### ChatClient

| model | code |
|---|---|
| `main`, `typed` | the loop in `main()` and `t.join()` |
| `posted`, `closing` | the `do_write` and `do_close` functions in the `io_context` |
| `stopped` | the io thread has left `run()` |
| `link`, `endpoints`, `connect` | the socket and `async_connect` over the resolver's endpoints |
| `read`, `part`, `write`, `write_msgs` | the outstanding read and write, and the queue |
| `sent` | history |
| `TypeLine`, `InputEnds`, `Join` | the main thread |
| `DoWrite` ... `HandleWriteError`, wrapped by `Runs` | the io thread; `Runs` adds that `run()` returns when no work is left |

A line may be typed before the connection is up; the write then waits on a socket
that `async_connect` may close to try the next endpoint. `TryNextEndpoint` aborts it,
`handle_write` sees an error and closes the socket under the connect. That is why the
model has endpoints at all. `closing` may be only posted once, after the lines, since
`main()` posts both.

### HttpServer2

| model | code |
|---|---|
| `created`, `joined` | the two loops of `io_context_pool::run()` in the main thread |
| `thread[i]` | what the thread of `io_context` i does: between handlers, in `handle_accept`, in `handle_stop`, gone |
| `next_io_context` | `next_io_context_`; `lead` is history: how much more often than the least used each context was given |
| `to_stop`, `stopped` | the loop in `io_context_pool::stop()`, and whom it has reached |
| `context`, `op`, `result` | of each connection: its `io_context`, the outstanding operation, what it will report |
| `HandleAccept`, `StartAccept` | `handle_accept` in two steps: from `connection::start()` on, the new connection's handlers may run on another thread |
| `HandleStop`, `StopOne` | `handle_stop`, one `io_context::stop()` per step |
| `HandleReadReply`, `HandleReadMore`, `HandleLast` | the branches of the connection's handlers |
| `ThreadReturns` | `run()` returns when it is stopped or has no work; `Tracked` is what `work_` prevents that for |

Handlers of one context exclude each other, those of different contexts do not; a
handler that touches only its own connection is one step, the two that reach into
other contexts are several. This server has no manager: after the stop the
connections are left to the destructors, and accepting goes on until the acceptor's
context has noticed the stop.

### HttpServer3

The server class is a coroutine that Asio copies into the handler of each operation.
`coroutines` is the set of the copies that wait: each with the `yield` it waits in
(`at`), its `socket`, its `objects` (buffer, request, reply) and the `result` its
operation will report. `Forked` is the `fork`: the child runs first, leaves the loop,
makes its objects and waits for data; then the parent makes the next socket and
accepts again. Since a copy is a value, the identity of socket and objects says what
two copies share. `NotReentered` is the test at the top of `operator()`: an error
ends the coroutine, in the accept loop too. From then on the program runs without
accepting until its signal arrives; `ImplementsLifecycle` states this by taking the
first failed accept for the stop of `ServerLifecycle`. `HandleStop` is the
`io_context::stop()` that `main.cpp` binds to the signals.

### PosixChatClient

| model | code |
|---|---|
| `output`, `output_result` | the chain from the socket to the terminal: connect, header, body, write |
| `input`, `input_result` | the chain from the terminal to the socket: read, write; `"full"` is `not_found` |
| `input_buffer` | the streambuf, which takes `MaxBody` characters |
| `write_msg` | the message under way |
| `typed`, `text` | history: what was read, and what the messages sent say of it |
| `HandleLine`, `HandleFull` | the two branches of `handle_read_input` that send |
| `HandleOutputError`, `HandleInputError` | the branches that call `close()`, which aborts what the other chain waits for |

A message that is not full ends a line; a full one goes on in the next. With that
reading (`Says`) the text sent is the text typed, although a line of exactly
`max_body_length` characters is followed by an empty message. A last line without a
newline is dropped at the end of the input: `handle_read_input` sees `eof` and closes;
`EveryLineIsSent` is therefore about newlines.

### ChatMessage

`encode_header` prints the length with `%4d`, `decode_header` reads it with `strncat`
and `atoi` into a `size_t`. The conversions are modelled by what they do to
characters, for any four of `HeaderChars`: white space, a sign, digits, anything else,
NUL. `SizeMod` stands for 2^64, and any value above `MaxBody + 9999` behaves the same:
a negative number becomes a length that is refused. Each behaviour is the life of one
message object up to its first header. `LengthsAreSound` joins the round trip with the
bound that `body()` and `length()` rely on.

### RequestHandler

`url_decode` one turn of its loop per step, then the rest of `handle_request`. What
`is >> std::hex >> value` makes of two characters is in `ReadsNumber` and `Number`: a
digit or two, or a sign and a digit. `Meaning` is the reference, the decoding of a
well-formed URI. `Mappings` and `ExtensionToType` are the table of `mime_types.cpp`; a
stock reply is `text/html`. `OpensRightFile` joins the path that is opened with the
type that the reply gives. Servers 2 and 3 have the same code in another layout; the map names
whichever copy has the lines, as it does for the parser and the replies.

The comment at `ex/boost_http_server_1/src/request_handler.cpp:53` doubts that a
directory with a dot in its name is handled; `ExtensionOfFile` shows that it is, since
the last dot must come behind the last slash. A NUL character, at which `c_str()` ends
the path, is not among the characters.

**A disagreement.** `ex/boost_http_server_1/src/request_handler.hpp:36-37` says that
`url_decode` returns false if the encoding was invalid. Run `request_handler_invalid`
finds `%+2`, which it decodes to the character 2; `%2x` is taken for the same.

### HttpReply, HttpClient

`HttpReply` has the replies as sequences of tokens in the order of `to_buffers()`: the
status line, each header, the blank line, the content. `HttpClient` is
`async_client.cpp`; `sync_client.cpp` makes the same calls in the same order
(`Calls`), with an exception where the other prints an error.

| model | code |
|---|---|
| `response`, `taken`, `ended` | what the server sends, how much of it has been read, `eof` or a lost connection |
| `stage` | the outstanding operation, by the handler that will get its result |
| `response_` | the streambuf: a read may bring more than its delimiter |
| `output`, `cout` | what has been printed of the response; whether `std::cout` still prints |
| `HandleReadStatusLine` | the early returns for no HTTP and for a status other than 200 |
| `HandleReadHeaders` | the `getline` loop, what the read brought behind the headers, and the first read of content |
| `HandleReadContent` | the loop to the end of file |

The server is one of this repository or any other, so a response may lack its
headers, or break off. The bytes arrive in pieces that end anywhere.
`AnswerIsPrinted` demands that the pieces make no difference. Inserting an empty
streambuf into `std::cout` sets its failbit; the test `response_.size() > 0` prevents
it, and without it a client that gets the headers in a piece of their own prints
nothing else. A response *without any header* is not well served: the status line
takes the first CR LF, and the client goes on looking for CR LF CR LF in the content.
`GoodAnswerIsTaken` asks for a header, and so leaves this case out.

### Programs, SmallServers

One variable, `program`, says which program was started; it never changes. The TCP
servers share the accept loop, the UDP servers the receive loop, and `daytime7` has both.

| model | code |
|---|---|
| `phase` | where the session is, as in `ChatServer` |
| `read`, `write` | the outstanding operation and where its handler lies: `"block"` is `handler_memory_`, `"heap"` is `operator new` |
| `in_use`, `data` | `in_use_`, `data_` (or the buffer or string that is written) |
| `from`, `to` | what `async_write` has still to write of the buffer |
| `due`, `out` | history: how many bytes the client is due, and what it was sent. Bytes are numbered, so that a byte lost, repeated or overwritten shows |
| `receive`, `remote_endpoint`, `sends` | the outstanding receive, `remote_endpoint_`, the destinations of the outstanding `async_send_to`s |
| `stage` | how far the daemon's `main()` is |
| `HandleAcceptEcho`, `HandleAcceptTime` | `handle_accept` with `start()`, which reads or writes |
| `HandleRead`, `HandleWrite`, `WritePiece` | the echo, and the pieces of `async_write` |
| `HandleReceive`, `HandleReceiveDaemon`, `HandleReceiveError` | `handle_receive`: `daytime6` and `daytime7` send without waiting, the daemon waits; only the daemon goes on after an error |
| `BecomesDaemon`, `DaemonFails`, `DaemonStops` | the forks and descriptors, their failures, and the signal |

`StartReceive` may receive at once, before the handler that calls it returns: then
`remote_endpoint_` already belongs to the next sender while the reply to the last one
is outstanding. Only because the reply's destination is taken before
does each reply go to its own sender (`RepliesGoToTheirSenders`).

### Strands

| model | code |
|---|---|
| `waiting` | the timers in `async_wait` |
| `posted`, `guard` | how far `main()` of the strand test is, and its `io_service::work` |
| `ready`, `strand` | the functions any thread may run (in any order), and those the strand holds |
| `runs`, `step` | of each thread: its function, and the statement it is at |
| `count_`, `printed` | `count_`, and history: what was printed |
| `started`, `ended` | history: the strand's posts that have begun, the posts that have returned |
| `TestCount`, `PrintCount`, `Count`, `ArmTimer` | the statements of `print1` and `print2`, one step each: without the strand another thread could come between |
| `RunReady`, `RunStrand`, `RunReturns` | what a thread in `run()` does next |

`print2` of timer4 also measures and prints how long its own statements take; that is
left out. Expiry times are left out, too: a timer expires at any moment.

### ChatSystem

`ChatSystem` extends `ChatClient` and instantiates `ChatServer`, whose variables have the
prefix `room_`. What each leaves open the other decides: the client's reads succeed
only when `room_sent` holds a message it has not printed (`Arrived`), the session's reads
get what the client has written (`NextMessage`, `heard`), and a lost or closed
connection is lost at both ends, though not at once (`LosesClient`). The other sessions
belong to clients that do what they like, bad headers included.

| model | code |
|---|---|
| `dialled`, `accepted` | the connection has been made, and has been accepted |
| `heard` | how many of the client's messages the server has read |
| `printed` | history: what `handle_read_body` of the client has printed |

What the client writes is there for the server when the `async_write` has finished. A
message that a loss cuts in two is not there at all: the session's read fails either
way, in its header or in its body, and `leave()` is what follows both.

## 5. The runs

| run | instance | distinct states | shows |
|---|---|---|---|
| `chat` | 2 sessions, 2 messages, history of 2, 3 published | 45047 | all properties of the server, `ImplementsBroadcast` and the liveness included |
| `http1` | 4 connections | 11636 | the accept, manager and stop invariants, and `ImplementsLifecycle` with its liveness |
| `http2` | 3 contexts and threads, 2 connections | 13866 | even round robin, threads run until the stop, the stop ends them |
| `http3` | 4 sockets, 3 sets of objects | 561 | copies of the coroutine share nothing; the safety of the lifecycle |
| `client` | 3 lines of 2 kinds, 2 endpoints | 17470 | order of lines, finality of close, exit, loss noticed |
| `posix_client` | 2 letters and the newline, messages of 2, 6 typed | 116581 | no text lost or moved; lines are sent; either chain ends the other |
| `decoders` | lengths to 600, headers of four of 10 characters; content of up to 3 characters | 15999 | the round trip and the bound for every header; all parser properties |
| `request_handler` | URIs of up to 5 of 12 characters | 1629902 | decoding, the path that is opened, and its type |
| `request_handler_invalid` | URIs of up to 5 of 9 characters | stops at the violation | the disagreement of section 4 |
| `http_client` | files of up to 3 tokens, other responses of up to 6 | 9748 | the answer is printed; the client ends with its server |
| `small_programs` | 2 sessions, 2 clients, buffer of 2, 3 bytes, 3 datagrams, 1 failed receive; 2 threads, limit 4, 2 posts each way | 106734 | every property of the small servers and of the timers and posts, for each of ten programs |
| `chat_system` | 2 lines, 1 message of another client, history of 1, 1 endpoint | 840439 | the user's lines come back in order, each once, and every one |

`decoders` and `small_programs` put independent modules side by side: the initial state
chooses one, and the other one's variables never change.

**The bounds.** `MaxPublished` is above `MaxRecent`, so the history overflows and a
newcomer joins with an incomplete history; of two sessions one publishes while the other
one is slow, new or going, and the proofs cover any number. In `HttpServer1` four connections give one in
`async_accept`, one that reads, one that writes and one that has been stopped. In
`HttpServer2` three contexts make the acceptor's, the signals' and the first
connection's different ones, and the round robin wraps; of two connections one is
accepting while the other is served. In `HttpServer3` four sockets are the parent's and
those of three children. In `ChatClient` two endpoints make one retry, and three lines
fill `posted` and `write_msgs` at once. Six characters typed in messages of two contain
a line longer than a message, one of exactly its length, empty lines and a rest; the
code's 512 enters nothing but comparisons. Lengths up to 600 pass the limit of 512,
which `chat_message` uses as it is. Five of twelve characters of a URI hold one escape with two
characters to decide on each side, `..` with one or both dots escaped, an extension
behind a directory, and with `h`, `t` and `m` the known extension `htm`. Six tokens of a response hold a status line, a header, the blank
line and content that contains a CR LF. `MaxContent` of 3 makes the loop over the
content run more than once. In `SmallServers` a buffer of 2 is filled in whole and in
part, and 3 bytes are echoed by a second read while the first write may go in pieces;
3 datagrams give one answered, one being answered and one received. In `Strands` two threads
are what timer4 has, a limit of 4 lets each timer expire more than once, and two posts
each way give an order to get wrong; five threads and five posts are the proofs'. In
`ChatSystem` a history of 1 is overwritten by the other client's message, and two lines
are in the client's queue, in the connection and in the session's queue at once.

**Symmetry** is used in `http3` (sockets, objects) only, which checks no liveness; no
property tells these apart.

**Deadlock** is checked in the other runs: after the end only `Terminated` stutters. It
is switched off where the system really may stop: the chat server waits when every
peer is silent, and nothing happens when the bound on sessions and messages is used up;
the parsers stop at their verdicts, the request handler at its reply, the small servers
when their clients are silent, and a timer program when its threads have returned. That
`run()` does return there is `ProgramEnds`.

## 6. The fairness

- A thread in `run()` executes whatever is ready: weak fairness on every handler. In
  `ChatClient` it is per kind of handler, since ready handlers are executed in the
  order they became ready and none is passed over for ever.
- In `HttpServer2` it is strong fairness for `HandleAccept` and `HandleOp`: such a
  handler is not enabled while its thread is in another one, but its turn in the
  thread's queue comes.
- A write that is outstanding completes or fails. The code has no write timeout, so
  this is an assumption on the peer: a connected peer reads. Without it
  `EveryMessageIsSent` and `EveryLineIsSent` would fail, and rightly so.
- A connect gets an answer or times out (the system's time-out, the code has none).
- When the peer is gone, the read that is outstanding completes. For `ChatClient` and
  `PosixChatClient` the fairness on the failing read is strong: bytes that arrived
  before the loss can be read first, and there are finitely many of them.
- In `SmallServers` what is outstanding completes and is handled, under weak fairness;
  the daemon becomes one or fails. A failed receive is nothing that has to happen.
- In `Strands` a timer expires, `main()` goes on, and each thread in `run()` goes on.
- In `ChatSystem` the handlers of the io thread and of the server run, and what has been
  written to a connection that stands arrives. The user, the other clients and the loss
  of the connection are free.
- In `HttpClient` what the server has sent arrives, and what is ready is handled.
- Nothing makes a client connect, a connected peer send, a user type, a server end a
  connection, or a signal arrive. The liveness properties are conditional on these.
- `HttpServer3`, the parsers, `ChatMessage` and `RequestHandler` are checked for safety
  only: their steps follow one another without waiting, or wait for a client.

## 7. The proofs

TLAPS checks these for every set of sessions, messages, connections and lines, every
limit on a history, a number of messages, a length or a size in `Nat`, any positive
number of endpoints, any positive size of a pool, of a buffer or of the posix client's
message, any finite set of threads and any number of posts; requests and URIs may have
any length and any bytes, responses any length. What is assumed of the constants stands
in the `ASSUME` of each module and no more: the client's lines are not the others'
messages and its session is one of the sessions (`ChatSystem`), the newline is no letter
(`PosixChatClient`), characters are bytes (`RequestHandler`, `ChatMessage`), a length
fits into a header's three digits and the number of values of `size_t` is above what a
header can say (`ChatMessage`). The type invariants of the modules are theorems or parts
of the inductive invariants, and runs do not repeat them.

Every safety property of a passing run is a theorem. Some of them are about what a
recursive function computes (the value of digits, the meaning of a URI) or about the
first place where something is found (a newline, the end of a prefix). Their induction
is first-order: a set of numbers has a least one (`LeastNumber`, from the library's
well-foundedness of `<`), so a claim that fails somewhere has a first failure, which the
places before it contradict.

**ChatServerProofs.** `IInv` joins the type invariant and the safety invariants with
`NotStartedIsIdle` (a session whose `start()` has not run owns nothing). None of the
invariants is inductive alone: `SingleWriter` needs the queue to tell whether a write is
in progress, which only `NoStalledQueue` gives; `GaplessStreams` needs `SingleWriter`,
since what is appended to `sent` is the head of `in_flight` while what is popped is the
head of the queue, and needs `HistoryIsLogSuffix` for the replay in `join()`. The lemmas
`WindowOfAppend`, `WindowAppend`, `WindowShift` and `WindowOfWindow` are about stretches
of a sequence, and `TrimProperties` about the history; the rest is one step per action.
`Refinement` proves `Spec => ImplementsBroadcast`, the whole of `ChatBroadcast`'s
specification: joins, publications, departures and successful writes map to the abstract
steps, every other handler to a stutter. `SilenceCorrect` proves the action property
`SilentAfterLeaving`.

**HttpServer1Proofs.** `IInv` adds `StoppedOnce` (the acceptor is closed exactly when
`handle_stop` has run), `NewIsFree` and `AbortedByStop` (`operation_aborted` is seen
only after a stop; with it `HandleAborted`, which removes nothing from the manager,
cannot leave a dead connection in it). `SafeLifecycle` proves the initial state and the
steps of `ServerLifecycle`; its liveness part is TLC's.

**ChatSystemProofs: the client.** `IInv` adds `WritesFromQueue` (so that `handle_write`
has a front to pop), `ConnectInStep` (what the connect operation knows agrees with the
socket) and `StoppedIsIdle`. `LinesCorrect` is the interesting one: the typed lines are
at every moment the concatenation of what was sent, what is queued and what is posted.
`CloseCorrect` proves the action property.

**ChatSystemProofs: client and server.** Every step of the system is a step of
`ChatClient` or leaves its variables alone (`ClientInSystem`), and likewise for
`ChatServer` (`ServerInSystem`). So what is proved of each alone holds in the system:
`LinesInSystem`, `CloseInSystem` and `StreamsInSystem` are three instances. The theorems
also say that the composition asks nothing of either part that its module does not
allow.

`OrderInSystem` needs both parts at once. `OwnLinesInOrder` says that the user's own
lines among those printed are the first ones typed, in order. `SystemIInv` follows a
line around: what the server has read is a prefix of what the client has sent
(`HeardIsSent`), which is a prefix of what was typed, by `NoLineLostOrRepeated`; the
client's lines in the log are the ones read (`OwnLinesInOrder`, whose first half is
about the log); what is printed is a prefix of what the session was sent
(`PrintedIsSent`), which is a stretch of the log, by `StreamsFollowLog`; and the stretch
does not begin too late, since none of the client's lines is older than its session
(`NoneBefore`).

**ChatSystemProofs: the messages.** `LengthsCorrect`: with `MessageIInv`, which adds
that a header of one's own is the one `encode_header` prints for the length there is.
The lemmas compute what `strncat` and `atoi` make of it: the longest prefix of digits
(`PrefixEnds`, `PrefixType`) and its value (`ValueOfDigits`, `NumberGrows`), for one,
two or three digits behind the spaces of `%4d` (`AtoiOfPadded`). Of a peer's header
nothing is needed but that it gives an integer (`AtoiType`): as a `size_t` that is a
length that fits, or one that `decode_header` refuses.

**HttpServer2Proofs.** `Balanced` compares counts and says nothing of whose turn it is;
`LeadFollowsNext` does: the contexts before `next_io_context` are one ahead, the others
are not. From it each turn of the round robin keeps the counts within one, for a pool of
any size, a pool of one and of two included, where the signals, the acceptor and the
first connection share contexts. `StoppingAfterSignal` says that nobody is stopped
before `handle_stop` has begun; `RunsUntilStopped` needs it. `StopCorrect` proves that
after the stop no handler touches a connection any more.

**HttpServer3Proofs.** `ForksApart` is inductive by itself once it is known that exactly
the coroutines in `accept` have no objects yet (`Apart`). `ForkApart` is the step that
matters: child and parent are two copies, and the parent's next socket is fresh.
`Refinement` proves `Spec => ImplementsLifecycle`: a fork is a connection that comes
(`ForkComes`), the end of a coroutine behind its fork one that goes (`EndIsGo`), a
failed accept the stop (`AcceptFails`), and every other step is unseen (`GoesOnUnseen`).
`Apart` is needed there, too: that the connection of the fork is a new one, and that the
one that ends is nobody else's, holds since no two copies have a socket in common.

**PosixChatClientProofs.** `TextIsKept` says that the messages that were sent, the one
under way and the buffer hold the text that was typed. `IInv` adds what each handler may
rely on when it runs: with `"ok"` there is a newline in the buffer, with `"full"` the
buffer is full and without one (`ReadIsRight`), so that the message `HandleFull` sends
is one that the next one continues; nothing is read before the connect (`ConnectFirst`)
and nothing waits behind `close()` (`NothingPending`). `CutLine` is the lemma about
`getline`: the line before the first newline, the newline and the rest are the buffer.

**HttpMessageProofs: the parsers.** A character leads server 1 from a state to one other
at most (`OneWay`); where server 3 goes on, server 1 goes the same way (`RowsOf3`), and
where only server 1 does, there is no URI or the character is outside 0..127
(`OnlyIn1`). `IInv1` relates the state of server 1 to how much of CR LF CR LF it has
just read (`BlankIn`), which gives `EndsAtBlankLine`, and a state inside a header to the
existence of one, which gives `FieldsAreSound`. `IInv3` is about server 3 alone;
`IInvBoth` says that while server 3 has refused nothing the two wait in states that
correspond (`StateAt`), and both have a header or neither has. `ParsersAgree` then goes
by what a character does: both take it (`BothTake`), both are at the end (`BothEnd`),
server 3 refuses it and one of the known differences has been met (`NewRefuses`), or
server 3 has refused before and server 1 reads on, which does not undo the difference
(`OldReads`).

**HttpMessageProofs: the handler.** The reference decodes a URI from its end, the code
from its beginning. They meet in `DecodesSoFar`: the path so far, followed by the
meaning of the rest of the URI, is the meaning of the whole. For that the recursive
definition must have a solution at every place of a well-formed URI (`MeaningsExist`,
where an escape skips two places and so needs the induction over all later ones), and
each turn of the loop must be one of its steps (`MeaningsSteps`, `NumberOfDigits`). For
`OpensRightFile` the lemmas say what the tests of the path imply for the path that is
opened, `index.html` appended or not (`FullPathIsGood`), and what `find_last_of` finds
(`LastPlace`, `ExtensionIs`, `IndexIsHtml`).

**HttpMessageProofs: the client.** `PrintedAndBuffered` is the centre of `ClientIInv`:
behind the status line, what was printed and what is in the buffer are together what has
been read, however the pieces end. `StatusInBuffer` says the same before the status
line, and `LengthOfContent` that a response that says a length says the right one, which
follows from how `to_buffers` lays out a reply (`ReplyIs`, `ReplySaysItsLength`). That
`std::cout` stays good is part of the invariant.

**SmallProgramsProofs: the small servers.** `SessionInv` joins three facts for a
session: it has one operation at most (`OneOperation`), `in_use_` says whether the
handler of that operation lies in the block (`InBlock`), and the bytes still in the
buffer follow those that were written (`Bytes`). None holds without the first: only
since no read is outstanding while a write is, the block is free when the next handler
is allocated and `data_` keeps its bytes. `DatagramInv` adds to
`RepliesGoToTheirSenders` that the daemon, which sends synchronously, has no outstanding
send: its reply must come behind all earlier ones.

**SmallProgramsProofs: timers and posts.** `Base` says where functions may lie, and that
one thread at a time runs a timer's function (`OneCounts`), because there is one timer
or because the strand admits one. `Counting` adds that a function that prints has seen
the count below the limit (`TestedFirst`), which stays true only since nobody else
counts meanwhile, and that there is work until the limit is reached (`WorkUntilLimit`).
`PostsInv` follows the posts from `main()` to their end: those of the strand lie in
order behind those that have started (`Lined`), the last one started may still run
(`OneAtATime`), a plain one is always somewhere (`Kept`), and nobody has left `run()`
while there is work (`LeftLast`).

Proved, but in no run of their own, are `SilentAfterLeaving` (chat server),
`StalledOnlyWhenClosed`, `ListensWhileConnected` and `NothingHangs` (chat client),
`AcceptIsOutstanding` and `StoppedForGood` (server 2).

**Only model-checked** are the liveness properties and the liveness part of
`ImplementsLifecycle` of server 1: they rest on fairness and `ENABLED`, which are beyond
the prover. Each is a run's `PROPERTY`, under the fairness of section 6.

## 8. What is not modelled

- The bytes of a chat message's body: in the chat programs a message is one value, and
  `decode_header` accepts or refuses; its four digits are `ChatMessage`.
- The values in a request (version numbers, `Content-Length`) and the memory a long
  request takes; the text of the stock replies.
- The lifetime of the memory that a reply's buffers point into: the reply is a member
  of the connection (or of the coroutine's shared objects), which the handler keeps.
- Exceptions: `std::bad_alloc`, and what Asio throws from functions called without an
  `error_code` (`remote_endpoint`, `set_option`, a `close` that fails).
- `daytime1`, `daytime2`, `daytime4` and `daytime5`: blocking calls in a straight line, or
  one client after another. `timer1` and `timer2`: one wait each.
- The text of a daytime reply; handlers larger than the 1024 bytes of the block; exceptions
  that a constructor throws before there is anything to handle.
- `strand_test_1`'s mutex around its output, and its sleep of half a second, which makes
  it likely, but not sure, that the threads are in `run()` before the first post.
- The book's fragments: a few lines that show one call each. One does not compile.
- The language experiments: single functions that print what a language feature does.
