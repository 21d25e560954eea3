-------------------------- MODULE PosixChatClient --------------------------
(***************************************************************************)
(* The chat client without threads, cpp_03_example/posix_chat_cline.cpp:   *)
(* one chain of handlers carries messages from the socket to the terminal, *)
(* another cuts the user's input into messages for the socket, and close() *)
(* in either chain ends both.  An operation finishes in two steps: it gets *)
(* its result, and later its handler runs.                                 *)
(***************************************************************************)
EXTENDS Integers, Sequences, SequencesExt

CONSTANTS Letters,    \* the characters the user may type besides the newline
          Newline,    \* '\n'
          MaxBody,    \* chat_message::max_body_length, 512 in the code
          MaxTyped    \* bound: how many characters the user types

ASSUME PosixChatClientAssumption == /\ MaxBody \in Nat /\ MaxBody > 0
                                    /\ MaxTyped \in Nat
                                    /\ Newline \notin Letters

Characters == Letters \cup {Newline}

VARIABLES
  output, output_result,  \* the operation of the chain socket -> terminal
  input, input_result,    \* the operation of the chain terminal -> socket
  closed,                 \* close() has run
  lost,                   \* the server has ended the connection
  input_buffer,           \* input_buffer_, a streambuf of at most MaxBody
  write_msg,              \* the body of write_msg_
  typed,                  \* history: the characters read from the terminal
  text                    \* history: what the messages sent say, see Says

vars == <<output, output_result, input, input_result, closed, lost, input_buffer,
          write_msg, typed, text>>
incoming == <<output, output_result>>
outgoing == <<input, input_result, input_buffer, write_msg, typed, text>>

\* Every variable has its type, and neither the buffer nor a message is longer
\* than data_ has room for.
TypeOK ==
  /\ output \in {"none", "connect", "header", "body", "write"}
  /\ output_result \in {"none", "pending", "ok", "error"}
  /\ output = "none" <=> output_result = "none"
  /\ input \in {"none", "read", "write"}
  /\ input_result \in {"none", "pending", "ok", "full", "error"}
  /\ input = "none" <=> input_result = "none"
  /\ closed \in BOOLEAN /\ lost \in BOOLEAN
  /\ input_buffer \in Seq(Characters) /\ Len(input_buffer) <= MaxBody
  /\ write_msg \in Seq(Letters) /\ Len(write_msg) <= MaxBody
  /\ typed \in Seq(Characters) /\ text \in Seq(Characters)

-----------------------------------------------------------------------------
(* The steps the handlers share, and, before each of them, the faults a    *)
(* change of that code might bring, to try the properties with: no action  *)
(* uses one.                                                               *)

HasLine(b) == \E i \in 1..Len(b) : b[i] = Newline

\* handle_read_input's length: the first newline counts.
LineLength(b) == CHOOSE i \in 1..Len(b) :
                   b[i] = Newline /\ \A j \in 1..(i - 1) : b[j] # Newline

\* How many more characters the streambuf takes.
Room(b) == MaxBody - Len(b)

\* The result of async_read_until with what is in the buffer.  A line, or a full
\* buffer, is enough; else characters are needed from the descriptor.
ReadUntil(b) ==
  IF HasLine(b) THEN "ok"
  ELSE IF Room(b) = 0 THEN "full"
  ELSE IF closed THEN "error" ELSE "pending"

\* An operation started on the socket or on output_.
Started == IF closed THEN "error" ELSE "pending"

\* Fault: the newline is not consumed.
RestWithNewline(b) == SubSeq(b, LineLength(b), Len(b))

\* What sgetn() and consume(1) leave of the buffer.
Rest(b) == SubSeq(b, LineLength(b) + 1, Len(b))

\* The line without its newline.
Line(b) == SubSeq(b, 1, LineLength(b) - 1)

\* What a message says of the user's text: one that is not full ends a line, one
\* that is full goes on in the next.
Says(m) == IF Len(m) < MaxBody THEN Append(m, Newline) ELSE m

\* The circle of operations that takes a message from the socket to the terminal.
NextOutput == [header |-> "body", body |-> "write", write |-> "header"]

\* Fault: handle_write waits for another event to read again.
NoRead == "none"

\* handle_write reads the next line.
NextInput == "read"

\* Fault: the operations of the other chain do not hear of the close.
Unaware(r) == r

\* close() ends a pending operation; one that has its result keeps it.
Aborted(r) == IF r = "pending" THEN "error" ELSE r

-----------------------------------------------------------------------------
Init ==
  /\ output = "connect" /\ output_result = "pending"
  /\ input = "none" /\ input_result = "none"
  /\ closed = FALSE /\ lost = FALSE
  /\ input_buffer = <<>> /\ write_msg = <<>>
  /\ typed = <<>> /\ text = <<>>

(* The chain from the socket to the terminal.                              *)

\* handle_connect without an error starts both chains.
HandleConnect ==
  /\ output = "connect" /\ output_result = "ok"
  /\ output' = "header" /\ output_result' = Started
  /\ input' = "read" /\ input_result' = ReadUntil(input_buffer)
  /\ UNCHANGED <<closed, lost, input_buffer, write_msg, typed, text>>

\* handle_connect with an error, which it ignores.
HandleConnectError ==
  /\ output = "connect" /\ output_result = "error"
  /\ output' = "none" /\ output_result' = "none"
  /\ UNCHANGED <<closed, lost, outgoing>>

\* handle_read_header with a header that decode_header accepts, handle_read_body,
\* or handle_write_output, without an error: the next operation of the circle.
HandleOutput ==
  /\ output \in DOMAIN NextOutput /\ output_result = "ok"
  /\ output' = NextOutput[output]
  /\ output_result' = Started
  /\ UNCHANGED <<closed, lost, outgoing>>

\* One of them with an error, or a header that decode_header refuses: close().
HandleOutputError ==
  /\ output \in DOMAIN NextOutput
  /\ output_result = "error" \/ (output = "header" /\ output_result = "ok")
  /\ output' = "none" /\ output_result' = "none"
  /\ closed' = TRUE
  /\ input_result' = Aborted(input_result)
  /\ UNCHANGED <<lost, input, input_buffer, write_msg, typed, text>>

(* The chain from the terminal to the socket.                              *)

\* handle_read_input with a line.
HandleLine ==
  /\ input = "read" /\ input_result = "ok"
  /\ write_msg' = Line(input_buffer)
  /\ input_buffer' = Rest(input_buffer)
  /\ input' = "write" /\ input_result' = Started
  /\ UNCHANGED <<incoming, closed, lost, typed, text>>

\* handle_read_input with not_found: "Send whatever we have".
HandleFull ==
  /\ input = "read" /\ input_result = "full"
  /\ write_msg' = input_buffer
  /\ input_buffer' = <<>>
  /\ input' = "write" /\ input_result' = Started
  /\ UNCHANGED <<incoming, closed, lost, typed, text>>

HandleWrite ==
  /\ input = "write" /\ input_result = "ok"
  /\ input' = NextInput
  /\ input_result' = IF input' = "none" THEN "none" ELSE ReadUntil(input_buffer)
  /\ UNCHANGED <<incoming, closed, lost, input_buffer, write_msg, typed, text>>

\* handle_read_input with any other error, the end of the input among them, or
\* handle_write with an error: close().
HandleInputError ==
  /\ input_result = "error"
  /\ input' = "none" /\ input_result' = "none"
  /\ closed' = TRUE
  /\ output_result' = Aborted(output_result)
  /\ UNCHANGED <<output, lost, input_buffer, write_msg, typed, text>>

(* The system, the user and the server.                                    *)

\* An operation on the socket, or on output_, finishes.  What arrived before the
\* connection ended can still be read.
OutputFinishes ==
  /\ output_result = "pending"
  /\ \/ output_result' = "ok"
     \/ /\ output \in {"connect", "write"} \/ lost
        /\ output_result' = "error"
  /\ UNCHANGED <<output, closed, lost, outgoing>>

\* The terminal has characters for async_read_until: as many as were typed, at
\* most as many as there is room for.
UserTypes ==
  /\ input = "read" /\ input_result = "pending"
  /\ \E n \in 1..Room(input_buffer) : \E chunk \in [1..n -> Characters] :
       /\ Len(typed) + n <= MaxTyped
       /\ typed' = typed \o chunk
       /\ input_buffer' = input_buffer \o chunk
  /\ input_result' = ReadUntil(input_buffer')
  /\ UNCHANGED <<incoming, input, closed, lost, write_msg, text>>

\* The user ends the input.
InputEnds ==
  /\ input = "read" /\ input_result = "pending"
  /\ input_result' = "error"
  /\ UNCHANGED <<incoming, input, closed, lost, input_buffer, write_msg, typed, text>>

WriteSucceeds ==
  /\ input = "write" /\ input_result = "pending"
  /\ input_result' = "ok"
  /\ text' = text \o Says(write_msg)
  /\ UNCHANGED <<incoming, input, closed, lost, input_buffer, write_msg, typed>>

WriteFails ==
  /\ input = "write" /\ input_result = "pending"
  /\ lost
  /\ input_result' = "error"
  /\ UNCHANGED <<incoming, input, closed, lost, input_buffer, write_msg, typed, text>>

\* The server ends the connection, or it is lost.
ServerCloses ==
  /\ output \in DOMAIN NextOutput \/ input # "none"
  /\ ~lost
  /\ lost' = TRUE
  /\ UNCHANGED <<incoming, closed, outgoing>>

\* io_context::run() has nothing left to wait for.
RunReturned == output = "none" /\ input = "none"

Terminated == RunReturned /\ UNCHANGED vars

HandlesOutput ==
  HandleConnect \/ HandleConnectError \/ HandleOutput \/ HandleOutputError

HandlesInput == HandleLine \/ HandleFull \/ HandleWrite \/ HandleInputError

Next ==
  \/ HandlesOutput \/ HandlesInput
  \/ OutputFinishes
  \/ UserTypes \/ InputEnds
  \/ WriteSucceeds \/ WriteFails
  \/ ServerCloses
  \/ Terminated

Spec == Init /\ [][Next]_vars

\* run() executes what is ready, a connect gets an answer, the terminal and a
\* connected server take what is written.  What a lost connection still holds is
\* finite, so its reads fail at last.
Fairness ==
  /\ WF_vars(HandlesOutput) /\ WF_vars(HandlesInput)
  /\ WF_vars(output \in {"connect", "write"} /\ OutputFinishes)
  /\ SF_vars(lost /\ OutputFinishes /\ output_result' = "error")
  /\ WF_vars(WriteSucceeds \/ WriteFails)

FairSpec == Spec /\ Fairness

-----------------------------------------------------------------------------
(* Safety.                                                                 *)

\* What the message in flight says.
InFlight == IF input = "write" /\ input_result # "ok" THEN Says(write_msg) ELSE <<>>

\* However the input comes in pieces, whatever the length of its lines, nothing
\* of it is lost, repeated or moved on its way through the buffer, and the server
\* can put the lines together again: a line longer than a message goes on after a
\* full one, and a line of exactly MaxBody is followed by an empty message.  After
\* a close the text sent is a beginning of the text typed.
TextIsKept ==
  /\ TypeOK
  /\ ~closed => typed = text \o InFlight \o input_buffer
  /\ IsPrefix(text, typed)

-----------------------------------------------------------------------------
(* Liveness, under Fairness.                                               *)

\* The newline number n that the user types is sent, unless the connection or the
\* input ends first.
EveryLineIsSent ==
  \A n \in 1..MaxTyped :
    Len(typed) >= n /\ typed[n] = Newline ~> Len(text) >= n \/ lost \/ closed

\* The end of the connection ends the program, although the user types nothing, and
\* so does the end of the input, although the server sends nothing: whichever chain
\* of handlers calls close(), the other one hears of it.
LossEndsRun == lost \/ closed \/ input_result = "error" ~> RunReturned
=============================================================================
