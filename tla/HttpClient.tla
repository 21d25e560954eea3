----------------------------- MODULE HttpClient -----------------------------
(***************************************************************************)
(* The HTTP clients boost_http_server_1/src/async_client.cpp and           *)
(* sync_client.cpp.  They make the same calls in the same order; what the  *)
(* one does in handlers the other does behind blocking calls.  The server  *)
(* at the other end is one of this repository or any other, and the        *)
(* response comes in pieces that have nothing to do with its lines.        *)
(***************************************************************************)
EXTENDS HttpReply

CONSTANTS MaxFile,      \* bound: tokens of content in a reply of these servers
          MaxResponse   \* bound: tokens of the response of another server

\* The bounds are numbers, and another server may send a token.
ASSUME HttpClientAssumption == MaxFile \in Nat /\ MaxResponse \in Nat \ {0}

VARIABLES
  response,  \* all that the server ever sends
  taken,     \* how much of it has been read from the socket
  ended,     \* how the server has ended the connection
  stage,     \* the operation that is outstanding
  response_, \* the streambuf
  output,    \* what has been printed of the response
  cout,      \* the state of std::cout
  outcome    \* how the client has ended

clientVars == <<response, taken, ended, stage, response_, output, cout, outcome>>

-----------------------------------------------------------------------------
(* The server.                                                             *)

Texts(max) == UNION {[1..n -> {Text, Crlf}] : n \in 0..max}

\* handle_request() makes these replies.
Replies == {FileReply(f) : f \in Texts(MaxFile)}
             \cup {StockReply(400), StockReply(404)}

\* Any server: a status line of HTTP or something else, then any lines, and the
\* response may break off everywhere.
OtherResponses ==
  {<<>>} \cup {<<first>> \o rest : first \in {Token("status", 200), Token("status", 404), Text},
                                   rest \in Texts(MaxResponse - 1)}

ClientInit ==
  /\ response \in {ToBuffers(rep) : rep \in Replies} \cup OtherResponses
  /\ taken = 0 /\ ended = "open"
  /\ stage = "resolve" /\ outcome = "running"
  /\ response_ = <<>> /\ output = <<>> /\ cout = "good"

\* The server closes the connection behind what it sends, or loses it.  A server
\* may also never end it.
ServerEnds ==
  /\ ended = "open" /\ stage \notin {"resolve", "connect"}
  /\ ended' \in {"eof", "reset"}
  /\ UNCHANGED <<response, taken, stage, response_, output, cout, outcome>>

-----------------------------------------------------------------------------
(* The operations of the client, and, before the definitions, the faults a *)
(* change of the code might bring: no action uses one.                     *)

HasLine(s) == \E k \in DOMAIN s : s[k] = Crlf
HasBlankLine(s) == \E k \in 2..Len(s) : s[k - 1] = Crlf /\ s[k] = Crlf

\* The delimiter of async_read_until is in the buffer, or transfer_at_least(1)
\* is fulfilled.
Complete ==
  CASE stage = "status" -> HasLine(response_)
    [] stage = "headers" -> HasBlankLine(response_)
    [] stage = "content" -> response_ # <<>>

Reading == outcome = "running" /\ stage \in {"status", "headers", "content"} /\ ~Complete

\* A piece of the response arrives.
ReadSome ==
  /\ Reading /\ ended # "reset"
  /\ \E n \in (taken + 1)..Len(response) :
       /\ response_' = response_ \o SubSeq(response, taken + 1, n)
       /\ taken' = n
  /\ UNCHANGED <<response, ended, stage, output, cout, outcome>>

\* The operation completes with an error.
ReadError == Reading /\ (ended = "reset" \/ (ended = "eof" /\ taken = Len(response)))

Completed(at) == outcome = "running" /\ stage = at /\ Complete

Client(next, how) == stage' = next /\ outcome' = how

\* An operation that needs no data: the next one is started, or the error printed.
Goes(at, next) ==
  /\ outcome = "running" /\ stage = at
  /\ Client(next, "running") \/ Client(at, "error")
  /\ UNCHANGED <<response, taken, ended, response_, output, cout>>

HandleResolve == Goes("resolve", "connect")
HandleConnect == Goes("connect", "write")
HandleWriteRequest == Goes("write", "status")

\* Where the first line of the buffer ends.
FirstLineEnd(s) == SelectInSeq(s, LAMBDA t : t = Crlf)

\* The status line is taken from the buffer; what came with it stays.
HandleReadStatusLine ==
  \/ /\ Completed("status")
     /\ response_' = SubSeq(response_, FirstLineEnd(response_) + 1, Len(response_))
     /\ CASE response_[1].is # "status" -> Client("status", "invalid")
          [] response_[1].is = "status" /\ response_[1].of # 200 -> Client("status", "status")
          [] OTHER -> Client("headers", "running")
     /\ UNCHANGED <<response, taken, ended, output, cout>>
  \/ /\ ReadError /\ stage = "status"
     /\ Client("status", "error")
     /\ UNCHANGED <<response, taken, ended, response_, output, cout>>

\* The k-th token ends a line that holds nothing.
IsBlank(s, k) == s[k] = Crlf /\ (k = 1 \/ s[k - 1] = Crlf)

\* getline() stops at the first such line.
BlankLine(s) ==
  CHOOSE k \in DOMAIN s : IsBlank(s, k) /\ \A l \in 1..(k - 1) : ~IsBlank(s, l)

\* Fault: the buffer is printed even if nothing is in it.
AlwaysPrints(s) == TRUE

\* What the read brought behind the headers.
Rest(s) == SubSeq(s, BlankLine(s) + 1, Len(s))

\* response_.size() > 0.
WorthPrinting(s) == s # <<>>

\* Printing an empty streambuf would set the failbit of std::cout, which prints
\* nothing from then on.
Prints(lines, content) ==
  /\ output' = IF cout = "good" THEN output \o lines \o content ELSE output
  /\ cout' = IF WorthPrinting(content) /\ content = <<>> THEN "failed" ELSE cout

HandleReadHeaders ==
  \/ /\ Completed("headers")
     /\ Prints(SubSeq(response_, 1, BlankLine(response_)), Rest(response_))
     /\ response_' = <<>>
     /\ Client("content", "running")
     /\ UNCHANGED <<response, taken, ended>>
  \/ /\ ReadError /\ stage = "headers"
     /\ Client("headers", "error")
     /\ UNCHANGED <<response, taken, ended, response_, output, cout>>

\* Fault: the read is started again after its last error, too.
ReadsOn == "running"

\* Only an end of file is no error.
AfterContent == IF ended = "eof" THEN "done" ELSE "error"

HandleReadContent ==
  \/ /\ Completed("content")
     /\ Prints(<<>>, response_)
     /\ response_' = <<>>
     /\ UNCHANGED <<response, taken, ended, stage, outcome>>
  \/ /\ ReadError /\ stage = "content"
     /\ Client("content", AfterContent)
     /\ UNCHANGED <<response, taken, ended, response_, output, cout>>

\* No operation is outstanding: io_context::run() and main() return.
Terminated == outcome # "running" /\ UNCHANGED clientVars

\* The calls in their order.
Calls ==
  \/ HandleResolve \/ HandleConnect \/ HandleWriteRequest
  \/ ReadSome
  \/ HandleReadStatusLine \/ HandleReadHeaders \/ HandleReadContent

ClientNext == Calls \/ ServerEnds \/ Terminated

ClientSpec == ClientInit /\ [][ClientNext]_clientVars

\* What is outstanding completes, and what has completed is handled.
ClientFairness == WF_clientVars(Calls)

ClientFairSpec == ClientSpec /\ ClientFairness

-----------------------------------------------------------------------------
(* Safety.                                                                 *)

ClientTypeOK ==
  /\ taken \in 0..Len(response)
  /\ ended \in {"open", "eof", "reset"}
  /\ stage \in {"resolve", "connect", "write", "status", "headers", "content"}
  /\ cout \in {"good", "failed"}
  /\ outcome \in {"running", "done", "error", "invalid", "status"}

\* All of the response but its status line.
Answer == SubSeq(response, FirstLineEnd(response) + 1, Len(response))

\* Whatever pieces it comes in, the response is printed in order, and all of it
\* when the client ends well.
PrintedInOrder ==
  /\ output # <<>> => IsPrefix(output, Answer)
  /\ outcome = "done" => output = Answer

\* A response that has a status line of HTTP with 200, headers and a blank line is
\* only given up when the connection is lost.
GoodAnswerIsTaken ==
  /\ ended # "reset"
  /\ HasLine(response) /\ response[1] = Token("status", 200) /\ HasBlankLine(Answer)
  /\ stage \notin {"resolve", "connect", "write"}
  => outcome \in {"running", "done"}

\* The Content-Length of a reply of these servers is the length of what the client
\* prints behind the headers.
LengthIsRight ==
  outcome = "done" =>
    \A k \in DOMAIN output :
      output[k].is = "Content-Length" => output[k].of = Len(output) - BlankLine(output)

\* The user is shown the answer that the server gave.
AnswerIsPrinted == ClientTypeOK /\ PrintedInOrder /\ GoodAnswerIsTaken /\ LengthIsRight

-----------------------------------------------------------------------------
(* Liveness.                                                               *)

\* When the server has ended the connection, in whatever place of its response, the
\* client comes to its end.
EndsWithServer == ended # "open" ~> outcome # "running"
=============================================================================
