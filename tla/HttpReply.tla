----------------------------- MODULE HttpReply -----------------------------
(***************************************************************************)
(* The replies of the HTTP servers and what goes over the socket of them:  *)
(* reply.cpp, of which every server has a copy, and the end of             *)
(* handle_request().  What is sent is a sequence of tokens: a status line, *)
(* a header or a piece of text without its line end, or a line end.        *)
(***************************************************************************)
EXTENDS Integers, Sequences, SequencesExt

Token(is, of) == [is |-> is, of |-> of]

Crlf == Token("CRLF", 0)
Text == Token("text", 0)

\* reply::status_type.
StatusType == {200, 201, 202, 204, 300, 301, 302, 304,
               400, 401, 403, 404, 500, 501, 502, 503}

\* status_strings::to_buffer.
StatusString(status) ==
  <<Token("status", IF status \in StatusType THEN status ELSE 500), Crlf>>

\* stock_replies::to_string: a line of HTML, but nothing for ok.
StockContent(status) == IF status = 200 THEN <<>> ELSE <<Text>>

ContentLength(content) == Token("Content-Length", Len(content))

\* headers.resize(2).
Headers(content) == <<ContentLength(content), Token("Content-Type", 0)>>

StockReply(status) ==
  [status |-> status,
   headers |-> Headers(StockContent(status)),
   content |-> StockContent(status)]

\* The file is read in pieces of 512 bytes, all of which are appended.
FileReply(file) ==
  [status |-> 200, headers |-> Headers(file), content |-> file]

ToBuffers(rep) ==
  StatusString(rep.status)
    \o FlattenSeq([h \in DOMAIN rep.headers |-> <<rep.headers[h], Crlf>>])
    \o <<Crlf>> \o rep.content
=============================================================================
