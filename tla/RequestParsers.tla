-------------------------- MODULE RequestParsers --------------------------
(***************************************************************************)
(* The HTTP request parsers of the repository side by side: the state      *)
(* machine of boost_http_server_1/src/request_parser.cpp (server 2 has a   *)
(* copy of it) and the coroutine of boost_http_server_3/request_parser.cpp.*)
(* Both are given the same characters, one by one, until each has given    *)
(* its verdict.  What they do depends on a character only through its      *)
(* class, so the input is any sequence of classes, of any length.          *)
(***************************************************************************)
EXTENDS Integers

CONSTANT MaxContent   \* bound: the largest Content-Length a client announces

ASSUME RequestParsersAssumption == MaxContent \in Nat

\* The characters the code names, and one class for each kind of the others:
\* "letter" for an HTTP token character, "special" for a tspecial, "ctl" for a
\* control character, "high" for a char outside 0..127.
Chars == {"H", "T", "P", "/", ".", "digit", "SP", "HT", "CR", "LF", ":",
          "letter", "special", "ctl", "high"}

\* is_char, is_ctl, is_tspecial.
IsChar == Chars \ {"high"}
IsCtl == {"HT", "CR", "LF", "ctl"}
IsTspecial == {"/", ":", "SP", "HT", "special"}

TokenChars == (IsChar \ IsCtl) \ IsTspecial
NoCtl == Chars \ IsCtl

VARIABLES
  state,      \* server 1: state_
  verdict1,   \* server 1: what consume() returned last
  headers1,   \* server 1: !req.headers.empty()
  point,      \* server 3: where the coroutine resumes, as a state of server 1
  verdict3,   \* server 3: what consume() returned last
  headers3,   \* server 3: !req.headers.empty()
  left,       \* server 3: content_length_ - req.content.size()
  blank,      \* history: how much of CR LF CR LF server 1's input ends with
  odd         \* history: what is unusual in the request of server 1

vars == <<state, verdict1, headers1, point, verdict3, headers3, left, blank, odd>>

Verdicts == {"indeterminate", "true", "false"}

-----------------------------------------------------------------------------
(* What the states of both parsers have in common: from a state, the       *)
(* classes of characters that lead to each next one.  A character that no  *)
(* entry of the row names is refused.                                      *)

\* A state that wants one character.
Expect(c, next) == {<<{c}, next>>}

RequestLineEnd ==
  [http_version_h           |-> Expect("H", "http_version_t_1"),
   http_version_t_1         |-> Expect("T", "http_version_t_2"),
   http_version_t_2         |-> Expect("T", "http_version_p"),
   http_version_p           |-> Expect("P", "http_version_slash"),
   http_version_slash       |-> Expect("/", "http_version_major_start"),
   http_version_major_start |-> Expect("digit", "http_version_major"),
   http_version_major       |-> Expect(".", "http_version_minor_start")
                                  \cup Expect("digit", "http_version_major"),
   http_version_minor_start |-> Expect("digit", "http_version_minor"),
   http_version_minor       |-> Expect("CR", "expecting_newline_1")
                                  \cup Expect("digit", "http_version_minor"),
   expecting_newline_1      |-> Expect("LF", "header_line_start")]

-----------------------------------------------------------------------------
(* Server 1: consume().  Before a definition, the faults a change of the   *)
(* code might bring, to try the properties with.                           *)

\* Fault: a control character is not refused in the value of a header.
ValueCharsWithCtl == Chars \ {"CR"}

\* What header_value takes, besides the CR that ends it.
ValueChars1 == NoCtl

\* A line that starts with white space continues the value of the last header.
Continuation(hasHeaders) ==
  IF hasHeaders THEN {<<{"SP", "HT"}, "header_lws">>} ELSE {}

\* Fault: the newline after the first header line is taken for the blank line.
HeadersEndEarly == Expect("LF", "expecting_newline_3")

\* expecting_newline_2, the end of a header line.
HeaderLineEnd == Expect("LF", "header_line_start")

Row1(s, hasHeaders) ==
  CASE s = "method_start" -> {<<TokenChars, "method">>}
    [] s = "method" -> Expect("SP", "uri") \cup {<<TokenChars, "method">>}
    [] s = "uri" -> Expect("SP", "http_version_h") \cup {<<NoCtl \ {"SP"}, "uri">>}
    [] s = "header_line_start" ->
         Expect("CR", "expecting_newline_3") \cup Continuation(hasHeaders)
           \cup {<<TokenChars, "header_name">>}
    [] s = "header_lws" ->
         Expect("CR", "expecting_newline_2") \cup {<<{"SP", "HT"}, "header_lws">>}
           \cup {<<NoCtl \ {"SP"}, "header_value">>}
    [] s = "header_name" ->
         Expect(":", "space_before_header_value") \cup {<<TokenChars, "header_name">>}
    [] s = "space_before_header_value" -> Expect("SP", "header_value")
    [] s = "header_value" ->
         Expect("CR", "expecting_newline_2") \cup {<<ValueChars1, "header_value">>}
    [] s = "expecting_newline_2" -> HeaderLineEnd
    [] s = "expecting_newline_3" -> {}
    [] OTHER -> RequestLineEnd[s]

\* The character that leads from s to next is stored in a field of the request.
Stored(s, next) ==
  \/ next \in {"method", "header_name"}
  \/ next = "uri" /\ s = "uri"
  \/ next = "header_value" /\ s # "space_before_header_value"

\* What the character makes unusual in the request.
OddAfter(s, c, next) ==
  (IF s = "method" /\ next = "uri" THEN {"empty uri"}
   ELSE IF s = "uri" /\ next = "uri" THEN odd \ {"empty uri"} ELSE odd)
  \cup (IF Stored(s, next) /\ c \in IsCtl THEN {"control character"} ELSE {})
  \cup (IF next = "header_value" /\ c = "high" THEN {"high in a value"} ELSE {})

\* How much of CR LF CR LF the input ends with, with one more character.
BlankAfter(c) ==
  CASE c = "CR" -> IF blank = 2 THEN 3 ELSE 1
    [] c = "LF" -> IF blank \in {1, 3} THEN blank + 1 ELSE 0
    [] OTHER -> 0

Consume1(c) ==
  IF verdict1 # "indeterminate" THEN UNCHANGED <<state, verdict1, headers1, blank, odd>>
  ELSE
    /\ blank' = BlankAfter(c)
    /\ \/ \E entry \in Row1(state, headers1) :
            /\ c \in entry[1]
            /\ state' = entry[2]
            /\ headers1' = (headers1 \/ entry[2] = "header_name")
            /\ odd' = OddAfter(state, c, entry[2])
            /\ UNCHANGED verdict1
       \/ /\ \A entry \in Row1(state, headers1) : c \notin entry[1]
          /\ verdict1' = IF state = "expecting_newline_3" /\ c = "LF"
                         THEN "true" ELSE "false"
          /\ UNCHANGED <<state, headers1, odd>>

-----------------------------------------------------------------------------
(* Server 3: the coroutine.  A point is named as the state of server 1     *)
(* that waits for the same character; "uri_start" and "content" have none. *)

\* Fault: only the CR that ends the value is looked for.
UncheckedValueChars3 == Chars \ {"CR"}

\* The loop over the value, besides the CR that ends it.
ValueChars3 == IsChar \ IsCtl

Row3(p, hasHeaders) ==
  CASE p = "method_start" -> {<<TokenChars, "method">>}
    [] p = "method" -> {<<TokenChars, "method">>} \cup Expect("SP", "uri_start")
    [] p = "uri_start" -> {<<NoCtl \ {"SP"}, "uri">>}
    [] p = "uri" -> {<<NoCtl \ {"SP"}, "uri">>} \cup Expect("SP", "http_version_h")
    [] p = "header_line_start" ->
         (IF hasHeaders THEN {<<{"SP", "HT"}, "header_lws">>} ELSE {})
           \cup {<<TokenChars, "header_name">>} \cup Expect("CR", "expecting_newline_3")
    [] p = "header_lws" ->
         {<<{"SP", "HT"}, "header_lws">>} \cup {<<ValueChars3 \ {"SP"}, "header_value">>}
           \cup Expect("CR", "expecting_newline_2")
    [] p = "header_name" ->
         {<<TokenChars, "header_name">>} \cup Expect(":", "space_before_header_value")
    [] p = "space_before_header_value" -> Expect("SP", "header_value")
    [] p = "header_value" ->
         {<<ValueChars3, "header_value">>} \cup Expect("CR", "expecting_newline_2")
    [] p = "expecting_newline_2" -> Expect("LF", "header_line_start")
    [] p \in {"expecting_newline_3", "content"} -> {}
    [] OTHER -> RequestLineEnd[p]

\* The loop over the content is left.
ContentRead(n) == n = 0

\* The content is n characters short: go on, or the request is complete.
Content(n) ==
  /\ left' = n
  /\ point' = "content"
  /\ verdict3' = IF ContentRead(n) THEN "true" ELSE "indeterminate"

\* The end of the headers.  Only a header can be a Content-Length, and its value
\* may be no number.
HeadersEnd ==
  \/ Content(0)
  \/ headers3 /\ \E n \in 1..MaxContent : Content(n)
  \/ headers3 /\ verdict3' = "false" /\ UNCHANGED <<point, left>>

Consume3(c) ==
  IF verdict3 # "indeterminate" THEN UNCHANGED <<point, verdict3, headers3, left>>
  ELSE
    \/ /\ \E entry \in Row3(point, headers3) :
            /\ c \in entry[1]
            /\ point' = entry[2]
            /\ headers3' = (headers3 \/ entry[2] = "header_name")
       /\ UNCHANGED <<verdict3, left>>
    \/ /\ point = "expecting_newline_3" /\ c = "LF"
       /\ HeadersEnd
       /\ UNCHANGED headers3
    \/ /\ point = "content"
       /\ Content(left - 1)
       /\ UNCHANGED headers3
    \/ /\ \A entry \in Row3(point, headers3) : c \notin entry[1]
       /\ point # "content"
       /\ ~(point = "expecting_newline_3" /\ c = "LF")
       /\ verdict3' = "false"
       /\ UNCHANGED <<point, headers3, left>>

-----------------------------------------------------------------------------
Init ==
  /\ state = "method_start" /\ verdict1 = "indeterminate" /\ headers1 = FALSE
  /\ point = "method_start" /\ verdict3 = "indeterminate" /\ headers3 = FALSE
  /\ left = 0
  /\ blank = 0
  /\ odd = {}

\* The client sends one more character.
Next ==
  /\ verdict1 = "indeterminate" \/ verdict3 = "indeterminate"
  /\ \E c \in Chars : Consume1(c) /\ Consume3(c)

Spec == Init /\ [][Next]_vars

States ==
  {"method_start", "method", "uri", "header_line_start", "header_lws",
   "header_name", "space_before_header_value", "header_value",
   "expecting_newline_2", "expecting_newline_3"} \cup DOMAIN RequestLineEnd

-----------------------------------------------------------------------------
(* Safety.                                                                 *)

TypeOK ==
  /\ state \in States
  /\ point \in States \cup {"uri_start", "content"}
  /\ verdict1 \in Verdicts /\ verdict3 \in Verdicts
  /\ headers1 \in BOOLEAN /\ headers3 \in BOOLEAN
  /\ left \in 0..MaxContent
  /\ blank \in 0..4
  /\ odd \subseteq {"empty uri", "control character", "high in a value"}

\* req.headers.back(), whose behaviour is undefined on an empty vector, is only
\* reached with a header: a continuation line first would be the way to it.
LastHeaderExists ==
  LET inHeader == {"header_lws", "header_name", "space_before_header_value",
                   "header_value", "expecting_newline_2"}
  IN  (state \in inHeader => headers1) /\ (point \in inHeader => headers3)

\* No control character, and so no line end, gets into the method, the URI or a
\* header, by whichever of the paths that store a character.
NoControlCharacterStored == "control character" \notin odd

\* Every character is stored in a field that exists, and none that could end a line.
FieldsAreSound == TypeOK /\ LastHeaderExists /\ NoControlCharacterStored

\* A request ends at its first blank line: no parser says true, or starts with
\* the content, before CR LF CR LF, and none goes on behind it, but for the
\* coroutine of server 3, which takes content exactly as long as some is missing.
EndsAtBlankLine ==
  /\ verdict1 = "true" => blank = 4
  /\ verdict1 = "indeterminate" => blank < 4
  /\ point = "content" => blank = 4
  /\ left > 0 <=> point = "content" /\ verdict3 = "indeterminate"

\* The rewritten parser never takes what the old one refuses, and as long as both
\* read they wait for the same character.
NewParserIsStricter ==
  /\ verdict1 = "false" => verdict3 = "false"
  /\ verdict3 # "false" /\ point # "content" =>
       /\ verdict1 = "indeterminate"
       /\ state = IF point = "uri_start" THEN "uri" ELSE point
  /\ point = "content" => verdict1 = "true"

\* It refuses more for three reasons only: an empty URI, a header value with a
\* char outside 0..127, and a Content-Length that is no number.
KnownDifferences ==
  verdict3 = "false" /\ verdict1 # "false" =>
    \/ odd \cap {"empty uri", "high in a value"} # {}
    \/ verdict1 = "true" /\ headers3

\* The two parsers agree on every request but for these differences.
ParsersAgree == NewParserIsStricter /\ KnownDifferences
=============================================================================
