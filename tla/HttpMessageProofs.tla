------------------------- MODULE HttpMessageProofs -------------------------
(***************************************************************************)
(* Theorems about the way of a request and its answer: RequestParsers, for *)
(* any input and any bound on the content; after them RequestHandler, for  *)
(* any characters and any length of the URI; and then HttpClient, for      *)
(* responses of any length, in whatever pieces they come.                  *)
(***************************************************************************)
EXTENDS RequestParsers, RequestHandler, HttpClient,
        SequenceTheorems, WellFoundedInduction, TLAPS

-----------------------------------------------------------------------------
(* The inductive invariant of the parsers.                                 *)

\* How much of CR LF CR LF a parser that waits in s has behind it.
BlankIn(s) ==
  CASE s \in {"expecting_newline_1", "expecting_newline_2"} -> 1
    [] s = "header_line_start" -> 2
    [] s = "expecting_newline_3" -> 3
    [] OTHER -> 0

\* The state of server 1 that waits for what the coroutine waits for at p.
StateAt(p) == IF p = "uri_start" THEN "uri" ELSE p

\* The state of server 1 says how much of a blank line it has read.
BlankInStep == verdict1 = "indeterminate" => blank = BlankIn(state)

\* As long as server 3 refuses nothing, both parsers have the same headers, and
\* no character of the URI has come while it waits for the first.
RequestInStep ==
  verdict3 # "false" =>
    /\ headers1 = headers3
    /\ point = "uri_start" => "empty uri" \in odd

\* Server 3 says true only about a content that is complete.
TrueAtTheEnd == verdict3 = "true" => point = "content"

\* What makes the request unusual stays so: when server 3 alone has refused it, the
\* URI is over.
OddForGood ==
  verdict3 = "false" /\ verdict1 = "indeterminate" =>
    state \notin {"method_start", "method", "uri"}

\* The states in which there is a header to go on with.
InHeader == {"header_lws", "header_name", "space_before_header_value",
             "header_value", "expecting_newline_2"}

\* The points of the coroutine.
Points == States \cup {"uri_start", "content"}

\* The invariant of server 1 alone.
IInv1 ==
  /\ state \in States /\ verdict1 \in Verdicts /\ headers1 \in BOOLEAN
  /\ blank \in 0..4
  /\ odd \subseteq {"empty uri", "high in a value"}
  /\ state \in InHeader => headers1
  /\ BlankInStep
  /\ verdict1 = "true" => blank = 4
  /\ verdict1 = "indeterminate" => blank < 4

\* The invariant of server 3 alone.
IInv3 ==
  /\ point \in Points /\ verdict3 \in Verdicts /\ headers3 \in BOOLEAN
  /\ left \in 0..MaxContent
  /\ point \in InHeader => headers3
  /\ left > 0 <=> point = "content" /\ verdict3 = "indeterminate"
  /\ TrueAtTheEnd

\* What relates them.
IInvBoth ==
  /\ RequestInStep
  /\ point = "content" => blank = 4
  /\ NewParserIsStricter
  /\ OddForGood
  /\ KnownDifferences

\* The inductive invariant.
IInv == IInv1 /\ IInv3 /\ IInvBoth

-----------------------------------------------------------------------------
(* The tables.                                                             *)

\* From s, the character c leads server 1, or server 3, to t.
Goes1(s, h, c, t) == \E entry \in Row1(s, h) : c \in entry[1] /\ t = entry[2]
Goes3(p, h, c, t) == \E entry \in Row3(p, h) : c \in entry[1] /\ t = entry[2]

\* How much of CR LF CR LF the input ends with, when it ended with b of it before c.
BlankWith(b, c) ==
  CASE c = "CR" -> IF b = 2 THEN 3 ELSE 1
    [] c = "LF" -> IF b \in {1, 3} THEN b + 1 ELSE 0
    [] OTHER -> 0

\* What a row of server 1 says: the next state is one, it is within a header only
\* when there is one, a control character is not stored, and the states count the
\* blank line right.
LEMMA RowsOf1 ==
  ASSUME NEW s \in States, NEW h \in BOOLEAN, NEW c \in Chars, NEW t, Goes1(s, h, c, t)
  PROVE  /\ t \in States
         /\ (s \in InHeader => h) => (t \in InHeader => h \/ t = "header_name")
         /\ Stored(s, t) => c \notin IsCtl
         /\ BlankIn(t) = BlankWith(BlankIn(s), c)
         /\ t \in {"method_start", "method", "uri"} => s \in {"method_start", "method", "uri"}
         /\ BlankIn(t) \in 0..3
<1>. USE DEF Goes1, Row1, Expect, Continuation, RequestLineEnd, HeaderLineEnd,
             ValueChars1, Chars, IsChar, IsCtl, IsTspecial, TokenChars, NoCtl, States
<1>1. t \in States
  OBVIOUS
<1>2. (s \in InHeader => h) => (t \in InHeader => h \/ t = "header_name")
  BY DEF InHeader
<1>3. Stored(s, t) => c \notin IsCtl
  BY DEF Stored
<1>4. BlankIn(t) = BlankWith(BlankIn(s), c)
  BY DEF BlankIn, BlankWith
<1>5. t \in {"method_start", "method", "uri"} => s \in {"method_start", "method", "uri"}
  OBVIOUS
<1>6. BlankIn(t) \in 0..3
  BY DEF BlankIn
<1>. QED  BY <1>1, <1>2, <1>3, <1>4, <1>5, <1>6

\* A row of server 1 has one entry for a character at most.
LEMMA OneWay ==
  ASSUME NEW s \in States, NEW h \in BOOLEAN, NEW c \in Chars,
         NEW t, Goes1(s, h, c, t), NEW u, Goes1(s, h, c, u)
  PROVE  t = u
<1>. USE DEF Goes1, Row1, Expect, Continuation, RequestLineEnd, HeaderLineEnd,
             ValueChars1, Chars, IsChar, IsCtl, IsTspecial, TokenChars, NoCtl, States
<1>. QED OBVIOUS

\* The points at which server 3 waits for something else than the version.
OtherPoints ==
  {"method_start", "method", "uri_start", "uri", "header_line_start", "header_lws",
   "header_name", "space_before_header_value", "header_value",
   "expecting_newline_2", "expecting_newline_3", "content"}

\* The coroutine waits for the version, or at one of the other points.
LEMMA PointCases ==
  ASSUME NEW p \in Points PROVE p \in DOMAIN RequestLineEnd \/ p \in OtherPoints
BY DEF Points, States, OtherPoints

\* In the states of the request line both parsers do the same.
LEMMA SameRequestLine ==
  ASSUME NEW p \in DOMAIN RequestLineEnd, NEW h \in BOOLEAN
  PROVE  /\ Row1(p, h) = RequestLineEnd[p]
         /\ Row3(p, h) = RequestLineEnd[p]
         /\ p \notin InHeader /\ StateAt(p) = p /\ p # "content"
         /\ \A entry \in RequestLineEnd[p] :
              /\ entry[2] \in States \ InHeader
              /\ StateAt(entry[2]) = entry[2]
BY DEF Row1, Row3, RequestLineEnd, Expect, StateAt, InHeader, States

\* An entry of a row that takes the character is a way to go on.
LEMMA EntryTaken ==
  ASSUME NEW row, NEW C, NEW t, NEW c \in C, <<C, t>> \in row
  PROVE  \E entry \in row : c \in entry[1] /\ t = entry[2]
<1>. c \in <<C, t>>[1] /\ t = <<C, t>>[2]
  OBVIOUS
<1>. QED  OBVIOUS

\* What a row of server 3 says: the next point is one, within a header only when there
\* is one, and server 1 goes the same way from the state that it corresponds to.
LEMMA RowsOf3 ==
  ASSUME NEW p \in Points, NEW h \in BOOLEAN, NEW c \in Chars, NEW t, Goes3(p, h, c, t)
  PROVE  /\ t \in Points /\ t # "content" /\ p # "content"
         /\ (p \in InHeader => h) => (t \in InHeader => h \/ t = "header_name")
         /\ Goes1(StateAt(p), h, c, StateAt(t))
         /\ t # "uri_start" \/ p = "method"
<1>1. CASE p \in DOMAIN RequestLineEnd
  <2>1. PICK entry \in RequestLineEnd[p] : c \in entry[1] /\ t = entry[2]
    BY <1>1, SameRequestLine DEF Goes3
  <2>2. Goes1(p, h, c, t)
    BY <1>1, <2>1, SameRequestLine DEF Goes1
  <2>3. t \in States \ InHeader /\ StateAt(t) = t /\ StateAt(p) = p /\ p # "content"
    BY <1>1, <2>1, SameRequestLine
  <2>4. t # "uri_start" /\ t # "content"
    BY <2>3 DEF States, RequestLineEnd
  <2>. QED  BY <2>2, <2>3, <2>4 DEF Points
<1>2. CASE p \in OtherPoints
  <2>1. t \in OtherPoints \cup {"http_version_h"} /\ t # "content" /\ p # "content"
    BY <1>2 DEF Goes3, Row3, Expect, OtherPoints
  <2>2. (p \in InHeader => h) => (t \in InHeader => h \/ t = "header_name")
    BY <1>2 DEF Goes3, Row3, Expect, OtherPoints, InHeader
  <2>3. t # "uri_start" \/ p = "method"
    BY <1>2 DEF Goes3, Row3, Expect, OtherPoints
  <2>4. Goes1(StateAt(p), h, c, StateAt(t))
    <3>1. PICK entry \in Row3(p, h) : c \in entry[1] /\ t = entry[2]
      BY DEF Goes3
    <3>2. CASE p = "method"
      <4>1. /\ Row3(p, h) = {<<TokenChars, "method">>} \cup {<<{"SP"}, "uri_start">>}
            /\ <<TokenChars, "method">> \in Row1("method", h)
            /\ <<{"SP"}, "uri">> \in Row1("method", h)
        BY <3>2 DEF Row1, Row3, Expect
      <4>2. CASE entry = <<TokenChars, "method">>
        BY <3>1, <3>2, <4>1, <4>2, EntryTaken DEF Goes1, StateAt
      <4>3. CASE entry = <<{"SP"}, "uri_start">>
        BY <3>1, <3>2, <4>1, <4>3, EntryTaken DEF Goes1, StateAt
      <4>. QED  BY <4>1, <4>2, <4>3
    <3>3. CASE p = "header_lws"
      <4>1. /\ Row3(p, h) = {<<{"SP", "HT"}, "header_lws">>}
                              \cup {<<ValueChars3 \ {"SP"}, "header_value">>}
                              \cup {<<{"CR"}, "expecting_newline_2">>}
            /\ <<{"SP", "HT"}, "header_lws">> \in Row1("header_lws", h)
            /\ <<NoCtl \ {"SP"}, "header_value">> \in Row1("header_lws", h)
            /\ <<{"CR"}, "expecting_newline_2">> \in Row1("header_lws", h)
        BY <3>3 DEF Row1, Row3, Expect
      <4>2. CASE entry = <<{"SP", "HT"}, "header_lws">>
        BY <3>1, <3>3, <4>1, <4>2, EntryTaken DEF Goes1, StateAt
      <4>3. CASE entry = <<{"CR"}, "expecting_newline_2">>
        BY <3>1, <3>3, <4>1, <4>3, EntryTaken DEF Goes1, StateAt
      <4>4. CASE entry = <<ValueChars3 \ {"SP"}, "header_value">>
        <5>1. c \in NoCtl \ {"SP"} /\ t = "header_value"
          BY <3>1, <4>4 DEF ValueChars3, NoCtl, IsChar
        <5>. QED  BY <3>3, <4>1, <5>1, EntryTaken DEF Goes1, StateAt
      <4>. QED  BY <3>1, <4>1, <4>2, <4>3, <4>4
    <3>4. CASE p = "header_value"
      <4>1. /\ Row3(p, h) = {<<ValueChars3, "header_value">>}
                              \cup {<<{"CR"}, "expecting_newline_2">>}
            /\ <<NoCtl, "header_value">> \in Row1("header_value", h)
            /\ <<{"CR"}, "expecting_newline_2">> \in Row1("header_value", h)
        BY <3>4 DEF Row1, Row3, Expect, ValueChars1
      <4>2. CASE entry = <<{"CR"}, "expecting_newline_2">>
        BY <3>1, <3>4, <4>1, <4>2, EntryTaken DEF Goes1, StateAt
      <4>3. CASE entry = <<ValueChars3, "header_value">>
        <5>1. c \in NoCtl /\ t = "header_value"
          BY <3>1, <4>3 DEF ValueChars3, NoCtl, IsChar
        <5>. QED  BY <3>4, <4>1, <5>1, EntryTaken DEF Goes1, StateAt
      <4>. QED  BY <3>1, <4>1, <4>2, <4>3
    <3>5. CASE p \in OtherPoints \ {"method", "header_lws", "header_value"}
      BY <3>1, <3>5 DEF Row3, Expect, Continuation, HeaderLineEnd, Goes1, Row1, StateAt, OtherPoints
    <3>. QED  BY <1>2, <3>2, <3>3, <3>4, <3>5
  <2>. QED  BY <2>1, <2>2, <2>3, <2>4 DEF Points, States, OtherPoints, RequestLineEnd
<1>. QED  BY <1>1, <1>2, PointCases

\* Server 3 refuses a character that server 1 takes for two reasons only: there is no
\* URI, or the value of a header has a char outside 0..127.
LEMMA OnlyIn1 ==
  ASSUME NEW p \in Points, p # "content", NEW h \in BOOLEAN, NEW c \in Chars, NEW t,
         Goes1(StateAt(p), h, c, t), \A u : ~Goes3(p, h, c, u)
  PROVE  \/ p = "uri_start" /\ t = "http_version_h"
         \/ t = "header_value" /\ c = "high"
<1>1. PICK entry \in Row1(StateAt(p), h) : c \in entry[1] /\ t = entry[2]
  BY DEF Goes1
<1>2. ASSUME NEW C, NEW u, <<C, u>> \in Row3(p, h), c \in C PROVE FALSE
  BY <1>2, EntryTaken DEF Goes3
<1>3. CASE p \in DOMAIN RequestLineEnd
  BY <1>1, <1>3, SameRequestLine DEF Goes3
<1>4. CASE p = "method"
  <2>1. /\ Row1(StateAt(p), h) = {<<{"SP"}, "uri">>} \cup {<<TokenChars, "method">>}
        /\ <<{"SP"}, "uri_start">> \in Row3(p, h)
        /\ <<TokenChars, "method">> \in Row3(p, h)
    BY <1>4 DEF Row1, Row3, Expect, StateAt
  <2>2. entry[1] = {"SP"} \/ entry[1] = TokenChars
    BY <2>1
  <2>. QED  BY <1>1, <1>2, <2>1, <2>2
<1>5. CASE p = "header_lws"
  <2>1. /\ Row1(StateAt(p), h) = {<<{"CR"}, "expecting_newline_2">>}
                                   \cup {<<{"SP", "HT"}, "header_lws">>}
                                   \cup {<<NoCtl \ {"SP"}, "header_value">>}
        /\ <<{"CR"}, "expecting_newline_2">> \in Row3(p, h)
        /\ <<{"SP", "HT"}, "header_lws">> \in Row3(p, h)
        /\ <<ValueChars3 \ {"SP"}, "header_value">> \in Row3(p, h)
    BY <1>5 DEF Row1, Row3, Expect, StateAt
  <2>2. c \notin {"CR"} /\ c \notin {"SP", "HT"} /\ c \notin ValueChars3 \ {"SP"}
    BY <1>2, <2>1
  <2>3. entry = <<NoCtl \ {"SP"}, "header_value">>
    BY <1>1, <2>1, <2>2
  <2>. QED  BY <1>1, <2>2, <2>3 DEF NoCtl, ValueChars3, IsChar
<1>6. CASE p = "header_value"
  <2>1. /\ Row1(StateAt(p), h) = {<<{"CR"}, "expecting_newline_2">>}
                                   \cup {<<NoCtl, "header_value">>}
        /\ <<{"CR"}, "expecting_newline_2">> \in Row3(p, h)
        /\ <<ValueChars3, "header_value">> \in Row3(p, h)
    BY <1>6 DEF Row1, Row3, Expect, StateAt, ValueChars1
  <2>2. c \notin {"CR"} /\ c \notin ValueChars3
    BY <1>2, <2>1
  <2>3. entry = <<NoCtl, "header_value">>
    BY <1>1, <2>1, <2>2
  <2>. QED  BY <1>1, <2>2, <2>3 DEF NoCtl, ValueChars3, IsChar
<1>7. CASE p \in OtherPoints \ {"method", "header_lws", "header_value"}
  BY <1>1, <1>2, <1>7 DEF Row3, Expect, Continuation, HeaderLineEnd, Goes1, Row1, StateAt, OtherPoints
<1>. QED  BY <1>3, <1>4, <1>5, <1>6, <1>7, PointCases DEF OtherPoints

-----------------------------------------------------------------------------
(* What a character does.                                                  *)

\* Server 1 goes on where its row says, or refuses what its row does not name.
LEMMA Reads1 ==
  ASSUME NEW c \in Chars, Consume1(c), verdict1 = "indeterminate"
  PROVE  /\ blank' = BlankWith(blank, c)
         /\ \/ /\ Goes1(state, headers1, c, state')
               /\ headers1' = (headers1 \/ state' = "header_name")
               /\ odd' = OddAfter(state, c, state')
               /\ verdict1' = verdict1
            \/ /\ \A t : ~Goes1(state, headers1, c, t)
               /\ verdict1' = IF state = "expecting_newline_3" /\ c = "LF"
                              THEN "true" ELSE "false"
               /\ UNCHANGED <<state, headers1, odd>>
BY Zenon DEF Consume1, Goes1, BlankAfter, BlankWith

\* So does server 3, which has the content to read besides.
LEMMA Reads3 ==
  ASSUME NEW c \in Chars, Consume3(c), verdict3 = "indeterminate"
  PROVE  \/ /\ Goes3(point, headers3, c, point')
            /\ headers3' = (headers3 \/ point' = "header_name")
            /\ UNCHANGED <<verdict3, left>>
         \/ point = "expecting_newline_3" /\ c = "LF" /\ HeadersEnd /\ headers3' = headers3
         \/ point = "content" /\ Content(left - 1) /\ headers3' = headers3
         \/ /\ \A t : ~Goes3(point, headers3, c, t)
            /\ point # "content" /\ ~(point = "expecting_newline_3" /\ c = "LF")
            /\ verdict3' = "false"
            /\ UNCHANGED <<point, headers3, left>>
BY Zenon DEF Consume3, Goes3

\* A character keeps the invariant of server 1.
LEMMA Step1 == ASSUME IInv1, NEW c \in Chars, Consume1(c) PROVE IInv1'
<1>1. CASE verdict1 # "indeterminate"
  BY <1>1 DEF Consume1, IInv1, BlankInStep
<1>2. CASE verdict1 = "indeterminate" /\ \E t : Goes1(state, headers1, c, t)
  <2>1. /\ Goes1(state, headers1, c, state')
        /\ headers1' = (headers1 \/ state' = "header_name")
        /\ odd' = OddAfter(state, c, state')
        /\ verdict1' = verdict1
        /\ blank' = BlankWith(blank, c)
    BY <1>2, Reads1
  <2>2. state \in States /\ headers1 \in BOOLEAN /\ blank = BlankIn(state)
    BY <1>2 DEF IInv1, BlankInStep
  <2>3. /\ state' \in States
        /\ (state \in InHeader => headers1) =>
             (state' \in InHeader => headers1 \/ state' = "header_name")
        /\ Stored(state, state') => c \notin IsCtl
        /\ BlankIn(state') = BlankWith(BlankIn(state), c)
        /\ BlankIn(state') \in 0..3
    BY <2>1, <2>2, RowsOf1
  <2>4. odd' \subseteq {"empty uri", "high in a value"}
    BY <2>1, <2>3 DEF OddAfter, IInv1
  <2>5. blank' = BlankIn(state')
    BY <2>1, <2>2, <2>3
  <2>6. headers1' \in BOOLEAN /\ (state' \in InHeader => headers1')
    BY <2>1, <2>3 DEF IInv1
  <2>7. blank' \in 0..4 /\ blank' < 4
    BY <2>3, <2>5
  <2>8. verdict1' = "indeterminate"
    BY <1>2, <2>1
  <2>. QED  BY <2>3, <2>4, <2>5, <2>6, <2>7, <2>8 DEF IInv1, BlankInStep, Verdicts
<1>3. CASE verdict1 = "indeterminate" /\ \A t : ~Goes1(state, headers1, c, t)
  <2>1. /\ verdict1' = IF state = "expecting_newline_3" /\ c = "LF" THEN "true" ELSE "false"
        /\ UNCHANGED <<state, headers1, odd>>
        /\ blank' = BlankWith(blank, c)
    BY <1>3, Reads1
  <2>2. blank = BlankIn(state)
    BY <1>3 DEF IInv1, BlankInStep
  <2>3. verdict1' = "true" => blank' = 4
    BY <2>1, <2>2 DEF BlankIn, BlankWith
  <2>4. blank' \in 0..4
    <3>1. blank \in 0..4
      BY DEF IInv1
    <3>. QED  BY <2>1, <3>1 DEF BlankWith
  <2>. QED  BY <2>1, <2>3, <2>4 DEF IInv1, BlankInStep, Verdicts
<1>. QED  BY <1>1, <1>2, <1>3

\* A content that is n characters short is announced as such, and no sooner complete.
LEMMA ContentStep ==
  ASSUME NEW n \in 0..MaxContent, Content(n)
  PROVE  /\ left' \in 0..MaxContent /\ point' = "content"
         /\ verdict3' \in {"true", "indeterminate"}
         /\ left' > 0 <=> verdict3' = "indeterminate"
BY RequestParsersAssumption DEF Content, ContentRead

\* A character keeps the invariant of server 3.
LEMMA Step3 == ASSUME IInv3, NEW c \in Chars, Consume3(c) PROVE IInv3'
<1>1. CASE verdict3 # "indeterminate"
  BY <1>1 DEF Consume3, IInv3, TrueAtTheEnd
<1>2. CASE /\ verdict3 = "indeterminate"
           /\ Goes3(point, headers3, c, point')
           /\ headers3' = (headers3 \/ point' = "header_name")
           /\ UNCHANGED <<verdict3, left>>
  <2>1. /\ point' \in Points /\ point' # "content" /\ point # "content"
        /\ (point \in InHeader => headers3) =>
             (point' \in InHeader => headers3 \/ point' = "header_name")
    BY <1>2, RowsOf3 DEF IInv3
  <2>. QED  BY <1>2, <2>1 DEF IInv3, TrueAtTheEnd
<1>3. CASE /\ verdict3 = "indeterminate" /\ headers3' = headers3
           /\ \E n \in 0..MaxContent : Content(n)
  BY <1>3, ContentStep DEF IInv3, TrueAtTheEnd, Points, InHeader, Verdicts
<1>4. CASE /\ verdict3 = "indeterminate" /\ verdict3' = "false"
           /\ point # "content"
           /\ UNCHANGED <<point, headers3, left>>
  BY <1>4 DEF IInv3, TrueAtTheEnd, Verdicts
<1>5. ASSUME verdict3 = "indeterminate", point = "expecting_newline_3", HeadersEnd
      PROVE  \/ \E n \in 0..MaxContent : Content(n)
             \/ headers3 /\ verdict3' = "false" /\ UNCHANGED <<point, left>>
  BY <1>5, RequestParsersAssumption DEF HeadersEnd
<1>6. ASSUME verdict3 = "indeterminate", point = "content"
      PROVE  left - 1 \in 0..MaxContent
  BY <1>6, RequestParsersAssumption DEF IInv3
<1>7. CASE verdict3 = "indeterminate"
  BY <1>7, <1>2, <1>3, <1>4, <1>5, <1>6, Reads3
<1>. QED  BY <1>1, <1>7

\* A character that both parsers take.
LEMMA BothTake ==
  ASSUME IInv, NEW c \in Chars, Consume1(c), verdict1 = "indeterminate",
         verdict3 # "false", point # "content",
         Goes3(point, headers3, c, point'), headers3' = (headers3 \/ point' = "header_name"),
         verdict3' = verdict3
  PROVE  IInvBoth'
<1>1. /\ state = StateAt(point) /\ headers1 = headers3
      /\ state \in States /\ headers1 \in BOOLEAN /\ point \in Points
  BY DEF IInv, IInv1, IInv3, IInvBoth, NewParserIsStricter, RequestInStep, StateAt
<1>2. /\ Goes1(state, headers1, c, StateAt(point'))
      /\ point' # "content"
      /\ point' # "uri_start" \/ point = "method"
  BY <1>1, RowsOf3
<1>3. /\ Goes1(state, headers1, c, state')
      /\ headers1' = (headers1 \/ state' = "header_name")
      /\ odd' = OddAfter(state, c, state')
      /\ verdict1' = verdict1
  BY <1>2, Reads1
<1>4. state' = StateAt(point')
  BY <1>1, <1>2, <1>3, OneWay
<1>5. headers1' = headers3'
  BY <1>1, <1>3, <1>4 DEF StateAt
<1>6. ASSUME point' = "uri_start" PROVE "empty uri" \in odd'
  BY <1>1, <1>2, <1>3, <1>4, <1>6 DEF StateAt, OddAfter
<1>. QED  BY <1>2, <1>3, <1>4, <1>5, <1>6
          DEF IInvBoth, RequestInStep, NewParserIsStricter, StateAt, OddForGood, KnownDifferences

\* The newline that ends the blank line, where both parsers wait for it.
LEMMA BothEnd ==
  ASSUME IInv, NEW c \in Chars, Consume1(c), verdict1 = "indeterminate",
         verdict3 # "false", point = "expecting_newline_3", c = "LF", HeadersEnd,
         headers3' = headers3
  PROVE  IInvBoth'
<1>1. state = "expecting_newline_3" /\ headers1 = headers3 /\ blank = 3
  BY DEF IInv, IInvBoth, NewParserIsStricter, RequestInStep, IInv1, BlankInStep, BlankIn
<1>2. \A t : ~Goes1(state, headers1, c, t)
  BY <1>1 DEF Goes1, Row1
<1>3. verdict1' = "true" /\ UNCHANGED <<state, headers1, odd>> /\ blank' = 4
  BY <1>1, <1>2, Reads1 DEF BlankWith
<1>4. \/ point' = "content" /\ verdict3' # "false"
      \/ verdict3' = "false" /\ headers3' /\ point' # "content"
  BY DEF HeadersEnd, Content, ContentRead
<1>. QED  BY <1>1, <1>3, <1>4
          DEF IInvBoth, RequestInStep, NewParserIsStricter, OddForGood, KnownDifferences

\* A character that server 3 refuses, while both read.
LEMMA NewRefuses ==
  ASSUME IInv, NEW c \in Chars, Consume1(c), verdict1 = "indeterminate",
         verdict3 # "false", point # "content",
         \A t : ~Goes3(point, headers3, c, t), ~(point = "expecting_newline_3" /\ c = "LF"),
         verdict3' = "false", point' = point
  PROVE  IInvBoth'
<1>1. /\ state = StateAt(point) /\ headers1 = headers3
      /\ state \in States /\ headers1 \in BOOLEAN /\ point \in Points
  BY DEF IInv, IInv1, IInv3, IInvBoth, NewParserIsStricter, RequestInStep, StateAt
<1>2. CASE /\ Goes1(state, headers1, c, state')
           /\ odd' = OddAfter(state, c, state')
           /\ verdict1' = verdict1
  <2>1. \/ point = "uri_start" /\ state' = "http_version_h"
        \/ state' = "header_value" /\ c = "high"
    BY <1>1, <1>2, OnlyIn1
  <2>2. odd' \cap {"empty uri", "high in a value"} # {}
    <3>1. CASE point = "uri_start" /\ state' = "http_version_h"
      <4>1. "empty uri" \in odd /\ state = "uri"
        BY <1>1, <3>1 DEF IInv, IInvBoth, RequestInStep, StateAt
      <4>. QED  BY <1>2, <3>1, <4>1 DEF OddAfter
    <3>2. CASE state' = "header_value" /\ c = "high"
      BY <1>2, <3>2 DEF OddAfter
    <3>. QED  BY <2>1, <3>1, <3>2
  <2>. QED  BY <1>2, <2>1, <2>2
            DEF IInvBoth, RequestInStep, NewParserIsStricter, OddForGood, KnownDifferences
<1>3. CASE /\ verdict1' = IF state = "expecting_newline_3" /\ c = "LF" THEN "true" ELSE "false"
  <2>1. verdict1' = "false"
    BY <1>1, <1>3 DEF StateAt
  <2>. QED  BY <2>1
            DEF IInvBoth, RequestInStep, NewParserIsStricter, OddForGood, KnownDifferences
<1>. QED  BY <1>2, <1>3, Reads1

\* A character that only server 1 still reads.
LEMMA OldReads ==
  ASSUME IInv, NEW c \in Chars, Consume1(c), verdict1 = "indeterminate",
         verdict3 = "false", UNCHANGED <<point, verdict3, headers3>>
  PROVE  IInvBoth'
<1>1. /\ state \in States \ {"method_start", "method", "uri"} /\ headers1 \in BOOLEAN
      /\ odd \cap {"empty uri", "high in a value"} # {}
      /\ point # "content"
  BY DEF IInv, IInv1, IInvBoth, OddForGood, KnownDifferences, NewParserIsStricter
<1>2. CASE /\ Goes1(state, headers1, c, state')
           /\ odd' = OddAfter(state, c, state')
  <2>1. state' \notin {"method_start", "method", "uri"}
    BY <1>1, <1>2, RowsOf1
  <2>2. odd' \cap {"empty uri", "high in a value"} # {}
    BY <1>1, <1>2 DEF OddAfter
  <2>. QED  BY <1>1, <2>1, <2>2
            DEF IInvBoth, RequestInStep, NewParserIsStricter, OddForGood, KnownDifferences
<1>3. CASE UNCHANGED <<state, odd>>
  BY <1>1, <1>3
  DEF IInvBoth, RequestInStep, NewParserIsStricter, OddForGood, KnownDifferences
<1>. QED  BY <1>2, <1>3, Reads1

\* The relation is preserved.
LEMMA StepBoth ==
  ASSUME IInv, NEW c \in Chars, Consume1(c), Consume3(c) PROVE IInvBoth'
<1>1. CASE verdict3 = "false"
  <2>1. UNCHANGED <<point, verdict3, headers3, left>>
    BY <1>1 DEF Consume3
  <2>2. CASE verdict1 = "indeterminate"
    BY <1>1, <2>1, <2>2, OldReads
  <2>3. CASE verdict1 # "indeterminate"
    BY <1>1, <2>1, <2>3 DEF Consume1, IInv, IInvBoth, RequestInStep, NewParserIsStricter,
                            OddForGood, KnownDifferences
  <2>. QED  BY <2>2, <2>3
<1>2. CASE verdict3 # "false" /\ point = "content"
  <2>1. verdict1 = "true" /\ UNCHANGED <<state, verdict1, headers1, blank, odd>>
    BY <1>2 DEF IInv, IInvBoth, NewParserIsStricter, Consume1
  <2>2. \A t : ~Goes3(point, headers3, c, t)
    BY <1>2 DEF Goes3, Row3
  <2>3. point' = "content" /\ verdict3' # "false" /\ headers3' = headers3
    BY <1>2, <2>2, Reads3 DEF Consume3, Content, ContentRead
  <2>. QED  BY <1>2, <2>1, <2>3 DEF IInv, IInvBoth, RequestInStep, NewParserIsStricter,
                                    OddForGood, KnownDifferences
<1>3. CASE verdict3 # "false" /\ point # "content"
  <2>1. verdict1 = "indeterminate" /\ verdict3 = "indeterminate"
    BY <1>3 DEF IInv, IInvBoth, NewParserIsStricter, IInv3, TrueAtTheEnd, Verdicts
  <2>. QED  BY <1>3, <2>1, Reads3, BothTake, BothEnd, NewRefuses
<1>. QED  BY <1>1, <1>2, <1>3

\* The invariant holds before the first character.
LEMMA InitIInv == Init => IInv
<1> SUFFICES ASSUME Init PROVE IInv
  OBVIOUS
<1>1. IInv1
  <2>1. "method_start" \in States /\ "method_start" \notin InHeader
    BY DEF States, InHeader
  <2>2. BlankIn("method_start") = 0
    BY DEF BlankIn
  <2>3. state \in States /\ verdict1 \in Verdicts /\ headers1 \in BOOLEAN
    BY <2>1 DEF Init, Verdicts
  <2>4. blank = 0 /\ odd = {} /\ (state \in InHeader => headers1)
    BY <2>1 DEF Init
  <2>5. BlankInStep
    BY <2>2 DEF Init, BlankInStep
  <2>6. verdict1 # "true"
    BY DEF Init
  <2>. QED  BY <2>3, <2>4, <2>5, <2>6 DEF IInv1
<1>2. 0 \in 0..MaxContent
  BY RequestParsersAssumption
<1>3. IInv3
  <2>1. "method_start" \in Points /\ "method_start" \notin InHeader
    BY DEF Points, States, InHeader
  <2>2. point \in Points /\ verdict3 \in Verdicts /\ headers3 \in BOOLEAN
    BY <2>1 DEF Init, Verdicts
  <2>3. left = 0 /\ point # "content" /\ verdict3 # "true" /\ point \notin InHeader
    BY <2>1 DEF Init
  <2>. QED  BY <1>2, <2>2, <2>3 DEF IInv3, TrueAtTheEnd
<1>4. IInvBoth
  BY DEF Init, IInvBoth, RequestInStep, NewParserIsStricter, OddForGood, KnownDifferences
<1>. QED  BY <1>1, <1>3, <1>4 DEF IInv

\* Every character keeps the invariant.
LEMMA IInvStep == IInv /\ [Next]_vars => IInv'
<1> SUFFICES ASSUME IInv, [Next]_vars PROVE IInv'
  OBVIOUS
<1>1. ASSUME NEW c \in Chars, Consume1(c), Consume3(c) PROVE IInv'
  BY <1>1, Step1, Step3, StepBoth DEF IInv
<1>2. CASE UNCHANGED vars
  BY <1>2 DEF vars, IInv, IInv1, IInv3, IInvBoth, BlankInStep,
       TrueAtTheEnd, RequestInStep, NewParserIsStricter, OddForGood, KnownDifferences
<1>. QED  BY <1>1, <1>2 DEF Next

\* The inductive invariant of the parsers holds throughout, for an input of any length.
THEOREM Invariance == Spec => []IInv
BY InitIInv, IInvStep, PTL DEF Spec

\* consume(): every character is stored in a field that exists (headers.back() is only
\* reached with a header), and no control character is stored.
THEOREM FieldsCorrect == Spec => []FieldsAreSound
<1>1. IInv => FieldsAreSound
  BY DEF IInv, IInv1, IInv3, FieldsAreSound, TypeOK, LastHeaderExists, NoControlCharacterStored,
         InHeader, Points
<1>. QED  BY <1>1, Invariance, PTL

\* consume() says true, or starts with the content, behind the first CR LF CR LF and
\* not elsewhere; the content is read exactly as long as some is missing.
THEOREM EndCorrect == Spec => []EndsAtBlankLine
<1>1. IInv => EndsAtBlankLine
  BY DEF IInv, IInv1, IInv3, IInvBoth, EndsAtBlankLine
<1>. QED  BY <1>1, Invariance, PTL

\* The parser of server 3 never takes what that of server 1 refuses, and refuses more
\* for the three known reasons only.
THEOREM ParsersCorrect == Spec => []ParsersAgree
<1>1. IInv => ParsersAgree
  BY DEF IInv, IInvBoth, ParsersAgree
<1>. QED  BY <1>1, Invariance, PTL

\* Every set of numbers that has an element has a least one.
LEMMA LeastNumber ==
  ASSUME NEW T, T \subseteq Nat, T # {}
  PROVE  \E m \in T : \A k \in T : m <= k
<1>1. PICK x \in T : \A y \in T : ~ (<<y, x>> \in OpToRel(<, Nat))
  BY NatLessThanWellFounded, WFMin
<1>2. \A k \in T : ~(k < x)
  BY <1>1 DEF OpToRel
<1>. QED  BY <1>2

\* The values of an unsigned char.
Byte == 0..255

-----------------------------------------------------------------------------
(* The meaning of a URI.                                                   *)

\* What the reference says of the URI from k on, given what f says behind it.
PartFrom(s, f, k) ==
  IF k > Len(s) THEN <<>>
  ELSE IF s[k] = Percent
  THEN <<16 * HexDigit(s[k + 1]) + HexDigit(s[k + 2])>> \o f[k + 3]
  ELSE <<IF s[k] = Plus THEN Space ELSE s[k]>> \o f[k + 1]

\* The meanings of all the ends of a URI.
Meanings(s) == CHOOSE f : f = [k \in 1..(Len(s) + 1) |-> PartFrom(s, f, k)]

\* The meaning of the URI is the one from its first character on.
LEMMA MeaningIsFirst == \A s : Meaning(s) = Meanings(s)[1]
BY DEF Meaning, Meanings, PartFrom

\* The value of two hexadecimal digits is a char.
LEMMA TwoDigits ==
  ASSUME NEW c \in Byte, NEW d \in Byte, IsHexDigit(c), IsHexDigit(d)
  PROVE  16 * HexDigit(c) + HexDigit(d) \in Byte
<1>1. HexDigit(c) \in 0..15 /\ HexDigit(d) \in 0..15
  BY DEF HexDigit, IsHexDigit, Byte
<1>. QED  BY <1>1 DEF Byte

\* The recursive definition of the reference has a solution on a well-formed URI: the
\* meaning of an end of it only uses that of shorter ends.
LEMMA MeaningsExist ==
  ASSUME NEW s \in Seq(Byte), WellFormed(s)
  PROVE  Meanings(s) = [k \in 1..(Len(s) + 1) |-> PartFrom(s, Meanings(s), k)]
<1>. DEFINE E == Len(s) + 1
            Known(n) == \E f : \A k \in (E - n)..E : f[k] = PartFrom(s, f, k)
            Unknown == {n \in 0..Len(s) : ~Known(n)}
<1>1. E \in Nat /\ Len(s) \in Nat /\ E = Len(s) + 1
  OBVIOUS
<1>2. \A k \in 1..Len(s) : s[k] = Percent => k + 2 <= Len(s)
  BY DEF WellFormed
<1>. HIDE DEF E
<1>3. Known(0)
  <2>1. \A k \in (E - 0)..E : [k1 \in {E} |-> <<>>][k] = PartFrom(s, [k1 \in {E} |-> <<>>], k)
    BY <1>1 DEF PartFrom
  <2>. QED  BY <2>1
<1>4. ASSUME NEW n \in 0..Len(s), n # 0, Known(n - 1) PROVE Known(n)
  <2>1. PICK f : \A k \in (E - (n - 1))..E : f[k] = PartFrom(s, f, k)
    BY <1>4
  <2>. DEFINE first == E - n
              g == [k \in first..E |-> IF k = first THEN PartFrom(s, f, first) ELSE f[k]]
  <2>2. first \in 1..Len(s) /\ E - (n - 1) = first + 1
    BY <1>1, <1>4
  <2>. HIDE DEF first
  <2>3. \A k \in (first + 1)..E : g[k] = f[k]
    BY <1>1, <2>2
  <2>4. g[first] = PartFrom(s, f, first)
    BY <1>1, <2>2
  <2>. HIDE DEF g
  <2>5. ASSUME NEW k \in first..E PROVE PartFrom(s, g, k) = PartFrom(s, f, k)
    <3>1. CASE k > Len(s)
      BY <3>1 DEF PartFrom
    <3>2. CASE k <= Len(s) /\ s[k] = Percent
      <4>1. k + 3 \in (first + 1)..E
        BY <1>1, <1>2, <2>2, <3>2
      <4>2. g[k + 3] = f[k + 3]
        BY <2>3, <4>1
      <4>. QED  BY <1>1, <2>2, <3>2, <4>2 DEF PartFrom
    <3>3. CASE k <= Len(s) /\ s[k] # Percent
      <4>1. k + 1 \in (first + 1)..E
        BY <1>1, <2>2, <3>3
      <4>2. g[k + 1] = f[k + 1]
        BY <2>3, <4>1
      <4>. QED  BY <1>1, <2>2, <3>3, <4>2 DEF PartFrom
    <3>. QED  BY <1>1, <2>2, <3>1, <3>2, <3>3
  <2>6. \A k \in first..E : g[k] = PartFrom(s, g, k)
    <3>1. SUFFICES ASSUME NEW k \in first..E PROVE g[k] = PartFrom(s, g, k)
      OBVIOUS
    <3>2. CASE k = first
      BY <2>4, <2>5, <3>2
    <3>3. CASE k # first
      <4>1. k \in (first + 1)..E
        BY <1>1, <2>2, <3>3
      <4>. QED  BY <2>1, <2>2, <2>3, <2>5, <4>1
    <3>. QED  BY <3>2, <3>3
  <2>. QED  BY <2>6 DEF first
<1>5. Unknown = {}
  <2>1. SUFFICES ASSUME Unknown # {} PROVE FALSE
    OBVIOUS
  <2>2. Unknown \subseteq Nat
    OBVIOUS
  <2>3. PICK m \in Unknown : \A n \in Unknown : m <= n
    BY <2>1, <2>2, LeastNumber, Zenon
  <2>4. m # 0
    BY <1>3, <2>3
  <2>5. m - 1 \in 0..Len(s) /\ ~(m <= m - 1)
    BY <2>3, <2>4
  <2>6. Known(m - 1)
    BY <2>3, <2>5
  <2>. QED  BY <1>4, <2>3, <2>4, <2>6
<1>6. Known(Len(s))
  BY <1>1, <1>5
<1>7. PICK f : \A k \in 1..E : f[k] = PartFrom(s, f, k)
  BY <1>1, <1>6
<1>. DEFINE g == [k \in 1..E |-> f[k]]
<1>8. \A k \in 1..E : g[k] = f[k]
  OBVIOUS
<1>9. ASSUME NEW k \in 1..E PROVE PartFrom(s, g, k) = PartFrom(s, f, k)
  <2>. HIDE DEF g
  <2>1. CASE k > Len(s)
    BY <2>1 DEF PartFrom
  <2>2. CASE k <= Len(s) /\ s[k] = Percent
    <3>1. k + 3 \in 1..E
      BY <1>1, <1>2, <2>2
    <3>2. g[k + 3] = f[k + 3]
      BY <1>8, <3>1
    <3>. QED  BY <1>1, <2>2, <3>2 DEF PartFrom
  <2>3. CASE k <= Len(s) /\ s[k] # Percent
    <3>1. k + 1 \in 1..E
      BY <1>1, <2>3
    <3>2. g[k + 1] = f[k + 1]
      BY <1>8, <3>1
    <3>. QED  BY <1>1, <2>3, <3>2 DEF PartFrom
  <2>. QED  BY <1>1, <2>1, <2>2, <2>3
<1>10. g = [k \in 1..E |-> PartFrom(s, g, k)]
  BY <1>7, <1>9
<1>11. g = [k \in 1..(Len(s) + 1) |-> PartFrom(s, g, k)]
  BY <1>10 DEF E
<1>. QED  BY <1>11 DEF Meanings

\* The parts of the meaning, one by one.
LEMMA MeaningsSteps ==
  ASSUME NEW s \in Seq(Byte), WellFormed(s), NEW k \in 1..Len(s)
  PROVE  /\ Meanings(s)[Len(s) + 1] = <<>>
         /\ s[k] = Percent =>
              /\ k + 3 \in 1..(Len(s) + 1)
              /\ IsHexDigit(s[k + 1]) /\ IsHexDigit(s[k + 2])
              /\ s[k + 1] \in Byte /\ s[k + 2] \in Byte
              /\ Meanings(s)[k] =
                   <<16 * HexDigit(s[k + 1]) + HexDigit(s[k + 2])>> \o Meanings(s)[k + 3]
         /\ s[k] # Percent =>
              /\ k + 1 \in 1..(Len(s) + 1)
              /\ Meanings(s)[k] = <<IF s[k] = Plus THEN Space ELSE s[k]>> \o Meanings(s)[k + 1]
<1>1. \A l \in 1..(Len(s) + 1) : Meanings(s)[l] = PartFrom(s, Meanings(s), l)
  BY MeaningsExist
<1>2. Len(s) \in Nat
  BY LenProperties
<1>3. Meanings(s)[Len(s) + 1] = <<>>
  <2>1. Len(s) + 1 \in 1..(Len(s) + 1) /\ Len(s) + 1 > Len(s)
    BY <1>2
  <2>. QED  BY <1>1, <2>1 DEF PartFrom
<1>6. k \in 1..(Len(s) + 1) /\ ~(k > Len(s))
  BY <1>2
<1>4. CASE s[k] = Percent
  <2>1. k + 2 <= Len(s) /\ IsHexDigit(s[k + 1]) /\ IsHexDigit(s[k + 2])
    BY <1>4 DEF WellFormed
  <2>2. k + 1 \in 1..Len(s) /\ k + 2 \in 1..Len(s) /\ k + 3 \in 1..(Len(s) + 1)
    BY <1>2, <2>1
  <2>3. s[k + 1] \in Byte /\ s[k + 2] \in Byte
    BY <2>2, ElementOfSeq
  <2>4. Meanings(s)[k] =
          <<16 * HexDigit(s[k + 1]) + HexDigit(s[k + 2])>> \o Meanings(s)[k + 3]
    BY <1>1, <1>4, <1>6 DEF PartFrom
  <2>. QED  BY <1>3, <1>4, <2>1, <2>2, <2>3, <2>4
<1>5. CASE s[k] # Percent
  <2>1. k + 1 \in 1..(Len(s) + 1)
    BY <1>2
  <2>2. Meanings(s)[k] = <<IF s[k] = Plus THEN Space ELSE s[k]>> \o Meanings(s)[k + 1]
    BY <1>1, <1>5, <1>6 DEF PartFrom
  <2>. QED  BY <1>3, <1>5, <2>1, <2>2
<1>. QED  BY <1>4, <1>5

\* What a character that stands for itself, or a '+', means is a char.
LEMMA OneCharacter ==
  ASSUME NEW c \in Byte PROVE (IF c = Plus THEN Space ELSE c) \in Byte
BY DEF Byte, Space

\* Every part of the meaning is a sequence of chars.
LEMMA MeaningsType ==
  ASSUME NEW s \in Seq(Byte), WellFormed(s)
  PROVE  \A k \in 1..(Len(s) + 1) : Meanings(s)[k] \in Seq(Byte)
<1>. DEFINE E == Len(s) + 1
            Bad == {n \in 0..Len(s) : Meanings(s)[E - n] \notin Seq(Byte)}
<1>1. Len(s) \in Nat /\ E \in Nat /\ E = Len(s) + 1
  BY LenProperties
<1>2. Meanings(s)[E] \in Seq(Byte)
  <2>1. E \in 1..(Len(s) + 1) /\ E > Len(s)
    BY <1>1
  <2>2. Meanings(s)[E] = <<>>
    BY <2>1, MeaningsExist DEF PartFrom
  <2>. QED  BY <2>2
<1>. HIDE DEF E
<1>3. Bad = {}
  <2>1. SUFFICES ASSUME Bad # {} PROVE FALSE
    OBVIOUS
  <2>2. Bad \subseteq Nat
    OBVIOUS
  <2>3. PICK m \in Bad : \A n \in Bad : m <= n
    BY <2>1, <2>2, LeastNumber, Zenon
  <2>. DEFINE k == E - m
  <2>4. m # 0
    BY <1>1, <1>2, <2>3
  <2>5. k \in 1..Len(s) /\ m = E - k /\ Meanings(s)[k] \notin Seq(Byte)
    BY <1>1, <2>3, <2>4
  <2>. HIDE DEF k
  <2>6. ASSUME NEW l \in (k + 1)..E PROVE Meanings(s)[l] \in Seq(Byte)
    <3>1. E - l \in 0..Len(s) /\ ~(m <= E - l) /\ E - (E - l) = l
      BY <1>1, <2>5
    <3>. QED  BY <2>3, <3>1
  <2>7. CASE s[k] = Percent
    <3>0. /\ k + 3 \in 1..(Len(s) + 1)
          /\ IsHexDigit(s[k + 1]) /\ IsHexDigit(s[k + 2])
          /\ s[k + 1] \in Byte /\ s[k + 2] \in Byte
          /\ Meanings(s)[k] =
               <<16 * HexDigit(s[k + 1]) + HexDigit(s[k + 2])>> \o Meanings(s)[k + 3]
      BY <2>5, <2>7, MeaningsSteps
    <3>1. k + 3 \in (k + 1)..E /\ 16 * HexDigit(s[k + 1]) + HexDigit(s[k + 2]) \in Byte
      BY <1>1, <2>5, <3>0, TwoDigits
    <3>2. Meanings(s)[k + 3] \in Seq(Byte)
      BY <2>6, <3>1
    <3>3. <<16 * HexDigit(s[k + 1]) + HexDigit(s[k + 2])>> \in Seq(Byte)
      BY <3>1
    <3>. QED  BY <2>5, <3>0, <3>2, <3>3, ConcatProperties
  <2>8. CASE s[k] # Percent
    <3>0. Meanings(s)[k] = <<IF s[k] = Plus THEN Space ELSE s[k]>> \o Meanings(s)[k + 1]
      BY <2>5, <2>8, MeaningsSteps
    <3>1. k + 1 \in (k + 1)..E
      BY <1>1, <2>5
    <3>2. Meanings(s)[k + 1] \in Seq(Byte)
      BY <2>6, <3>1
    <3>3. s[k] \in Byte
      BY <2>5, ElementOfSeq
    <3>4. <<IF s[k] = Plus THEN Space ELSE s[k]>> \in Seq(Byte)
      BY <3>3, OneCharacter
    <3>. QED  BY <2>5, <3>0, <3>2, <3>4, ConcatProperties
  <2>. QED  BY <2>7, <2>8
<1>4. ASSUME NEW k \in 1..E PROVE Meanings(s)[k] \in Seq(Byte)
  <2>1. E - k \in 0..Len(s) /\ E - (E - k) = k
    BY <1>1
  <2>. QED  BY <1>3, <2>1
<1>. QED  BY <1>4 DEF E

-----------------------------------------------------------------------------
(* The path.                                                               *)

\* The last place of a character in a path.
LEMMA LastPlace ==
  ASSUME NEW p \in Seq(Byte), NEW c
  PROVE  /\ LastOf(p, c) \in 0..Len(p)
         /\ LastOf(p, c) = 0 => \A k \in 1..Len(p) : p[k] # c
         /\ LastOf(p, c) > 0 => p[LastOf(p, c)] = c
         /\ \A l \in 1..Len(p) : l > LastOf(p, c) => p[l] # c
<1>1. CASE \A k \in 1..Len(p) : p[k] # c
  BY <1>1 DEF LastOf
<1>2. CASE \E k \in 1..Len(p) : p[k] = c
  <2>. DEFINE T == {n \in 0..Len(p) : n < Len(p) /\ p[Len(p) - n] = c}
              P(k) == p[k] = c /\ \A l \in (k + 1)..Len(p) : p[l] # c
  <2>1. Len(p) \in Nat
    BY LenProperties
  <2>2. PICK k \in 1..Len(p) : p[k] = c
    BY <1>2
  <2>3. Len(p) - k \in T
    <3>1. Len(p) - k \in 0..Len(p) /\ Len(p) - k < Len(p) /\ Len(p) - (Len(p) - k) = k
      BY <2>1
    <3>. QED  BY <2>2, <3>1
  <2>4. T \subseteq Nat /\ T # {}
    BY <2>3
  <2>5. PICK m \in T : \A n \in T : m <= n
    BY <2>4, LeastNumber, Zenon
  <2>. DEFINE last == Len(p) - m
  <2>6. last \in 1..Len(p) /\ p[last] = c /\ m = Len(p) - last
    BY <2>1, <2>5
  <2>. HIDE DEF last
  <2>7. ASSUME NEW l \in (last + 1)..Len(p), p[l] = c PROVE FALSE
    <3>1. Len(p) - l \in 0..Len(p) /\ Len(p) - l < Len(p) /\ Len(p) - (Len(p) - l) = l
      BY <2>1, <2>6
    <3>2. Len(p) - l \in T
      BY <2>7, <3>1
    <3>3. m <= Len(p) - l
      BY <2>5, <3>2
    <3>. QED  BY <2>1, <2>6, <3>3
  <2>8. P(last)
    BY <2>6, <2>7
  <2>9. LastOf(p, c) = CHOOSE n \in 1..Len(p) : P(n)
    BY <1>2 DEF LastOf
  <2>. HIDE DEF P
  <2>10. LastOf(p, c) \in 1..Len(p) /\ P(LastOf(p, c))
    BY <2>6, <2>8, <2>9
  <2>. QED  BY <2>1, <2>10 DEF P
<1>. QED  BY <1>1, <1>2

\* The extension holds no '/' and no '.'; and when there is one, it is what follows
\* the last '.'.
LEMMA ExtensionIs ==
  ASSUME NEW p \in Seq(Byte)
  PROVE  /\ Extension(p) \in Seq(Byte)
         /\ \A k \in 1..Len(Extension(p)) : Extension(p)[k] \notin {Slash, Dot}
         /\ \/ Extension(p) = <<>>
            \/ \E d \in 1..Len(p) :
                 /\ p[d] = Dot
                 /\ Len(Extension(p)) = Len(p) - d
                 /\ \A k \in 1..(Len(p) - d) : Extension(p)[k] = p[d + k]
<1>. DEFINE d == LastOf(p, Dot)
            e == LastOf(p, Slash)
<1>1. /\ d \in 0..Len(p) /\ e \in 0..Len(p) /\ Len(p) \in Nat
      /\ d > 0 => p[d] = Dot
      /\ \A l \in 1..Len(p) : l > d => p[l] # Dot
      /\ \A l \in 1..Len(p) : l > e => p[l] # Slash
  BY LastPlace, LenProperties
<1>2. Extension(p) = IF d > e THEN SubSeq(p, d + 1, Len(p)) ELSE <<>>
  BY DEF Extension
<1>. HIDE DEF d, e
<1>3. CASE d > e
  <2>1. /\ Extension(p) \in Seq(Byte) /\ Len(Extension(p)) = Len(p) - d
        /\ \A k \in 1..(Len(p) - d) : Extension(p)[k] = p[d + k]
    BY <1>1, <1>2, <1>3, SubSeqProperties
  <2>2. ASSUME NEW k \in 1..(Len(p) - d) PROVE Extension(p)[k] \notin {Slash, Dot}
    <3>1. d + k \in 1..Len(p) /\ d + k > d /\ d + k > e
      BY <1>1, <1>3
    <3>. QED  BY <1>1, <2>1, <3>1
  <2>3. d \in 1..Len(p) /\ p[d] = Dot
    BY <1>1, <1>3
  <2>. QED  BY <2>1, <2>2, <2>3
<1>4. CASE ~(d > e)
  BY <1>2, <1>4
<1>. QED  BY <1>3, <1>4

\* A suffix, character by character.
LEMMA SuffixIs ==
  ASSUME NEW s \in Seq(Byte), NEW t \in Seq(Byte), Len(s) <= Len(t)
  PROVE  IsSuffix(s, t) <=> \A k \in 1..Len(s) : s[k] = t[Len(t) - Len(s) + k]
<1>. DEFINE r == Reverse(s)
            q == Reverse(t)
            m == Len(s)
            n == Len(t)
<1>1. m \in Nat /\ n \in Nat /\ m <= n
  BY LenProperties
<1>2. /\ r \in Seq(Byte) /\ Len(r) = m /\ \A k \in 1..m : r[k] = s[m - k + 1]
      /\ q \in Seq(Byte) /\ Len(q) = n /\ \A k \in 1..n : q[k] = t[n - k + 1]
  <2>1. \A k \in 1..m : s[m - k + 1] \in Byte
    BY <1>1, ElementOfSeq
  <2>2. \A k \in 1..n : t[n - k + 1] \in Byte
    BY <1>1, ElementOfSeq
  <2>3. r = [k \in 1..m |-> s[m - k + 1]] /\ q = [k \in 1..n |-> t[n - k + 1]]
    BY DEF Reverse
  <2>. HIDE DEF r, q, m, n
  <2>. QED  BY <1>1, <2>1, <2>2, <2>3
<1>3. IsSuffix(s, t) <=> Len(r) <= Len(q) /\ SubSeq(r, 1, Len(r)) = SubSeq(q, 1, Len(r))
  BY DEF IsSuffix, IsPrefix
<1>. HIDE DEF r, q, m, n
<1>4. /\ SubSeq(r, 1, m) \in Seq(Byte) /\ SubSeq(q, 1, m) \in Seq(Byte)
      /\ Len(SubSeq(r, 1, m)) = m /\ Len(SubSeq(q, 1, m)) = m
      /\ \A k \in 1..m : SubSeq(r, 1, m)[k] = r[k] /\ SubSeq(q, 1, m)[k] = q[k]
  BY <1>1, <1>2, SubSeqProperties
<1>5. SubSeq(r, 1, m) = SubSeq(q, 1, m) <=> \A k \in 1..m : r[k] = q[k]
  BY <1>4, SeqEqual
<1>6. ASSUME \A k \in 1..m : r[k] = q[k], NEW k \in 1..m PROVE s[k] = t[n - m + k]
  <2>1. m - k + 1 \in 1..m /\ m - (m - k + 1) + 1 = k /\ n - (m - k + 1) + 1 = n - m + k
    BY <1>1
  <2>2. m - k + 1 \in 1..n
    BY <1>1, <2>1
  <2>. QED  BY <1>2, <1>6, <2>1, <2>2
<1>7. ASSUME \A k \in 1..m : s[k] = t[n - m + k], NEW k \in 1..m PROVE r[k] = q[k]
  <2>1. m - k + 1 \in 1..m /\ n - m + (m - k + 1) = n - k + 1 /\ k \in 1..n
    BY <1>1
  <2>2. s[m - k + 1] = t[n - m + (m - k + 1)]
    BY <1>7, <2>1
  <2>3. r[k] = s[m - k + 1] /\ q[k] = t[n - k + 1]
    BY <1>2, <2>1
  <2>. QED  BY <2>1, <2>2, <2>3
<1>8. IsSuffix(s, t) <=> \A k \in 1..m : s[k] = t[n - m + k]
  BY <1>1, <1>2, <1>3, <1>5, <1>6, <1>7
<1>. QED  BY <1>8 DEF m, n

\* index.html has neither a '/' nor two dots in a row, and its end is known.
LEMMA IndexHtmlIs ==
  /\ IndexHtml \in Seq(Byte) /\ Len(IndexHtml) = 10
  /\ \A k \in 1..10 : IndexHtml[k] # Slash
  /\ \A k \in 1..10 : IndexHtml[k] = Dot <=> k = 6
  /\ IndexHtml[7] = 104 /\ IndexHtml[8] = 116 /\ IndexHtml[9] = 109 /\ IndexHtml[10] = 108
BY DEF IndexHtml, Byte, Slash, Dot

\* What is added to a good path leaves it good.
LEMMA FullPathIsGood ==
  ASSUME NEW p \in Seq(Byte), p # <<>>, p[1] = Slash, ~HasDotDot(p)
  PROVE  /\ FullPath(p) \in Seq(Byte)
         /\ Len(FullPath(p)) <= Len(p) + 10
         /\ FullPath(p) # <<>>
         /\ FullPath(p)[1] = Slash /\ Last(FullPath(p)) # Slash
         /\ ~HasDotDot(FullPath(p))
<1>1. Len(p) \in Nat \ {0}
  BY EmptySeq
<1>2. CASE Last(p) # Slash
  BY <1>1, <1>2 DEF FullPath
<1>3. CASE Last(p) = Slash
  <2>. DEFINE q == p \o IndexHtml
              n == Len(p)
  <2>1. FullPath(p) = q
    BY <1>3 DEF FullPath
  <2>2. n \in Nat \ {0} /\ p[n] = Slash
    BY <1>1, <1>3 DEF Last
  <2>3. /\ q \in Seq(Byte) /\ Len(q) = n + 10
        /\ \A k \in 1..(n + 10) : q[k] = IF k <= n THEN p[k] ELSE IndexHtml[k - n]
    <3>1. /\ q \in Seq(Byte) /\ Len(q) = n + Len(IndexHtml)
          /\ \A k \in 1..(n + Len(IndexHtml)) :
               q[k] = IF k <= n THEN p[k] ELSE IndexHtml[k - n]
      <4>1. IndexHtml \in Seq(Byte)
        BY IndexHtmlIs
      <4>. QED  BY <4>1, ConcatProperties
    <3>2. Len(IndexHtml) = 10
      BY IndexHtmlIs
    <3>. QED  BY <3>1, <3>2
  <2>4. \A k \in 1..(n - 1) : ~(p[k] = Dot /\ p[k + 1] = Dot)
    BY DEF HasDotDot
  <2>. HIDE DEF q, n
  <2>5. q # <<>> /\ q[1] = Slash
    <3>1. 1 \in 1..(n + 10) /\ 1 <= n
      BY <2>2
    <3>2. q[1] = p[1]
      BY <2>3, <3>1
    <3>. QED  BY <2>2, <2>3, <3>2
  <2>6. Last(q) # Slash
    <3>1. n + 10 \in 1..(n + 10) /\ ~(n + 10 <= n) /\ (n + 10) - n = 10
      BY <2>2
    <3>2. q[n + 10] = IndexHtml[10]
      BY <2>3, <3>1
    <3>. QED  BY <2>3, <3>2, IndexHtmlIs DEF Last
  <2>7. ASSUME NEW k \in 1..(n + 9), q[k] = Dot, q[k + 1] = Dot PROVE FALSE
    <3>0. k \in 1..(n + 10) /\ k + 1 \in 1..(n + 10)
      BY <2>2
    <3>1. CASE k < n
      <4>1. k <= n /\ k + 1 <= n /\ k \in 1..(n - 1)
        BY <2>2, <3>1
      <4>2. q[k] = p[k] /\ q[k + 1] = p[k + 1]
        BY <2>3, <3>0, <4>1
      <4>. QED  BY <2>4, <2>7, <4>1, <4>2
    <3>2. CASE k = n
      <4>1. q[k] = p[n]
        BY <2>2, <2>3, <3>0, <3>2
      <4>. QED  BY <2>2, <2>7, <4>1 DEF Slash, Dot
    <3>3. CASE k > n
      <4>1. ~(k <= n) /\ ~(k + 1 <= n) /\ k - n \in 1..10 /\ (k + 1) - n \in 1..10
            /\ (k + 1) - n = (k - n) + 1
        BY <2>2, <3>3
      <4>2. q[k] = IndexHtml[k - n] /\ q[k + 1] = IndexHtml[(k + 1) - n]
        BY <2>3, <3>0, <4>1
      <4>3. k - n = 6 /\ (k + 1) - n = 6
        BY <2>7, <4>1, <4>2, IndexHtmlIs
      <4>. QED  BY <4>1, <4>3
    <3>. QED  BY <2>2, <3>1, <3>2, <3>3
  <2>8. ~HasDotDot(q)
    <3>1. Len(q) - 1 = n + 9
      BY <2>2, <2>3
    <3>. QED  BY <2>7, <3>1 DEF HasDotDot
  <2>9. Len(q) <= n + 10
    BY <2>2, <2>3
  <2>. QED  BY <2>1, <2>3, <2>5, <2>6, <2>8, <2>9 DEF n
<1>. QED  BY <1>2, <1>3

\* The type is that of a mapping of the extension, or "text/plain".
LEMMA TypeIsOfMapping ==
  ASSUME NEW e
  PROVE  \/ ExtensionToType(e) = "text/plain"
         \/ \E m \in Mappings : m[1] = e /\ ExtensionToType(e) = m[2]
<1>1. CASE \E m \in Mappings : m[1] = e
  <2>. DEFINE m == CHOOSE m \in Mappings : m[1] = e
  <2>1. m \in Mappings /\ m[1] = e
    BY <1>1
  <2>2. ExtensionToType(e) = m[2]
    BY <1>1 DEF ExtensionToType
  <2>. QED  BY <2>1, <2>2
<1>2. CASE ~\E m \in Mappings : m[1] = e
  BY <1>2 DEF ExtensionToType
<1>. QED  BY <1>1, <1>2

\* html is the extension of one type.
LEMMA TypeOfHtml == ExtensionToType(<<104, 116, 109, 108>>) = "text/html"
<1>. DEFINE e == <<104, 116, 109, 108>>
<1>1. <<e, "text/html">> \in Mappings /\ <<e, "text/html">>[1] = e
  BY DEF Mappings
<1>2. \A m \in Mappings : m[1] = e => m[2] = "text/html"
  BY DEF Mappings
<1>3. (CHOOSE m \in Mappings : m[1] = e)[2] = "text/html"
  BY <1>1, <1>2
<1>. QED  BY <1>1, <1>3 DEF ExtensionToType

\* The extensions of the list are not empty, and of chars.
LEMMA MappingsAre ==
  \A m \in Mappings : m[1] \in Seq(Byte) /\ m[1] # <<>>
<1>. DEFINE gif == <<103, 105, 102>>
            htm == <<104, 116, 109>>
            html == <<104, 116, 109, 108>>
            jpg == <<106, 112, 103>>
            png == <<112, 110, 103>>
<1>1. /\ gif \in Seq(Byte) /\ htm \in Seq(Byte) /\ html \in Seq(Byte)
      /\ jpg \in Seq(Byte) /\ png \in Seq(Byte)
  BY DEF Byte
<1>2. gif # <<>> /\ htm # <<>> /\ html # <<>> /\ jpg # <<>> /\ png # <<>>
  OBVIOUS
<1>3. \A m \in Mappings : m[1] \in {gif, htm, html, jpg, png}
  BY DEF Mappings
<1>. HIDE DEF gif, htm, html, jpg, png
<1>. QED  BY <1>1, <1>2, <1>3

\* A type other than "text/plain" is that of a mapping whose extension, with a '.'
\* before it, ends the path.
LEMMA TypeIsOfSuffix ==
  ASSUME NEW p \in Seq(Byte)
  PROVE  \/ ExtensionToType(Extension(p)) = "text/plain"
         \/ \E m \in Mappings : /\ ExtensionToType(Extension(p)) = m[2]
                                /\ IsSuffix(<<Dot>> \o m[1], p)
<1>. DEFINE e == Extension(p)
<1>1. CASE \E m \in Mappings : m[1] = e /\ ExtensionToType(e) = m[2]
  <2>1. PICK m \in Mappings : m[1] = e /\ ExtensionToType(e) = m[2]
    BY <1>1
  <2>2. e \in Seq(Byte) /\ e # <<>>
    BY <2>1, MappingsAre
  <2>3. PICK d \in 1..Len(p) :
          p[d] = Dot /\ Len(e) = Len(p) - d /\ \A k \in 1..(Len(p) - d) : e[k] = p[d + k]
    BY <2>2, ExtensionIs
  <2>. HIDE DEF e
  <2>. DEFINE s == <<Dot>> \o e
  <2>4. Len(p) \in Nat /\ <<Dot>> \in Seq(Byte) /\ Len(<<Dot>>) = 1 /\ <<Dot>>[1] = Dot
    BY LenProperties DEF Byte, Dot
  <2>5. /\ s \in Seq(Byte) /\ Len(s) = 1 + Len(e)
        /\ \A k \in 1..(1 + Len(e)) : s[k] = IF k <= 1 THEN <<Dot>>[k] ELSE e[k - 1]
    BY <2>2, <2>4, ConcatProperties
  <2>. HIDE DEF s
  <2>6. Len(s) = Len(p) - d + 1 /\ Len(s) <= Len(p)
    BY <2>3, <2>4, <2>5
  <2>7. ASSUME NEW k \in 1..Len(s) PROVE s[k] = p[Len(p) - Len(s) + k]
    <3>0. Len(p) - Len(s) + k = d + (k - 1) /\ k \in 1..(1 + Len(e))
      BY <2>3, <2>4, <2>5, <2>6
    <3>1. CASE k = 1
      BY <2>3, <2>4, <2>5, <3>0, <3>1
    <3>2. CASE k > 1
      <4>1. k - 1 \in 1..(Len(p) - d) /\ ~(k <= 1)
        BY <2>3, <2>4, <2>6, <3>2
      <4>. QED  BY <2>3, <2>5, <3>0, <4>1
    <3>. QED  BY <3>1, <3>2
  <2>8. IsSuffix(s, p)
    BY <2>5, <2>6, <2>7, SuffixIs
  <2>. QED  BY <2>1, <2>8 DEF s, e
<1>2. CASE ExtensionToType(e) = "text/plain"
  BY <1>2
<1>. QED  BY <1>1, <1>2, TypeIsOfMapping

\* A path that ends with index.html has the extension html.
LEMMA IndexIsHtml ==
  ASSUME NEW p \in Seq(Byte), IsSuffix(IndexHtml, p)
  PROVE  ExtensionToType(Extension(p)) = "text/html"
<1>. DEFINE n == Len(p) - 10
            e == Extension(p)
<1>1. Len(p) \in Nat /\ Len(p) >= 10
  <2>1. Len(Reverse(IndexHtml)) <= Len(Reverse(p))
    BY DEF IsSuffix, IsPrefix
  <2>2. Len(Reverse(IndexHtml)) = 10 /\ Len(Reverse(p)) = Len(p) /\ Len(p) \in Nat
    BY IndexHtmlIs, LenProperties DEF Reverse
  <2>. QED  BY <2>1, <2>2
<1>2. \A k \in 1..10 : IndexHtml[k] = p[n + k]
  <2>1. IndexHtml \in Seq(Byte) /\ Len(IndexHtml) = 10
    BY IndexHtmlIs
  <2>2. \A k \in 1..Len(IndexHtml) : IndexHtml[k] = p[Len(p) - Len(IndexHtml) + k]
    BY <1>1, <2>1, SuffixIs
  <2>. QED  BY <2>1, <2>2
<1>3. n \in Nat /\ Len(p) = n + 10
  BY <1>1
<1>. HIDE DEF n
<1>4. LastOf(p, Dot) = n + 6
  <2>1. n + 6 \in 1..Len(p) /\ p[n + 6] = Dot
    BY <1>2, <1>3, IndexHtmlIs
  <2>2. \A l \in 1..Len(p) : l > n + 6 => p[l] # Dot
    <3>1. SUFFICES ASSUME NEW l \in 1..Len(p), l > n + 6 PROVE p[l] # Dot
      OBVIOUS
    <3>2. l - n \in 1..10 /\ l - n # 6 /\ n + (l - n) = l
      BY <1>3, <3>1
    <3>3. IndexHtml[l - n] # Dot
      BY <3>2, IndexHtmlIs
    <3>. QED  BY <1>2, <3>2, <3>3
  <2>3. /\ LastOf(p, Dot) \in 0..Len(p)
        /\ LastOf(p, Dot) = 0 => p[n + 6] # Dot
        /\ LastOf(p, Dot) > 0 => p[LastOf(p, Dot)] = Dot
        /\ n + 6 > LastOf(p, Dot) => p[n + 6] # Dot
    BY <2>1, LastPlace
  <2>. QED  BY <1>3, <2>1, <2>2, <2>3
<1>5. LastOf(p, Slash) <= n
  <2>1. /\ LastOf(p, Slash) \in 0..Len(p)
        /\ LastOf(p, Slash) > 0 => p[LastOf(p, Slash)] = Slash
    BY LastPlace
  <2>2. \A l \in 1..Len(p) : l > n => p[l] # Slash
    <3>1. SUFFICES ASSUME NEW l \in 1..Len(p), l > n PROVE p[l] # Slash
      OBVIOUS
    <3>2. l - n \in 1..10 /\ n + (l - n) = l
      BY <1>3, <3>1
    <3>3. IndexHtml[l - n] # Slash
      BY <3>2, IndexHtmlIs
    <3>. QED  BY <1>2, <3>2, <3>3
  <2>. QED  BY <1>3, <2>1, <2>2
<1>6. e = SubSeq(p, n + 7, n + 10)
  <2>1. LastOf(p, Dot) > LastOf(p, Slash) /\ (n + 6) + 1 = n + 7
    BY <1>3, <1>4, <1>5, LastPlace
  <2>. QED  BY <1>3, <1>4, <2>1 DEF Extension
<1>7. e = <<104, 116, 109, 108>>
  <2>. DEFINE h == <<104, 116, 109, 108>>
  <2>1. h \in Seq(Byte) /\ Len(h) = 4
    BY DEF Byte
  <2>2. /\ SubSeq(p, n + 7, n + 10) \in Seq(Byte)
        /\ Len(SubSeq(p, n + 7, n + 10)) = 4
        /\ \A k \in 1..4 : SubSeq(p, n + 7, n + 10)[k] = p[n + 6 + k]
    BY <1>3, SubSeqProperties
  <2>3. \A k \in 1..4 : h[k] = IndexHtml[6 + k]
    BY IndexHtmlIs
  <2>4. \A k \in 1..4 : h[k] = p[n + 6 + k]
    BY <1>2, <1>3, <2>3
  <2>5. e = SubSeq(p, n + 7, n + 10)
    BY <1>6
  <2>. HIDE DEF e, h
  <2>6. e \in Seq(Byte) /\ Len(e) = Len(h) /\ \A k \in 1..Len(h) : h[k] = e[k]
    BY <2>1, <2>2, <2>4, <2>5
  <2>7. h = e
    BY <2>1, <2>6, SeqEqual
  <2>. QED  BY <2>7 DEF h
<1>. QED  BY <1>7, TypeOfHtml

-----------------------------------------------------------------------------
(* The invariant of the handler.                                           *)

\* What makes a path bad: it is empty, or relative, or holds "..".
IsBad(p) == p = <<>> \/ p[1] # Slash \/ HasDotDot(p)

\* While the URI is decoded, the path read so far and the meaning of what is left
\* make up the meaning of the URI; a well-formed URI is refused for a bad path only.
DecodesSoFar ==
  WellFormed(uri) =>
    /\ status = "decoding" => request_path \o Meanings(uri)[i] = Meaning(uri)
    /\ status = "bad_request" => IsBad(Meaning(uri))

\* The inductive invariant of the handler.
HandlerIInv ==
  /\ uri \in Seq(Byte) /\ request_path \in Seq(Byte)
  /\ OpensRightFile
  /\ DecodesSoFar

\* It holds when nothing is decoded yet.
LEMMA HandlerInitIInv == HandlerInit => HandlerIInv
<1>. SUFFICES ASSUME HandlerInit PROVE HandlerIInv
  OBVIOUS
<1>. USE RequestHandlerAssumption
<1>1. PICK n \in 0..MaxLength : uri \in [1..n -> UriChars]
  BY DEF HandlerInit
<1>2. uri \in Seq(Byte) /\ Len(uri) \in Nat
  <2>1. n \in Nat /\ uri \in [1..n -> Byte]
    <3>1. n \in Nat /\ UriChars \subseteq Byte
      BY DEF Byte
    <3>. QED  BY <1>1, <3>1
  <2>. QED  BY <2>1
<1>3. /\ i = 1 /\ request_path = <<>> /\ extension = <<>>
      /\ content_type = "none" /\ status = "decoding"
  BY DEF HandlerInit
<1>4. OpensRightFile
  BY <1>2, <1>3
     DEF OpensRightFile, HandlerTypeOK, OpensGoodPath, ExtensionOfFile, TypeOfContent
<1>5. DecodesSoFar
  <2>. SUFFICES ASSUME WellFormed(uri) PROVE request_path \o Meanings(uri)[i] = Meaning(uri)
    BY <1>3 DEF DecodesSoFar
  <2>1. 1 \in 1..(Len(uri) + 1)
    BY <1>2
  <2>2. Meanings(uri)[1] \in Seq(Byte)
    BY <1>2, <2>1, MeaningsType
  <2>3. <<>> \o Meanings(uri)[1] = Meanings(uri)[1]
    BY <2>2, ConcatEmptySeq
  <2>. QED  BY <1>3, <2>3, MeaningIsFirst
<1>. QED  BY <1>2, <1>3, <1>4, <1>5 DEF HandlerIInv

\* A turn of the loop that appends what its characters mean keeps the invariant.
LEMMA TurnKeeps ==
  ASSUME HandlerIInv, status = "decoding",
         NEW c \in Byte, NEW n \in 1..3, i + n <= Len(uri) + 1,
         WellFormed(uri) => Meanings(uri)[i] = <<c>> \o Meanings(uri)[i + n],
         Turn(c, n)
  PROVE  HandlerIInv'
<1>1. /\ request_path' = Append(request_path, c) /\ i' = i + n
      /\ uri' = uri /\ extension' = extension /\ content_type' = content_type
      /\ status' = status
  BY DEF Turn
<1>2. /\ uri \in Seq(Byte) /\ request_path \in Seq(Byte)
      /\ OpensRightFile /\ DecodesSoFar
  BY DEF HandlerIInv
<1>3. /\ i \in 1..(Len(uri) + 1) /\ Len(request_path) < i /\ content_type = "none"
      /\ ExtensionOfFile
  BY <1>2 DEF OpensRightFile, HandlerTypeOK
<1>4. Len(uri) \in Nat /\ Len(request_path) \in Nat
  BY <1>2, LenProperties
<1>5. request_path' \in Seq(Byte) /\ Len(request_path') = Len(request_path) + 1
  BY <1>1, <1>2, AppendProperties
<1>6. i' \in 1..(Len(uri) + 1) /\ Len(request_path') < i'
  BY <1>1, <1>3, <1>4, <1>5
<1>7. \A k \in 1..Len(request_path') : request_path'[k] \in 0..255
  BY <1>5, ElementOfSeq DEF Byte
<1>8. HandlerTypeOK'
  <2>1. Len(request_path') < i' + 0
    BY <1>5, <1>6, <1>4, <1>3, <1>1
  <2>2. status' = "decoding" /\ content_type' = "none"
    BY <1>1, <1>3
  <2>3. i' \in 1..(Len(uri') + 1)
    BY <1>1, <1>6
  <2>. QED  BY <1>7, <2>1, <2>2, <2>3 DEF HandlerTypeOK
<1>9. OpensGoodPath' /\ ExtensionOfFile' /\ TypeOfContent'
  BY <1>1, <1>3 DEF OpensGoodPath, ExtensionOfFile, TypeOfContent
<1>10. DecodesSoFar'
  <2>. SUFFICES ASSUME WellFormed(uri)
                PROVE  request_path' \o Meanings(uri)[i'] = Meaning(uri)
    BY <1>1 DEF DecodesSoFar
  <2>1. Meanings(uri)[i'] \in Seq(Byte)
    BY <1>2, <1>6, MeaningsType
  <2>2. <<c>> \in Seq(Byte) /\ request_path' = request_path \o <<c>>
    BY <1>1, <1>2, AppendIsConcat
  <2>3. request_path \o Meanings(uri)[i] = Meaning(uri)
    BY <1>2 DEF DecodesSoFar
  <2>4. Meanings(uri)[i] = <<c>> \o Meanings(uri)[i']
    BY <1>1
  <2>5. (request_path \o <<c>>) \o Meanings(uri)[i']
          = request_path \o (<<c>> \o Meanings(uri)[i'])
    <3>1. request_path \in Seq(Byte) /\ <<c>> \in Seq(Byte)
      BY <1>2, <2>2
    <3>. DEFINE t == <<c>>
                u == Meanings(uri)[i']
    <3>2. request_path \in Seq(Byte) /\ t \in Seq(Byte) /\ u \in Seq(Byte)
      BY <2>1, <3>1
    <3>. HIDE DEF t, u
    <3>3. (request_path \o t) \o u = request_path \o (t \o u)
      BY <3>2, ConcatAssociative
    <3>. QED  BY <3>3 DEF t, u
  <2>. QED  BY <2>2, <2>3, <2>4, <2>5
<1>. QED  BY <1>1, <1>2, <1>5, <1>8, <1>9, <1>10 DEF HandlerIInv, OpensRightFile

\* What a pair of characters is read as is a number.
LEMMA NumberIsInt ==
  ASSUME NEW c \in Byte, NEW d \in Byte PROVE Number(c, d) \in Int
<1>1. HexDigit(c) \in Int /\ HexDigit(d) \in Int
  BY DEF HexDigit, Byte
<1>. QED  BY <1>1 DEF Number

\* Two hexadecimal digits are read as what they mean.
LEMMA NumberOfDigits ==
  ASSUME NEW c \in Byte, NEW d \in Byte, IsHexDigit(c), IsHexDigit(d)
  PROVE  /\ ReadsNumber(c, d)
         /\ ToChar(Number(c, d)) = 16 * HexDigit(c) + HexDigit(d)
<1>1. c # Plus /\ c # Minus /\ d \notin {88, 120}
  BY DEF IsHexDigit, Plus, Minus
<1>2. Number(c, d) = 16 * HexDigit(c) + HexDigit(d)
  BY <1>1 DEF Number
<1>3. Number(c, d) \in 0..255
  BY <1>2, TwoDigits DEF Byte
<1>4. ToChar(Number(c, d)) = Number(c, d)
  BY <1>3 DEF ToChar
<1>. QED  BY <1>1, <1>2, <1>4 DEF ReadsNumber

\* An escape appends the char it means.
LEMMA DecodeEscapeKeeps == HandlerIInv /\ DecodeEscape => HandlerIInv'
<1>. SUFFICES ASSUME HandlerIInv, DecodeEscape PROVE HandlerIInv'
  OBVIOUS
<1>. DEFINE d1 == uri[i + 1]
            d2 == uri[i + 2]
            c == ToChar(Number(d1, d2))
<1>1. status = "decoding" /\ i <= Len(uri) /\ uri[i] = Percent /\ i + 2 <= Len(uri)
      /\ Turn(c, 3)
  BY DEF DecodeEscape, AtEscape, Decoding, Escaped, EscapeFits, EscapeLength
<1>2. uri \in Seq(Byte) /\ i \in 1..(Len(uri) + 1) /\ Len(uri) \in Nat
  BY LenProperties DEF HandlerIInv, OpensRightFile, HandlerTypeOK
<1>3. i \in 1..Len(uri) /\ i + 1 \in 1..Len(uri) /\ i + 2 \in 1..Len(uri)
      /\ i + 3 <= Len(uri) + 1
  BY <1>1, <1>2
<1>4. d1 \in Byte /\ d2 \in Byte
  BY <1>2, <1>3, ElementOfSeq
<1>5. c \in Byte
  <2>1. \A n \in Int : ToChar(n) \in Byte
    BY DEF ToChar, Byte
  <2>2. Number(d1, d2) \in Int
    BY <1>4, NumberIsInt
  <2>. HIDE DEF d1, d2
  <2>. QED  BY <2>1, <2>2
<1>6. ASSUME WellFormed(uri) PROVE Meanings(uri)[i] = <<c>> \o Meanings(uri)[i + 3]
  <2>1. /\ IsHexDigit(d1) /\ IsHexDigit(d2)
        /\ Meanings(uri)[i] = <<16 * HexDigit(d1) + HexDigit(d2)>> \o Meanings(uri)[i + 3]
    BY <1>1, <1>2, <1>3, <1>6, MeaningsSteps
  <2>2. c = 16 * HexDigit(d1) + HexDigit(d2)
    BY <1>4, <2>1, NumberOfDigits
  <2>. QED  BY <2>1, <2>2
<1>. HIDE DEF c, d1, d2
<1>. QED  BY <1>1, <1>3, <1>5, <1>6, TurnKeeps

\* A '+' appends a space.
LEMMA DecodePlusKeeps == HandlerIInv /\ DecodePlus => HandlerIInv'
<1>. SUFFICES ASSUME HandlerIInv, DecodePlus PROVE HandlerIInv'
  OBVIOUS
<1>1. status = "decoding" /\ i <= Len(uri) /\ uri[i] = Plus /\ Turn(Space, 1)
  BY DEF DecodePlus, Decoding
<1>2. uri \in Seq(Byte) /\ i \in 1..(Len(uri) + 1) /\ Len(uri) \in Nat
  BY LenProperties DEF HandlerIInv, OpensRightFile, HandlerTypeOK
<1>3. i \in 1..Len(uri) /\ i + 1 <= Len(uri) + 1 /\ Space \in Byte /\ Plus # Percent
  BY <1>1, <1>2 DEF Space, Byte, Plus, Percent
<1>4. ASSUME WellFormed(uri) PROVE Meanings(uri)[i] = <<Space>> \o Meanings(uri)[i + 1]
  BY <1>1, <1>2, <1>3, <1>4, MeaningsSteps
<1>. QED  BY <1>1, <1>3, <1>4, TurnKeeps

\* Any other character appends itself.
LEMMA DecodeOtherKeeps == HandlerIInv /\ DecodeOther => HandlerIInv'
<1>. SUFFICES ASSUME HandlerIInv, DecodeOther PROVE HandlerIInv'
  OBVIOUS
<1>1. status = "decoding" /\ i <= Len(uri) /\ uri[i] # Plus /\ uri[i] # Percent
      /\ Turn(uri[i], 1)
  BY DEF DecodeOther, Decoding
<1>2. uri \in Seq(Byte) /\ i \in 1..(Len(uri) + 1) /\ Len(uri) \in Nat
  BY LenProperties DEF HandlerIInv, OpensRightFile, HandlerTypeOK
<1>3. i \in 1..Len(uri) /\ i + 1 <= Len(uri) + 1
  BY <1>1, <1>2
<1>4. uri[i] \in Byte
  BY <1>2, <1>3, ElementOfSeq
<1>5. ASSUME WellFormed(uri) PROVE Meanings(uri)[i] = <<uri[i]>> \o Meanings(uri)[i + 1]
  BY <1>1, <1>2, <1>3, <1>5, MeaningsSteps
<1>. QED  BY <1>1, <1>3, <1>4, <1>5, TurnKeeps

\* A refusal keeps the invariant when the URI is not well-formed or means a bad path.
LEMMA RefusedKeeps ==
  ASSUME HandlerIInv, status = "decoding", Refused,
         WellFormed(uri) => IsBad(Meaning(uri))
  PROVE  HandlerIInv'
<1>1. /\ status' = "bad_request" /\ content_type' = "text/html"
      /\ uri' = uri /\ i' = i /\ request_path' = request_path /\ extension' = extension
  BY DEF Refused, StockType
<1>2. /\ uri \in Seq(Byte) /\ request_path \in Seq(Byte)
      /\ HandlerTypeOK /\ ExtensionOfFile
  BY DEF HandlerIInv, OpensRightFile
<1>3. HandlerTypeOK'
  BY <1>1, <1>2 DEF HandlerTypeOK
<1>4. OpensGoodPath' /\ ExtensionOfFile' /\ TypeOfContent'
  BY <1>1, <1>2 DEF OpensGoodPath, ExtensionOfFile, TypeOfContent
<1>5. DecodesSoFar'
  BY <1>1 DEF DecodesSoFar
<1>. QED  BY <1>1, <1>2, <1>3, <1>4, <1>5 DEF HandlerIInv, OpensRightFile

\* Only a URI that is not well-formed is refused at an escape.
LEMMA RefuseEscapeKeeps == HandlerIInv /\ RefuseEscape => HandlerIInv'
<1>. SUFFICES ASSUME HandlerIInv, RefuseEscape PROVE HandlerIInv'
  OBVIOUS
<1>1. status = "decoding" /\ i <= Len(uri) /\ uri[i] = Percent /\ ~Escaped /\ Refused
  BY DEF RefuseEscape, AtEscape, Decoding
<1>2. uri \in Seq(Byte) /\ i \in 1..(Len(uri) + 1) /\ Len(uri) \in Nat
  BY LenProperties DEF HandlerIInv, OpensRightFile, HandlerTypeOK
<1>3. i \in 1..Len(uri)
  BY <1>1, <1>2
<1>4. ASSUME WellFormed(uri) PROVE FALSE
  <2>1. i + 2 <= Len(uri) /\ IsHexDigit(uri[i + 1]) /\ IsHexDigit(uri[i + 2])
    BY <1>1, <1>3, <1>4 DEF WellFormed
  <2>2. i + 1 \in 1..Len(uri) /\ i + 2 \in 1..Len(uri)
    BY <1>2, <1>3, <2>1
  <2>3. uri[i + 1] \in Byte /\ uri[i + 2] \in Byte
    BY <1>2, <2>2, ElementOfSeq
  <2>4. ReadsNumber(uri[i + 1], uri[i + 2])
    BY <2>1, <2>3, NumberOfDigits
  <2>. QED  BY <1>1, <2>1, <2>4 DEF Escaped, EscapeFits
<1>. QED  BY <1>1, <1>4, RefusedKeeps

\* At the end of a well-formed URI the path is its meaning.
LEMMA DecodedIsMeaning ==
  ASSUME HandlerIInv, Decoded, WellFormed(uri)
  PROVE  request_path = Meaning(uri)
<1>1. status = "decoding" /\ i > Len(uri)
  BY DEF Decoded
<1>2. /\ uri \in Seq(Byte) /\ i \in 1..(Len(uri) + 1) /\ Len(uri) \in Nat
      /\ request_path \in Seq(Byte) /\ DecodesSoFar
  BY LenProperties DEF HandlerIInv, OpensRightFile, HandlerTypeOK
<1>3. i = Len(uri) + 1
  BY <1>1, <1>2
<1>4. Meanings(uri)[i] = <<>>
  BY <1>1, <1>2, MeaningsExist DEF PartFrom
<1>5. request_path \o <<>> = request_path
  BY <1>2, ConcatEmptySeq
<1>. QED  BY <1>1, <1>2, <1>4, <1>5 DEF DecodesSoFar

\* A decoded URI is refused for its path.
LEMMA RefusePathKeeps == HandlerIInv /\ RefusePath => HandlerIInv'
<1>. SUFFICES ASSUME HandlerIInv, RefusePath PROVE HandlerIInv'
  OBVIOUS
<1>1. Decoded /\ ~GoodPath /\ Refused /\ status = "decoding"
  BY DEF RefusePath, Decoded
<1>2. IsBad(request_path)
  BY <1>1 DEF GoodPath, IsBad
<1>3. WellFormed(uri) => IsBad(Meaning(uri))
  BY <1>1, <1>2, DecodedIsMeaning
<1>. QED  BY <1>1, <1>3, RefusedKeeps

\* The types of files are not "none".
LEMMA TypesAreTypes == \A e : ExtensionToType(e) # "none"
<1>1. \A m \in Mappings : m[2] # "none"
  BY DEF Mappings
<1>. QED  BY <1>1, TypeIsOfMapping

\* The file that is opened has a good path, and the type of its name.
LEMMA OpenFileKeeps == HandlerIInv /\ OpenFile => HandlerIInv'
<1>. SUFFICES ASSUME HandlerIInv, OpenFile PROVE HandlerIInv'
  OBVIOUS
<1>1. /\ Decoded /\ GoodPath /\ status = "decoding"
      /\ request_path' = FullPath(request_path)
      /\ extension' = Extension(request_path')
      /\ status' \in {"ok", "not_found"}
      /\ content_type' = IF status' = "ok" THEN ExtensionToType(extension') ELSE "text/html"
      /\ uri' = uri /\ i' = i
  BY DEF OpenFile, Decoded, StockType
<1>2. /\ uri \in Seq(Byte) /\ request_path \in Seq(Byte) /\ i \in 1..(Len(uri) + 1)
      /\ Len(request_path) < i
  BY <1>1 DEF HandlerIInv, OpensRightFile, HandlerTypeOK
<1>3. Len(uri) \in Nat /\ Len(request_path) \in Nat /\ Len(IndexHtml) = 10
  BY <1>2, LenProperties, IndexHtmlIs
<1>4. /\ request_path' \in Seq(Byte) /\ Len(request_path') <= Len(request_path) + 10
      /\ request_path' # <<>> /\ request_path'[1] = Slash
      /\ Last(request_path') # Slash /\ ~HasDotDot(request_path')
  BY <1>1, <1>2, FullPathIsGood DEF GoodPath
<1>5. Len(request_path') \in Nat
  BY <1>4, LenProperties
<1>6. HandlerTypeOK'
  <2>1. Len(request_path') < i + Len(IndexHtml)
    BY <1>2, <1>3, <1>4, <1>5
  <2>2. \A k \in 1..Len(request_path') : request_path'[k] \in 0..255
    BY <1>4, ElementOfSeq DEF Byte
  <2>3. content_type' # "none"
    BY <1>1, TypesAreTypes
  <2>. QED  BY <1>1, <1>2, <2>1, <2>2, <2>3 DEF HandlerTypeOK
<1>7. OpensGoodPath'
  BY <1>4 DEF OpensGoodPath, HasDotDot
<1>8. ExtensionOfFile'
  BY <1>1, <1>4, ExtensionIs DEF ExtensionOfFile
<1>9. TypeOfContent'
  <2>1. CASE status' = "not_found"
    BY <1>1, <2>1 DEF TypeOfContent
  <2>2. CASE status' = "ok"
    <3>1. content_type' = ExtensionToType(Extension(request_path'))
      BY <1>1, <2>2
    <3>2. \/ content_type' = "text/plain"
          \/ \E m \in Mappings : /\ content_type' = m[2]
                                 /\ IsSuffix(<<Dot>> \o m[1], request_path')
      BY <1>4, <3>1, TypeIsOfSuffix
    <3>3. IsSuffix(IndexHtml, request_path') => content_type' = "text/html"
      BY <1>4, <3>1, IndexIsHtml
    <3>. QED  BY <2>2, <3>2, <3>3 DEF TypeOfContent
  <2>. QED  BY <1>1, <2>1, <2>2
<1>10. DecodesSoFar'
  BY <1>1 DEF DecodesSoFar
<1>. QED  BY <1>1, <1>2, <1>4, <1>6, <1>7, <1>8, <1>9, <1>10 DEF HandlerIInv, OpensRightFile

\* A step that changes nothing keeps the invariant.
LEMMA HandlerStutter == HandlerIInv /\ UNCHANGED handlerVars => HandlerIInv'
BY DEF handlerVars, HandlerIInv, DecodesSoFar, OpensRightFile, HandlerTypeOK,
       OpensGoodPath, ExtensionOfFile, TypeOfContent

\* url_decode and handle_request keep the invariant, whatever the URI.
THEOREM HandlerInvariance == HandlerSpec => []HandlerIInv
<1>1. HandlerInit => HandlerIInv
  BY HandlerInitIInv
<1>2. HandlerIInv /\ [HandlerNext]_handlerVars => HandlerIInv'
  BY DecodeEscapeKeeps, RefuseEscapeKeeps, DecodePlusKeeps, DecodeOtherKeeps,
     RefusePathKeeps, OpenFileKeeps, HandlerStutter DEF HandlerNext
<1>. QED  BY <1>1, <1>2, PTL DEF HandlerSpec

\* url_decode: a well-formed URI is decoded to what it means, whatever its length, and
\* refused by handle_request for the path it means only.
THEOREM DecodingCorrect == HandlerSpec => []DecodesRight
<1>1. HandlerIInv => DecodesRight
  <2>. SUFFICES ASSUME HandlerIInv, WellFormed(uri) PROVE DecodesRight
    BY DEF DecodesRight
  <2>1. Decoded => request_path = Meaning(uri)
    BY DecodedIsMeaning
  <2>2. status = "bad_request" => IsBad(Meaning(uri))
    BY DEF HandlerIInv, DecodesSoFar
  <2>. QED  BY <2>1, <2>2 DEF DecodesRight, IsBad
<1>. QED  BY <1>1, HandlerInvariance, PTL

\* handle_request: the path that is opened is absolute, without ".." and no directory,
\* and the reply has the type that the name of the file says.
THEOREM FileCorrect == HandlerSpec => []OpensRightFile
<1>1. HandlerIInv => OpensRightFile
  BY DEF HandlerIInv
<1>. QED  BY <1>1, HandlerInvariance, PTL

-----------------------------------------------------------------------------
(* The lines of a response.                                                *)

\* What a response is made of: tokens of these kinds.
KindsOfTokens == {"status", "Content-Length", "Content-Type", "CRLF", "text"}
Tokens == [is : KindsOfTokens, of : Nat]

\* Where the first line ends, character by character.
EndsFirstLine(s, k) ==
  k \in 1..Len(s) /\ s[k] = Crlf /\ \A l \in 1..(k - 1) : s[l] # Crlf

\* The status line of async_read_until is the first line of the buffer.
LEMMA FirstLineIs ==
  ASSUME NEW s \in Seq(Tokens)
  PROVE  /\ HasLine(s) => EndsFirstLine(s, FirstLineEnd(s))
         /\ ~HasLine(s) => FirstLineEnd(s) = 0
<1>. DEFINE At == {k \in 1..Len(s) : s[k] = Crlf}
            Least(k) == \A l \in At : k <= l
<1>1. FirstLineEnd(s) = IF At # {} THEN CHOOSE k \in At : Least(k) ELSE 0
  BY DEF FirstLineEnd, SelectInSeq, Min
<1>2. DOMAIN s = 1..Len(s) /\ Len(s) \in Nat
  BY LenProperties
<1>3. HasLine(s) <=> At # {}
  BY <1>2 DEF HasLine
<1>4. ASSUME At # {} PROVE EndsFirstLine(s, FirstLineEnd(s))
  <2>1. At \subseteq Nat
    OBVIOUS
  <2>2. PICK m \in At : Least(m)
    BY <1>4, <2>1, LeastNumber
  <2>. DEFINE n == CHOOSE k \in At : Least(k)
  <2>3. n \in At /\ Least(n)
    BY <2>2
  <2>4. FirstLineEnd(s) = n
    BY <1>1, <1>4
  <2>. HIDE DEF n
  <2>5. \A l \in 1..(n - 1) : s[l] # Crlf
    <3>1. SUFFICES ASSUME NEW l \in 1..(n - 1), s[l] = Crlf PROVE FALSE
      OBVIOUS
    <3>2. l \in At /\ ~(n <= l)
      BY <1>2, <2>3, <3>1
    <3>. QED  BY <2>3, <3>2
  <2>. QED  BY <2>3, <2>4, <2>5 DEF EndsFirstLine
<1>. QED  BY <1>1, <1>3, <1>4

\* There is one end of the first line.
LEMMA FirstLineEndsOnce ==
  ASSUME NEW s \in Seq(Tokens), NEW k, NEW l, EndsFirstLine(s, k), EndsFirstLine(s, l)
  PROVE  k = l
<1>1. k \in 1..Len(s) /\ l \in 1..Len(s) /\ Len(s) \in Nat
  BY LenProperties DEF EndsFirstLine
<1>2. ~(k < l)
  <2>1. SUFFICES ASSUME k < l PROVE FALSE
    OBVIOUS
  <2>2. k \in 1..(l - 1)
    BY <1>1, <2>1
  <2>. QED  BY <2>2 DEF EndsFirstLine
<1>3. ~(l < k)
  <2>1. SUFFICES ASSUME l < k PROVE FALSE
    OBVIOUS
  <2>2. l \in 1..(k - 1)
    BY <1>1, <2>1
  <2>. QED  BY <2>2 DEF EndsFirstLine
<1>. QED  BY <1>1, <1>2, <1>3

\* Pieces of a response.
LEMMA PieceIs ==
  ASSUME NEW s \in Seq(Tokens), NEW a \in 1..(Len(s) + 1), NEW b \in (a - 1)..Len(s)
  PROVE  /\ SubSeq(s, a, b) \in Seq(Tokens)
         /\ Len(SubSeq(s, a, b)) = b - a + 1
         /\ \A k \in 1..(b - a + 1) : SubSeq(s, a, b)[k] = s[a + k - 1]
<1>1. Len(s) \in Nat /\ a \in Int /\ b \in Int
  BY LenProperties
<1>2. \A k \in a..b : s[k] \in Tokens
  BY <1>1, ElementOfSeq
<1>3. /\ SubSeq(s, a, b) \in Seq(Tokens)
      /\ Len(SubSeq(s, a, b)) = IF a <= b THEN b - a + 1 ELSE 0
      /\ \A k \in 1..(b - a + 1) : SubSeq(s, a, b)[k] = s[a + k - 1]
  BY <1>1, <1>2, SubSeqProperties
<1>4. b - a + 1 = IF a <= b THEN b - a + 1 ELSE 0
  BY <1>1
<1>. QED  BY <1>3, <1>4

\* A beginning of the response that has a line has its first line.
LEMMA FirstLineOfBeginning ==
  ASSUME NEW s \in Seq(Tokens), NEW n \in 0..Len(s), HasLine(SubSeq(s, 1, n))
  PROVE  /\ HasLine(s)
         /\ FirstLineEnd(SubSeq(s, 1, n)) = FirstLineEnd(s)
         /\ FirstLineEnd(s) \in 1..n
<1>. DEFINE p == SubSeq(s, 1, n)
            k == FirstLineEnd(p)
<1>1. Len(s) \in Nat
  BY LenProperties
<1>2. p \in Seq(Tokens) /\ Len(p) = n /\ \A l \in 1..n : p[l] = s[l]
  <2>1. 1 \in 1..(Len(s) + 1) /\ n \in (1 - 1)..Len(s) /\ n - 1 + 1 = n
    BY <1>1
  <2>2. p \in Seq(Tokens) /\ Len(p) = n /\ \A l \in 1..n : p[l] = s[1 + l - 1]
    BY <2>1, PieceIs
  <2>3. \A l \in 1..n : 1 + l - 1 = l
    BY <1>1
  <2>. QED  BY <2>2, <2>3
<1>3. EndsFirstLine(p, k)
  BY <1>2, FirstLineIs
<1>. HIDE DEF p, k
<1>4. k \in 1..n /\ s[k] = Crlf /\ \A l \in 1..(k - 1) : s[l] # Crlf
  <2>1. k \in 1..n /\ p[k] = Crlf
    BY <1>2, <1>3 DEF EndsFirstLine
  <2>2. \A l \in 1..(k - 1) : l \in 1..n /\ p[l] # Crlf
    BY <1>1, <1>3, <2>1 DEF EndsFirstLine
  <2>. QED  BY <1>2, <2>1, <2>2
<1>5. EndsFirstLine(s, k)
  BY <1>1, <1>4 DEF EndsFirstLine
<1>6. HasLine(s)
  BY <1>1, <1>4, LenProperties DEF HasLine
<1>7. k = FirstLineEnd(s)
  BY <1>5, <1>6, FirstLineIs, FirstLineEndsOnce
<1>. QED  BY <1>4, <1>6, <1>7 DEF p, k

\* Two pieces that touch are one.
LEMMA PiecesJoin ==
  ASSUME NEW s \in Seq(Tokens), NEW a \in 0..Len(s), NEW b \in a..Len(s), NEW c \in b..Len(s)
  PROVE  SubSeq(s, a + 1, b) \o SubSeq(s, b + 1, c) = SubSeq(s, a + 1, c)
<1>1. Len(s) \in Nat
  BY LenProperties
<1>2. a + 1 \in 1..(Len(s) + 1) /\ b \in ((a + 1) - 1)..Len(s) /\ c \in b..Len(s)
  BY <1>1
<1>. QED  BY <1>2, ConcatAdjacentSubSeq

\* What is left of a beginning of the response behind its k-th token.
LEMMA RestOfBeginning ==
  ASSUME NEW s \in Seq(Tokens), NEW n \in 0..Len(s), NEW k \in 0..n
  PROVE  SubSeq(SubSeq(s, 1, n), k + 1, Len(SubSeq(s, 1, n))) = SubSeq(s, k + 1, n)
<1>. DEFINE p == SubSeq(s, 1, n)
            q == SubSeq(p, k + 1, n)
            r == SubSeq(s, k + 1, n)
<1>1. Len(s) \in Nat /\ n \in Nat /\ k \in Nat
  BY LenProperties
<1>2. p \in Seq(Tokens) /\ Len(p) = n /\ \A l \in 1..n : p[l] = s[1 + l - 1]
  <2>1. 1 \in 1..(Len(s) + 1) /\ n \in (1 - 1)..Len(s) /\ n - 1 + 1 = n
    BY <1>1
  <2>. QED  BY <2>1, PieceIs
<1>3. /\ r \in Seq(Tokens) /\ Len(r) = n - k
      /\ \A l \in 1..(n - k) : r[l] = s[(k + 1) + l - 1]
  <2>1. k + 1 \in 1..(Len(s) + 1) /\ n \in ((k + 1) - 1)..Len(s) /\ n - (k + 1) + 1 = n - k
    BY <1>1
  <2>. QED  BY <2>1, PieceIs
<1>. HIDE DEF p
<1>4. /\ q \in Seq(Tokens) /\ Len(q) = n - k
      /\ \A l \in 1..(n - k) : q[l] = p[(k + 1) + l - 1]
  <2>1. k + 1 \in 1..(Len(p) + 1) /\ n \in ((k + 1) - 1)..Len(p) /\ n - (k + 1) + 1 = n - k
    BY <1>1, <1>2
  <2>. QED  BY <1>2, <2>1, PieceIs
<1>. HIDE DEF q, r
<1>5. ASSUME NEW l \in 1..(n - k) PROVE q[l] = r[l]
  <2>1. (k + 1) + l - 1 = k + l /\ k + l \in 1..n /\ 1 + (k + l) - 1 = k + l
    BY <1>1
  <2>. QED  BY <1>2, <1>3, <1>4, <2>1
<1>6. q = r
  BY <1>3, <1>4, <1>5, SeqEqual
<1>. QED  BY <1>2, <1>6 DEF p, q, r

\* getline() stops within a buffer that has a blank line.
LEMMA BlankLineIs ==
  ASSUME NEW s \in Seq(Tokens), HasBlankLine(s)
  PROVE  BlankLine(s) \in 1..Len(s)
<1>. DEFINE At == {k \in 1..Len(s) : IsBlank(s, k)}
            P(k) == IsBlank(s, k) /\ \A l \in 1..(k - 1) : ~IsBlank(s, l)
<1>1. DOMAIN s = 1..Len(s) /\ Len(s) \in Nat
  BY LenProperties
<1>2. PICK x \in 2..Len(s) : s[x - 1] = Crlf /\ s[x] = Crlf
  BY DEF HasBlankLine
<1>3. x \in At
  BY <1>1, <1>2 DEF IsBlank
<1>4. At \subseteq Nat
  OBVIOUS
<1>5. PICK m \in At : \A l \in At : m <= l
  BY <1>3, <1>4, LeastNumber
<1>6. \A l \in 1..(m - 1) : ~IsBlank(s, l)
  <2>1. SUFFICES ASSUME NEW l \in 1..(m - 1), IsBlank(s, l) PROVE FALSE
    OBVIOUS
  <2>2. l \in At /\ ~(m <= l)
    BY <1>1, <1>5, <2>1
  <2>. QED  BY <1>5, <2>2
<1>7. m \in DOMAIN s /\ P(m)
  BY <1>1, <1>5, <1>6
<1>8. BlankLine(s) = CHOOSE k \in DOMAIN s : P(k)
  BY DEF BlankLine
<1>. HIDE DEF P
<1>9. BlankLine(s) \in DOMAIN s
  BY <1>7, <1>8
<1>. QED  BY <1>1, <1>9


-----------------------------------------------------------------------------
(* The responses.                                                          *)

\* What follows the status line of a response.
AnswerOf(s) == SubSeq(s, FirstLineEnd(s) + 1, Len(s))

\* The Content-Length of an answer, when it has one, is the length of its content.
LengthOfContent(a) ==
  \A k \in DOMAIN a :
    a[k].is = "Content-Length" => a[k].of = Len(a) - BlankLine(a)

\* reply::to_buffers lays two headers one behind the other.
LEMMA FlattenTwo ==
  ASSUME NEW a, NEW b PROVE FlattenSeq(<<a, b>>) = a \o b
<1>. DEFINE two == <<a, b>>
            Step(f) == [k \in 1..Len(two) |-> IF k = 1 THEN two[k] ELSE f[k - 1] \o two[k]]
            g == [k \in 1..2 |-> IF k = 1 THEN a ELSE a \o b]
            flatten == CHOOSE f : f = Step(f)
<1>1. Len(two) = 2 /\ two[1] = a /\ two[2] = b
  OBVIOUS
<1>2. FlattenSeq(two) = flatten[Len(two)]
  BY <1>1 DEF FlattenSeq
<1>. HIDE DEF two
<1>3. g = Step(g)
  <2>1. \A k \in 1..2 : g[k] = IF k = 1 THEN two[k] ELSE g[k - 1] \o two[k]
    BY <1>1
  <2>. QED  BY <1>1, <2>1
<1>4. flatten = Step(flatten)
  BY <1>3
<1>. HIDE DEF flatten
<1>5. /\ flatten[1] = two[1]
      /\ flatten[2] = flatten[1] \o two[2]
  <2>1. \A k \in 1..2 : flatten[k] = IF k = 1 THEN two[k] ELSE flatten[k - 1] \o two[k]
    BY <1>1, <1>4
  <2>2. 1 \in 1..2 /\ 2 \in 1..2 /\ 2 - 1 = 1 /\ 2 # 1
    OBVIOUS
  <2>3. flatten[2] = flatten[2 - 1] \o two[2]
    BY <2>1, <2>2
  <2>. QED  BY <2>1, <2>2, <2>3
<1>. QED  BY <1>1, <1>2, <1>5 DEF two

\* Two sequences of tokens, one behind the other.
LEMMA JoinIs ==
  ASSUME NEW s \in Seq(Tokens), NEW t \in Seq(Tokens)
  PROVE  /\ s \o t \in Seq(Tokens)
         /\ Len(s \o t) = Len(s) + Len(t)
         /\ \A k \in 1..Len(s) : (s \o t)[k] = s[k]
         /\ \A k \in 1..Len(t) : (s \o t)[Len(s) + k] = t[k]
<1>. DEFINE r == s \o t
<1>1. Len(s) \in Nat /\ Len(t) \in Nat
  BY LenProperties
<1>2. /\ r \in Seq(Tokens) /\ Len(r) = Len(s) + Len(t)
      /\ \A k \in 1..(Len(s) + Len(t)) : r[k] = IF k <= Len(s) THEN s[k] ELSE t[k - Len(s)]
  BY ConcatProperties
<1>. HIDE DEF r
<1>3. ASSUME NEW k \in 1..Len(s) PROVE r[k] = s[k]
  BY <1>1, <1>2
<1>4. ASSUME NEW k \in 1..Len(t) PROVE r[Len(s) + k] = t[k]
  <2>1. /\ Len(s) + k \in 1..(Len(s) + Len(t)) /\ ~(Len(s) + k <= Len(s))
        /\ (Len(s) + k) - Len(s) = k
    BY <1>1
  <2>. QED  BY <1>2, <2>1
<1>. QED  BY <1>2, <1>3, <1>4 DEF r

\* The tokens are tokens.
LEMMA TokensAre ==
  /\ Crlf \in Tokens /\ Text \in Tokens
  /\ \A n \in Nat : /\ Token("status", n) \in Tokens
                    /\ Token("Content-Length", n) \in Tokens
                    /\ Token("Content-Type", n) \in Tokens
<1>1. \A x \in KindsOfTokens, n \in Nat : Token(x, n) \in Tokens
  BY DEF Tokens, Token
<1>. QED  BY <1>1 DEF KindsOfTokens, Crlf, Text

\* Two tokens.
LEMMA PairIs ==
  ASSUME NEW a \in Tokens, NEW b \in Tokens
  PROVE  <<a, b>> \in Seq(Tokens) /\ Len(<<a, b>>) = 2 /\ <<a, b>>[1] = a /\ <<a, b>>[2] = b
OBVIOUS

\* A reply with the headers of its content, token by token.
LEMMA ReplyIs ==
  ASSUME NEW rep, NEW c \in Seq({Text, Crlf}),
         rep.status \in StatusType, rep.content = c, rep.headers = Headers(c)
  PROVE  LET r == ToBuffers(rep) IN
         /\ r \in Seq(Tokens) /\ Len(r) = 7 + Len(c)
         /\ r[1] = Token("status", rep.status) /\ r[2] = Crlf
         /\ r[3] = Token("Content-Length", Len(c)) /\ r[4] = Crlf
         /\ r[5] = Token("Content-Type", 0) /\ r[6] = Crlf /\ r[7] = Crlf
         /\ \A k \in 1..Len(c) : r[7 + k] = c[k]
<1>. DEFINE sta == Token("status", rep.status)
            len == Token("Content-Length", Len(c))
            typ == Token("Content-Type", 0)
            lines == [h \in DOMAIN rep.headers |-> <<rep.headers[h], Crlf>>]
            first == <<sta, Crlf>>
            x == <<len, Crlf>>
            y == <<typ, Crlf>>
            z == <<Crlf>>
<1>1. lines = <<x, y>>
  <2>1. rep.headers = <<len, typ>>
    BY DEF Headers, ContentLength
  <2>2. DOMAIN rep.headers = 1..2 /\ rep.headers[1] = len /\ rep.headers[2] = typ
    BY <2>1
  <2>. QED  BY <2>2
<1>2. FlattenSeq(lines) = x \o y
  BY <1>1, FlattenTwo
<1>3. StatusString(rep.status) = first
  BY DEF StatusString
<1>4. ToBuffers(rep) = first \o (x \o y) \o z \o c
  BY <1>2, <1>3 DEF ToBuffers
<1>5. Len(c) \in Nat
  BY LenProperties
<1>6. sta \in Tokens /\ len \in Tokens /\ typ \in Tokens /\ Crlf \in Tokens /\ Text \in Tokens
  <2>1. rep.status \in Nat
    BY DEF StatusType
  <2>. QED  BY <1>5, <2>1, TokensAre
<1>7. c \in Seq(Tokens)
  BY <1>6
<1>. HIDE DEF sta, len, typ
<1>8. /\ first \in Seq(Tokens) /\ Len(first) = 2 /\ first[1] = sta /\ first[2] = Crlf
      /\ x \in Seq(Tokens) /\ Len(x) = 2 /\ x[1] = len /\ x[2] = Crlf
      /\ y \in Seq(Tokens) /\ Len(y) = 2 /\ y[1] = typ /\ y[2] = Crlf
      /\ z \in Seq(Tokens) /\ Len(z) = 1 /\ z[1] = Crlf
  BY <1>6, PairIs
<1>. HIDE DEF first, x, y, z, lines
<1>. DEFINE four == x \o y
            six == first \o four
            seven == six \o z
            r == seven \o c
<1>9. four \in Seq(Tokens) /\ Len(four) = 4
      /\ four[1] = len /\ four[2] = Crlf /\ four[2 + 1] = typ /\ four[2 + 2] = Crlf
  <2>1. /\ four \in Seq(Tokens) /\ Len(four) = Len(x) + Len(y)
        /\ \A k \in 1..Len(x) : four[k] = x[k]
        /\ \A k \in 1..Len(y) : four[Len(x) + k] = y[k]
    BY <1>8, JoinIs
  <2>. HIDE DEF four
  <2>. QED  BY <1>8, <2>1
<1>. HIDE DEF four
<1>10. /\ six \in Seq(Tokens) /\ Len(six) = 6
       /\ six[1] = sta /\ six[2] = Crlf
       /\ \A k \in 1..4 : six[2 + k] = four[k]
  <2>1. /\ six \in Seq(Tokens) /\ Len(six) = Len(first) + Len(four)
        /\ \A k \in 1..Len(first) : six[k] = first[k]
        /\ \A k \in 1..Len(four) : six[Len(first) + k] = four[k]
    BY <1>8, <1>9, JoinIs
  <2>. HIDE DEF six
  <2>. QED  BY <1>8, <1>9, <2>1
<1>. HIDE DEF six
<1>11. /\ seven \in Seq(Tokens) /\ Len(seven) = 7
       /\ \A k \in 1..6 : seven[k] = six[k]
       /\ seven[6 + 1] = Crlf
  <2>1. /\ seven \in Seq(Tokens) /\ Len(seven) = Len(six) + Len(z)
        /\ \A k \in 1..Len(six) : seven[k] = six[k]
        /\ \A k \in 1..Len(z) : seven[Len(six) + k] = z[k]
    BY <1>8, <1>10, JoinIs
  <2>. HIDE DEF seven
  <2>. QED  BY <1>8, <1>10, <2>1
<1>. HIDE DEF seven
<1>12. /\ r \in Seq(Tokens) /\ Len(r) = 7 + Len(c)
       /\ \A k \in 1..7 : r[k] = seven[k]
       /\ \A k \in 1..Len(c) : r[7 + k] = c[k]
  <2>1. /\ r \in Seq(Tokens) /\ Len(r) = Len(seven) + Len(c)
        /\ \A k \in 1..Len(seven) : r[k] = seven[k]
        /\ \A k \in 1..Len(c) : r[Len(seven) + k] = c[k]
    BY <1>7, <1>11, JoinIs
  <2>2. Len(seven) = 7
    BY <1>11
  <2>. HIDE DEF r
  <2>. QED  BY <2>1, <2>2
<1>. HIDE DEF r
<1>13. seven[1] = sta /\ seven[2] = Crlf /\ seven[3] = len /\ seven[4] = Crlf
       /\ seven[5] = typ /\ seven[6] = Crlf /\ seven[7] = Crlf
  <2>1. six[2 + 1] = four[1] /\ six[2 + 2] = four[2] /\ six[2 + 3] = four[3]
        /\ six[2 + 4] = four[4]
    BY <1>10
  <2>2. six[3] = len /\ six[4] = Crlf /\ six[5] = typ /\ six[6] = Crlf
    BY <1>9, <2>1
  <2>. QED  BY <1>10, <1>11, <2>2
<1>14. r[1] = sta /\ r[2] = Crlf /\ r[3] = len /\ r[4] = Crlf /\ r[5] = typ
       /\ r[6] = Crlf /\ r[7] = Crlf
  BY <1>12, <1>13
<1>15. ToBuffers(rep) = r
  BY <1>4 DEF r, seven, six, four
<1>. QED  BY <1>12, <1>14, <1>15 DEF sta, len, typ

\* The answer of a reply says the length of its content.
LEMMA ReplySaysItsLength ==
  ASSUME NEW rep, NEW c \in Seq({Text, Crlf}),
         rep.status \in StatusType, rep.content = c, rep.headers = Headers(c)
  PROVE  LengthOfContent(AnswerOf(ToBuffers(rep)))
<1>. DEFINE r == ToBuffers(rep)
            a == AnswerOf(r)
            P(s, k) == IsBlank(s, k) /\ \A l \in 1..(k - 1) : ~IsBlank(s, l)
<1>1. /\ r \in Seq(Tokens) /\ Len(r) = 7 + Len(c) /\ Len(c) \in Nat
      /\ r[1] = Token("status", rep.status) /\ r[2] = Crlf
      /\ r[3] = Token("Content-Length", Len(c)) /\ r[4] = Crlf
      /\ r[5] = Token("Content-Type", 0) /\ r[6] = Crlf /\ r[7] = Crlf
      /\ \A k \in 1..Len(c) : r[7 + k] = c[k]
  BY ReplyIs, LenProperties
<1>. HIDE DEF r
<1>2. FirstLineEnd(r) = 2
  <2>1. 2 \in 1..Len(r) /\ DOMAIN r = 1..Len(r)
    BY <1>1, LenProperties
  <2>2. r[1] # Crlf
    BY <1>1 DEF Token, Crlf
  <2>3. \A l \in 1..(2 - 1) : r[l] # Crlf
    BY <2>2
  <2>4. EndsFirstLine(r, 2)
    BY <1>1, <2>1, <2>3 DEF EndsFirstLine
  <2>5. HasLine(r)
    BY <1>1, <2>1 DEF HasLine
  <2>. QED  BY <1>1, <2>4, <2>5, FirstLineIs, FirstLineEndsOnce
<1>3. /\ a \in Seq(Tokens) /\ Len(a) = 5 + Len(c)
      /\ \A k \in 1..(5 + Len(c)) : a[k] = r[2 + k]
  <2>1. a = SubSeq(r, 3, Len(r))
    BY <1>2 DEF AnswerOf
  <2>2. 3 \in 1..(Len(r) + 1) /\ Len(r) \in (3 - 1)..Len(r) /\ Len(r) - 3 + 1 = 5 + Len(c)
    BY <1>1
  <2>. HIDE DEF a
  <2>3. /\ a \in Seq(Tokens) /\ Len(a) = Len(r) - 3 + 1
        /\ \A k \in 1..(Len(r) - 3 + 1) : a[k] = r[3 + k - 1]
    BY <1>1, <2>1, <2>2, PieceIs
  <2>4. \A k \in 1..(5 + Len(c)) : 3 + k - 1 = 2 + k
    BY <1>1
  <2>. QED  BY <2>2, <2>3, <2>4
<1>. HIDE DEF a
<1>4. /\ a[1] = Token("Content-Length", Len(c)) /\ a[2] = Crlf
      /\ a[3] = Token("Content-Type", 0) /\ a[4] = Crlf /\ a[5] = Crlf
  <2>1. \A k \in 1..5 : k \in 1..(5 + Len(c))
    BY <1>1
  <2>2. a[1] = r[2 + 1] /\ a[2] = r[2 + 2] /\ a[3] = r[2 + 3] /\ a[4] = r[2 + 4]
        /\ a[5] = r[2 + 5]
    BY <1>3, <2>1
  <2>. QED  BY <1>1, <2>2
<1>5. DOMAIN a = 1..(5 + Len(c))
  BY <1>3, LenProperties
<1>6. BlankLine(a) = 5
  <2>1. a[1] # Crlf /\ a[3] # Crlf
    BY <1>4 DEF Token, Crlf
  <2>2. IsBlank(a, 5) /\ ~IsBlank(a, 1) /\ ~IsBlank(a, 2) /\ ~IsBlank(a, 3) /\ ~IsBlank(a, 4)
    BY <1>4, <2>1 DEF IsBlank
  <2>3. 5 \in DOMAIN a /\ P(a, 5)
    <3>1. \A l \in 1..(5 - 1) : l = 1 \/ l = 2 \/ l = 3 \/ l = 4
      OBVIOUS
    <3>2. \A l \in 1..(5 - 1) : ~IsBlank(a, l)
      BY <2>2, <3>1
    <3>3. 5 \in 1..(5 + Len(c))
      BY <1>1
    <3>. QED  BY <1>5, <2>2, <3>2, <3>3
  <2>4. ASSUME NEW k \in DOMAIN a, P(a, k) PROVE k = 5
    <3>1. k \in Nat /\ k > 0
      BY <1>1, <1>5
    <3>2. k # 1 /\ k # 2 /\ k # 3 /\ k # 4
      BY <2>2, <2>4
    <3>3. ~(k > 5)
      <4>1. SUFFICES ASSUME k > 5 PROVE FALSE
        OBVIOUS
      <4>2. 5 \in 1..(k - 1)
        BY <3>1, <4>1
      <4>. QED  BY <2>2, <2>4, <4>2
    <3>. QED  BY <3>1, <3>2, <3>3
  <2>5. BlankLine(a) = CHOOSE k \in DOMAIN a : P(a, k)
    BY DEF BlankLine
  <2>. HIDE DEF P
  <2>. QED  BY <2>3, <2>4, <2>5
<1>7. ASSUME NEW k \in DOMAIN a, a[k].is = "Content-Length" PROVE a[k].of = Len(a) - BlankLine(a)
  <2>1. k \in 1..(5 + Len(c))
    BY <1>5
  <2>2. CASE k = 1
    BY <1>1, <1>3, <1>4, <1>6, <2>2 DEF Token
  <2>3. CASE k \in 2..5
    <3>1. k = 2 \/ k = 3 \/ k = 4 \/ k = 5
      BY <2>3
    <3>. QED  BY <1>4, <1>7, <3>1 DEF Token, Crlf
  <2>4. CASE k > 5
    <3>1. k - 5 \in 1..Len(c) /\ 2 + k = 7 + (k - 5)
      BY <1>1, <2>1, <2>4
    <3>2. a[k] = c[k - 5]
      BY <1>1, <1>3, <2>1, <3>1
    <3>3. c[k - 5] \in {Text, Crlf}
      BY <3>1, ElementOfSeq
    <3>. QED  BY <1>7, <3>2, <3>3 DEF Token, Text, Crlf
  <2>. QED  BY <1>1, <2>1, <2>2, <2>3, <2>4
<1>8. LengthOfContent(a)
  BY <1>7 DEF LengthOfContent
<1>. QED  BY <1>8 DEF a, r


\* An answer holds the tokens of its response.
LEMMA AnswerIs ==
  ASSUME NEW s \in Seq(Tokens)
  PROVE  /\ FirstLineEnd(s) \in 0..Len(s)
         /\ AnswerOf(s) \in Seq(Tokens)
         /\ Len(AnswerOf(s)) = Len(s) - FirstLineEnd(s)
         /\ \A k \in 1..Len(AnswerOf(s)) :
              /\ FirstLineEnd(s) + k \in 1..Len(s)
              /\ AnswerOf(s)[k] = s[FirstLineEnd(s) + k]
<1>. DEFINE n == FirstLineEnd(s)
            a == AnswerOf(s)
<1>1. Len(s) \in Nat
  BY LenProperties
<1>2. n \in 0..Len(s)
  BY <1>1, FirstLineIs DEF EndsFirstLine
<1>3. a = SubSeq(s, n + 1, Len(s))
  BY DEF AnswerOf
<1>. HIDE DEF n, a
<1>4. n + 1 \in 1..(Len(s) + 1) /\ Len(s) \in ((n + 1) - 1)..Len(s)
      /\ Len(s) - (n + 1) + 1 = Len(s) - n
  BY <1>1, <1>2
<1>5. /\ a \in Seq(Tokens) /\ Len(a) = Len(s) - n
      /\ \A k \in 1..(Len(s) - n) : a[k] = s[(n + 1) + k - 1]
  BY <1>3, <1>4, PieceIs
<1>6. ASSUME NEW k \in 1..Len(a) PROVE n + k \in 1..Len(s) /\ a[k] = s[n + k]
  <2>1. k \in 1..(Len(s) - n) /\ (n + 1) + k - 1 = n + k /\ n + k \in 1..Len(s)
    BY <1>1, <1>2, <1>5
  <2>. QED  BY <1>5, <2>1
<1>. QED  BY <1>2, <1>5, <1>6 DEF n, a

\* A response without a Content-Length says no wrong length.
LEMMA NoLengthIsRight ==
  ASSUME NEW s \in Seq(Tokens), \A k \in 1..Len(s) : s[k].is # "Content-Length"
  PROVE  LengthOfContent(AnswerOf(s))
<1>. DEFINE a == AnswerOf(s)
<1>1. a \in Seq(Tokens)
      /\ \A k \in 1..Len(a) : \E l \in 1..Len(s) : a[k] = s[l]
  BY AnswerIs
<1>. HIDE DEF a
<1>2. DOMAIN a = 1..Len(a)
  BY <1>1, LenProperties
<1>3. LengthOfContent(a)
  BY <1>1, <1>2 DEF LengthOfContent
<1>. QED  BY <1>3 DEF a

\* The pages and the other texts are lines.
LEMMA TextsAre ==
  ASSUME NEW n \in Int PROVE Texts(n) \subseteq Seq({Text, Crlf})
BY DEF Texts

\* handle_request's replies, as they go over the socket, are right about their length.
LEMMA RepliesAreRight ==
  ASSUME NEW rep \in Replies
  PROVE  ToBuffers(rep) \in Seq(Tokens) /\ LengthOfContent(AnswerOf(ToBuffers(rep)))
<1>1. CASE \E f \in Texts(MaxFile) : rep = FileReply(f)
  <2>1. PICK f \in Texts(MaxFile) : rep = FileReply(f)
    BY <1>1
  <2>2. f \in Seq({Text, Crlf})
    BY HttpClientAssumption, TextsAre
  <2>3. rep.status \in StatusType /\ rep.content = f /\ rep.headers = Headers(f)
    BY <2>1 DEF FileReply, StatusType
  <2>. QED  BY <2>2, <2>3, ReplyIs, ReplySaysItsLength
<1>2. CASE rep \in {StockReply(400), StockReply(404)}
  <2>1. <<Text>> \in Seq({Text, Crlf})
    OBVIOUS
  <2>2. StockContent(400) = <<Text>> /\ StockContent(404) = <<Text>>
    BY DEF StockContent
  <2>3. rep.status \in StatusType /\ rep.content = <<Text>> /\ rep.headers = Headers(<<Text>>)
    BY <1>2, <2>2 DEF StockReply, StatusType
  <2>. QED  BY <2>1, <2>3, ReplyIs, ReplySaysItsLength
<1>. QED  BY <1>1, <1>2 DEF Replies

\* The other responses have no Content-Length.
LEMMA OthersAreRight ==
  ASSUME NEW s \in OtherResponses
  PROVE  s \in Seq(Tokens) /\ LengthOfContent(AnswerOf(s))
<1>. DEFINE Plain == {Token("status", 200), Token("status", 404), Text, Crlf}
<1>1. Plain \subseteq Tokens /\ \A t \in Plain : t.is # "Content-Length"
  <2>1. Plain \subseteq Tokens
    BY TokensAre
  <2>2. /\ Token("status", 200).is # "Content-Length"
        /\ Token("status", 404).is # "Content-Length"
        /\ Text.is # "Content-Length" /\ Crlf.is # "Content-Length"
    BY DEF Token, Text, Crlf
  <2>. QED  BY <2>1, <2>2
<1>2. s \in Seq(Plain)
  <2>1. CASE s = <<>>
    BY <2>1
  <2>2. CASE s # <<>>
    <3>1. PICK first \in {Token("status", 200), Token("status", 404), Text},
               rest \in Texts(MaxResponse - 1) : s = <<first>> \o rest
      BY <2>2 DEF OtherResponses
    <3>2. rest \in Seq({Text, Crlf})
      BY HttpClientAssumption, TextsAre
    <3>3. first \in Plain /\ {Text, Crlf} \subseteq Plain
      OBVIOUS
    <3>. HIDE DEF Plain
    <3>4. rest \in Seq(Plain) /\ <<first>> \in Seq(Plain)
      BY <3>2, <3>3
    <3>. QED  BY <3>1, <3>4, ConcatProperties
  <2>. QED  BY <2>1, <2>2
<1>. HIDE DEF Plain
<1>3. s \in Seq(Tokens)
  BY <1>1, <1>2
<1>4. \A k \in 1..Len(s) : s[k].is # "Content-Length"
  BY <1>1, <1>2, ElementOfSeq
<1>. QED  BY <1>3, <1>4, NoLengthIsRight

-----------------------------------------------------------------------------
(* The invariant of the client.                                            *)

\* The operations before the first read.
Untouched == {"resolve", "connect", "write"}

\* Until the status line is there, the buffer is what has been read.
StatusInBuffer ==
  /\ stage \in Untouched => taken = 0 /\ response_ = <<>>
  /\ stage = "status" /\ outcome = "running" => response_ = SubSeq(response, 1, taken)

\* From then on, what is printed and what is in the buffer are, together, what has
\* been read behind it.
PrintedAndBuffered ==
  stage \in {"headers", "content"} =>
    /\ FirstLineEnd(response) \in 1..taken
    /\ output \o response_ = SubSeq(response, FirstLineEnd(response) + 1, taken)

\* Nothing is printed before the headers are complete; all is when the end is good.
PrintedLate ==
  /\ stage # "content" => output = <<>>
  /\ outcome = "done" => output = Answer

\* The inductive invariant of the client.
ClientIInv ==
  /\ response \in Seq(Tokens) /\ response_ \in Seq(Tokens) /\ output \in Seq(Tokens)
  /\ ClientTypeOK /\ cout = "good"
  /\ LengthOfContent(Answer)
  /\ StatusInBuffer /\ PrintedAndBuffered /\ PrintedLate
  /\ GoodAnswerIsTaken

\* It holds before the name is resolved.
LEMMA ClientInitIInv == ClientInit => ClientIInv
<1>. SUFFICES ASSUME ClientInit PROVE ClientIInv
  OBVIOUS
<1>1. /\ taken = 0 /\ ended = "open" /\ stage = "resolve" /\ outcome = "running"
      /\ response_ = <<>> /\ output = <<>> /\ cout = "good"
      /\ response \in {ToBuffers(rep) : rep \in Replies} \cup OtherResponses
  BY DEF ClientInit
<1>2. response \in Seq(Tokens) /\ LengthOfContent(AnswerOf(response))
  BY <1>1, RepliesAreRight, OthersAreRight
<1>3. Answer = AnswerOf(response)
  BY DEF Answer, AnswerOf
<1>4. Len(response) \in Nat
  BY <1>2, LenProperties
<1>5. ClientTypeOK
  BY <1>1, <1>4 DEF ClientTypeOK
<1>6. StatusInBuffer /\ PrintedAndBuffered /\ PrintedLate /\ GoodAnswerIsTaken
  BY <1>1 DEF StatusInBuffer, PrintedAndBuffered, PrintedLate, GoodAnswerIsTaken, Untouched
<1>. QED  BY <1>1, <1>2, <1>3, <1>5, <1>6 DEF ClientIInv


-----------------------------------------------------------------------------
(* The steps of the client.                                                *)

\* The variables that most steps leave alone.
LEMMA KeepsAnswer ==
  ASSUME ClientIInv, response' = response
  PROVE  /\ response' \in Seq(Tokens) /\ Answer' = Answer /\ LengthOfContent(Answer)'
         /\ Answer = AnswerOf(response)
BY DEF ClientIInv, Answer, AnswerOf

\* An operation that needs no data reads and prints nothing.
LEMMA GoesKeeps ==
  ASSUME ClientIInv, NEW at, NEW next, Goes(at, next),
         <<at, next>> \in {<<"resolve", "connect">>, <<"connect", "write">>,
                           <<"write", "status">>}
  PROVE  ClientIInv'
<1>1. /\ stage = at /\ outcome = "running"
      /\ (stage' = next /\ outcome' = "running") \/ (stage' = at /\ outcome' = "error")
      /\ response' = response /\ taken' = taken /\ ended' = ended
      /\ response_' = response_ /\ output' = output /\ cout' = cout
  BY DEF Goes, Client
<1>2. /\ at \in Untouched /\ next \in Untouched \cup {"status"}
  BY DEF Untouched
<1>3. /\ response_ \in Seq(Tokens) /\ output \in Seq(Tokens) /\ ClientTypeOK /\ cout = "good"
      /\ taken = 0 /\ response_ = <<>> /\ output = <<>>
  BY <1>1, <1>2 DEF ClientIInv, StatusInBuffer, PrintedLate, Untouched
<1>4. stage' \in Untouched \cup {"status"} /\ outcome' \in {"running", "error"}
      /\ (stage' = "status" => outcome' = "running")
  BY <1>1, <1>2 DEF Untouched
<1>5. ClientTypeOK'
  BY <1>1, <1>3, <1>4 DEF ClientTypeOK, Untouched
<1>6. SubSeq(response, 1, 0) = <<>>
  BY SubSeqEmpty
<1>7. StatusInBuffer'
  BY <1>1, <1>3, <1>6 DEF StatusInBuffer
<1>8. PrintedAndBuffered' /\ PrintedLate'
  BY <1>1, <1>3, <1>4 DEF PrintedAndBuffered, PrintedLate, Untouched
<1>9. GoodAnswerIsTaken'
  BY <1>4 DEF GoodAnswerIsTaken, Untouched
<1>. QED  BY <1>1, <1>3, <1>5, <1>7, <1>8, <1>9, KeepsAnswer DEF ClientIInv

\* The server's end of the connection changes nothing that has come.
LEMMA ServerEndsKeeps == ClientIInv /\ ServerEnds => ClientIInv'
<1>. SUFFICES ASSUME ClientIInv, ServerEnds PROVE ClientIInv'
  OBVIOUS
<1>1. /\ ended = "open" /\ ended' \in {"eof", "reset"}
      /\ response' = response /\ taken' = taken /\ stage' = stage /\ outcome' = outcome
      /\ response_' = response_ /\ output' = output /\ cout' = cout
  BY DEF ServerEnds
<1>2. ClientTypeOK'
  BY <1>1 DEF ClientIInv, ClientTypeOK
<1>3. StatusInBuffer' /\ PrintedAndBuffered' /\ PrintedLate'
  BY <1>1, KeepsAnswer
     DEF ClientIInv, StatusInBuffer, PrintedAndBuffered, PrintedLate, Untouched
<1>4. GoodAnswerIsTaken'
  BY <1>1, KeepsAnswer DEF ClientIInv, GoodAnswerIsTaken
<1>. QED  BY <1>1, <1>2, <1>3, <1>4, KeepsAnswer DEF ClientIInv

\* A piece of the response is appended to the buffer.
LEMMA ReadSomeKeeps == ClientIInv /\ ReadSome => ClientIInv'
<1>. SUFFICES ASSUME ClientIInv, ReadSome PROVE ClientIInv'
  OBVIOUS
<1>1. PICK n \in (taken + 1)..Len(response) :
        response_' = response_ \o SubSeq(response, taken + 1, n) /\ taken' = n
  BY DEF ReadSome
<1>2. /\ stage \in {"status", "headers", "content"} /\ outcome = "running"
      /\ response' = response /\ ended' = ended /\ stage' = stage /\ output' = output
      /\ cout' = cout /\ outcome' = outcome
  BY DEF ReadSome, Reading
<1>3. /\ response \in Seq(Tokens) /\ response_ \in Seq(Tokens) /\ output \in Seq(Tokens)
      /\ ClientTypeOK /\ taken \in 0..Len(response)
      /\ StatusInBuffer /\ PrintedAndBuffered /\ PrintedLate /\ GoodAnswerIsTaken
  BY DEF ClientIInv, ClientTypeOK
<1>4. Len(response) \in Nat
  BY <1>3, LenProperties
<1>. DEFINE piece == SubSeq(response, taken + 1, n)
<1>5. /\ taken \in Nat /\ n \in taken..Len(response) /\ n \in Nat
      /\ taken + 1 \in 1..(Len(response) + 1) /\ n \in ((taken + 1) - 1)..Len(response)
  BY <1>1, <1>3, <1>4
<1>6. piece \in Seq(Tokens)
  BY <1>3, <1>5, PieceIs
<1>7. response_' \in Seq(Tokens)
  BY <1>1, <1>3, <1>6, ConcatProperties
<1>8. ClientTypeOK'
  BY <1>1, <1>2, <1>3, <1>5 DEF ClientTypeOK
<1>9. StatusInBuffer'
  <2>1. CASE stage = "status"
    <3>1. response_ = SubSeq(response, 1, taken)
      BY <1>2, <1>3, <2>1 DEF StatusInBuffer
    <3>2. SubSeq(response, 1, taken) \o piece = SubSeq(response, 1, n)
      <4>1. 1 \in 1..(Len(response) + 1) /\ taken \in (1 - 1)..Len(response)
        BY <1>4, <1>5
      <4>. QED  BY <1>3, <1>5, <4>1, ConcatAdjacentSubSeq
    <3>3. response_' = SubSeq(response', 1, taken')
      BY <1>1, <1>2, <3>1, <3>2
    <3>. QED  BY <1>2, <2>1, <3>3 DEF StatusInBuffer, Untouched
  <2>2. CASE stage # "status"
    BY <1>2, <2>2 DEF StatusInBuffer, Untouched
  <2>. QED  BY <2>1, <2>2
<1>10. PrintedAndBuffered'
  <2>. DEFINE first == FirstLineEnd(response)
  <2>1. SUFFICES ASSUME stage \in {"headers", "content"}
                 PROVE  /\ first \in 1..n
                        /\ output \o response_' = SubSeq(response, first + 1, n)
    BY <1>1, <1>2 DEF PrintedAndBuffered
  <2>2. first \in 1..taken /\ output \o response_ = SubSeq(response, first + 1, taken)
    BY <1>3, <2>1 DEF PrintedAndBuffered
  <2>. HIDE DEF first, piece
  <2>3. first \in 1..n /\ first \in 0..Len(response) /\ taken \in first..Len(response)
    BY <1>3, <1>4, <1>5, <2>2
  <2>4. SubSeq(response, first + 1, taken) \o piece = SubSeq(response, first + 1, n)
    BY <1>3, <1>5, <2>3, PiecesJoin DEF piece
  <2>5. (output \o response_) \o piece = output \o (response_ \o piece)
    BY <1>3, <1>6, ConcatAssociative
  <2>6. response_' = response_ \o piece
    BY <1>1 DEF piece
  <2>. QED  BY <2>2, <2>3, <2>4, <2>5, <2>6
<1>11. PrintedLate' /\ GoodAnswerIsTaken'
  BY <1>2, <1>3, KeepsAnswer DEF PrintedLate, GoodAnswerIsTaken
<1>. QED  BY <1>2, <1>3, <1>7, <1>8, <1>9, <1>10, <1>11, KeepsAnswer DEF ClientIInv

\* A read that ends with an error leaves all as it was, but for the outcome.
LEMMA ReadErrorKeeps ==
  ASSUME ClientIInv, ReadError, stage \in {"status", "headers", "content"},
         stage' = stage, outcome' \in {"done", "error"},
         outcome' = "done" => output = Answer,
         outcome' = "error" =>
           \/ ended = "reset" \/ ~HasLine(response) \/ ~HasBlankLine(Answer),
         UNCHANGED <<response, taken, ended, response_, output, cout>>
  PROVE  ClientIInv'
<1>1. ClientTypeOK' /\ StatusInBuffer' /\ PrintedAndBuffered'
  BY DEF ClientIInv, ClientTypeOK, StatusInBuffer, PrintedAndBuffered, Untouched
<1>2. PrintedLate'
  BY KeepsAnswer DEF ClientIInv, PrintedLate
<1>3. GoodAnswerIsTaken'
  BY KeepsAnswer DEF GoodAnswerIsTaken
<1>. QED  BY <1>1, <1>2, <1>3, KeepsAnswer DEF ClientIInv

\* handle_read_status_line.
LEMMA HandleReadStatusLineKeeps == ClientIInv /\ HandleReadStatusLine => ClientIInv'
<1>. SUFFICES ASSUME ClientIInv, HandleReadStatusLine PROVE ClientIInv'
  OBVIOUS
<1>0. /\ response \in Seq(Tokens) /\ response_ \in Seq(Tokens) /\ output \in Seq(Tokens)
      /\ ClientTypeOK /\ taken \in 0..Len(response) /\ cout = "good"
      /\ StatusInBuffer /\ PrintedLate
  BY DEF ClientIInv, ClientTypeOK
<1>. DEFINE first == FirstLineEnd(response)
<1>1. CASE ReadError /\ stage = "status"
  <2>1. /\ Client("status", "error")
        /\ UNCHANGED <<response, taken, ended, response_, output, cout>>
    BY <1>1 DEF HandleReadStatusLine, Completed, ReadError, Reading
  <2>2. ended = "reset" \/ ~HasLine(response)
    <3>1. SUFFICES ASSUME ended # "reset" PROVE ~HasLine(response)
      OBVIOUS
    <3>2. taken = Len(response) /\ ~HasLine(response_) /\ outcome = "running"
      BY <1>1, <3>1 DEF ReadError, Reading, Complete
    <3>3. response_ = SubSeq(response, 1, Len(response))
      BY <1>0, <1>1, <3>2 DEF StatusInBuffer
    <3>4. SubSeq(response, 1, Len(response)) = response
      BY <1>0, SubSeqFull
    <3>. QED  BY <3>2, <3>3, <3>4
  <2>. QED  BY <1>1, <2>1, <2>2, ReadErrorKeeps DEF Client
<1>2. CASE Completed("status")
  <2>1. /\ response_' = SubSeq(response_, FirstLineEnd(response_) + 1, Len(response_))
        /\ CASE response_[1].is # "status" -> Client("status", "invalid")
             [] response_[1].is = "status" /\ response_[1].of # 200 ->
                  Client("status", "status")
             [] OTHER -> Client("headers", "running")
        /\ response' = response /\ taken' = taken /\ ended' = ended /\ output' = output
        /\ cout' = cout
    BY <1>2 DEF HandleReadStatusLine, Completed, ReadError, Reading
  <2>2. stage = "status" /\ outcome = "running" /\ HasLine(response_)
    BY <1>2 DEF Completed, Complete
  <2>3. response_ = SubSeq(response, 1, taken) /\ output = <<>>
    BY <1>0, <2>2 DEF StatusInBuffer, PrintedLate
  <2>4. HasLine(response) /\ FirstLineEnd(response_) = first /\ first \in 1..taken
    BY <1>0, <2>2, <2>3, FirstLineOfBeginning
  <2>5. Len(response) \in Nat /\ taken \in Nat
    BY <1>0, LenProperties
  <2>. HIDE DEF first
  <2>6. response_' = SubSeq(response, first + 1, taken)
    <3>1. first \in 0..taken
      BY <2>4, <2>5
    <3>. QED  BY <1>0, <2>1, <2>3, <2>4, <3>1, RestOfBeginning
  <2>7. response_' \in Seq(Tokens)
    <3>1. first + 1 \in 1..(Len(response) + 1) /\ taken \in ((first + 1) - 1)..Len(response)
      BY <1>0, <2>4, <2>5
    <3>. QED  BY <1>0, <2>6, <3>1, PieceIs
  <2>8. response_[1] = response[1]
    <3>1. 1 \in 1..(Len(response) + 1) /\ taken \in (1 - 1)..Len(response)
          /\ 1 \in 1..(taken - 1 + 1) /\ 1 + 1 - 1 = 1
      BY <1>0, <2>4, <2>5
    <3>. QED  BY <1>0, <2>3, <3>1, PieceIs
  <2>9. CASE response_[1].is = "status" /\ response_[1].of = 200
    <3>1. stage' = "headers" /\ outcome' = "running"
      BY <2>1, <2>9 DEF Client
    <3>2. ClientTypeOK'
      BY <1>0, <2>1, <3>1 DEF ClientTypeOK
    <3>3. output \o response_' = response_'
      BY <2>3, <2>7, ConcatEmptySeq
    <3>4. PrintedAndBuffered'
      BY <2>1, <2>4, <2>6, <3>3 DEF PrintedAndBuffered, first
    <3>5. StatusInBuffer' /\ PrintedLate' /\ GoodAnswerIsTaken'
      BY <2>1, <2>3, <3>1 DEF StatusInBuffer, PrintedLate, GoodAnswerIsTaken, Untouched
    <3>. QED  BY <1>0, <2>1, <2>7, <3>2, <3>4, <3>5, KeepsAnswer DEF ClientIInv
  <2>10. CASE ~(response_[1].is = "status" /\ response_[1].of = 200)
    <3>1. stage' = "status" /\ outcome' \in {"invalid", "status"}
      BY <2>1, <2>10 DEF Client
    <3>2. ClientTypeOK'
      BY <1>0, <2>1, <3>1 DEF ClientTypeOK
    <3>3. response[1] # Token("status", 200)
      BY <2>8, <2>10 DEF Token
    <3>4. GoodAnswerIsTaken'
      BY <2>1, <3>3 DEF GoodAnswerIsTaken
    <3>5. StatusInBuffer' /\ PrintedAndBuffered' /\ PrintedLate'
      BY <2>1, <2>3, <3>1 DEF StatusInBuffer, PrintedAndBuffered, PrintedLate, Untouched
    <3>. QED  BY <1>0, <2>1, <2>7, <3>2, <3>4, <3>5, KeepsAnswer DEF ClientIInv
  <2>. QED  BY <2>9, <2>10
<1>. QED  BY <1>1, <1>2 DEF HandleReadStatusLine

\* handle_read_headers.
LEMMA HandleReadHeadersKeeps == ClientIInv /\ HandleReadHeaders => ClientIInv'
<1>. SUFFICES ASSUME ClientIInv, HandleReadHeaders PROVE ClientIInv'
  OBVIOUS
<1>0. /\ response \in Seq(Tokens) /\ response_ \in Seq(Tokens) /\ output \in Seq(Tokens)
      /\ ClientTypeOK /\ taken \in 0..Len(response) /\ cout = "good"
      /\ PrintedAndBuffered /\ PrintedLate
  BY DEF ClientIInv, ClientTypeOK
<1>1. CASE ReadError /\ stage = "headers"
  <2>1. /\ Client("headers", "error")
        /\ UNCHANGED <<response, taken, ended, response_, output, cout>>
    BY <1>1 DEF HandleReadHeaders, Completed, ReadError, Reading
  <2>2. ended = "reset" \/ ~HasBlankLine(Answer)
    <3>1. SUFFICES ASSUME ended # "reset" PROVE ~HasBlankLine(Answer)
      OBVIOUS
    <3>2. taken = Len(response) /\ ~HasBlankLine(response_)
      BY <1>1, <3>1 DEF ReadError, Reading, Complete
    <3>3. output \o response_ = Answer /\ output = <<>>
      BY <1>0, <1>1, <3>2 DEF PrintedAndBuffered, PrintedLate, Answer
    <3>4. output \o response_ = response_
      BY <1>0, <3>3, ConcatEmptySeq
    <3>. QED  BY <3>2, <3>3, <3>4
  <2>. QED  BY <1>1, <2>1, <2>2, ReadErrorKeeps DEF Client
<1>2. CASE Completed("headers")
  <2>. DEFINE n == BlankLine(response_)
              lines == SubSeq(response_, 1, n)
              content == SubSeq(response_, n + 1, Len(response_))
  <2>1. /\ Prints(lines, content) /\ response_' = <<>>
        /\ stage' = "content" /\ outcome' = "running"
        /\ response' = response /\ taken' = taken /\ ended' = ended
    BY <1>2 DEF HandleReadHeaders, Completed, ReadError, Reading, Client, Rest
  <2>2. stage = "headers" /\ outcome = "running" /\ HasBlankLine(response_)
    BY <1>2 DEF Completed, Complete
  <2>3. output = <<>>
    BY <1>0, <2>2 DEF PrintedLate
  <2>4. n \in 1..Len(response_) /\ Len(response_) \in Nat
    BY <1>0, <2>2, BlankLineIs, LenProperties
  <2>5. cout' = "good" /\ output' = output \o lines \o content
    BY <1>0, <2>1 DEF Prints, WorthPrinting
  <2>. HIDE DEF n
  <2>6. lines \in Seq(Tokens) /\ content \in Seq(Tokens)
    <3>1. 1 \in 1..(Len(response_) + 1) /\ n \in (1 - 1)..Len(response_)
          /\ n + 1 \in 1..(Len(response_) + 1)
          /\ Len(response_) \in ((n + 1) - 1)..Len(response_)
      BY <2>4
    <3>. QED  BY <1>0, <3>1, PieceIs
  <2>7. lines \o content = response_
    <3>1. 1 \in 1..(Len(response_) + 1) /\ n \in (1 - 1)..Len(response_)
          /\ Len(response_) \in n..Len(response_)
      BY <2>4
    <3>2. SubSeq(response_, 1, n) \o content = SubSeq(response_, 1, Len(response_))
      BY <1>0, <3>1, ConcatAdjacentSubSeq
    <3>3. SubSeq(response_, 1, Len(response_)) = response_
      BY <1>0, SubSeqFull
    <3>. QED  BY <3>2, <3>3
  <2>. HIDE DEF lines, content
  <2>8. output' = response_
    <3>1. output \o lines = lines
      BY <2>3, <2>6, ConcatEmptySeq
    <3>. QED  BY <2>5, <2>7, <3>1
  <2>9. /\ FirstLineEnd(response) \in 1..taken
        /\ response_ = SubSeq(response, FirstLineEnd(response) + 1, taken)
    <3>1. output \o response_ = response_
      BY <1>0, <2>3, ConcatEmptySeq
    <3>. QED  BY <1>0, <2>2, <3>1 DEF PrintedAndBuffered
  <2>10. output' \o response_' = output'
    BY <1>0, <2>1, <2>8, ConcatEmptySeq
  <2>11. PrintedAndBuffered'
    BY <2>1, <2>8, <2>9, <2>10 DEF PrintedAndBuffered
  <2>12. ClientTypeOK'
    BY <1>0, <2>1, <2>5 DEF ClientTypeOK
  <2>13. StatusInBuffer' /\ PrintedLate' /\ GoodAnswerIsTaken'
    BY <2>1 DEF StatusInBuffer, PrintedLate, GoodAnswerIsTaken, Untouched
  <2>. QED  BY <1>0, <2>1, <2>5, <2>8, <2>11, <2>12, <2>13, KeepsAnswer DEF ClientIInv
<1>. QED  BY <1>1, <1>2 DEF HandleReadHeaders

\* handle_read_content.
LEMMA HandleReadContentKeeps == ClientIInv /\ HandleReadContent => ClientIInv'
<1>. SUFFICES ASSUME ClientIInv, HandleReadContent PROVE ClientIInv'
  OBVIOUS
<1>0. /\ response \in Seq(Tokens) /\ response_ \in Seq(Tokens) /\ output \in Seq(Tokens)
      /\ ClientTypeOK /\ taken \in 0..Len(response) /\ cout = "good"
      /\ PrintedAndBuffered /\ PrintedLate
  BY DEF ClientIInv, ClientTypeOK
<1>1. CASE ReadError /\ stage = "content"
  <2>1. /\ Client("content", AfterContent)
        /\ UNCHANGED <<response, taken, ended, response_, output, cout>>
    BY <1>1 DEF HandleReadContent, Completed, ReadError, Reading
  <2>2. CASE ended = "eof"
    <3>1. taken = Len(response) /\ response_ = <<>>
      BY <1>1, <2>2 DEF ReadError, Reading, Complete
    <3>2. output \o <<>> = Answer
      BY <1>0, <1>1, <3>1 DEF PrintedAndBuffered, Answer
    <3>3. output = Answer
      BY <1>0, <3>2, ConcatEmptySeq
    <3>. QED  BY <1>1, <2>1, <2>2, <3>3, ReadErrorKeeps DEF Client, AfterContent
  <2>3. CASE ended # "eof"
    <3>1. ended = "reset"
      BY <1>1, <2>3 DEF ReadError
    <3>. QED  BY <1>1, <2>1, <2>3, <3>1, ReadErrorKeeps DEF Client, AfterContent
  <2>. QED  BY <2>2, <2>3
<1>2. CASE Completed("content")
  <2>1. /\ Prints(<<>>, response_) /\ response_' = <<>>
        /\ response' = response /\ taken' = taken /\ ended' = ended /\ stage' = stage
        /\ outcome' = outcome
    BY <1>2 DEF HandleReadContent, Completed, ReadError, Reading
  <2>2. stage = "content" /\ outcome = "running"
    BY <1>2 DEF Completed
  <2>3. cout' = "good" /\ output' = output \o <<>> \o response_
    BY <1>0, <2>1 DEF Prints, WorthPrinting
  <2>4. output' = output \o response_
    <3>1. output \o <<>> = output
      BY <1>0, ConcatEmptySeq
    <3>. QED  BY <2>3, <3>1
  <2>5. output' \in Seq(Tokens)
    BY <1>0, <2>4, ConcatProperties
  <2>6. output' \o response_' = output'
    BY <2>1, <2>5, ConcatEmptySeq
  <2>7. PrintedAndBuffered'
    BY <1>0, <2>1, <2>2, <2>4, <2>6 DEF PrintedAndBuffered
  <2>8. ClientTypeOK'
    BY <1>0, <2>1, <2>3 DEF ClientTypeOK
  <2>9. StatusInBuffer' /\ PrintedLate' /\ GoodAnswerIsTaken'
    BY <2>1, <2>2 DEF StatusInBuffer, PrintedLate, GoodAnswerIsTaken, Untouched
  <2>. QED  BY <1>0, <2>1, <2>3, <2>5, <2>7, <2>8, <2>9, KeepsAnswer DEF ClientIInv
<1>. QED  BY <1>1, <1>2 DEF HandleReadContent

\* A step that changes nothing keeps the invariant.
LEMMA ClientStutter == ClientIInv /\ UNCHANGED clientVars => ClientIInv'
<1>. SUFFICES ASSUME ClientIInv, UNCHANGED clientVars PROVE ClientIInv'
  OBVIOUS
<1>1. /\ response' = response /\ taken' = taken /\ ended' = ended /\ stage' = stage
      /\ outcome' = outcome /\ response_' = response_ /\ output' = output /\ cout' = cout
  BY DEF clientVars
<1>2. ClientTypeOK'
  BY <1>1 DEF ClientIInv, ClientTypeOK
<1>3. StatusInBuffer' /\ PrintedAndBuffered' /\ PrintedLate'
  BY <1>1, KeepsAnswer DEF ClientIInv, StatusInBuffer, PrintedAndBuffered, PrintedLate
<1>4. GoodAnswerIsTaken'
  BY <1>1, KeepsAnswer DEF ClientIInv, GoodAnswerIsTaken
<1>. QED  BY <1>1, <1>2, <1>3, <1>4, KeepsAnswer DEF ClientIInv

\* Every call of the client, and the server, keep the invariant.
THEOREM ClientInvariance == ClientSpec => []ClientIInv
<1>1. ClientInit => ClientIInv
  BY ClientInitIInv
<1>2. ClientIInv /\ [ClientNext]_clientVars => ClientIInv'
  <2>. SUFFICES ASSUME ClientIInv, [ClientNext]_clientVars PROVE ClientIInv'
    OBVIOUS
  <2>1. CASE HandleResolve
    BY <2>1, GoesKeeps DEF HandleResolve
  <2>2. CASE HandleConnect
    BY <2>2, GoesKeeps DEF HandleConnect
  <2>3. CASE HandleWriteRequest
    BY <2>3, GoesKeeps DEF HandleWriteRequest
  <2>4. CASE UNCHANGED clientVars
    BY <2>4, ClientStutter
  <2>. QED  BY <2>1, <2>2, <2>3, <2>4, ReadSomeKeeps, HandleReadStatusLineKeeps,
               HandleReadHeadersKeeps, HandleReadContentKeeps, ServerEndsKeeps
            DEF ClientNext, Calls, Terminated
<1>. QED  BY <1>1, <1>2, PTL DEF ClientSpec

\* async_client.cpp and sync_client.cpp: in whatever pieces the response comes, it is
\* printed in order, all of it when the client ends well, and none that is good is
\* given up while the connection holds.
THEOREM AnswerCorrect == ClientSpec => []AnswerIsPrinted
<1>1. ClientIInv => AnswerIsPrinted
  <2>. SUFFICES ASSUME ClientIInv PROVE AnswerIsPrinted
    OBVIOUS
  <2>1. /\ response \in Seq(Tokens) /\ response_ \in Seq(Tokens) /\ output \in Seq(Tokens)
        /\ ClientTypeOK /\ LengthOfContent(Answer) /\ taken \in 0..Len(response)
        /\ PrintedAndBuffered /\ PrintedLate /\ GoodAnswerIsTaken
    BY DEF ClientIInv, ClientTypeOK
  <2>2. ASSUME output # <<>> PROVE IsPrefix(output, Answer)
    <3>. DEFINE first == FirstLineEnd(response)
                rest == SubSeq(response, taken + 1, Len(response))
                more == response_ \o rest
    <3>1. stage = "content"
      BY <2>1, <2>2 DEF PrintedLate
    <3>2. first \in 1..taken /\ output \o response_ = SubSeq(response, first + 1, taken)
      BY <2>1, <3>1 DEF PrintedAndBuffered
    <3>3. Len(response) \in Nat /\ Len(output) \in Nat
      BY <2>1, LenProperties
    <3>4. Answer = SubSeq(response, first + 1, Len(response))
      BY DEF Answer
    <3>. HIDE DEF first
    <3>5. first \in 0..Len(response) /\ taken \in first..Len(response)
          /\ Len(response) \in taken..Len(response)
          /\ taken + 1 \in 1..(Len(response) + 1)
          /\ Len(response) \in ((taken + 1) - 1)..Len(response)
      BY <2>1, <3>2, <3>3
    <3>6. rest \in Seq(Tokens)
      BY <2>1, <3>5, PieceIs
    <3>7. (output \o response_) \o rest = Answer
      BY <2>1, <3>2, <3>4, <3>5, PiecesJoin
    <3>. HIDE DEF rest
    <3>8. more \in Seq(Tokens) /\ output \o more = Answer
      <4>1. more \in Seq(Tokens)
        BY <2>1, <3>6, ConcatProperties
      <4>2. (output \o response_) \o rest = output \o (response_ \o rest)
        BY <2>1, <3>6, ConcatAssociative
      <4>. QED  BY <3>7, <4>1, <4>2
    <3>. HIDE DEF more
    <3>9. Len(more) \in Nat /\ Len(output) # 0
      BY <2>1, <2>2, <3>8, LenProperties, EmptySeq
    <3>10. Len(output \o more) = Len(output) + Len(more)
      BY <2>1, <3>8, ConcatProperties
    <3>11. Len(output) <= Len(Answer)
      BY <3>3, <3>8, <3>9, <3>10
    <3>12. SubSeq(output \o more, 1, Len(output)) = SubSeq(output, 1, Len(output))
      <4>1. 1 \in 1..Len(output) /\ Len(output) \in 1..Len(output)
        BY <3>3, <3>9
      <4>. QED  BY <2>1, <3>8, <4>1, SubSeqOfConcat1
    <3>. QED  BY <3>8, <3>11, <3>12 DEF IsPrefix
  <2>3. PrintedInOrder
    BY <2>1, <2>2 DEF PrintedInOrder, PrintedLate
  <2>4. LengthIsRight
    BY <2>1 DEF PrintedLate, LengthIsRight, LengthOfContent
  <2>. QED  BY <2>1, <2>3, <2>4 DEF AnswerIsPrinted
<1>. QED  BY <1>1, ClientInvariance, PTL
=============================================================================
