--------------------------- MODULE RequestHandler ---------------------------
(***************************************************************************)
(* From the URI of a request to the file that is sent back: url_decode()   *)
(* and handle_request() of boost_http_server_1/src/request_handler.cpp     *)
(* (server 2 has a copy, server 3 one in file_handler.cpp).  A step is one *)
(* turn of url_decode's loop, or the rest of handle_request.  A character  *)
(* is its ASCII code.                                                      *)
(***************************************************************************)
EXTENDS Integers, Sequences, SequencesExt

CONSTANTS UriChars,   \* the characters a client may put in a URI
          MaxLength   \* bound: how many of them

\* Characters are bytes.
ASSUME RequestHandlerAssumption == UriChars \subseteq 0..255 /\ MaxLength \in Nat

Percent == 37
Plus == 43
Minus == 45
Dot == 46
Slash == 47
Space == 32
IndexHtml == <<105, 110, 100, 101, 120, 46, 104, 116, 109, 108>>

VARIABLES
  uri,           \* request::uri
  i,             \* url_decode's index, from 1
  request_path,  \* handle_request's request_path, url_decode's out
  extension,     \* handle_request's extension
  content_type,  \* the value of the reply's header Content-Type
  status         \* "decoding", or the status of the reply

handlerVars == <<uri, i, request_path, extension, content_type, status>>

-----------------------------------------------------------------------------
(* The conversions, and, before each, the faults a change of that code might *)
(* bring, to try the properties with: no action uses one.                    *)

IsHexDigit(c) == c \in (48..57) \cup (65..70) \cup (97..102)

HexDigit(c) == IF c <= 57 THEN c - 48 ELSE IF c <= 70 THEN c - 55 ELSE c - 87

\* What "is >> std::hex >> value" reads from the two characters, neither of which
\* is white space, since the parser ends the URI there: the number they
\* begin with, with a sign or without; "0x" alone is none.
ReadsNumber(c, d) ==
  \/ IsHexDigit(c) /\ ~(c = 48 /\ d \in {88, 120})
  \/ c \in {Plus, Minus} /\ IsHexDigit(d)

\* Fault: the digits are taken in the wrong order.
NumberBackwards(c, d) == IF IsHexDigit(d) THEN 16 * HexDigit(d) + HexDigit(c) ELSE 0

Number(c, d) ==
  CASE c = Minus -> -HexDigit(d)
    [] c = Plus -> HexDigit(d)
    [] IsHexDigit(d) -> 16 * HexDigit(c) + HexDigit(d)
    [] OTHER -> HexDigit(c)

\* static_cast<char>.
ToChar(n) == n % 256

\* i += 2 and the loop's ++i.
EscapeLength == 3

\* i + 3 <= in.size().
EscapeFits == i + 2 <= Len(uri)

HasDotDot(p) == \E k \in 1..(Len(p) - 1) : p[k] = Dot /\ p[k + 1] = Dot

\* Fault: the test is made before the URI is decoded.
PathOfUri == uri # <<>> /\ uri[1] = Slash /\ ~HasDotDot(uri)

\* "Request path must be absolute and not contain "..".".
GoodPath == /\ request_path # <<>>
            /\ request_path[1] = Slash
            /\ ~HasDotDot(request_path)

\* "If path ends in slash (i.e. is a directory) then add "index.html"."
FullPath(p) == IF Last(p) = Slash THEN p \o IndexHtml ELSE p

\* find_last_of, 0 for npos.
LastOf(p, c) ==
  IF \E k \in 1..Len(p) : p[k] = c
  THEN CHOOSE k \in 1..Len(p) : p[k] = c /\ \A l \in (k + 1)..Len(p) : p[l] # c
  ELSE 0

Extension(p) ==
  IF LastOf(p, Dot) > LastOf(p, Slash) THEN SubSeq(p, LastOf(p, Dot) + 1, Len(p))
  ELSE <<>>

\* The list mappings: gif, htm, html, jpg, png.
Mappings == {<<<<103, 105, 102>>, "image/gif">>,
             <<<<104, 116, 109>>, "text/html">>,
             <<<<104, 116, 109, 108>>, "text/html">>,
             <<<<106, 112, 103>>, "image/jpeg">>,
             <<<<112, 110, 103>>, "image/png">>}

ExtensionToType(e) ==
  IF \E m \in Mappings : m[1] = e THEN (CHOOSE m \in Mappings : m[1] = e)[2]
                                  ELSE "text/plain"

-----------------------------------------------------------------------------
HandlerInit ==
  /\ \E n \in 0..MaxLength : uri \in [1..n -> UriChars]
  /\ i = 1 /\ request_path = <<>> /\ extension = <<>>
  /\ content_type = "none"
  /\ status = "decoding"

Turn(c, length) ==
  /\ request_path' = Append(request_path, c)
  /\ i' = i + length
  /\ UNCHANGED <<uri, extension, content_type, status>>

\* A stock reply is a page.
StockType == "text/html"

Refused ==
  /\ status' = "bad_request"
  /\ content_type' = StockType
  /\ UNCHANGED <<uri, i, request_path, extension>>

Decoding == status = "decoding" /\ i <= Len(uri)
AtEscape == Decoding /\ uri[i] = Percent
Escaped == EscapeFits /\ ReadsNumber(uri[i + 1], uri[i + 2])

DecodeEscape ==
  /\ AtEscape /\ Escaped
  /\ Turn(ToChar(Number(uri[i + 1], uri[i + 2])), EscapeLength)

\* url_decode returns false.
RefuseEscape == AtEscape /\ ~Escaped /\ Refused

DecodePlus ==
  /\ Decoding /\ uri[i] = Plus
  /\ Turn(Space, 1)

DecodeOther ==
  /\ Decoding /\ uri[i] \notin {Percent, Plus}
  /\ Turn(uri[i], 1)

\* url_decode returns true.
Decoded == status = "decoding" /\ i > Len(uri)

RefusePath == Decoded /\ ~GoodPath /\ Refused

\* The file is there, or it is not.
OpenFile ==
  /\ Decoded /\ GoodPath
  /\ request_path' = FullPath(request_path)
  /\ extension' = Extension(request_path')
  /\ status' \in {"ok", "not_found"}
  /\ content_type' = IF status' = "ok" THEN ExtensionToType(extension') ELSE StockType
  /\ UNCHANGED <<uri, i>>

HandlerNext ==
  \/ DecodeEscape \/ RefuseEscape \/ DecodePlus \/ DecodeOther
  \/ RefusePath \/ OpenFile

HandlerSpec == HandlerInit /\ [][HandlerNext]_handlerVars

-----------------------------------------------------------------------------
(* The reference: what a URI means.                                        *)

\* Every '%' is followed by two hexadecimal digits.
WellFormed(s) ==
  \A k \in 1..Len(s) :
    s[k] = Percent =>
      k + 2 <= Len(s) /\ IsHexDigit(s[k + 1]) /\ IsHexDigit(s[k + 2])

\* The meaning of a well-formed URI.
Meaning(s) ==
  LET from[k \in 1..(Len(s) + 1)] ==
        IF k > Len(s) THEN <<>>
        ELSE IF s[k] = Percent
        THEN <<16 * HexDigit(s[k + 1]) + HexDigit(s[k + 2])>> \o from[k + 3]
        ELSE <<IF s[k] = Plus THEN Space ELSE s[k]>> \o from[k + 1]
  IN  from[1]

-----------------------------------------------------------------------------
(* Safety.                                                                 *)

\* Every variable has its type; a path holds chars, and it is never longer than
\* the URI (out.reserve) but for the index.html.
HandlerTypeOK ==
  /\ i \in 1..(Len(uri) + 1)
  /\ \A k \in 1..Len(request_path) : request_path[k] \in 0..255
  /\ Len(request_path) < i + (IF status \in {"ok", "not_found"} THEN Len(IndexHtml) ELSE 0)
  /\ status \in {"decoding", "bad_request", "ok", "not_found"}
  /\ status = "decoding" <=> content_type = "none"

\* A well-formed URI is decoded to what it means, and no well-formed URI is
\* refused but for the path it means.
DecodesRight ==
  WellFormed(uri) =>
    /\ Decoded => request_path = Meaning(uri)
    /\ status = "bad_request" =>
         LET p == Meaning(uri) IN p = <<>> \/ p[1] # Slash \/ HasDotDot(p)

\* Whatever the escapes say, the path handed to the stream is absolute and without
\* "..", and index.html is added to a directory only.
OpensGoodPath ==
  status \in {"ok", "not_found"} =>
    /\ request_path[1] = Slash /\ Last(request_path) # Slash
    /\ ~HasDotDot(request_path)

\* The type of the reply comes from the file's own extension, also when a
\* directory of its path has a dot in its name.
ExtensionOfFile == \A k \in 1..Len(extension) : extension[k] \notin {Slash, Dot}

\* What the reply says of its content is right for the pages that are no file, for
\* the index of a directory and for the files whose name ends with no known
\* extension, even one that begins or ends like it.
TypeOfContent ==
  /\ status \in {"bad_request", "not_found"} => content_type = "text/html"
  /\ status = "ok" =>
       \/ content_type = "text/plain"
       \/ \E m \in Mappings : content_type = m[2] /\ IsSuffix(<<Dot>> \o m[1], request_path)
  /\ status = "ok" /\ IsSuffix(IndexHtml, request_path) => content_type = "text/html"

\* The reply is the file that the URI names, with the type that its name says.
OpensRightFile == HandlerTypeOK /\ OpensGoodPath /\ ExtensionOfFile /\ TypeOfContent

\* "Returns false if the encoding was invalid" (request_handler.hpp:36-37).
InvalidEncodingIsRefused == Decoded => WellFormed(uri)
=============================================================================
