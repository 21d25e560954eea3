---------------------------- MODULE ChatMessage ----------------------------
(***************************************************************************)
(* The header of a chat message, cpp_03_example/chat_message.hpp: four     *)
(* characters for the length of the body, printed with "%4d" and read back *)
(* with atoi(), in an object whose body_length_ is unsigned and whose      *)
(* data_ has room for MaxBody characters.  Characters are ASCII codes.     *)
(***************************************************************************)
EXTENDS Integers, Sequences, SequencesExt

CONSTANTS HeaderChars,  \* the characters a peer may put in a header
          MaxBody,      \* max_body_length, 512 in the code
          MaxAsked,     \* bound: the longest body a client asks for
          SizeMod       \* bound: stands for the 2^64 values of size_t

HeaderLength == 4

\* Characters are bytes; the header has room for every length, and no negative
\* number of three digits comes out small when it wraps.
ASSUME ChatMessageAssumption == /\ HeaderChars \subseteq 0..255
                                /\ MaxBody \in 1..999
                                /\ MaxAsked \in Nat
                                /\ SizeMod \in Nat /\ SizeMod > MaxBody + 9999

Space == 32
Plus == 43
Minus == 45
Digits == 48..57

VARIABLES
  body_length,  \* chat_message::body_length_
  header,       \* the first HeaderLength characters of data_; <<>>: not set
  role          \* history: who put the header there: "none", "self", "peer"

messageVars == <<body_length, header, role>>

-----------------------------------------------------------------------------
(* The conversions, and, before each, the faults a change of that code might *)
(* bring, to try the properties with: no action uses one.                    *)

\* The longest prefix of s whose characters are all in C.
PrefixIn(s, C) ==
  SubSeq(s, 1, CHOOSE n \in 0..Len(s) :
                 /\ \A i \in 1..n : s[i] \in C
                 /\ n = Len(s) \/ s[n + 1] \notin C)

Drop(s, n) == SubSeq(s, n + 1, Len(s))

\* strncat() copies up to the first NUL, if there is one.
Copied(s) == PrefixIn(s, 1..255)

Value(digits) == FoldLeft(LAMBDA v, c : 10 * v + (c - 48), 0, digits)

\* atoi(): white space, a sign, as many digits as there are; 0 if there are none.
Atoi(s) ==
  LET text == Drop(s, Len(PrefixIn(s, {Space})))
      signed == text # <<>> /\ text[1] \in {Plus, Minus}
      value == Value(PrefixIn(IF signed THEN Tail(text) ELSE text, Digits))
  IN  IF signed /\ text[1] = Minus THEN -value ELSE value

\* Fault: body_length_ is an int.
Signed(n) == n

\* The assignment to a size_t.
ToSize(n) == n % SizeMod

\* "%4d": at least four columns, the number on the right.
Padded(digits) == [i \in 1..(HeaderLength - Len(digits)) |-> Space] \o digits

DecimalDigits(n) ==
  IF n < 10 THEN <<48 + n>>
  ELSE IF n < 100 THEN <<48 + (n \div 10), 48 + (n % 10)>>
  ELSE <<48 + (n \div 100), 48 + ((n \div 10) % 10), 48 + (n % 10)>>

\* What body_length() and decode_header() compare with.
TooLong(n) == n > MaxBody

-----------------------------------------------------------------------------
MessageInit == body_length = 0 /\ header = <<>> /\ role = "none"

\* body_length(new_length), on a message that is to be sent.  A message object
\* carries one message here: encode_header() and decode_header() look at nothing
\* that an earlier message may have left.
SetBodyLength ==
  /\ header = <<>>
  /\ \E n \in 0..MaxAsked : body_length' = IF TooLong(n) THEN MaxBody ELSE n
  /\ UNCHANGED <<header, role>>

EncodeHeader ==
  /\ role # "peer"
  /\ header' = Padded(DecimalDigits(body_length))
  /\ role' = "self"
  /\ UNCHANGED body_length

\* A read into data() gives the header of a peer.
ReceiveHeader ==
  /\ header = <<>> /\ body_length = 0
  /\ header' \in [1..HeaderLength -> HeaderChars]
  /\ role' = "peer"
  /\ UNCHANGED body_length

DecodedLength == ToSize(Atoi(Copied(header)))

\* decode_header() returns true.
DecodeHeader ==
  /\ header # <<>>
  /\ ~TooLong(DecodedLength)
  /\ body_length' = DecodedLength
  /\ UNCHANGED <<header, role>>

\* decode_header() returns false.
DecodeHeaderRefuses ==
  /\ header # <<>>
  /\ TooLong(DecodedLength)
  /\ body_length' = 0
  /\ UNCHANGED <<header, role>>

MessageNext ==
  \/ SetBodyLength \/ EncodeHeader \/ ReceiveHeader
  \/ DecodeHeader \/ DecodeHeaderRefuses

MessageSpec == MessageInit /\ [][MessageNext]_messageVars

-----------------------------------------------------------------------------
(* Safety.                                                                 *)

\* Types; and in every state the body fits into data_: body() and length() are
\* used for reads and writes without any further test.  A header that says less
\* than nothing is refused, because it wraps to a huge length.
MessageTypeOK ==
  /\ body_length \in 0..MaxBody
  /\ header = <<>> \/ Len(header) = HeaderLength
  /\ role \in {"none", "self", "peer"}

\* What encode_header() writes, decode_header() reads, for every length.
RoundTrip == role = "self" => DecodedLength = body_length

\* Both ends of a connection agree on the length of a body, and no header makes it
\* longer than the memory it is read into.
LengthsAreSound == MessageTypeOK /\ RoundTrip
=============================================================================
