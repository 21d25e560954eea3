----------------------- MODULE PosixChatClientProofs -----------------------
(***************************************************************************)
(* Theorems about PosixChatClient, for any letters, every size of a        *)
(* message and any input.                                                  *)
(***************************************************************************)
EXTENDS PosixChatClient, SequenceTheorems, WellFoundedInduction, TLAPS

-----------------------------------------------------------------------------
(* The first newline.                                                      *)

\* Every set of numbers that has an element has a least one.
LEMMA LeastNumber ==
  ASSUME NEW T, T \subseteq Nat, T # {}
  PROVE  \E m \in T : \A k \in T : m <= k
<1>1. \E m \in T : \A k \in T : <<k, m>> \notin OpToRel(<, Nat)
  BY NatLessThanWellFounded, WFMin
<1>2. PICK m \in T : \A k \in T : <<k, m>> \notin OpToRel(<, Nat)
  BY <1>1
<1>3. \A k \in T : ~(k < m)
  BY <1>2 DEF OpToRel
<1>. QED  BY <1>3

\* handle_read_input finds the first newline of a buffer that has one.
LEMMA FirstNewline ==
  ASSUME NEW b \in Seq(Characters), HasLine(b)
  PROVE  /\ LineLength(b) \in 1..Len(b) /\ b[LineLength(b)] = Newline
         /\ \A j \in 1..(LineLength(b) - 1) : b[j] # Newline
<1>. DEFINE At == {i \in 1..Len(b) : b[i] = Newline}
<1>1. At # {} /\ At \subseteq Nat
  BY DEF HasLine
<1>2. PICK i \in At : \A k \in At : i <= k
  BY <1>1, LeastNumber
<1>3. \A j \in 1..(i - 1) : b[j] # Newline
  <2>1. SUFFICES ASSUME NEW j \in 1..(i - 1), b[j] = Newline PROVE FALSE
    OBVIOUS
  <2>2. j \in At
    BY <1>2, <2>1
  <2>. QED  BY <1>2, <2>1, <2>2
<1>4. \E k \in 1..Len(b) : b[k] = Newline /\ \A j \in 1..(k - 1) : b[j] # Newline
  BY <1>2, <1>3
<1>. QED  BY <1>4 DEF LineLength

\* The line, its newline and the rest make up the buffer; the line is shorter than
\* the buffer and all letters.
LEMMA CutLine ==
  ASSUME NEW b \in Seq(Characters), HasLine(b)
  PROVE  /\ Line(b) \in Seq(Letters) /\ Len(Line(b)) < Len(b)
         /\ Rest(b) \in Seq(Characters) /\ Len(Rest(b)) <= Len(b)
         /\ Append(Line(b), Newline) \o Rest(b) = b
<1>. DEFINE k == LineLength(b)
<1>1. /\ k \in 1..Len(b) /\ b[k] = Newline /\ \A j \in 1..(k - 1) : b[j] # Newline
      /\ Len(b) \in Nat
  BY FirstNewline
<1>. HIDE DEF k
<1>2. \A j \in 1..(k - 1) : b[j] \in Letters
  BY <1>1, ElementOfSeq DEF Characters
<1>3. Line(b) = SubSeq(b, 1, k - 1) /\ Rest(b) = SubSeq(b, k + 1, Len(b))
  BY DEF Line, Rest, k
<1>4. /\ SubSeq(b, 1, k - 1) \in Seq(Letters) /\ SubSeq(b, 1, k - 1) \in Seq(Characters)
      /\ Len(SubSeq(b, 1, k - 1)) = k - 1
  <2>1. 1 \in Int /\ k - 1 \in Int /\ \A j \in 1..(k - 1) : b[j] \in Characters
    BY <1>1, <1>2 DEF Characters
  <2>2. SubSeq(b, 1, k - 1) \in Seq(Letters)
    BY <1>2, <2>1, SubSeqProperties
  <2>3. /\ SubSeq(b, 1, k - 1) \in Seq(Characters)
        /\ Len(SubSeq(b, 1, k - 1)) = IF 1 <= k - 1 THEN k - 1 - 1 + 1 ELSE 0
    BY <2>1, SubSeqProperties
  <2>. QED  BY <1>1, <2>2, <2>3
<1>5. SubSeq(b, k + 1, Len(b)) \in Seq(Characters)
      /\ Len(SubSeq(b, k + 1, Len(b))) <= Len(b)
  <2>1. k + 1 \in Int /\ Len(b) \in Int /\ \A j \in (k + 1)..Len(b) : b[j] \in Characters
    BY <1>1, ElementOfSeq
  <2>2. /\ SubSeq(b, k + 1, Len(b)) \in Seq(Characters)
        /\ Len(SubSeq(b, k + 1, Len(b))) = IF k + 1 <= Len(b) THEN Len(b) - (k + 1) + 1 ELSE 0
    BY <2>1, SubSeqProperties
  <2>. QED  BY <1>1, <2>2
<1>6. Append(SubSeq(b, 1, k - 1), Newline) = SubSeq(b, 1, k)
  <2>1. Newline \in Characters
    BY DEF Characters
  <2>2. Append(SubSeq(b, 1, k - 1), Newline) = SubSeq(b, 1, k - 1) \o <<Newline>>
    BY <1>4, <2>1, AppendIsConcat
  <2>3. 1 \in 1..Len(b) /\ k \in 1..Len(b)
    BY <1>1
  <2>4. SubSeq(b, 1, k) = SubSeq(b, 1, k - 1) \o <<b[k]>>
    BY <2>3, SubSeqRecursiveSecond
  <2>. QED  BY <1>1, <2>2, <2>4
<1>7. SubSeq(b, 1, k) \o SubSeq(b, k + 1, Len(b)) = b
  <2>1. 1 \in 1..(Len(b) + 1) /\ k \in (1 - 1)..Len(b) /\ Len(b) \in k..Len(b)
    BY <1>1
  <2>2. SubSeq(b, 1, k) \o SubSeq(b, k + 1, Len(b)) = SubSeq(b, 1, Len(b))
    BY <2>1, ConcatAdjacentSubSeq
  <2>. QED  BY <2>2, SubSeqFull
<1>8. Append(Line(b), Newline) \o Rest(b) = b
  BY <1>3, <1>6, <1>7
<1>9. Len(Line(b)) < Len(b)
  BY <1>1, <1>3, <1>4
<1>. QED  BY <1>3, <1>4, <1>5, <1>8, <1>9

\* A buffer without a newline is all letters.
LEMMA NoLineIsLetters ==
  ASSUME NEW b \in Seq(Characters), ~HasLine(b)
  PROVE  b \in Seq(Letters)
<1>1. \A i \in 1..Len(b) : b[i] \in Letters
  BY ElementOfSeq DEF HasLine, Characters
<1>. QED  BY <1>1

\* What is put behind a sequence leaves it a prefix.
LEMMA PrefixOfConcat ==
  ASSUME NEW S, NEW s \in Seq(S), NEW t \in Seq(S)
  PROVE  IsPrefix(s, s \o t)
<1>1. /\ s \o t \in Seq(S) /\ Len(s \o t) = Len(s) + Len(t)
      /\ \A i \in 1..Len(s) : (s \o t)[i] = s[i]
      /\ Len(s) \in Nat /\ Len(t) \in Nat
  BY ConcatProperties
<1>2. SubSeq(s, 1, Len(s)) = s
  BY SubSeqFull
<1>3. SubSeq(s \o t, 1, Len(s)) = s
  <2>1. \A i \in 1..Len(s) : (s \o t)[i] \in S
    BY <1>1, ElementOfSeq
  <2>2. /\ SubSeq(s \o t, 1, Len(s)) \in Seq(S)
        /\ Len(SubSeq(s \o t, 1, Len(s))) = IF 1 <= Len(s) THEN Len(s) - 1 + 1 ELSE 0
        /\ \A i \in 1..(Len(s) - 1 + 1) : SubSeq(s \o t, 1, Len(s))[i] = (s \o t)[1 + i - 1]
    BY <1>1, <2>1, SubSeqProperties
  <2>3. Len(SubSeq(s \o t, 1, Len(s))) = Len(s)
    BY <1>1, <2>2
  <2>4. \A i \in 1..Len(s) : SubSeq(s \o t, 1, Len(s))[i] = s[i]
    BY <1>1, <2>2
  <2>. QED  BY <2>2, <2>3, <2>4, SeqEqual
<1>. QED  BY <1>1, <1>2, <1>3 DEF IsPrefix

-----------------------------------------------------------------------------
(* The inductive invariant.                                                *)

\* The chain from the terminal starts when the connect has succeeded.
ConnectFirst == output = "connect" => input = "none"

\* async_read_until has found what it reports.
ReadIsRight ==
  /\ input = "read" /\ input_result = "ok" => HasLine(input_buffer)
  /\ input_result = "full" =>
       input = "read" /\ Len(input_buffer) = MaxBody /\ ~HasLine(input_buffer)

\* After close() the terminal and the socket take nothing more.
NothingPending == closed => input_result # "pending"

IInv == TextIsKept /\ ConnectFirst /\ ReadIsRight /\ NothingPending

\* What async_read_until reports agrees with the buffer, whatever it is.
LEMMA ReadUntilRight ==
  ASSUME NEW b \in Seq(Characters), Len(b) <= MaxBody
  PROVE  /\ ReadUntil(b) \in {"pending", "ok", "full", "error"}
         /\ ReadUntil(b) = "ok" => HasLine(b)
         /\ ReadUntil(b) = "full" => Len(b) = MaxBody /\ ~HasLine(b)
         /\ closed => ReadUntil(b) # "pending"
BY PosixChatClientAssumption DEF ReadUntil, Room

\* What a message says of the text are characters of the text.
LEMMA SaysType ==
  ASSUME NEW m \in Seq(Letters)
  PROVE  Says(m) \in Seq(Characters)
<1>1. m \in Seq(Characters) /\ Newline \in Characters
  BY DEF Characters
<1>. QED  BY <1>1 DEF Says

\* As long as nothing is closed the text is a prefix of what was typed, for it is
\* the front part of it.
LEMMA OpenIsPrefix ==
  ASSUME NEW a \in Seq(Characters), NEW f \in Seq(Characters), NEW b \in Seq(Characters),
         NEW t, t = a \o f \o b
  PROVE  IsPrefix(a, t)
<1>1. f \o b \in Seq(Characters) /\ t = a \o (f \o b)
  BY ConcatAssociative, ConcatProperties
<1>. QED  BY <1>1, PrefixOfConcat

\* At the start there is no text.
LEMMA InitIInv == Init => IInv
<1> SUFFICES ASSUME Init PROVE IInv
  OBVIOUS
<1>1. /\ <<>> \o <<>> \o <<>> = <<>> /\ Len(<<>>) = 0
      /\ <<>> \in Seq(Characters) /\ <<>> \in Seq(Letters)
  OBVIOUS
<1>2. typed = text \o InFlight \o input_buffer
  BY <1>1 DEF Init, InFlight
<1>3. IsPrefix(text, typed)
  BY <1>1, OpenIsPrefix DEF Init
<1>4. TypeOK
  <2>1. 0 <= MaxBody
    BY PosixChatClientAssumption
  <2>. QED  BY <1>1, <2>1 DEF Init, TypeOK
<1>. QED
  BY <1>2, <1>3, <1>4
     DEF Init, IInv, TextIsKept, ConnectFirst, ReadIsRight, NothingPending

\* A step of one of the chains that leaves the text, the buffer and what is in
\* flight where they are, or closes.
LEMMA TextUntouched ==
  ASSUME TextIsKept, TypeOK', UNCHANGED <<text, typed>>,
         closed \/ closed' \/ UNCHANGED <<input_buffer, InFlight>>,
         closed => closed'
  PROVE  TextIsKept'
BY DEF TextIsKept, IsPrefix

\* The handlers and the events of the chain from the socket to the terminal.
LEMMA OutputStep ==
  ASSUME IInv, HandlesOutput \/ OutputFinishes \/ ServerCloses \/ UNCHANGED vars
  PROVE  IInv'
<1>. USE DEF IInv, ConnectFirst, ReadIsRight, NothingPending
<1>0. TypeOK /\ TextIsKept /\ input_buffer \in Seq(Characters) /\ Len(input_buffer) <= MaxBody
  BY DEF TextIsKept, TypeOK
<1>1. CASE HandleConnect
  <2>1. input = "none" /\ input' = "read" /\ input_result' = ReadUntil(input_buffer)
    BY <1>1 DEF HandleConnect
  <2>2. TypeOK'
    BY <1>0, <1>1, ReadUntilRight DEF HandleConnect, TypeOK, Started
  <2>3. UNCHANGED <<text, typed, input_buffer, closed, InFlight>>
    BY <1>1, <2>1 DEF HandleConnect, InFlight
  <2>4. TextIsKept'
    BY <1>0, <2>2, <2>3, TextUntouched
  <2>. QED  BY <1>0, <1>1, <2>1, <2>4, ReadUntilRight DEF HandleConnect
<1>2. CASE HandleConnectError \/ HandleOutput
  <2>1. UNCHANGED <<input, input_result, input_buffer, write_msg, typed, text, closed, lost>>
    BY <1>2 DEF HandleConnectError, HandleOutput, outgoing
  <2>2. TypeOK' /\ output' # "connect"
    BY <1>0, <1>2, <2>1 DEF HandleConnectError, HandleOutput, TypeOK, Started, NextOutput
  <2>3. TextIsKept'
    BY <1>0, <2>1, <2>2, TextUntouched DEF InFlight
  <2>. QED  BY <2>1, <2>2, <2>3
<1>3. CASE HandleOutputError
  <2>1. TypeOK' /\ output' # "connect" /\ UNCHANGED <<text, typed, input, input_buffer>>
        /\ closed' /\ input_result' = Aborted(input_result)
    BY <1>0, <1>3 DEF HandleOutputError, TypeOK, Aborted
  <2>2. TextIsKept'
    BY <1>0, <2>1, TextUntouched
  <2>. QED  BY <2>1, <2>2 DEF Aborted
<1>4. CASE OutputFinishes \/ ServerCloses \/ UNCHANGED vars
  <2>1. UNCHANGED <<output, input, input_result, input_buffer, write_msg, typed, text, closed>>
    BY <1>4 DEF OutputFinishes, ServerCloses, outgoing, incoming, vars
  <2>2. TypeOK'
    BY <1>0, <1>4, <2>1 DEF OutputFinishes, ServerCloses, TypeOK, incoming, vars
  <2>3. TextIsKept'
    BY <1>0, <2>1, <2>2, TextUntouched DEF InFlight
  <2>. QED  BY <2>1, <2>3
<1>. QED  BY <1>1, <1>2, <1>3, <1>4 DEF HandlesOutput

\* The handlers of the chain from the terminal to the socket: a line, or a full
\* buffer, goes from the buffer into a message.
LEMMA InputStep ==
  ASSUME IInv, HandlesInput
  PROVE  IInv'
<1>. USE DEF IInv, ConnectFirst, ReadIsRight, NothingPending
<1>0. /\ TypeOK /\ TextIsKept
      /\ input_buffer \in Seq(Characters) /\ Len(input_buffer) <= MaxBody
      /\ text \in Seq(Characters) /\ typed \in Seq(Characters)
      /\ Len(input_buffer) \in Nat
  BY DEF TextIsKept, TypeOK
<1>1. ASSUME input = "read", closed' = closed, UNCHANGED <<text, typed>>, TypeOK',
             input' = "write", input_result' = Started,
             write_msg' \in Seq(Letters), input_buffer' \in Seq(Characters),
             Says(write_msg') \o input_buffer' = input_buffer
      PROVE  TextIsKept'
  <2>1. InFlight = <<>> /\ InFlight' = Says(write_msg')
    BY <1>1 DEF InFlight, Started
  <2>2. text \o <<>> = text
    BY <1>0
  <2>3. text \o Says(write_msg') \o input_buffer' = text \o input_buffer
    <3>1. Says(write_msg') \in Seq(Characters)
      BY <1>1, SaysType
    <3>2. (text \o Says(write_msg')) \o input_buffer' = text \o (Says(write_msg') \o input_buffer')
      <4>. DEFINE s == Says(write_msg')
                  r == input_buffer'
      <4>1. text \in Seq(Characters) /\ s \in Seq(Characters) /\ r \in Seq(Characters)
        BY <1>0, <1>1, <3>1
      <4>. HIDE DEF s, r
      <4>2. (text \o s) \o r = text \o (s \o r)
        BY <4>1, ConcatAssociative
      <4>. QED  BY <4>2 DEF s, r
    <3>. QED  BY <1>1, <3>2
  <2>4. ~closed => typed = text \o InFlight \o input_buffer
    BY DEF TextIsKept
  <2>5. ~closed' => typed' = text' \o InFlight' \o input_buffer'
    BY <1>1, <2>1, <2>2, <2>3, <2>4
  <2>6. IsPrefix(text, typed)'
    BY <1>1 DEF TextIsKept, IsPrefix
  <2>. QED  BY <1>1, <2>5, <2>6 DEF TextIsKept
<1>2. CASE HandleLine
  <2>1. HasLine(input_buffer) /\ input = "read"
    BY <1>2 DEF HandleLine
  <2>2. /\ write_msg' = Line(input_buffer) /\ input_buffer' = Rest(input_buffer)
        /\ Line(input_buffer) \in Seq(Letters) /\ Rest(input_buffer) \in Seq(Characters)
        /\ Len(Line(input_buffer)) < Len(input_buffer)
        /\ Len(Rest(input_buffer)) <= Len(input_buffer)
        /\ Append(Line(input_buffer), Newline) \o Rest(input_buffer) = input_buffer
    BY <1>0, <1>2, <2>1, CutLine DEF HandleLine
  <2>3. Says(write_msg') = Append(Line(input_buffer), Newline)
    BY <1>0, <2>2, PosixChatClientAssumption DEF Says
  <2>4. Len(write_msg') <= MaxBody /\ Len(input_buffer') <= MaxBody
    BY <1>0, <2>2, PosixChatClientAssumption
  <2>5. TypeOK'
    BY <1>0, <1>2, <2>2, <2>4 DEF HandleLine, TypeOK, Started, incoming
  <2>6. TextIsKept'
    BY <1>1, <1>2, <2>2, <2>3, <2>5 DEF HandleLine
  <2>. QED  BY <1>2, <2>6 DEF HandleLine, Started, incoming
<1>3. CASE HandleFull
  <2>1. /\ ~HasLine(input_buffer) /\ Len(input_buffer) = MaxBody /\ input = "read"
        /\ write_msg' = input_buffer /\ input_buffer' = <<>>
    BY <1>3 DEF HandleFull
  <2>2. write_msg' \in Seq(Letters) /\ input_buffer' \in Seq(Characters)
        /\ Len(input_buffer') <= MaxBody
    BY <1>0, <2>1, NoLineIsLetters, PosixChatClientAssumption
  <2>3. Says(write_msg') \o input_buffer' = input_buffer
    BY <1>0, <2>1, PosixChatClientAssumption DEF Says
  <2>4. TypeOK'
    BY <1>0, <1>3, <2>1, <2>2 DEF HandleFull, TypeOK, Started, incoming
  <2>5. TextIsKept'
    BY <1>1, <1>3, <2>1, <2>2, <2>3, <2>4 DEF HandleFull
  <2>. QED  BY <1>3, <2>5 DEF HandleFull, Started, incoming
<1>4. CASE HandleWrite
  <2>1. /\ input = "write" /\ input_result = "ok" /\ input' = "read"
        /\ input_result' = ReadUntil(input_buffer)
        /\ UNCHANGED <<text, typed, input_buffer, closed, output>>
    BY <1>4 DEF HandleWrite, NextInput, incoming
  <2>2. TypeOK'
    BY <1>0, <1>4, <2>1, ReadUntilRight DEF HandleWrite, TypeOK, incoming
  <2>3. InFlight' = InFlight
    BY <2>1 DEF InFlight
  <2>4. TextIsKept'
    BY <1>0, <2>1, <2>2, <2>3, TextUntouched
  <2>. QED  BY <1>0, <2>1, <2>4, ReadUntilRight
<1>5. CASE HandleInputError
  <2>1. /\ closed' /\ input' = "none" /\ input_result' = "none"
        /\ UNCHANGED <<text, typed, input_buffer, output>>
    BY <1>5 DEF HandleInputError
  <2>2. TypeOK'
    BY <1>0, <1>5 DEF HandleInputError, TypeOK, Aborted
  <2>3. TextIsKept'
    BY <1>0, <2>1, <2>2, TextUntouched
  <2>. QED  BY <2>1, <2>3
<1>. QED  BY <1>2, <1>3, <1>4, <1>5 DEF HandlesInput

\* The user types, and the server takes what is written.
LEMMA TerminalStep ==
  ASSUME IInv, UserTypes \/ InputEnds \/ WriteSucceeds \/ WriteFails
  PROVE  IInv'
<1>. USE DEF IInv, ConnectFirst, ReadIsRight, NothingPending
<1>0. /\ TypeOK /\ TextIsKept /\ ~closed
      /\ input_buffer \in Seq(Characters) /\ Len(input_buffer) <= MaxBody
      /\ text \in Seq(Characters) /\ typed \in Seq(Characters) /\ write_msg \in Seq(Letters)
      /\ Len(input_buffer) \in Nat
      /\ typed = text \o InFlight \o input_buffer
  BY DEF TextIsKept, TypeOK, UserTypes, InputEnds, WriteSucceeds, WriteFails
<1>1. CASE UserTypes
  <2>1. PICK n \in 1..Room(input_buffer) : \E chunk \in [1..n -> Characters] :
               typed' = typed \o chunk /\ input_buffer' = input_buffer \o chunk
    BY <1>1 DEF UserTypes
  <2>2. PICK chunk \in [1..n -> Characters] :
               typed' = typed \o chunk /\ input_buffer' = input_buffer \o chunk
    BY <2>1
  <2>3. n \in Nat /\ n <= MaxBody - Len(input_buffer)
    BY <1>0, PosixChatClientAssumption DEF Room
  <2>4. chunk \in Seq(Characters) /\ Len(chunk) = n
    BY <2>3
  <2>5. /\ input_buffer' \in Seq(Characters) /\ typed' \in Seq(Characters)
        /\ Len(input_buffer') <= MaxBody
    BY <1>0, <2>2, <2>3, <2>4, ConcatProperties, PosixChatClientAssumption
  <2>6. /\ input = "read" /\ input' = "read" /\ closed' = closed /\ text' = text
        /\ input_result' = ReadUntil(input_buffer)' /\ output' = output
    BY <1>1 DEF UserTypes, incoming, ReadUntil
  <2>7. /\ input_result' \in {"pending", "ok", "full", "error"}
        /\ input_result' = "ok" => HasLine(input_buffer')
        /\ input_result' = "full" => Len(input_buffer') = MaxBody /\ ~HasLine(input_buffer')
    BY <2>5, <2>6, PosixChatClientAssumption DEF ReadUntil, Room
  <2>8. TypeOK'
    BY <1>0, <1>1, <2>5, <2>7 DEF UserTypes, TypeOK, incoming
  <2>9. InFlight = <<>> /\ InFlight' = <<>>
    BY <2>6 DEF InFlight
  <2>10. typed' = text' \o InFlight' \o input_buffer'
    BY <1>0, <2>2, <2>4, <2>6, <2>9, ConcatAssociative
  <2>11. IsPrefix(text', typed')
    <3>1. <<>> \in Seq(Characters) /\ text' \in Seq(Characters)
      BY <1>0, <2>6
    <3>. QED  BY <2>5, <2>9, <2>10, <3>1, OpenIsPrefix
  <2>12. TextIsKept'
    BY <2>8, <2>10, <2>11 DEF TextIsKept
  <2>. QED  BY <1>0, <2>6, <2>7, <2>12
<1>2. CASE WriteSucceeds
  <2>1. /\ input = "write" /\ input_result = "pending" /\ input' = "write"
        /\ input_result' = "ok" /\ text' = text \o Says(write_msg)
        /\ UNCHANGED <<typed, input_buffer, closed, output>>
    BY <1>2 DEF WriteSucceeds, incoming
  <2>2. text' \in Seq(Characters)
    BY <1>0, <2>1, SaysType, ConcatProperties
  <2>3. TypeOK'
    BY <1>0, <1>2, <2>2 DEF WriteSucceeds, TypeOK, incoming
  <2>4. InFlight = Says(write_msg) /\ InFlight' = <<>>
    BY <2>1 DEF InFlight
  <2>5. text' \o <<>> = text'
    BY <2>2
  <2>6. typed' = text' \o InFlight' \o input_buffer'
    BY <1>0, <2>1, <2>4, <2>5
  <2>7. IsPrefix(text', typed')
    <3>1. <<>> \in Seq(Characters) /\ input_buffer' \in Seq(Characters)
      BY <1>0, <2>1
    <3>. QED  BY <2>2, <2>4, <2>6, <3>1, OpenIsPrefix
  <2>8. TextIsKept'
    BY <2>3, <2>6, <2>7 DEF TextIsKept
  <2>. QED  BY <2>1, <2>8
<1>3. CASE InputEnds \/ WriteFails
  <2>1. /\ input' = input /\ input_result # "ok" /\ input_result' = "error"
        /\ UNCHANGED <<text, typed, input_buffer, write_msg, closed, output>>
    BY <1>3 DEF InputEnds, WriteFails, incoming
  <2>2. TypeOK'
    BY <1>0, <1>3 DEF InputEnds, WriteFails, TypeOK, incoming
  <2>3. InFlight' = InFlight
    BY <2>1 DEF InFlight
  <2>4. TextIsKept'
    BY <1>0, <2>1, <2>2, <2>3, TextUntouched
  <2>. QED  BY <2>1, <2>4
<1>. QED  BY <1>1, <1>2, <1>3

\* Every step of the client preserves the invariant.
LEMMA IInvStep == IInv /\ [Next]_vars => IInv'
  BY OutputStep, InputStep, TerminalStep DEF Next, Terminated

\* For any letters, message size and input, in whatever pieces it comes: what the
\* server can put together is a prefix of what was typed, and without a close
\* nothing is missing but what is still in the buffer or in flight.
THEOREM TextCorrect == Spec => []TextIsKept
<1>1. IInv => TextIsKept
  BY DEF IInv
<1>. QED  BY <1>1, InitIInv, IInvStep, PTL DEF Spec
=============================================================================
