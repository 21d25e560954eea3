----------------------------- MODULE ChatSystem -----------------------------
(***************************************************************************)
(* A chat client and a chat server over one connection.  The client is     *)
(* ChatClient, the server is ChatServer, whose variables have the prefix   *)
(* room_ here; the other sessions of the server belong to other clients,   *)
(* which do what they like.  The connection keeps the order of what goes   *)
(* over it, until it is lost.                                              *)
(***************************************************************************)
EXTENDS ChatClient

CONSTANTS Sessions,      \* the sessions of the server
          Mine,          \* the one the client gets: they are interchangeable
          OtherMsgs,     \* what the other clients publish
          MaxRecent,     \* max_recent_msgs
          MaxOthers      \* bound: how many messages the other clients publish

\* The lines are numbered in the order they are typed, to tell them apart.
ASSUME ChatSystemAssumption == /\ Mine \in Sessions
                               /\ Lines = 1..MaxLines /\ Lines \cap OtherMsgs = {}
                               /\ MaxRecent \in Nat /\ MaxOthers \in Nat

VARIABLES
  room_phase, room_participants, room_recent_msgs, room_reading, room_write_msgs,
  room_in_flight, room_closed, room_log, room_joined, room_sent,
  dialled,   \* the system has made the client's connection
  accepted,  \* the server has accepted the client, its session is Mine
  heard,     \* how many of the client's messages the server has read
  printed    \* history: what the client's handle_read_body has printed

room_vars == <<room_phase, room_participants, room_recent_msgs, room_reading,
               room_write_msgs, room_in_flight, room_closed, room_log, room_joined,
               room_sent>>
systemVars == <<vars, room_vars, dialled, accepted, heard, printed>>

Server ==
  INSTANCE ChatServer WITH
    Msgs <- Lines \cup OtherMsgs,
    MaxPublished <- MaxLines + MaxOthers,
    phase <- room_phase,
    participants <- room_participants,
    recent_msgs <- room_recent_msgs,
    reading <- room_reading,
    write_msgs <- room_write_msgs,
    in_flight <- room_in_flight,
    closed <- room_closed,
    log <- room_log,
    joined <- room_joined,
    sent <- room_sent

SystemInit ==
  /\ Init
  /\ Server!Init
  /\ dialled = FALSE
  /\ accepted = FALSE
  /\ heard = 0
  /\ printed = <<>>

-----------------------------------------------------------------------------
(* The client.                                                             *)

\* The message whose header or body the client reads now has been sent to it.
Arrived == accepted /\ Len(printed) < Len(room_sent[Mine])

\* handle_read_body prints what it has read.
PrintsBody == read = "ok" /\ part = "body"

\* A read handler runs.  decode_header refuses nothing: the server passes on only
\* what decode_header has accepted.
ClientReads ==
  /\ Runs(HandleReadHeader \/ HandleReadBody \/ (read = "error" /\ HandleReadError))
  /\ printed' = IF PrintsBody THEN Append(printed, room_sent[Mine][Len(printed) + 1])
                              ELSE printed

\* The connection is made, or has been before.
Dials == dialled' = (dialled \/ link' = "up")

\* Of these steps the server learns later, if at all.
ClientAlone ==
  \/ \E l \in Lines : l = Len(typed) + 1 /\ TypeLine(l)
  \/ InputEnds \/ Join
  \/ RunPosted \/ RunConnect \/ RunWrite
  \/ ConnectFinishes
  \/ Arrived /\ ReadSucceeds
  \/ ReadFails
  \/ WriteSucceeds \/ WriteFails
  \/ ServerCloses

ClientStep ==
  /\ \/ ClientAlone /\ UNCHANGED printed
     \/ ClientReads
  /\ Dials
  /\ UNCHANGED <<room_vars, accepted, heard>>

-----------------------------------------------------------------------------
(* The server.                                                             *)

\* The client's connection is the next one that the acceptor takes.
AcceptClient ==
  /\ dialled
  /\ Server!HandleAccept(Mine)
  /\ accepted' = TRUE
  /\ UNCHANGED heard

\* The first message of the client that the server has not read.
NextMessage == sent[heard + 1]

\* handle_read_header or handle_read_body with what the client has written.
HearsClient ==
  /\ heard < Len(sent)
  /\ \/ Server!HandleReadHeader(Mine) /\ UNCHANGED heard
     \/ Server!HandleReadBody(Mine, NextMessage) /\ heard' = heard + 1
  /\ UNCHANGED accepted

\* Another client is accepted, sends a header, good or bad, or a body, or goes.
HearsOthers(s) ==
  /\ s # Mine
  /\ \/ Server!HandleAccept(s)
     \/ Server!HandleReadHeader(s) \/ Server!HandleBadHeader(s)
     \/ /\ Len(room_log) - heard < MaxOthers
        /\ \E m \in OtherMsgs : Server!HandleReadBody(s, m)
     \/ Server!PeerCloses(s)
  /\ UNCHANGED <<accepted, heard>>

\* The connection of the client has ended, and the server's system knows it.
LosesClient ==
  /\ link \in {"lost", "closed"}
  /\ Server!PeerCloses(Mine)
  /\ UNCHANGED <<accepted, heard>>

\* The server's other handlers, whosever session it is.
ServerAlone(s) ==
  /\ Server!HandleAcceptError(s) \/ Server!HandleReadError(s) \/ Server!WriteCompletes(s)
  /\ UNCHANGED <<accepted, heard>>

ServerStep ==
  /\ \/ AcceptClient \/ HearsClient \/ LosesClient
     \/ \E s \in Sessions : HearsOthers(s) \/ ServerAlone(s)
  /\ UNCHANGED <<vars, dialled, printed>>

SystemNext == ClientStep \/ ServerStep

SystemSpec == SystemInit /\ [][SystemNext]_systemVars

\* One step of the client, or of the server, and of nothing else.
Client(A) == A /\ UNCHANGED printed /\ Dials /\ UNCHANGED <<room_vars, accepted, heard>>
Room(A) == A /\ UNCHANGED <<vars, dialled, printed>>

\* The io thread of the client runs what is ready, what is written to a connection
\* that stands is read at its other end, and the server's handlers run.  The user,
\* the other clients and the network are free.
SystemFairness ==
  /\ WF_systemVars(Client(RunPosted))
  /\ WF_systemVars(Client(RunConnect))
  /\ WF_systemVars(Client(RunWrite))
  /\ WF_systemVars(Client(WriteSucceeds \/ WriteFails))
  /\ WF_systemVars(Client(Arrived /\ ReadSucceeds))
  /\ WF_systemVars(ClientReads /\ Dials /\ UNCHANGED <<room_vars, accepted, heard>>)
  /\ WF_systemVars(Room(HearsClient))
  /\ WF_systemVars(Room(Server!WriteCompletes(Mine) /\ UNCHANGED <<accepted, heard>>))

FairSystemSpec == SystemSpec /\ SystemFairness

-----------------------------------------------------------------------------
(* From end to end.                                                        *)

\* The user's own messages among ms are the first n lines, in the order they were
\* typed and each once.
FirstLines(ms, n) ==
  /\ \A i \in DOMAIN ms : ms[i] \in Lines => ms[i] <= n
  /\ \A l \in 1..n : \E i \in DOMAIN ms : ms[i] = l
  /\ \A i, j \in DOMAIN ms : ms[i] \in Lines /\ ms[j] \in Lines /\ i < j => ms[i] < ms[j]

\* What a user types goes through the client, the room and back: the room gets
\* the first lines that were typed, in that order and each once, and so the user
\* sees them, however many of the other clients' messages come between and
\* whichever end the connection breaks at.
OwnLinesInOrder ==
  /\ heard <= Len(typed) /\ FirstLines(room_log, heard)
  /\ \E n \in 0..heard : FirstLines(printed, n)

\* Under SystemFairness a line that is typed comes back to the user, the server
\* having accepted the client, unless the input or the connection ends first: no
\* queue on the way waits for another line or for another client.
LineIsPrinted ==
  \A n \in 1..MaxLines :
    Len(typed) >= n /\ accepted ~>
      \/ \E i \in DOMAIN printed : printed[i] = n
      \/ main # "input"
      \/ link \in {"lost", "closed"}
=============================================================================
