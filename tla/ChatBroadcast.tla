--------------------------- MODULE ChatBroadcast ---------------------------
(***************************************************************************)
(* What the chat room of cpp_03_example/chat_server.cpp promises to its    *)
(* clients, with no queue, socket or handler: one total order of messages  *)
(* (the log), and for every client a stream that starts with the newest    *)
(* MaxRecent messages of the log at the moment it joins and then follows   *)
(* the log without a gap, a repetition or a swap until it leaves.          *)
(***************************************************************************)
EXTENDS Integers, Sequences

CONSTANTS Sessions,     \* the clients that may join, each at most once
          Msgs,         \* the messages they may publish
          MaxRecent     \* how many old messages a newcomer is given

VARIABLES log,      \* every message published so far, in the room's order
          members,  \* the clients in the room
          former,   \* the clients that were in the room and left it
          base,     \* base[s]: how many messages of the log s will never see
          horizon,  \* horizon[s]: a former member sees the log up to here
          stream    \* stream[s]: what s has been sent so far

vars == <<log, members, former, base, horizon, stream>>

Init ==
  /\ log = <<>>
  /\ members = {}
  /\ former = {}
  /\ base = [s \in Sessions |-> 0]
  /\ horizon = [s \in Sessions |-> 0]
  /\ stream = [s \in Sessions |-> <<>>]

\* A newcomer will see the last MaxRecent messages, or all if there are fewer.
Join(s) ==
  /\ s \notin members \cup former
  /\ members' = members \cup {s}
  /\ base' = [base EXCEPT ![s] = IF Len(log) > MaxRecent
                                 THEN Len(log) - MaxRecent ELSE 0]
  /\ UNCHANGED <<log, former, horizon, stream>>

Publish(m) ==
  /\ log' = Append(log, m)
  /\ UNCHANGED <<members, former, base, horizon, stream>>

\* The end of the part of the log that s may be sent.
End(s) == IF s \in members THEN Len(log) ELSE horizon[s]

Receive(s) ==
  /\ s \in members \cup former
  /\ base[s] + Len(stream[s]) < End(s)
  /\ stream' = [stream EXCEPT ![s] = Append(@, log[base[s] + Len(stream[s]) + 1])]
  /\ UNCHANGED <<log, members, former, base, horizon>>

Leave(s) ==
  /\ s \in members
  /\ members' = members \ {s}
  /\ former' = former \cup {s}
  /\ horizon' = [horizon EXCEPT ![s] = Len(log)]
  /\ UNCHANGED <<log, base, stream>>

Next ==
  \/ \E s \in Sessions : Join(s) \/ Receive(s) \/ Leave(s)
  \/ \E m \in Msgs : Publish(m)

Spec == Init /\ [][Next]_vars
=============================================================================
