------------------------------ MODULE RequestReply ------------------------------
(***************************************************************************)
(* What a client may expect of a server: it asks once, over a connection   *)
(* of its own, and gets one answer, to its own request, or none at all.    *)
(***************************************************************************)
CONSTANTS
  Clients,
  Requests,       \* what a client can send
  Answer,         \* the answer each request is due
  Unanswerable    \* the requests that get none

VARIABLE call     \* per client: how far its call is

Asked(r) == [at |-> "asked", what |-> r]
Answered(a) == [at |-> "answered", what |-> a]
Idle == [at |-> "idle"]
Closed == [at |-> "closed"]
Gone == [at |-> "gone"]

Init == call = [c \in Clients |-> Idle]

Move(c, from, to) == call[c] = from /\ call' = [call EXCEPT ![c] = to]

Ask(c, r) == Move(c, Idle, Asked(r))

Reply(c, r) == r \notin Unanswerable /\ Move(c, Asked(r), Answered(Answer[r]))

Refuse(c, r) == r \in Unanswerable /\ Move(c, Asked(r), Closed)

\* The client ends before it has its answer.
Give(c) ==
  /\ call[c] = Idle \/ \E r \in Requests : call[c] = Asked(r)
  /\ call' = [call EXCEPT ![c] = Gone]

Next ==
  \E c \in Clients :
    \/ Give(c)
    \/ \E r \in Requests : Ask(c, r) \/ Reply(c, r) \/ Refuse(c, r)

Spec == Init /\ [][Next]_call
===============================================================================
