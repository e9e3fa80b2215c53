------------------------- MODULE ServerPipeline_proofs -------------------------
(***************************************************************************)
(* Proofs about ServerPipeline, for any clients, workers and descriptors.  *)
(***************************************************************************)
EXTENDS ServerPipeline, SequenceTheorems, FiniteSetTheorems, TLAPS

CallStates ==
  [at: {"idle", "open", "asked", "gone", "closed"}, what: Request \cup {NoRequest}]
    \cup [at: {"answered"}, what: Answers]

\* A session with a request, or with an answer, that its client asked for, if it
\* still waits.
Asker(session, body) ==
  /\ session \in Clients /\ body \in Request
  /\ call[session].at \notin {"idle", "open"}
  /\ Asked(session) => body = call[session].what

Answerable(pair) == Asker(pair.session, pair.body) /\ pair.body.kind # "garbage"

DueAnswer(pair) ==
  \E r \in Request :
    Asker(pair.session, r) /\ r.kind # "garbage" /\ pair.body = AnswerTo(r)

CallTypes ==
  /\ call \in [Clients -> CallStates]
  /\ \A c \in Clients : Asked(c) => call[c].what \in Request

\* What is on the wire, and who is connected.
Arriving ==
  /\ wire \in [Clients -> Request \cup {NoRequest}]
  /\ \A c \in Clients : wire[c] # NoRequest => Asker(c, wire[c])
  /\ backlog \in Seq(Clients) /\ conns \in Seq(Clients) /\ reader \in Clients \cup {None}

Requested ==
  /\ request \in Seq(Pairs(Request))
  /\ \A i \in DOMAIN request : Answerable(request[i])

Served ==
  /\ worker \in [Workers -> [at: {"serve"}, job: Pairs(Request)]
                            \cup [at: {"poll", "pop"}, job: {Polling.job}]]
  /\ \A w \in Workers : worker[w].at = "serve" => Answerable(worker[w].job)

Answering ==
  /\ response \in Seq(Pairs(Answers))
  /\ \A i \in DOMAIN response : DueAnswer(response[i])

PipelineInv == CallTypes /\ Arriving /\ Requested /\ Served /\ Answering

-------------------------------------------------------------------------------
(* How far calls get                                                       *)

\* Who has asked stays past asking, and still waits for the same thing or for
\* nothing.
Advances ==
  \A c \in Clients :
    call[c].at \notin {"idle", "open"} =>
      /\ call'[c].at \notin {"idle", "open"}
      /\ call'[c].at = "asked" => call[c].at = "asked" /\ call'[c].what = call[c].what

LEMMA CallUnchanged ==
  ASSUME CallTypes, UNCHANGED call
  PROVE  CallTypes' /\ Advances
  BY DEF CallTypes, Advances, Asked

\* One call is set, and is not past asking or no more waits.
LEMMA CallSet ==
  ASSUME CallTypes, NEW c \in Clients, NEW r \in CallStates,
         call' = [call EXCEPT ![c] = r],
         call[c].at \in {"idle", "open"} \/ r.at \in {"gone", "closed", "answered"},
         r.at = "asked" => r.what \in Request
  PROVE  CallTypes' /\ Advances
  <1>1. call'[c] = r /\ \A d \in Clients \ {c} : call'[d] = call[d]
    BY DEF CallTypes
  <1>2. call' \in [Clients -> CallStates]
    BY DEF CallTypes
  <1>3. Advances
    BY <1>1 DEF Advances
  <1> QED
    BY <1>1, <1>2, <1>3 DEF CallTypes, Asked

LEMMA CallReached ==
  ASSUME CallTypes, NEW c \in Clients, NEW at \in {"open", "gone", "closed"}, Reached(c, at),
         call[c].at # "answered", call[c].at = "idle" \/ at # "open"
  PROVE  CallTypes' /\ Advances
  <1> DEFINE r == [call[c] EXCEPT !.at = at]
  <1>1. call[c] \in CallStates
    BY DEF CallTypes
  <1>2. r \in CallStates /\ r.at = at
    BY <1>1 DEF CallStates
  <1>3. call' = [call EXCEPT ![c] = r]
    BY DEF Reached
  <1> HIDE DEF r
  <1> QED
    BY <1>2, <1>3, CallSet

\* What was asked for stays so.
LEMMA AskersKept ==
  ASSUME Advances
  PROVE  /\ \A c, b : Asker(c, b) => Asker(c, b)'
         /\ \A p : Answerable(p) => Answerable(p)'
         /\ \A p : DueAnswer(p) => DueAnswer(p)'
  <1>1. \A c, b : Asker(c, b) => Asker(c, b)'
    BY DEF Asker, Advances, Asked
  <1>2. \A p : Answerable(p) => Answerable(p)'
    BY <1>1 DEF Answerable
  <1>3. \A p : DueAnswer(p) => DueAnswer(p)'
    BY <1>1 DEF DueAnswer
  <1> QED
    BY <1>1, <1>2, <1>3

-------------------------------------------------------------------------------
(* Queues                                                                  *)

LEMMA Pushed ==
  ASSUME NEW S, NEW q \in Seq(S), NEW x \in S
  PROVE  /\ Append(q, x) \in Seq(S)
         /\ \A i \in DOMAIN Append(q, x) :
              Append(q, x)[i] = x \/ \E j \in DOMAIN q : Append(q, x)[i] = q[j]
  <1>1. /\ Append(q, x) \in Seq(S) /\ Len(Append(q, x)) = Len(q) + 1 /\ Len(q) \in Nat
        /\ \A i \in 1 .. Len(q) : Append(q, x)[i] = q[i]
        /\ Append(q, x)[Len(q) + 1] = x
    BY AppendProperties
  <1>2. DOMAIN Append(q, x) = 1 .. Len(q) + 1 /\ DOMAIN q = 1 .. Len(q)
    BY <1>1
  <1> QED
    BY <1>1, <1>2

LEMMA Popped ==
  ASSUME NEW S, NEW q \in Seq(S), q # <<>>
  PROVE  /\ Tail(q) \in Seq(S) /\ Head(q) \in S /\ 1 \in DOMAIN q /\ Head(q) = q[1]
         /\ \A i \in DOMAIN Tail(q) : \E j \in DOMAIN q : Tail(q)[i] = q[j]
  <1>1. /\ Tail(q) \in Seq(S) /\ Len(Tail(q)) = Len(q) - 1 /\ Len(q) \in Nat /\ Len(q) # 0
        /\ \A i \in 1 .. Len(Tail(q)) : Tail(q)[i] = q[i + 1]
    BY HeadTailProperties
  <1>2. DOMAIN Tail(q) = 1 .. Len(q) - 1 /\ DOMAIN q = 1 .. Len(q)
    BY <1>1
  <1>3. 1 \in DOMAIN q /\ Head(q) = q[1] /\ q[1] \in S
    BY <1>1, <1>2
  <1>4. \A i \in DOMAIN Tail(q) : i + 1 \in DOMAIN q /\ Tail(q)[i] = q[i + 1]
    BY <1>1, <1>2
  <1> QED
    BY <1>1, <1>3, <1>4

-------------------------------------------------------------------------------
(* Every step keeps the invariant                                          *)

LEMMA NoRequestIsNone == NoRequest \notin Request
  BY NoneAssumption DEF NoRequest, Request

LEMMA PipelineInvInit == Init => PipelineInv
  <1> SUFFICES ASSUME Init PROVE PipelineInv
    OBVIOUS
  <1>1. CallTypes
    <2>1. [at |-> "idle", what |-> NoRequest] \in CallStates
      BY DEF CallStates
    <2>2. call = [c \in Clients |-> [at |-> "idle", what |-> NoRequest]]
      BY DEF Init
    <2>3. call \in [Clients -> CallStates]
      BY <2>1, <2>2
    <2>4. \A c \in Clients : call[c].at = "idle"
      BY <2>2
    <2> QED
      BY <2>3, <2>4 DEF CallTypes, Asked
  <1>2. \A S : <<>> \in Seq(S) /\ DOMAIN <<>> = {}
    OBVIOUS
  <1>3. Arriving
    BY <1>2 DEF Init, Arriving
  <1>4. Requested /\ Answering
    BY <1>2 DEF Init, Requested, Answering
  <1>5. Served
    <2>1. Polling \in [at: {"poll", "pop"}, job: {Polling.job}] /\ Polling.at = "poll"
      BY DEF Polling
    <2>2. worker = [w \in Workers |-> Polling]
      BY DEF Init
    <2> HIDE DEF Polling
    <2> QED
      BY <2>1, <2>2 DEF Served
  <1> QED
    BY <1>1, <1>3, <1>4, <1>5 DEF PipelineInv

\* The parts a step leaves alone.
LEMMA PartsKept ==
  ASSUME PipelineInv, Advances
  PROVE  /\ UNCHANGED <<wire, backlog, conns, reader>> => Arriving'
         /\ UNCHANGED request => Requested'
         /\ UNCHANGED worker => Served'
         /\ UNCHANGED response => Answering'
  <1>1. UNCHANGED <<wire, backlog, conns, reader>> => Arriving'
    BY AskersKept DEF PipelineInv, Arriving
  <1>2. UNCHANGED request => Requested'
    BY AskersKept DEF PipelineInv, Requested
  <1>3. UNCHANGED worker => Served'
    BY AskersKept DEF PipelineInv, Served
  <1>4. UNCHANGED response => Answering'
    BY AskersKept DEF PipelineInv, Answering
  <1> QED
    BY <1>1, <1>2, <1>3, <1>4

LEMMA ConnectKeeps ==
  ASSUME PipelineInv, NEW c \in Clients, Connect(c)
  PROVE  PipelineInv'
  <1>1. CallTypes' /\ Advances
    BY CallReached DEF Connect, PipelineInv
  <1>2. backlog' \in Seq(Clients)
    BY Pushed DEF Connect, PipelineInv, Arriving
  <1>3. Arriving'
    BY <1>1, <1>2, AskersKept DEF Connect, PipelineInv, Arriving, server, queues
  <1> QED
    BY <1>1, <1>3, PartsKept DEF Connect, PipelineInv, server, queues

LEMMA SendKeeps ==
  ASSUME PipelineInv, NEW c \in Clients, Send(c)
  PROVE  PipelineInv'
  <1>1. PICK k \in Kinds :
          /\ call' = [call EXCEPT ![c] = [at |-> "asked", what |-> [from |-> c, kind |-> k]]]
          /\ wire' = [wire EXCEPT ![c] = [from |-> c, kind |-> k]]
    BY DEF Send
  <1> DEFINE r == [from |-> c, kind |-> k]
             new == [at |-> "asked", what |-> r]
  <1>2. r \in Request /\ new \in CallStates /\ new.at = "asked" /\ new.what = r
    BY DEF Request, CallStates
  <1>3. call' = [call EXCEPT ![c] = new] /\ wire' = [wire EXCEPT ![c] = r]
    BY <1>1
  <1> HIDE DEF r, new
  <1>4. CallTypes' /\ Advances
    BY <1>2, <1>3, CallSet DEF Send, PipelineInv
  <1>5. call'[c] = new /\ wire'[c] = r /\ wire' \in [Clients -> Request \cup {NoRequest}]
        /\ \A d \in Clients \ {c} : wire'[d] = wire[d]
    BY <1>2, <1>3 DEF PipelineInv, CallTypes, Arriving
  <1>6. Asker(c, r)'
    BY <1>2, <1>5 DEF Asker, Asked
  <1>7. (\A d \in Clients : wire[d] # NoRequest => Asker(d, wire[d]))'
    <2>1. ASSUME NEW d \in Clients, wire'[d] # NoRequest
          PROVE  (Asker(d, wire[d]))'
      <3>1. CASE d = c
        BY <3>1, <1>5, <1>6
      <3>2. CASE d # c
        <4>1. Asker(d, wire[d])
          BY <2>1, <3>2, <1>5 DEF PipelineInv, Arriving
        <4>2. wire'[d] = wire[d]
          BY <3>2, <1>5
        <4>3. PICK b : b = wire[d]
          OBVIOUS
        <4>4. Asker(d, b)'
          BY <4>1, <4>3, <1>4, AskersKept
        <4> QED
          BY <4>2, <4>3, <4>4 DEF Asker
      <3> QED
        BY <3>1, <3>2
    <2> QED
      BY <2>1
  <1>8. Arriving'
    BY <1>5, <1>7 DEF Send, PipelineInv, Arriving, server, queues
  <1> QED
    BY <1>4, <1>8, PartsKept DEF Send, PipelineInv, server, queues

LEMMA LeaveKeeps ==
  ASSUME PipelineInv, NEW c \in Clients, Leave(c)
  PROVE  PipelineInv'
  <1>1. CallTypes' /\ Advances
    BY CallReached DEF Leave, PipelineInv
  <1> QED
    BY <1>1, PartsKept DEF Leave, PipelineInv, server, queues

\* The io thread, and the reader that takes a session or gives it up.
LEMMA SessionsMove ==
  ASSUME PipelineInv, Accept \/ AcceptFails \/ ReaderTakes \/ ReaderFails
  PROVE  PipelineInv'
  <1>1. UNCHANGED <<call, wire, request, worker, response>>
    BY DEF Accept, AcceptFails, ReaderTakes, ReaderFails, queues
  <1>2. CallTypes' /\ Advances
    BY <1>1, CallUnchanged DEF PipelineInv
  <1>3. backlog' \in Seq(Clients) /\ conns' \in Seq(Clients) /\ reader' \in Clients \cup {None}
    <2>1. backlog \in Seq(Clients) /\ conns \in Seq(Clients) /\ reader \in Clients \cup {None}
      BY DEF PipelineInv, Arriving
    <2>2. CASE Accept
      <3>1. Head(backlog) \in Clients /\ Tail(backlog) \in Seq(Clients)
        BY <2>1, <2>2, Popped DEF Accept
      <3>2. Append(conns, Head(backlog)) \in Seq(Clients)
        BY <2>1, <3>1, Pushed
      <3> QED
        BY <2>1, <2>2, <3>1, <3>2 DEF Accept
    <2>3. CASE ReaderTakes
      <3>1. Head(conns) \in Clients /\ Tail(conns) \in Seq(Clients)
        BY <2>1, <2>3, Popped DEF ReaderTakes
      <3> QED
        BY <2>1, <2>3, <3>1 DEF ReaderTakes
    <2>4. CASE AcceptFails \/ ReaderFails
      BY <2>1, <2>4 DEF AcceptFails, ReaderFails, queues
    <2> QED
      BY <2>2, <2>3, <2>4
  <1>4. Arriving'
    BY <1>1, <1>2, <1>3, AskersKept DEF PipelineInv, Arriving
  <1> QED
    BY <1>1, <1>2, <1>4, PartsKept DEF PipelineInv

LEMMA ReaderReadsKeeps ==
  ASSUME PipelineInv, ReaderReads
  PROVE  PipelineInv'
  <1> DEFINE c == reader
             r == wire[reader]
  <1>1. c \in Clients /\ r \in Request /\ Asker(c, r)
    BY DEF ReaderReads, PipelineInv, Arriving
  <1>2. /\ wire' \in [Clients -> Request \cup {NoRequest}] /\ wire'[c] = NoRequest
        /\ \A d \in Clients \ {c} : wire'[d] = wire[d]
        /\ reader' = None /\ UNCHANGED <<backlog, conns, worker, response>>
    BY <1>1 DEF ReaderReads, PipelineInv, Arriving
  <1>3. CallTypes' /\ Advances
    <2>1. CASE UNCHANGED call
      BY <2>1, CallUnchanged DEF PipelineInv
    <2>2. CASE Asked(c) /\ Reached(c, "closed")
      BY <2>2, <1>1, CallReached DEF PipelineInv, Asked
    <2> QED
      BY <2>1, <2>2 DEF ReaderReads
  <1>4. Arriving'
    BY <1>2, <1>3, AskersKept DEF PipelineInv, Arriving
  <1>5. Requested'
    <2>1. CASE UNCHANGED request
      BY <2>1, <1>3, PartsKept
    <2>2. CASE r.kind # "garbage" /\ request' = Append(request, Pair(c, r))
      <3>0. PICK p : p = Pair(c, r)
        OBVIOUS
      <3>1. p \in Pairs(Request) /\ p.session = c /\ p.body = r
        BY <3>0, <1>1 DEF Pair, Pairs
      <3>2. Answerable(p)'
        <4>1. Answerable(p)
          BY <3>1, <1>1, <2>2 DEF Answerable
        <4> QED
          BY <4>1, <1>3, AskersKept
      <3>3. request' = Append(request, p)
        BY <2>2, <3>0
      <3>4. /\ request' \in Seq(Pairs(Request))
            /\ \A i \in DOMAIN request' :
                 request'[i] = p \/ \E j \in DOMAIN request : request'[i] = request[j]
        BY <3>1, <3>3, Pushed DEF PipelineInv, Requested
      <3> QED
        BY <3>2, <3>4, <1>3, AskersKept DEF PipelineInv, Requested
    <2> QED
      BY <2>1, <2>2 DEF ReaderReads
  <1> QED
    BY <1>2, <1>3, <1>4, <1>5, PartsKept DEF PipelineInv

LEMMA WorksKeeps ==
  ASSUME PipelineInv, NEW w \in Workers, Works(w)
  PROVE  PipelineInv'
  <1>1. UNCHANGED <<call, wire, backlog, conns, reader>>
    BY DEF Works, Polls, Pops, Serves, queues
  <1>2. CallTypes' /\ Advances
    BY <1>1, CallUnchanged DEF PipelineInv
  <1>3. Arriving'
    BY <1>1, <1>2, PartsKept
  <1>4. CASE Polls(w)
    <2> DEFINE r == [worker[w] EXCEPT !.at = "pop"]
    <2>1. worker[w] \in [at: {"poll", "pop"}, job: {Polling.job}]
      BY <1>4 DEF Polls, PipelineInv, Served
    <2>2. r \in [at: {"poll", "pop"}, job: {Polling.job}] /\ r.at = "pop"
      BY <2>1
    <2>3. worker' = [worker EXCEPT ![w] = r]
      BY <1>4 DEF Polls
    <2> HIDE DEF r
    <2>4. Served'
      BY <2>2, <2>3, <1>2, AskersKept DEF PipelineInv, Served
    <2> QED
      BY <2>4, <1>2, <1>3, <1>4, PartsKept DEF Polls, queues, PipelineInv
  <1>5. CASE Pops(w)
    <2>0. PICK p : p = Head(request)
      OBVIOUS
    <2> DEFINE r == [at |-> "serve", job |-> p]
    <2>1. /\ p \in Pairs(Request) /\ Answerable(p)
          /\ request' \in Seq(Pairs(Request))
          /\ \A i \in DOMAIN request' : \E j \in DOMAIN request : request'[i] = request[j]
      BY <1>5, <2>0, Popped DEF Pops, PipelineInv, Requested
    <2>2. r \in [at: {"serve"}, job: Pairs(Request)] /\ r.job = p
      BY <2>1
    <2>3. worker' = [worker EXCEPT ![w] = r]
      BY <1>5, <2>0 DEF Pops
    <2> HIDE DEF r
    <2>4. Answerable(p)'
      BY <2>1, <1>2, AskersKept
    <2>5. Served'
      BY <2>2, <2>3, <2>4, <1>2, AskersKept DEF PipelineInv, Served
    <2>6. Requested'
      BY <2>1, <1>2, AskersKept DEF PipelineInv, Requested
    <2> QED
      BY <2>5, <2>6, <1>2, <1>3, <1>5, PartsKept DEF Pops, PipelineInv
  <1>6. CASE Serves(w)
    <2>0. PICK j : j = worker[w].job
      OBVIOUS
    <2> DEFINE a == Pair(j.session, AnswerTo(j.body))
    <2>1. j \in Pairs(Request) /\ Answerable(j)
      BY <1>6, <2>0 DEF Serves, PipelineInv, Served
    <2>2. /\ a.session = j.session /\ a.body = AnswerTo(j.body) /\ a \in Pairs(Answers)
      <3>1. j.body \in Request /\ j.session \in Clients
        BY <2>1 DEF Pairs
      <3>2. AnswerTo(j.body) \in Answers
        BY <3>1 DEF AnswerTo, Answers, Request, Status
      <3> QED
        BY <3>1, <3>2 DEF Pair, Pairs
    <2>3. response' = Append(response, a) /\ worker' = [worker EXCEPT ![w] = Polling]
      BY <1>6, <2>0 DEF Serves
    <2> HIDE DEF a
    <2>4. DueAnswer(a)'
      <3>1. Answerable(j)'
        BY <2>1, <1>2, AskersKept
      <3>2. j.body \in Request
        BY <2>1 DEF Pairs
      <3> QED
        BY <3>1, <3>2, <2>2 DEF Answerable, DueAnswer
    <2>5. /\ response' \in Seq(Pairs(Answers))
          /\ \A i \in DOMAIN response' :
               response'[i] = a \/ \E k \in DOMAIN response : response'[i] = response[k]
      BY <2>2, <2>3, Pushed DEF PipelineInv, Answering
    <2>6. Answering'
      BY <2>4, <2>5, <1>2, AskersKept DEF PipelineInv, Answering
    <2>7. Polling \in [at: {"poll", "pop"}, job: {Polling.job}] /\ Polling.at = "poll"
      BY DEF Polling
    <2>8. Served'
      BY <2>3, <2>7, <1>2, AskersKept DEF PipelineInv, Served
    <2> QED
      BY <2>6, <2>8, <1>2, <1>3, <1>6, PartsKept DEF Serves, PipelineInv
  <1> QED
    BY <1>4, <1>5, <1>6 DEF Works

LEMMA RespondsKeeps ==
  ASSUME PipelineInv, Responds
  PROVE  PipelineInv'
  <1>0. PICK p : p = Head(response)
    OBVIOUS
  <1> DEFINE c == p.session
  <1>1. /\ p \in Pairs(Answers) /\ DueAnswer(p) /\ c \in Clients /\ p.body \in Answers
        /\ response' \in Seq(Pairs(Answers))
        /\ \A i \in DOMAIN response' : \E j \in DOMAIN response : response'[i] = response[j]
    <2>1. response \in Seq(Pairs(Answers)) /\ response # <<>>
      BY DEF Responds, PipelineInv, Answering
    <2>2. p \in Pairs(Answers) /\ DueAnswer(p)
      BY <1>0, <2>1, Popped DEF PipelineInv, Answering
    <2>3. response' = Tail(response)
      BY DEF Responds
    <2>4. /\ response' \in Seq(Pairs(Answers))
          /\ \A i \in DOMAIN response' : \E j \in DOMAIN response : response'[i] = response[j]
      BY <2>1, <2>3, Popped
    <2> QED
      BY <2>2, <2>4 DEF Pairs
  <1>2. CallTypes' /\ Advances
    <2>1. CASE UNCHANGED call
      BY <2>1, CallUnchanged DEF PipelineInv
    <2>2. CASE call' = [call EXCEPT ![c] = [at |-> "answered", what |-> p.body]]
      <3> DEFINE r == [at |-> "answered", what |-> p.body]
      <3>1. r \in CallStates /\ r.at = "answered"
        BY <1>1 DEF CallStates
      <3>2. call' = [call EXCEPT ![c] = r]
        BY <2>2
      <3> HIDE DEF r, c
      <3> QED
        BY <3>1, <3>2, <1>1, CallSet DEF PipelineInv
    <2> QED
      BY <1>0, <2>1, <2>2 DEF Responds
  <1>3. Answering'
    BY <1>1, <1>2, AskersKept DEF PipelineInv, Answering
  <1> QED
    BY <1>2, <1>3, PartsKept DEF Responds, PipelineInv

LEMMA StepKeeps ==
  ASSUME PipelineInv, [Next]_vars
  PROVE  PipelineInv'
  <1>1. CASE UNCHANGED vars
    <2>1. CallTypes' /\ Advances
      BY <1>1, CallUnchanged DEF vars, PipelineInv
    <2> QED
      BY <1>1, <2>1, PartsKept DEF vars, queues, PipelineInv
  <1>2. ASSUME NEW c \in Clients, Connect(c) \/ Send(c) \/ Leave(c) PROVE PipelineInv'
    BY <1>2, ConnectKeeps, SendKeeps, LeaveKeeps
  <1>3. CASE Accept \/ AcceptFails \/ Reader
    BY <1>3, SessionsMove, ReaderReadsKeeps DEF Reader
  <1>4. ASSUME NEW w \in Workers, Works(w) PROVE PipelineInv'
    BY <1>4, WorksKeeps
  <1>5. CASE Responds
    BY <1>5, RespondsKeeps
  <1> QED
    BY <1>1, <1>2, <1>3, <1>4, <1>5 DEF Next

-------------------------------------------------------------------------------
(* A client sees a server that answers each request                        *)

LEMMA CallingSet ==
  ASSUME CallTypes, NEW c \in Clients, NEW r, call' = [call EXCEPT ![c] = r]
  PROVE  Calling' = [Calling EXCEPT ![c] = Outside(r)] /\ Calling[c] = Outside(call[c])
  <1>1. \A d \in Clients : call'[d] = IF d = c THEN r ELSE call[d]
    BY DEF CallTypes
  <1>2. \A d \in Clients : Outside(call'[d]) = IF d = c THEN Outside(r) ELSE Outside(call[d])
    BY <1>1
  <1>3. Calling' = [d \in Clients |-> Outside(call'[d])]
    BY DEF Calling
  <1>4. Calling' = [d \in Clients |-> IF d = c THEN Outside(r) ELSE Outside(call[d])]
    BY <1>2, <1>3
  <1>5. Calling = [d \in Clients |-> Outside(call[d])]
    BY DEF Calling
  <1> QED
    BY <1>4, <1>5

LEMMA StepIsSeen ==
  ASSUME PipelineInv, [Next]_vars
  PROVE  Calls!Next \/ UNCHANGED Calling
  <1>0. CallTypes
    BY DEF PipelineInv
  <1>1. CASE UNCHANGED call
    BY <1>1 DEF Calling
  <1>2. ASSUME NEW c \in Clients, Connect(c) PROVE UNCHANGED Calling
    <2>1. call' = [call EXCEPT ![c] = [call[c] EXCEPT !.at = "open"]] /\ call[c].at = "idle"
      BY <1>2 DEF Connect, Reached
    <2>2. call[c] \in CallStates
      BY <1>0 DEF CallTypes
    <2>3. [call[c] EXCEPT !.at = "open"].at = "open"
      BY <2>1, <2>2 DEF CallStates
    <2>4. Outside([call[c] EXCEPT !.at = "open"]) = Outside(call[c])
      BY <2>1, <2>3 DEF Outside
    <2>5. Calling' = [Calling EXCEPT ![c] = Calling[c]]
      BY <1>0, <2>1, <2>4, CallingSet
    <2> QED
      BY <2>5 DEF Calling
  <1>3. ASSUME NEW c \in Clients, Send(c) PROVE Calls!Next
    <2>1. PICK r \in Request :
            /\ call[c].at = "open"
            /\ call' = [call EXCEPT ![c] = [at |-> "asked", what |-> r]]
      BY <1>3 DEF Send, Request
    <2>2. Calling[c] = Calls!Idle
      BY <1>0, <2>1, CallingSet DEF Outside, Calls!Idle
    <2>3. Outside([at |-> "asked", what |-> r]) = Calls!Asked(r)
      BY DEF Outside, Calls!Asked
    <2>4. Calling' = [Calling EXCEPT ![c] = Calls!Asked(r)]
      BY <1>0, <2>1, <2>3, CallingSet
    <2>5. Calls!Ask(c, r)
      BY <2>2, <2>4 DEF Calls!Ask, Calls!Move
    <2> QED
      BY <2>5 DEF Calls!Next
  <1>4. ASSUME NEW c \in Clients, Leave(c) PROVE Calls!Next
    <2>1. /\ call' = [call EXCEPT ![c] = [call[c] EXCEPT !.at = "gone"]]
          /\ call[c].at \in {"open", "asked"}
      BY <1>4 DEF Leave, Reached
    <2>2. call[c] \in CallStates
      BY <1>0 DEF CallTypes
    <2>3. [call[c] EXCEPT !.at = "gone"].at = "gone"
      BY <2>1, <2>2 DEF CallStates
    <2>4. Outside([call[c] EXCEPT !.at = "gone"]) = Calls!Gone
      BY <2>3 DEF Outside, Calls!Gone
    <2>5. Calling' = [Calling EXCEPT ![c] = Calls!Gone]
      BY <1>0, <2>1, <2>4, CallingSet
    <2>6. Calling[c] = Calls!Idle \/ \E r \in Request : Calling[c] = Calls!Asked(r)
      <3>1. Calling[c] = Outside(call[c])
        BY DEF Calling
      <3>2. CASE call[c].at = "open"
        BY <3>1, <3>2 DEF Outside, Calls!Idle
      <3>3. CASE call[c].at = "asked"
        <4>1. call[c].what \in Request
          BY <1>0, <3>3 DEF CallTypes, Asked
        <4>2. call[c] = [at |-> "asked", what |-> call[c].what]
          BY <2>2, <3>3 DEF CallStates
        <4>3. Outside(call[c]) = call[c]
          BY <3>3 DEF Outside
        <4> QED
          BY <3>1, <4>1, <4>2, <4>3 DEF Calls!Asked
      <3> QED
        BY <2>1, <3>2, <3>3
    <2>7. Calls!Give(c)
      BY <2>5, <2>6 DEF Calls!Give
    <2> QED
      BY <2>7 DEF Calls!Next
  <1>5. CASE ReaderReads /\ ~ UNCHANGED call
    <2> DEFINE c == reader
    <2>1. /\ c \in Clients /\ wire[c] \in Request /\ wire[c].kind = "garbage" /\ Asker(c, wire[c])
          /\ Asked(c) /\ call' = [call EXCEPT ![c] = [call[c] EXCEPT !.at = "closed"]]
      BY <1>5 DEF ReaderReads, Reached, PipelineInv, Arriving
    <2>2. PICK d \in Clients, r \in Request :
            /\ d = c /\ r.kind = "garbage" /\ call[d].what = r /\ call[d].at = "asked"
            /\ call' = [call EXCEPT ![d] = [call[d] EXCEPT !.at = "closed"]]
      BY <2>1 DEF Asker, Asked
    <2>3. call[d] \in CallStates
      BY <1>0 DEF CallTypes
    <2>4. [call[d] EXCEPT !.at = "closed"].at = "closed" /\ call[d] = [at |-> "asked", what |-> r]
      BY <2>2, <2>3 DEF CallStates
    <2>5. /\ Outside([call[d] EXCEPT !.at = "closed"]) = Calls!Closed
          /\ Outside(call[d]) = Calls!Asked(r)
      BY <2>4 DEF Outside, Calls!Closed, Calls!Asked
    <2>6. Calling[d] = Calls!Asked(r) /\ Calling' = [Calling EXCEPT ![d] = Calls!Closed]
      BY <1>0, <2>2, <2>5, CallingSet
    <2>7. Calls!Refuse(d, r)
      BY <2>2, <2>6 DEF Calls!Refuse, Calls!Move
    <2> QED
      BY <2>7 DEF Calls!Next
  <1>6. CASE Responds /\ ~ UNCHANGED call
    <2>1. PICK p : p = Head(response)
      OBVIOUS
    <2>2. DueAnswer(p)
      BY <1>6, <2>1, Popped DEF Responds, PipelineInv, Answering
    <2>3. PICK r \in Request : Asker(p.session, r) /\ r.kind # "garbage" /\ p.body = AnswerTo(r)
      BY <2>2 DEF DueAnswer
    <2>9. PICK c : c = p.session
      OBVIOUS
    <2>4. /\ c \in Clients /\ call[c].at = "asked" /\ call[c].what = r
          /\ call' = [call EXCEPT ![c] = [at |-> "answered", what |-> AnswerTo(r)]]
      BY <1>6, <2>1, <2>3, <2>9 DEF Responds, Asker, Asked
    <2>5. call[c] = [at |-> "asked", what |-> r]
      BY <1>0, <2>4 DEF CallTypes, CallStates
    <2>6. /\ Outside(call[c]) = Calls!Asked(r)
          /\ Outside([at |-> "answered", what |-> AnswerTo(r)]) = Calls!Answered(AnswerTo(r))
      BY <2>5 DEF Outside, Calls!Asked, Calls!Answered
    <2> DEFINE a == [at |-> "answered", what |-> AnswerTo(r)]
    <2>7. /\ Calling[c] = Calls!Asked(r)
          /\ Calling' = [Calling EXCEPT ![c] = Calls!Answered(AnswerTo(r))]
      <3>1. call' = [call EXCEPT ![c] = a] /\ Outside(a) = Calls!Answered(AnswerTo(r))
        BY <2>4, <2>6
      <3>2. c \in Clients
        BY <2>4
      <3> HIDE DEF a
      <3>3. Calling' = [Calling EXCEPT ![c] = Outside(a)] /\ Calling[c] = Outside(call[c])
        BY <1>0, <3>1, <3>2, CallingSet
      <3> QED
        BY <2>6, <3>1, <3>3, Zenon
    <2>8. Calls!Reply(c, r)
      BY <2>3, <2>7 DEF Calls!Reply, Calls!Move
    <2> QED
      BY <2>4, <2>8 DEF Calls!Next
  <1>7. CASE Accept \/ AcceptFails \/ ReaderTakes \/ ReaderFails \/ UNCHANGED vars
    BY <1>1, <1>7 DEF Accept, AcceptFails, ReaderTakes, ReaderFails, vars
  <1>8. ASSUME NEW w \in Workers, Works(w) PROVE UNCHANGED call
    BY <1>8 DEF Works, Polls, Pops, Serves
  <1> QED
    BY <1>1, <1>2, <1>3, <1>4, <1>5, <1>6, <1>7, <1>8 DEF Next, Reader

-------------------------------------------------------------------------------
(* Where sessions are                                                      *)

\* Session c is at place x of that kind.
At(c, kind, x) ==
  \/ kind = "backlog" /\ x \in DOMAIN backlog /\ backlog[x] = c
  \/ kind = "conns" /\ x \in DOMAIN conns /\ conns[x] = c
  \/ kind = "reader" /\ x = c /\ reader = c
  \/ kind = "request" /\ x \in DOMAIN request /\ request[x].session = c
  \/ kind = "worker" /\ x \in Workers /\ worker[x].job.session = c
  \/ kind = "response" /\ x \in DOMAIN response /\ response[x].session = c
  \/ kind = "retrying" /\ x = c /\ c \in retrying

Once(c) ==
  \A k, x, l, y : At(c, k, x) /\ At(c, l, y) => k = l /\ x = y

Somewhere(c) == \E k, x : At(c, k, x)

\* A client that has not called is nowhere.
Placed(c) ==
  /\ Once(c)
  /\ call[c].at \in {"open", "asked"} => Somewhere(c)
  /\ call[c].at = "idle" => ~ Somewhere(c)

PlacesInv == \A c \in Clients : Placed(c)

Queues == {"backlog", "conns", "request", "response"}

LEMMA PlacesAreThese ==
  ASSUME NEW c
  PROVE  \A p : p \in Places(c) <=> \E k, x : p = <<k, x>> /\ At(c, k, x)
  <1> SUFFICES ASSUME NEW p
               PROVE  p \in Places(c) <=> \E k, x : p = <<k, x>> /\ At(c, k, x)
    OBVIOUS
  <1>1. ASSUME p \in Places(c) PROVE \E k, x : p = <<k, x>> /\ At(c, k, x)
    BY <1>1 DEF Places, At
  <1>2. ASSUME NEW k, NEW x, p = <<k, x>>, At(c, k, x) PROVE p \in Places(c)
    BY <1>2 DEF Places, At
  <1> QED
    BY <1>1, <1>2

\* Queue r is queue q with an element more, or without its first.
Longer(q, r, e) ==
  /\ Len(q) \in Nat /\ DOMAIN q = 1 .. Len(q) /\ DOMAIN r = 1 .. Len(q) + 1
  /\ \A i \in 1 .. Len(q) : r[i] = q[i]
  /\ r[Len(q) + 1] = e

Shorter(q, r) ==
  /\ Len(q) \in Nat \ {0} /\ DOMAIN q = 1 .. Len(q) /\ DOMAIN r = 1 .. Len(q) - 1
  /\ \A i \in 1 .. Len(q) - 1 : r[i] = q[i + 1]

LEMMA PushedEnd ==
  ASSUME NEW S, NEW q \in Seq(S), NEW e \in S
  PROVE  Longer(q, Append(q, e), e)
  BY AppendProperties DEF Longer

LEMMA PoppedRest ==
  ASSUME NEW S, NEW q \in Seq(S), q # <<>>
  PROVE  Shorter(q, Tail(q)) /\ Head(q) = q[1] /\ Head(q) \in S
  BY HeadTailProperties DEF Shorter

\* A session that goes from place (from, fx) to (to, tx).
Moves(c, from, fx, to, tx) ==
  /\ \A k, x : At(c, k, x)' =>
       \/ k = to /\ x = tx /\ At(c, from, fx)
       \/ k = from /\ k \in Queues /\ fx = 1 /\ x \in Nat \ {0} /\ At(c, k, x + 1)
       \/ At(c, k, x) /\ (k = from => k \notin Queues /\ x # fx)
  /\ Somewhere(c) => Somewhere(c)' \/ At(c, from, fx)

LEMMA MovedOn ==
  ASSUME NEW c \in Clients, NEW from, NEW fx, NEW to, NEW tx, Placed(c),
         Moves(c, from, fx, to, tx),
         At(c, from, fx) => At(c, to, tx)' \/ call'[c].at \notin {"open", "asked"},
         call'[c].at \in {"open", "asked"} => call[c].at \in {"open", "asked"},
         call'[c].at = "idle" => call[c].at = "idle"
  PROVE  Placed(c)'
  <1>1. Once(c)'
    <2> SUFFICES ASSUME NEW k, NEW x, NEW l, NEW y, At(c, k, x)', At(c, l, y)'
                 PROVE  k = l /\ x = y
      BY DEF Once
    <2>1. CASE k = to /\ x = tx /\ At(c, from, fx)
      BY <2>1 DEF Once, Placed, Moves
    <2>2. CASE k = from /\ k \in Queues /\ fx = 1 /\ x \in Nat \ {0} /\ At(c, k, x + 1)
      BY <2>2 DEF Once, Placed, Moves
    <2>3. CASE At(c, k, x) /\ (k = from => k \notin Queues /\ x # fx)
      BY <2>3 DEF Once, Placed, Moves
    <2> QED
      BY <2>1, <2>2, <2>3 DEF Moves
  <1>2. Somewhere(c)' => Somewhere(c)
    BY DEF Moves, Somewhere
  <1> QED
    BY <1>1, <1>2 DEF Placed, Moves, Somewhere

LEMMA AcceptMoves ==
  ASSUME PipelineInv, PlacesInv, Accept
  PROVE  PlacesInv'
  <1> SUFFICES ASSUME NEW c \in Clients, Placed(c)
               PROVE  Placed(c)'
    BY DEF PlacesInv
  <1>0. PICK n : n = Len(conns) + 1
    OBVIOUS
  <1>1. backlog \in Seq(Clients) /\ conns \in Seq(Clients) /\ backlog # <<>>
    BY DEF PipelineInv, Arriving, Accept
  <1>2. Shorter(backlog, backlog') /\ Longer(conns, conns', backlog[1])
    BY <1>1, PushedEnd, PoppedRest DEF Accept
  <1>3. UNCHANGED <<call, reader, request, worker, response, retrying>>
    BY DEF Accept
  <1>4. Moves(c, "backlog", 1, "conns", n)
    <2>1. \A k, x : At(c, k, x)' =>
            \/ k = "conns" /\ x = n /\ At(c, "backlog", 1)
            \/ k = "backlog" /\ x \in Nat \ {0} /\ At(c, k, x + 1)
            \/ At(c, k, x) /\ k # "backlog"
      BY <1>0, <1>2, <1>3 DEF At, Longer, Shorter
    <2>2. \A k, x : At(c, k, x) =>
            \/ k = "backlog" /\ x = 1
            \/ At(c, k, x)' \/ At(c, k, x - 1)'
      BY <1>2, <1>3 DEF At, Longer, Shorter
    <2> QED
      BY <2>1, <2>2 DEF Moves, Somewhere, Queues
  <1>5. At(c, "backlog", 1) => At(c, "conns", n)'
    BY <1>0, <1>2 DEF At, Longer
  <1> QED
    BY <1>3, <1>4, <1>5, MovedOn

LEMMA ReaderTakesMoves ==
  ASSUME PipelineInv, PlacesInv, ReaderTakes
  PROVE  PlacesInv'
  <1> SUFFICES ASSUME NEW c \in Clients, Placed(c)
               PROVE  Placed(c)'
    BY DEF PlacesInv
  <1>1. conns \in Seq(Clients) /\ conns # <<>>
    BY DEF PipelineInv, Arriving, ReaderTakes
  <1>2. Shorter(conns, conns') /\ reader' = conns[1] /\ reader = None /\ None # c
    BY <1>1, PoppedRest, NoneAssumption DEF ReaderTakes
  <1>3. UNCHANGED <<call, backlog, request, worker, response, retrying>>
    BY DEF ReaderTakes
  <1>4. Moves(c, "conns", 1, "reader", c)
    <2>1. \A k, x : At(c, k, x)' =>
            \/ k = "reader" /\ x = c /\ At(c, "conns", 1)
            \/ k = "conns" /\ x \in Nat \ {0} /\ At(c, k, x + 1)
            \/ At(c, k, x) /\ k # "conns"
      BY <1>2, <1>3 DEF At, Shorter
    <2>2. \A k, x : At(c, k, x) =>
            \/ k = "conns" /\ x = 1
            \/ At(c, k, x)' \/ At(c, k, x - 1)'
      BY <1>2, <1>3 DEF At, Shorter
    <2> QED
      BY <2>1, <2>2 DEF Moves, Somewhere, Queues
  <1>5. At(c, "conns", 1) => At(c, "reader", c)'
    BY <1>2 DEF At
  <1> QED
    BY <1>3, <1>4, <1>5, MovedOn

LEMMA ReaderFailsMoves ==
  ASSUME PipelineInv, PlacesInv, ReaderFails
  PROVE  PlacesInv'
  <1> SUFFICES ASSUME NEW c \in Clients, Placed(c)
               PROVE  Placed(c)'
    BY DEF PlacesInv
  <1>1. /\ retrying' = retrying \cup {reader} /\ reader' = None /\ None # c
        /\ UNCHANGED <<call, backlog, conns, request, worker, response>>
    BY NoneAssumption DEF ReaderFails, queues
  <1>2. Moves(c, "reader", c, "retrying", c)
    <2>1. \A k, x : At(c, k, x)' =>
            \/ k = "retrying" /\ x = c /\ At(c, "reader", c)
            \/ At(c, k, x) /\ k # "reader"
      BY <1>1 DEF At
    <2>2. \A k, x : At(c, k, x) => (k = "reader" /\ x = c) \/ At(c, k, x)'
      BY <1>1 DEF At
    <2> QED
      BY <2>1, <2>2 DEF Moves, Somewhere
  <1>3. At(c, "reader", c) => At(c, "retrying", c)'
    BY <1>1 DEF At
  <1> QED
    BY <1>1, <1>2, <1>3, MovedOn

\* The reader hands a request on, or drops its session; the call then waits no more.
LEMMA ReaderReadsMoves ==
  ASSUME PipelineInv, PlacesInv, ReaderReads
  PROVE  PlacesInv'
  <1> SUFFICES ASSUME NEW c \in Clients, Placed(c)
               PROVE  Placed(c)'
    BY DEF PlacesInv
  <1>0. PICK n : n = Len(request) + 1
    OBVIOUS
  <1>1. reader \in Clients /\ wire[reader] \in Request /\ Asker(reader, wire[reader])
    BY DEF ReaderReads, PipelineInv, Arriving
  <1>2. reader' = None /\ None # c /\ UNCHANGED <<backlog, conns, worker, response, retrying>>
    BY NoneAssumption DEF ReaderReads
  <1>3. CASE request' = Append(request, Pair(reader, wire[reader])) /\ UNCHANGED call
    <2>1. Pair(reader, wire[reader]) \in Pairs(Request) /\ Pair(reader, wire[reader]).session = reader
      BY <1>1 DEF Pair, Pairs
    <2>2. Longer(request, request', Pair(reader, wire[reader]))
      BY <2>1, <1>3, PushedEnd DEF PipelineInv, Requested
    <2>3. Moves(c, "reader", c, "request", n)
      <3>1. \A k, x : At(c, k, x)' =>
              \/ k = "request" /\ x = n /\ At(c, "reader", c)
              \/ At(c, k, x) /\ k # "reader"
        BY <1>0, <1>2, <2>1, <2>2 DEF At, Longer
      <3>2. \A k, x : At(c, k, x) => (k = "reader" /\ x = c) \/ At(c, k, x)'
        BY <1>2, <2>2 DEF At, Longer
      <3> QED
        BY <3>1, <3>2 DEF Moves, Somewhere
    <2>4. At(c, "reader", c) => At(c, "request", n)'
      BY <1>0, <2>1, <2>2 DEF At, Longer
    <2> QED
      BY <1>3, <2>3, <2>4, MovedOn
  <1>4. CASE /\ UNCHANGED request
             /\ IF Asked(reader) THEN Reached(reader, "closed") ELSE UNCHANGED call
    <2>1. Moves(c, "reader", c, "dropped", c)
      <3>1. \A k, x : At(c, k, x)' => At(c, k, x) /\ k # "reader"
        BY <1>2, <1>4 DEF At
      <3>2. \A k, x : At(c, k, x) => (k = "reader" /\ x = c) \/ At(c, k, x)'
        BY <1>2, <1>4 DEF At
      <3> QED
        BY <3>1, <3>2 DEF Moves, Somewhere
    <2>2. \A d \in Clients :
            \/ call'[d] = call[d] /\ (d = reader => ~ Asked(d))
            \/ d = reader /\ call'[d].at = "closed"
      <3>1. \A d \in Clients : call[d] \in CallStates
        BY DEF PipelineInv, CallTypes
      <3>2. [call[reader] EXCEPT !.at = "closed"].at = "closed"
        BY <1>1, <3>1 DEF CallStates
      <3> QED
        BY <1>1, <1>4, <3>2 DEF Reached, PipelineInv, CallTypes
    <2>3. At(c, "reader", c) => call'[c].at \notin {"open", "asked"}
      BY <1>1, <2>2 DEF At, Asker, Asked
    <2> QED
      BY <2>1, <2>2, <2>3, MovedOn
  <1> QED
    BY <1>3, <1>4 DEF ReaderReads

LEMMA WorksMoves ==
  ASSUME PipelineInv, PlacesInv, NEW w \in Workers, Works(w)
  PROVE  PlacesInv'
  <1> SUFFICES ASSUME NEW c \in Clients, Placed(c)
               PROVE  Placed(c)'
    BY DEF PlacesInv
  <1>1. UNCHANGED <<call, backlog, conns, reader, retrying>>
    BY DEF Works, Polls, Pops, Serves, queues
  <1>2. /\ worker \in [Workers -> [at: {"serve"}, job: Pairs(Request)]
                                  \cup [at: {"poll", "pop"}, job: {Polling.job}]]
        /\ Polling.job.session = None /\ None # c
    BY NoneAssumption DEF PipelineInv, Served, Polling, Pair
  <1>3. CASE Polls(w)
    <2>1. \A v \in Workers : worker'[v].job = worker[v].job
      <3>1. worker[w] \in [at: {"poll", "pop"}, job: {Polling.job}]
        BY <1>2, <1>3 DEF Polls
      <3>2. [worker[w] EXCEPT !.at = "pop"].job = worker[w].job
        BY <3>1
      <3>3. \A v \in Workers :
              worker'[v] = IF v = w THEN [worker[w] EXCEPT !.at = "pop"] ELSE worker[v]
        BY <1>2, <1>3 DEF Polls
      <3> QED
        BY <3>2, <3>3
    <2>2. \A k, x : At(c, k, x)' <=> At(c, k, x)
      BY <1>1, <1>3, <2>1 DEF Polls, queues, At
    <2> QED
      BY <1>1, <2>2 DEF Placed, Once, Somewhere
  <1>4. CASE Pops(w)
    <2>1. Shorter(request, request') /\ Head(request) = request[1]
      BY <1>4, PoppedRest DEF Pops, PipelineInv, Requested
    <2>2. /\ worker[w].job.session # c /\ worker'[w].job.session = request[1].session
          /\ \A v \in Workers \ {w} : worker'[v] = worker[v]
          /\ UNCHANGED response
      BY <1>2, <1>4, <2>1 DEF Pops
    <2>3. Moves(c, "request", 1, "worker", w)
      <3>1. \A k, x : At(c, k, x)' =>
              \/ k = "worker" /\ x = w /\ At(c, "request", 1)
              \/ k = "request" /\ x \in Nat \ {0} /\ At(c, k, x + 1)
              \/ At(c, k, x) /\ k # "request"
        BY <1>1, <2>1, <2>2 DEF At, Shorter
      <3>2. \A k, x : At(c, k, x) =>
              \/ k = "request" /\ x = 1
              \/ At(c, k, x)' \/ At(c, k, x - 1)'
        BY <1>1, <2>1, <2>2 DEF At, Shorter
      <3> QED
        BY <3>1, <3>2 DEF Moves, Somewhere, Queues
    <2>4. At(c, "request", 1) => At(c, "worker", w)'
      BY <2>2 DEF At
    <2> QED
      BY <1>1, <2>3, <2>4, MovedOn
  <1>5. CASE Serves(w)
    <2>0. PICK n : n = Len(response) + 1
      OBVIOUS
    <2>1. PICK a : a = Pair(worker[w].job.session, AnswerTo(worker[w].job.body))
      OBVIOUS
    <2>2. a \in Pairs(Answers) /\ a.session = worker[w].job.session
      <3>1. worker[w].job \in Pairs(Request)
        BY <1>2, <1>5 DEF Serves
      <3>2. worker[w].job.body \in Request /\ worker[w].job.session \in Clients
        BY <3>1 DEF Pairs
      <3>3. AnswerTo(worker[w].job.body) \in Answers
        BY <3>2 DEF AnswerTo, Answers, Request, Status
      <3> QED
        BY <2>1, <3>2, <3>3 DEF Pair, Pairs
    <2>3. Longer(response, response', a)
      BY <1>5, <2>1, <2>2, PushedEnd DEF Serves, PipelineInv, Answering
    <2>4. /\ worker'[w].job.session = None
          /\ \A v \in Workers \ {w} : worker'[v] = worker[v]
          /\ UNCHANGED request
      BY <1>2, <1>5 DEF Serves
    <2>5. Moves(c, "worker", w, "response", n)
      <3>1. \A k, x : At(c, k, x)' =>
              \/ k = "response" /\ x = n /\ At(c, "worker", w)
              \/ At(c, k, x) /\ (k = "worker" => x # w)
        BY <1>1, <1>2, <2>0, <2>2, <2>3, <2>4 DEF At, Longer
      <3>2. \A k, x : At(c, k, x) => (k = "worker" /\ x = w) \/ At(c, k, x)'
        BY <1>1, <2>3, <2>4 DEF At, Longer
      <3> QED
        BY <3>1, <3>2 DEF Moves, Somewhere, Queues
    <2>6. At(c, "worker", w) => At(c, "response", n)'
      BY <2>0, <2>2, <2>3 DEF At, Longer
    <2> QED
      BY <1>1, <2>5, <2>6, MovedOn
  <1> QED
    BY <1>3, <1>4, <1>5 DEF Works

LEMMA RespondsMoves ==
  ASSUME PipelineInv, PlacesInv, Responds
  PROVE  PlacesInv'
  <1> SUFFICES ASSUME NEW c \in Clients, Placed(c)
               PROVE  Placed(c)'
    BY DEF PlacesInv
  <1>1. /\ Shorter(response, response') /\ Head(response) = response[1]
        /\ DueAnswer(response[1]) /\ response[1].session \in Clients
    <2>1. response \in Seq(Pairs(Answers)) /\ response # <<>> /\ response' = Tail(response)
      BY DEF Responds, PipelineInv, Answering
    <2>2. Shorter(response, response') /\ Head(response) = response[1]
      BY <2>1, PoppedRest
    <2>3. 1 \in DOMAIN response
      BY <2>2 DEF Shorter
    <2> QED
      BY <2>2, <2>3 DEF PipelineInv, Answering, DueAnswer, Asker
  <1>2. UNCHANGED <<backlog, conns, reader, request, worker, retrying>>
    BY DEF Responds
  <1>3. \A d \in Clients :
          \/ call'[d] = call[d] /\ (d = response[1].session => ~ Asked(d))
          \/ d = response[1].session /\ call'[d].at = "answered"
    BY <1>1 DEF Responds, PipelineInv, CallTypes
  <1>4. Moves(c, "response", 1, "sent", c)
    <2>1. \A k, x : At(c, k, x)' =>
            \/ k = "response" /\ x \in Nat \ {0} /\ At(c, k, x + 1)
            \/ At(c, k, x) /\ k # "response"
      BY <1>1, <1>2 DEF At, Shorter
    <2>2. \A k, x : At(c, k, x) =>
            \/ k = "response" /\ x = 1
            \/ At(c, k, x)' \/ At(c, k, x - 1)'
      BY <1>1, <1>2 DEF At, Shorter
    <2> QED
      BY <2>1, <2>2 DEF Moves, Somewhere, Queues
  <1>5. At(c, "response", 1) => call'[c].at \notin {"open", "asked"}
    BY <1>1, <1>3 DEF At, DueAnswer, Asker, Asked
  <1> QED
    BY <1>3, <1>4, <1>5, MovedOn

\* What the clients do leaves every session where it is, but for a new one.
LEMMA ClientMoves ==
  ASSUME PipelineInv, PlacesInv, NEW d \in Clients, Connect(d) \/ Send(d) \/ Leave(d)
  PROVE  PlacesInv'
  <1> SUFFICES ASSUME NEW c \in Clients, Placed(c)
               PROVE  Placed(c)'
    BY DEF PlacesInv
  <1>1. UNCHANGED <<conns, reader, request, worker, response, retrying>>
    BY DEF Connect, Send, Leave, server, queues
  <1>2. call[d] \in CallStates /\ \A at : [call[d] EXCEPT !.at = at].at = at
    BY DEF PipelineInv, CallTypes, CallStates
  <1>3. \A e \in Clients \ {d} : call'[e] = call[e]
    BY DEF Connect, Send, Leave, Reached, PipelineInv, CallTypes
  <1>4. CASE Connect(d)
    <2>1. backlog \in Seq(Clients) /\ backlog' = Append(backlog, d)
      BY <1>4 DEF Connect, PipelineInv, Arriving
    <2>2. Longer(backlog, backlog', d)
      BY <2>1, PushedEnd
    <2>3. call[d].at = "idle" /\ call'[d].at = "open"
      BY <1>2, <1>4 DEF Connect, Reached, PipelineInv, CallTypes
    <2>4. CASE c = d
      <3>0. PICK n : n = Len(backlog) + 1
        OBVIOUS
      <3>1. \A k, x : ~ At(c, k, x)
        BY <2>3, <2>4 DEF Placed, Somewhere
      <3>2. \A k, x : At(c, k, x)' <=> k = "backlog" /\ x = n
        BY <3>0, <3>1, <1>1, <2>2, <2>4 DEF At, Longer
      <3> QED
        BY <3>2, <2>3, <2>4 DEF Placed, Once, Somewhere
    <2>5. CASE c # d
      <3>1. \A k, x : At(c, k, x)' <=> At(c, k, x)
        BY <1>1, <2>2, <2>5 DEF At, Longer
      <3> QED
        BY <3>1, <1>3, <2>5 DEF Placed, Once, Somewhere
    <2> QED
      BY <2>4, <2>5
  <1>5. CASE Send(d) \/ Leave(d)
    <2>1. \A k, x : At(c, k, x)' <=> At(c, k, x)
      BY <1>1, <1>5 DEF Send, Leave, At
    <2>2. call[d].at \in {"open", "asked"} /\ call'[d].at \in {"asked", "gone"}
      <3>1. call \in [Clients -> CallStates]
        BY DEF PipelineInv, CallTypes
      <3>2. CASE Send(d)
        BY <3>1, <3>2 DEF Send
      <3>3. CASE Leave(d)
        BY <3>1, <3>3, <1>2 DEF Leave, Reached
      <3> QED
        BY <3>2, <3>3, <1>5
    <2> QED
      BY <1>3, <2>1, <2>2 DEF Placed, Once, Somewhere
  <1> QED
    BY <1>4, <1>5

LEMMA PlacesInit == Init => PlacesInv
  <1> SUFFICES ASSUME Init, NEW c \in Clients PROVE Placed(c)
    BY DEF PlacesInv
  <1>1. \A w \in Workers : worker[w].job.session = None
    BY DEF Init, Polling, Pair
  <1>2. \A k, x : ~ At(c, k, x)
    BY <1>1, NoneAssumption DEF Init, At
  <1>3. call[c].at = "idle"
    BY DEF Init
  <1> QED
    BY <1>2, <1>3 DEF Placed, Once, Somewhere

LEMMA PlacesKept ==
  ASSUME PipelineInv, PlacesInv, [Next]_vars
  PROVE  PlacesInv'
  <1>1. CASE UNCHANGED vars \/ AcceptFails
    <2>1. UNCHANGED <<call, backlog, conns, reader, request, worker, response, retrying>>
      BY <1>1 DEF vars, AcceptFails, queues
    <2>2. \A c, k, x : At(c, k, x)' <=> At(c, k, x)
      BY <2>1 DEF At
    <2> QED
      BY <2>1, <2>2 DEF PlacesInv, Placed, Once, Somewhere
  <1>2. ASSUME NEW c \in Clients, Connect(c) \/ Send(c) \/ Leave(c) PROVE PlacesInv'
    BY <1>2, ClientMoves
  <1>3. CASE Accept \/ Reader
    BY <1>3, AcceptMoves, ReaderTakesMoves, ReaderReadsMoves, ReaderFailsMoves DEF Reader
  <1>4. ASSUME NEW w \in Workers, Works(w) PROVE PlacesInv'
    BY <1>4, WorksMoves
  <1>5. CASE Responds
    BY <1>5, RespondsMoves
  <1> QED
    BY <1>1, <1>2, <1>3, <1>4, <1>5 DEF Next

LEMMA PlacedInOne ==
  ASSUME NEW c, Once(c)
  PROVE  Cardinality(Places(c)) <= 1
  <1>1. \A p, q \in Places(c) : p = q
    BY PlacesAreThese DEF Once
  <1>2. CASE Places(c) = {}
    BY <1>2, FS_EmptySet
  <1>3. ASSUME NEW p \in Places(c) PROVE Cardinality(Places(c)) <= 1
    <2>1. Places(c) = {p}
      BY <1>1
    <2> QED
      BY <2>1, FS_Singleton
  <1> QED
    BY <1>2, <1>3

-------------------------------------------------------------------------------
(* What StarvedOnlyByThese rests on, without fairness                      *)

Waits(c) == (\E i \in DOMAIN backlog : backlog[i] = c) \/ (\E i \in DOMAIN conns : conns[i] = c)

\* A session that nothing was read from is of a client that calls or has left,
\* and its request is still on the wire; one that is repeated without end is of
\* a client that has left.
Unread ==
  /\ \A c \in Clients : Waits(c) \/ reader = c =>
       call[c].at \in {"open", "asked", "gone"} /\ (Asked(c) => wire[c] # NoRequest)
  /\ \A c \in retrying : call[c].at = "gone"

\* Some thread finds what it waits for.
GoesOn ==
  \/ accepting /\ backlog # <<>>
  \/ reader = None /\ conns # <<>>
  \/ reader # None /\ (wire[reader] # NoRequest \/ call[reader].at = "gone")
  \/ \E w \in Workers : worker[w].at = "serve" \/ request # <<>>
  \/ response # <<>>

WorkersAt(place) == {w \in Workers : worker[w].at = place}

\* How many steps the threads have before them, if no one connects: what is in a
\* queue counts for each place it has still to pass.
StepsLeft ==
  (IF accepting THEN 1 ELSE 0) + 8 * Len(backlog) + 7 * Len(conns)
    + (IF reader = None THEN 0 ELSE 6) + 4 * Len(request)
    + 3 * Cardinality(WorkersAt("serve")) + Cardinality(WorkersAt("poll"))
    + Len(response)

Threads == Accept \/ AcceptFails \/ Reader \/ Responds \/ \E w \in Workers : Works(w)

LEMMA HeadWaits ==
  ASSUME NEW q \in Seq(Clients), q # <<>>
  PROVE  /\ Head(q) \in Clients /\ \E i \in DOMAIN q : q[i] = Head(q)
         /\ \A c : (\E i \in DOMAIN Tail(q) : Tail(q)[i] = c) => \E i \in DOMAIN q : q[i] = c
  BY Popped

LEMMA AppendWaits ==
  ASSUME NEW q \in Seq(Clients), NEW x \in Clients
  PROVE  \A c : (\E i \in DOMAIN Append(q, x) : Append(q, x)[i] = c) =>
                  c = x \/ \E i \in DOMAIN q : q[i] = c
  BY Pushed

LEMMA UnreadKept ==
  ASSUME PipelineInv, PlacesInv, Unread, retrying \subseteq Clients, [Next]_vars
  PROVE  Unread'
  <1>1. /\ backlog \in Seq(Clients) /\ conns \in Seq(Clients) /\ reader \in Clients \cup {None}
        /\ call \in [Clients -> CallStates] /\ wire \in [Clients -> Request \cup {NoRequest}]
    BY DEF PipelineInv, CallTypes, Arriving
  <1>2. ASSUME UNCHANGED <<call, wire, retrying>>,
               \A c \in Clients : (Waits(c) \/ reader = c)' => Waits(c) \/ reader = c
        PROVE  Unread'
    BY <1>2 DEF Unread, Asked
  <1>3. CASE UNCHANGED vars \/ AcceptFails \/ \E w \in Workers : Works(w)
    <2>1. UNCHANGED <<call, wire, retrying, backlog, conns, reader>>
      BY <1>3 DEF vars, queues, AcceptFails, Works, Polls, Pops, Serves
    <2> QED
      BY <2>1, <1>2 DEF Waits
  <1>4. ASSUME NEW c \in Clients, Connect(c) PROVE Unread'
    <2>1. /\ call' = [call EXCEPT ![c] = [@ EXCEPT !.at = "open"]] /\ call[c].at = "idle"
          /\ backlog' = Append(backlog, c) /\ UNCHANGED <<wire, conns, reader, retrying>>
      BY <1>4 DEF Connect, Reached, server, queues
    <2>2. call'[c].at = "open" /\ \A e \in Clients \ {c} : call'[e] = call[e]
      BY <2>1, <1>1 DEF CallStates
    <2>3. \A e \in Clients : (Waits(e) \/ reader = e)' => e = c \/ Waits(e) \/ reader = e
      BY <2>1, <1>1, AppendWaits DEF Waits
    <2>4. c \notin retrying
      BY <2>1 DEF Unread
    <2> QED
      BY <2>1, <2>2, <2>3, <2>4 DEF Unread, Asked
  <1>5. ASSUME NEW c \in Clients, Send(c) PROVE Unread'
    <2>1. PICK k \in Kinds :
            /\ call' = [call EXCEPT ![c] = [at |-> "asked", what |-> [from |-> c, kind |-> k]]]
            /\ wire' = [wire EXCEPT ![c] = [from |-> c, kind |-> k]]
      BY <1>5 DEF Send
    <2>2. call[c].at = "open" /\ UNCHANGED <<backlog, conns, reader, retrying>>
      BY <1>5 DEF Send, server, queues
    <2>3. /\ call'[c].at = "asked" /\ wire'[c] = [from |-> c, kind |-> k]
          /\ \A e \in Clients \ {c} : call'[e] = call[e] /\ wire'[e] = wire[e]
      BY <2>1, <1>1
    <2>4. wire'[c] # NoRequest
      BY <2>3, NoneAssumption DEF NoRequest
    <2> QED
      BY <2>2, <2>3, <2>4 DEF Unread, Asked, Waits
  <1>6. ASSUME NEW c \in Clients, Leave(c) PROVE Unread'
    <2>1. /\ call' = [call EXCEPT ![c] = [@ EXCEPT !.at = "gone"]]
          /\ UNCHANGED <<wire, backlog, conns, reader, retrying>>
      BY <1>6 DEF Leave, Reached, server, queues
    <2>2. call'[c].at = "gone" /\ \A e \in Clients \ {c} : call'[e] = call[e]
      BY <2>1, <1>1 DEF CallStates
    <2> QED
      BY <2>1, <2>2 DEF Unread, Asked, Waits
  <1>7. CASE Accept
    <2>1. /\ backlog # <<>> /\ conns' = Append(conns, Head(backlog)) /\ backlog' = Tail(backlog)
          /\ UNCHANGED <<call, wire, retrying, reader>>
      BY <1>7 DEF Accept
    <2>2. \A c \in Clients : Waits(c)' => Waits(c)
      BY <2>1, <1>1, HeadWaits, AppendWaits DEF Waits
    <2> QED
      BY <2>1, <2>2, <1>2
  <1>8. CASE ReaderTakes
    <2>1. /\ conns # <<>> /\ reader' = Head(conns) /\ conns' = Tail(conns)
          /\ UNCHANGED <<call, wire, retrying, backlog>>
      BY <1>8 DEF ReaderTakes
    <2>2. \A c \in Clients : (Waits(c) \/ reader = c)' => Waits(c)
      BY <2>1, <1>1, HeadWaits DEF Waits
    <2> QED
      BY <2>1, <2>2, <1>2
  <1>9. CASE ReaderReads
    <2>1. /\ reader # None /\ reader' = None /\ wire' = [wire EXCEPT ![reader] = NoRequest]
          /\ call' = call \/ Reached(reader, "closed")
          /\ UNCHANGED <<backlog, conns, retrying>>
      BY <1>9 DEF ReaderReads
    <2>2. /\ reader \in Clients
          /\ \A c \in Clients \ {reader} : call'[c] = call[c] /\ wire'[c] = wire[c]
      BY <2>1, <1>1 DEF Reached
    <2>3. ~ Waits(reader) /\ reader \notin retrying
      <3>1. At(reader, "reader", reader) /\ Once(reader)
        BY <2>2 DEF At, PlacesInv, Placed
      <3>2. ASSUME reader \in retrying PROVE FALSE
        BY <3>1, <3>2 DEF At, Once
      <3>3. ASSUME NEW i \in DOMAIN backlog, backlog[i] = reader PROVE FALSE
        BY <3>1, <3>3 DEF At, Once
      <3>4. ASSUME NEW i \in DOMAIN conns, conns[i] = reader PROVE FALSE
        BY <3>1, <3>4 DEF At, Once
      <3> QED
        BY <3>2, <3>3, <3>4 DEF Waits
    <2>4. \A c \in Clients : (Waits(c) \/ reader = c)' => Waits(c) /\ c # reader
      BY <2>1, <2>2, <2>3, NoneAssumption DEF Waits
    <2> QED
      BY <2>1, <2>2, <2>3, <2>4 DEF Unread, Asked
  <1>10. CASE ReaderFails
    <2>1. /\ reader # None /\ reader' = None /\ call[reader].at = "gone"
          /\ retrying' = retrying \cup {reader}
          /\ UNCHANGED <<call, wire, backlog, conns>>
      BY <1>10 DEF ReaderFails, queues
    <2>2. \A c \in Clients : (Waits(c) \/ reader = c)' => Waits(c)
      BY <2>1, NoneAssumption DEF Waits
    <2> QED
      BY <2>1, <2>2 DEF Unread, Asked
  <1>11. CASE Responds
    <2> DEFINE e == Head(response).session
    <2>1. /\ response # <<>> /\ UNCHANGED <<wire, backlog, conns, reader, retrying>>
          /\ call' = IF Asked(e)
                       THEN [call EXCEPT ![e] = [at |-> "answered", what |-> Head(response).body]]
                       ELSE call
      BY <1>11 DEF Responds
    <2>2. response \in Seq(Pairs(Answers))
      BY DEF PipelineInv, Answering
    <2>3. e \in Clients /\ 1 \in DOMAIN response /\ response[1].session = e
      <3>1. Head(response) \in Pairs(Answers) /\ 1 \in DOMAIN response /\ Head(response) = response[1]
        BY <2>1, <2>2, Popped
      <3> QED
        BY <3>1 DEF Pairs
    <2> HIDE DEF e
    <2>4. ~ Waits(e) /\ reader # e
      <3>1. At(e, "response", 1) /\ Once(e)
        BY <2>3 DEF At, PlacesInv, Placed
      <3>2. ASSUME reader = e PROVE FALSE
        BY <3>1, <3>2 DEF At, Once
      <3>3. ASSUME NEW i \in DOMAIN backlog, backlog[i] = e PROVE FALSE
        BY <3>1, <3>3 DEF At, Once
      <3>4. ASSUME NEW i \in DOMAIN conns, conns[i] = e PROVE FALSE
        BY <3>1, <3>4 DEF At, Once
      <3> QED
        BY <3>2, <3>3, <3>4 DEF Waits
    <2>5. \A c \in Clients \ {e} : call'[c] = call[c]
      BY <2>1, <2>3, <1>1
    <2>6. e \in retrying => call'[e] = call[e]
      BY <2>1 DEF Unread, Asked
    <2>7. \A c \in Clients : (Waits(c) \/ reader = c)' => (Waits(c) \/ reader = c) /\ c # e
      BY <2>1, <2>4 DEF Waits
    <2> QED
      BY <2>1, <2>5, <2>6, <2>7 DEF Unread, Asked
  <1> QED
    BY <1>3, <1>4, <1>5, <1>6, <1>7, <1>8, <1>9, <1>10, <1>11 DEF Next, Reader

LEMMA SomeoneGoesOn ==
  ASSUME Workers # {}, PipelineInv, PlacesInv, Unread, NEW c \in Clients, Asked(c)
  PROVE  GoesOn \/ ~ accepting \/ (reader # None /\ call[reader].at = "open")
  <1>1. call[c].at = "asked" /\ Somewhere(c)
    BY DEF Asked, PlacesInv, Placed
  <1>2. PICK k, x : At(c, k, x)
    BY <1>1 DEF Somewhere
  <1>3. ASSUME reader # None PROVE GoesOn \/ call[reader].at = "open"
    <2>1. reader \in Clients
      BY <1>3 DEF PipelineInv, Arriving
    <2>2. call[reader].at \in {"open", "gone"} \/ wire[reader] # NoRequest
      BY <2>1 DEF Unread, Asked
    <2> QED
      BY <1>3, <2>2 DEF GoesOn
  <1>4. CASE k = "backlog"
    <2>1. backlog # <<>>
      BY <1>2, <1>4 DEF At
    <2> QED
      BY <2>1 DEF GoesOn
  <1>5. CASE k = "conns"
    <2>1. conns # <<>>
      BY <1>2, <1>5 DEF At
    <2> QED
      BY <2>1, <1>3 DEF GoesOn
  <1>6. CASE k = "reader"
    <2>1. reader # None
      BY <1>2, <1>6, NoneAssumption DEF At
    <2> QED
      BY <2>1, <1>3
  <1>7. CASE k = "request"
    <2>1. request # <<>>
      BY <1>2, <1>7 DEF At
    <2> QED
      BY <2>1 DEF GoesOn
  <1>8. CASE k = "worker"
    <2>1. x \in Workers /\ worker[x].job.session = c
      BY <1>2, <1>8 DEF At
    <2>2. worker[x] \in [at: {"serve"}, job: Pairs(Request)] \cup [at: {"poll", "pop"}, job: {Polling.job}]
      BY <2>1 DEF PipelineInv, Served
    <2>3. worker[x].job # Polling.job
      BY <2>1, NoneAssumption DEF Polling, Pair
    <2>4. worker[x].at = "serve"
      BY <2>2, <2>3
    <2> QED
      BY <2>1, <2>4 DEF GoesOn
  <1>9. CASE k = "response"
    <2>1. response # <<>>
      BY <1>2, <1>9 DEF At
    <2> QED
      BY <2>1 DEF GoesOn
  <1>10. CASE k = "retrying"
    BY <1>1, <1>2, <1>10 DEF At, Unread
  <1> QED
    BY <1>2, <1>4, <1>5, <1>6, <1>7, <1>8, <1>9, <1>10 DEF At

\* The worker's place changes.
LEMMA WorkerGoes ==
  ASSUME IsFiniteSet(Workers), NEW w \in Workers, NEW to, to # worker[w].at,
         worker'[w].at = to, \A v \in Workers \ {w} : worker'[v] = worker[v], NEW place
  PROVE  LET n == Cardinality(WorkersAt(place))
             m == Cardinality(WorkersAt(place)')
         IN  /\ n \in Nat /\ m \in Nat
             /\ m = IF place = to THEN n + 1 ELSE IF place = worker[w].at THEN n - 1 ELSE n
  <1>1. WorkersAt(place) \in SUBSET Workers
    BY DEF WorkersAt
  <1>2. IsFiniteSet(WorkersAt(place)) /\ Cardinality(WorkersAt(place)) \in Nat
    BY <1>1, FS_Subset, FS_CardinalityType
  <1>3. WorkersAt(place)' = IF place = to THEN WorkersAt(place) \cup {w} ELSE WorkersAt(place) \ {w}
    BY DEF WorkersAt
  <1>4. w \in WorkersAt(place) <=> place = worker[w].at
    BY DEF WorkersAt
  <1>5. w \in WorkersAt(place) => Cardinality(WorkersAt(place)) # 0
    BY <1>2, FS_EmptySet
  <1>6. Cardinality(WorkersAt(place) \cup {w}) =
          IF w \in WorkersAt(place) THEN Cardinality(WorkersAt(place)) ELSE Cardinality(WorkersAt(place)) + 1
    BY <1>2, FS_AddElement
  <1>7. Cardinality(WorkersAt(place) \ {w}) =
          IF w \in WorkersAt(place) THEN Cardinality(WorkersAt(place)) - 1 ELSE Cardinality(WorkersAt(place))
    BY <1>2, FS_RemoveElement
  <1>8. CASE place = to
    <2>1. Cardinality(WorkersAt(place)') = Cardinality(WorkersAt(place)) + 1
      BY <1>3, <1>4, <1>6, <1>8
    <2> QED
      BY <2>1, <1>2, <1>8
  <1>9. CASE place # to /\ place = worker[w].at
    <2>1. Cardinality(WorkersAt(place)') = Cardinality(WorkersAt(place)) - 1
      BY <1>3, <1>4, <1>7, <1>9
    <2> QED
      BY <2>1, <1>2, <1>4, <1>5, <1>9
  <1>10. CASE place # to /\ place # worker[w].at
    <2>1. Cardinality(WorkersAt(place)') = Cardinality(WorkersAt(place))
      BY <1>3, <1>4, <1>7, <1>10
    <2> QED
      BY <2>1, <1>2, <1>10
  <1> QED
    BY <1>8, <1>9, <1>10

LEMMA ThreadsAdvance ==
  ASSUME IsFiniteSet(Workers), PipelineInv, accepting \in BOOLEAN, Threads
  PROVE  StepsLeft \in Nat /\ StepsLeft' \in Nat /\ StepsLeft' < StepsLeft
  <1> DEFINE a == IF accepting THEN 1 ELSE 0
             b == Len(backlog)
             k == Len(conns)
             r == IF reader = None THEN 0 ELSE 6
             q == Len(request)
             s == Cardinality(WorkersAt("serve"))
             p == Cardinality(WorkersAt("poll"))
             n == Len(response)
  <1>1. /\ backlog \in Seq(Clients) /\ conns \in Seq(Clients) /\ request \in Seq(Pairs(Request))
        /\ response \in Seq(Pairs(Answers))
    BY DEF PipelineInv, Arriving, Requested, Answering
  <1>2. a \in Nat /\ b \in Nat /\ k \in Nat /\ r \in Nat /\ q \in Nat /\ n \in Nat
    BY <1>1
  <1>3. s \in Nat /\ p \in Nat
    <2>1. WorkersAt("serve") \in SUBSET Workers /\ WorkersAt("poll") \in SUBSET Workers
      BY DEF WorkersAt
    <2> QED
      BY <2>1, FS_Subset, FS_CardinalityType
  <1>4. /\ StepsLeft = a + 8 * b + 7 * k + r + 4 * q + 3 * s + p + n
        /\ StepsLeft' = a' + 8 * b' + 7 * k' + r' + 4 * q' + 3 * s' + p' + n'
    BY DEF StepsLeft
  <1>5. UNCHANGED worker => s' = s /\ p' = p
    BY DEF WorkersAt
  <1>6. \A S, e : \A z \in Seq(S) : e \in S => Len(Append(z, e)) = Len(z) + 1
    OBVIOUS
  <1>7. \A S : \A z \in Seq(S) : z # <<>> => Len(Tail(z)) = Len(z) - 1 /\ Len(z) > 0 /\ Head(z) \in S
    OBVIOUS
  <1>8. CASE Accept
    <2>1. a' = a /\ r' = r /\ q' = q /\ s' = s /\ p' = p /\ n' = n
      BY <1>5, <1>8 DEF Accept
    <2>2. b' = b - 1 /\ b > 0 /\ k' = k + 1
      BY <1>1, <1>6, <1>7, <1>8 DEF Accept
    <2> HIDE DEF a, b, k, r, q, s, p, n
    <2> QED
      BY <1>2, <1>3, <1>4, <2>1, <2>2
  <1>9. CASE AcceptFails
    <2>1. a = 1 /\ a' = 0 /\ r' = r /\ q' = q /\ s' = s /\ p' = p /\ n' = n /\ b' = b /\ k' = k
      BY <1>5, <1>9 DEF AcceptFails, queues
    <2> HIDE DEF a, b, k, r, q, s, p, n
    <2> QED
      BY <1>2, <1>3, <1>4, <2>1
  <1>10. CASE ReaderTakes
    <2>1. a' = a /\ b' = b /\ q' = q /\ s' = s /\ p' = p /\ n' = n
      BY <1>5, <1>10 DEF ReaderTakes
    <2>2. k' = k - 1 /\ k > 0 /\ r = 0 /\ r' \in Nat /\ r' < 7
      BY <1>1, <1>7, <1>10 DEF ReaderTakes
    <2> HIDE DEF a, b, k, r, q, s, p, n
    <2>3. PICK x \in Nat : x = r'
      BY <2>2
    <2>4. PICK y \in Nat : y = a + 8 * b + 4 * q + 3 * s + p + n
      BY <1>2, <1>3
    <2>5. StepsLeft = y + 7 * k /\ StepsLeft' = y + 7 * (k - 1) + x
      BY <1>2, <1>3, <1>4, <2>1, <2>2, <2>3, <2>4
    <2> QED
      BY <1>2, <2>2, <2>3, <2>4, <2>5
  <1>11. CASE ReaderReads
    <2>1. a' = a /\ b' = b /\ k' = k /\ s' = s /\ p' = p /\ n' = n /\ r = 6 /\ r' = 0
      BY <1>5, <1>11 DEF ReaderReads
    <2>2. q' = q + 1 \/ q' = q
      <3>1. Len(Append(request, Pair(reader, wire[reader]))) = q + 1
        BY <1>1
      <3> QED
        BY <3>1, <1>11 DEF ReaderReads
    <2> HIDE DEF a, b, k, r, q, s, p, n
    <2> QED
      BY <1>2, <1>3, <1>4, <2>1, <2>2
  <1>12. CASE ReaderFails
    <2>1. /\ a' = a /\ b' = b /\ k' = k /\ q' = q /\ s' = s /\ p' = p /\ n' = n
          /\ r = 6 /\ r' = 0
      BY <1>5, <1>12 DEF ReaderFails, queues
    <2> HIDE DEF a, b, k, r, q, s, p, n
    <2> QED
      BY <1>2, <1>3, <1>4, <2>1
  <1>13. CASE Responds
    <2>1. a' = a /\ b' = b /\ k' = k /\ r' = r /\ q' = q /\ s' = s /\ p' = p
      BY <1>5, <1>13 DEF Responds
    <2>2. n' = n - 1 /\ n > 0
      BY <1>1, <1>7, <1>13 DEF Responds
    <2> HIDE DEF a, b, k, r, q, s, p, n
    <2> QED
      BY <1>2, <1>3, <1>4, <2>1, <2>2
  <1>14. ASSUME NEW w \in Workers, Works(w) PROVE StepsLeft' \in Nat /\ StepsLeft' < StepsLeft
    <2>1. a' = a /\ b' = b /\ k' = k /\ r' = r
      BY <1>14 DEF Works, Polls, Pops, Serves, queues
    <2>2. DOMAIN worker = Workers
      BY DEF PipelineInv, Served
    <2>3. worker[w] \in [at: {"serve"}, job: Pairs(Request)] \cup [at: {"poll", "pop"}, job: {Polling.job}]
      BY DEF PipelineInv, Served
    <2>4. CASE Polls(w)
      <3>1. worker[w].at = "poll" /\ worker' = [worker EXCEPT ![w] = [@ EXCEPT !.at = "pop"]]
        BY <2>4 DEF Polls
      <3>2. worker'[w].at = "pop" /\ \A v \in Workers \ {w} : worker'[v] = worker[v]
        BY <3>1, <2>2, <2>3
      <3>3. s' = s /\ p' = p - 1 /\ s' \in Nat /\ p' \in Nat
        BY <3>1, <3>2, WorkerGoes
      <3>4. q' = q /\ n' = n
        BY <2>4 DEF Polls, queues
      <3> HIDE DEF a, b, k, r, q, s, p, n
      <3> QED
        BY <1>2, <1>3, <1>4, <2>1, <3>3, <3>4
    <2>5. CASE Pops(w)
      <3>1. /\ worker[w].at = "pop"
            /\ worker' = [worker EXCEPT ![w] = [at |-> "serve", job |-> Head(request)]]
        BY <2>5 DEF Pops
      <3>2. worker'[w].at = "serve" /\ \A v \in Workers \ {w} : worker'[v] = worker[v]
        BY <3>1, <2>2
      <3>3. s' = s + 1 /\ p' = p
        BY <3>1, <3>2, WorkerGoes
      <3>4. q' = q - 1 /\ q > 0 /\ n' = n
        BY <2>5, <1>1, <1>7 DEF Pops
      <3> HIDE DEF a, b, k, r, q, s, p, n
      <3> QED
        BY <1>2, <1>3, <1>4, <2>1, <3>3, <3>4
    <2>6. CASE Serves(w)
      <3>1. worker[w].at = "serve" /\ worker' = [worker EXCEPT ![w] = Polling]
        BY <2>6 DEF Serves
      <3>2. worker'[w].at = "poll" /\ \A v \in Workers \ {w} : worker'[v] = worker[v]
        BY <3>1, <2>2 DEF Polling
      <3>3. s' = s - 1 /\ p' = p + 1 /\ s' \in Nat
        BY <3>1, <3>2, WorkerGoes
      <3>4. q' = q /\ n' = n + 1
        BY <2>6, <1>1 DEF Serves
      <3> HIDE DEF a, b, k, r, q, s, p, n
      <3> QED
        BY <1>2, <1>3, <1>4, <2>1, <3>3, <3>4
    <2> QED
      BY <1>14, <2>4, <2>5, <2>6 DEF Works
  <1>15. StepsLeft \in Nat
    <2> HIDE DEF a, b, k, r, q, s, p, n
    <2> QED
      BY <1>2, <1>3, <1>4
  <1> QED
    BY <1>8, <1>9, <1>10, <1>11, <1>12, <1>13, <1>14, <1>15 DEF Threads, Reader

-------------------------------------------------------------------------------
(* The theorems                                                            *)

\* The inductive invariant: whatever is on its way carries what its client
\* asked for, or the answer to that (UserSession, SafeQueue, Worker::onConnect).
THEOREM PipelineInvariant == Spec => []PipelineInv
  BY PipelineInvInit, StepKeeps, PTL DEF Spec

\* The states of all variables (ServerPipeline).
THEOREM PipelineTypes == Spec => []TypeOK
  <1> DEFINE Rest == accepting \in BOOLEAN /\ retrying \subseteq Clients
  <1>1. Init => Rest
    BY DEF Init
  <1>2. PipelineInv /\ Rest /\ [Next]_vars => Rest'
    <2> SUFFICES ASSUME PipelineInv, Rest, [Next]_vars PROVE Rest'
      OBVIOUS
    <2>1. reader # None => reader \in Clients
      BY DEF PipelineInv, Arriving
    <2> QED
      BY <2>1 DEF Next, vars, server, queues, Connect, Send, Leave, Accept, AcceptFails, Reader,
         ReaderTakes, ReaderReads, ReaderFails, Works, Polls, Pops, Serves, Responds
  <1>3. PipelineInv /\ Rest => TypeOK
    BY DEF PipelineInv, TypeOK, CallTypes, CallStates, Arriving, Requested, Served, Answering
  <1> QED
    BY <1>1, <1>2, <1>3, PipelineInvariant, PTL DEF Spec

\* For any number of clients and workers, no request is lost on its way through
\* the threads and queues, and none is in two of them (SafeQueue::Pop,
\* ClientWorker::SendRequestToServer, NetworkServer::workerGetRequests).
THEOREM SessionsInOnePlace == Spec => []InOnePlace
  <1>1. PlacesInv => InOnePlace
    <2> SUFFICES ASSUME PlacesInv, NEW c \in Clients
                 PROVE  /\ Cardinality(Places(c)) <= 1
                        /\ call[c].at \in {"open", "asked"} => Places(c) # {}
      BY DEF InOnePlace
    <2>1. Placed(c)
      BY DEF PlacesInv
    <2>2. Cardinality(Places(c)) <= 1
      BY <2>1, PlacedInOne DEF Placed
    <2>3. call[c].at \in {"open", "asked"} => Places(c) # {}
      BY <2>1, PlacesAreThese DEF Placed, Somewhere
    <2> QED
      BY <2>2, <2>3
  <1> QED
    BY <1>1, PlacesInit, PlacesKept, PipelineInvariant, PTL DEF Spec

\* For any number of clients and workers and any limit of sockets, a client gets
\* one answer at most, and to its own request (Worker::onConnect,
\* NetworkServer::workerSendResponses).
THEOREM AnswersItsRequest == Spec => RequestReplySpec
  <1>1. Init => Calls!Init
    <2> SUFFICES ASSUME Init PROVE Calls!Init
      OBVIOUS
    <2>1. \A c \in Clients : Outside(call[c]) = [at |-> "idle"]
      BY DEF Init, Outside
    <2> QED
      BY <2>1 DEF Calls!Init, Calls!Idle, Calling
  <1>2. PipelineInv /\ [Next]_vars => [Calls!Next]_Calling
    BY StepIsSeen
  <1> QED
    BY <1>1, <1>2, PipelineInvariant, PTL DEF Spec, RequestReplySpec, Calls!Spec

\* Why StarvedOnlyByThese can hold: while a client waits for its answer, some
\* thread of the server finds what it waits for, or accept has failed, or the
\* reader is held up by a client that is silent (NetworkServer,
\* UserSession::receiveRequest, SafeQueue::Pop).
THEOREM WaitingMeansWork ==
  ASSUME Workers # {}
  PROVE  Spec => [](\A c \in Clients : Asked(c) =>
                      GoesOn \/ ~ accepting \/ (reader # None /\ call[reader].at = "open"))
  <1>1. Init => Unread
    <2> SUFFICES ASSUME Init PROVE Unread
      OBVIOUS
    <2>1. backlog = <<>> /\ conns = <<>> /\ reader = None /\ retrying = {}
      BY DEF Init
    <2> QED
      BY <2>1, NoneAssumption DEF Unread, Waits
  <1>2. PipelineInv /\ PlacesInv /\ TypeOK /\ Unread /\ [Next]_vars => Unread'
    BY UnreadKept DEF TypeOK
  <1>3. PipelineInv /\ PlacesInv /\ Unread =>
          \A c \in Clients : Asked(c) =>
            GoesOn \/ ~ accepting \/ (reader # None /\ call[reader].at = "open")
    BY SomeoneGoesOn
  <1> QED
    BY <1>1, <1>2, <1>3, PlacesInit, PlacesKept, PipelineInvariant, PipelineTypes, PTL DEF Spec

\* And why it comes to an end: each step of a thread leaves fewer to be made, and
\* only a client that connects adds to them; what one asks, that one leaves and
\* that a worker is overtaken between Empty and Pop do not
\* (ClientWorker::SendRequestToServer, NetworkServer).
THEOREM ThreadsComeToRest ==
  ASSUME IsFiniteSet(Workers)
  PROVE  Spec => [][/\ Threads => StepsLeft \in Nat /\ StepsLeft' \in Nat /\ StepsLeft' < StepsLeft
                    /\ StepsLeft' = StepsLeft \/ Threads \/ \E c \in Clients : Connect(c)]_vars
  <1>1. ASSUME PipelineInv, TypeOK, Next
        PROVE  /\ Threads => StepsLeft \in Nat /\ StepsLeft' \in Nat /\ StepsLeft' < StepsLeft
               /\ StepsLeft' = StepsLeft \/ Threads \/ \E c \in Clients : Connect(c)
    <2>1. ASSUME NEW c \in Clients, Send(c) \/ Leave(c) PROVE StepsLeft' = StepsLeft
      <3>1. UNCHANGED <<accepting, backlog, reader, worker, conns, request, response>>
        BY <2>1 DEF Send, Leave, server, queues
      <3> QED
        BY <3>1 DEF StepsLeft, WorkersAt
    <2>2. Threads => StepsLeft \in Nat /\ StepsLeft' \in Nat /\ StepsLeft' < StepsLeft
      BY <1>1, ThreadsAdvance DEF TypeOK
    <2> QED
      BY <1>1, <2>1, <2>2 DEF Next, Threads
  <1> QED
    BY <1>1, PipelineInvariant, PipelineTypes, PTL DEF Spec
===============================================================================
