----------------------------- MODULE ServerPipeline -----------------------------
(***************************************************************************)
(* How a server (sync or storage) gets its requests and sends its answers. *)
(* A connection carries one request. The io thread accepts it, the reader  *)
(* thread waits for the request, a worker serves it, the responder thread  *)
(* writes the answer; they hand the session on through three SafeQueues.   *)
(* Dropping the last reference to a session closes its socket.             *)
(*                                                                         *)
(* The threads poll: an empty queue makes them sleep for 2 seconds, which  *)
(* is not a step here. Push and Pop hold the queue's mutex and are atomic. *)
(***************************************************************************)
EXTENDS Naturals, Sequences, FiniteSets

CONSTANTS
  Clients,   \* connections, each with the program at its other end
  Leavers,   \* those that may end, or lose the network, while they wait
  Workers,   \* the server's worker threads (workersCount)
  MaxOpen,   \* sockets the process may have open (its descriptor limit)
  None

ASSUME MaxOpenAssumption == MaxOpen \in Nat
ASSUME NoneAssumption == None \notin Clients

VARIABLES
  call,       \* per client: how far its call is
  wire,       \* per client: what it has sent and the server has not read
  backlog,    \* connections the kernel has taken and the program has not
  accepting,  \* whether an async_accept is under way
  conns,      \* _usersConnections
  reader,     \* the session workerGetRequests is reading from
  request,    \* _request
  worker,     \* per worker: where it is, and its request
  response,   \* _response
  retrying    \* sessions that an async_write_some keeps alive

queues == <<conns, request, response>>
vars == <<call, wire, backlog, accepting, reader, worker, retrying, queues>>

-------------------------------------------------------------------------------
(* Data                                                                    *)

\* A command the manager knows, one it does not know, and what is no JSON
\* object or an empty one.
Kinds == {"command", "unknown", "garbage"}

Request == [from: Clients, kind: Kinds]

\* SyncManager::GetRequest, StorageManager::GetRequest.
Status(kind) == IF kind = "command" THEN "result" ELSE "Wrong command"

AnswerTo(r) == [to |-> r.from, status |-> Status(r.kind)]

Pair(session, body) == [session |-> session, body |-> body]

Asked(c) == call[c].at = "asked"

Reached(c, at) == call' = [call EXCEPT ![c] = [@ EXCEPT !.at = at]]

NoRequest == [from |-> None, kind |-> "garbage"]
Polling == [at |-> "poll", job |-> Pair(None, NoRequest)]

\* The sessions that are referred to from somewhere, whose sockets are open.
Sessions(q) == {q[i].session : i \in DOMAIN q}

Held ==
  {conns[i] : i \in DOMAIN conns} \cup ({reader} \ {None}) \cup Sessions(request)
    \cup {worker[w].job.session : w \in {v \in Workers : worker[v].at = "serve"}}
    \cup Sessions(response) \cup retrying

Init ==
  /\ call = [c \in Clients |-> [at |-> "idle", what |-> NoRequest]]
  /\ wire = [c \in Clients |-> NoRequest]
  /\ backlog = <<>>
  /\ accepting = TRUE
  /\ reader = None
  /\ worker = [w \in Workers |-> Polling]
  /\ conns = <<>> /\ request = <<>> /\ response = <<>>
  /\ retrying = {}

-------------------------------------------------------------------------------
(* The client: BaseCommand::sendAndReceive                                 *)

server == <<accepting, reader, worker, retrying, queues>>

Connect(c) ==
  /\ call[c].at = "idle"
  /\ Reached(c, "open")
  /\ backlog' = Append(backlog, c)
  /\ UNCHANGED <<wire, server>>

Send(c) ==
  /\ call[c].at = "open"
  /\ \E k \in Kinds :
       LET r == [from |-> c, kind |-> k]
       IN  /\ call' = [call EXCEPT ![c] = [at |-> "asked", what |-> r]]
           /\ wire' = [wire EXCEPT ![c] = r]
  /\ UNCHANGED <<backlog, server>>

Leave(c) ==
  /\ c \in Leavers
  /\ call[c].at \in {"open", "asked"}
  /\ Reached(c, "gone")
  /\ UNCHANGED <<wire, backlog, server>>

-------------------------------------------------------------------------------
(* The io thread: NetworkServer::onAccept                                  *)

\* A bug: no further accept is started.
AcceptOnce ==
  /\ accepting
  /\ backlog # <<>>
  /\ Cardinality(Held) < MaxOpen
  /\ conns' = Append(conns, Head(backlog))
  /\ backlog' = Tail(backlog)
  /\ accepting' = FALSE
  /\ UNCHANGED <<call, wire, reader, request, worker, response, retrying>>

Accept ==
  /\ accepting
  /\ backlog # <<>>
  /\ Cardinality(Held) < MaxOpen
  /\ conns' = Append(conns, Head(backlog))
  /\ backlog' = Tail(backlog)
  /\ UNCHANGED <<call, wire, accepting, reader, request, worker, response, retrying>>

\* onAccept returns without another startAccept.
AcceptFails ==
  /\ accepting
  /\ backlog # <<>>
  /\ Cardinality(Held) >= MaxOpen
  /\ accepting' = FALSE
  /\ UNCHANGED <<call, wire, backlog, reader, worker, retrying, queues>>

-------------------------------------------------------------------------------
(* The reader thread: workerGetRequests, getRequest, receiveRequest        *)

ReaderTakes ==
  /\ reader = None
  /\ conns # <<>>
  /\ reader' = Head(conns)
  /\ conns' = Tail(conns)
  /\ UNCHANGED <<call, wire, backlog, accepting, request, worker, response, retrying>>

\* A bug: what could not be parsed is handed on.
ReaderReadsAll ==
  /\ reader # None
  /\ wire[reader] # NoRequest
  /\ request' = Append(request, Pair(reader, wire[reader]))
  /\ wire' = [wire EXCEPT ![reader] = NoRequest]
  /\ reader' = None
  /\ UNCHANGED <<call, backlog, accepting, conns, worker, response, retrying>>

\* A request that cannot be parsed is dropped, and its session with it.
ReaderReads ==
  /\ reader # None
  /\ wire[reader] # NoRequest
  /\ wire' = [wire EXCEPT ![reader] = NoRequest]
  /\ reader' = None
  /\ \/ /\ wire[reader].kind # "garbage"
        /\ request' = Append(request, Pair(reader, wire[reader]))
        /\ UNCHANGED call
     \/ /\ wire[reader].kind = "garbage"
        /\ UNCHANGED request
        /\ IF Asked(reader) THEN Reached(reader, "closed") ELSE UNCHANGED call
  /\ UNCHANGED <<backlog, accepting, conns, worker, response, retrying>>

\* A bug: the reader itself repeats receiveRequest after an error.
ReaderRetries ==
  /\ reader # None
  /\ wire[reader] = NoRequest /\ call[reader].at = "gone"
  /\ retrying' = retrying \cup {reader}
  /\ UNCHANGED <<call, wire, backlog, accepting, reader, worker, queues>>

\* The client left without a request. The error text is written to it, and the
\* handler of that write calls receiveRequest again, which fails as before: the
\* io thread repeats this, and the session is never released.
ReaderFails ==
  /\ reader # None
  /\ wire[reader] = NoRequest /\ call[reader].at = "gone"
  /\ retrying' = retrying \cup {reader}
  /\ reader' = None
  /\ UNCHANGED <<call, wire, backlog, accepting, worker, queues>>

-------------------------------------------------------------------------------
(* The worker threads: Worker::listening, Worker::onConnect                *)

\* SendRequestToServer asks Empty first and calls Pop afterwards.
Polls(w) ==
  /\ worker[w].at = "poll"
  /\ request # <<>>
  /\ worker' = [worker EXCEPT ![w] = [@ EXCEPT !.at = "pop"]]
  /\ UNCHANGED <<call, wire, backlog, accepting, reader, retrying, queues>>

\* A bug: the front of the queue is read, and removed only with the answer.
PopsLate(w) ==
  /\ worker[w].at = "pop"
  /\ request # <<>>
  /\ worker' = [worker EXCEPT ![w] = [at |-> "serve", job |-> Head(request)]]
  /\ UNCHANGED <<call, wire, backlog, accepting, reader, retrying, queues>>

\* Another worker may have been faster: then Pop waits for the next request.
Pops(w) ==
  /\ worker[w].at = "pop"
  /\ request # <<>>
  /\ worker' = [worker EXCEPT ![w] = [at |-> "serve", job |-> Head(request)]]
  /\ request' = Tail(request)
  /\ UNCHANGED <<call, wire, backlog, accepting, reader, conns, response, retrying>>

\* A bug: the worker keeps its session.
ServesAndKeeps(w) ==
  /\ worker[w].at = "serve"
  /\ response' = Append(response, Pair(worker[w].job.session,
                                       AnswerTo(worker[w].job.body)))
  /\ worker' = [worker EXCEPT ![w] = [@ EXCEPT !.at = "poll"]]
  /\ UNCHANGED <<call, wire, backlog, accepting, reader, conns, request, retrying>>

Serves(w) ==
  /\ worker[w].at = "serve"
  /\ response' = Append(response, Pair(worker[w].job.session,
                                       AnswerTo(worker[w].job.body)))
  /\ worker' = [worker EXCEPT ![w] = Polling]
  /\ UNCHANGED <<call, wire, backlog, accepting, reader, conns, request, retrying>>

-------------------------------------------------------------------------------
(* The responder thread: workerSendResponses, sendResponse                 *)

\* An answer to a client that has left is lost. The server does not close a
\* session before, so is_open holds.
Responds ==
  /\ response # <<>>
  /\ LET c == Head(response).session IN
     call' = IF Asked(c)
               THEN [call EXCEPT ![c] = [at |-> "answered", what |-> Head(response).body]]
               ELSE call
  /\ response' = Tail(response)
  /\ UNCHANGED <<wire, backlog, accepting, reader, conns, request, worker, retrying>>

-------------------------------------------------------------------------------
Reader == ReaderTakes \/ ReaderReads \/ ReaderFails

Works(w) == Polls(w) \/ Pops(w) \/ Serves(w)

Next ==
  \/ \E c \in Clients : Connect(c) \/ Send(c) \/ Leave(c)
  \/ Accept \/ AcceptFails
  \/ Reader
  \/ \E w \in Workers : Works(w)
  \/ Responds

Spec == Init /\ [][Next]_vars

\* Every thread of the server goes on when it can.
FairSpec ==
  /\ Spec
  /\ WF_vars(Accept \/ AcceptFails) /\ WF_vars(Reader) /\ WF_vars(Responds)
  /\ \A w \in Workers : WF_vars(Works(w))

-------------------------------------------------------------------------------
(* Properties                                                              *)

Pairs(B) == [session: Clients, body: B]

Answers == [to: Clients, status: {"result", "Wrong command"}]

\* The type invariant.
TypeOK ==
  /\ call \in [Clients -> [at: {"idle", "open", "asked", "gone", "closed"},
                           what: Request \cup {NoRequest}]
                          \cup [at: {"answered"}, what: Answers]]
  /\ wire \in [Clients -> Request \cup {NoRequest}]
  /\ backlog \in Seq(Clients) /\ conns \in Seq(Clients)
  /\ accepting \in BOOLEAN
  /\ reader \in Clients \cup {None}
  /\ request \in Seq(Pairs(Request)) /\ response \in Seq(Pairs(Answers))
  /\ worker \in [Workers -> [at: {"serve"}, job: Pairs(Request)]
                            \cup [at: {"poll", "pop"}, job: {Polling.job}]]
  /\ retrying \subseteq Clients

\* Where session c is, as often as it is there.
Places(c) ==
  ({"backlog"} \X {i \in DOMAIN backlog : backlog[i] = c})
    \cup ({"conns"} \X {i \in DOMAIN conns : conns[i] = c})
    \cup ({"reader"} \X ({reader} \cap {c}))
    \cup ({"request"} \X {i \in DOMAIN request : request[i].session = c})
    \cup ({"worker"} \X {w \in Workers : worker[w].job.session = c})
    \cup ({"response"} \X {i \in DOMAIN response : response[i].session = c})
    \cup ({"retrying"} \X (retrying \cap {c}))

\* A session is in one place at most, and in one exactly as long as its client
\* waits: no thread loses a request, and no two serve the same one, whatever is
\* pushed between a worker's Empty and its Pop (ClientWorker::SendRequestToServer,
\* SafeQueue::Pop).
InOnePlace ==
  \A c \in Clients :
    /\ Cardinality(Places(c)) <= 1
    /\ call[c].at \in {"open", "asked"} => Places(c) # {}

\* How a call looks to who makes it.
Outside(r) ==
  CASE r.at \in {"idle", "open"} -> [at |-> "idle"]
    [] r.at \in {"closed", "gone"} -> [at |-> r.at]
    [] OTHER -> r

Calling == [c \in Clients |-> Outside(call[c])]

Calls == INSTANCE RequestReply WITH
  Requests <- Request,
  Answer <- [r \in Request |-> AnswerTo(r)],
  Unanswerable <- {r \in Request : r.kind = "garbage"},
  call <- Calling

\* Over threads and queues, each client gets one answer, and to what it asked
\* (Worker::onConnect keeps the session with its request).
RequestReplySpec == Calls!Spec

\* A request that stays unanswered for ever has one of two causes: the reader
\* waits, without a timeout, for a client that has connected and is silent, or
\* accept has failed once (UserSession::receiveRequest, NetworkServer::onAccept).
\* Clients that leave, and a worker that waits in Pop, do no harm by themselves.
StarvedOnlyByThese ==
  \A c \in Clients :
    <>[]Asked(c) => \/ <>[](reader # None /\ call[reader].at = "open")
                    \/ <>[](~ accepting)
===============================================================================
