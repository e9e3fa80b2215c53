----------------------------- MODULE PostgresSQLDB -----------------------------
(***************************************************************************)
(* Class PostgresSQLDB: all workers of a server share two objects of it,   *)
(* UsersDB and MetaDataDB. Each has one pointer _conn, which each request  *)
(* replaces by a new connection; the old one is never closed. A statement  *)
(* is one step (libpq does not allow two at once on a connection, and what *)
(* that would do is left out), together with the rollback to savepoint     *)
(* after its failure.                                                      *)
(*                                                                         *)
(* PostgreSQL: a connection has at most one transaction; others see what   *)
(* it wrote when it commits. BEGIN inside a transaction and COMMIT outside *)
(* are warnings, which pqExec takes for success.                           *)
(***************************************************************************)
EXTENDS Naturals, Sequences

CONSTANTS
  Workers,
  MaxConn,   \* max_connections of PostgreSQL
  Faults     \* "sql" a statement fails, "crash" the server ends

ASSUME MaxConnAssumption == MaxConn \in Nat

VARIABLES
  conn,      \* the connections PostgreSQL has, in the order they were opened
  cur,       \* per object: _conn; 0 is one that could not be opened
  serving,   \* per worker: "account", "upload" or "refresh", its last request
  pc,        \* per worker: its next statement
  answer     \* per worker: its last answer

session == <<conn, cur, serving, pc, answer>>

\* A connection: work is what its transaction has changed so far, saved whether
\* f_savepoint is set, and save what was changed before it.
Fresh == [tx |-> "none", work |-> {}, saved |-> FALSE, save |-> {}]

\* Changes are of a kind each, which names their table.
Of(changes, kind) == {c \in changes : c.kind = kind}

Objects == {"users", "metadata"}

SessionInit ==
  /\ conn = <<>> /\ cur = [db \in Objects |-> 0]
  /\ serving = [w \in Workers |-> "none"]
  /\ pc = [w \in Workers |-> "idle"]
  /\ answer = [w \in Workers |-> "none"]

Goto(w, at) == pc' = [pc EXCEPT ![w] = at]

Answers(w, text) == Goto(w, "idle") /\ answer' = [answer EXCEPT ![w] = text]

\* A worker turns to its next request.
Receives(w, request) ==
  /\ pc[w] = "idle"
  /\ Goto(w, "connect")
  /\ serving' = [serving EXCEPT ![w] = request]
  /\ answer' = [answer EXCEPT ![w] = "none"]
  /\ UNCHANGED <<conn, cur>>

\* It has come to this statement of such a request.
Is(w, request, at) == serving[w] = request /\ pc[w] = at /\ UNCHANGED serving

\* The object and the connection that serve the request.
Db(w) == IF serving[w] = "account" THEN "users" ELSE "metadata"

Cur(w) == cur[Db(w)]

Usable(w) == Cur(w) # 0 /\ conn[Cur(w)].tx # "failed"

InTransaction(w) == Cur(w) # 0 /\ conn[Cur(w)].tx = "open"

Connect(w, next) ==
  \/ /\ Len(conn) < MaxConn
     /\ conn' = Append(conn, Fresh)
     /\ cur' = [cur EXCEPT ![Db(w)] = Len(conn) + 1]
     /\ Goto(w, next)
     /\ UNCHANGED answer
  \/ /\ Len(conn) >= MaxConn \/ "sql" \in Faults
     /\ cur' = [cur EXCEPT ![Db(w)] = 0]
     /\ Answers(w, "Database error")
     /\ UNCHANGED conn

\* A bug: a failed statement is not followed by rollback to savepoint.
NotRolledBack(c) == c

\* The transaction stays open, without its changes since the savepoint and
\* without their locks.
RolledBack(c) ==
  IF c.tx = "none" THEN c
  ELSE IF c.saved THEN [c EXCEPT !.tx = "open", !.work = c.save]
  ELSE [c EXCEPT !.tx = "failed", !.work = {}]

\* The statement fails, on its own or because of its connection.
Fails(w, text) ==
  /\ "sql" \in Faults \/ ~ Usable(w)
  /\ conn' = IF Cur(w) = 0 THEN conn ELSE [conn EXCEPT ![Cur(w)] = RolledBack(@)]
  /\ Answers(w, text)
  /\ UNCHANGED cur

\* begin;
Begin(w, next, text) ==
  \/ /\ Usable(w)
     /\ conn' = [conn EXCEPT ![Cur(w)].tx = "open"]
     /\ Goto(w, next)
     /\ UNCHANGED <<cur, answer>>
  \/ Fails(w, text)

\* savepoint f_savepoint; it is an error outside a transaction.
Savepoint(w, next, text) ==
  \/ /\ InTransaction(w)
     /\ conn' = [conn EXCEPT ![Cur(w)].saved = TRUE, ![Cur(w)].save = conn[Cur(w)].work]
     /\ Goto(w, next)
     /\ UNCHANGED <<cur, answer>>
  \/ /\ Usable(w) /\ ~ InTransaction(w)
     /\ Answers(w, text)
     /\ UNCHANGED <<conn, cur>>
  \/ Fails(w, text)

\* A statement that reads.
Reads(w, next) == Usable(w) /\ Goto(w, next) /\ UNCHANGED <<conn, cur, answer>>

\* A statement inside a transaction; elsewhere it is a transaction of its own.
Works(w, changes) ==
  /\ Usable(w)
  /\ conn' = IF InTransaction(w) THEN [conn EXCEPT ![Cur(w)].work = @ \cup changes] ELSE conn
  /\ UNCHANGED cur

\* commit; of a failed transaction it is a rollback, and no error. When the
\* connection breaks meanwhile, it may have been done all the same.
Commit(w, ok, text) ==
  /\ Cur(w) # 0
  /\ conn' = [conn EXCEPT ![Cur(w)] = Fresh]
  /\ \/ Answers(w, ok)
     \/ "sql" \in Faults /\ Answers(w, text)
  /\ UNCHANGED cur

\* The process is gone, and PostgreSQL ends its transactions.
Stop ==
  /\ conn' = <<>> /\ cur' = [db \in Objects |-> 0]
  /\ pc' = [w \in Workers |-> "idle"]
  /\ UNCHANGED <<serving, answer>>

SessionTypeOK(Points, Texts) ==
  /\ \A k \in DOMAIN conn :
       conn[k] \in [tx: {"none", "open", "failed"}, work: {conn[k].work},
                    saved: BOOLEAN, save: SUBSET conn[k].work]
  /\ cur \in [Objects -> 0 .. Len(conn)]
  /\ serving \in [Workers -> {"none", "account", "upload", "refresh"}]
  /\ pc \in [Workers -> {"idle"} \cup Points]
  /\ answer \in [Workers -> {"none", "Database error"} \cup Texts]
===============================================================================
