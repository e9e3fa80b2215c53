--------------------------- MODULE SyncServer_proofs ---------------------------
(***************************************************************************)
(* Proofs about SyncServer with one worker, as both servers are            *)
(* configured, for any users, uploads, refreshes, faults and limit of      *)
(* connections.                                                            *)
(***************************************************************************)
EXTENDS SyncServer, SequenceTheorems, FiniteSetTheorems, TLAPS

IsSequence(q) == \E S : q \in Seq(S)

IsConn(c) ==
  c \in [tx: {"none", "open", "failed"}, work: {c.work}, saved: BOOLEAN, save: {c.save}]

\* The statements before which a transaction may have changed something.
Dirty == {"insert", "id", "commit", "select", "version"}

Points == Dirty \cup {"idle", "connect", "begin", "savepoint", "count", "password", "update",
                      "files", "chunks"}

Kinds == {"none", "account", "upload", "refresh"}

\* The worker w is the only one.
Only(w) == w \in Workers /\ \A v \in Workers : v = w

Connections ==
  /\ IsSequence(conn)
  /\ \A k \in DOMAIN conn : IsConn(conn[k])
  /\ cur \in [Objects -> Nat] /\ \A db \in Objects : cur[db] <= Len(conn)
  /\ serving \in [Workers -> Kinds] /\ pc \in [Workers -> Points]

\* What a transaction has changed was changed by the worker that uses its
\* connection, after the savepoint and before the end of its request.
Clean ==
  \A k \in DOMAIN conn :
    /\ conn[k].save = {}
    /\ conn[k].work # {} =>
         conn[k].tx = "open" /\ \E w \in Workers : Cur(w) = k /\ pc[w] \in Dirty

ServerInv == Connections /\ Clean

-------------------------------------------------------------------------------
(* Connections in a sequence                                               *)

LEMMA AddOne ==
  ASSUME NEW q, IsSequence(q), NEW x
  PROVE  /\ IsSequence(Append(q, x))
         /\ Len(Append(q, x)) = Len(q) + 1 /\ Len(q) \in Nat
         /\ DOMAIN q = 1 .. Len(q) /\ DOMAIN Append(q, x) = 1 .. Len(q) + 1
         /\ Append(q, x)[Len(q) + 1] = x
         /\ \A k \in DOMAIN q : Append(q, x)[k] = q[k]
  <1>1. PICK S : q \in Seq(S)
    BY DEF IsSequence
  <1>2. q \in Seq(S \cup {x}) /\ x \in S \cup {x}
    BY <1>1, SeqMonotonic
  <1>3. /\ Append(q, x) \in Seq(S \cup {x}) /\ Len(Append(q, x)) = Len(q) + 1 /\ Len(q) \in Nat
        /\ \A i \in 1 .. Len(q) : Append(q, x)[i] = q[i]
        /\ Append(q, x)[Len(q) + 1] = x
    BY <1>2, AppendProperties
  <1>4. DOMAIN q = 1 .. Len(q) /\ DOMAIN Append(q, x) = 1 .. Len(q) + 1
    BY <1>1, <1>3
  <1> QED
    BY <1>3, <1>4 DEF IsSequence

LEMMA FreshIsConn == IsConn(Fresh) /\ Fresh.work = {} /\ Fresh.save = {} /\ Fresh.tx = "none"
  <1>1. Fresh.work = {} /\ Fresh.save = {} /\ Fresh.tx = "none"
    BY DEF Fresh
  <1>2. Fresh \in [tx: {"none", "open", "failed"}, work: {{}}, saved: BOOLEAN, save: {{}}]
    BY DEF Fresh
  <1> QED
    BY <1>1, <1>2 DEF IsConn

\* One worker's place changes.
LEMMA Goes ==
  ASSUME Connections, NEW w \in Workers, NEW at \in Points, Goto(w, at)
  PROVE  pc' \in [Workers -> Points] /\ pc'[w] = at
  BY DEF Connections, Goto

-------------------------------------------------------------------------------
(* The statements                                                          *)

\* No connection changes, and the worker does not leave changes behind.
LEMMA NothingChanged ==
  ASSUME ServerInv, NEW w, Only(w), UNCHANGED <<conn, cur>>,
         serving' \in [Workers -> Kinds], pc' \in [Workers -> Points],
         pc[w] \in Dirty => pc'[w] \in Dirty /\ serving' = serving
  PROVE  ServerInv'
  <1>1. Connections'
    BY DEF ServerInv, Connections
  <1>2. Clean'
    BY DEF ServerInv, Clean, Only, Cur, Db
  <1> QED
    BY <1>1, <1>2 DEF ServerInv

LEMMA ConnectKeeps ==
  ASSUME ServerInv, NEW w, Only(w), NEW next \in Points, Connect(w, next),
         pc[w] = "connect", UNCHANGED serving
  PROVE  ServerInv'
  <1>1. pc' \in [Workers -> Points]
    BY Goes DEF Connect, Answers, Points, ServerInv, Only
  <1>2. \A k \in DOMAIN conn : conn[k].work = {} /\ conn[k].save = {} /\ IsConn(conn[k])
    BY DEF ServerInv, Connections, Clean, Only, Dirty
  <1>3. Db(w) \in Objects
    BY DEF Db, Objects
  <1>4. CASE conn' = Append(conn, Fresh) /\ cur' = [cur EXCEPT ![Db(w)] = Len(conn) + 1]
    <2>1. /\ IsSequence(conn')
          /\ Len(conn') = Len(conn) + 1 /\ Len(conn) \in Nat
          /\ DOMAIN conn = 1 .. Len(conn) /\ DOMAIN conn' = 1 .. Len(conn) + 1
          /\ conn'[Len(conn) + 1] = Fresh
          /\ \A k \in DOMAIN conn : conn'[k] = conn[k]
      <3>1. PICK q : q = conn
        OBVIOUS
      <3>2. IsSequence(q)
        BY <3>1 DEF ServerInv, Connections
      <3>3. PICK x : x = Fresh
        OBVIOUS
      <3>4. /\ IsSequence(Append(q, x))
            /\ Len(Append(q, x)) = Len(q) + 1 /\ Len(q) \in Nat
            /\ DOMAIN q = 1 .. Len(q) /\ DOMAIN Append(q, x) = 1 .. Len(q) + 1
            /\ Append(q, x)[Len(q) + 1] = x
            /\ \A k \in DOMAIN q : Append(q, x)[k] = q[k]
        BY <3>2, AddOne
      <3>5. conn' = Append(q, x)
        BY <1>4, <3>1, <3>3
      <3> QED
        BY <3>1, <3>3, <3>4, <3>5
    <2>2. IsConn(Fresh) /\ Fresh.work = {} /\ Fresh.save = {}
      BY FreshIsConn
    <2>3. \A k \in DOMAIN conn' : IsConn(conn'[k]) /\ conn'[k].work = {} /\ conn'[k].save = {}
      <3> TAKE k \in DOMAIN conn'
      <3>1. CASE k \in DOMAIN conn
        BY <3>1, <2>1, <1>2
      <3>2. CASE k = Len(conn) + 1
        BY <3>2, <2>1, <2>2
      <3> QED
        BY <3>1, <3>2, <2>1
    <2>4. cur' \in [Objects -> Nat] /\ \A db \in Objects : cur'[db] <= Len(conn')
      BY <1>3, <1>4, <2>1 DEF ServerInv, Connections
    <2>5. Connections'
      BY <1>1, <2>1, <2>3, <2>4 DEF ServerInv, Connections
    <2> QED
      BY <2>3, <2>5 DEF ServerInv, Clean
  <1>5. CASE conn' = conn /\ cur' = [cur EXCEPT ![Db(w)] = 0]
    <2>1. Len(conn) \in Nat
      BY AddOne DEF ServerInv, Connections
    <2>2. cur' \in [Objects -> Nat] /\ \A db \in Objects : cur'[db] <= Len(conn')
      BY <1>3, <1>5, <2>1 DEF ServerInv, Connections
    <2>3. Connections'
      BY <1>1, <1>5, <2>2 DEF ServerInv, Connections
    <2> QED
      BY <1>2, <1>5, <2>3 DEF ServerInv, Clean
  <1> QED
    BY <1>4, <1>5 DEF Connect

\* The connection in use changes: what is in it then is from the one worker.
LEMMA UsedChanges ==
  ASSUME ServerInv, NEW w, Only(w), Cur(w) \in DOMAIN conn, NEW x,
         conn' = [conn EXCEPT ![Cur(w)] = x], UNCHANGED <<cur, serving>>,
         IsConn(x), x.save = {},
         x.work # {} => x.tx = "open" /\ pc'[w] \in Dirty,
         pc' \in [Workers -> Points]
  PROVE  ServerInv'
  <1>1. PICK i : i = Cur(w)
    OBVIOUS
  <1>2. i \in DOMAIN conn /\ conn' = [conn EXCEPT ![i] = x]
    BY <1>1
  <1>3. IsSequence(conn)
    BY DEF ServerInv, Connections
  <1>4. PICK q : q = conn'
    OBVIOUS
  <1>5. /\ IsSequence(q)
        /\ Len(q) = Len(conn) /\ DOMAIN q = DOMAIN conn /\ q[i] = x
        /\ \A k \in DOMAIN conn \ {i} : q[k] = conn[k]
    <2>1. PICK p : p = conn
      OBVIOUS
    <2>2. (IsSequence(p)) /\ i \in DOMAIN p /\ q = [p EXCEPT ![i] = x]
      BY <1>2, <1>3, <1>4, <2>1
    <2>3. PICK S : p \in Seq(S)
      BY <2>2 DEF IsSequence
    <2>4. p \in Seq(S \cup {x}) /\ x \in S \cup {x} /\ i \in 1 .. Len(p)
      BY <2>2, <2>3, SeqMonotonic
    <2>5. /\ q \in Seq(S \cup {x}) /\ Len(q) = Len(p)
          /\ \A j \in 1 .. Len(p) : q[j] = IF j = i THEN x ELSE p[j]
      BY <2>2, <2>4, ExceptSeq
    <2>6. DOMAIN p = 1 .. Len(p) /\ DOMAIN q = 1 .. Len(p) /\ Len(p) \in Nat
      BY <2>3, <2>5
    <2> QED
      BY <2>1, <2>4, <2>5, <2>6 DEF IsSequence
  <1>6. Cur(w)' = i
    BY <1>1 DEF Cur, Db
  <1>7. \A k \in DOMAIN conn \ {i} : conn[k].work = {} /\ conn[k].save = {} /\ IsConn(conn[k])
    BY <1>1 DEF ServerInv, Connections, Clean, Only
  <1>8. \A k \in DOMAIN q : IsConn(q[k])
    BY <1>5, <1>7
  <1>9. Connections'
    <2>1. \A k \in DOMAIN conn' : IsConn(conn'[k])
      BY <1>4, <1>8
    <2>2. (IsSequence(q)) /\ Len(q) = Len(conn)
      BY <1>5
    <2>3. cur' \in [Objects -> Nat] /\ \A db \in Objects : cur'[db] <= Len(q)
      BY <2>2 DEF ServerInv, Connections
    <2>4. serving' \in [Workers -> Kinds]
      BY DEF ServerInv, Connections
    <2> QED
      BY <1>4, <2>1, <2>2, <2>3, <2>4 DEF Connections
  <1>10. Clean'
    <2>1. w \in Workers
      BY DEF Only
    <2>2. \A k \in DOMAIN q :
            /\ q[k].save = {}
            /\ q[k].work # {} => q[k].tx = "open" /\ k = i /\ pc'[w] \in Dirty
      BY <1>5, <1>7
    <2> QED
      BY <2>1, <2>2, <1>4, <1>6 DEF Clean
  <1> QED
    BY <1>9, <1>10 DEF ServerInv

\* The connection in use, if there is one, is among those of PostgreSQL.
LEMMA CurIsThere ==
  ASSUME ServerInv, NEW w, Cur(w) # 0
  PROVE  Cur(w) \in DOMAIN conn
  <1>1. Db(w) \in Objects
    BY DEF Db, Objects
  <1>2. Cur(w) \in Nat /\ Cur(w) <= Len(conn)
    BY <1>1 DEF ServerInv, Connections, Cur
  <1>3. PICK S : conn \in Seq(S)
    BY DEF ServerInv, Connections, IsSequence
  <1>4. DOMAIN conn = 1 .. Len(conn) /\ Len(conn) \in Nat
    BY <1>3
  <1> QED
    BY <1>2, <1>4

\* Between its requests and up to its first change a worker has changed nothing.
LEMMA NothingYet ==
  ASSUME ServerInv, NEW w, Only(w), pc[w] \notin Dirty \/ Cur(w) = 0
  PROVE  \A k \in DOMAIN conn : conn[k].work = {} /\ conn[k].save = {} /\ IsConn(conn[k])
  <1>1. PICK S : conn \in Seq(S)
    BY DEF ServerInv, Connections, IsSequence
  <1>2. 0 \notin DOMAIN conn
    BY <1>1
  <1> QED
    BY <1>2 DEF ServerInv, Connections, Clean, Only

LEMMA StaysClean ==
  ASSUME ServerInv, NEW w, Only(w), pc[w] \notin Dirty \/ Cur(w) = 0, UNCHANGED <<conn, cur>>,
         serving' \in [Workers -> Kinds], pc' \in [Workers -> Points]
  PROVE  ServerInv'
  <1>1. \A k \in DOMAIN conn : conn[k].work = {} /\ conn[k].save = {}
    BY NothingYet
  <1>2. Connections'
    BY DEF ServerInv, Connections
  <1>3. Clean'
    BY <1>1 DEF Clean
  <1> QED
    BY <1>2, <1>3 DEF ServerInv

LEMMA FailsKeeps ==
  ASSUME ServerInv, NEW w, Only(w), NEW text, Fails(w, text), UNCHANGED serving
  PROVE  ServerInv'
  <1>1. pc' \in [Workers -> Points] /\ serving' \in [Workers -> Kinds]
    BY Goes DEF Fails, Answers, Points, ServerInv, Only, Connections
  <1>2. CASE Cur(w) = 0
    BY <1>1, <1>2, StaysClean DEF Fails
  <1>3. CASE Cur(w) # 0
    <2>1. Cur(w) \in DOMAIN conn
      BY <1>3, CurIsThere
    <2>2. PICK c : c = conn[Cur(w)]
      OBVIOUS
    <2>3. /\ IsConn(c) /\ c.save = {}
          /\ c.work # {} => c.tx = "open"
      BY <2>1, <2>2 DEF ServerInv, Connections, Clean
    <2>4. PICK x : x = RolledBack(c)
      OBVIOUS
    <2>5. conn' = [conn EXCEPT ![Cur(w)] = x]
      BY <1>3, <2>2, <2>4 DEF Fails
    <2>6. IsConn(x) /\ x.save = {} /\ x.work = {}
      <3>1. CASE c.tx = "none"
        BY <3>1, <2>3, <2>4 DEF RolledBack
      <3>2. CASE c.tx # "none" /\ c.saved
        <4>1. x = [c EXCEPT !.tx = "open", !.work = {}]
          BY <3>2, <2>3, <2>4 DEF RolledBack
        <4> QED
          BY <4>1, <2>3 DEF IsConn
      <3>3. CASE c.tx # "none" /\ ~ c.saved
        <4>1. x = [c EXCEPT !.tx = "failed", !.work = {}]
          BY <3>3, <2>4 DEF RolledBack
        <4> QED
          BY <4>1, <2>3 DEF IsConn
      <3> QED
        BY <3>1, <3>2, <3>3
    <2> QED
      BY <1>1, <2>1, <2>5, <2>6, UsedChanges DEF Fails
  <1> QED
    BY <1>2, <1>3

LEMMA BeginKeeps ==
  ASSUME ServerInv, NEW w, Only(w), NEW next \in Points, NEW text, Begin(w, next, text),
         pc[w] = "begin", UNCHANGED serving
  PROVE  ServerInv'
  <1>1. CASE Fails(w, text)
    BY <1>1, FailsKeeps
  <1>2. CASE /\ Usable(w)
             /\ conn' = [conn EXCEPT ![Cur(w)].tx = "open"]
             /\ Goto(w, next)
             /\ UNCHANGED <<cur, answer>>
    <2>1. pc' \in [Workers -> Points]
      BY <1>2, Goes DEF ServerInv, Only
    <2>2. Cur(w) \in DOMAIN conn
      BY <1>2, CurIsThere DEF Usable
    <2>3. PICK c : c = conn[Cur(w)]
      OBVIOUS
    <2>4. IsConn(c) /\ c.work = {} /\ c.save = {}
      BY <2>2, <2>3, NothingYet DEF Dirty
    <2>5. PICK x : x = [c EXCEPT !.tx = "open"]
      OBVIOUS
    <2>6. IsConn(x) /\ x.work = {} /\ x.save = {}
      BY <2>4, <2>5 DEF IsConn
    <2>7. conn' = [conn EXCEPT ![Cur(w)] = x]
      BY <1>2, <2>3, <2>5
    <2> QED
      BY <1>2, <2>1, <2>2, <2>6, <2>7, UsedChanges
  <1> QED
    BY <1>1, <1>2 DEF Begin

LEMMA SavepointKeeps ==
  ASSUME ServerInv, NEW w, Only(w), NEW next \in Points, NEW text, Savepoint(w, next, text),
         pc[w] = "savepoint", UNCHANGED serving
  PROVE  ServerInv'
  <1>1. CASE Fails(w, text)
    BY <1>1, FailsKeeps
  <1>2. CASE Answers(w, text) /\ UNCHANGED <<conn, cur>>
    <2>1. pc' \in [Workers -> Points] /\ serving' \in [Workers -> Kinds]
      BY <1>2, Goes DEF Answers, Points, ServerInv, Only, Connections
    <2> QED
      BY <1>2, <2>1, StaysClean DEF Dirty
  <1>3. CASE /\ InTransaction(w)
             /\ conn' = [conn EXCEPT ![Cur(w)].saved = TRUE, ![Cur(w)].save = conn[Cur(w)].work]
             /\ Goto(w, next)
             /\ UNCHANGED <<cur, answer>>
    <2>1. pc' \in [Workers -> Points]
      BY <1>3, Goes DEF ServerInv, Only
    <2>2. Cur(w) \in DOMAIN conn
      BY <1>3, CurIsThere DEF InTransaction
    <2>3. PICK c : c = conn[Cur(w)]
      OBVIOUS
    <2>4. IsConn(c) /\ c.work = {} /\ c.save = {}
      BY <2>2, <2>3, NothingYet DEF Dirty
    <2>5. PICK x : x = [c EXCEPT !.saved = TRUE, !.save = {}]
      OBVIOUS
    <2>6. IsConn(x) /\ x.work = {} /\ x.save = {}
      BY <2>4, <2>5 DEF IsConn
    <2>7. conn' = [conn EXCEPT ![Cur(w)] = x]
      BY <1>3, <2>2, <2>3, <2>4, <2>5
    <2> QED
      BY <1>3, <2>1, <2>2, <2>6, <2>7, UsedChanges
  <1> QED
    BY <1>1, <1>2, <1>3 DEF Savepoint

LEMMA WorksKeeps ==
  ASSUME ServerInv, NEW w, Only(w), NEW changes, Works(w, changes), NEW next \in Dirty,
         Goto(w, next), UNCHANGED serving
  PROVE  ServerInv'
  <1>1. pc' \in [Workers -> Points] /\ pc'[w] \in Dirty
    BY Goes DEF ServerInv, Only, Points, Dirty
  <1>2. CASE InTransaction(w)
    <2>1. Cur(w) \in DOMAIN conn
      BY <1>2, CurIsThere DEF InTransaction
    <2>2. PICK c : c = conn[Cur(w)]
      OBVIOUS
    <2>3. IsConn(c) /\ c.save = {} /\ c.tx = "open"
      BY <1>2, <2>1, <2>2 DEF ServerInv, Connections, Clean, InTransaction
    <2>4. PICK x : x = [c EXCEPT !.work = @ \cup changes]
      OBVIOUS
    <2>5. IsConn(x) /\ x.save = {} /\ x.tx = "open"
      BY <2>3, <2>4 DEF IsConn
    <2>6. conn' = [conn EXCEPT ![Cur(w)] = x]
      BY <1>2, <2>2, <2>4 DEF Works
    <2> QED
      BY <1>1, <2>1, <2>5, <2>6, UsedChanges DEF Works
  <1>3. CASE ~ InTransaction(w)
    BY <1>1, <1>3, NothingChanged DEF Works, ServerInv, Connections
  <1> QED
    BY <1>2, <1>3

LEMMA CommitKeeps ==
  ASSUME ServerInv, NEW w, Only(w), NEW ok, NEW text, Commit(w, ok, text), UNCHANGED serving
  PROVE  ServerInv'
  <1>1. pc' \in [Workers -> Points]
    BY Goes DEF Commit, Answers, Points, ServerInv, Only
  <1>2. Cur(w) \in DOMAIN conn
    BY CurIsThere DEF Commit
  <1>3. PICK x : x = Fresh
    OBVIOUS
  <1>4. IsConn(x) /\ x.work = {} /\ x.save = {} /\ conn' = [conn EXCEPT ![Cur(w)] = x]
    BY <1>3, FreshIsConn DEF Commit
  <1> QED
    BY <1>1, <1>2, <1>4, UsedChanges DEF Commit

LEMMA StopKeeps ==
  ASSUME ServerInv, Stop
  PROVE  ServerInv'
  <1>1. IsSequence(conn') /\ DOMAIN conn' = {} /\ Len(conn') = 0
    <2>1. <<>> \in Seq({})
      OBVIOUS
    <2> QED
      BY <2>1 DEF Stop, IsSequence
  <1>2. cur' \in [Objects -> Nat] /\ \A db \in Objects : cur'[db] <= Len(conn')
    BY <1>1 DEF Stop
  <1>3. serving' \in [Workers -> Kinds] /\ pc' \in [Workers -> Points]
    BY DEF Stop, ServerInv, Connections, Points
  <1> QED
    BY <1>1, <1>2, <1>3 DEF ServerInv, Connections, Clean

\* A statement that reads, or an answer, before the worker has changed anything.
LEMMA GoesOnClean ==
  ASSUME ServerInv, NEW w, Only(w), pc[w] \notin Dirty, UNCHANGED <<conn, cur>>,
         serving' \in [Workers -> Kinds], NEW at \in Points, Goto(w, at)
  PROVE  ServerInv'
  BY Goes, StaysClean DEF ServerInv, Only

\* A statement that reads in between.
LEMMA ReadsOn ==
  ASSUME ServerInv, NEW w, Only(w), NEW at \in Dirty, Reads(w, at), UNCHANGED serving
  PROVE  ServerInv'
  <1>1. pc' \in [Workers -> Points] /\ pc'[w] \in Dirty
    BY Goes DEF ServerInv, Only, Points, Dirty, Reads
  <1> QED
    BY <1>1, NothingChanged DEF Reads, ServerInv, Connections

-------------------------------------------------------------------------------
(* Requests                                                                *)

LEMMA AccountKeeps ==
  ASSUME ServerInv, NEW w, Only(w), AccountStep(w)
  PROVE  ServerInv'
  <1>0. serving \in [Workers -> Kinds]
    BY DEF ServerInv, Connections
  <1>1. CASE PrepareAccount(w)
    <2>1. CASE Is(w, "account", "connect") /\ Connect(w, "begin")
      BY <2>1, ConnectKeeps DEF Is, Points
    <2>2. CASE Is(w, "account", "begin") /\ Begin(w, "savepoint", Refusal(w))
      BY <2>2, BeginKeeps DEF Is, Points
    <2>3. CASE Is(w, "account", "savepoint") /\ Savepoint(w, "count", Refusal(w))
      BY <2>3, SavepointKeeps DEF Is, Points
    <2>4. CASE \E at \in {"count", "password", "insert", "id", "commit"} :
                 Is(w, "account", at) /\ Fails(w, Refusal(w))
      BY <2>4, FailsKeeps DEF Is
    <2> QED
      BY <1>1, <2>1, <2>2, <2>3, <2>4 DEF PrepareAccount
  <1>2. CASE CountUser(w)
    <2>1. serving' = serving /\ pc[w] \notin Dirty
      BY <1>2 DEF CountUser, Is, Dirty
    <2>2. Reads(w, "password") \/ Reads(w, "insert") \/ Refuse(w)
      BY <1>2 DEF CountUser
    <2>3. UNCHANGED <<conn, cur>> /\ \E at \in Points : Goto(w, at)
      BY <2>2 DEF Reads, Refuse, Answers, Points, Dirty
    <2> QED
      BY <1>0, <2>1, <2>3, GoesOnClean
  <1>3. CASE CheckPassword(w)
    <2>1. serving' = serving /\ pc[w] \notin Dirty
      BY <1>3 DEF CheckPassword, Is, Dirty
    <2>2. Reads(w, "id") \/ Refuse(w)
      BY <1>3 DEF CheckPassword
    <2>3. UNCHANGED <<conn, cur>> /\ \E at \in Points : Goto(w, at)
      BY <2>2 DEF Reads, Refuse, Answers, Points, Dirty
    <2> QED
      BY <1>0, <2>1, <2>3, GoesOnClean
  <1>4. CASE InsertUser(w)
    <2>1. PICK changes : Works(w, changes)
      BY <1>4 DEF InsertUser
    <2> QED
      BY <1>4, <2>1, WorksKeeps DEF InsertUser, Is, Dirty
  <1>5. CASE SelectUser(w)
    <2>1. Reads(w, "commit") \/ Stop
      BY <1>5 DEF SelectUser
    <2>2. CASE Stop
      BY <2>2, StopKeeps
    <2>3. CASE Reads(w, "commit")
      BY <1>5, <2>3, ReadsOn DEF SelectUser, Is, Dirty
    <2> QED
      BY <2>1, <2>2, <2>3
  <1>6. CASE CommitUser(w)
    BY <1>6, CommitKeeps DEF CommitUser, Is
  <1> QED
    BY <1>1, <1>2, <1>3, <1>4, <1>5, <1>6 DEF AccountStep

LEMMA UploadKeeps ==
  ASSUME ServerInv, NEW w, Only(w), UploadStep(w)
  PROVE  ServerInv'
  <1>1. CASE PrepareUpload(w)
    <2>1. CASE Is(w, "upload", "connect") /\ Connect(w, "begin")
      BY <2>1, ConnectKeeps DEF Is, Points
    <2>2. CASE Is(w, "upload", "begin") /\ Begin(w, "savepoint", Failure)
      BY <2>2, BeginKeeps DEF Is, Points
    <2>3. CASE Is(w, "upload", "savepoint") /\ Savepoint(w, "update", Failure)
      BY <2>3, SavepointKeeps DEF Is, Points
    <2>4. CASE \E at \in {"insert", "select", "version"} :
                 Is(w, "upload", at) /\ Fails(w, Failure)
      BY <2>4, FailsKeeps DEF Is
    <2> QED
      BY <1>1, <2>1, <2>2, <2>3, <2>4 DEF PrepareUpload
  <1>2. CASE UpdateOld(w)
    <2>1. CASE Fails(w, Failure)
      BY <1>2, <2>1, FailsKeeps DEF UpdateOld, Is
    <2>2. CASE Writes(w, TakeDown(SeenIds(w)), "insert")
      BY <1>2, <2>2, WorksKeeps DEF UpdateOld, Writes, Is, Dirty
    <2> QED
      BY <1>2, <2>1, <2>2 DEF UpdateOld
  <1>3. CASE InsertNew(w)
    BY <1>3, WorksKeeps DEF InsertNew, Writes, Is, Dirty
  <1>4. CASE SelectId(w)
    <2>1. Reads(w, "version") \/ Stop
      BY <1>4 DEF SelectId
    <2>2. CASE Stop
      BY <2>2, StopKeeps
    <2>3. CASE Reads(w, "version")
      BY <1>4, <2>3, ReadsOn DEF SelectId, Is, Dirty
    <2> QED
      BY <2>1, <2>2, <2>3
  <1>5. CASE InsertVersion(w)
    <2>1. PICK changes : Works(w, changes)
      BY <1>5 DEF InsertVersion, Writes
    <2>2. Goto(w, "version") /\ serving' = serving
      BY <1>5 DEF InsertVersion, Writes, Is
    <2> QED
      BY <2>1, <2>2, WorksKeeps DEF Dirty
  <1>6. CASE CommitWork(w)
    BY <1>6, CommitKeeps DEF CommitWork, Is
  <1> QED
    BY <1>1, <1>2, <1>3, <1>4, <1>5, <1>6 DEF UploadStep

LEMMA RefreshKeeps ==
  ASSUME ServerInv, NEW w, Only(w), RefreshStep(w)
  PROVE  ServerInv'
  <1>0. serving \in [Workers -> Kinds]
    BY DEF ServerInv, Connections
  <1>1. CASE ConnectRefresh(w)
    BY <1>1, ConnectKeeps DEF ConnectRefresh, Is, Points
  <1>2. CASE SelectFiles(w)
    <2>1. /\ serving' = serving /\ pc[w] \notin Dirty
          /\ UNCHANGED <<conn, cur>> /\ Goto(w, "chunks") /\ "chunks" \in Points
      BY <1>2 DEF SelectFiles, Is, Dirty, Points
    <2> QED
      BY <1>0, <2>1, GoesOnClean
  <1>3. CASE SelectChunks(w)
    <2>1. serving' = serving /\ pc[w] \notin Dirty
      BY <1>3 DEF SelectChunks, Is, Dirty
    <2>2. Reads(w, "chunks") \/ Fails(w, "Fail to get file")
      BY <1>3 DEF SelectChunks
    <2>3. CASE Fails(w, "Fail to get file")
      BY <2>1, <2>3, FailsKeeps
    <2>4. CASE Reads(w, "chunks")
      <3>1. UNCHANGED <<conn, cur>> /\ Goto(w, "chunks") /\ "chunks" \in Points
        BY <2>4 DEF Reads, Points
      <3> QED
        BY <1>0, <2>1, <3>1, GoesOnClean
    <2> QED
      BY <2>2, <2>3, <2>4
  <1>4. CASE FinishRefresh(w)
    <2>1. /\ serving' = serving /\ pc[w] \notin Dirty
          /\ UNCHANGED <<conn, cur>> /\ Goto(w, "idle") /\ "idle" \in Points
      BY <1>4 DEF FinishRefresh, Is, Dirty, Points, Answers
    <2> QED
      BY <1>0, <2>1, GoesOnClean
  <1> QED
    BY <1>1, <1>2, <1>3, <1>4 DEF RefreshStep

LEMMA ReceiveKeeps ==
  ASSUME ServerInv, NEW w, Only(w), Receive(w)
  PROVE  ServerInv'
  <1>1. PICK request \in Kinds : Receives(w, request)
    BY DEF Receive, ReceiveAccount, ReceiveUpload, ReceiveRefresh, Kinds
  <1>2. serving' \in [Workers -> Kinds]
    BY <1>1 DEF Receives, ServerInv, Connections
  <1>3. /\ pc[w] \notin Dirty /\ UNCHANGED <<conn, cur>>
        /\ Goto(w, "connect") /\ "connect" \in Points
    BY <1>1 DEF Receives, Dirty, Points
  <1> QED
    BY <1>2, <1>3, GoesOnClean

\* Where the connections, the transactions on them and the one worker can be,
\* whatever is requested and whatever fails.
THEOREM ServerInvariant ==
  ASSUME NEW w, Only(w)
  PROVE  Spec => []ServerInv
  <1>1. Init => ServerInv
    <2> SUFFICES ASSUME Init PROVE ServerInv
      OBVIOUS
    <2>1. conn = <<>> /\ IsSequence(conn) /\ DOMAIN conn = {} /\ Len(conn) = 0
      <3>1. <<>> \in Seq({})
        OBVIOUS
      <3> QED
        BY <3>1 DEF Init, SessionInit, IsSequence
    <2>2. cur \in [Objects -> Nat] /\ \A db \in Objects : cur[db] <= Len(conn)
      BY <2>1 DEF Init, SessionInit
    <2>3. serving \in [Workers -> Kinds] /\ pc \in [Workers -> Points]
      BY DEF Init, SessionInit, Kinds, Points
    <2> QED
      BY <2>1, <2>2, <2>3 DEF ServerInv, Connections, Clean
  <1>2. ServerInv /\ [Next]_vars => ServerInv'
    <2> SUFFICES ASSUME ServerInv, [Next]_vars PROVE ServerInv'
      OBVIOUS
    <2>1. CASE Device
      <3>1. UNCHANGED session
        BY <2>1 DEF Device, Refresh, Answered, Unanswered
      <3> QED
        BY <3>1 DEF session, ServerInv, Connections, Clean, Cur, Db
    <2>2. CASE Crash
      BY <2>2, StopKeeps DEF Crash
    <2>3. CASE Receive(w)
      BY <2>3, ReceiveKeeps
    <2>4. CASE Step(w)
      BY <2>4, AccountKeeps, UploadKeeps, RefreshKeeps
         DEF Step, ServesAccount, ServesUpload, ServesRefresh
    <2>5. CASE UNCHANGED vars
      BY <2>5 DEF vars, session, ServerInv, Connections, Clean, Cur, Db
    <2> QED
      BY <2>1, <2>2, <2>3, <2>4, <2>5 DEF Next, Only
  <1> QED
    BY <1>1, <1>2, PTL DEF Spec

\* With one worker, the transactions that refused and failed requests leave open,
\* on connections nobody uses again, have changed nothing and hold no lock
\* (PostgresSQLDB::pqExec, PostgresSQLDB::Connect).
THEOREM NothingIsHeld ==
  ASSUME NEW w, Only(w)
  PROVE  Spec => []LeftoversHoldNothing
  <1>1. ServerInv => LeftoversHoldNothing
    BY DEF ServerInv, Connections, Clean, LeftoversHoldNothing, Only, Dirty
  <1> QED
    BY <1>1, ServerInvariant, PTL

-------------------------------------------------------------------------------
(* Accounts                                                                *)

IsUser(u) == u = [id |-> u.id, login |-> u.login, password |-> u.password]

Unique(rows) == \A u, v \in rows : u.login = v.login => u = v

\* The table, and what was answered of it.
Kept(w) ==
  /\ Unique(users) /\ registered \subseteq users /\ \A u \in users : IsUser(u)
  /\ DOMAIN answer = Workers /\ DOMAIN userId = Workers
  /\ serving[w] = "account" /\ answer[w] = "ok" =>
       pc[w] = "idle" /\ Account(userId[w], sent[w]) \in users

\* The request under way, of which the table has nothing before its commit.
UnderWay(w) ==
  serving[w] = "account" =>
    /\ pc[w] \in {"savepoint", "count", "password", "insert", "id", "commit"} => InTransaction(w)
    /\ pc[w] = "insert" => RowsOf(w) = {} /\ conn[Cur(w)].work = {}
    /\ pc[w] \in {"id", "commit"} => Unique(Seen(w)) /\ \A u \in Seen(w) : IsUser(u)
    /\ pc[w] = "commit" => Account(userId[w], sent[w]) \in Seen(w)

UsersInv(w) == Kept(w) /\ UnderWay(w)

\* The request ends without a change of the table, or has not begun its
\* transaction.
LEMMA NothingRegistered ==
  ASSUME ServerInv, NEW w, Only(w), UsersInv(w), UNCHANGED <<users, registered, userId, sent>>,
         DOMAIN answer' = Workers,
         pc'[w] \in {"idle", "connect", "begin"},
         serving'[w] = "account" /\ answer'[w] = "ok" =>
           serving[w] = "account" /\ answer[w] = "ok" /\ pc'[w] = "idle"
  PROVE  UsersInv(w)'
  BY DEF UsersInv, Kept, UnderWay

\* The worker serves something else.
LEMMA OtherRequest ==
  ASSUME NEW w, UsersInv(w), UNCHANGED <<users, registered, userId>>,
         DOMAIN answer' = Workers, serving'[w] # "account"
  PROVE  UsersInv(w)'
  BY DEF UsersInv, Kept, UnderWay

LEMMA AnswersTo ==
  ASSUME ServerInv, NEW w, Only(w), Kept(w), NEW text, Answers(w, text)
  PROVE  /\ pc'[w] = "idle" /\ answer'[w] = text /\ DOMAIN answer' = Workers
  BY DEF Answers, Goto, ServerInv, Connections, Only, Kept

LEMMA RefusalIsNotOk == ASSUME NEW w PROVE Refusal(w) # "ok"
  BY DEF Refusal

\* Before its first change the worker sees table Users as it is.
LEMMA SeesTable ==
  ASSUME ServerInv, NEW w, Only(w), pc[w] \notin Dirty
  PROVE  Seen(w) = users
  <1>1. CASE Cur(w) = 0
    BY <1>1 DEF Seen
  <1>2. CASE Cur(w) # 0
    <2>1. conn[Cur(w)].work = {}
      BY <1>2, CurIsThere, NothingYet
    <2> QED
      BY <1>2, <2>1 DEF Seen, UsersWith, Of
  <1> QED
    BY <1>1, <1>2

LEMMA PrepareKeepsUsers ==
  ASSUME ServerInv, NEW w, Only(w), UsersInv(w), PrepareAccount(w)
  PROVE  UsersInv(w)'
  <1>1. UNCHANGED <<users, registered, userId, sent>>
    BY DEF PrepareAccount, usersVars
  <1>2. serving' = serving /\ serving[w] = "account" /\ pc[w] # "idle"
    BY DEF PrepareAccount, Is
  <1>3. DOMAIN answer = Workers /\ answer[w] # "ok"
    BY <1>2 DEF UsersInv, Kept
  <1>4. ASSUME NEW text, text # "ok", Answers(w, text)
        PROVE  UsersInv(w)'
    BY <1>1, <1>4, AnswersTo, NothingRegistered DEF UsersInv
  <1>5. CASE \E at \in {"begin", "savepoint", "count", "password", "insert", "id", "commit"} :
               Is(w, "account", at) /\ Fails(w, Refusal(w))
    BY <1>4, <1>5, RefusalIsNotOk DEF Fails
  <1>6. CASE Is(w, "account", "connect") /\ Connect(w, "begin")
    <2>1. CASE Answers(w, "Database error")
      BY <1>4, <2>1
    <2>2. CASE Goto(w, "begin") /\ UNCHANGED answer
      <3>1. pc'[w] = "begin"
        BY <2>2, Goes DEF ServerInv, Points, Only
      <3> QED
        BY <1>1, <1>3, <2>2, <3>1, NothingRegistered
    <2> QED
      BY <1>6, <2>1, <2>2 DEF Connect
  <1>7. CASE /\ Is(w, "account", "begin")
             /\ Usable(w)
             /\ conn' = [conn EXCEPT ![Cur(w)].tx = "open"]
             /\ Goto(w, "savepoint")
             /\ UNCHANGED <<cur, answer>>
    <2>1. pc'[w] = "savepoint"
      BY <1>7, Goes DEF ServerInv, Points, Only
    <2>2. PICK i : i = Cur(w)
      OBVIOUS
    <2>3. i \in DOMAIN conn /\ i # 0 /\ Cur(w)' = i
      BY <1>2, <1>7, <2>2, CurIsThere DEF Usable, Cur, Db
    <2>4. conn'[i].tx = "open"
      BY <1>7, <2>2, <2>3 DEF ServerInv, Connections, IsConn
    <2>5. InTransaction(w)'
      BY <2>3, <2>4 DEF InTransaction
    <2> QED
      BY <1>1, <1>2, <1>3, <1>7, <2>1, <2>5 DEF UsersInv, Kept, UnderWay
  <1>8. CASE /\ Is(w, "account", "savepoint")
             /\ InTransaction(w)
             /\ conn' = [conn EXCEPT ![Cur(w)].saved = TRUE, ![Cur(w)].save = conn[Cur(w)].work]
             /\ Goto(w, "count")
             /\ UNCHANGED <<cur, answer>>
    <2>1. pc'[w] = "count"
      BY <1>8, Goes DEF ServerInv, Points, Only
    <2>2. PICK i : i = Cur(w)
      OBVIOUS
    <2>3. i \in DOMAIN conn /\ i # 0 /\ Cur(w)' = i /\ conn[i].tx = "open"
      BY <1>2, <1>8, <2>2, CurIsThere DEF InTransaction, Cur, Db
    <2>4. conn'[i].tx = "open"
      BY <1>8, <2>2, <2>3 DEF ServerInv, Connections, IsConn
    <2>5. InTransaction(w)'
      BY <2>3, <2>4 DEF InTransaction
    <2> QED
      BY <1>1, <1>2, <1>3, <1>8, <2>1, <2>5 DEF UsersInv, Kept, UnderWay
  <1>9. CASE Is(w, "account", "savepoint") /\ Answers(w, Refusal(w))
    BY <1>4, <1>9, RefusalIsNotOk
  <1> QED
    BY <1>5, <1>6, <1>7, <1>8, <1>9 DEF PrepareAccount, Begin, Savepoint

\* The request goes on to a statement before which it has read, not written.
LEMMA ReadsUsers ==
  ASSUME ServerInv, NEW w, Only(w), UsersInv(w), NEW next \in {"password", "insert", "id"},
         serving[w] = "account", pc[w] \in {"count", "password"}, Reads(w, next),
         UNCHANGED <<serving, users, registered, userId, sent>>,
         next = "insert" => RowsOf(w) = {}
  PROVE  UsersInv(w)'
  <1>1. pc'[w] = next
    BY Goes DEF Reads, ServerInv, Points, Dirty, Only
  <1>2. Seen(w) = users /\ InTransaction(w) /\ conn[Cur(w)].work = {}
    <2>1. Seen(w) = users
      BY SeesTable DEF Dirty
    <2>2. InTransaction(w)
      BY DEF UsersInv, UnderWay
    <2> QED
      BY <2>1, <2>2, CurIsThere, NothingYet DEF InTransaction, Dirty
  <1>3. UNCHANGED <<Cur(w), InTransaction(w), Seen(w), RowsOf(w)>>
    BY DEF Reads, Cur, Db, InTransaction, Seen, RowsOf, UsersWith
  <1>4. answer[w] # "ok" /\ UNCHANGED <<answer, conn>>
    BY DEF UsersInv, Kept, Reads
  <1>5. Kept(w)'
    BY <1>4 DEF UsersInv, Kept
  <1>6. UnderWay(w)'
    BY <1>1, <1>2, <1>3, <1>4 DEF UsersInv, Kept, UnderWay
  <1> QED
    BY <1>5, <1>6 DEF UsersInv

LEMMA RefuseKeepsUsers ==
  ASSUME ServerInv, NEW w, Only(w), UsersInv(w), Refuse(w),
         UNCHANGED <<users, registered, userId, sent>>
  PROVE  UsersInv(w)'
  BY AnswersTo, RefusalIsNotOk, NothingRegistered DEF Refuse, UsersInv

LEMMA CountKeepsUsers ==
  ASSUME ServerInv, NEW w, Only(w), UsersInv(w), CountUser(w)
  PROVE  UsersInv(w)'
  <1>1. /\ UNCHANGED <<users, registered, userId, sent>>
        /\ serving' = serving /\ serving[w] = "account" /\ pc[w] = "count"
    BY DEF CountUser, usersVars, Is
  <1>2. \/ Reads(w, "password")
        \/ Reads(w, "insert") /\ Cardinality(RowsOf(w)) # 1
        \/ Refuse(w)
    BY DEF CountUser
  <1>3. CASE Refuse(w)
    BY <1>1, <1>3, RefuseKeepsUsers
  <1>4. CASE Reads(w, "password")
    BY <1>1, <1>4, ReadsUsers
  <1>5. CASE Reads(w, "insert") /\ Cardinality(RowsOf(w)) # 1
    <2>1. Seen(w) = users /\ Unique(users)
      BY <1>1, SeesTable DEF Dirty, UsersInv, Kept
    <2>2. ASSUME NEW u \in RowsOf(w) PROVE FALSE
      <3>1. RowsOf(w) = {u}
        BY <2>1, <2>2 DEF RowsOf, Unique
      <3> QED
        BY <1>5, <3>1, FS_Singleton
    <2>3. RowsOf(w) = {}
      BY <2>2
    <2> QED
      BY <1>1, <1>5, <2>3, ReadsUsers
  <1> QED
    BY <1>2, <1>3, <1>4, <1>5

LEMMA PasswordKeepsUsers ==
  ASSUME ServerInv, NEW w, Only(w), UsersInv(w), CheckPassword(w)
  PROVE  UsersInv(w)'
  <1>1. /\ UNCHANGED <<users, registered, userId, sent>>
        /\ serving' = serving /\ serving[w] = "account" /\ pc[w] = "password"
    BY DEF CheckPassword, usersVars, Is
  <1>2. Reads(w, "id") \/ Refuse(w)
    BY DEF CheckPassword
  <1>3. CASE Refuse(w)
    BY <1>1, <1>3, RefuseKeepsUsers
  <1>4. CASE Reads(w, "id")
    BY <1>1, <1>4, ReadsUsers
  <1> QED
    BY <1>2, <1>3, <1>4

LEMMA InsertKeepsUsers ==
  ASSUME ServerInv, NEW w, Only(w), UsersInv(w), InsertUser(w)
  PROVE  UsersInv(w)'
  <1>1. /\ UNCHANGED <<registered, userId, sent, answer, cur>>
        /\ serving' = serving /\ serving[w] = "account" /\ pc[w] = "insert"
    BY DEF InsertUser, Is, Works
  <1>2. InTransaction(w) /\ RowsOf(w) = {} /\ conn[Cur(w)].work = {} /\ answer[w] # "ok"
    BY <1>1 DEF UsersInv, Kept, UnderWay
  <1>3. pc'[w] = "id"
    BY Goes DEF InsertUser, ServerInv, Points, Dirty, Only
  <1>4. PICK u : u = Account(nextUser, sent[w])
    OBVIOUS
  <1>5. IsUser(u) /\ u.login = sent[w].login
    BY <1>4 DEF Account, IsUser
  <1>6. PICK i : i = Cur(w)
    OBVIOUS
  <1>7. i \in DOMAIN conn /\ i # 0 /\ Cur(w)' = i /\ conn[i].tx = "open" /\ conn[i].work = {}
    BY <1>1, <1>2, <1>6, CurIsThere DEF InTransaction, Cur, Db
  <1>8. PICK c : c = [kind |-> "user", user |-> u]
    OBVIOUS
  <1>9. users' = users /\ conn' = [conn EXCEPT ![i].work = @ \cup {c}]
    BY <1>2, <1>4, <1>6, <1>8 DEF InsertUser, Works
  <1>10. conn'[i].tx = "open" /\ conn'[i].work = {c}
    BY <1>7, <1>9 DEF ServerInv, Connections, IsConn
  <1>11. Seen(w) = users
    BY <1>6, <1>7 DEF Seen, UsersWith, Of
  <1>12. Seen(w)' = users \cup {u}
    <2>1. Of({c}, "user") = {c} /\ c.user = u
      BY <1>8 DEF Of
    <2> QED
      BY <1>7, <1>9, <1>10, <2>1 DEF Seen, UsersWith
  <1>13. Unique(users \cup {u}) /\ \A v \in users \cup {u} : IsUser(v)
    <2>1. \A v \in users : v.login # u.login
      BY <1>2, <1>5, <1>11 DEF RowsOf
    <2> QED
      BY <1>5, <2>1 DEF UsersInv, Kept, Unique
  <1>14. InTransaction(w)'
    BY <1>7, <1>10 DEF InTransaction
  <1>15. Kept(w)'
    BY <1>1, <1>2, <1>9 DEF UsersInv, Kept
  <1>16. Unique(Seen(w)') /\ \A v \in Seen(w)' : IsUser(v)
    BY <1>12, <1>13
  <1>17. UnderWay(w)'
    BY <1>3, <1>14, <1>16 DEF UnderWay, Unique, IsUser
  <1> QED
    BY <1>15, <1>17 DEF UsersInv

LEMMA SelectKeepsUsers ==
  ASSUME ServerInv, NEW w, Only(w), UsersInv(w), SelectUser(w)
  PROVE  UsersInv(w)'
  <1>1. serving' = serving /\ serving[w] = "account" /\ pc[w] = "id"
    BY DEF SelectUser, Is
  <1>2. answer[w] # "ok"
    BY <1>1 DEF UsersInv, Kept
  <1>3. CASE Stop /\ UNCHANGED usersVars
    <2>1. pc'[w] = "idle" /\ UNCHANGED answer
      BY <1>3 DEF Stop, Only
    <2> QED
      BY <1>1, <1>2, <1>3, <2>1, NothingRegistered DEF usersVars, UsersInv, Kept
  <1>4. CASE /\ Reads(w, "commit")
             /\ \E u \in RowsOf(w) :
                  u.password = sent[w].password /\ userId' = [userId EXCEPT ![w] = u.id]
             /\ UNCHANGED <<users, nextUser, sent, registered>>
    <2>1. PICK u \in RowsOf(w) :
             u.password = sent[w].password /\ userId' = [userId EXCEPT ![w] = u.id]
      BY <1>4
    <2>2. DOMAIN userId' = Workers /\ userId'[w] = u.id
      BY <2>1 DEF UsersInv, Kept, Only
    <2>3. u \in Seen(w) /\ IsUser(u) /\ u.login = sent[w].login
      BY <1>1, <2>1 DEF RowsOf, UsersInv, UnderWay
    <2>4. Account(u.id, sent[w]) = u
      BY <2>1, <2>3 DEF IsUser, Account
    <2>5. pc'[w] = "commit"
      BY <1>4, Goes DEF Reads, ServerInv, Points, Dirty, Only
    <2>6. UNCHANGED <<Cur(w), InTransaction(w), Seen(w), answer, conn>>
      BY <1>1, <1>4 DEF Reads, Cur, Db, InTransaction, Seen, UsersWith
    <2>7. Account(userId'[w], sent'[w]) \in Seen(w)
      BY <1>4, <2>2, <2>3, <2>4
    <2>8. Kept(w)'
      BY <1>2, <1>4, <2>2, <2>6 DEF UsersInv, Kept
    <2>9. InTransaction(w) /\ Unique(Seen(w)) /\ \A v \in Seen(w) : IsUser(v)
      BY <1>1 DEF UsersInv, UnderWay
    <2>10. UnderWay(w)'
      BY <2>5, <2>6, <2>7, <2>9 DEF UnderWay, Account
    <2> QED
      BY <2>8, <2>10 DEF UsersInv
  <1> QED
    BY <1>3, <1>4 DEF SelectUser

LEMMA CommitKeepsUsers ==
  ASSUME ServerInv, NEW w, Only(w), UsersInv(w), CommitUser(w)
  PROVE  UsersInv(w)'
  <1>1. /\ UNCHANGED <<userId, sent>> /\ users' = Seen(w)
        /\ serving' = serving /\ serving[w] = "account" /\ pc[w] = "commit"
    BY DEF CommitUser, Is
  <1>2. /\ Unique(Seen(w)) /\ \A u \in Seen(w) : IsUser(u)
        /\ Account(userId[w], sent[w]) \in Seen(w)
    BY <1>1 DEF UsersInv, UnderWay
  <1>3. users \subseteq Seen(w)
    BY DEF Seen, UsersWith
  <1>4. pc'[w] = "idle" /\ DOMAIN answer' = Workers
    BY AnswersTo DEF CommitUser, Commit, UsersInv
  <1>5. registered' \subseteq users'
    BY <1>1, <1>2, <1>3 DEF CommitUser, UsersInv, Kept
  <1> QED
    BY <1>1, <1>2, <1>4, <1>5 DEF UsersInv, Kept, UnderWay

\* What an upload or a refresh answers.
LEMMA OthersAnswer ==
  ASSUME NEW w, UploadStep(w) \/ RefreshStep(w)
  PROVE  /\ serving' = serving /\ serving[w] # "account"
         /\ DOMAIN answer' = DOMAIN answer
  <1>1. CASE UploadStep(w)
    <2>1. /\ serving' = serving /\ serving[w] = "upload"
      BY <1>1 DEF UploadStep, PrepareUpload, UpdateOld, InsertNew, SelectId, InsertVersion,
                  CommitWork, Is
    <2>2. CASE PrepareUpload(w)
      BY <2>1, <2>2 DEF PrepareUpload, Connect, Begin, Savepoint, Fails, Answers
    <2>3. CASE UpdateOld(w)
      BY <2>1, <2>3 DEF UpdateOld, Writes, Fails, Answers
    <2>4. CASE InsertNew(w)
      BY <2>1, <2>4 DEF InsertNew, Writes
    <2>5. CASE SelectId(w)
      BY <2>1, <2>5 DEF SelectId, Reads, Stop
    <2>6. CASE InsertVersion(w)
      BY <2>1, <2>6 DEF InsertVersion, Writes
    <2>7. CASE CommitWork(w)
      BY <2>1, <2>7 DEF CommitWork, Commit, Answers
    <2> QED
      BY <1>1, <2>1, <2>2, <2>3, <2>4, <2>5, <2>6, <2>7 DEF UploadStep
  <1>2. CASE RefreshStep(w)
    <2>1. /\ serving' = serving /\ serving[w] = "refresh"
      BY <1>2 DEF RefreshStep, ConnectRefresh, SelectFiles, SelectChunks, FinishRefresh, Is
    <2>2. DOMAIN answer' = DOMAIN answer
      BY <1>2 DEF RefreshStep, ConnectRefresh, SelectFiles, SelectChunks, FinishRefresh,
                  Connect, Reads, Fails, Answers
    <2> QED
      BY <2>1, <2>2
  <1> QED
    BY <1>1, <1>2

LEMMA ReceiveKeepsUsers ==
  ASSUME ServerInv, NEW w, Only(w), UsersInv(w), Receive(w)
  PROVE  UsersInv(w)'
  <1>1. UNCHANGED <<users, registered, userId>>
    BY DEF Receive, ReceiveAccount, usersVars
  <1>2. PICK request \in Kinds : Receives(w, request)
    BY DEF Receive, ReceiveAccount, ReceiveUpload, ReceiveRefresh, Kinds
  <1>3. answer'[w] = "none" /\ DOMAIN answer' = Workers
    BY <1>2 DEF Receives, UsersInv, Kept, Only
  <1>4. pc'[w] = "connect"
    BY <1>2, Goes DEF Receives, ServerInv, Points, Only
  <1> QED
    BY <1>1, <1>3, <1>4 DEF UsersInv, Kept, UnderWay

LEMMA UsersKept ==
  ASSUME ServerInv, NEW w, Only(w), UsersInv(w), [Next]_vars
  PROVE  UsersInv(w)'
  <1>1. CASE Device
    <2>1. UNCHANGED <<session, usersVars>>
      BY <1>1 DEF Device, Refresh, Answered, Unanswered
    <2> QED
      BY <2>1 DEF session, usersVars, UsersInv, Kept, UnderWay, InTransaction, Cur, Db, RowsOf,
                  Seen, UsersWith
  <1>2. CASE Crash
    <2>1. pc'[w] = "idle" /\ UNCHANGED <<serving, answer, usersVars>>
      BY <1>2 DEF Crash, Stop, Only
    <2> QED
      BY <2>1 DEF usersVars, UsersInv, Kept, UnderWay
  <1>3. CASE Receive(w)
    BY <1>3, ReceiveKeepsUsers
  <1>4. CASE ServesAccount(w)
    BY <1>4, PrepareKeepsUsers, CountKeepsUsers, PasswordKeepsUsers, InsertKeepsUsers,
       SelectKeepsUsers, CommitKeepsUsers
       DEF ServesAccount, AccountStep
  <1>5. CASE ServesUpload(w) \/ ServesRefresh(w)
    <2>1. UploadStep(w) \/ RefreshStep(w)
      BY <1>5 DEF ServesUpload, ServesRefresh
    <2>2. UNCHANGED <<users, registered, userId>>
      BY <1>5 DEF ServesUpload, ServesRefresh, usersVars
    <2>3. DOMAIN answer' = Workers
      BY <2>1, OthersAnswer DEF UsersInv, Kept
    <2> QED
      BY <2>1, <2>2, <2>3, OthersAnswer, OtherRequest
  <1>6. CASE UNCHANGED vars
    <2>1. UNCHANGED <<session, usersVars>>
      BY <1>6 DEF vars
    <2> QED
      BY <2>1 DEF session, usersVars, UsersInv, Kept, UnderWay, InTransaction, Cur, Db, RowsOf,
                  Seen, UsersWith
  <1> QED
    BY <1>1, <1>2, <1>3, <1>4, <1>5, <1>6 DEF Next, Step, Only

\* With one worker: what the table and the request under way have to do with
\* each other (UsersDB::Login, UsersDB::Registration).
THEOREM UsersInvariant ==
  ASSUME NEW w, Only(w)
  PROVE  Spec => []UsersInv(w)
  <1>1. Init => UsersInv(w)
    BY DEF Init, SessionInit, UsersInit, UsersInv, Kept, UnderWay, Unique, Only
  <1>2. ServerInv /\ UsersInv(w) /\ [Next]_vars => UsersInv(w)'
    BY UsersKept
  <1> QED
    BY <1>1, <1>2, ServerInvariant, PTL DEF Spec

\* With one worker an account that a registration was answered with is there for
\* good, and alone has its login (UsersDB::Registration).
THEOREM AccountsStay ==
  ASSUME NEW w, Only(w)
  PROVE  Spec => []Registered
  <1>1. UsersInv(w) => Registered
    BY DEF UsersInv, Kept, Unique, Registered
  <1> QED
    BY <1>1, UsersInvariant, PTL

\* With one worker a login succeeds only into the account with that login and
\* password (UsersDB::Login).
THEOREM LoginsAreRight ==
  ASSUME NEW w, Only(w)
  PROVE  Spec => []LoginRight
  <1>1. UsersInv(w) => LoginRight
    BY DEF UsersInv, Kept, LoginRight, Only
  <1> QED
    BY <1>1, UsersInvariant, PTL

-------------------------------------------------------------------------------
(* The tables                                                              *)

\* Rows of table Files whose ids come before n: each file has a current one, and
\* that has the highest id.
Ranked(T, n) ==
  /\ \A x \in T : x \in Rows /\ x.id < n
  /\ \A x, y \in T : x.id = y.id => x = y
  /\ \A x \in T : \E z \in T : z.info.file = x.info.file /\ z.info.cur
  /\ \A x, y \in T : x.info.cur /\ x.info.file = y.info.file => y.id <= x.id

\* The Version rows of the first n chunks of row i.
Chunks(i, chunks, n) == {[row |-> i, chunk |-> chunks[k], order |-> k] : k \in 1 .. n}

VersionsOf(i) == {v \in versions : v.row = i}

\* Both tables hold whole uploads, all with ids before n.
Whole(n) ==
  /\ Ranked(files, n) /\ IsFiniteSet(files)
  /\ \A v \in versions : v.row \in Nat /\ v.row < n /\ v.chunk \in Nat /\ v.order \in Nat
  /\ \A f \in files : VersionsOf(f.id) = Chunks(f.id, f.info.chunks, Len(f.info.chunks))

IdsOf(file) == {f.id : f \in {g \in files : g.info.file = file}}

\* What an upload's transaction has changed when d Version rows are inserted.
NewVersions(i, chunks, d) ==
  {[kind |-> "version", id |-> i, chunk |-> chunks[k], order |-> k] : k \in 1 .. d}

Changes(i, info, d) ==
  TakeDown(IdsOf(info.file)) \cup NewFile(i, info) \cup NewVersions(i, info.chunks, d)

\* The upload under way, of which the tables have nothing before its commit.
Uploading(w) ==
  serving[w] = "upload" =>
    /\ pc[w] \in {"savepoint", "update", "insert", "select", "version"} => InTransaction(w)
    /\ pc[w] = "insert" => conn[Cur(w)].work = TakeDown(IdsOf(job[w].file))
    /\ pc[w] \in {"select", "version"} =>
         \E n \in 1 .. nextId :
           /\ nextId = n + 1 /\ Whole(n)
           /\ pc[w] = "select" => conn[Cur(w)].work = Changes(n, job[w], 0)
           /\ pc[w] = "version" =>
                /\ row[w] = n /\ done[w] <= Len(job[w].chunks)
                /\ conn[Cur(w)].work = Changes(n, job[w], done[w])

SavedAre(T) == \A u \in acked : \E f \in T : [f.info EXCEPT !.cur = TRUE] = u

Typed ==
  /\ nextId \in Nat \ {0} /\ todo \subseteq Uploads /\ acked \subseteq Uploads
  /\ job \in [Workers -> Uploads] /\ row \in [Workers -> Nat] /\ done \in [Workers -> Nat]

FilesInv(w) == Typed /\ Whole(nextId) /\ SavedAre(files) /\ Uploading(w)

-------------------------------------------------------------------------------
(* Counting                                                                *)

LEMMA ChunksCount ==
  ASSUME NEW i, NEW c, NEW n \in Nat
  PROVE  IsFiniteSet(Chunks(i, c, n)) /\ Cardinality(Chunks(i, c, n)) = n
  <1> DEFINE b == [k \in 1 .. n |-> [row |-> i, chunk |-> c[k], order |-> k]]
  <1>1. \A k \in 1 .. n : b[k] \in Chunks(i, c, n) /\ b[k].order = k
    BY DEF Chunks
  <1>2. \A v \in Chunks(i, c, n) : \E k \in 1 .. n : b[k] = v
    BY DEF Chunks
  <1>3. b \in [1 .. n -> Chunks(i, c, n)]
    BY <1>1
  <1> HIDE DEF b
  <1>4. b \in Bijection(1 .. n, Chunks(i, c, n))
    BY <1>1, <1>2, <1>3 DEF Bijection, Injection, Surjection, IsInjective
  <1> QED
    BY <1>4, FS_CountingElements, FS_NatBijection DEF ExistsBijection

\* The chunks of these Version rows in their order.
Listing(vs) ==
  [k \in 1 .. Cardinality(vs) |->
     (CHOOSE v \in vs : Cardinality({u \in vs : u.order <= v.order}) = k).chunk]

\* What a client reads of a row is what the row was inserted with.
LEMMA ListedInOrder ==
  ASSUME NEW i, NEW c \in Seq(Nat), NEW vs, vs = Chunks(i, c, Len(c))
  PROVE  Listing(vs) = c
  <1>1. Cardinality(vs) = Len(c) /\ Len(c) \in Nat /\ c = [k \in 1 .. Len(c) |-> c[k]]
    BY ChunksCount
  <1>2. ASSUME NEW k \in 1 .. Len(c)
        PROVE  (CHOOSE v \in vs : Cardinality({u \in vs : u.order <= v.order}) = k).chunk = c[k]
    <2>1. \A v \in vs : \E j \in 1 .. Len(c) : v = [row |-> i, chunk |-> c[j], order |-> j]
      BY DEF Chunks
    <2>2. \A v \in vs : v.order \in 1 .. Len(c) /\ v.chunk = c[v.order]
      BY <2>1
    <2>3. \A v \in vs : {u \in vs : u.order <= v.order} = Chunks(i, c, v.order)
      <3> TAKE v \in vs
      <3>1. ASSUME NEW u \in vs, u.order <= v.order PROVE u \in Chunks(i, c, v.order)
        <4>1. PICK j \in 1 .. Len(c) : u = [row |-> i, chunk |-> c[j], order |-> j]
          BY <2>1
        <4>2. j \in 1 .. v.order
          BY <2>2, <3>1, <4>1
        <4> QED
          BY <4>1, <4>2 DEF Chunks
      <3>2. ASSUME NEW u \in Chunks(i, c, v.order) PROVE u \in vs /\ u.order <= v.order
        <4>1. PICK j \in 1 .. v.order : u = [row |-> i, chunk |-> c[j], order |-> j]
          BY DEF Chunks
        <4>2. j \in 1 .. Len(c)
          BY <2>2
        <4> QED
          BY <4>1, <4>2, <2>2 DEF Chunks
      <3> QED
        BY <3>1, <3>2
    <2>4. \A v \in vs : Cardinality({u \in vs : u.order <= v.order}) = v.order
      <3> TAKE v \in vs
      <3>1. v.order \in Nat
        BY <2>2
      <3>2. Cardinality(Chunks(i, c, v.order)) = v.order
        BY <3>1, ChunksCount
      <3> QED
        BY <2>3, <3>2, Zenon
    <2>5. PICK x : x = [row |-> i, chunk |-> c[k], order |-> k]
      OBVIOUS
    <2>6. PICK y : y = CHOOSE v \in vs : Cardinality({u \in vs : u.order <= v.order}) = k
      OBVIOUS
    <2>7. y \in vs /\ Cardinality({u \in vs : u.order <= y.order}) = k
      <3>1. x \in vs /\ x.order = k
        BY <2>5 DEF Chunks
      <3> QED
        BY <2>4, <2>6, <3>1
    <2> QED
      BY <2>2, <2>4, <2>6, <2>7
  <1> QED
    BY <1>1, <1>2 DEF Listing

\* How many rows of T have ids up to that of f.
RankIn(T, f) == Cardinality({g \in T : g.id <= f.id})

\* The ids number the rows of a table.
LEMMA Ranks ==
  ASSUME NEW T, IsFiniteSet(T), \A x \in T : x.id \in Nat,
         \A x, y \in T : x.id = y.id => x = y
  PROVE  /\ Cardinality(T) \in Nat
         /\ \A f \in T : RankIn(T, f) \in 1 .. Cardinality(T)
         /\ \A f, g \in T : RankIn(T, f) = RankIn(T, g) => f = g
         /\ \A k \in 1 .. Cardinality(T) : \E f \in T : RankIn(T, f) = k
  <1> DEFINE upTo(f) == {g \in T : g.id <= f.id}
  <1>1. Cardinality(T) \in Nat
    BY FS_CardinalityType
  <1>2. \A f \in T : /\ IsFiniteSet(upTo(f)) /\ Cardinality(upTo(f)) \in Nat
                     /\ Cardinality(upTo(f)) <= Cardinality(T) /\ Cardinality(upTo(f)) # 0
    <2> TAKE f \in T
    <2>1. upTo(f) \in SUBSET T /\ f \in upTo(f)
      OBVIOUS
    <2> HIDE DEF upTo
    <2>2. IsFiniteSet(upTo(f)) /\ Cardinality(upTo(f)) <= Cardinality(T)
      BY <2>1, FS_Subset
    <2> QED
      BY <2>1, <2>2, FS_CardinalityType, FS_EmptySet
  <1>3. ASSUME NEW f \in T, NEW g \in T, f.id < g.id
        PROVE  Cardinality(upTo(f)) # Cardinality(upTo(g))
    <2>1. upTo(f) \in SUBSET upTo(g) /\ g \in upTo(g) /\ g \notin upTo(f)
      BY <1>3
    <2> HIDE DEF upTo
    <2> QED
      BY <1>2, <2>1, FS_Subset
  <1>4. \A f, g \in T : Cardinality(upTo(f)) = Cardinality(upTo(g)) => f = g
    <2> TAKE f, g \in T
    <2>1. f.id < g.id \/ g.id < f.id \/ f.id = g.id
      OBVIOUS
    <2> HIDE DEF upTo
    <2> QED
      BY <1>3, <2>1
  <1> DEFINE b == [f \in T |-> Cardinality(upTo(f))]
  <1>5. \A f \in T : b[f] = RankIn(T, f) /\ b[f] \in 1 .. Cardinality(T)
    <2> TAKE f \in T
    <2>1. b[f] = RankIn(T, f) /\ b[f] = Cardinality(upTo(f))
      BY DEF RankIn
    <2> HIDE DEF b, upTo
    <2> QED
      BY <1>1, <1>2, <2>1
  <1>6. b \in [T -> 1 .. Cardinality(T)]
    BY <1>5
  <1>7. \A f, g \in T : b[f] = b[g] => f = g
    BY <1>4
  <1> HIDE DEF b, upTo
  <1>8. b \in Injection(T, 1 .. Cardinality(T))
    BY <1>6, <1>7 DEF Injection, IsInjective
  <1>9. IsFiniteSet(1 .. Cardinality(T)) /\ Cardinality(1 .. Cardinality(T)) = Cardinality(T)
    BY <1>1, FS_Interval
  <1>10. b \in Surjection(T, 1 .. Cardinality(T))
    BY <1>8, <1>9, FS_Injection
  <1>11. \A k \in 1 .. Cardinality(T) : \E f \in T : b[f] = k
    BY <1>10 DEF Surjection
  <1> QED
    BY <1>1, <1>5, <1>7, <1>11

-------------------------------------------------------------------------------
(* An upload, wholly in the tables                                         *)

\* A row is taken down.
Down(f) == [f EXCEPT !.info = [@ EXCEPT !.cur = FALSE]]

LEMMA DownIs ==
  ASSUME NEW f \in Rows
  PROVE  /\ Down(f) \in Rows /\ Down(f).id = f.id
         /\ Down(f).info = [f.info EXCEPT !.cur = FALSE]
         /\ Down(f).info.file = f.info.file /\ Down(f).info.cur = FALSE
         /\ Down(f).info.chunks = f.info.chunks
         /\ [Down(f).info EXCEPT !.cur = TRUE] = [f.info EXCEPT !.cur = TRUE]
  <1>1. f.id \in Nat \ {0} /\ f.info \in FileInfo /\ f = [id |-> f.id, info |-> f.info]
    BY DEF Rows
  <1>2. PICK g : g = [f.info EXCEPT !.cur = FALSE]
    OBVIOUS
  <1>3. Down(f) = [id |-> f.id, info |-> g]
    <2>1. Down(f) = [f EXCEPT !.info = g]
      BY <1>2 DEF Down
    <2> QED
      BY <1>1, <2>1
  <1>4. /\ g \in FileInfo /\ g.file = f.info.file /\ g.cur = FALSE /\ g.chunks = f.info.chunks
    BY <1>1, <1>2 DEF FileInfo
  <1>5. [g EXCEPT !.cur = TRUE] = [f.info EXCEPT !.cur = TRUE]
    <2>1. PICK h : h = f.info
      OBVIOUS
    <2>2. /\ DOMAIN h = DOMAIN g /\ h = [x \in DOMAIN h |-> h[x]]
          /\ \A x \in DOMAIN h : g[x] = IF x = "cur" THEN FALSE ELSE h[x]
      BY <1>1, <1>2, <2>1 DEF FileInfo
    <2> QED
      BY <2>1, <2>2
  <1>6. Down(f).id = f.id /\ Down(f).info = g /\ Down(f) \in Rows
    BY <1>1, <1>3, <1>4 DEF Rows
  <1> QED
    BY <1>2, <1>4, <1>5, <1>6

\* Table Files after an upload.
Uploaded(T, i, info, ids) ==
  {IF f.id \in ids THEN Down(f) ELSE f : f \in T \cup {[id |-> i, info |-> info]}}

LEMMA KindsOf ==
  ASSUME NEW i, NEW info, NEW d, NEW W, W = Changes(i, info, d)
  PROVE  /\ {c.id : c \in Of(W, "old")} = IdsOf(info.file)
         /\ {[id |-> c.id, info |-> c.info] : c \in Of(W, "file")} = {[id |-> i, info |-> info]}
         /\ {[row |-> c.id, chunk |-> c.chunk, order |-> c.order] : c \in Of(W, "version")}
              = Chunks(i, info.chunks, d)
  <1> DEFINE old == TakeDown(IdsOf(info.file))
             new == NewFile(i, info)
             rest == NewVersions(i, info.chunks, d)
  <1>1. W = old \cup new \cup rest
    BY DEF Changes
  <1>2. \A c \in old : c.kind = "old"
    BY DEF TakeDown
  <1>7. \A c \in new : c.kind = "file"
    BY DEF NewFile
  <1>8. \A c \in rest : c.kind = "version"
    BY DEF NewVersions
  <1>3. {c.id : c \in old} = IdsOf(info.file)
    <2>1. \A c \in old : c.id \in IdsOf(info.file)
      BY DEF TakeDown
    <2>2. ASSUME NEW k \in IdsOf(info.file)
          PROVE  \E c \in old : c.id = k
      <3>1. [kind |-> "old", id |-> k] \in old
        BY DEF TakeDown
      <3> HIDE DEF old
      <3> QED
        BY <3>1
    <2> HIDE DEF old
    <2> QED
      BY <2>1, <2>2
  <1>4. {[id |-> c.id, info |-> c.info] : c \in new} = {[id |-> i, info |-> info]}
    BY DEF NewFile
  <1>5. {[row |-> c.id, chunk |-> c.chunk, order |-> c.order] : c \in rest}
          = Chunks(i, info.chunks, d)
    <2> DEFINE made(k) == [row |-> i, chunk |-> info.chunks[k], order |-> k]
               written(k) == [kind |-> "version", id |-> i, chunk |-> info.chunks[k], order |-> k]
    <2>1. Chunks(i, info.chunks, d) = {made(k) : k \in 1 .. d}
      BY DEF Chunks
    <2>2. rest = {written(k) : k \in 1 .. d}
      BY DEF NewVersions
    <2>3. \A k : [row |-> written(k).id, chunk |-> written(k).chunk, order |-> written(k).order] = made(k)
      OBVIOUS
    <2> HIDE DEF made, written, rest
    <2> QED
      BY <2>1, <2>2, <2>3
  <1> HIDE DEF old, new, rest
  <1>6. Of(W, "old") = old /\ Of(W, "file") = new /\ Of(W, "version") = rest
    BY <1>1, <1>2, <1>7, <1>8 DEF Of
  <1> QED
    BY <1>3, <1>4, <1>5, <1>6

LEMMA TablesWithUpload ==
  ASSUME NEW i, NEW info, NEW d
  PROVE  /\ FilesWith(Changes(i, info, d)) = Uploaded(files, i, info, IdsOf(info.file))
         /\ VersionsWith(Changes(i, info, d)) = versions \cup Chunks(i, info.chunks, d)
  <1>1. PICK W : W = Changes(i, info, d)
    OBVIOUS
  <1>2. FilesWith(W) = Uploaded(files, i, info, IdsOf(info.file))
    BY <1>1, KindsOf DEF FilesWith, Uploaded, Down
  <1>3. VersionsWith(W) = versions \cup Chunks(i, info.chunks, d)
    BY <1>1, KindsOf DEF VersionsWith
  <1> QED
    BY <1>1, <1>2, <1>3

\* The old rows are taken down and the new one comes last.
LEMMA NewIsCurrent ==
  ASSUME NEW T, NEW n \in Nat \ {0}, Ranked(T, n), NEW j \in FileInfo, j.cur,
         NEW ids, ids = {f.id : f \in {g \in T : g.info.file = j.file}},
         NEW R, R = Uploaded(T, n, j, ids)
  PROVE  Ranked(R, n + 1)
  <1>1. PICK x : x = [id |-> n, info |-> j]
    OBVIOUS
  <1>2. x \in Rows /\ x.id = n /\ x.info = j
    BY <1>1 DEF Rows
  <1>3. \A f \in T : f \in Rows /\ f.id \in Nat /\ f.id < n
    BY DEF Ranked, Rows
  <1>4. n \notin ids
    BY <1>3
  <1>5. \A f \in T : f.id \in ids <=> f.info.file = j.file
    BY DEF Ranked
  <1>6. x \in R
    BY <1>1, <1>2, <1>4 DEF Uploaded
  <1>7. ASSUME NEW r \in R, r # x
        PROVE  \E f \in T : /\ r \in Rows /\ r.id = f.id /\ r.info.file = f.info.file
                            /\ f.info.file = j.file => r = Down(f) /\ r.info.cur = FALSE
                            /\ f.info.file # j.file => r = f
    <2>1. PICK f \in T \cup {x} : r = IF f.id \in ids THEN Down(f) ELSE f
      BY <1>1 DEF Uploaded
    <2>2. f \in T
      BY <1>2, <1>4, <1>7, <2>1
    <2>3. CASE f.info.file = j.file
      <3>1. r = Down(f) /\ f \in Rows
        BY <1>3, <1>5, <2>1, <2>2, <2>3
      <3> QED
        BY <2>2, <2>3, <3>1, DownIs
    <2>4. CASE f.info.file # j.file
      <3>1. r = f /\ f \in Rows
        BY <1>3, <1>5, <2>1, <2>2, <2>4
      <3> QED
        BY <2>2, <2>4, <3>1
    <2> QED
      BY <2>3, <2>4
  <1>8. \A f \in T : f.info.file # j.file => f \in R
    BY <1>5 DEF Uploaded
  <1>9. \A r \in R : r \in Rows /\ r.id \in Nat /\ (r # x => r.id < n)
    BY <1>2, <1>3, <1>7 DEF Rows
  <1>10. ASSUME NEW r \in R, NEW s \in R, r.id = s.id
         PROVE  r = s
    <2>1. CASE r = x \/ s = x
      BY <1>2, <1>9, <1>10, <2>1
    <2>2. CASE r # x /\ s # x
      <3>1. PICK f \in T : /\ r.id = f.id
                           /\ f.info.file = j.file => r = Down(f)
                           /\ f.info.file # j.file => r = f
        BY <1>7, <2>2
      <3>2. PICK g \in T : /\ s.id = g.id
                           /\ g.info.file = j.file => s = Down(g)
                           /\ g.info.file # j.file => s = g
        BY <1>7, <2>2
      <3>3. f = g
        BY <1>10, <3>1, <3>2 DEF Ranked
      <3> QED
        BY <3>1, <3>2, <3>3
    <2> QED
      BY <2>1, <2>2
  <1>11. ASSUME NEW r \in R
         PROVE  \E z \in R : z.info.file = r.info.file /\ z.info.cur
    <2>1. CASE r.info.file = j.file
      BY <1>2, <1>6, <2>1
    <2>2. CASE r.info.file # j.file
      <3>1. r \in T
        BY <1>2, <1>7, <2>2
      <3>2. PICK z \in T : z.info.file = r.info.file /\ z.info.cur
        BY <3>1 DEF Ranked
      <3> QED
        BY <1>8, <2>2, <3>2
    <2> QED
      BY <2>1, <2>2
  <1>12. ASSUME NEW r \in R, NEW s \in R, r.info.cur, r.info.file = s.info.file
         PROVE  s.id <= r.id
    <2>1. CASE r = x
      BY <1>2, <1>9, <2>1
    <2>2. CASE r # x
      <3>1. PICK f \in T : /\ r.info.file = f.info.file
                           /\ f.info.file = j.file => r.info.cur = FALSE
                           /\ f.info.file # j.file => r = f
        BY <1>7, <2>2
      <3>2. r \in T /\ r.info.file # j.file
        BY <1>12, <3>1
      <3>3. s # x /\ s.info.file # j.file
        BY <1>2, <1>12, <3>2
      <3>4. s \in T
        <4>1. PICK g \in T : /\ s.info.file = g.info.file
                             /\ g.info.file # j.file => s = g
          BY <1>7, <3>3
        <4> QED
          BY <3>3, <4>1
      <3> QED
        BY <1>12, <3>2, <3>4 DEF Ranked
    <2> QED
      BY <2>1, <2>2
  <1>13. \A r \in R : r \in Rows /\ r.id < n + 1
    BY <1>2, <1>9
  <1> QED
    BY <1>10, <1>11, <1>12, <1>13 DEF Ranked

\* What becomes of a row when an upload j is committed.
After(f, j) == IF f.info.file = j.file THEN Down(f) ELSE f

LEMMA AfterIs ==
  ASSUME NEW f \in Rows, NEW j
  PROVE  /\ After(f, j) \in Rows /\ After(f, j).id = f.id
         /\ After(f, j).info.chunks = f.info.chunks
         /\ [After(f, j).info EXCEPT !.cur = TRUE] = [f.info EXCEPT !.cur = TRUE]
  BY DownIs DEF After

LEMMA UploadedRows ==
  ASSUME NEW T, NEW n \in Nat, Ranked(T, n), NEW j,
         NEW ids, ids = {f.id : f \in {g \in T : g.info.file = j.file}}
  PROVE  Uploaded(T, n, j, ids) = {After(f, j) : f \in T} \cup {[id |-> n, info |-> j]}
  <1>1. PICK x : x = [id |-> n, info |-> j]
    OBVIOUS
  <1>2. \A f \in T : f.id \in Nat /\ f.id < n
    BY DEF Ranked, Rows
  <1>3. x.id \notin ids
    BY <1>1, <1>2
  <1>4. \A f \in T : f.id \in ids <=> f.info.file = j.file
    BY DEF Ranked
  <1>5. \A f \in T : (IF f.id \in ids THEN Down(f) ELSE f) = After(f, j)
    BY <1>4 DEF After
  <1>6. Uploaded(T, n, j, ids) = {IF f.id \in ids THEN Down(f) ELSE f : f \in T \cup {x}}
    BY <1>1 DEF Uploaded
  <1>7. Uploaded(T, n, j, ids) = {After(f, j) : f \in T} \cup {x}
    BY <1>3, <1>5, <1>6
  <1> QED
    BY <1>1, <1>7

LEMMA AfterCount ==
  ASSUME NEW S \in SUBSET Rows, IsFiniteSet(S), \A x, y \in S : x.id = y.id => x = y, NEW j
  PROVE  /\ IsFiniteSet({After(f, j) : f \in S})
         /\ Cardinality({After(f, j) : f \in S}) = Cardinality(S)
  <1> DEFINE A == {After(f, j) : f \in S}
             b == [f \in S |-> After(f, j)]
  <1>1. \A f \in S : b[f] \in A /\ b[f].id = f.id
    BY AfterIs
  <1>2. \A r \in A : \E f \in S : b[f] = r
    OBVIOUS
  <1>3. b \in [S -> A]
    BY <1>1
  <1> HIDE DEF A, b
  <1>4. b \in Bijection(S, A)
    BY <1>1, <1>2, <1>3 DEF Bijection, Injection, Surjection, IsInjective
  <1>5. IsFiniteSet(A) /\ Cardinality(A) = Cardinality(S)
    BY <1>4, FS_Bijection DEF ExistsBijection
  <1> QED
    BY <1>5 DEF A

\* An upload adds a row with the next number; the others keep theirs.
LEMMA RanksAfter ==
  ASSUME NEW T, NEW n \in Nat \ {0}, Ranked(T, n), IsFiniteSet(T), NEW j,
         NEW R, R = {After(f, j) : f \in T} \cup {[id |-> n, info |-> j]}
  PROVE  /\ IsFiniteSet(R) /\ Cardinality(T) \in Nat /\ Cardinality(R) = Cardinality(T) + 1
         /\ \A f \in T : RankIn(R, After(f, j)) = RankIn(T, f)
         /\ RankIn(R, [id |-> n, info |-> j]) = Cardinality(T) + 1
  <1>1. PICK x : x = [id |-> n, info |-> j]
    OBVIOUS
  <1>2. /\ \A f \in T : f \in Rows /\ f.id \in Nat /\ f.id < n
        /\ \A f, g \in T : f.id = g.id => f = g
    BY DEF Ranked, Rows
  <1>3. \A f \in T : After(f, j).id = f.id
    BY <1>2, AfterIs
  <1>4. PICK A : A = {After(f, j) : f \in T}
    OBVIOUS
  <1>5. IsFiniteSet(A) /\ Cardinality(A) = Cardinality(T) /\ Cardinality(T) \in Nat
    BY <1>2, <1>4, AfterCount, FS_CardinalityType
  <1>6. x \notin A /\ x.id = n
    <2>1. \A r \in A : r.id \in Nat /\ r.id < n
      BY <1>2, <1>3, <1>4
    <2>2. x.id = n
      BY <1>1
    <2> QED
      BY <2>1, <2>2
  <1>7. R = A \cup {x}
    BY <1>1, <1>4
  <1>8. IsFiniteSet(R) /\ Cardinality(R) = Cardinality(T) + 1
    <2>1. IsFiniteSet(A \cup {x}) /\ Cardinality(A \cup {x}) = Cardinality(A) + 1
      BY <1>5, <1>6, FS_AddElement
    <2> QED
      BY <1>5, <1>7, <2>1
  <1>9. ASSUME NEW f \in T
        PROVE  RankIn(R, After(f, j)) = RankIn(T, f)
    <2>1. PICK S : S = {g \in T : g.id <= f.id}
      OBVIOUS
    <2>2. S \in SUBSET T
      BY <2>1
    <2>3. IsFiniteSet(S)
      BY <2>2, FS_Subset
    <2>4. Cardinality({After(g, j) : g \in S}) = Cardinality(S)
      BY <1>2, <2>2, <2>3, AfterCount
    <2>5. {r \in R : r.id <= f.id} = {After(g, j) : g \in S}
      <3>1. ASSUME NEW r \in R, r.id <= f.id
            PROVE  r \in {After(g, j) : g \in S}
        <4>1. r # x
          BY <1>2, <1>6, <3>1
        <4>2. PICK g \in T : r = After(g, j)
          BY <1>4, <1>7, <4>1
        <4>3. g \in S
          BY <1>3, <2>1, <3>1, <4>2
        <4> QED
          BY <4>2, <4>3
      <3>2. ASSUME NEW g \in S
            PROVE  After(g, j) \in R /\ After(g, j).id <= f.id
        BY <1>3, <1>4, <1>7, <2>1
      <3> QED
        BY <3>1, <3>2
    <2> QED
      BY <1>3, <2>1, <2>4, <2>5 DEF RankIn
  <1>10. RankIn(R, x) = Cardinality(T) + 1
    <2>1. \A r \in R : r.id <= x.id
      BY <1>2, <1>3, <1>4, <1>6, <1>7
    <2>2. {r \in R : r.id <= x.id} = R
      BY <2>1
    <2> QED
      BY <1>8, <2>2 DEF RankIn
  <1> QED
    BY <1>1, <1>5, <1>8, <1>9, <1>10

LEMMA UploadIsWhole ==
  ASSUME NEW n \in Nat \ {0}, Whole(n), NEW j \in FileInfo, j.cur,
         files' = Uploaded(files, n, j, IdsOf(j.file)),
         versions' = versions \cup Chunks(n, j.chunks, Len(j.chunks))
  PROVE  /\ files' = {After(f, j) : f \in files} \cup {[id |-> n, info |-> j]}
         /\ Whole(n + 1)'
  <1>1. /\ Ranked(files, n) /\ IsFiniteSet(files)
        /\ \A v \in versions : v.row \in Nat /\ v.row < n /\ v.chunk \in Nat /\ v.order \in Nat
    BY DEF Whole
  <1>2. PICK x : x = [id |-> n, info |-> j]
    OBVIOUS
  <1>3. files' = {After(f, j) : f \in files} \cup {x}
    BY <1>1, <1>2, UploadedRows DEF IdsOf
  <1>4. Ranked(files', n + 1)
    BY <1>1, NewIsCurrent DEF IdsOf
  <1>5. IsFiniteSet(files')
    BY <1>1, <1>2, <1>3, RanksAfter
  <1>6. j.chunks \in Seq(Nat)
    BY DEF FileInfo
  <1>7. \A v \in Chunks(n, j.chunks, Len(j.chunks)) :
          v.row = n /\ v.chunk \in Nat /\ v.order \in Nat
    <2>1. \A k \in 1 .. Len(j.chunks) : j.chunks[k] \in Nat /\ k \in Nat
      BY <1>6
    <2> QED
      BY <2>1 DEF Chunks
  <1>8. \A v \in versions' : v.row \in Nat /\ v.row < n + 1 /\ v.chunk \in Nat /\ v.order \in Nat
    BY <1>1, <1>7
  <1>9. ASSUME NEW r \in files'
        PROVE  {v \in versions' : v.row = r.id} = Chunks(r.id, r.info.chunks, Len(r.info.chunks))
    <2>1. CASE r = x
      <3>1. r.id = n /\ r.info = j
        BY <1>2, <2>1
      <3>2. {v \in versions' : v.row = n} = Chunks(n, j.chunks, Len(j.chunks))
        BY <1>1, <1>7
      <3> QED
        BY <3>1, <3>2
    <2>2. CASE r # x
      <3>1. PICK f \in files : r = After(f, j)
        BY <1>3, <2>2
      <3>2. f \in Rows /\ f.id \in Nat /\ f.id < n
        BY <1>1 DEF Ranked, Rows
      <3>3. r.id = f.id /\ r.info.chunks = f.info.chunks
        BY <3>1, <3>2, AfterIs
      <3>4. {v \in versions' : v.row = f.id} = VersionsOf(f.id)
        BY <1>7, <3>2 DEF VersionsOf
      <3>5. VersionsOf(f.id) = Chunks(f.id, f.info.chunks, Len(f.info.chunks))
        BY DEF Whole
      <3> QED
        BY <3>3, <3>4, <3>5
    <2> QED
      BY <2>1, <2>2
  <1>10. Whole(n + 1)'
    BY <1>4, <1>5, <1>8, <1>9 DEF Whole, VersionsOf
  <1> QED
    BY <1>2, <1>3, <1>10

LEMMA WholeLater ==
  ASSUME NEW n \in Nat, Whole(n)
  PROVE  Whole(n + 1)
  <1>1. \A x \in files : x.id \in Nat
    BY DEF Whole, Ranked, Rows
  <1>2. Ranked(files, n + 1)
    BY <1>1 DEF Whole, Ranked
  <1> QED
    BY <1>2 DEF Whole

-------------------------------------------------------------------------------
(* The statements of an upload                                             *)

\* The tables are as they were, and no upload has a transaction.
LEMMA AtRest ==
  ASSUME NEW w, FilesInv(w), UNCHANGED <<files, versions, nextId, acked>>, Typed',
         pc'[w] \in {"idle", "connect", "begin"} \/ serving'[w] # "upload"
  PROVE  FilesInv(w)'
  <1>1. Whole(nextId)'
    BY DEF FilesInv, Whole, VersionsOf
  <1>2. SavedAre(files)'
    BY DEF FilesInv, SavedAre
  <1>3. Uploading(w)'
    BY DEF Uploading
  <1> QED
    BY <1>1, <1>2, <1>3 DEF FilesInv

\* The connection in use changes and has an open transaction.
LEMMA StaysOpen ==
  ASSUME ServerInv, NEW w, Cur(w) # 0, NEW x, x.tx = "open",
         conn' = [conn EXCEPT ![Cur(w)] = x], UNCHANGED <<cur, serving>>
  PROVE  InTransaction(w)' /\ conn'[Cur(w)'] = x
  <1>1. PICK i : i = Cur(w)
    OBVIOUS
  <1>2. i \in DOMAIN conn /\ i # 0
    BY <1>1, CurIsThere
  <1>3. Cur(w)' = i
    BY <1>1 DEF Cur, Db
  <1>4. conn'[i] = x
    BY <1>1, <1>2 DEF ServerInv, Connections, IsSequence
  <1> QED
    BY <1>2, <1>3, <1>4 DEF InTransaction

\* A statement of the transaction: what it changes is added.
LEMMA WorksOpen ==
  ASSUME ServerInv, NEW w, InTransaction(w), NEW changes, Works(w, changes), UNCHANGED serving
  PROVE  InTransaction(w)' /\ conn'[Cur(w)'].work = conn[Cur(w)].work \cup changes
  <1>1. PICK c : c = conn[Cur(w)]
    OBVIOUS
  <1>2. Cur(w) # 0 /\ Cur(w) \in DOMAIN conn /\ c.tx = "open"
    BY <1>1, CurIsThere DEF InTransaction
  <1>3. IsConn(c)
    BY <1>1, <1>2 DEF ServerInv, Connections
  <1>4. PICK x : x = [c EXCEPT !.work = @ \cup changes]
    OBVIOUS
  <1>5. x.tx = "open" /\ x.work = c.work \cup changes
    BY <1>2, <1>3, <1>4 DEF IsConn
  <1>6. conn' = [conn EXCEPT ![Cur(w)] = x] /\ UNCHANGED cur
    BY <1>1, <1>4 DEF Works
  <1> QED
    BY <1>1, <1>2, <1>5, <1>6, StaysOpen

LEMMA PrepareKeepsFiles ==
  ASSUME ServerInv, NEW w, Only(w), FilesInv(w), PrepareUpload(w)
  PROVE  FilesInv(w)'
  <1>1. UNCHANGED <<files, versions, nextId, acked, todo, job, row, done>>
    BY DEF PrepareUpload, uploadVars, tables, locals
  <1>2. Typed'
    BY <1>1 DEF FilesInv, Typed
  <1>3. serving' = serving
    BY DEF PrepareUpload, Is
  <1>4. ASSUME NEW text, Answers(w, text)
        PROVE  FilesInv(w)'
    <2>1. pc'[w] = "idle"
      BY <1>4, Goes DEF Answers, ServerInv, Points, Only
    <2> QED
      BY <1>1, <1>2, <2>1, AtRest
  <1>5. ASSUME InTransaction(w)', NEW next \in {"savepoint", "update"}, Goto(w, next)
        PROVE  FilesInv(w)'
    <2>1. pc'[w] = next
      BY <1>5, Goes DEF ServerInv, Points, Only
    <2>2. Uploading(w)'
      BY <1>5, <2>1 DEF Uploading
    <2>3. Whole(nextId)' /\ SavedAre(files)'
      BY <1>1 DEF FilesInv, Whole, VersionsOf, SavedAre
    <2> QED
      BY <1>2, <2>2, <2>3 DEF FilesInv
  <1>6. CASE \E at \in {"begin", "savepoint", "insert", "select", "version"} :
               Is(w, "upload", at) /\ Fails(w, Failure)
    BY <1>4, <1>6 DEF Fails
  <1>7. CASE Connect(w, "begin")
    <2>1. CASE Goto(w, "begin")
      <3>1. pc'[w] = "begin"
        BY <2>1, Goes DEF ServerInv, Points, Only
      <3> QED
        BY <1>1, <1>2, <3>1, AtRest
    <2> QED
      BY <1>4, <1>7, <2>1 DEF Connect
  <1>8. CASE /\ Usable(w)
             /\ conn' = [conn EXCEPT ![Cur(w)].tx = "open"]
             /\ Goto(w, "savepoint")
             /\ UNCHANGED <<cur, answer>>
    <2>1. PICK c : c = conn[Cur(w)]
      OBVIOUS
    <2>2. Cur(w) # 0 /\ IsConn(c)
      BY <1>8, <2>1, CurIsThere DEF Usable, ServerInv, Connections
    <2>3. PICK x : x = [c EXCEPT !.tx = "open"]
      OBVIOUS
    <2>4. x.tx = "open" /\ conn' = [conn EXCEPT ![Cur(w)] = x]
      BY <1>8, <2>1, <2>2, <2>3 DEF IsConn
    <2>5. InTransaction(w)'
      BY <1>3, <1>8, <2>2, <2>4, StaysOpen
    <2> QED
      BY <1>5, <1>8, <2>5
  <1>9. CASE /\ InTransaction(w)
             /\ conn' = [conn EXCEPT ![Cur(w)].saved = TRUE, ![Cur(w)].save = conn[Cur(w)].work]
             /\ Goto(w, "update")
             /\ UNCHANGED <<cur, answer>>
    <2>1. PICK c : c = conn[Cur(w)]
      OBVIOUS
    <2>2. Cur(w) # 0 /\ IsConn(c) /\ c.tx = "open"
      BY <1>9, <2>1, CurIsThere DEF InTransaction, ServerInv, Connections
    <2>3. PICK x : x = [c EXCEPT !.saved = TRUE, !.save = c.work]
      OBVIOUS
    <2>4. x.tx = "open"
      BY <2>2, <2>3 DEF IsConn
    <2>5. conn' = [conn EXCEPT ![Cur(w)] = x]
      BY <1>9, <2>1, <2>2, <2>3, CurIsThere
    <2>6. InTransaction(w)'
      BY <1>3, <1>9, <2>2, <2>4, <2>5, StaysOpen
    <2> QED
      BY <1>5, <1>9, <2>6
  <1>10. CASE Is(w, "upload", "savepoint") /\ Answers(w, Failure)
    BY <1>4, <1>10
  <1> QED
    BY <1>6, <1>7, <1>8, <1>9, <1>10 DEF PrepareUpload, Begin, Savepoint

LEMMA UpdateKeepsFiles ==
  ASSUME ServerInv, NEW w, Only(w), FilesInv(w), UpdateOld(w)
  PROVE  FilesInv(w)'
  <1>1. /\ UNCHANGED <<nextId, job, row, done, todo, acked>>
        /\ serving' = serving /\ serving[w] = "upload" /\ pc[w] = "update"
    BY DEF UpdateOld, locals, Is, Writes
  <1>2. Typed'
    BY <1>1 DEF FilesInv, Typed
  <1>3. InTransaction(w)
    BY <1>1 DEF FilesInv, Uploading
  <1>4. CASE Fails(w, Failure) /\ UNCHANGED <<files, versions>>
    <2>1. pc'[w] = "idle"
      BY <1>4, Goes DEF Fails, Answers, ServerInv, Points, Only
    <2> QED
      BY <1>1, <1>2, <1>4, <2>1, AtRest
  <1>5. CASE Writes(w, TakeDown(SeenIds(w)), "insert")
    <2>1. conn[Cur(w)].work = {}
      BY <1>1, <1>3, CurIsThere, NothingYet DEF InTransaction, Dirty
    <2>2. FilesWith({}) = files
      BY DEF FilesWith, Of
    <2>3. SeenIds(w) = IdsOf(job[w].file)
      BY <2>1, <2>2 DEF SeenIds, IdsOf
    <2>4. UNCHANGED <<files, versions>>
      BY <1>3, <1>5 DEF Writes
    <2>5. IdsOf(job[w].file)' = IdsOf(job[w].file)
      BY <1>1, <2>4 DEF IdsOf
    <2>6. /\ InTransaction(w)'
          /\ conn'[Cur(w)'].work = TakeDown(IdsOf(job[w].file))
      BY <1>1, <1>3, <1>5, <2>1, <2>3, WorksOpen DEF Writes
    <2>7. pc'[w] = "insert"
      BY <1>5, Goes DEF Writes, ServerInv, Points, Dirty, Only
    <2>8. TakeDown(IdsOf(job[w].file))' = TakeDown(IdsOf(job[w].file))
      BY <2>5 DEF TakeDown
    <2>9. Uploading(w)'
      BY <2>6, <2>7, <2>8 DEF Uploading
    <2>10. Whole(nextId)' /\ SavedAre(files)'
      BY <1>1, <2>4 DEF FilesInv, Whole, VersionsOf, SavedAre
    <2> QED
      BY <1>2, <2>9, <2>10 DEF FilesInv
  <1> QED
    BY <1>4, <1>5 DEF UpdateOld

LEMMA InsertKeepsFiles ==
  ASSUME ServerInv, NEW w, Only(w), FilesInv(w), InsertNew(w)
  PROVE  FilesInv(w)'
  <1>1. /\ UNCHANGED <<job, row, done, todo, acked>>
        /\ serving' = serving /\ serving[w] = "upload" /\ pc[w] = "insert"
    BY DEF InsertNew, locals, Is, Writes
  <1>2. InTransaction(w) /\ conn[Cur(w)].work = TakeDown(IdsOf(job[w].file))
    BY <1>1 DEF FilesInv, Uploading
  <1>3. UNCHANGED <<files, versions>>
    BY <1>2 DEF InsertNew, Writes
  <1>4. PICK n, j : n = nextId /\ j = job[w]
    OBVIOUS
  <1>5. n \in Nat \ {0} /\ nextId' = n + 1 /\ job'[w] = j /\ Whole(n)
    BY <1>1, <1>4 DEF InsertNew, FilesInv, Typed
  <1>6. Typed'
    BY <1>1, <1>5 DEF FilesInv, Typed
  <1>7. Whole(n)' /\ Whole(n + 1)'
    <2>1. Whole(n + 1)
      BY <1>5, WholeLater
    <2> QED
      BY <1>3, <1>5, <2>1 DEF Whole, VersionsOf
  <1>8. InTransaction(w)' /\ conn'[Cur(w)'].work = TakeDown(IdsOf(j.file)) \cup NewFile(n, j)
    BY <1>1, <1>2, <1>4, WorksOpen DEF InsertNew, Writes
  <1>9. conn'[Cur(w)'].work = Changes(n, j, 0)'
    <2>1. NewVersions(n, j.chunks, 0) = {}
      BY DEF NewVersions
    <2>2. Changes(n, j, 0) = TakeDown(IdsOf(j.file)) \cup NewFile(n, j)
      BY <2>1 DEF Changes
    <2>3. Changes(n, j, 0)' = Changes(n, j, 0)
      BY <1>3 DEF Changes, IdsOf, TakeDown, NewFile, NewVersions
    <2> QED
      BY <1>8, <2>2, <2>3
  <1>10. pc'[w] = "select"
    BY Goes DEF InsertNew, Writes, ServerInv, Points, Dirty, Only
  <1>11. n \in 1 .. nextId'
    BY <1>5
  <1>12. Uploading(w)'
    BY <1>5, <1>7, <1>8, <1>9, <1>10, <1>11 DEF Uploading
  <1>13. Whole(nextId)' /\ SavedAre(files)'
    BY <1>1, <1>3, <1>5, <1>7 DEF FilesInv, SavedAre
  <1> QED
    BY <1>6, <1>12, <1>13 DEF FilesInv

\* The row the upload has just inserted is the last of its file.
LEMMA NewestIs ==
  ASSUME NEW w, NEW n \in Nat \ {0}, Whole(n), NEW j \in FileInfo, j.cur, j = job[w],
         conn[Cur(w)].work = Changes(n, j, 0)
  PROVE  SeenIds(w) # {} /\ Max(SeenIds(w)) = n
  <1>1. PICK R : R = Uploaded(files, n, j, IdsOf(j.file))
    OBVIOUS
  <1>2. FilesWith(conn[Cur(w)].work) = R
    BY <1>1, TablesWithUpload
  <1>3. Ranked(R, n + 1)
    BY <1>1, NewIsCurrent DEF Whole, IdsOf
  <1>4. PICK x : x = [id |-> n, info |-> j]
    OBVIOUS
  <1>5. x \in R /\ x.id = n /\ x.info.file = j.file
    BY <1>1, <1>4, UploadedRows DEF Whole, IdsOf
  <1>6. PICK S : S = {f.id : f \in {g \in R : g.info.file = j.file}}
    OBVIOUS
  <1>7. n \in S
    BY <1>5, <1>6
  <1>8. \A s \in S : s \in Nat /\ n >= s
    <2>1. \A r \in R : r.id \in Nat /\ n >= r.id
      BY <1>3 DEF Ranked, Rows
    <2> QED
      BY <1>6, <2>1
  <1>9. Max(S) \in S /\ \A s \in S : Max(S) >= s
    <2>1. \E m \in S : \A s \in S : m >= s
      BY <1>7, <1>8
    <2> QED
      BY <2>1 DEF Max
  <1>10. SeenIds(w) = S
    BY <1>2, <1>6 DEF SeenIds
  <1>11. n >= Max(S) /\ Max(S) >= n /\ Max(S) \in Nat
    BY <1>7, <1>8, <1>9
  <1> QED
    BY <1>7, <1>10, <1>11

LEMMA SelectKeepsFiles ==
  ASSUME ServerInv, NEW w, Only(w), FilesInv(w), SelectId(w)
  PROVE  FilesInv(w)'
  <1>1. serving' = serving /\ serving[w] = "upload" /\ pc[w] = "select"
    BY DEF SelectId, Is
  <1>2. CASE Stop /\ UNCHANGED uploadVars
    <2>1. pc'[w] = "idle"
      BY <1>2 DEF Stop, Only
    <2>2. UNCHANGED <<files, versions, nextId, acked, todo, job, row, done>>
      BY <1>2 DEF uploadVars, tables, locals
    <2>3. Typed'
      BY <2>2 DEF FilesInv, Typed
    <2> QED
      BY <2>1, <2>2, <2>3, AtRest
  <1>3. CASE /\ Reads(w, "version")
             /\ row' = [row EXCEPT ![w] = Max(SeenIds(w))]
             /\ done' = [done EXCEPT ![w] = 0]
             /\ UNCHANGED <<tables, todo, job, acked>>
    <2>1. UNCHANGED <<files, versions, nextId, todo, job, acked, conn, cur>>
      BY <1>3 DEF tables, Reads
    <2>2. InTransaction(w)
      BY <1>1 DEF FilesInv, Uploading
    <2>3. PICK n \in 1 .. nextId :
             nextId = n + 1 /\ Whole(n) /\ conn[Cur(w)].work = Changes(n, job[w], 0)
      BY <1>1 DEF FilesInv, Uploading
    <2>4. PICK j : j = job[w]
      OBVIOUS
    <2>5. n \in Nat \ {0} /\ j \in FileInfo /\ j.cur
      BY <2>3, <2>4, UploadsAssumption DEF FilesInv, Typed, Only
    <2>6. Max(SeenIds(w)) = n
      BY <2>3, <2>4, <2>5, NewestIs
    <2>7. row'[w] = n /\ done'[w] = 0 /\ row' \in [Workers -> Nat] /\ done' \in [Workers -> Nat]
      BY <1>3, <2>5, <2>6 DEF FilesInv, Typed, Only
    <2>8. Typed'
      BY <2>1, <2>7 DEF FilesInv, Typed
    <2>9. InTransaction(w)' /\ conn'[Cur(w)'].work = Changes(n, j, 0)
      BY <1>1, <2>1, <2>2, <2>3, <2>4 DEF InTransaction, Cur, Db
    <2>10. Changes(n, j, 0)' = Changes(n, j, 0)
      BY <2>1 DEF Changes, IdsOf, TakeDown, NewFile, NewVersions
    <2>11. pc'[w] = "version"
      BY <1>3, Goes DEF Reads, ServerInv, Points, Dirty, Only
    <2>12. job'[w] = j /\ 0 <= Len(j.chunks)
      BY <2>1, <2>4, <2>5 DEF FileInfo
    <2>13. Whole(n)' /\ Whole(nextId)' /\ SavedAre(files)'
      BY <2>1, <2>3 DEF FilesInv, Whole, VersionsOf, SavedAre
    <2>14. n \in 1 .. nextId' /\ nextId' = n + 1
      BY <2>1, <2>3
    <2>15. Uploading(w)'
      BY <2>7, <2>9, <2>10, <2>11, <2>12, <2>13, <2>14 DEF Uploading
    <2> QED
      BY <2>8, <2>13, <2>15 DEF FilesInv
  <1> QED
    BY <1>2, <1>3 DEF SelectId

LEMMA VersionKeepsFiles ==
  ASSUME ServerInv, NEW w, Only(w), FilesInv(w), InsertVersion(w)
  PROVE  FilesInv(w)'
  <1>1. /\ UNCHANGED <<nextId, job, row, todo, acked>>
        /\ serving' = serving /\ serving[w] = "upload" /\ pc[w] = "version"
        /\ done[w] < Len(job[w].chunks) /\ done' = [done EXCEPT ![w] = @ + 1]
    BY DEF InsertVersion, Is, Writes
  <1>2. InTransaction(w)
    BY <1>1 DEF FilesInv, Uploading
  <1>3. UNCHANGED <<files, versions>>
    BY <1>2 DEF InsertVersion, Writes
  <1>4. PICK n \in 1 .. nextId :
           /\ nextId = n + 1 /\ Whole(n) /\ row[w] = n
           /\ conn[Cur(w)].work = Changes(n, job[w], done[w])
    BY <1>1 DEF FilesInv, Uploading
  <1>5. PICK j, d : j = job[w] /\ d = done[w]
    OBVIOUS
  <1>6. d \in Nat /\ j \in FileInfo /\ Len(j.chunks) \in Nat /\ d < Len(j.chunks)
    BY <1>1, <1>5, UploadsAssumption DEF FilesInv, Typed, Only, FileInfo
  <1>7. done'[w] = d + 1 /\ done' \in [Workers -> Nat] /\ job'[w] = j /\ row'[w] = n
    BY <1>1, <1>4, <1>5, <1>6 DEF FilesInv, Typed, Only
  <1>8. Typed'
    BY <1>1, <1>7 DEF FilesInv, Typed
  <1>9. Works(w, NewVersion(n, j.chunks[d + 1], d + 1))
    BY <1>4, <1>5 DEF InsertVersion, Writes
  <1>10. /\ InTransaction(w)'
         /\ conn'[Cur(w)'].work = Changes(n, j, d) \cup NewVersion(n, j.chunks[d + 1], d + 1)
    BY <1>1, <1>2, <1>4, <1>5, <1>9, WorksOpen
  <1>11. NewVersions(n, j.chunks, d + 1)
           = NewVersions(n, j.chunks, d) \cup NewVersion(n, j.chunks[d + 1], d + 1)
    <2>1. 1 .. d + 1 = (1 .. d) \cup {d + 1}
      BY <1>6
    <2> QED
      BY <2>1 DEF NewVersions, NewVersion
  <1>12. Changes(n, j, d + 1)
           = Changes(n, j, d) \cup NewVersion(n, j.chunks[d + 1], d + 1)
    BY <1>11 DEF Changes
  <1>13. Changes(n, j, d + 1)' = Changes(n, j, d + 1)
    BY <1>3 DEF Changes, IdsOf, TakeDown, NewFile, NewVersions
  <1>14. pc'[w] = "version"
    BY Goes DEF InsertVersion, Writes, ServerInv, Points, Dirty, Only
  <1>15. Whole(n)' /\ Whole(nextId)' /\ SavedAre(files)'
    BY <1>1, <1>3, <1>4 DEF FilesInv, Whole, VersionsOf, SavedAre
  <1>16. n \in 1 .. nextId' /\ nextId' = n + 1 /\ d + 1 <= Len(j.chunks)
    BY <1>1, <1>4, <1>6
  <1>17. Uploading(w)'
    BY <1>7, <1>10, <1>12, <1>13, <1>14, <1>15, <1>16 DEF Uploading
  <1> QED
    BY <1>8, <1>15, <1>17 DEF FilesInv

\* What a commit makes of the tables.
LEMMA CommitIsUpload ==
  ASSUME ServerInv, NEW w, Only(w), FilesInv(w), CommitWork(w)
  PROVE  \E n \in Nat \ {0}, j \in Uploads :
           /\ nextId' = n + 1 /\ Whole(n) /\ Whole(n + 1)'
           /\ j = job[w] /\ j \in FileInfo /\ j.cur
           /\ files' = {After(f, j) : f \in files} \cup {[id |-> n, info |-> j]}
  <1>1. nextId' = nextId /\ serving[w] = "upload" /\ pc[w] = "version"
    BY DEF CommitWork, Is
  <1>2. PICK n \in 1 .. nextId :
           /\ nextId = n + 1 /\ Whole(n)
           /\ conn[Cur(w)].work = Changes(n, job[w], done[w])
    BY <1>1 DEF FilesInv, Uploading
  <1>3. PICK j : j = job[w]
    OBVIOUS
  <1>4. n \in Nat \ {0} /\ j \in Uploads /\ j \in FileInfo /\ j.cur /\ done[w] = Len(j.chunks)
    BY <1>2, <1>3, UploadsAssumption DEF FilesInv, Typed, Only, CommitWork
  <1>5. /\ files' = FilesWith(Changes(n, j, Len(j.chunks)))
        /\ versions' = VersionsWith(Changes(n, j, Len(j.chunks)))
    BY <1>2, <1>3, <1>4 DEF CommitWork
  <1>6. /\ files' = Uploaded(files, n, j, IdsOf(j.file))
        /\ versions' = versions \cup Chunks(n, j.chunks, Len(j.chunks))
    BY <1>5, TablesWithUpload
  <1>7. /\ files' = {After(f, j) : f \in files} \cup {[id |-> n, info |-> j]}
        /\ Whole(n + 1)'
    BY <1>2, <1>4, <1>6, UploadIsWhole
  <1> QED
    BY <1>1, <1>2, <1>3, <1>4, <1>7

LEMMA CommitKeepsFiles ==
  ASSUME ServerInv, NEW w, Only(w), FilesInv(w), CommitWork(w)
  PROVE  FilesInv(w)'
  <1>1. PICK n \in Nat \ {0}, j \in Uploads :
           /\ nextId' = n + 1 /\ Whole(n) /\ Whole(n + 1)'
           /\ j = job[w] /\ j \in FileInfo /\ j.cur
           /\ files' = {After(f, j) : f \in files} \cup {[id |-> n, info |-> j]}
    BY CommitIsUpload
  <1>2. UNCHANGED <<job, row, done, todo>> /\ acked' \subseteq acked \cup {j}
    BY <1>1 DEF CommitWork, locals
  <1>3. Typed'
    BY <1>1, <1>2 DEF CommitWork, FilesInv, Typed
  <1>4. SavedAre(files)'
    <2> SUFFICES ASSUME NEW u \in acked'
                 PROVE  \E f \in files' : [f.info EXCEPT !.cur = TRUE] = u
      BY DEF SavedAre
    <2>1. CASE u \in acked
      <3>1. PICK f \in files : [f.info EXCEPT !.cur = TRUE] = u
        BY <2>1 DEF FilesInv, SavedAre
      <3>2. f \in Rows
        BY <1>1 DEF Whole, Ranked
      <3>3. After(f, j) \in files' /\ [After(f, j).info EXCEPT !.cur = TRUE] = u
        BY <1>1, <3>1, <3>2, AfterIs
      <3> QED
        BY <3>3
    <2>2. CASE u = j
      <3>1. PICK x : x = [id |-> n, info |-> j]
        OBVIOUS
      <3>2. x \in files' /\ x.info = j
        BY <1>1, <3>1
      <3>3. [j EXCEPT !.cur = TRUE] = j
        BY <1>1 DEF FileInfo
      <3> QED
        BY <2>2, <3>2, <3>3
    <2> QED
      BY <1>2, <2>1, <2>2
  <1>5. pc'[w] = "idle"
    BY Goes DEF CommitWork, Commit, Answers, ServerInv, Points, Only
  <1>6. Uploading(w)'
    BY <1>5 DEF Uploading
  <1>7. Whole(nextId)'
    BY <1>1
  <1> QED
    BY <1>3, <1>4, <1>6, <1>7 DEF FilesInv

-------------------------------------------------------------------------------
(* The invariant                                                           *)

LEMMA OthersKeepFiles ==
  ASSUME NEW w, FilesInv(w), AccountStep(w) \/ RefreshStep(w), UNCHANGED uploadVars
  PROVE  FilesInv(w)'
  <1>1. UNCHANGED <<files, versions, nextId, acked, todo, job, row, done>>
    BY DEF uploadVars, tables, locals
  <1>2. Typed'
    BY <1>1 DEF FilesInv, Typed
  <1>3. serving'[w] # "upload"
    BY DEF AccountStep, PrepareAccount, CountUser, CheckPassword, InsertUser, SelectUser,
           CommitUser, RefreshStep, ConnectRefresh, SelectFiles, SelectChunks, FinishRefresh, Is
  <1> QED
    BY <1>1, <1>2, <1>3, AtRest

LEMMA ReceiveKeepsFiles ==
  ASSUME ServerInv, NEW w, Only(w), FilesInv(w), Receive(w)
  PROVE  FilesInv(w)'
  <1>1. UNCHANGED <<files, versions, nextId, acked>>
    BY DEF Receive, ReceiveUpload, uploadVars, tables
  <1>2. Typed'
    <2>1. CASE UNCHANGED uploadVars
      BY <2>1 DEF uploadVars, tables, locals, FilesInv, Typed
    <2>2. CASE ReceiveUpload(w)
      BY <2>2 DEF ReceiveUpload, tables, FilesInv, Typed
    <2> QED
      BY <2>1, <2>2 DEF Receive
  <1>3. pc'[w] = "connect"
    BY Goes DEF Receive, ReceiveAccount, ReceiveUpload, ReceiveRefresh, Receives, ServerInv,
                Points, Only
  <1> QED
    BY <1>1, <1>2, <1>3, AtRest

LEMMA FilesKept ==
  ASSUME ServerInv, NEW w, Only(w), FilesInv(w), [Next]_vars
  PROVE  FilesInv(w)'
  <1>1. CASE UNCHANGED <<session, uploadVars>>
    <2>1. UNCHANGED <<conn, cur, serving, pc, files, versions, nextId, acked, todo, job, row, done>>
      BY <1>1 DEF session, uploadVars, tables, locals
    <2>2. Typed' /\ SavedAre(files)'
      BY <2>1 DEF FilesInv, Typed, SavedAre
    <2>3. \A n : Whole(n) => Whole(n)'
      BY <2>1 DEF Whole, VersionsOf
    <2>4. \A n, j, d : Changes(n, j, d)' = Changes(n, j, d)
      BY <2>1 DEF Changes, IdsOf, TakeDown, NewFile, NewVersions
    <2>5. \A file : TakeDown(IdsOf(file))' = TakeDown(IdsOf(file))
      BY <2>1 DEF IdsOf, TakeDown
    <2>6. UNCHANGED <<Cur(w), InTransaction(w)>>
      BY <2>1 DEF InTransaction, Cur, Db
    <2>7. Uploading(w)'
      BY <2>1, <2>3, <2>4, <2>5, <2>6 DEF FilesInv, Uploading
    <2> QED
      BY <2>1, <2>2, <2>3, <2>7 DEF FilesInv
  <1>2. CASE Device
    BY <1>1, <1>2 DEF Device, Refresh, Answered, Unanswered
  <1>3. CASE Crash
    <2>1. pc'[w] = "idle"
      BY <1>3 DEF Crash, Stop, Only
    <2>2. UNCHANGED <<files, versions, nextId, acked, todo, job, row, done>>
      BY <1>3 DEF Crash, uploadVars, tables, locals
    <2>3. Typed'
      BY <2>2 DEF FilesInv, Typed
    <2> QED
      BY <2>1, <2>2, <2>3, AtRest
  <1>4. CASE Receive(w)
    BY <1>4, ReceiveKeepsFiles
  <1>5. CASE ServesAccount(w) \/ ServesRefresh(w)
    BY <1>5, OthersKeepFiles DEF ServesAccount, ServesRefresh
  <1>6. CASE ServesUpload(w)
    BY <1>6, PrepareKeepsFiles, UpdateKeepsFiles, InsertKeepsFiles, SelectKeepsFiles,
       VersionKeepsFiles, CommitKeepsFiles
       DEF ServesUpload, UploadStep
  <1>7. CASE UNCHANGED vars
    BY <1>1, <1>7 DEF vars
  <1> QED
    BY <1>2, <1>3, <1>4, <1>5, <1>6, <1>7 DEF Next, Step, Only

\* With one worker: tables Files and Version hold whole uploads, and of the one
\* under way its transaction holds what its statements so far have written
\* (MetaDataDB::InsertFile).
THEOREM FilesInvariant ==
  ASSUME NEW w, Only(w)
  PROVE  Spec => []FilesInv(w)
  <1>1. Init => FilesInv(w)
    <2> SUFFICES ASSUME Init PROVE FilesInv(w)
      OBVIOUS
    <2>1. Typed
      BY UploadsAssumption DEF Init, UploadInit, Typed, Nothing
    <2>2. Whole(nextId)
      BY FS_EmptySet DEF Init, UploadInit, Whole, Ranked
    <2>3. SavedAre(files) /\ Uploading(w)
      BY DEF Init, UploadInit, SessionInit, SavedAre, Uploading, Only
    <2> QED
      BY <2>1, <2>2, <2>3 DEF FilesInv
  <1>2. ServerInv /\ FilesInv(w) /\ [Next]_vars => FilesInv(w)'
    BY FilesKept
  <1> QED
    BY <1>1, <1>2, ServerInvariant, PTL DEF Spec

-------------------------------------------------------------------------------
(* What the clients are told                                               *)

LEMMA RankedIsCurrent ==
  ASSUME NEW n \in Nat, Ranked(files, n)
  PROVE  OneIsCurrent
  <1> SUFFICES ASSUME NEW x \in files, NEW f, f = x.info.file
               PROVE  {r.id : r \in {y \in files : y.info.file = f /\ y.info.cur}}
                        = {Max({r.id : r \in {y \in files : y.info.file = f}})}
    BY DEF OneIsCurrent
  <1>1. PICK z \in files : z.info.file = f /\ z.info.cur
    BY DEF Ranked
  <1>2. \A y \in files : y.id \in Nat
    BY DEF Ranked, Rows
  <1>3. \A y \in files : y.info.file = f => y.id <= z.id
    BY <1>1 DEF Ranked
  <1>4. PICK S : S = {r.id : r \in {y \in files : y.info.file = f}}
    OBVIOUS
  <1>5. z.id \in S /\ \A s \in S : s \in Nat /\ z.id >= s
    BY <1>1, <1>2, <1>3, <1>4
  <1>6. Max(S) = z.id
    <2>1. \E m \in S : \A s \in S : m >= s
      BY <1>5
    <2>2. Max(S) \in S /\ \A s \in S : Max(S) >= s
      BY <2>1 DEF Max
    <2>3. Max(S) >= z.id /\ z.id >= Max(S) /\ Max(S) \in Nat /\ z.id \in Nat
      BY <1>5, <2>2
    <2> QED
      BY <2>3
  <1>7. \A y \in files : y.info.file = f /\ y.info.cur => y.id = z.id
    <2> TAKE y \in files
    <2> HAVE y.info.file = f /\ y.info.cur
    <2>1. z.id <= y.id /\ y.id <= z.id
      BY <1>1, <1>3 DEF Ranked
    <2> QED
      BY <1>2, <2>1
  <1>8. {r.id : r \in {y \in files : y.info.file = f /\ y.info.cur}} = {z.id}
    BY <1>1, <1>7
  <1> QED
    BY <1>4, <1>6, <1>8

\* With one worker each file has one current version, the one saved last, though
\* uploads fail at any statement (MetaDataDB::InsertFile).
THEOREM SavedLastIsCurrent ==
  ASSUME NEW w, Only(w)
  PROVE  Spec => []OneIsCurrent
  <1>1. FilesInv(w) => OneIsCurrent
    BY RankedIsCurrent DEF FilesInv, Typed, Whole
  <1> QED
    BY <1>1, FilesInvariant, PTL

LEMMA ChunksAreListed ==
  ASSUME NEW n \in Nat, Whole(n), NEW f \in files
  PROVE  ChunksOf(f.id) = f.info.chunks
  <1>1. PICK c, i, vs : c = f.info.chunks /\ i = f.id /\ vs = VersionsOf(f.id)
    OBVIOUS
  <1>2. c \in Seq(Nat) /\ vs = Chunks(i, c, Len(c))
    BY <1>1 DEF Whole, Ranked, Rows, FileInfo
  <1>3. Listing(vs) = c
    BY <1>2, ListedInOrder
  <1>4. ChunksOf(i) = Listing(VersionsOf(i))
    BY DEF ChunksOf, Listing, VersionsOf
  <1> QED
    BY <1>1, <1>3, <1>4

\* The table in order, of these rows.
TableOf(T) ==
  [k \in 1 .. Cardinality(T) |->
     (CHOOSE f \in T : Cardinality({g \in T : g.id <= f.id}) = k).info]

\* Row k of it is the row with the kth id.
LEMMA TableIs ==
  ASSUME NEW T, NEW n, Ranked(T, n), IsFiniteSet(T)
  PROVE  /\ Cardinality(T) \in Nat
         /\ DOMAIN TableOf(T) = 1 .. Cardinality(T)
         /\ \A f \in T : /\ RankIn(T, f) \in 1 .. Cardinality(T)
                         /\ TableOf(T)[RankIn(T, f)] = f.info
         /\ \A k \in 1 .. Cardinality(T) : \E f \in T : RankIn(T, f) = k
  <1>1. /\ \A x \in T : x.id \in Nat /\ x \in Rows
        /\ \A x, y \in T : x.id = y.id => x = y
    BY DEF Ranked, Rows
  <1>2. /\ Cardinality(T) \in Nat
        /\ \A f \in T : RankIn(T, f) \in 1 .. Cardinality(T)
        /\ \A f, g \in T : RankIn(T, f) = RankIn(T, g) => f = g
        /\ \A k \in 1 .. Cardinality(T) : \E f \in T : RankIn(T, f) = k
    BY <1>1, Ranks
  <1>3. DOMAIN TableOf(T) = 1 .. Cardinality(T)
    BY DEF TableOf
  <1>4. ASSUME NEW f \in T
        PROVE  TableOf(T)[RankIn(T, f)] = f.info
    <2>1. PICK k : k = RankIn(T, f)
      OBVIOUS
    <2>2. k \in 1 .. Cardinality(T)
      BY <1>2, <2>1
    <2>3. (CHOOSE g \in T : Cardinality({h \in T : h.id <= g.id}) = k) = f
      BY <1>2, <2>1 DEF RankIn
    <2> QED
      BY <2>1, <2>2, <2>3 DEF TableOf
  <1> QED
    BY <1>2, <1>3, <1>4

\* What the clients read of whole uploads is what was uploaded.
LEMMA ReadBack ==
  ASSUME NEW n \in Nat, Whole(n)
  PROVE  Table = TableOf(files)
  <1>1. Ranked(files, n) /\ IsFiniteSet(files) /\ \A f \in files : f \in Rows
    BY DEF Whole, Ranked
  <1> DEFINE at(k) == CHOOSE f \in files : Cardinality({g \in files : g.id <= f.id}) = k
  <1>2. ASSUME NEW k \in 1 .. Cardinality(files)
        PROVE  at(k) \in files
    <2>1. PICK f \in files : RankIn(files, f) = k
      BY <1>1, TableIs
    <2> QED
      BY <2>1 DEF RankIn
  <1>3. /\ Table = [k \in 1 .. Cardinality(files) |->
                      [at(k).info EXCEPT !.chunks = ChunksOf(at(k).id)]]
        /\ TableOf(files) = [k \in 1 .. Cardinality(files) |-> at(k).info]
    BY DEF Table, TableOf
  <1> HIDE DEF at
  <1>4. ASSUME NEW f \in files
        PROVE  [f.info EXCEPT !.chunks = ChunksOf(f.id)] = f.info
    <2>1. [f.info EXCEPT !.chunks = f.info.chunks] = f.info
      BY <1>1 DEF Rows, FileInfo
    <2> QED
      BY <2>1, ChunksAreListed
  <1> QED
    BY <1>2, <1>3, <1>4

LEMMA ReadBackNow == \A n \in Nat : Whole(n) => Table = TableOf(files)
  BY ReadBack

LEMMA ReadBackNext == (\A n \in Nat : Whole(n) => Table = TableOf(files))'
  BY ReadBackNow, PTL

\* With one worker a device is told that its version is saved only when it is,
\* with every chunk, and it stays so (UploadFileCommand::Do, MetaDataDB::InsertFile).
THEOREM SavedIsThere ==
  ASSUME NEW w, Only(w)
  PROVE  Spec => []AckedAreSaved
  <1>1. FilesInv(w) => AckedAreSaved
    <2> SUFFICES ASSUME FilesInv(w), NEW u \in acked
                 PROVE  \E k \in DOMAIN Table : [Table[k] EXCEPT !.cur = TRUE] = u
      BY DEF AckedAreSaved
    <2>1. PICK f \in files : [f.info EXCEPT !.cur = TRUE] = u
      BY DEF FilesInv, SavedAre
    <2>2. /\ RankIn(files, f) \in DOMAIN TableOf(files)
          /\ TableOf(files)[RankIn(files, f)] = f.info
      BY TableIs DEF FilesInv, Whole
    <2>3. Table = TableOf(files)
      BY ReadBack DEF FilesInv, Typed
    <2> QED
      BY <2>1, <2>2, <2>3
  <1> QED
    BY <1>1, FilesInvariant, PTL

-------------------------------------------------------------------------------
(* An upload is one step                                                   *)

\* Nothing but a commit changes the tables.
LEMMA TablesStay ==
  ASSUME ServerInv, NEW w, Only(w), FilesInv(w), [Next]_vars
  PROVE  CommitWork(w) \/ UNCHANGED <<files, versions>>
  <1>1. CASE UNCHANGED uploadVars
    BY <1>1 DEF uploadVars, tables
  <1>2. CASE ServesUpload(w)
    <2>1. PrepareUpload(w) => UNCHANGED <<files, versions>>
      BY DEF PrepareUpload, uploadVars, tables
    <2>2. pc[w] \in {"update", "insert", "version"} /\ serving[w] = "upload" => InTransaction(w)
      BY DEF FilesInv, Uploading
    <2>3. UpdateOld(w) => UNCHANGED <<files, versions>>
      BY <2>2 DEF UpdateOld, Writes, Is
    <2>4. InsertNew(w) => UNCHANGED <<files, versions>>
      BY <2>2 DEF InsertNew, Writes, Is
    <2>5. SelectId(w) => UNCHANGED <<files, versions>>
      BY DEF SelectId, uploadVars, tables
    <2>6. InsertVersion(w) => UNCHANGED <<files, versions>>
      BY <2>2 DEF InsertVersion, Writes, Is
    <2> QED
      BY <1>2, <2>1, <2>3, <2>4, <2>5, <2>6 DEF ServesUpload, UploadStep
  <1>3. CASE Receive(w)
    BY <1>3 DEF Receive, ReceiveUpload, uploadVars, tables
  <1> QED
    BY <1>1, <1>2, <1>3 DEF Next, Device, Crash, Step, ServesAccount, ServesRefresh, vars, Only

LEMMA OldRow ==
  ASSUME NEW f \in Rows, NEW j \in FileInfo
  PROVE  /\ [f.info EXCEPT !.cur = @ /\ f.info.file # j.file] = After(f, j).info
         /\ After(f, j).info \in FileInfo
  <1>1. PICK h : h = f.info
    OBVIOUS
  <1>2. h \in FileInfo /\ h.cur \in BOOLEAN
    BY <1>1 DEF Rows, FileInfo
  <1>3. CASE h.file = j.file
    <2>1. (h.cur /\ h.file # j.file) = FALSE
      BY <1>3
    <2>2. After(f, j).info = [h EXCEPT !.cur = FALSE]
      BY <1>1, <1>3, DownIs DEF After
    <2>3. [h EXCEPT !.cur = h.cur /\ h.file # j.file] = [h EXCEPT !.cur = FALSE]
      BY <2>1, Zenon
    <2> QED
      BY <1>1, <2>2, <2>3, AfterIs DEF Rows
  <1>4. CASE h.file # j.file
    <2>1. (h.cur /\ h.file # j.file) = h.cur
      BY <1>2, <1>4
    <2>2. After(f, j).info = h
      BY <1>1, <1>4 DEF After
    <2>3. [h EXCEPT !.cur = h.cur /\ h.file # j.file] = [h EXCEPT !.cur = h.cur]
      BY <2>1, Zenon
    <2>4. [h EXCEPT !.cur = h.cur] = h
      BY <1>2 DEF FileInfo
    <2> QED
      BY <1>1, <1>2, <2>2, <2>3, <2>4
  <1> QED
    BY <1>3, <1>4

LEMMA TableGrows ==
  ASSUME NEW T, NEW n \in Nat \ {0}, Ranked(T, n), IsFiniteSet(T), NEW j \in FileInfo,
         NEW R, R = {After(f, j) : f \in T} \cup {[id |-> n, info |-> j]}, Ranked(R, n + 1)
  PROVE  TableOf(R) = InsertFile(TableOf(T), j)
  <1>1. PICK x : x = [id |-> n, info |-> j]
    OBVIOUS
  <1>2. PICK N : N = Cardinality(T)
    OBVIOUS
  <1>3. /\ N \in Nat /\ IsFiniteSet(R) /\ Cardinality(R) = N + 1
        /\ \A f \in T : RankIn(R, After(f, j)) = RankIn(T, f) /\ After(f, j) \in R
        /\ RankIn(R, x) = N + 1 /\ x \in R /\ x.info = j
    BY <1>1, <1>2, RanksAfter
  <1>4. PICK P, Q : P = TableOf(T) /\ Q = TableOf(R)
    OBVIOUS
  <1>5. /\ DOMAIN P = 1 .. N
        /\ \A f \in T : RankIn(T, f) \in 1 .. N /\ P[RankIn(T, f)] = f.info
        /\ \A k \in 1 .. N : \E f \in T : RankIn(T, f) = k
    BY <1>2, <1>4, TableIs
  <1>6. /\ DOMAIN Q = 1 .. N + 1
        /\ \A r \in R : Q[RankIn(R, r)] = r.info
    BY <1>3, <1>4, TableIs
  <1>7. PICK old : old = [i \in DOMAIN P |-> [P[i] EXCEPT !.cur = @ /\ P[i].file # j.file]]
    OBVIOUS
  <1>8. ASSUME NEW k \in 1 .. N
        PROVE  old[k] = Q[k] /\ Q[k] \in FileInfo
    <2>1. PICK f \in T : RankIn(T, f) = k
      BY <1>5
    <2>2. P[k] = f.info /\ f \in Rows
      BY <1>5, <2>1 DEF Ranked
    <2>3. Q[k] = After(f, j).info
      BY <1>3, <1>6, <2>1
    <2>4. old[k] = [P[k] EXCEPT !.cur = @ /\ P[k].file # j.file]
      BY <1>5, <1>7
    <2>5. old[k] = [f.info EXCEPT !.cur = @ /\ f.info.file # j.file]
      BY <2>2, <2>4, Zenon
    <2> QED
      BY <2>2, <2>3, <2>5, OldRow
  <1>9. old \in Seq(FileInfo) /\ Len(old) = N
    <2>1. DOMAIN old = 1 .. N /\ old = [i \in 1 .. N |-> old[i]]
      BY <1>5, <1>7
    <2>2. old \in [1 .. N -> FileInfo]
      BY <1>8, <2>1
    <2> QED
      BY <1>3, <2>2
  <1>10. Q[N + 1] = j
    BY <1>3, <1>6
  <1>11. Q = Append(old, j)
    <2>1. Q = [k \in 1 .. N + 1 |-> Q[k]]
      BY <1>6, <1>4 DEF TableOf
    <2>2. /\ Append(old, j) \in Seq(FileInfo) /\ Len(Append(old, j)) = N + 1
          /\ \A k \in 1 .. N : Append(old, j)[k] = old[k]
          /\ Append(old, j)[N + 1] = j
      BY <1>9, AppendProperties
    <2>3. Append(old, j) = [k \in 1 .. N + 1 |-> Append(old, j)[k]]
      <3>1. PICK a : a = Append(old, j)
        OBVIOUS
      <3>2. a \in Seq(FileInfo) /\ Len(a) = N + 1
        BY <2>2, <3>1
      <3>3. a = [k \in 1 .. N + 1 |-> a[k]]
        BY <3>2
      <3> QED
        BY <3>1, <3>3
    <2>4. \A k \in 1 .. N + 1 : Q[k] = Append(old, j)[k]
      BY <1>3, <1>8, <1>10, <2>2
    <2> QED
      BY <2>1, <2>3, <2>4
  <1> QED
    BY <1>4, <1>7, <1>11, Zenon DEF InsertFile

\* With one worker an upload is seen as a whole or not at all, and the version
\* before it is taken down in the same moment, whatever statement fails and
\* wherever the server dies (MetaDataDB::InsertFile, pqExec).
THEOREM UploadsAreWhole ==
  ASSUME NEW w, Only(w)
  PROVE  Spec => UploadsAreAtomic
  <1>1. Init => Atomic!Init
    <2> SUFFICES ASSUME Init PROVE Table = <<>>
      BY DEF Atomic!Init
    <2>1. Cardinality(files) = 0
      BY FS_EmptySet DEF Init, UploadInit
    <2> QED
      BY <2>1 DEF Table
  <1>2. ASSUME ServerInv, FilesInv(w), FilesInv(w)', [Next]_vars
        PROVE  [Atomic!Next]_Table
    <2>1. CASE UNCHANGED <<files, versions>>
      BY <2>1 DEF Table, ChunksOf
    <2>2. CASE CommitWork(w)
      <3>1. PICK n \in Nat \ {0}, j \in Uploads :
               /\ nextId' = n + 1 /\ Whole(n) /\ Whole(n + 1)' /\ j \in FileInfo
               /\ files' = {After(f, j) : f \in files} \cup {[id |-> n, info |-> j]}
        BY <1>2, <2>2, CommitIsUpload
      <3>2. TableOf(files') = InsertFile(TableOf(files), j)
        BY <3>1, TableGrows DEF Whole
      <3>3. Table = TableOf(files)
        BY <3>1, ReadBack
      <3>4. Table' = TableOf(files')
        BY <3>1, ReadBackNext
      <3>5. Table' = InsertFile(Table, j)
        BY <3>2, <3>3, <3>4
      <3> QED
        BY <3>5 DEF Atomic!Next, Atomic!InsertFile, InsertFile
    <2> QED
      BY <1>2, <2>1, <2>2, TablesStay
  <1> QED
    BY <1>1, <1>2, ServerInvariant, FilesInvariant, PTL DEF Spec, UploadsAreAtomic, Atomic!Spec

-------------------------------------------------------------------------------
(* A refresh                                                               *)

\* A row as a refresh lists it.
Row(f) == [id |-> f.id, chunks |-> f.info.chunks]

\* All it lists are rows of the table, with their chunks.
Lists(w) ==
  /\ left[w] \subseteq {f.id : f \in files}
  /\ list[w] \cup reply \cup got \subseteq {Row(f) : f \in files}

\* Of the rows up to the last refresh the device has each. Those up to the one
\* under way, whose answer counts, are selected, listed or on their way.
Complete(w) ==
  LET due == {f \in files : since < RankIn(files, f) /\ RankIn(files, f) <= begun}
  IN  /\ \A f \in files : RankIn(files, f) <= since => Row(f) \in got
      /\ asking = w /\ serving[w] = "refresh" /\ pc[w] = "chunks" =>
           \A f \in due : f.id \in left[w] \/ Row(f) \in list[w]
      /\ asking = "answered" => \A f \in due : Row(f) \in reply

RefreshInv(w) ==
  /\ since \in Nat /\ begun \in Nat /\ since <= begun /\ begun <= Cardinality(files)
  /\ asking \in {"no", "sent", "answered"} \cup Workers /\ emptied \in BOOLEAN
  /\ DOMAIN list = Workers /\ DOMAIN left = Workers
  /\ Lists(w)
  /\ emptied \/ Complete(w)

\* One of these rows comes first.
LEMMA LeastIs ==
  ASSUME NEW T, IsFiniteSet(T), T # {}, \A x \in T : x.id \in Nat,
         \A x, y \in T : x.id = y.id => x = y
  PROVE  Min({f.id : f \in T}) \in {f.id : f \in T}
  <1>1. Cardinality(T) \in Nat /\ Cardinality(T) # 0
    BY FS_CardinalityType, FS_EmptySet
  <1>2. PICK f \in T : RankIn(T, f) = 1
    BY <1>1, Ranks
  <1>3. PICK S : S = {g \in T : g.id <= f.id}
    OBVIOUS
  <1>4. Cardinality(S) = 1 /\ IsFiniteSet(S)
    <2>1. S \in SUBSET T
      BY <1>3
    <2> QED
      BY <1>2, <1>3, <2>1, FS_Subset DEF RankIn
  <1>5. PICK h : S = {h}
    BY <1>4, FS_Singleton
  <1>6. \A g \in T : g.id <= f.id => g = f
    BY <1>3, <1>5
  <1>7. PICK I : I = {g.id : g \in T}
    OBVIOUS
  <1>8. f.id \in I /\ \A i \in I : i \in Nat /\ f.id <= i
    <2>1. \A g \in T : f.id <= g.id
      BY <1>6
    <2> QED
      BY <1>7, <2>1
  <1>9. Min(I) \in I
    BY <1>8 DEF Min
  <1> QED
    BY <1>7, <1>9

\* The refresh stays where it is, or is given up.
LEMMA RefreshWaits ==
  ASSUME NEW w, Only(w), RefreshInv(w),
         UNCHANGED <<files, begun, since, list, left, emptied, got>>,
         UNCHANGED <<asking, reply>> \/ (asking' = "no" /\ reply' = {}),
         serving'[w] = "refresh" /\ pc'[w] = "chunks" => serving[w] = "refresh" /\ pc[w] = "chunks"
  PROVE  RefreshInv(w)'
  <1>1. Lists(w)'
    BY DEF RefreshInv, Lists
  <1>2. w # "no"
    BY WorkersAssumption DEF Only
  <1>3. ASSUME Complete(w) PROVE Complete(w)'
    BY <1>2, <1>3 DEF Complete
  <1>4. asking' \in {"no", "sent", "answered"} \cup Workers
    BY DEF RefreshInv
  <1> QED
    BY <1>1, <1>3, <1>4 DEF RefreshInv

LEMMA DeviceKeepsRefresh ==
  ASSUME ServerInv, NEW w, Only(w), FilesInv(w), RefreshInv(w), Device
  PROVE  RefreshInv(w)'
  <1>1. UNCHANGED <<session, files>>
    BY DEF Device, Refresh, Answered, Unanswered, uploadVars, tables
  <1>2. w \notin {"no", "sent", "answered"}
    BY WorkersAssumption DEF Only
  <1>3. Cardinality(files) \in Nat
    BY FS_CardinalityType DEF FilesInv, Whole
  <1>4. CASE Refresh
    <2>1. /\ asking' = "sent" /\ begun' = Cardinality(files)
          /\ UNCHANGED <<since, list, left, reply, emptied, got>>
      BY <1>4 DEF Refresh, Now
    <2>2. Lists(w)'
      BY <1>1, <2>1 DEF RefreshInv, Lists
    <2>3. ASSUME Complete(w) PROVE Complete(w)'
      BY <1>1, <1>2, <2>1, <2>3 DEF Complete
    <2> QED
      BY <1>1, <1>3, <2>1, <2>2, <2>3 DEF RefreshInv
  <1>5. CASE Answered
    <2>1. /\ asking = "answered" /\ asking' = "no" /\ reply' = {} /\ got' = got \cup reply
          /\ since' = begun /\ UNCHANGED <<begun, list, left, emptied>>
      BY <1>5 DEF Answered
    <2>2. Lists(w)'
      BY <1>1, <2>1 DEF RefreshInv, Lists
    <2>3. ASSUME Complete(w) PROVE Complete(w)'
      <3>1. ASSUME NEW f \in files, RankIn(files, f) <= begun
            PROVE  Row(f) \in got \cup reply
        <4>1. RankIn(files, f) \in Nat
          BY Ranks DEF FilesInv, Whole, Ranked, Rows
        <4>2. RankIn(files, f) <= since \/ since < RankIn(files, f)
          BY <4>1 DEF RefreshInv
        <4> QED
          BY <2>1, <2>3, <3>1, <4>2 DEF Complete
      <3> QED
        BY <1>1, <1>2, <2>1, <3>1 DEF Complete, Row
    <2> QED
      BY <1>1, <2>1, <2>2, <2>3 DEF RefreshInv
  <1>6. CASE Unanswered
    BY <1>1, <1>6, RefreshWaits DEF Unanswered, session
  <1> QED
    BY <1>4, <1>5, <1>6 DEF Device

LEMMA RefreshKeepsRefresh ==
  ASSUME ServerInv, NEW w, Only(w), FilesInv(w), RefreshInv(w), RefreshStep(w), UNCHANGED uploadVars
  PROVE  RefreshInv(w)'
  <1>1. UNCHANGED files /\ serving' = serving /\ serving[w] = "refresh"
    BY DEF uploadVars, tables, RefreshStep, ConnectRefresh, SelectFiles, SelectChunks,
           FinishRefresh, Is
  <1>2. w \notin {"no", "sent", "answered"}
    BY WorkersAssumption DEF Only
  <1>3. ASSUME NEW at \in Points, Goto(w, at) PROVE pc'[w] = at
    BY <1>3, Goes DEF ServerInv, Only
  <1>4. CASE ConnectRefresh(w)
    <2>1. pc'[w] \in {"files", "idle"}
      BY <1>3, <1>4 DEF ConnectRefresh, Connect, Answers, Points
    <2> QED
      BY <1>1, <1>4, <2>1, RefreshWaits DEF ConnectRefresh, refreshVars
  <1>5. CASE SelectFiles(w)
    <2>1. UNCHANGED <<asking, begun, since, list, reply, got>> /\ DOMAIN left' = Workers
      BY <1>5 DEF SelectFiles, RefreshInv
    <2>2. CASE emptied' = TRUE /\ UNCHANGED left
      <3>1. Lists(w)'
        BY <1>1, <2>1, <2>2 DEF RefreshInv, Lists
      <3> QED
        BY <1>1, <2>1, <2>2, <3>1 DEF RefreshInv
    <2>3. CASE /\ left' = [left EXCEPT ![w] = {f.id : f \in {g \in files : Date(g) > since}}]
               /\ UNCHANGED emptied
      <3>1. left'[w] = {f.id : f \in {g \in files : Date(g) > since}}
        BY <2>3 DEF RefreshInv, Only
      <3>2. \A f \in files : since < RankIn(files, f) => f.id \in left'[w]
        BY <3>1 DEF Date, RankIn
      <3>3. Lists(w)'
        BY <1>1, <2>1, <3>1 DEF RefreshInv, Lists
      <3>4. ASSUME Complete(w) PROVE Complete(w)'
        BY <1>1, <2>1, <3>2, <3>4 DEF Complete
      <3> QED
        BY <1>1, <2>1, <2>3, <3>3, <3>4 DEF RefreshInv
    <2> QED
      BY <1>5, <2>2, <2>3 DEF SelectFiles
  <1>6. CASE SelectChunks(w)
    <2>1. UNCHANGED <<asking, begun, since, reply, emptied, got>> /\ pc[w] = "chunks"
      BY <1>6 DEF SelectChunks, Is
    <2>2. CASE (\E text : Fails(w, text)) /\ UNCHANGED <<list, left>>
      <3>1. pc'[w] = "idle"
        BY <1>3, <2>2 DEF Fails, Answers, Points
      <3> QED
        BY <1>1, <2>1, <2>2, <3>1, RefreshWaits
    <2>3. PICK i : i = Min(left[w])
      OBVIOUS
    <2>4. i \in left[w]
      <3>1. /\ IsFiniteSet(files) /\ \A f \in files : f.id \in Nat
            /\ \A f, g \in files : f.id = g.id => f = g
        BY DEF FilesInv, Whole, Ranked, Rows
      <3>2. PICK T : T = {f \in files : f.id \in left[w]}
        OBVIOUS
      <3>3. left[w] = {f.id : f \in T} /\ T # {}
        BY <1>6, <3>2 DEF SelectChunks, RefreshInv, Lists
      <3>4. T \in SUBSET files
        BY <3>2
      <3>5. IsFiniteSet(T)
        BY <3>1, <3>4, FS_Subset
      <3> QED
        BY <2>3, <3>1, <3>3, <3>4, <3>5, LeastIs
    <2>5. PICK f \in files : f.id = i
      BY <2>4 DEF RefreshInv, Lists
    <2>6. [id |-> i, chunks |-> ChunksOf(i)] = Row(f)
      BY <2>5, ChunksAreListed DEF FilesInv, Typed, Row
    <2>7. CASE /\ Reads(w, "chunks")
               /\ list' = [list EXCEPT ![w] = @ \cup {[id |-> i, chunks |-> ChunksOf(i)]}]
               /\ left' = [left EXCEPT ![w] = @ \ {i}]
      <3>1. /\ list'[w] = list[w] \cup {Row(f)} /\ left'[w] = left[w] \ {i}
            /\ DOMAIN list' = Workers /\ DOMAIN left' = Workers
        BY <2>6, <2>7 DEF RefreshInv, Only
      <3>2. Lists(w)'
        BY <1>1, <2>1, <3>1 DEF RefreshInv, Lists, Row
      <3>3. \A g \in files : g.id = i => g = f
        BY <2>5 DEF FilesInv, Whole, Ranked
      <3>4. ASSUME Complete(w) PROVE Complete(w)'
        BY <1>1, <2>1, <3>1, <3>3, <3>4 DEF Complete, Row
      <3> QED
        BY <1>1, <2>1, <3>1, <3>2, <3>4 DEF RefreshInv
    <2> QED
      BY <1>6, <2>2, <2>3, <2>7 DEF SelectChunks
  <1>7. CASE FinishRefresh(w)
    <2>1. /\ UNCHANGED <<begun, since, list, left, emptied, got>> /\ left[w] = {}
          /\ pc[w] = "chunks" /\ pc'[w] = "idle"
      BY <1>3, <1>7 DEF FinishRefresh, Answers, Is, Points
    <2>2. CASE UNCHANGED <<asking, reply>>
      BY <1>1, <2>1, <2>2, RefreshWaits
    <2>3. CASE asking = w /\ asking' = "answered" /\ reply' = list[w]
      <3>1. Lists(w)'
        BY <1>1, <2>1, <2>3 DEF RefreshInv, Lists
      <3>2. ASSUME Complete(w) PROVE Complete(w)'
        BY <1>1, <1>2, <2>1, <2>3, <3>2 DEF Complete, Row
      <3> QED
        BY <1>1, <2>1, <2>3, <3>1, <3>2 DEF RefreshInv
    <2> QED
      BY <1>7, <2>2, <2>3 DEF FinishRefresh
  <1> QED
    BY <1>4, <1>5, <1>6, <1>7 DEF RefreshStep

\* The rows an upload adds come after those the refresh is about.
LEMMA CommitKeepsRefresh ==
  ASSUME ServerInv, NEW w, Only(w), FilesInv(w), RefreshInv(w), CommitWork(w),
         UNCHANGED refreshVars
  PROVE  RefreshInv(w)'
  <1>1. PICK n \in Nat \ {0}, j \in Uploads :
           /\ Whole(n)
           /\ files' = {After(f, j) : f \in files} \cup {[id |-> n, info |-> j]}
    BY CommitIsUpload
  <1>2. PICK x : x = [id |-> n, info |-> j]
    OBVIOUS
  <1>3. PICK R : R = files'
    OBVIOUS
  <1>4. \A f \in files : /\ After(f, j) \in R /\ After(f, j).id = f.id
                         /\ Row(After(f, j)) = Row(f)
    BY <1>1, <1>3, AfterIs DEF Whole, Ranked, Row
  <1>5. /\ Cardinality(files) \in Nat /\ Cardinality(R) = Cardinality(files) + 1
        /\ \A f \in files : RankIn(R, After(f, j)) = RankIn(files, f)
        /\ RankIn(R, x) = Cardinality(files) + 1
    <2>1. Ranked(files, n) /\ IsFiniteSet(files)
      BY <1>1 DEF Whole
    <2>2. R = {After(f, j) : f \in files} \cup {[id |-> n, info |-> j]}
      BY <1>1, <1>3
    <2> QED
      BY <1>2, <2>1, <2>2, RanksAfter
  <1>13. \A f \in files : RankIn(files, f) \in Nat
    BY <1>1, TableIs DEF Whole
  <1>6. \A r \in R : r = x \/ \E f \in files : r = After(f, j)
    BY <1>1, <1>2, <1>3
  <1>7. UNCHANGED <<asking, begun, since, list, left, reply, emptied, got>>
    BY DEF refreshVars
  <1>8. serving' = serving /\ serving[w] = "upload"
    BY DEF CommitWork, Is
  <1>9. Lists(w)'
    <2>1. {f.id : f \in files} \subseteq {f.id : f \in R}
      BY <1>4
    <2>2. {Row(f) : f \in files} \subseteq {Row(f) : f \in R}
      BY <1>4
    <2> QED
      BY <1>3, <1>7, <2>1, <2>2 DEF RefreshInv, Lists, Row
  <1>10. ASSUME NEW r \in R, RankIn(R, r) <= begun
         PROVE  \E f \in files : r = After(f, j) /\ RankIn(R, r) = RankIn(files, f)
    BY <1>5, <1>6, <1>10 DEF RefreshInv
  <1>11. ASSUME Complete(w) PROVE Complete(w)'
    <2>1. ASSUME NEW r \in R, RankIn(R, r) <= since
          PROVE  Row(r) \in got
      <3>1. RankIn(R, r) <= begun
        <4>1. RankIn(R, r) \in Nat
          BY <1>5, <1>6, <1>13
        <4> QED
          BY <2>1, <4>1 DEF RefreshInv
      <3>2. PICK f \in files : r = After(f, j) /\ RankIn(R, r) = RankIn(files, f)
        BY <1>10, <3>1
      <3>3. Row(f) \in got
        BY <1>11, <2>1, <3>2 DEF Complete
      <3> QED
        BY <1>4, <3>2, <3>3
    <2>2. ASSUME asking = "answered", NEW r \in R, since < RankIn(R, r), RankIn(R, r) <= begun
          PROVE  Row(r) \in reply
      <3>1. PICK f \in files : r = After(f, j) /\ RankIn(R, r) = RankIn(files, f)
        BY <1>10, <2>2
      <3>2. Row(f) \in reply
        BY <1>11, <2>2, <3>1 DEF Complete
      <3> QED
        BY <1>4, <3>1, <3>2
    <2> QED
      BY <1>3, <1>7, <1>8, <2>1, <2>2 DEF Complete, Row, RankIn
  <1>12. begun <= Cardinality(R)
    BY <1>5 DEF RefreshInv
  <1> QED
    BY <1>3, <1>7, <1>9, <1>11, <1>12 DEF RefreshInv

LEMMA RefreshKept ==
  ASSUME ServerInv, NEW w, Only(w), FilesInv(w), RefreshInv(w), [Next]_vars
  PROVE  RefreshInv(w)'
  <1>1. CASE Device
    BY <1>1, DeviceKeepsRefresh
  <1>2. CASE ServesRefresh(w)
    BY <1>2, RefreshKeepsRefresh DEF ServesRefresh
  <1>3. CASE ServesUpload(w) /\ CommitWork(w)
    BY <1>3, CommitKeepsRefresh DEF ServesUpload
  <1>4. CASE ReceiveRefresh(w) /\ UNCHANGED uploadVars
    <2>1. /\ UNCHANGED <<files, begun, since, reply, emptied, got>> /\ asking = "sent"
          /\ asking' = w /\ pc'[w] = "connect"
      BY <1>4, Goes DEF ReceiveRefresh, Receives, uploadVars, tables, ServerInv, Points, Only
    <2>2. left'[w] = {} /\ list'[w] = {} /\ DOMAIN list' = Workers /\ DOMAIN left' = Workers
      BY <1>4 DEF ReceiveRefresh, RefreshInv, Only
    <2>3. w \notin {"no", "sent", "answered"}
      BY WorkersAssumption DEF Only
    <2>4. Lists(w)'
      BY <2>1, <2>2 DEF RefreshInv, Lists
    <2>5. ASSUME Complete(w) PROVE Complete(w)'
      BY <2>1, <2>3, <2>5 DEF Complete
    <2> QED
      BY <2>1, <2>2, <2>4, <2>5 DEF RefreshInv, Only
  <1>5. ASSUME UNCHANGED <<refreshVars, files>>,
               serving'[w] # "refresh" \/ pc'[w] # "chunks" \/ UNCHANGED <<serving, pc>>
        PROVE  RefreshInv(w)'
    BY <1>5, RefreshWaits DEF refreshVars
  <1>6. CASE ServesUpload(w) /\ ~ CommitWork(w)
    <2>1. UNCHANGED files
      BY <1>6, TablesStay DEF ServesUpload, Next, Step, Only
    <2>2. serving'[w] # "refresh"
      BY <1>6, OthersAnswer DEF ServesUpload, UploadStep, PrepareUpload, UpdateOld, InsertNew,
                                SelectId, InsertVersion, Is
    <2> QED
      BY <1>5, <1>6, <2>1, <2>2 DEF ServesUpload
  <1>7. CASE ServesAccount(w)
    <2>1. serving'[w] # "refresh"
      BY <1>7 DEF ServesAccount, AccountStep, PrepareAccount, CountUser, CheckPassword, InsertUser,
                  SelectUser, CommitUser, Is
    <2> QED
      BY <1>5, <1>7, <2>1 DEF ServesAccount, uploadVars, tables
  <1>8. CASE Crash
    <2>1. pc'[w] = "idle"
      BY <1>8 DEF Crash, Stop, Only
    <2> QED
      BY <1>5, <1>8, <2>1 DEF Crash, uploadVars, tables
  <1>9. CASE (ReceiveAccount(w) \/ ReceiveUpload(w)) /\ UNCHANGED <<refreshVars, files>>
    <2>1. pc'[w] = "connect"
      BY <1>9, Goes DEF ReceiveAccount, ReceiveUpload, Receives, ServerInv, Points, Only
    <2> QED
      BY <1>5, <1>9, <2>1
  <1>10. CASE UNCHANGED vars
    BY <1>5, <1>10 DEF vars, uploadVars, tables, session
  <1>11. CASE Receive(w)
    BY <1>4, <1>9, <1>11 DEF Receive, ReceiveUpload, uploadVars, tables
  <1> QED
    BY <1>1, <1>2, <1>3, <1>6, <1>7, <1>8, <1>10, <1>11 DEF Next, Step, Only

\* With one worker: what a device has, and what is on its way to it, are rows of
\* the table with their chunks, and of the rows up to its last refresh it has
\* each (DataUpdateCommand::Do, MetaDataDB::GetUserFilesByTime).
THEOREM RefreshInvariant ==
  ASSUME NEW w, Only(w)
  PROVE  Spec => []RefreshInv(w)
  <1>1. Init => RefreshInv(w)
    <2> SUFFICES ASSUME Init PROVE RefreshInv(w)
      OBVIOUS
    <2>1. files = {} /\ Cardinality(files) = 0
      BY FS_EmptySet DEF Init, UploadInit
    <2>2. w # "no"
      BY WorkersAssumption DEF Only
    <2>3. /\ asking = "no" /\ begun = 0 /\ since = 0 /\ reply = {} /\ got = {} /\ emptied = FALSE
          /\ left[w] = {} /\ list[w] = {} /\ DOMAIN left = Workers /\ DOMAIN list = Workers
      BY DEF Init, RefreshInit, Only
    <2>4. Lists(w) /\ Complete(w)
      BY <2>1, <2>2, <2>3 DEF Lists, Complete
    <2>5. begun <= Cardinality(files) /\ since <= begun /\ since \in Nat /\ begun \in Nat
      BY <2>1, <2>3
    <2>6. asking \in {"no", "sent", "answered"} \cup Workers /\ emptied \in BOOLEAN
      BY <2>3
    <2> QED
      BY <2>3, <2>4, <2>5, <2>6, Zenon DEF RefreshInv
  <1>2. ServerInv /\ FilesInv(w) /\ RefreshInv(w) /\ [Next]_vars => RefreshInv(w)'
    BY RefreshKept
  <1> QED
    BY <1>1, <1>2, ServerInvariant, FilesInvariant, PTL DEF Spec

\* With one worker a device that takes itself for up to date has every row up to
\* then, each with its chunks, unless the select of the files failed
\* (RefreshCommand::Do, InternalDB::SaveLastUpdate, MetaDataDB::GetUserFilesByTime).
THEOREM DeviceIsUpToDate ==
  ASSUME NEW w, Only(w)
  PROVE  Spec => []UpToDate
  <1>1. RefreshInv(w) => UpToDate
    BY DEF RefreshInv, Complete, UpToDate, Date, RankIn, Row
  <1> QED
    BY <1>1, RefreshInvariant, PTL

-------------------------------------------------------------------------------
(* Types                                                                   *)

AnswerTexts == {"none", "Database error", "ok", "Invalid login or password",
                "Login is already exist", Failure, "files", "Fail to get file"}

\* The worker answers with a text, or does not.
MayAnswer(w) == UNCHANGED answer \/ \E text \in AnswerTexts : answer' = [answer EXCEPT ![w] = text]

LEMMA StatementsAnswer ==
  ASSUME NEW w, NEW text \in AnswerTexts
  PROVE  /\ Answers(w, text) => MayAnswer(w)
         /\ \A next : Connect(w, next) => MayAnswer(w)
         /\ Fails(w, text) => MayAnswer(w)
         /\ \A next : Begin(w, next, text) => MayAnswer(w)
         /\ \A next : Savepoint(w, next, text) => MayAnswer(w)
         /\ \A next : Reads(w, next) => MayAnswer(w)
         /\ Commit(w, "ok", text) => MayAnswer(w)
  <1>1. \A t \in AnswerTexts : Answers(w, t) => MayAnswer(w)
    BY Zenon DEF Answers, MayAnswer
  <1>2. Fails(w, text) => MayAnswer(w)
    BY <1>1, Zenon DEF Fails
  <1>3. \A next : Connect(w, next) => MayAnswer(w)
    <2>1. Answers(w, "Database error") => MayAnswer(w)
      BY <1>1, Zenon DEF AnswerTexts
    <2> QED
      BY <2>1, Zenon DEF Connect, MayAnswer
  <1>4. \A next : Begin(w, next, text) => MayAnswer(w)
    BY <1>2, Zenon DEF Begin, MayAnswer
  <1>5. \A next : Savepoint(w, next, text) => MayAnswer(w)
    BY <1>1, <1>2, Zenon DEF Savepoint, MayAnswer
  <1>6. \A next : Reads(w, next) => MayAnswer(w)
    BY Zenon DEF Reads, MayAnswer
  <1>7. Commit(w, "ok", text) => MayAnswer(w)
    <2>1. Answers(w, "ok") => MayAnswer(w)
      BY <1>1, Zenon DEF AnswerTexts
    <2> QED
      BY <1>1, <2>1, Zenon DEF Commit
  <1> QED
    BY <1>1, <1>2, <1>3, <1>4, <1>5, <1>6, <1>7

LEMMA StepsAnswer ==
  ASSUME NEW w, Step(w)
  PROVE  MayAnswer(w)
  <1>1. Refusal(w) \in AnswerTexts
    BY Zenon DEF Refusal, AnswerTexts
  <1>2. CASE AccountStep(w)
    <2>1. PrepareAccount(w) => MayAnswer(w)
      BY <1>1, StatementsAnswer, Zenon DEF PrepareAccount
    <2>2. Refuse(w) => MayAnswer(w)
      BY <1>1, StatementsAnswer, Zenon DEF Refuse
    <2>3. CountUser(w) => MayAnswer(w)
      <3>1. CountUser(w) => Reads(w, "password") \/ Reads(w, "insert") \/ Refuse(w)
        BY DEF CountUser
      <3> QED
        BY <1>1, <2>2, <3>1, StatementsAnswer, Zenon
    <2>4. CheckPassword(w) => MayAnswer(w)
      BY <1>1, <2>2, StatementsAnswer, Zenon DEF CheckPassword
    <2>5. InsertUser(w) => MayAnswer(w)
      BY Zenon DEF InsertUser, MayAnswer
    <2>6. SelectUser(w) => MayAnswer(w)
      BY DEF SelectUser, Reads, Stop, MayAnswer
    <2>7. CommitUser(w) => MayAnswer(w)
      BY <1>1, StatementsAnswer, Zenon DEF CommitUser
    <2> QED
      BY <1>2, <2>1, <2>3, <2>4, <2>5, <2>6, <2>7 DEF AccountStep
  <1>3. CASE UploadStep(w)
    <2>1. Failure \in AnswerTexts
      BY Zenon DEF AnswerTexts
    <2>2. PrepareUpload(w) => MayAnswer(w)
      BY <2>1, StatementsAnswer, Zenon DEF PrepareUpload
    <2>3. UpdateOld(w) => MayAnswer(w)
      <3>1. UpdateOld(w) => UNCHANGED answer \/ Fails(w, Failure)
        BY DEF UpdateOld, Writes
      <3> QED
        BY <2>1, <3>1, StatementsAnswer, Zenon DEF MayAnswer
    <2>4. InsertNew(w) \/ InsertVersion(w) => MayAnswer(w)
      BY DEF InsertNew, InsertVersion, Writes, MayAnswer
    <2>5. SelectId(w) => MayAnswer(w)
      BY DEF SelectId, Reads, Stop, MayAnswer
    <2>6. CommitWork(w) => MayAnswer(w)
      BY <2>1, StatementsAnswer, Zenon DEF CommitWork
    <2> QED
      BY <1>3, <2>2, <2>3, <2>4, <2>5, <2>6 DEF UploadStep
  <1>4. CASE RefreshStep(w)
    <2>1. ConnectRefresh(w) => MayAnswer(w)
      BY <1>1, StatementsAnswer, Zenon DEF ConnectRefresh
    <2>2. SelectFiles(w) => MayAnswer(w)
      BY DEF SelectFiles, MayAnswer
    <2>3. SelectChunks(w) => MayAnswer(w)
      <3>1. "Fail to get file" \in AnswerTexts
        BY Zenon DEF AnswerTexts
      <3>2. Fails(w, "Fail to get file") => MayAnswer(w)
        BY <3>1, StatementsAnswer, Zenon
      <3>3. Reads(w, "chunks") => MayAnswer(w)
        BY <1>1, StatementsAnswer, Zenon
      <3> QED
        BY <3>2, <3>3, Zenon DEF SelectChunks
    <2>4. FinishRefresh(w) => MayAnswer(w)
      <3>1. "files" \in AnswerTexts
        BY Zenon DEF AnswerTexts
      <3> QED
        BY <3>1, StatementsAnswer, Zenon DEF FinishRefresh
    <2> QED
      BY <1>4, <2>1, <2>2, <2>3, <2>4 DEF RefreshStep
  <1> QED
    BY <1>2, <1>3, <1>4 DEF Step, ServesAccount, ServesUpload, ServesRefresh

\* Answers are texts, and requests are counted.
LEMMA AnswersTyped ==
  ASSUME answer \in [Workers -> AnswerTexts], requests \in 0 .. MaxRequests, [Next]_vars
  PROVE  answer' \in [Workers -> AnswerTexts] /\ requests' \in 0 .. MaxRequests
  <1>1. ASSUME NEW w \in Workers, MayAnswer(w)
        PROVE  answer' \in [Workers -> AnswerTexts]
    BY <1>1 DEF MayAnswer
  <1>2. CASE UNCHANGED <<answer, requests>>
    BY <1>2
  <1>3. CASE \E w \in Workers : Receive(w)
    <2>1. PICK w \in Workers : Receive(w)
      BY <1>3
    <2>2. answer' = [answer EXCEPT ![w] = "none"] /\ "none" \in AnswerTexts
      <3>1. PICK request : Receives(w, request)
        BY <2>1 DEF Receive, ReceiveAccount, ReceiveUpload, ReceiveRefresh
      <3>2. "none" \in AnswerTexts
        BY Zenon DEF AnswerTexts
      <3> QED
        BY <3>1, <3>2 DEF Receives
    <2>3. requests' \in 0 .. MaxRequests
      BY <2>1, MaxRequestsAssumption DEF Receive
    <2> QED
      BY <2>2, <2>3
  <1>4. CASE \E w \in Workers : Step(w)
    <2>1. UNCHANGED requests
      BY <1>4 DEF Step, ServesAccount, ServesUpload, ServesRefresh
    <2> QED
      BY <1>1, <1>4, <2>1, StepsAnswer
  <1>5. CASE Device
    <2>1. UNCHANGED <<session, requests>>
      BY <1>5 DEF Device, Refresh, Answered, Unanswered
    <2> QED
      BY <1>2, <2>1 DEF session
  <1>6. CASE Crash
    BY <1>2, <1>6 DEF Crash, Stop
  <1>7. CASE UNCHANGED vars
    BY <1>2, <1>7 DEF vars, session
  <1> QED
    BY <1>3, <1>4, <1>5, <1>6, <1>7 DEF Next

\* The accounts in table Users, and those its transaction has added.
AccountsInv(w) ==
  /\ users \subseteq Accounts /\ nextUser \in Nat \ {0}
  /\ sent \in [Workers -> Requests] /\ userId \in [Workers -> Nat]
  /\ serving[w] = "account" /\ pc[w] \in {"id", "commit"} => Seen(w) \subseteq Accounts

LEMMA AccountIs ==
  ASSUME NEW i \in 1 .. nextUser, NEW r \in Requests
  PROVE  Account(i, r) \in Accounts
  <1>1. PICK c \in Credentials : r.login = c.login /\ r.password = c.password
    BY DEF Requests
  <1>2. Account(i, r) = Account(i, c)
    BY <1>1 DEF Account
  <1> QED
    BY <1>2 DEF Accounts

LEMMA MoreAccounts ==
  ASSUME nextUser \in Nat, nextUser' \in Nat, nextUser <= nextUser'
  PROVE  Accounts \subseteq Accounts'
  <1>1. \A i \in 1 .. nextUser : i \in 1 .. nextUser'
    OBVIOUS
  <1> QED
    BY <1>1 DEF Accounts

\* The request has not come to its account, or has ended.
LEMMA NoAccountYet ==
  ASSUME NEW w, AccountsInv(w), UNCHANGED <<users, nextUser, userId>>,
         sent' \in [Workers -> Requests],
         serving'[w] # "account" \/ pc'[w] \notin {"id", "commit"}
  PROVE  AccountsInv(w)'
  BY DEF AccountsInv, Accounts

LEMMA InsertKeepsAccounts ==
  ASSUME ServerInv, NEW w, Only(w), UsersInv(w), AccountsInv(w), InsertUser(w)
  PROVE  AccountsInv(w)'
  <1>1. /\ UNCHANGED <<sent, userId, serving>> /\ serving[w] = "account" /\ pc[w] = "insert"
        /\ nextUser' = nextUser + 1
    BY DEF InsertUser, Is
  <1>2. InTransaction(w) /\ conn[Cur(w)].work = {}
    BY <1>1 DEF UsersInv, UnderWay
  <1>3. PICK u : u = Account(nextUser, sent[w])
    OBVIOUS
  <1>4. PICK c : c = [kind |-> "user", user |-> u]
    OBVIOUS
  <1>5. Works(w, {c}) /\ users' = users
    BY <1>2, <1>3, <1>4 DEF InsertUser
  <1>6. InTransaction(w)' /\ conn'[Cur(w)'].work = {} \cup {c}
    BY <1>1, <1>2, <1>5, WorksOpen
  <1>7. Of({} \cup {c}, "user") = {c} /\ c.user = u
    BY <1>4 DEF Of
  <1>8. Seen(w)' = users \cup {u}
    BY <1>5, <1>6, <1>7 DEF Seen, UsersWith, InTransaction
  <1>9. nextUser \in Nat \ {0} /\ sent[w] \in Requests
    BY DEF AccountsInv, Only
  <1>10. u \in Accounts
    BY <1>3, <1>9, AccountIs
  <1>11. Accounts \subseteq Accounts'
    BY <1>1, <1>9, MoreAccounts
  <1> QED
    BY <1>1, <1>5, <1>8, <1>9, <1>10, <1>11 DEF AccountsInv

LEMMA AccountKeepsAccounts ==
  ASSUME ServerInv, NEW w, Only(w), UsersInv(w), AccountsInv(w), AccountStep(w)
  PROVE  AccountsInv(w)'
  <1>1. CASE PrepareAccount(w)
    <2>1. \/ \E text : Answers(w, text)
          \/ Goto(w, "begin") \/ Goto(w, "savepoint") \/ Goto(w, "count")
      BY <1>1, Zenon DEF PrepareAccount, Connect, Begin, Savepoint, Fails
    <2>2. pc'[w] \notin {"id", "commit"}
      BY <2>1, Goes DEF Answers, ServerInv, Points, Only
    <2> QED
      BY <1>1, <2>2, NoAccountYet DEF PrepareAccount, usersVars, AccountsInv
  <1>2. ASSUME Refuse(w) PROVE pc'[w] = "idle"
    BY <1>2, Goes DEF Refuse, Answers, ServerInv, Points, Only
  <1>3. CASE CountUser(w)
    <2>1. Reads(w, "password") \/ Reads(w, "insert") \/ Refuse(w)
      BY <1>3 DEF CountUser
    <2>2. pc'[w] \notin {"id", "commit"}
      BY <1>2, <2>1, Goes DEF Reads, ServerInv, Points, Dirty, Only
    <2> QED
      BY <1>3, <2>2, NoAccountYet DEF CountUser, usersVars, AccountsInv
  <1>4. CASE CheckPassword(w)
    <2>1. UNCHANGED usersVars /\ UNCHANGED serving /\ pc[w] = "password"
      BY <1>4 DEF CheckPassword, Is
    <2>2. CASE Refuse(w)
      BY <1>2, <2>1, <2>2, NoAccountYet DEF usersVars, AccountsInv
    <2>3. CASE Reads(w, "id")
      <3>1. Seen(w) = users
        BY <2>1, SeesTable DEF Dirty
      <3>2. Seen(w)' = Seen(w)
        BY <2>1, <2>3 DEF Reads, Seen, UsersWith, Cur, Db, usersVars
      <3> QED
        BY <2>1, <3>1, <3>2 DEF AccountsInv, Accounts, usersVars
    <2> QED
      BY <1>4, <2>2, <2>3 DEF CheckPassword
  <1>5. CASE InsertUser(w)
    BY <1>5, InsertKeepsAccounts
  <1>6. CASE SelectUser(w)
    <2>1. UNCHANGED serving /\ serving[w] = "account" /\ pc[w] = "id"
      BY <1>6 DEF SelectUser, Is
    <2>2. CASE Stop /\ UNCHANGED usersVars
      <3>1. pc'[w] = "idle"
        BY <2>2 DEF Stop, Only
      <3> QED
        BY <2>2, <3>1, NoAccountYet DEF usersVars, AccountsInv
    <2>3. CASE /\ Reads(w, "commit")
               /\ \E u \in RowsOf(w) : userId' = [userId EXCEPT ![w] = u.id]
               /\ UNCHANGED <<users, nextUser, sent, registered>>
      <3>1. PICK u \in RowsOf(w) : userId' = [userId EXCEPT ![w] = u.id]
        BY <2>3
      <3>2. Seen(w) \subseteq Accounts
        BY <2>1 DEF AccountsInv
      <3>3. u \in Accounts
        BY <3>1, <3>2 DEF RowsOf
      <3>4. nextUser \in Nat
        BY DEF AccountsInv
      <3>5. u.id \in Nat
        BY <3>3, <3>4 DEF Accounts, Account
      <3>6. Seen(w)' = Seen(w)
        BY <2>1, <2>3 DEF Reads, Seen, UsersWith, Cur, Db
      <3>7. Accounts' = Accounts
        BY <2>3 DEF Accounts
      <3>8. userId' \in [Workers -> Nat]
        BY <3>1, <3>5 DEF AccountsInv
      <3> QED
        BY <2>3, <3>2, <3>6, <3>7, <3>8 DEF AccountsInv
    <2> QED
      BY <1>6, <2>2, <2>3 DEF SelectUser
  <1>7. CASE CommitUser(w)
    <2>1. /\ UNCHANGED <<nextUser, sent, userId, serving>> /\ users' = Seen(w)
          /\ serving[w] = "account" /\ pc[w] = "commit"
      BY <1>7 DEF CommitUser, Is
    <2>2. pc'[w] = "idle"
      BY <1>7, Goes DEF CommitUser, Commit, Answers, ServerInv, Points, Only
    <2> QED
      BY <2>1, <2>2 DEF AccountsInv, Accounts
  <1> QED
    BY <1>1, <1>3, <1>4, <1>5, <1>6, <1>7 DEF AccountStep

LEMMA AccountsKept ==
  ASSUME ServerInv, NEW w, Only(w), UsersInv(w), AccountsInv(w), [Next]_vars
  PROVE  AccountsInv(w)'
  <1>1. CASE ServesAccount(w)
    BY <1>1, AccountKeepsAccounts DEF ServesAccount
  <1>2. CASE ServesUpload(w) \/ ServesRefresh(w)
    <2>1. serving'[w] # "account"
      BY <1>2, OthersAnswer DEF ServesUpload, ServesRefresh
    <2> QED
      BY <1>2, <2>1, NoAccountYet DEF ServesUpload, ServesRefresh, usersVars, AccountsInv
  <1>3. CASE Receive(w)
    <2>1. PICK request : Receives(w, request)
      BY <1>3 DEF Receive, ReceiveAccount, ReceiveUpload, ReceiveRefresh
    <2>2. pc'[w] = "connect"
      BY <2>1, Goes DEF Receives, ServerInv, Points, Only
    <2>3. UNCHANGED <<users, nextUser, userId>> /\ sent' \in [Workers -> Requests]
      BY <1>3 DEF Receive, ReceiveAccount, usersVars, AccountsInv
    <2> QED
      BY <2>2, <2>3, NoAccountYet
  <1>4. CASE UNCHANGED <<session, usersVars>>
    BY <1>4 DEF session, usersVars, AccountsInv, Accounts, Seen, UsersWith, Cur, Db
  <1>5. CASE Device
    <2>1. UNCHANGED <<session, usersVars>>
      BY <1>5 DEF Device, Refresh, Answered, Unanswered
    <2> QED
      BY <1>4, <2>1
  <1>6. CASE Crash
    <2>1. pc'[w] = "idle" /\ UNCHANGED usersVars
      BY <1>6 DEF Crash, Stop, Only
    <2> QED
      BY <2>1, NoAccountYet DEF usersVars, AccountsInv
  <1>7. CASE UNCHANGED vars
    BY <1>4, <1>7 DEF vars
  <1> QED
    BY <1>1, <1>2, <1>3, <1>5, <1>6, <1>7 DEF Next, Step, Only

Statements == {"connect", "begin", "savepoint", "count", "password", "insert", "id", "commit",
               "update", "select", "version", "files", "chunks"}

OtherTexts == {"ok", "Invalid login or password", "Login is already exist", Failure, "files",
               "Fail to get file"}

LEMMA SessionTypes ==
  ASSUME ServerInv, answer \in [Workers -> AnswerTexts]
  PROVE  SessionTypeOK(Statements, OtherTexts)
  <1>1. ASSUME NEW k \in DOMAIN conn
        PROVE  conn[k] \in [tx: {"none", "open", "failed"}, work: {conn[k].work},
                            saved: BOOLEAN, save: SUBSET conn[k].work]
    <2>1. IsConn(conn[k]) /\ conn[k].save = {}
      BY DEF ServerInv, Connections, Clean
    <2> QED
      BY <2>1 DEF IsConn
  <1>2. cur \in [Objects -> 0 .. Len(conn)]
    <2>1. Len(conn) \in Nat
      <3>1. PICK S : conn \in Seq(S)
        BY DEF ServerInv, Connections, IsSequence
      <3> QED
        BY <3>1, LenProperties
    <2> QED
      BY <2>1 DEF ServerInv, Connections
  <1>3. serving \in [Workers -> {"none", "account", "upload", "refresh"}]
    BY DEF ServerInv, Connections, Kinds
  <1>4. pc \in [Workers -> {"idle"} \cup Statements]
    <2>1. Points = {"idle"} \cup Statements
      BY DEF Points, Dirty, Statements
    <2> QED
      BY <2>1 DEF ServerInv, Connections
  <1>5. answer \in [Workers -> {"none", "Database error"} \cup OtherTexts]
    <2>1. AnswerTexts = {"none", "Database error"} \cup OtherTexts
      BY Zenon DEF AnswerTexts, OtherTexts
    <2> QED
      BY <2>1, Zenon
  <1> QED
    BY <1>1, <1>2, <1>3, <1>4, <1>5, Zenon DEF SessionTypeOK

LEMMA RefreshTypes ==
  ASSUME NEW w, Only(w), FilesInv(w), RefreshInv(w)
  PROVE  RefreshTypeOK
  <1>1. nextId \in Nat /\ \A f \in files : f.id \in 1 .. nextId /\ f.info.chunks \in Seq(Nat)
    <2>1. nextId \in Nat /\ \A f \in files : f \in Rows /\ f.id < nextId
      BY DEF FilesInv, Typed, Whole, Ranked
    <2> QED
      BY <2>1 DEF Rows, FileInfo
  <1>2. \A f \in files : Row(f) \in Listed
    BY <1>1 DEF Row, Listed
  <1>3. list[w] \subseteq Listed /\ reply \subseteq Listed /\ got \subseteq Listed
    BY <1>2 DEF RefreshInv, Lists
  <1>4. left[w] \subseteq 1 .. nextId
    BY <1>1 DEF RefreshInv, Lists
  <1> QED
    BY <1>3, <1>4 DEF RefreshInv, RefreshTypeOK, Now, Only

\* With one worker: the type invariant of the sync server, with its connections,
\* accounts, tables, refreshes and answers (PostgresSQLDB, UsersDB, MetaDataDB,
\* DataUpdateCommand::Do).
THEOREM ServerTypes ==
  ASSUME NEW w, Only(w)
  PROVE  Spec => []TypeOK
  <1> DEFINE Inv == /\ AccountsInv(w)
                    /\ answer \in [Workers -> AnswerTexts] /\ requests \in 0 .. MaxRequests
  <1>1. Init => Inv
    <2> SUFFICES ASSUME Init PROVE Inv
      OBVIOUS
    <2>1. (CHOOSE r \in Requests : TRUE) \in Requests
      <3>1. PICK c \in Credentials : TRUE
        BY CredentialsAssumption
      <3>2. [kind |-> "login", login |-> c.login, password |-> c.password] \in Requests
        BY DEF Requests
      <3> QED
        BY <3>2
    <2>2. users = {} /\ nextUser = 1 /\ pc[w] = "idle"
      BY DEF Init, UsersInit, SessionInit, Only
    <2>3. sent \in [Workers -> Requests] /\ userId \in [Workers -> Nat]
      BY <2>1 DEF Init, UsersInit
    <2>4. answer \in [Workers -> AnswerTexts]
      <3>1. "none" \in AnswerTexts
        BY Zenon DEF AnswerTexts
      <3> QED
        BY <3>1 DEF Init, SessionInit
    <2>5. requests \in 0 .. MaxRequests
      BY MaxRequestsAssumption DEF Init
    <2> QED
      BY <2>2, <2>3, <2>4, <2>5 DEF AccountsInv
  <1>2. ServerInv /\ UsersInv(w) /\ Inv /\ [Next]_vars => Inv'
    BY AccountsKept, AnswersTyped
  <1>3. ASSUME ServerInv, UsersInv(w), FilesInv(w), RefreshInv(w), Inv
        PROVE  TypeOK
    <2>1. SessionTypeOK(Statements, OtherTexts)
      BY <1>3, SessionTypes
    <2>2. UsersTypeOK
      BY <1>3 DEF UsersTypeOK, AccountsInv, UsersInv, Kept
    <2>3. UploadTypeOK
      BY <1>3 DEF UploadTypeOK, FilesInv, Typed, Whole, Ranked
    <2>4. RefreshTypeOK
      BY <1>3, RefreshTypes
    <2> QED
      BY <1>3, <2>1, <2>2, <2>3, <2>4, Zenon DEF TypeOK, Statements, OtherTexts
  <1> HIDE DEF Inv
  <1> QED
    BY <1>1, <1>2, <1>3, ServerInvariant, UsersInvariant, FilesInvariant, RefreshInvariant, PTL
       DEF Spec
===============================================================================
