------------------------------- MODULE MetaDataDB -------------------------------
(***************************************************************************)
(* UploadFileCommand on the sync server, statement by statement: the       *)
(* transaction of MetaDataDB::InsertFile over the shared connection.       *)
(***************************************************************************)
EXTENDS CloudServers, PostgresSQLDB, FiniteSetsExt

CONSTANT Uploads   \* the requests, each sent once

\* A device sends the version it takes for the current one.
ASSUME UploadsAssumption == Uploads # {} /\ \A u \in Uploads : u \in FileInfo /\ u.cur

VARIABLES
  files,     \* table Files: [id, info], committed
  versions,  \* table Version: [row, chunk, order], committed
  nextId,    \* the sequence of Files.id, which no rollback sets back
  todo,      \* requests still to come
  job,       \* per worker: its request
  row,       \* per worker: the id it has selected
  done,      \* per worker: how many Version rows it has inserted
  acked      \* history: the uploads answered with StatusOk

tables == <<files, versions, nextId>>
locals == <<job, row, done>>
uploadVars == <<tables, todo, locals, acked>>

Nothing == CHOOSE u \in Uploads : TRUE

UploadInit ==
  /\ files = {} /\ versions = {} /\ nextId = 1
  /\ todo = Uploads
  /\ job = [w \in Workers |-> Nothing]
  /\ row = [w \in Workers |-> 0]
  /\ done = [w \in Workers |-> 0]
  /\ acked = {}

-------------------------------------------------------------------------------
(* Changes: what the statements write                                      *)

TakeDown(ids) == {[kind |-> "old", id |-> i] : i \in ids}
NewFile(i, info) == {[kind |-> "file", id |-> i, info |-> info]}
NewVersion(i, chunk, order) ==
  {[kind |-> "version", id |-> i, chunk |-> chunk, order |-> order]}

\* Table Files after the changes.
FilesWith(changes) ==
  LET all == files \cup {[id |-> c.id, info |-> c.info] : c \in Of(changes, "file")}
      old == {c.id : c \in Of(changes, "old")}
  IN  {IF f.id \in old THEN [f EXCEPT !.info = [@ EXCEPT !.cur = FALSE]] ELSE f : f \in all}

VersionsWith(changes) ==
  versions \cup {[row |-> c.id, chunk |-> c.chunk, order |-> c.order] :
                   c \in Of(changes, "version")}

\* The ids of the rows of the request's file that its connection sees.
SeenIds(w) ==
  {f.id : f \in {g \in FilesWith(conn[Cur(w)].work) : g.info.file = job[w].file}}

\* The rows other connections have updated and not yet committed.
LockedRows(w) ==
  UNION {{c.id : c \in Of(conn[k].work, "old")} : k \in DOMAIN conn \ {Cur(w)}}

-------------------------------------------------------------------------------
(* UploadFileCommand::Do and MetaDataDB::InsertFile                        *)

Failure == "Fail to insert file"

ReceiveUpload(w) ==
  /\ Receives(w, "upload")
  /\ \E u \in todo :
       /\ job' = [job EXCEPT ![w] = u]
       /\ todo' = todo \ {u}
  /\ UNCHANGED <<tables, row, done, acked>>

\* The statements that change neither table, and those that fail.
PrepareUpload(w) ==
  /\ \/ Is(w, "upload", "connect") /\ Connect(w, "begin")
     \/ Is(w, "upload", "begin") /\ Begin(w, "savepoint", Failure)
     \/ Is(w, "upload", "savepoint") /\ Savepoint(w, "update", Failure)
     \/ \E at \in {"insert", "select", "version"} : Is(w, "upload", at) /\ Fails(w, Failure)
  /\ UNCHANGED uploadVars

\* A change is visible at once only outside a transaction.
Writes(w, changes, next) ==
  /\ Works(w, changes)
  /\ files' = IF InTransaction(w) THEN files ELSE FilesWith(changes)
  /\ versions' = IF InTransaction(w) THEN versions ELSE VersionsWith(changes)
  /\ Goto(w, next)
  /\ UNCHANGED <<todo, answer, acked>>

\* A bug: the old version is not taken down.
UpdateNone(w) ==
  /\ Is(w, "upload", "update")
  /\ Writes(w, {}, "insert")
  /\ UNCHANGED <<nextId, locals>>

\* The update of is_current waits for the locks of other transactions.
UpdateOld(w) ==
  /\ Is(w, "upload", "update")
  /\ Usable(w) => SeenIds(w) \cap LockedRows(w) = {}
  /\ \/ Writes(w, TakeDown(SeenIds(w)), "insert")
     \/ Fails(w, Failure) /\ UNCHANGED <<files, versions, todo, acked>>
  /\ UNCHANGED <<nextId, locals>>

\* A bug: the row is written outside the transaction.
InsertAlone(w) ==
  /\ Is(w, "upload", "insert")
  /\ Usable(w)
  /\ files' = FilesWith(conn[Cur(w)].work \cup NewFile(nextId, job[w]))
  /\ Goto(w, "select")
  /\ nextId' = nextId + 1
  /\ UNCHANGED <<versions, conn, cur, todo, locals, answer, acked>>

InsertNew(w) ==
  /\ Is(w, "upload", "insert")
  /\ Writes(w, NewFile(nextId, job[w]), "select")
  /\ nextId' = nextId + 1
  /\ UNCHANGED locals

\* The row is looked up again by its file. Without a row (another worker has ended
\* the transaction) the value of column 0 is a null pointer, from which a string
\* is made: the process ends.
SelectId(w) ==
  /\ Is(w, "upload", "select")
  /\ Usable(w)
  /\ \/ /\ SeenIds(w) # {}
        /\ Reads(w, "version")
        /\ row' = [row EXCEPT ![w] = Max(SeenIds(w))]
        /\ done' = [done EXCEPT ![w] = 0]
        /\ UNCHANGED <<tables, todo, job, acked>>
     \/ SeenIds(w) = {} /\ Stop /\ UNCHANGED uploadVars

InsertVersion(w) ==
  /\ Is(w, "upload", "version")
  /\ done[w] < Len(job[w].chunks)
  /\ Writes(w, NewVersion(row[w], job[w].chunks[done[w] + 1], done[w] + 1), "version")
  /\ done' = [done EXCEPT ![w] = @ + 1]
  /\ UNCHANGED <<nextId, job, row>>

\* A bug: the last chunk is left out.
CommitOneLess(w) ==
  /\ Is(w, "upload", "version")
  /\ done[w] + 1 = Len(job[w].chunks)
  /\ Commit(w, "ok", Failure)
  /\ files' = FilesWith(conn[Cur(w)].work)
  /\ versions' = VersionsWith(conn[Cur(w)].work)
  /\ acked' = IF answer'[w] = "ok" THEN acked \cup {job[w]} ELSE acked
  /\ UNCHANGED <<nextId, todo, locals>>

CommitWork(w) ==
  /\ Is(w, "upload", "version")
  /\ done[w] = Len(job[w].chunks)
  /\ Commit(w, "ok", Failure)
  /\ files' = FilesWith(conn[Cur(w)].work)
  /\ versions' = VersionsWith(conn[Cur(w)].work)
  /\ acked' = IF answer'[w] = "ok" THEN acked \cup {job[w]} ELSE acked
  /\ UNCHANGED <<nextId, todo, locals>>

-------------------------------------------------------------------------------
UploadStep(w) ==
  \/ PrepareUpload(w) \/ UpdateOld(w) \/ InsertNew(w) \/ SelectId(w)
  \/ InsertVersion(w) \/ CommitWork(w)

-------------------------------------------------------------------------------
(* Properties                                                              *)

Rows == [id: Nat \ {0}, info: FileInfo]

UploadTypeOK ==
  /\ files \subseteq Rows
  /\ \A v \in versions : v.row \in Nat /\ v.chunk \in Nat /\ v.order \in Nat
  /\ nextId \in Nat \ {0}
  /\ todo \subseteq Uploads /\ acked \subseteq Uploads
  /\ job \in [Workers -> Uploads]
  /\ row \in [Workers -> Nat] /\ done \in [Workers -> Nat]

\* What a client reads of row i (MetaDataDB::GetUserFilesByTime).
ChunksOf(i) ==
  LET vs == {v \in versions : v.row = i}
  IN  [k \in 1 .. Cardinality(vs) |->
         (CHOOSE v \in vs : Cardinality({u \in vs : u.order <= v.order}) = k).chunk]

\* Table Files in the order of its ids.
Table ==
  [k \in 1 .. Cardinality(files) |->
     LET f == CHOOSE f \in files : Cardinality({g \in files : g.id <= f.id}) = k
     IN  [f.info EXCEPT !.chunks = ChunksOf(f.id)]]

Atomic == INSTANCE FileTable WITH rows <- Table

\* With one worker, whatever statement fails and wherever the server dies, an
\* upload is seen as a whole or not at all, and the version before it is taken
\* down in the same moment (MetaDataDB::InsertFile, pqExec).
UploadsAreAtomic == Atomic!Spec

\* A device is told that its version is saved only when it is, with every chunk
\* (UploadFileCommand::Do, MetaDataDB::InsertFile).
AckedAreSaved ==
  \A u \in acked :
    \E k \in DOMAIN Table : [Table[k] EXCEPT !.cur = TRUE] = u

\* Each file has one current version, the one saved last (MetaDataDB::InsertFile).
OneIsCurrent ==
  \A f \in {x.info.file : x \in files} :
    {x.id : x \in {y \in files : y.info.file = f /\ y.info.cur}}
      = {Max({x.id : x \in {y \in files : y.info.file = f}})}
===============================================================================
