------------------------------- MODULE CloudSync -------------------------------
(***************************************************************************)
(* Several devices of one user keep a folder in step through the cloud.    *)
(* On each device the watcher turns what the user does in the folder into  *)
(* commands, and a worker runs them one at a time: first the local index,  *)
(* then the chunks go to the storage server, then the metadata go to the   *)
(* sync server; a refresh brings the rows the other devices wrote.         *)
(*                                                                         *)
(* A request and its answer are one step: the command does nothing between *)
(* them, so what others do meanwhile can as well be done before or after.  *)
(* The two cases this would hide, a request that has its effect and an     *)
(* answer that is lost, and a device that dies meanwhile, end in the same  *)
(* states as the failures of the steps below followed by Crash.            *)
(***************************************************************************)
EXTENDS InternalDB

CONSTANTS
  Devices,
  Contents,   \* what a file can hold, cut into blocks by the chunker
  Faults,     \* what may go wrong: "net" a request, "crash" a device
  MaxClock,   \* bound: seconds
  MaxOps      \* bound: things the users do

ASSUME ContentsAssumption == \A c \in Contents : c \in Seq(Blocks) /\ c # <<>>
ASSUME BoundAssumption == MaxClock \in Nat /\ MaxOps \in Nat

VARIABLES
  now,      \* the clock all parties read, in seconds
  rows,     \* sync server: table Files, in the order of its ids
  store,    \* storage server: the collection "chunks"
  db,       \* per device: the local index
  disk,     \* per device: the sync folder
  queue,    \* per device: App::_commands
  pc,       \* per device: where the worker is in the command it runs
  tmp,      \* per device: _lastTMPUpdate
  got,      \* per device: the rows of the refresh answer still to be applied
  info,     \* per device: the FileInfo the command built or downloads
  ops       \* how many things the users have done

vars == <<now, rows, store, db, disk, queue, pc, tmp, got, info, ops>>
server == <<rows, store>>
local == <<tmp, got, info>>

-------------------------------------------------------------------------------
(* Data                                                                    *)

Ops == {"refresh", "create", "modify", "rename", "delete", "download"}

\* by tells whether the user or the program's own deletion raised the event (a
\* history: the code does not know it).
Command == [op: Ops, path: Paths, to: Paths, file: FileIds,
            by: {"user", "sync"}]

DiskFile == [bytes: Seq(Blocks), mtime: Nat]

Absent == [bytes |-> <<>>, mtime |-> 0]

Exists(d, p) == disk[d][p].bytes # <<>>

\* What a command leaves open.
AnyPath == CHOOSE p \in Paths : TRUE
AnyFile == 1

Cmd(op, path, to, file, by) ==
  [op |-> op, path |-> path, to |-> to, file |-> file, by |-> by]

RefreshCmd == Cmd("refresh", AnyPath, AnyPath, AnyFile, "user")

\* App::createFile and the like: the refresh comes first.
Notify(d, c) == queue' = [queue EXCEPT ![d] = @ \o <<RefreshCmd, c>>]

\* The program has started with an empty folder and an empty index.
Init ==
  /\ now = 1
  /\ rows = <<>>
  /\ store = {}
  /\ db = [d \in Devices |-> EmptyDB]
  /\ disk = [d \in Devices |-> [p \in Paths |-> Absent]]
  /\ queue = [d \in Devices |-> <<>>]
  /\ pc = [d \in Devices |-> "idle"]
  /\ tmp = [d \in Devices |-> 0]
  /\ got = [d \in Devices |-> {}]
  /\ info = [d \in Devices |->
               NewInfo(AnyFile, AnyPath, 0, FALSE, 0, <<>>, <<>>)]
  /\ ops = 0

-------------------------------------------------------------------------------
(* The user, in the folder and in the window                               *)

UserStep(d) ==
  /\ ops < MaxOps
  /\ ops' = ops + 1
  /\ UNCHANGED <<now, server, db, pc, local>>

Save(d, p, bytes) ==
  disk' = [disk EXCEPT ![d][p] = [bytes |-> bytes, mtime |-> now]]

UserCreate(d, p, c) ==
  /\ ~ Exists(d, p)
  /\ Save(d, p, c)
  /\ Notify(d, Cmd("create", p, p, AnyFile, "user"))
  /\ UserStep(d)

UserModify(d, p, c) ==
  /\ Exists(d, p)
  /\ disk[d][p].bytes # c
  /\ Save(d, p, c)
  /\ Notify(d, Cmd("modify", p, p, AnyFile, "user"))
  /\ UserStep(d)

UserRename(d, p, q) ==
  /\ Exists(d, p)
  /\ ~ Exists(d, q)
  /\ disk' = [disk EXCEPT ![d][q] = disk[d][p], ![d][p] = Absent]
  /\ Notify(d, Cmd("rename", p, q, AnyFile, "user"))
  /\ UserStep(d)

UserDelete(d, p) ==
  /\ Exists(d, p)
  /\ disk' = [disk EXCEPT ![d][p] = Absent]
  /\ Notify(d, Cmd("delete", p, p, AnyFile, "user"))
  /\ UserStep(d)

UserRefresh(d) ==
  /\ queue' = [queue EXCEPT ![d] = Append(@, RefreshCmd)]
  /\ UNCHANGED disk
  /\ UserStep(d)

\* App::DownloadFile keeps the FileMeta it reads now for the command.
UserDownload(d, x) ==
  /\ x \in db[d].files
  /\ ~ x.down
  /\ queue' = [queue EXCEPT ![d] =
                 Append(@, Cmd("download", x.path, x.path, x.id, "user"))]
  /\ UNCHANGED disk
  /\ UserStep(d)

UserWrites(d) ==
  \/ \E p \in Paths, c \in Contents : UserCreate(d, p, c) \/ UserModify(d, p, c)
  \/ \E p, q \in Paths : UserRename(d, p, q)
  \/ \E p \in Paths : UserDelete(d, p)

UserReads(d) ==
  \/ UserRefresh(d)
  \/ \E x \in db[d].files : UserDownload(d, x)

User(d) == UserWrites(d) \/ UserReads(d)

-------------------------------------------------------------------------------
(* The worker                                                              *)

\* The next command is taken.
Take(d, op) ==
  /\ pc[d] = "idle"
  /\ queue[d] # <<>>
  /\ Head(queue[d]).op = op

Goto(d, at) == pc' = [pc EXCEPT ![d] = at]

Pop(d) == queue' = [queue EXCEPT ![d] = Tail(@)]

\* The process is gone and started again: the database and the folder stay.
Restart(d) ==
  /\ Goto(d, "idle")
  /\ queue' = [queue EXCEPT ![d] = <<>>]
  /\ UNCHANGED <<now, server, db, disk, local, ops>>

\* An exception no one catches (InternalExceptions, filesystem_error).
Abort(d) == Restart(d)

Crash(d) == "crash" \in Faults /\ Restart(d)

-------------------------------------------------------------------------------
(* RefreshCommand                                                          *)

RefreshBegin(d) ==
  /\ Take(d, "refresh")
  /\ tmp' = [tmp EXCEPT ![d] = now]
  /\ Goto(d, "ask")
  /\ Pop(d)
  /\ UNCHANGED <<now, server, db, disk, got, info, ops>>

RefreshAnswer(d) ==
  /\ pc[d] = "ask"
  /\ \/ /\ got' = [got EXCEPT ![d] = GetUserFilesByTime(rows, db[d].last)]
        /\ Goto(d, "apply")
     \/ /\ "net" \in Faults
        /\ Goto(d, "idle")
        /\ UNCHANGED got
  /\ UNCHANGED <<now, server, db, disk, queue, tmp, info, ops>>

\* The watcher is running and reports the file the refresh removes.
ApplyDeleted(d, r) ==
  /\ r.del
  /\ disk' = [disk EXCEPT ![d][r.path] = Absent]
  /\ IF Exists(d, r.path)
       THEN Notify(d, Cmd("delete", r.path, r.path, AnyFile, "sync"))
       ELSE UNCHANGED queue
  /\ db' = [db EXCEPT ![d] = DeleteFile(@, r.file)]

\* The watcher is stopped while the outdated copy is removed.
ApplyToKnown(d, r) ==
  /\ ~ r.del
  /\ IsFileExist(db[d], r.file)
  /\ LET f == SelectFile(db[d], r.file)
     IN  disk' = IF f.down THEN [disk EXCEPT ![d][f.path] = Absent] ELSE disk
  /\ db' = [db EXCEPT ![d] = IF r.chunks = <<>> THEN RenameFileInfo(@, r)
                                                ELSE UpdateFileInfo(@, r)]
  /\ UNCHANGED queue

ApplyToUnknown(d, r) ==
  /\ ~ r.del
  /\ ~ IsFileExist(db[d], r.file)
  /\ db[d].nextFile <= MaxFile
  /\ db' = [db EXCEPT ![d] = InsertFileInfo(@, r)]
  /\ UNCHANGED <<disk, queue>>

RefreshRow(d) ==
  /\ pc[d] = "apply"
  /\ \E i \in got[d] :
       /\ \A j \in got[d] : i <= j
       /\ \/ ApplyDeleted(d, rows[i])
          \/ ApplyToKnown(d, rows[i])
          \/ ApplyToUnknown(d, rows[i])
       /\ got' = [got EXCEPT ![d] = @ \ {i}]
  /\ UNCHANGED <<now, server, pc, tmp, info, ops>>

\* SaveLastUpdate: the time the refresh was begun.
RefreshEnd(d) ==
  /\ pc[d] = "apply"
  /\ got[d] = {}
  /\ db' = [db EXCEPT ![d] = SaveLastUpdate(@, tmp[d])]
  /\ Goto(d, "idle")
  /\ UNCHANGED <<now, server, disk, queue, local, ops>>

-------------------------------------------------------------------------------
(* CreateFileCommand, ModifyFileCommand, RenameFileCommand, DeleteFileCommand *)

\* The command has done its local part: result is what the indexer returned.
Indexed(d, result, at) ==
  /\ db' = [db EXCEPT ![d] = result.db]
  /\ info' = [info EXCEPT ![d] = result.info]
  /\ Goto(d, at)
  /\ Pop(d)
  /\ UNCHANGED <<now, server, disk, tmp, got, ops>>

CreateBegin(d) ==
  /\ Take(d, "create")
  /\ LET p == Head(queue[d]).path IN
     \/ /\ Exists(d, p)
        /\ db[d].nextFile <= MaxFile
        /\ Indexed(d, IndexCreated(db[d], p, disk[d][p].bytes,
                                   disk[d][p].mtime), "chunks")
     \/ ~ Exists(d, p) /\ Abort(d)

ModifyBegin(d) ==
  /\ Take(d, "modify")
  /\ LET p == Head(queue[d]).path IN
     \/ /\ Exists(d, p)
        /\ \E f \in GetFile(db[d], p) :
             Indexed(d, IndexModified(db[d], f, disk[d][p].bytes,
                                      disk[d][p].mtime), "chunks")
     \/ ~ (Exists(d, p) /\ HasPath(db[d], p)) /\ Abort(d)

RenameBegin(d) ==
  /\ Take(d, "rename")
  /\ LET c == Head(queue[d]) IN
     \/ \E f \in GetFile(db[d], c.path) :
          Indexed(d, IndexRenamed(db[d], f, c.to, now), "meta")
     \/ ~ HasPath(db[d], c.path) /\ Abort(d)

DeleteBegin(d) ==
  /\ Take(d, "delete")
  /\ LET p == Head(queue[d]).path IN
     \/ \E f \in GetFile(db[d], p) :
          Indexed(d, IndexDeleted(db[d], f, now), "meta")
     \/ ~ HasPath(db[d], p) /\ Abort(d)

\* An error answer, a lost answer or no connection: the command is over, and
\* the server has inserted the first n of the chunks.
UploadFails(d) ==
  \/ /\ ~ AllAreNew(store, info[d].chunks)
     /\ UNCHANGED store
  \/ /\ "net" \in Faults
     /\ AllAreNew(store, info[d].chunks)
     /\ \E n \in 0 .. Len(info[d].chunks) :
          store' = store \cup ChunkDocs(info[d].chunks, info[d].bytes, n)

\* A bug: the error answer of the storage server is not looked at.
UploadChunksUnchecked(d) ==
  /\ pc[d] = "chunks"
  /\ IF AllAreNew(store, info[d].chunks)
       THEN store' = store \cup ChunkDocs(info[d].chunks, info[d].bytes,
                                          Len(info[d].chunks))
       ELSE UNCHANGED store
  /\ Goto(d, "meta")
  /\ UNCHANGED <<now, rows, db, disk, queue, local, ops>>

\* A bug: an id that is taken is overwritten.
UploadChunksOverwrites(d) ==
  LET docs == ChunkDocs(info[d].chunks, info[d].bytes, Len(info[d].chunks))
  IN  /\ pc[d] = "chunks"
      /\ store' = {c \in store : c.id \notin {e.id : e \in docs}} \cup docs
      /\ Goto(d, "meta")
      /\ UNCHANGED <<now, rows, db, disk, queue, local, ops>>

UploadChunks(d) ==
  /\ pc[d] = "chunks"
  /\ \/ /\ AllAreNew(store, info[d].chunks)
        /\ store' = store \cup ChunkDocs(info[d].chunks, info[d].bytes,
                                         Len(info[d].chunks))
        /\ Goto(d, "meta")
     \/ UploadFails(d) /\ Goto(d, "idle")
  /\ UNCHANGED <<now, rows, db, disk, queue, local, ops>>

\* With a lost answer the row is there too: only what the user is told differs.
UploadMeta(d) ==
  /\ pc[d] = "meta"
  /\ \/ rows' = InsertFile(rows, info[d])
     \/ "net" \in Faults /\ UNCHANGED rows
  /\ Goto(d, "idle")
  /\ UNCHANGED <<now, store, db, disk, queue, local, ops>>

-------------------------------------------------------------------------------
(* DownloadFileCommand                                                     *)

DownloadAsk(d) ==
  /\ Take(d, "download")
  /\ Pop(d)
  /\ LET c   == Head(queue[d])
         ids == db[d].chunks[c.file]
     IN  \/ /\ CanGetChunk(store, ids)
            /\ info' = [info EXCEPT ![d] = [@ EXCEPT !.file = c.file, !.path = c.path,
                                              !.bytes = GetChunk(store, ids)]]
            /\ Goto(d, "save")
         \/ /\ ~ CanGetChunk(store, ids) \/ "net" \in Faults
            /\ UNCHANGED <<pc, info>>
  /\ UNCHANGED <<now, server, db, disk, tmp, got, ops>>

\* MergeFile, with the watcher stopped.
DownloadSave(d) ==
  /\ pc[d] = "save"
  /\ Save(d, info[d].path, info[d].bytes)
  /\ db' = [db EXCEPT ![d] = DownloadFile(@, info[d].file)]
  /\ Goto(d, "idle")
  /\ UNCHANGED <<now, server, queue, local, ops>>

-------------------------------------------------------------------------------
Worker(d) ==
  \/ RefreshBegin(d) \/ RefreshAnswer(d) \/ RefreshRow(d) \/ RefreshEnd(d)
  \/ CreateBegin(d) \/ ModifyBegin(d) \/ RenameBegin(d) \/ DeleteBegin(d)
  \/ UploadChunks(d) \/ UploadMeta(d)
  \/ DownloadAsk(d) \/ DownloadSave(d)

Tick ==
  /\ now < MaxClock
  /\ now' = now + 1
  /\ UNCHANGED <<server, db, disk, queue, pc, local, ops>>

Next ==
  \/ Tick
  \/ \E d \in Devices : User(d) \/ Worker(d) \/ Crash(d)

Spec == Init /\ [][Next]_vars

-------------------------------------------------------------------------------
(* Properties of every execution                                           *)

States == {"idle", "ask", "apply", "chunks", "meta", "save"}

\* The type invariant.
TypeOK ==
  /\ now \in Nat /\ ops \in Nat
  /\ rows \in Seq(FileInfo)
  /\ store \subseteq ChunkDoc
  /\ db \in [Devices -> LocalDB]
  /\ disk \in [Devices -> [Paths -> DiskFile]]
  /\ queue \in [Devices -> Seq(Command)]
  /\ pc \in [Devices -> States]
  /\ tmp \in [Devices -> Nat]
  /\ got \in [Devices -> SUBSET Nat]
  /\ \A d \in Devices : got[d] \subseteq DOMAIN rows
  /\ info \in [Devices -> FileInfo]

\* What r names is in the storage, with the bytes r was made from.
Backed(r) ==
  /\ Len(r.chunks) = Len(r.bytes)
  /\ \A k \in DOMAIN r.chunks : [id |-> r.chunks[k], data |-> r.bytes[k]] \in store

ChunkIdsOf(r) == {r.chunks[k] : k \in DOMAIN r.chunks}

\* No row of the metadata server ever names a chunk that is missing from the
\* storage or holds other bytes than the file had when that version was made:
\* chunks go first, an error answer ends the command, and a device whose ids
\* collide with another's is refused (CreateFileCommand::Do, ModifyFileCommand::Do,
\* MongoDB::InsertChunk).
RowsBacked == \A i \in DOMAIN rows : Backed(rows[i])

\* Devices number chunks on their own, yet find_one by id has one answer:
\* InsertChunk refuses an id that is taken.
ChunksUnique == \A c1, c2 \in store : c1.id = c2.id => c1 = c2

\* Two versions never share a chunk, even when two devices gave out the same
\* ids: only the device whose chunks were stored gets to write its row.
VersionsDisjoint ==
  \A i, j \in DOMAIN rows : i # j => ChunkIdsOf(rows[i]) \cap ChunkIdsOf(rows[j]) = {}

\* Exactly the newest row of a file is current, whichever devices wrote its
\* versions (MetaDataDB::InsertFile takes the old one down in its transaction).
OneCurrent ==
  \A i \in DOMAIN rows :
    rows[i].cur <=> ~ \E j \in DOMAIN rows : j > i /\ rows[j].file = rows[i].file

\* The bytes one gets back from the documents S for the chunks of r.
Restored(S, r) == IF CanGetChunk(S, r.chunks) THEN GetChunk(S, r.chunks) ELSE <<>>

backup == [i \in DOMAIN rows |->
             [file |-> rows[i].file, path |-> rows[i].path, ver |-> rows[i].ver,
              del |-> rows[i].del, bytes |-> Restored(store, rows[i])]]

Backup == INSTANCE BackupLog WITH log <- backup

\* Both servers together are a log of versions with their bytes: no upload, by
\* whichever device and with whichever failure, changes what an earlier version
\* restores to (MetaDataDB::InsertFile, MongoDB::InsertChunk).
BackupSpec == Backup!Spec
===============================================================================
