------------------------------ MODULE InternalDB ------------------------------
(***************************************************************************)
(* The index a device keeps in SQLite (tables Files and Chunks, and        *)
(* last_update of table User) and the indexer that fills it. An operator   *)
(* is one call: it takes the database and returns the database after it.   *)
(*                                                                         *)
(* Both id columns are AUTOINCREMENT: an id is never given twice, not even *)
(* when its row was deleted. Chunk rows are grouped by the file they name; *)
(* a file's ids are in the order of insertion, which is the chunk order.   *)
(***************************************************************************)
EXTENDS CloudServers

LocalFile == [id: FileIds, path: Paths, ver: Nat, down: BOOLEAN, date: Nat]

LocalDB == [files: SUBSET LocalFile,
            chunks: [FileIds -> Seq(Nat)],
            nextFile: Nat \ {0}, nextChunk: Nat,
            last: Nat]

DB(files, chunks, nextFile, nextChunk, last) ==
  [files |-> files, chunks |-> chunks, nextFile |-> nextFile,
   nextChunk |-> nextChunk, last |-> last]

\* A bug: the ids of both tables start at 0.
EmptyDBFromZero == DB({}, [f \in FileIds |-> <<>>], 0, 0, 0)

EmptyDB == DB({}, [f \in FileIds |-> <<>>], 1, 1, 0)

Update(files, id, Upd(_)) == {IF x.id = id THEN Upd(x) ELSE x : x \in files}

IsFileExist(db, id) == \E x \in db.files : x.id = id

SelectFile(db, id) == CHOOSE x \in db.files : x.id = id

HasPath(db, path) == \E x \in db.files : x.path = path

\* GetFileId and SelectFile: of several rows with this path the last one counts.
GetFile(db, path) ==
  {x \in db.files :
     x.path = path /\ \A y \in db.files : y.path = path => y.id <= x.id}

\* The ids the next n chunk rows get.
FreshChunks(db, n) == [k \in 1 .. n |-> db.nextChunk + k - 1]

-------------------------------------------------------------------------------
(* Calls of the refresh and download commands                              *)

DeleteFile(db, id) ==
  DB({x \in db.files : x.id # id}, [db.chunks EXCEPT ![id] = <<>>],
     db.nextFile, db.nextChunk, db.last)

DownloadFile(db, id) ==
  DB(Update(db.files, id, LAMBDA x : [x EXCEPT !.down = TRUE]),
     db.chunks, db.nextFile, db.nextChunk, db.last)

\* updateFileMeta: the row takes everything from the server's, and counts as
\* not downloaded (RefreshCommand clears isDownload in every row it gets).
RenameFileInfo(db, r) ==
  DB(Update(db.files, r.file, LAMBDA x : [id |-> x.id, path |-> r.path,
                       ver |-> r.ver, down |-> FALSE, date |-> r.date]),
     db.chunks, db.nextFile, db.nextChunk, db.last)

\* A bug: the old chunk rows are not deleted first.
SetChunksKeepsOld(db, file, n) ==
  DB(db.files, [db.chunks EXCEPT ![file] = @ \o FreshChunks(db, n)],
     db.nextFile, db.nextChunk + n, db.last)

\* insertFileChunksMeta: as many chunk rows as the server's version has, under
\* the server's file id and with ids of this device.
SetChunks(db, file, n) ==
  DB(db.files, [db.chunks EXCEPT ![file] = FreshChunks(db, n)],
     db.nextFile, db.nextChunk + n, db.last)

UpdateFileInfo(db, r) ==
  SetChunks(RenameFileInfo(db, r), r.file, Len(r.chunks))

\* insertFileMeta does not write the server's id: the row gets the next local one.
InsertFileInfo(db, r) ==
  LET row == [id |-> db.nextFile, path |-> r.path, ver |-> r.ver,
              down |-> FALSE, date |-> r.date]
      new == DB(db.files \cup {row}, db.chunks, db.nextFile + 1, db.nextChunk,
                db.last)
  IN  SetChunks(new, r.file, Len(r.chunks))

\* SaveLastUpdate.
SaveLastUpdate(db, date) ==
  DB(db.files, db.chunks, db.nextFile, db.nextChunk, date)

-------------------------------------------------------------------------------
(* Indexer: the database after the call, and the FileInfo it returns       *)

NewInfo(file, path, ver, del, date, chunks, bytes) ==
  [file |-> file, path |-> path, ver |-> ver, del |-> del, cur |-> TRUE,
   date |-> date, chunks |-> chunks, bytes |-> bytes]

IndexCreated(db, path, bytes, mtime) ==
  LET row == [id |-> db.nextFile, path |-> path, ver |-> 1, down |-> TRUE,
              date |-> mtime]
      ids == FreshChunks(db, Len(bytes))
  IN  [db |-> DB(db.files \cup {row}, [db.chunks EXCEPT ![row.id] = @ \o ids],
                 db.nextFile + 1, db.nextChunk + Len(bytes), db.last),
       info |-> NewInfo(row.id, path, 1, FALSE, mtime, ids, bytes)]

IndexModified(db, f, bytes, mtime) ==
  LET upd == DB(Update(db.files, f.id, LAMBDA x :
                         [x EXCEPT !.ver = f.ver + 1, !.date = mtime]),
                db.chunks, db.nextFile, db.nextChunk, db.last)
  IN  [db |-> SetChunks(upd, f.id, Len(bytes)),
       info |-> NewInfo(f.id, f.path, f.ver + 1, FALSE, mtime,
                        FreshChunks(db, Len(bytes)), bytes)]

IndexRenamed(db, f, to, now) ==
  [db |-> DB(Update(db.files, f.id, LAMBDA x :
               [x EXCEPT !.path = to, !.ver = f.ver + 1, !.date = now]),
             db.chunks, db.nextFile, db.nextChunk, db.last),
   info |-> NewInfo(f.id, to, f.ver + 1, FALSE, now, <<>>, <<>>)]

IndexDeleted(db, f, now) ==
  [db |-> DeleteFile(db, f.id),
   info |-> NewInfo(f.id, f.path, f.ver + 1, TRUE, now, <<>>, <<>>)]
===============================================================================
