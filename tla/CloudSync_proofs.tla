---------------------------- MODULE CloudSync_proofs ----------------------------
(***************************************************************************)
(* Proofs about CloudSync, for any number of devices, files and users'     *)
(* operations and with every fault; and about CloudWorkers, whose threads  *)
(* take the steps of CloudSync.                                            *)
(***************************************************************************)
EXTENDS CloudWorkers, FiniteSetTheorems, SequenceTheorems, WellFoundedInduction, TLAPS

-------------------------------------------------------------------------------
(* The calls of the index keep its type                                    *)

LEMMA FileIdsType == AnyFile \in FileIds /\ FileIds \subseteq Nat \ {0}
  BY MaxFileAssumption DEF AnyFile, FileIds

LEMMA AnyPathType == AnyPath \in Paths
  BY PathsAssumption DEF AnyPath

\* AUTOINCREMENT ids for n new chunk rows.
LEMMA FreshChunksType ==
  ASSUME NEW x \in LocalDB, NEW n \in Nat
  PROVE  /\ FreshChunks(x, n) \in Seq(Nat)
         /\ Len(FreshChunks(x, n)) = n
         /\ DOMAIN FreshChunks(x, n) = 1 .. n
         /\ \A i, j \in 1 .. n : FreshChunks(x, n)[i] = FreshChunks(x, n)[j] => i = j
  BY DEF FreshChunks, LocalDB

LEMMA DBType ==
  ASSUME NEW F \in SUBSET LocalFile, NEW C \in [FileIds -> Seq(Nat)],
         NEW n \in Nat \ {0}, NEW m \in Nat, NEW t \in Nat
  PROVE  DB(F, C, n, m, t) \in LocalDB
  BY DEF DB, LocalDB

LEMMA FieldTypes ==
  ASSUME NEW x \in LocalDB
  PROVE  /\ x.files \in SUBSET LocalFile /\ x.chunks \in [FileIds -> Seq(Nat)]
         /\ x.nextFile \in Nat \ {0} /\ x.nextChunk \in Nat /\ x.last \in Nat
  BY DEF LocalDB

LEMMA DeleteFileType ==
  ASSUME NEW x \in LocalDB, NEW id \in FileIds
  PROVE  DeleteFile(x, id) \in LocalDB
  <1>1. {y \in x.files : y.id # id} \in SUBSET LocalFile
    BY FieldTypes
  <1>2. [x.chunks EXCEPT ![id] = <<>>] \in [FileIds -> Seq(Nat)]
    BY FieldTypes
  <1> QED
    BY <1>1, <1>2, FieldTypes, DBType DEF DeleteFile

LEMMA DownloadFileType ==
  ASSUME NEW x \in LocalDB, NEW id \in FileIds
  PROVE  DownloadFile(x, id) \in LocalDB
  <1>1. Update(x.files, id, LAMBDA y : [y EXCEPT !.down = TRUE]) \in SUBSET LocalFile
    BY FieldTypes DEF LocalFile, Update
  <1> QED
    BY <1>1, FieldTypes, DBType DEF DownloadFile

LEMMA RenameFileInfoType ==
  ASSUME NEW x \in LocalDB, NEW r \in FileInfo
  PROVE  RenameFileInfo(x, r) \in LocalDB
  <1>1. ASSUME NEW y \in x.files
        PROVE  [id |-> y.id, path |-> r.path, ver |-> r.ver, down |-> FALSE,
                date |-> r.date] \in LocalFile
    <2>1. y \in LocalFile
      BY FieldTypes
    <2> QED
      BY <2>1 DEF LocalFile, FileInfo
  <1>2. Update(x.files, r.file, LAMBDA y : [id |-> y.id, path |-> r.path,
                  ver |-> r.ver, down |-> FALSE, date |-> r.date]) \in SUBSET LocalFile
    BY <1>1, FieldTypes DEF Update
  <1> QED
    BY <1>2, FieldTypes, DBType DEF RenameFileInfo

LEMMA SetChunksType ==
  ASSUME NEW x \in LocalDB, NEW f \in FileIds, NEW n \in Nat
  PROVE  SetChunks(x, f, n) \in LocalDB
  <1>1. [x.chunks EXCEPT ![f] = FreshChunks(x, n)] \in [FileIds -> Seq(Nat)]
    BY FieldTypes, FreshChunksType
  <1>2. x.nextChunk + n \in Nat
    BY FieldTypes
  <1> QED
    BY <1>1, <1>2, FieldTypes, DBType DEF SetChunks

LEMMA UpdateFileInfoType ==
  ASSUME NEW x \in LocalDB, NEW r \in FileInfo
  PROVE  UpdateFileInfo(x, r) \in LocalDB
  <1>1. r.file \in FileIds /\ Len(r.chunks) \in Nat
    BY DEF FileInfo
  <1> QED
    BY <1>1, RenameFileInfoType, SetChunksType DEF UpdateFileInfo

LEMMA InsertFileInfoType ==
  ASSUME NEW x \in LocalDB, NEW r \in FileInfo, x.nextFile <= MaxFile
  PROVE  InsertFileInfo(x, r) \in LocalDB
  <1> DEFINE row == [id |-> x.nextFile, path |-> r.path, ver |-> r.ver,
                     down |-> FALSE, date |-> r.date]
             new == DB(x.files \cup {row}, x.chunks, x.nextFile + 1, x.nextChunk,
                       x.last)
  <1>1. row \in LocalFile
    BY MaxFileAssumption DEF LocalDB, LocalFile, FileInfo, FileIds
  <1> HIDE DEF row
  <1>2. new \in LocalDB
    <2>1. x.files \cup {row} \in SUBSET LocalFile
      BY <1>1, FieldTypes
    <2>2. x.nextFile + 1 \in Nat \ {0}
      BY FieldTypes
    <2> QED
      BY <2>1, <2>2, FieldTypes, DBType
  <1>3. r.file \in FileIds /\ Len(r.chunks) \in Nat
    BY DEF FileInfo
  <1>4. InsertFileInfo(x, r) = SetChunks(new, r.file, Len(r.chunks))
    BY DEF InsertFileInfo, row
  <1> HIDE DEF new
  <1> QED
    BY <1>2, <1>3, <1>4, SetChunksType

LEMMA SaveLastUpdateType ==
  ASSUME NEW x \in LocalDB, NEW t \in Nat
  PROVE  SaveLastUpdate(x, t) \in LocalDB
  BY FieldTypes, DBType DEF SaveLastUpdate

\* The FileInfo the indexer returns is a current one, has as many chunk ids as
\* there are chunks, no id twice, and no chunks when the file is deleted.
Uploadable(r) ==
  /\ r.cur
  /\ r.del => r.bytes = <<>>
  /\ Len(r.chunks) = Len(r.bytes)
  /\ \A i, j \in DOMAIN r.chunks : r.chunks[i] = r.chunks[j] => i = j

LEMMA IndexCreatedType ==
  ASSUME NEW x \in LocalDB, NEW p \in Paths, NEW c \in Seq(Blocks), NEW t \in Nat,
         x.nextFile <= MaxFile
  PROVE  /\ IndexCreated(x, p, c, t).db \in LocalDB
         /\ IndexCreated(x, p, c, t).info \in FileInfo
         /\ Uploadable(IndexCreated(x, p, c, t).info)
  <1> DEFINE row == [id |-> x.nextFile, path |-> p, ver |-> 1, down |-> TRUE,
                     date |-> t]
             ids == FreshChunks(x, Len(c))
  <1>1. row \in LocalFile /\ x.nextFile \in FileIds
    BY MaxFileAssumption DEF LocalDB, LocalFile, FileIds
  <1>2. /\ ids \in Seq(Nat) /\ Len(ids) = Len(c) /\ DOMAIN ids = 1 .. Len(c)
        /\ \A i, j \in DOMAIN ids : ids[i] = ids[j] => i = j
    <2>1. Len(c) \in Nat
      OBVIOUS
    <2>2. ids \in Seq(Nat) /\ Len(ids) = Len(c) /\ DOMAIN ids = 1 .. Len(c)
      BY <2>1, FreshChunksType
    <2>3. \A i, j \in 1 .. Len(c) : ids[i] = ids[j] => i = j
      BY <2>1, FreshChunksType
    <2> HIDE DEF ids
    <2> QED
      BY <2>2, <2>3
  <1> HIDE DEF ids
  <1>3. IndexCreated(x, p, c, t).info \in FileInfo
    BY <1>1, <1>2 DEF IndexCreated, NewInfo, FileInfo, ids
  <1>4. IndexCreated(x, p, c, t).db \in LocalDB
    <2> DEFINE ch == [x.chunks EXCEPT ![x.nextFile] = @ \o ids]
    <2>1. IndexCreated(x, p, c, t).db =
            DB(x.files \cup {row}, ch, x.nextFile + 1, x.nextChunk + Len(c), x.last)
      BY DEF IndexCreated, ids
    <2>2. x.chunks[x.nextFile] \o ids \in Seq(Nat)
      BY <1>1, <1>2, FieldTypes
    <2>3. ch \in [FileIds -> Seq(Nat)]
      BY <1>1, <2>2, FieldTypes
    <2>4. x.files \cup {row} \in SUBSET LocalFile
      BY <1>1, FieldTypes
    <2>5. x.nextFile + 1 \in Nat \ {0} /\ x.nextChunk + Len(c) \in Nat
      BY FieldTypes
    <2> HIDE DEF ch, row
    <2>6. DB(x.files \cup {row}, ch, x.nextFile + 1, x.nextChunk + Len(c), x.last)
            \in LocalDB
      BY <2>3, <2>4, <2>5, FieldTypes, DBType
    <2> QED
      BY <2>1, <2>6
  <1>5. Uploadable(IndexCreated(x, p, c, t).info)
    BY <1>2 DEF IndexCreated, NewInfo, Uploadable, ids
  <1> QED
    BY <1>3, <1>4, <1>5

LEMMA IndexModifiedType ==
  ASSUME NEW x \in LocalDB, NEW f \in x.files, NEW c \in Seq(Blocks), NEW t \in Nat
  PROVE  /\ IndexModified(x, f, c, t).db \in LocalDB
         /\ IndexModified(x, f, c, t).info \in FileInfo
         /\ Uploadable(IndexModified(x, f, c, t).info)
  <1> DEFINE fs  == Update(x.files, f.id, LAMBDA y :
                             [y EXCEPT !.ver = f.ver + 1, !.date = t])
             upd == DB(fs, x.chunks, x.nextFile, x.nextChunk, x.last)
             ids == FreshChunks(x, Len(c))
  <1>1. f \in LocalFile
    BY FieldTypes
  <1>2. upd \in LocalDB
    <2>1. ASSUME NEW y \in x.files
          PROVE  [y EXCEPT !.ver = f.ver + 1, !.date = t] \in LocalFile
      <3>1. y \in LocalFile
        BY FieldTypes
      <3>2. f.ver + 1 \in Nat
        BY <1>1 DEF LocalFile
      <3> DEFINE v == f.ver + 1
      <3> HIDE DEF v
      <3>3. [y EXCEPT !.ver = v, !.date = t] \in LocalFile
        BY <3>1, <3>2 DEF LocalFile, v
      <3> QED
        BY <3>3 DEF v
    <2>2. fs \in SUBSET LocalFile
      BY <2>1, FieldTypes DEF Update
    <2> HIDE DEF fs
    <2> QED
      BY <2>2, FieldTypes, DBType
  <1>3. /\ ids \in Seq(Nat) /\ Len(ids) = Len(c) /\ DOMAIN ids = 1 .. Len(c)
        /\ \A i, j \in DOMAIN ids : ids[i] = ids[j] => i = j
    <2>1. Len(c) \in Nat
      OBVIOUS
    <2>2. ids \in Seq(Nat) /\ Len(ids) = Len(c) /\ DOMAIN ids = 1 .. Len(c)
      BY <2>1, FreshChunksType
    <2>3. \A i, j \in 1 .. Len(c) : ids[i] = ids[j] => i = j
      BY <2>1, FreshChunksType
    <2> HIDE DEF ids
    <2> QED
      BY <2>2, <2>3
  <1>4. IndexModified(x, f, c, t) =
          [db |-> SetChunks(upd, f.id, Len(c)),
           info |-> NewInfo(f.id, f.path, f.ver + 1, FALSE, t, ids, c)]
    BY DEF IndexModified
  <1> HIDE DEF ids, upd
  <1>5. SetChunks(upd, f.id, Len(c)) \in LocalDB
    BY <1>1, <1>2, SetChunksType DEF LocalFile
  <1>6. NewInfo(f.id, f.path, f.ver + 1, FALSE, t, ids, c) \in FileInfo
    BY <1>1, <1>3 DEF NewInfo, FileInfo, LocalFile
  <1>7. Uploadable(NewInfo(f.id, f.path, f.ver + 1, FALSE, t, ids, c))
    BY <1>3 DEF NewInfo, Uploadable
  <1>8. /\ IndexModified(x, f, c, t).db = SetChunks(upd, f.id, Len(c))
        /\ IndexModified(x, f, c, t).info =
             NewInfo(f.id, f.path, f.ver + 1, FALSE, t, ids, c)
    BY <1>4
  <1> QED
    BY <1>5, <1>6, <1>7, <1>8

LEMMA IndexRenamedType ==
  ASSUME NEW x \in LocalDB, NEW f \in x.files, NEW p \in Paths, NEW t \in Nat
  PROVE  /\ IndexRenamed(x, f, p, t).db \in LocalDB
         /\ IndexRenamed(x, f, p, t).info \in FileInfo
         /\ Uploadable(IndexRenamed(x, f, p, t).info)
  <1> DEFINE fs == Update(x.files, f.id, LAMBDA y :
                     [y EXCEPT !.path = p, !.ver = f.ver + 1, !.date = t])
  <1>1. f \in LocalFile
    BY FieldTypes
  <1>2. fs \in SUBSET LocalFile
    <2>1. ASSUME NEW y \in x.files
          PROVE  [y EXCEPT !.path = p, !.ver = f.ver + 1, !.date = t] \in LocalFile
      <3>1. y \in LocalFile /\ f.ver + 1 \in Nat
        BY <1>1, FieldTypes DEF LocalFile
      <3> DEFINE v == f.ver + 1
      <3> HIDE DEF v
      <3>2. [y EXCEPT !.path = p, !.ver = v, !.date = t] \in LocalFile
        BY <3>1 DEF LocalFile, v
      <3> QED
        BY <3>2 DEF v
    <2> QED
      BY <2>1, FieldTypes DEF Update
  <1>3. IndexRenamed(x, f, p, t) =
          [db |-> DB(fs, x.chunks, x.nextFile, x.nextChunk, x.last),
           info |-> NewInfo(f.id, p, f.ver + 1, FALSE, t, <<>>, <<>>)]
    BY DEF IndexRenamed
  <1>4. NewInfo(f.id, p, f.ver + 1, FALSE, t, <<>>, <<>>) \in FileInfo
    BY <1>1 DEF NewInfo, FileInfo, LocalFile
  <1> HIDE DEF fs
  <1>5. DB(fs, x.chunks, x.nextFile, x.nextChunk, x.last) \in LocalDB
    BY <1>2, FieldTypes, DBType
  <1>6. /\ IndexRenamed(x, f, p, t).db =
             DB(fs, x.chunks, x.nextFile, x.nextChunk, x.last)
        /\ IndexRenamed(x, f, p, t).info =
             NewInfo(f.id, p, f.ver + 1, FALSE, t, <<>>, <<>>)
    BY <1>3
  <1>7. Uploadable(NewInfo(f.id, p, f.ver + 1, FALSE, t, <<>>, <<>>))
    BY DEF Uploadable, NewInfo
  <1> QED
    BY <1>4, <1>5, <1>6, <1>7

LEMMA IndexDeletedType ==
  ASSUME NEW x \in LocalDB, NEW f \in x.files, NEW t \in Nat
  PROVE  /\ IndexDeleted(x, f, t).db \in LocalDB
         /\ IndexDeleted(x, f, t).info \in FileInfo
         /\ Uploadable(IndexDeleted(x, f, t).info)
  <1>1. f \in LocalFile
    BY FieldTypes
  <1> QED
    BY <1>1, DeleteFileType
       DEF IndexDeleted, NewInfo, FileInfo, LocalFile, Uploadable
-------------------------------------------------------------------------------
(* The calls of the servers keep their types                               *)

LEMMA InsertFileType ==
  ASSUME NEW R \in Seq(FileInfo), NEW r \in FileInfo
  PROVE  /\ InsertFile(R, r) \in Seq(FileInfo)
         /\ Len(InsertFile(R, r)) = Len(R) + 1
         /\ InsertFile(R, r)[Len(R) + 1] = r
         /\ \A i \in 1 .. Len(R) :
              InsertFile(R, r)[i] = [R[i] EXCEPT !.cur = R[i].cur /\ R[i].file # r.file]
  <1> DEFINE old == [i \in DOMAIN R |->
                       [R[i] EXCEPT !.cur = R[i].cur /\ R[i].file # r.file]]
  <1>1. DOMAIN R = 1 .. Len(R) /\ Len(R) \in Nat
    OBVIOUS
  <1>2. ASSUME NEW i \in 1 .. Len(R)
        PROVE  [R[i] EXCEPT !.cur = R[i].cur /\ R[i].file # r.file] \in FileInfo
    <2>1. R[i] \in FileInfo
      BY <1>1
    <2> DEFINE b == R[i].cur /\ R[i].file # r.file
    <2>2. b \in BOOLEAN
      BY <2>1 DEF FileInfo
    <2> HIDE DEF b
    <2>3. [R[i] EXCEPT !.cur = b] \in FileInfo
      BY <2>1, <2>2 DEF FileInfo
    <2> QED
      BY <2>3 DEF b
  <1>3. old \in Seq(FileInfo) /\ Len(old) = Len(R)
    BY <1>1, <1>2
  <1>4. InsertFile(R, r) = Append(old, r)
    BY DEF InsertFile
  <1>5. \A i \in 1 .. Len(R) :
          old[i] = [R[i] EXCEPT !.cur = R[i].cur /\ R[i].file # r.file]
    BY <1>1
  <1> HIDE DEF old
  <1> QED
    BY <1>1, <1>3, <1>4, <1>5

LEMMA ChunkDocsType ==
  ASSUME NEW r \in FileInfo, Uploadable(r), NEW n \in 0 .. Len(r.chunks)
  PROVE  ChunkDocs(r.chunks, r.bytes, n) \subseteq ChunkDoc
  BY DEF ChunkDocs, ChunkDoc, FileInfo, Uploadable

LEMMA GetChunkType ==
  ASSUME NEW S \in SUBSET ChunkDoc, NEW ids \in Seq(Nat), CanGetChunk(S, ids)
  PROVE  GetChunk(S, ids) \in Seq(Blocks)
  <1>1. ASSUME NEW k \in DOMAIN ids
        PROVE  (CHOOSE c \in S : c.id = ids[k]).data \in Blocks
    <2>1. PICK c \in S : c.id = ids[k]
      BY DEF CanGetChunk, HasChunk
    <2>2. (CHOOSE e \in S : e.id = ids[k]) \in S
      BY <2>1
    <2> QED
      BY <2>2 DEF ChunkDoc
  <1>2. DOMAIN ids = 1 .. Len(ids) /\ Len(ids) \in Nat
    OBVIOUS
  <1> QED
    BY <1>1, <1>2 DEF GetChunk

-------------------------------------------------------------------------------
(* Type correctness                                                        *)

\* A command that is about to upload holds a FileInfo of the indexer.
TypeInv ==
  /\ TypeOK
  /\ \A d \in Devices : pc[d] \in {"chunks", "meta"} => Uploadable(info[d])

LEMMA CmdType ==
  ASSUME NEW op \in Ops, NEW p \in Paths, NEW q \in Paths, NEW f \in FileIds,
         NEW by \in {"user", "sync"}
  PROVE  Cmd(op, p, q, f, by) \in Command
  BY DEF Cmd, Command

LEMMA RefreshCmdType == RefreshCmd \in Command
  BY CmdType, AnyPathType, FileIdsType DEF RefreshCmd, Ops

LEMMA NotifyType ==
  ASSUME queue \in [Devices -> Seq(Command)], NEW d \in Devices,
         NEW c \in Command, Notify(d, c)
  PROVE  queue' \in [Devices -> Seq(Command)]
  <1>1. <<RefreshCmd, c>> \in Seq(Command)
    BY RefreshCmdType
  <1>2. queue[d] \o <<RefreshCmd, c>> \in Seq(Command)
    BY <1>1
  <1> QED
    BY <1>2 DEF Notify

LEMMA AbsentType == Absent \in DiskFile
  BY DEF Absent, DiskFile

LEMMA SaveType ==
  ASSUME disk \in [Devices -> [Paths -> DiskFile]], now \in Nat, NEW d \in Devices,
         NEW p \in Paths, NEW c \in Seq(Blocks), Save(d, p, c)
  PROVE  disk' \in [Devices -> [Paths -> DiskFile]]
  <1>1. [bytes |-> c, mtime |-> now] \in DiskFile
    BY DEF DiskFile
  <1> QED
    BY <1>1 DEF Save

LEMMA InitTypeInv == Init => TypeInv
  <1> SUFFICES ASSUME Init PROVE TypeInv
    OBVIOUS
  <1>1. EmptyDB \in LocalDB
    <2> DEFINE C == [f \in FileIds |-> <<>>]
    <2>1. C \in [FileIds -> Seq(Nat)]
      OBVIOUS
    <2>2. EmptyDB = DB({}, C, 1, 1, 0)
      BY DEF EmptyDB
    <2> HIDE DEF C
    <2>3. DB({}, C, 1, 1, 0) \in LocalDB
      BY <2>1, DBType
    <2> QED
      BY <2>2, <2>3
  <1>2. NewInfo(AnyFile, AnyPath, 0, FALSE, 0, <<>>, <<>>) \in FileInfo
    BY FileIdsType, AnyPathType DEF NewInfo, FileInfo
  <1>3. now \in Nat /\ ops \in Nat /\ rows \in Seq(FileInfo) /\ store \subseteq ChunkDoc
    BY DEF Init
  <1>4. /\ queue \in [Devices -> Seq(Command)] /\ pc \in [Devices -> States]
        /\ tmp \in [Devices -> Nat] /\ got \in [Devices -> SUBSET Nat]
        /\ \A d \in Devices : got[d] \subseteq DOMAIN rows
    BY DEF Init, States
  <1>5. /\ db \in [Devices -> LocalDB] /\ info \in [Devices -> FileInfo]
        /\ disk \in [Devices -> [Paths -> DiskFile]]
    BY <1>1, <1>2, AbsentType DEF Init
  <1> QED
    BY <1>3, <1>4, <1>5 DEF Init, TypeInv, TypeOK

LEMMA UserTypeInv ==
  ASSUME TypeInv, NEW d \in Devices, User(d)
  PROVE  TypeInv'
  <1> USE DEF TypeInv
  <1>1. ASSUME UserStep(d), disk' \in [Devices -> [Paths -> DiskFile]],
               queue' \in [Devices -> Seq(Command)]
        PROVE  TypeInv'
    BY <1>1 DEF TypeOK, UserStep, server, local
  <1>2. ASSUME NEW p \in Paths, NEW c \in Contents, UserCreate(d, p, c)
        PROVE  TypeInv'
    <2>1. Cmd("create", p, p, AnyFile, "user") \in Command
      BY CmdType, FileIdsType DEF Ops
    <2>2. c \in Seq(Blocks)
      BY ContentsAssumption
    <2> QED
      BY <1>1, <1>2, <2>1, <2>2, NotifyType, SaveType DEF UserCreate, TypeOK
  <1>3. ASSUME NEW p \in Paths, NEW c \in Contents, UserModify(d, p, c)
        PROVE  TypeInv'
    <2>1. Cmd("modify", p, p, AnyFile, "user") \in Command
      BY CmdType, FileIdsType DEF Ops
    <2>2. c \in Seq(Blocks)
      BY ContentsAssumption
    <2> QED
      BY <1>1, <1>3, <2>1, <2>2, NotifyType, SaveType DEF UserModify, TypeOK
  <1>4. ASSUME NEW p \in Paths, NEW q \in Paths, UserRename(d, p, q)
        PROVE  TypeInv'
    <2>1. Cmd("rename", p, q, AnyFile, "user") \in Command
      BY CmdType, FileIdsType DEF Ops
    <2>2. disk' \in [Devices -> [Paths -> DiskFile]]
      BY <1>4, AbsentType DEF UserRename, TypeOK
    <2> QED
      BY <1>1, <1>4, <2>1, <2>2, NotifyType DEF UserRename, TypeOK
  <1>5. ASSUME NEW p \in Paths, UserDelete(d, p)
        PROVE  TypeInv'
    <2>1. Cmd("delete", p, p, AnyFile, "user") \in Command
      BY CmdType, FileIdsType DEF Ops
    <2>2. disk' \in [Devices -> [Paths -> DiskFile]]
      BY <1>5, AbsentType DEF UserDelete, TypeOK
    <2> QED
      BY <1>1, <1>5, <2>1, <2>2, NotifyType DEF UserDelete, TypeOK
  <1>6. ASSUME UserRefresh(d)
        PROVE  TypeInv'
    <2>1. queue' \in [Devices -> Seq(Command)]
      BY <1>6, RefreshCmdType DEF UserRefresh, TypeOK
    <2> QED
      BY <1>1, <1>6, <2>1 DEF UserRefresh, TypeOK
  <1>7. ASSUME NEW x \in db[d].files, UserDownload(d, x)
        PROVE  TypeInv'
    <2>1. x \in LocalFile
      BY FieldTypes DEF TypeOK
    <2>2. Cmd("download", x.path, x.path, x.id, "user") \in Command
      BY <2>1, CmdType DEF Ops, LocalFile
    <2>3. queue' \in [Devices -> Seq(Command)]
      BY <1>7, <2>2 DEF UserDownload, TypeOK
    <2> QED
      BY <1>1, <1>7, <2>3 DEF UserDownload, TypeOK
  <1> QED
    BY <1>2, <1>3, <1>4, <1>5, <1>6, <1>7 DEF User, UserWrites, UserReads
LEMMA PopType ==
  ASSUME queue \in [Devices -> Seq(Command)], NEW d \in Devices,
         queue[d] # <<>>, Pop(d)
  PROVE  queue' \in [Devices -> Seq(Command)]
  <1>1. Tail(queue[d]) \in Seq(Command)
    OBVIOUS
  <1> QED
    BY <1>1 DEF Pop

LEMMA HeadType ==
  ASSUME queue \in [Devices -> Seq(Command)], NEW d \in Devices, queue[d] # <<>>
  PROVE  Head(queue[d]) \in Command
  OBVIOUS

LEMMA RestartTypeInv ==
  ASSUME TypeInv, NEW d \in Devices, Restart(d)
  PROVE  TypeInv'
  <1>1. queue' \in [Devices -> Seq(Command)] /\ pc' \in [Devices -> States]
    BY DEF TypeInv, TypeOK, Restart, Goto, States
  <1>2. TypeOK'
    BY <1>1 DEF TypeInv, TypeOK, Restart, server, local
  <1> QED
    BY <1>2 DEF TypeInv, TypeOK, Restart, Goto, local

LEMMA RefreshTypeInv ==
  ASSUME TypeInv, NEW d \in Devices,
         RefreshBegin(d) \/ RefreshAnswer(d) \/ RefreshEnd(d)
  PROVE  TypeInv'
  <1>1. CASE RefreshBegin(d)
    <2>1. queue' \in [Devices -> Seq(Command)]
      BY <1>1, PopType DEF TypeInv, TypeOK, RefreshBegin, Take
    <2>2. pc' \in [Devices -> States] /\ tmp' \in [Devices -> Nat]
      BY <1>1 DEF TypeInv, TypeOK, RefreshBegin, Goto, States
    <2>3. TypeOK'
      BY <1>1, <2>1, <2>2 DEF TypeInv, TypeOK, RefreshBegin, server
    <2> QED
      BY <1>1, <2>3 DEF TypeInv, TypeOK, RefreshBegin, Goto
  <1>2. CASE RefreshAnswer(d)
    <2>1. pc' \in [Devices -> States]
      BY <1>2 DEF TypeInv, TypeOK, RefreshAnswer, Goto, States
    <2>2. GetUserFilesByTime(rows, db[d].last) \in SUBSET Nat
      BY DEF TypeInv, TypeOK, GetUserFilesByTime
    <2>3. got' \in [Devices -> SUBSET Nat]
      BY <1>2, <2>2 DEF TypeInv, TypeOK, RefreshAnswer
    <2>4. \A e \in Devices : got'[e] \subseteq DOMAIN rows
      BY <1>2 DEF TypeInv, TypeOK, RefreshAnswer, GetUserFilesByTime
    <2>5. TypeOK'
      BY <1>2, <2>1, <2>3, <2>4 DEF TypeInv, TypeOK, RefreshAnswer, server
    <2> QED
      BY <1>2, <2>5 DEF TypeInv, TypeOK, RefreshAnswer, Goto
  <1>3. CASE RefreshEnd(d)
    <2>1. pc' \in [Devices -> States]
      BY <1>3 DEF TypeInv, TypeOK, RefreshEnd, Goto, States
    <2>2. db' \in [Devices -> LocalDB]
      BY <1>3, SaveLastUpdateType DEF TypeInv, TypeOK, RefreshEnd
    <2>3. TypeOK'
      BY <1>3, <2>1, <2>2 DEF TypeInv, TypeOK, RefreshEnd, server, local
    <2> QED
      BY <1>3, <2>3 DEF TypeInv, TypeOK, RefreshEnd, Goto, local
  <1> QED
    BY <1>1, <1>2, <1>3

LEMMA SelectFileType ==
  ASSUME NEW x \in LocalDB, NEW id, IsFileExist(x, id)
  PROVE  SelectFile(x, id) \in x.files /\ SelectFile(x, id) \in LocalFile
  BY FieldTypes DEF IsFileExist, SelectFile

LEMMA RefreshRowTypeInv ==
  ASSUME TypeInv, NEW d \in Devices, RefreshRow(d)
  PROVE  TypeInv'
  <1> USE DEF TypeInv
  <1>1. PICK i \in got[d] :
          /\ ApplyDeleted(d, rows[i]) \/ ApplyToKnown(d, rows[i])
               \/ ApplyToUnknown(d, rows[i])
          /\ got' = [got EXCEPT ![d] = @ \ {i}]
    BY DEF RefreshRow
  <1> DEFINE r == rows[i]
  <1>2. r \in FileInfo
    BY DEF TypeOK
  <1> HIDE DEF r
  <1>3. db' \in [Devices -> LocalDB] /\ queue' \in [Devices -> Seq(Command)]
        /\ disk' \in [Devices -> [Paths -> DiskFile]]
    <2>1. CASE ApplyDeleted(d, r)
      <3>1. r.path \in Paths /\ r.file \in FileIds
        BY <1>2 DEF FileInfo
      <3>2. DeleteFile(db[d], r.file) \in LocalDB
        BY <3>1, DeleteFileType DEF TypeOK
      <3>3. Cmd("delete", r.path, r.path, AnyFile, "sync") \in Command
        BY <3>1, CmdType, FileIdsType DEF Ops
      <3>4. queue' \in [Devices -> Seq(Command)]
        BY <2>1, <3>3, NotifyType DEF ApplyDeleted, TypeOK
      <3>5. disk' \in [Devices -> [Paths -> DiskFile]]
        BY <2>1, <3>1, AbsentType DEF ApplyDeleted, TypeOK
      <3> QED
        BY <2>1, <3>2, <3>4, <3>5 DEF ApplyDeleted, TypeOK
    <2>2. CASE ApplyToKnown(d, r)
      <3>1. SelectFile(db[d], r.file).path \in Paths
        BY <2>2, SelectFileType DEF ApplyToKnown, TypeOK, LocalFile
      <3>2. RenameFileInfo(db[d], r) \in LocalDB /\ UpdateFileInfo(db[d], r) \in LocalDB
        BY <1>2, RenameFileInfoType, UpdateFileInfoType DEF TypeOK
      <3>3. disk' \in [Devices -> [Paths -> DiskFile]]
        BY <2>2, <3>1, AbsentType DEF ApplyToKnown, TypeOK
      <3>4. db' \in [Devices -> LocalDB]
        BY <2>2, <3>2 DEF ApplyToKnown, TypeOK
      <3> QED
        BY <2>2, <3>3, <3>4 DEF ApplyToKnown, TypeOK
    <2>3. CASE ApplyToUnknown(d, r)
      <3>1. InsertFileInfo(db[d], r) \in LocalDB
        BY <1>2, <2>3, InsertFileInfoType DEF ApplyToUnknown, TypeOK
      <3> QED
        BY <2>3, <3>1 DEF ApplyToUnknown, TypeOK
    <2> QED
      BY <1>1, <2>1, <2>2, <2>3 DEF r
  <1>4. got' \in [Devices -> SUBSET Nat] /\ \A e \in Devices : got'[e] \subseteq DOMAIN rows
    BY <1>1 DEF TypeOK
  <1>5. TypeOK'
    BY <1>3, <1>4 DEF TypeOK, RefreshRow, server
  <1> QED
    BY <1>5 DEF TypeOK, RefreshRow
\* The uploading commands, once the indexer has returned.
LEMMA IndexedTypeInv ==
  ASSUME TypeInv, NEW d \in Devices, queue[d] # <<>>, NEW result,
         result.db \in LocalDB, result.info \in FileInfo, Uploadable(result.info),
         NEW at \in {"chunks", "meta"}, Indexed(d, result, at)
  PROVE  TypeInv'
  <1>1. queue' \in [Devices -> Seq(Command)]
    BY PopType DEF TypeInv, TypeOK, Indexed
  <1>2. /\ db' \in [Devices -> LocalDB] /\ info' \in [Devices -> FileInfo]
        /\ pc' \in [Devices -> States]
    BY DEF TypeInv, TypeOK, Indexed, Goto, States
  <1>3. TypeOK'
    BY <1>1, <1>2 DEF TypeInv, TypeOK, Indexed, server
  <1>4. \A e \in Devices : pc'[e] \in {"chunks", "meta"} => Uploadable(info'[e])
    BY DEF TypeInv, TypeOK, Indexed, Goto
  <1> QED
    BY <1>3, <1>4 DEF TypeInv, Uploadable

LEMMA GetFileType ==
  ASSUME NEW x \in LocalDB, NEW p, NEW f \in GetFile(x, p)
  PROVE  f \in x.files
  BY DEF GetFile

LEMMA CommandTypeInv ==
  ASSUME TypeInv, NEW d \in Devices,
         CreateBegin(d) \/ ModifyBegin(d) \/ RenameBegin(d) \/ DeleteBegin(d)
  PROVE  TypeInv'
  <1> DEFINE c == Head(queue[d])
  <1>1. queue[d] # <<>>
    BY DEF CreateBegin, ModifyBegin, RenameBegin, DeleteBegin, Take
  <1>2. c.path \in Paths /\ c.to \in Paths
    BY <1>1, HeadType DEF TypeInv, TypeOK, Command
  <1>3. db[d] \in LocalDB /\ now \in Nat
    BY DEF TypeInv, TypeOK
  <1>4. /\ disk[d][c.path].bytes \in Seq(Blocks)
        /\ disk[d][c.path].mtime \in Nat
    BY <1>2 DEF TypeInv, TypeOK, DiskFile
  <1>5. CASE Abort(d)
    BY <1>5, RestartTypeInv DEF Abort
  <1> HIDE DEF c
  <1>6. ASSUME db[d].nextFile <= MaxFile,
               Indexed(d, IndexCreated(db[d], c.path, disk[d][c.path].bytes,
                                       disk[d][c.path].mtime), "chunks")
        PROVE  TypeInv'
    BY <1>1, <1>2, <1>3, <1>4, <1>6, IndexCreatedType, IndexedTypeInv
  <1>7. ASSUME NEW f \in GetFile(db[d], c.path),
               Indexed(d, IndexModified(db[d], f, disk[d][c.path].bytes,
                                        disk[d][c.path].mtime), "chunks")
        PROVE  TypeInv'
    BY <1>1, <1>3, <1>4, <1>7, GetFileType, IndexModifiedType, IndexedTypeInv
  <1>8. ASSUME NEW f \in GetFile(db[d], c.path),
               Indexed(d, IndexRenamed(db[d], f, c.to, now), "meta")
        PROVE  TypeInv'
    BY <1>1, <1>2, <1>3, <1>8, GetFileType, IndexRenamedType, IndexedTypeInv
  <1>9. ASSUME NEW f \in GetFile(db[d], c.path),
               Indexed(d, IndexDeleted(db[d], f, now), "meta")
        PROVE  TypeInv'
    BY <1>1, <1>3, <1>9, GetFileType, IndexDeletedType, IndexedTypeInv
  <1> QED
    BY <1>5, <1>6, <1>7, <1>8, <1>9
       DEF CreateBegin, ModifyBegin, RenameBegin, DeleteBegin, c

LEMMA UploadTypeInv ==
  ASSUME TypeInv, NEW d \in Devices, UploadChunks(d) \/ UploadMeta(d)
  PROVE  TypeInv'
  <1>1. info[d] \in FileInfo /\ rows \in Seq(FileInfo)
    BY DEF TypeInv, TypeOK
  <1>2. CASE UploadChunks(d)
    <2>1. Uploadable(info[d])
      BY <1>2 DEF TypeInv, UploadChunks
    <2>2. Len(info[d].chunks) \in 0 .. Len(info[d].chunks)
      BY <1>1 DEF FileInfo
    <2>3. \A n \in 0 .. Len(info[d].chunks) :
            ChunkDocs(info[d].chunks, info[d].bytes, n) \subseteq ChunkDoc
      BY <1>1, <2>1, ChunkDocsType
    <2>4. store' \subseteq ChunkDoc
      BY <1>2, <2>2, <2>3 DEF UploadChunks, UploadFails, TypeInv, TypeOK
    <2>5. pc' \in [Devices -> States]
      BY <1>2 DEF UploadChunks, TypeInv, TypeOK, Goto, States
    <2>6. TypeOK'
      BY <1>2, <2>4, <2>5 DEF UploadChunks, TypeInv, TypeOK, local
    <2>7. \A e \in Devices : pc'[e] \in {"chunks", "meta"} => Uploadable(info[e])
      BY <1>2, <2>1 DEF UploadChunks, TypeInv, TypeOK, Goto
    <2> QED
      BY <1>2, <2>6, <2>7 DEF UploadChunks, TypeInv, local
  <1>3. CASE UploadMeta(d)
    <2>1. rows' \in Seq(FileInfo) /\ DOMAIN rows \subseteq DOMAIN rows'
      BY <1>1, <1>3, InsertFileType DEF UploadMeta
    <2>2. pc' \in [Devices -> States]
      BY <1>3 DEF UploadMeta, TypeInv, TypeOK, Goto, States
    <2>3. TypeOK'
      BY <1>3, <2>1, <2>2 DEF UploadMeta, TypeInv, TypeOK, local
    <2> QED
      BY <1>3, <2>3 DEF UploadMeta, TypeInv, TypeOK, Goto, local
  <1> QED
    BY <1>2, <1>3

LEMMA DownloadTypeInv ==
  ASSUME TypeInv, NEW d \in Devices, DownloadAsk(d) \/ DownloadSave(d)
  PROVE  TypeInv'
  <1>1. info[d] \in FileInfo /\ db[d] \in LocalDB /\ now \in Nat
    BY DEF TypeInv, TypeOK
  <1>2. CASE DownloadAsk(d)
    <2> DEFINE c == Head(queue[d])
               ids == db[d].chunks[c.file]
    <2>1. queue[d] # <<>>
      BY <1>2 DEF DownloadAsk, Take
    <2>2. c.path \in Paths /\ c.file \in FileIds
      BY <2>1, HeadType DEF TypeInv, TypeOK, Command
    <2>3. ids \in Seq(Nat)
      BY <1>1, <2>2, FieldTypes
    <2>4. queue' \in [Devices -> Seq(Command)]
      BY <1>2, <2>1, PopType DEF DownloadAsk, TypeInv, TypeOK
    <2>5. pc' \in [Devices -> States]
      BY <1>2 DEF DownloadAsk, TypeInv, TypeOK, Goto, States
    <2>6. CanGetChunk(store, ids) => GetChunk(store, ids) \in Seq(Blocks)
      BY <2>3, GetChunkType DEF TypeInv, TypeOK
    <2> HIDE DEF c, ids
    <2>7. \/ UNCHANGED info
          \/ /\ CanGetChunk(store, ids)
             /\ info' = [info EXCEPT ![d] =
                           [info[d] EXCEPT !.file = c.file, !.path = c.path,
                                           !.bytes = GetChunk(store, ids)]]
      BY <1>2 DEF DownloadAsk, c, ids
    <2>8. CanGetChunk(store, ids) =>
            [info[d] EXCEPT !.file = c.file, !.path = c.path,
                            !.bytes = GetChunk(store, ids)] \in FileInfo
      <3> DEFINE B == GetChunk(store, ids)
      <3> HIDE DEF B
      <3> QED
        BY <1>1, <2>2, <2>6 DEF FileInfo, B
    <2>9. info' \in [Devices -> FileInfo]
      BY <2>7, <2>8 DEF TypeInv, TypeOK
    <2>10. TypeOK'
      BY <1>2, <2>4, <2>5, <2>9 DEF DownloadAsk, TypeInv, TypeOK, server
    <2>11. \A e \in Devices : pc'[e] \in {"chunks", "meta"} =>
             pc[e] \in {"chunks", "meta"} /\ info'[e] = info[e]
      BY <1>2, <2>7 DEF DownloadAsk, Take, Goto, TypeInv, TypeOK
    <2> QED
      BY <2>10, <2>11 DEF TypeInv
  <1>3. CASE DownloadSave(d)
    <2>1. /\ info[d].path \in Paths /\ info[d].file \in FileIds
          /\ info[d].bytes \in Seq(Blocks)
      BY <1>1 DEF FileInfo
    <2>2. disk' \in [Devices -> [Paths -> DiskFile]]
      BY <1>1, <1>3, <2>1, SaveType DEF DownloadSave, TypeInv, TypeOK
    <2>3. db' \in [Devices -> LocalDB]
      BY <1>1, <1>3, <2>1, DownloadFileType DEF DownloadSave, TypeInv, TypeOK
    <2>4. pc' \in [Devices -> States]
      BY <1>3 DEF DownloadSave, TypeInv, TypeOK, Goto, States
    <2>5. TypeOK'
      BY <1>3, <2>2, <2>3, <2>4 DEF DownloadSave, TypeInv, TypeOK, server, local
    <2> QED
      BY <1>3, <2>5 DEF DownloadSave, TypeInv, TypeOK, Goto, local
  <1> QED
    BY <1>2, <1>3

LEMMA NextTypeInv ==
  ASSUME TypeInv, [Next]_vars
  PROVE  TypeInv'
  <1>1. CASE Tick
    BY <1>1 DEF Tick, TypeInv, TypeOK, server, local
  <1>2. ASSUME NEW d \in Devices, User(d)
        PROVE  TypeInv'
    BY <1>2, UserTypeInv
  <1>3. ASSUME NEW d \in Devices, Worker(d)
        PROVE  TypeInv'
    BY <1>3, RefreshTypeInv, RefreshRowTypeInv, CommandTypeInv, UploadTypeInv,
       DownloadTypeInv DEF Worker
  <1>4. ASSUME NEW d \in Devices, Crash(d)
        PROVE  TypeInv'
    BY <1>4, RestartTypeInv DEF Crash
  <1>5. CASE UNCHANGED vars
    BY <1>5 DEF vars, TypeInv, TypeOK, server, local
  <1> QED
    BY <1>1, <1>2, <1>3, <1>4, <1>5 DEF Next

\* Every variable keeps its type, whatever the users, the workers and the faults
\* do; the index operations of InternalDB and Indexer are total on it.
THEOREM TypeCorrect == Spec => []TypeOK
  <1>1. TypeInv => TypeOK
    BY DEF TypeInv
  <1> QED
    BY InitTypeInv, NextTypeInv, <1>1, PTL DEF Spec

-------------------------------------------------------------------------------
(* What both servers hold together: the inductive invariant                 *)

\* Between its chunks and its metadata a command has all its chunks stored,
\* under ids no row and no other command in this position has.
PendingBacked == \A d \in Devices : pc[d] = "meta" => Backed(info[d])

PendingApart ==
  /\ \A d \in Devices, i \in DOMAIN rows :
       pc[d] = "meta" => ChunkIdsOf(info[d]) \cap ChunkIdsOf(rows[i]) = {}
  /\ \A d, e \in Devices :
       d # e /\ pc[d] = "meta" /\ pc[e] = "meta" =>
         ChunkIdsOf(info[d]) \cap ChunkIdsOf(info[e]) = {}

StorageInv ==
  /\ TypeInv
  /\ RowsBacked
  /\ ChunksUnique
  /\ PendingBacked

VersionsInv ==
  /\ VersionsDisjoint
  /\ PendingApart

CloudInv ==
  /\ StorageInv
  /\ VersionsInv
  /\ OneCurrent

-------------------------------------------------------------------------------
(* Steps that leave the servers alone                                      *)

\* No command gets between its chunks and its metadata but one without chunks.
NoNewPending ==
  \A d \in Devices : pc'[d] = "meta" =>
    \/ pc[d] = "meta" /\ info'[d] = info[d]
    \/ info'[d].chunks = <<>> /\ info'[d].bytes = <<>>

LEMMA ServersUntouched ==
  ASSUME CloudInv, TypeInv', UNCHANGED server, NoNewPending
  PROVE  CloudInv'
  <1> USE DEF CloudInv, StorageInv, VersionsInv, server
  <1>1. RowsBacked' /\ ChunksUnique' /\ VersionsDisjoint' /\ OneCurrent'
    <2>1. RowsBacked'
      BY DEF RowsBacked, Backed
    <2>2. ChunksUnique' /\ OneCurrent'
      BY DEF ChunksUnique, OneCurrent
    <2>3. VersionsDisjoint'
      BY DEF VersionsDisjoint, ChunkIdsOf
    <2> QED
      BY <2>1, <2>2, <2>3
  <1>2. ASSUME NEW d \in Devices, info'[d].chunks = <<>>, info'[d].bytes = <<>>
        PROVE  Backed(info[d])' /\ ChunkIdsOf(info'[d]) = {}
    BY <1>2 DEF Backed, ChunkIdsOf
  <1>3. PendingBacked'
    <2>1. ASSUME NEW d \in Devices, pc[d] = "meta", info'[d] = info[d]
          PROVE  Backed(info[d])'
      BY <2>1 DEF PendingBacked, Backed
    <2> QED
      BY <1>2, <2>1 DEF PendingBacked, NoNewPending
  <1>4. \A d \in Devices : pc'[d] = "meta" =>
          \/ pc[d] = "meta" /\ info'[d] = info[d]
          \/ ChunkIdsOf(info'[d]) = {}
    BY <1>2 DEF NoNewPending
  <1>5. PendingApart'
    <2>1. ASSUME NEW d \in Devices, NEW i \in DOMAIN rows, pc'[d] = "meta"
          PROVE  ChunkIdsOf(info'[d]) \cap ChunkIdsOf(rows'[i]) = {}
      BY <1>4, <2>1 DEF PendingApart
    <2>2. ASSUME NEW d \in Devices, NEW e \in Devices,
                 d # e, pc'[d] = "meta", pc'[e] = "meta"
          PROVE  ChunkIdsOf(info'[d]) \cap ChunkIdsOf(info'[e]) = {}
      BY <1>4, <2>2 DEF PendingApart
    <2> QED
      BY <2>1, <2>2 DEF PendingApart, ChunkIdsOf
  <1> QED
    BY <1>1, <1>3, <1>5

LEMMA UserLeavesServers ==
  ASSUME TypeInv, NEW d \in Devices, User(d)
  PROVE  UNCHANGED server /\ NoNewPending
  BY DEF User, UserWrites, UserReads, UserCreate, UserModify, UserRename, UserDelete,
         UserRefresh, UserDownload, UserStep, server, local, NoNewPending

LEMMA RestartLeavesServers ==
  ASSUME TypeInv, NEW d \in Devices, Restart(d)
  PROVE  UNCHANGED server /\ NoNewPending
  BY DEF Restart, Goto, server, local, NoNewPending, TypeInv, TypeOK

LEMMA RefreshLeavesServers ==
  ASSUME TypeInv, NEW d \in Devices,
         RefreshBegin(d) \/ RefreshAnswer(d) \/ RefreshRow(d) \/ RefreshEnd(d)
  PROVE  UNCHANGED server /\ NoNewPending
  BY DEF RefreshBegin, RefreshAnswer, RefreshRow, RefreshEnd, Goto, server, local,
         NoNewPending, TypeInv, TypeOK

LEMMA DownloadLeavesServers ==
  ASSUME TypeInv, NEW d \in Devices, DownloadAsk(d) \/ DownloadSave(d)
  PROVE  UNCHANGED server /\ NoNewPending
  BY DEF DownloadAsk, DownloadSave, Take, Goto, server, local, NoNewPending,
         TypeInv, TypeOK

LEMMA CommandLeavesServers ==
  ASSUME TypeInv, NEW d \in Devices,
         CreateBegin(d) \/ ModifyBegin(d) \/ RenameBegin(d) \/ DeleteBegin(d)
  PROVE  UNCHANGED server /\ NoNewPending
  <1>1. CASE Abort(d)
    BY <1>1, RestartLeavesServers DEF Abort
  <1>2. ASSUME NEW result, Indexed(d, result, "chunks")
        PROVE  UNCHANGED server /\ NoNewPending
    BY <1>2 DEF Indexed, Goto, server, NoNewPending, TypeInv, TypeOK
  <1>3. ASSUME NEW result, Indexed(d, result, "meta"),
               result.info.chunks = <<>> /\ result.info.bytes = <<>>
        PROVE  UNCHANGED server /\ NoNewPending
    BY <1>3 DEF Indexed, Goto, server, NoNewPending, TypeInv, TypeOK
  <1>4. CASE CreateBegin(d) \/ ModifyBegin(d)
    BY <1>1, <1>2, <1>4 DEF CreateBegin, ModifyBegin
  <1>5. CASE RenameBegin(d)
    <2>1. ASSUME NEW f, NEW q
          PROVE  /\ IndexRenamed(db[d], f, q, now).info.chunks = <<>>
                 /\ IndexRenamed(db[d], f, q, now).info.bytes = <<>>
      BY DEF IndexRenamed, NewInfo
    <2> QED
      BY <1>1, <1>3, <1>5, <2>1 DEF RenameBegin
  <1>6. CASE DeleteBegin(d)
    <2>1. ASSUME NEW f
          PROVE  /\ IndexDeleted(db[d], f, now).info.chunks = <<>>
                 /\ IndexDeleted(db[d], f, now).info.bytes = <<>>
      BY DEF IndexDeleted, NewInfo
    <2> QED
      BY <1>1, <1>3, <1>6, <2>1 DEF DeleteBegin
  <1> QED
    BY <1>4, <1>5, <1>6
-------------------------------------------------------------------------------
(* The upload of the chunks                                                *)

\* InsertChunk adds the first n chunks, having found none of the ids taken.
LEMMA StoreGrows ==
  ASSUME CloudInv, NEW r \in FileInfo, Uploadable(r), AllAreNew(store, r.chunks),
         NEW n \in 0 .. Len(r.chunks),
         store' = store \cup ChunkDocs(r.chunks, r.bytes, n)
  PROVE  store \subseteq store' /\ ChunksUnique'
  <1>1. DOMAIN r.chunks = 1 .. Len(r.chunks) /\ Len(r.chunks) \in Nat
    BY DEF FileInfo
  <1>2. ASSUME NEW c \in ChunkDocs(r.chunks, r.bytes, n)
        PROVE  \E k \in DOMAIN r.chunks : c = [id |-> r.chunks[k], data |-> r.bytes[k]]
    BY <1>1, <1>2 DEF ChunkDocs
  <1>3. ASSUME NEW c1 \in store', NEW c2 \in store', c1.id = c2.id
        PROVE  c1 = c2
    <2>1. CASE c1 \in store /\ c2 \in store
      BY <1>3, <2>1 DEF CloudInv, StorageInv, ChunksUnique
    <2>2. ASSUME NEW c \in store, NEW e \in ChunkDocs(r.chunks, r.bytes, n)
          PROVE  c.id # e.id
      BY <1>2, <2>2 DEF AllAreNew, HasChunk
    <2>3. CASE /\ c1 \in ChunkDocs(r.chunks, r.bytes, n)
               /\ c2 \in ChunkDocs(r.chunks, r.bytes, n)
      BY <1>2, <1>3, <2>3 DEF Uploadable
    <2> QED
      BY <1>3, <2>1, <2>2, <2>3
  <1> QED
    BY <1>3 DEF ChunksUnique

LEMMA UploadChunksCloudInv ==
  ASSUME CloudInv, TypeInv', NEW d \in Devices, UploadChunks(d)
  PROVE  CloudInv'
  <1> DEFINE r == info[d]
  <1>1. /\ r \in FileInfo /\ Uploadable(r) /\ pc[d] = "chunks"
        /\ Len(r.chunks) \in Nat /\ DOMAIN r.chunks = 1 .. Len(r.chunks)
        /\ UNCHANGED <<rows, info>>
    BY DEF UploadChunks, CloudInv, StorageInv, TypeInv, TypeOK, FileInfo, local
  <1>2. store \subseteq store' /\ ChunksUnique'
    <2>1. CASE UNCHANGED store
      BY <2>1 DEF CloudInv, StorageInv, ChunksUnique
    <2>2. ASSUME NEW n \in 0 .. Len(r.chunks), AllAreNew(store, r.chunks),
                 store' = store \cup ChunkDocs(r.chunks, r.bytes, n)
          PROVE  store \subseteq store' /\ ChunksUnique'
      BY <1>1, <2>2, StoreGrows
    <2>3. Len(r.chunks) \in 0 .. Len(r.chunks)
      BY <1>1
    <2> QED
      BY <2>1, <2>2, <2>3 DEF UploadChunks, UploadFails
  <1>3. RowsBacked'
    BY <1>1, <1>2 DEF CloudInv, StorageInv, RowsBacked, Backed
  <1>4. VersionsDisjoint' /\ OneCurrent'
    <2>1. VersionsDisjoint'
      BY <1>1 DEF CloudInv, VersionsInv, VersionsDisjoint, ChunkIdsOf
    <2>2. OneCurrent'
      BY <1>1 DEF CloudInv, OneCurrent
    <2> QED
      BY <2>1, <2>2
  <1>5. \A e \in Devices : pc'[e] = "meta" =>
          \/ pc[e] = "meta"
          \/ /\ e = d /\ AllAreNew(store, r.chunks)
             /\ store' = store \cup ChunkDocs(r.chunks, r.bytes, Len(r.chunks))
    BY DEF UploadChunks, Goto, CloudInv, StorageInv, TypeInv, TypeOK
  <1>6. PendingBacked'
    <2>1. ASSUME NEW e \in Devices, pc[e] = "meta"
          PROVE  Backed(info[e])'
      BY <1>1, <1>2, <2>1 DEF CloudInv, StorageInv, PendingBacked, Backed
    <2>2. ASSUME store' = store \cup ChunkDocs(r.chunks, r.bytes, Len(r.chunks))
          PROVE  Backed(info[d])'
      BY <1>1, <2>2 DEF Backed, Uploadable, ChunkDocs
    <2> QED
      BY <1>5, <2>1, <2>2 DEF PendingBacked
  <1>7. ASSUME NEW s, Backed(s), AllAreNew(store, r.chunks)
        PROVE  ChunkIdsOf(r) \cap ChunkIdsOf(s) = {}
    <2>1. ASSUME NEW k \in DOMAIN r.chunks, NEW j \in DOMAIN s.chunks
          PROVE  r.chunks[k] # s.chunks[j]
      BY <1>7 DEF Backed, AllAreNew, HasChunk
    <2> QED
      BY <2>1 DEF ChunkIdsOf
  <1>8. PendingApart'
    <2>1. ASSUME NEW e \in Devices, NEW i \in DOMAIN rows, pc'[e] = "meta"
          PROVE  ChunkIdsOf(info'[e]) \cap ChunkIdsOf(rows'[i]) = {}
      BY <1>1, <1>5, <1>7, <2>1
         DEF CloudInv, StorageInv, VersionsInv, PendingApart, RowsBacked
    <2>2. ASSUME NEW e \in Devices, NEW f \in Devices,
                 e # f, pc'[e] = "meta", pc'[f] = "meta"
          PROVE  ChunkIdsOf(info'[e]) \cap ChunkIdsOf(info'[f]) = {}
      BY <1>1, <1>5, <1>7, <2>2
         DEF CloudInv, StorageInv, VersionsInv, PendingApart, PendingBacked
    <2>3. rows' = rows /\ info' = info
      BY <1>1
    <2> QED
      BY <2>1, <2>2, <2>3 DEF PendingApart, ChunkIdsOf
  <1> QED
    BY <1>2, <1>3, <1>4, <1>6, <1>8 DEF CloudInv, StorageInv, VersionsInv
-------------------------------------------------------------------------------
(* The upload of the metadata                                              *)

LEMMA UploadMetaCloudInv ==
  ASSUME CloudInv, TypeInv', NEW d \in Devices, UploadMeta(d),
         rows' = InsertFile(rows, info[d])
  PROVE  CloudInv'
  <1> DEFINE r == info[d]
             n == Len(rows)
  <1>1. /\ r \in FileInfo /\ r.cur /\ rows \in Seq(FileInfo) /\ pc[d] = "meta"
        /\ n \in Nat /\ DOMAIN rows = 1 .. n
        /\ store' = store /\ info' = info
    BY DEF UploadMeta, CloudInv, StorageInv, TypeInv, TypeOK, local, Uploadable
  <1>2. /\ DOMAIN rows' = 1 .. n + 1 /\ rows'[n + 1] = r
        /\ \A i \in 1 .. n :
             rows'[i] = [rows[i] EXCEPT !.cur = rows[i].cur /\ rows[i].file # r.file]
    <2> DEFINE new == InsertFile(rows, r)
    <2>1. /\ new \in Seq(FileInfo) /\ Len(new) = n + 1 /\ new[n + 1] = r
          /\ \A i \in 1 .. n : new[i] =
               [rows[i] EXCEPT !.cur = rows[i].cur /\ rows[i].file # r.file]
      <3>1. r \in FileInfo /\ rows \in Seq(FileInfo)
        BY <1>1
      <3> HIDE DEF r
      <3> QED
        BY <3>1, InsertFileType
    <2>2. rows' = new
      OBVIOUS
    <2> HIDE DEF new
    <2>3. DOMAIN new = 1 .. n + 1
      BY <2>1
    <2> QED
      BY <2>1, <2>2, <2>3
  <1>3. ASSUME NEW i \in 1 .. n
        PROVE  /\ rows'[i].chunks = rows[i].chunks /\ rows'[i].bytes = rows[i].bytes
               /\ rows'[i].file = rows[i].file
               /\ rows'[i].cur <=> rows[i].cur /\ rows[i].file # r.file
    <2>1. rows[i] \in FileInfo
      BY <1>1
    <2> QED
      BY <1>2, <2>1 DEF FileInfo
  <1>4. \A e \in Devices : pc'[e] = "meta" => pc[e] = "meta" /\ e # d
    BY DEF UploadMeta, Goto, CloudInv, StorageInv, TypeInv, TypeOK
  <1>5. \A i \in 1 .. n + 1 : i \in 1 .. n \/ i = n + 1
    BY <1>1
  <1>6. RowsBacked'
    <2> DEFINE B(s) == /\ Len(s.chunks) = Len(s.bytes)
                       /\ \A k \in DOMAIN s.chunks :
                            [id |-> s.chunks[k], data |-> s.bytes[k]] \in store
    <2>1. B(r) /\ \A i \in 1 .. n : B(rows[i])
      BY <1>1 DEF CloudInv, StorageInv, RowsBacked, PendingBacked, Backed
    <2>2. \A i \in 1 .. n : B(rows'[i])
      BY <1>3, <2>1
    <2>3. \A i \in 1 .. n + 1 : B(rows'[i])
      BY <1>2, <1>5, <2>1, <2>2
    <2> QED
      BY <1>1, <1>2, <2>3 DEF RowsBacked, Backed
  <1>7. ChunksUnique' /\ PendingBacked'
    <2>1. ChunksUnique'
      BY <1>1 DEF CloudInv, StorageInv, ChunksUnique
    <2>2. PendingBacked'
      BY <1>1, <1>4 DEF CloudInv, StorageInv, PendingBacked, Backed
    <2> QED
      BY <2>1, <2>2
  <1>8. /\ \A i \in 1 .. n : ChunkIdsOf(rows'[i]) = ChunkIdsOf(rows[i])
        /\ ChunkIdsOf(rows'[n + 1]) = ChunkIdsOf(r)
    BY <1>2, <1>3 DEF ChunkIdsOf
  <1>9. \A i \in 1 .. n : ChunkIdsOf(r) \cap ChunkIdsOf(rows[i]) = {}
    BY <1>1 DEF CloudInv, VersionsInv, PendingApart
  <1>10. VersionsDisjoint'
    <2>1. ASSUME NEW i \in 1 .. n + 1, NEW j \in 1 .. n + 1, i # j
          PROVE  ChunkIdsOf(rows'[i]) \cap ChunkIdsOf(rows'[j]) = {}
      BY <1>1, <1>5, <1>8, <1>9, <2>1 DEF CloudInv, VersionsInv, VersionsDisjoint
    <2> QED
      BY <1>2, <2>1 DEF VersionsDisjoint, ChunkIdsOf
  <1>11. PendingApart'
    <2>1. ASSUME NEW e \in Devices, NEW i \in DOMAIN rows', pc'[e] = "meta"
          PROVE  ChunkIdsOf(info'[e]) \cap ChunkIdsOf(rows'[i]) = {}
      BY <1>1, <1>2, <1>4, <1>5, <1>8, <1>9, <2>1 DEF CloudInv, VersionsInv, PendingApart
    <2>2. ASSUME NEW e \in Devices, NEW f \in Devices,
                 e # f, pc'[e] = "meta", pc'[f] = "meta"
          PROVE  ChunkIdsOf(info'[e]) \cap ChunkIdsOf(info'[f]) = {}
      BY <1>1, <1>4, <2>2 DEF CloudInv, VersionsInv, PendingApart
    <2> QED
      BY <2>1, <2>2 DEF PendingApart, ChunkIdsOf
  <1>12. OneCurrent'
    <2>1. ASSUME NEW i \in 1 .. n
          PROVE  rows'[i].cur <=> ~ \E j \in 1 .. n + 1 : j > i /\ rows'[j].file = rows'[i].file
      <3>1. rows[i].cur <=> ~ \E j \in 1 .. n : j > i /\ rows[j].file = rows[i].file
        BY <1>1 DEF CloudInv, OneCurrent
      <3>2. n + 1 > i /\ n + 1 \in 1 .. n + 1 /\ rows'[n + 1].file = r.file
        BY <1>1, <1>2
      <3>3. (\E j \in 1 .. n + 1 : j > i /\ rows'[j].file = rows'[i].file)
              <=> \/ \E j \in 1 .. n : j > i /\ rows[j].file = rows[i].file
                  \/ r.file = rows[i].file
        BY <1>1, <1>3, <1>5, <3>2
      <3> QED
        BY <1>3, <3>1, <3>3
    <2>2. rows'[n + 1].cur /\ ~ \E j \in 1 .. n + 1 : j > n + 1
      BY <1>1, <1>2
    <2> QED
      BY <1>2, <1>5, <2>1, <2>2 DEF OneCurrent
  <1> QED
    BY <1>6, <1>7, <1>10, <1>11, <1>12 DEF CloudInv, StorageInv, VersionsInv

-------------------------------------------------------------------------------
(* The invariant                                                           *)

LEMMA InitCloudInv == Init => CloudInv
  <1> SUFFICES ASSUME Init PROVE CloudInv
    OBVIOUS
  <1>1. StorageInv
    BY InitTypeInv DEF Init, StorageInv, RowsBacked, ChunksUnique, PendingBacked
  <1>2. VersionsInv /\ OneCurrent
    BY DEF Init, VersionsInv, VersionsDisjoint, PendingApart, OneCurrent
  <1> QED
    BY <1>1, <1>2 DEF CloudInv

LEMMA NextCloudInv ==
  ASSUME CloudInv, [Next]_vars
  PROVE  CloudInv'
  <1>1. TypeInv /\ TypeInv'
    BY NextTypeInv DEF CloudInv, StorageInv
  <1>2. ASSUME UNCHANGED <<server, pc, info>>
        PROVE  CloudInv'
    BY <1>1, <1>2, ServersUntouched DEF NoNewPending
  <1>3. CASE Tick \/ UNCHANGED vars
    BY <1>2, <1>3 DEF Tick, vars, server, local
  <1>4. ASSUME NEW d \in Devices, User(d) \/ Crash(d)
        PROVE  CloudInv'
    BY <1>1, <1>4, UserLeavesServers, RestartLeavesServers, ServersUntouched DEF Crash
  <1>5. ASSUME NEW d \in Devices, Worker(d)
        PROVE  CloudInv'
    <2>1. CASE UploadChunks(d)
      BY <1>1, <2>1, UploadChunksCloudInv
    <2>2. CASE UploadMeta(d)
      <3>1. CASE rows' = InsertFile(rows, info[d])
        BY <1>1, <2>2, <3>1, UploadMetaCloudInv
      <3>2. CASE UNCHANGED rows
        <4>1. UNCHANGED server /\ NoNewPending
          BY <1>1, <2>2, <3>2
             DEF UploadMeta, Goto, server, local, NoNewPending, TypeInv, TypeOK
        <4> QED
          BY <1>1, <4>1, ServersUntouched
      <3> QED
        BY <2>2, <3>1, <3>2 DEF UploadMeta
    <2> QED
      BY <1>1, <1>5, <2>1, <2>2, RefreshLeavesServers, CommandLeavesServers,
         DownloadLeavesServers, ServersUntouched DEF Worker
  <1> QED
    BY <1>3, <1>4, <1>5 DEF Next

\* CloudInv is inductive.
THEOREM CloudInvariant == Spec => []CloudInv
  BY InitCloudInv, NextCloudInv, PTL DEF Spec

\* No row names a chunk that is missing from the storage or holds other bytes
\* than the version was made from: chunks go first, and an error ends the command.
THEOREM RowsAreBacked == Spec => []RowsBacked
  <1>1. CloudInv => RowsBacked
    BY DEF CloudInv, StorageInv
  <1> QED
    BY CloudInvariant, <1>1, PTL

\* InsertChunk never lets two documents have one id.
THEOREM ChunksAreUnique == Spec => []ChunksUnique
  <1>1. CloudInv => ChunksUnique
    BY DEF CloudInv, StorageInv
  <1> QED
    BY CloudInvariant, <1>1, PTL

\* Versions share no chunks, though each device numbers chunks on its own.
THEOREM VersionsAreDisjoint == Spec => []VersionsDisjoint
  <1>1. CloudInv => VersionsDisjoint
    BY DEF CloudInv, VersionsInv
  <1> QED
    BY CloudInvariant, <1>1, PTL

\* InsertFile leaves exactly the newest row of a file current.
THEOREM OneIsCurrent == Spec => []OneCurrent
  <1>1. CloudInv => OneCurrent
    BY DEF CloudInv
  <1> QED
    BY CloudInvariant, <1>1, PTL

-------------------------------------------------------------------------------
(* Both servers together implement the append-only log of BackupLog.        *)

\* The log, read off the rows alone.
Entry(r) == [file |-> r.file, path |-> r.path, ver |-> r.ver, del |-> r.del,
             bytes |-> r.bytes]

BackupOf(R) == [i \in DOMAIN R |-> Entry(R[i])]

\* One gets back what a version was made from.
LEMMA RestoredType ==
  ASSUME ChunksUnique, NEW r \in FileInfo, Backed(r)
  PROVE  Restored(store, r) = r.bytes
  <1>1. /\ r.chunks \in Seq(Nat) /\ r.bytes \in Seq(Blocks)
        /\ Len(r.chunks) = Len(r.bytes)
        /\ DOMAIN r.chunks = DOMAIN r.bytes
    BY DEF FileInfo, Backed
  <1>2. CASE r.chunks = <<>>
    BY <1>1, <1>2 DEF Restored, CanGetChunk
  <1>3. CASE r.chunks # <<>>
    <2>1. \A k \in DOMAIN r.chunks :
            [id |-> r.chunks[k], data |-> r.bytes[k]] \in store
      BY DEF Backed
    <2>2. CanGetChunk(store, r.chunks)
      BY <1>3, <2>1 DEF CanGetChunk, HasChunk
    <2>3. ASSUME NEW k \in DOMAIN r.chunks
          PROVE  (CHOOSE c \in store : c.id = r.chunks[k]).data = r.bytes[k]
      <3> DEFINE e == [id |-> r.chunks[k], data |-> r.bytes[k]]
      <3>1. e \in store /\ e.id = r.chunks[k] /\ e.data = r.bytes[k]
        BY <2>1
      <3> HIDE DEF e
      <3>2. (CHOOSE c \in store : c.id = r.chunks[k]) = e
        BY <3>1 DEF ChunksUnique
      <3> QED
        BY <3>1, <3>2
    <2>4. GetChunk(store, r.chunks) = [k \in DOMAIN r.bytes |-> r.bytes[k]]
      BY <1>1, <2>3 DEF GetChunk
    <2>5. r.bytes = [k \in DOMAIN r.bytes |-> r.bytes[k]]
      BY <1>1
    <2> QED
      BY <2>2, <2>4, <2>5 DEF Restored
  <1> QED
    BY <1>2, <1>3

LEMMA BackupIsRows ==
  ASSUME CloudInv
  PROVE  backup = BackupOf(rows)
  <1>1. ASSUME NEW i \in DOMAIN rows
        PROVE  Restored(store, rows[i]) = rows[i].bytes
    <2>1. rows[i] \in FileInfo /\ Backed(rows[i]) /\ ChunksUnique
      BY DEF CloudInv, StorageInv, TypeInv, TypeOK, RowsBacked
    <2> QED
      BY <2>1, RestoredType
  <1> QED
    BY <1>1 DEF backup, BackupOf, Entry

LEMMA EntryType ==
  ASSUME NEW r \in FileInfo
  PROVE  Entry(r) \in Backup!Version
  BY DEF Entry, Backup!Version, FileInfo, FileIds

LEMMA BackupOfType ==
  ASSUME NEW R \in Seq(FileInfo)
  PROVE  /\ BackupOf(R) \in Seq(Backup!Version)
         /\ Len(BackupOf(R)) = Len(R)
         /\ \A i \in 1 .. Len(R) : BackupOf(R)[i] = Entry(R[i])
  <1>1. DOMAIN R = 1 .. Len(R) /\ Len(R) \in Nat
    OBVIOUS
  <1>2. \A i \in 1 .. Len(R) : Entry(R[i]) \in Backup!Version
    BY <1>1, EntryType
  <1> DEFINE F == [i \in 1 .. Len(R) |-> Entry(R[i])]
  <1>3. BackupOf(R) = F
    BY <1>1 DEF BackupOf
  <1>4. F \in Seq(Backup!Version) /\ Len(F) = Len(R)
    BY <1>1, <1>2
  <1>5. \A i \in 1 .. Len(R) : F[i] = Entry(R[i])
    OBVIOUS
  <1> HIDE DEF F
  <1> QED
    BY <1>3, <1>4, <1>5

\* A new row is a new entry; that the old row is no longer current shows nowhere.
LEMMA InsertFileAppends ==
  ASSUME NEW R \in Seq(FileInfo), NEW r \in FileInfo
  PROVE  BackupOf(InsertFile(R, r)) = Append(BackupOf(R), Entry(r))
  <1> DEFINE n == Len(R)
             new == InsertFile(R, r)
             log == BackupOf(R)
  <1>1. n \in Nat /\ DOMAIN R = 1 .. n
    OBVIOUS
  <1>2. /\ new \in Seq(FileInfo) /\ Len(new) = n + 1 /\ new[n + 1] = r
        /\ \A i \in 1 .. n : new[i] =
             [R[i] EXCEPT !.cur = R[i].cur /\ R[i].file # r.file]
    BY InsertFileType
  <1> HIDE DEF new
  <1>3. DOMAIN new = 1 .. n + 1
    BY <1>2
  <1>4. ASSUME NEW i \in 1 .. n
        PROVE  Entry(new[i]) = Entry(R[i])
    <2>1. R[i] \in FileInfo
      BY <1>1
    <2> QED
      BY <1>2, <2>1 DEF Entry, FileInfo
  <1>5. Entry(r) \in Backup!Version
    BY EntryType
  <1>6. log \in Seq(Backup!Version) /\ Len(log) = n
        /\ \A i \in 1 .. n : log[i] = Entry(R[i])
    BY BackupOfType
  <1> HIDE DEF log
  <1> DEFINE longer == Append(log, Entry(r))
  <1>7. /\ longer \in Seq(Backup!Version) /\ Len(longer) = n + 1
        /\ longer[n + 1] = Entry(r)
        /\ \A i \in 1 .. n : longer[i] = Entry(R[i])
    BY <1>1, <1>5, <1>6
  <1> HIDE DEF longer
  <1>8. BackupOf(new) = [i \in 1 .. n + 1 |-> Entry(new[i])]
    BY <1>3 DEF BackupOf
  <1>9. longer = [i \in 1 .. n + 1 |-> longer[i]]
    BY <1>7
  <1>10. \A i \in 1 .. n + 1 : longer[i] = Entry(new[i])
    BY <1>1, <1>2, <1>4, <1>7
  <1>11. BackupOf(new) = longer
    BY <1>8, <1>9, <1>10
  <1> QED
    BY <1>11 DEF new, log, longer

LEMMA RowsChange ==
  ASSUME CloudInv, [Next]_vars
  PROVE  \/ rows' = rows
         \/ \E d \in Devices : pc[d] = "meta" /\ rows' = InsertFile(rows, info[d])
  <1>1. TypeInv
    BY DEF CloudInv, StorageInv
  <1>2. ASSUME NEW d \in Devices, User(d) \/ Crash(d)
        PROVE  rows' = rows
    BY <1>1, <1>2, UserLeavesServers, RestartLeavesServers DEF Crash, server
  <1>3. ASSUME NEW d \in Devices, Worker(d)
        PROVE  \/ rows' = rows
               \/ pc[d] = "meta" /\ rows' = InsertFile(rows, info[d])
    <2>1. CASE UploadChunks(d) \/ UploadMeta(d)
      BY <2>1 DEF UploadChunks, UploadMeta
    <2> QED
      BY <1>1, <1>3, <2>1, RefreshLeavesServers, CommandLeavesServers,
         DownloadLeavesServers DEF Worker, server
  <1>4. CASE Tick \/ UNCHANGED vars
    BY <1>4 DEF Tick, vars, server
  <1> QED
    BY <1>2, <1>3, <1>4 DEF Next

LEMMA BackupStep ==
  ASSUME CloudInv, CloudInv', [Next]_vars
  PROVE  [Backup!Next]_backup
  <1>1. backup = BackupOf(rows) /\ rows \in Seq(FileInfo)
    BY BackupIsRows DEF CloudInv, StorageInv, TypeInv, TypeOK
  <1>2. backup' = BackupOf(rows')
    <2>1. (backup = BackupOf(rows))'
      BY BackupIsRows, PTL
    <2> QED
      BY <2>1 DEF BackupOf
  <1>3. CASE rows' = rows
    BY <1>1, <1>2, <1>3
  <1>4. ASSUME NEW d \in Devices, pc[d] = "meta", rows' = InsertFile(rows, info[d])
        PROVE  Backup!Next
    <2> DEFINE v == Entry(info[d])
    <2>1. /\ info[d] \in FileInfo
          /\ info[d].del => info[d].bytes = <<>>
      BY <1>4 DEF CloudInv, StorageInv, TypeInv, TypeOK, Uploadable
    <2>2. backup' = Append(backup, v)
      BY <1>1, <1>2, <1>4, <2>1, InsertFileAppends
    <2>3. v \in Backup!Version /\ (v.del => v.bytes = <<>>)
      BY <2>1, EntryType DEF Entry
    <2>4. backup \in Seq(Backup!Version)
      BY <1>1, BackupOfType
    <2> HIDE DEF v
    <2>5. Len(backup') = Len(backup) + 1 /\ backup'[Len(backup')] = v
      BY <2>2, <2>3, <2>4
    <2>6. Len(backup') > Len(backup)
      BY <2>4, <2>5
    <2> QED
      BY <2>2, <2>3, <2>5, <2>6 DEF Backup!Next, Backup!Commit
  <1> QED
    BY <1>3, <1>4, RowsChange

\* Whatever devices, schedules and failures do, a committed version stays as it
\* is and restores to the bytes it was made from (MetaDataDB::InsertFile,
\* MongoDB::InsertChunk): the two servers implement BackupLog.
THEOREM BackupImplemented == Spec => BackupSpec
  <1>1. Init => Backup!Init
    BY DEF Init, backup, Backup!Init
  <1> QED
    BY <1>1, BackupStep, CloudInvariant, PTL DEF Spec, BackupSpec, Backup!Spec
-------------------------------------------------------------------------------
(* What Drains rests on, without fairness                                  *)

Downloads(q) == {i \in DOMAIN q : q[i].op = "download"}

\* Files a device may still write: each download writes one.
Pending(d) == Cardinality(Downloads(queue[d])) + (IF pc[d] = "save" THEN 1 ELSE 0)

Present(d) == {p \in Paths : Exists(d, p)}

Stage(at) == IF at = "idle" THEN 0 ELSE IF at \in {"ask", "chunks"} THEN 2 ELSE 1

\* A command is over after three steps, but for the rows of a refresh.
StepsLeft(d) == 3 * Len(queue[d]) + Stage(pc[d])

\* What a device has before it, the weightiest first: a download makes a file, a
\* file that a refresh removes makes two commands, and a refresh gets rows.
Effort(d) == <<Pending(d), Cardinality(Present(d)), StepsLeft(d), Cardinality(got[d])>>

NatLess == {ss \in Nat \X Nat : ss[1] < ss[2]}

Less == LexProductOrdering(NatLess, Nat, 4)

\* Only what the users and the commands write is there.
FewFiles == \A d \in Devices : IsFiniteSet(Present(d))

LEMMA LessIs ==
  ASSUME NEW x \in [1 .. 4 -> Nat], NEW y \in [1 .. 4 -> Nat],
         \/ x[1] < y[1]
         \/ x[1] <= y[1] /\ x[2] < y[2]
         \/ x[1] <= y[1] /\ x[2] <= y[2] /\ x[3] < y[3]
         \/ x[1] <= y[1] /\ x[2] <= y[2] /\ x[3] <= y[3] /\ x[4] < y[4]
  PROVE  <<x, y>> \in Less
  <1> SUFFICES \E j \in 1 .. 4 : /\ \A i \in 1 .. j - 1 : x[i] = y[i]
                                 /\ <<x[j], y[j]>> \in NatLess
    BY DEF Less, LexProductOrdering
  <1>1. \A i \in 1 .. 4 : x[i] \in Nat /\ y[i] \in Nat
    OBVIOUS
  <1>2. \A i \in 1 .. 4 : x[i] < y[i] => <<x[i], y[i]>> \in NatLess
    BY <1>1 DEF NatLess
  <1>3. CASE x[1] < y[1]
    BY <1>2, <1>3
  <1>4. CASE x[1] = y[1] /\ x[2] < y[2]
    <2>1. <<x[2], y[2]>> \in NatLess
      BY <1>2, <1>4
    <2>2. \A i \in 1 .. 2 - 1 : i = 1
      OBVIOUS
    <2> QED
      BY <1>4, <2>1, <2>2
  <1>5. CASE x[1] = y[1] /\ x[2] = y[2] /\ x[3] < y[3]
    <2>1. <<x[3], y[3]>> \in NatLess
      BY <1>2, <1>5
    <2>2. \A i \in 1 .. 3 - 1 : i = 1 \/ i = 2
      OBVIOUS
    <2> QED
      BY <1>5, <2>1, <2>2
  <1>6. CASE x[1] = y[1] /\ x[2] = y[2] /\ x[3] = y[3] /\ x[4] < y[4]
    <2>1. <<x[4], y[4]>> \in NatLess
      BY <1>2, <1>6
    <2>2. \A i \in 1 .. 4 - 1 : i = 1 \/ i = 2 \/ i = 3
      OBVIOUS
    <2> QED
      BY <1>6, <2>1, <2>2
  <1> QED
    BY <1>1, <1>3, <1>4, <1>5, <1>6

LEMMA LessWellFounded == IsWellFoundedOn(Less, [1 .. 4 -> Nat])
  <1>1. IsWellFoundedOn(NatLess, Nat)
    BY NatLessThanWellFounded DEF OpToRel, NatLess
  <1> QED
    BY <1>1, WFLexProductOrdering DEF Less

LEMMA DownloadsFinite ==
  ASSUME NEW q \in Seq(Command)
  PROVE  IsFiniteSet(Downloads(q)) /\ Cardinality(Downloads(q)) \in Nat
  <1>1. Downloads(q) \in SUBSET (1 .. Len(q)) /\ Len(q) \in Nat
    BY DEF Downloads
  <1>2. IsFiniteSet(1 .. Len(q))
    BY <1>1, FS_Interval
  <1> QED
    BY <1>1, <1>2, FS_Subset, FS_CardinalityType

\* Taking a command leaves no more downloads, and one fewer if it was one.
LEMMA DownloadsPopped ==
  ASSUME NEW q \in Seq(Command), q # <<>>
  PROVE  LET n == IF Head(q).op = "download" THEN 1 ELSE 0
         IN  Cardinality(Downloads(Tail(q))) + n <= Cardinality(Downloads(q))
  <1> DEFINE S == Downloads(Tail(q))
             T == Downloads(q) \ {1}
             f == [i \in S |-> i + 1]
  <1>1. /\ Tail(q) \in Seq(Command) /\ Len(Tail(q)) = Len(q) - 1 /\ Len(q) \in Nat
        /\ \A i \in 1 .. Len(Tail(q)) : Tail(q)[i] = q[i + 1]
        /\ DOMAIN q = 1 .. Len(q) /\ DOMAIN Tail(q) = 1 .. Len(q) - 1
        /\ Head(q) = q[1] /\ 1 \in DOMAIN q
    BY HeadTailProperties
  <1>2. \A i \in S : i \in Nat \ {0} /\ i + 1 \in Downloads(q)
    BY <1>1 DEF Downloads
  <1>3. f \in [S -> T]
    BY <1>2
  <1>4. \A i, j \in S : f[i] = f[j] => i = j
    BY <1>2
  <1>5. f \in Injection(S, T)
    BY <1>3, <1>4 DEF Injection, IsInjective
  <1>6. /\ IsFiniteSet(Downloads(q)) /\ Cardinality(Downloads(q)) \in Nat
        /\ Cardinality(S) \in Nat
    BY <1>1, DownloadsFinite
  <1>7. /\ IsFiniteSet(T) /\ Cardinality(T) = IF 1 \in Downloads(q) THEN Cardinality(Downloads(q)) - 1
                                              ELSE Cardinality(Downloads(q))
    BY <1>6, FS_RemoveElement
  <1>8. Cardinality(S) <= Cardinality(T)
    BY <1>5, <1>7, FS_Injection
  <1>9. 1 \in Downloads(q) <=> Head(q).op = "download"
    BY <1>1 DEF Downloads
  <1> HIDE DEF S, T, f
  <1>10. CASE Head(q).op = "download"
    BY <1>6, <1>7, <1>8, <1>9, <1>10 DEF S
  <1>11. CASE Head(q).op # "download"
    BY <1>6, <1>7, <1>8, <1>9, <1>11 DEF S
  <1> QED
    BY <1>10, <1>11

LEMMA DownloadsNotified ==
  ASSUME NEW q \in Seq(Command), NEW c \in Command, c.op # "download"
  PROVE  Downloads(q \o <<RefreshCmd, c>>) = Downloads(q)
  <1> DEFINE r == <<RefreshCmd, c>>
  <1>1. r \in Seq(Command) /\ Len(r) = 2 /\ r[1].op # "download" /\ r[2].op # "download"
    BY RefreshCmdType DEF RefreshCmd, Cmd
  <1> HIDE DEF r
  <1>2. /\ Len(q \o r) = Len(q) + 2 /\ Len(q) \in Nat
        /\ \A i \in 1 .. Len(q) : (q \o r)[i] = q[i]
        /\ \A i \in Len(q) + 1 .. Len(q) + 2 : (q \o r)[i] = r[i - Len(q)]
        /\ DOMAIN (q \o r) = 1 .. Len(q) + 2 /\ DOMAIN q = 1 .. Len(q)
    <2>1. /\ q \o r \in Seq(Command) /\ Len(q \o r) = Len(q) + 2 /\ Len(q) \in Nat
          /\ \A i \in 1 .. Len(q) + 2 :
               (q \o r)[i] = IF i <= Len(q) THEN q[i] ELSE r[i - Len(q)]
      <3>1. Len(q) \in Nat /\ r \in Seq(Command) /\ Len(r) = 2
        BY <1>1
      <3>2. /\ q \o r \in Seq(Command) /\ Len(q \o r) = Len(q) + Len(r)
            /\ \A i \in 1 .. Len(q) + Len(r) :
                 (q \o r)[i] = IF i <= Len(q) THEN q[i] ELSE r[i - Len(q)]
        BY <3>1, ConcatProperties, Zenon
      <3> QED
        BY <3>1, <3>2
    <2> DEFINE l == q \o r
    <2> HIDE DEF l
    <2>2. DOMAIN l = 1 .. Len(l) /\ DOMAIN q = 1 .. Len(q)
      BY <2>1 DEF l
    <2> QED
      BY <2>1, <2>2 DEF l
  <1>3. \A i \in Len(q) + 1 .. Len(q) + 2 : i - Len(q) \in {1, 2}
    BY <1>2
  <1>4. ASSUME NEW i \in DOMAIN (q \o r), (q \o r)[i].op = "download"
        PROVE  i \in DOMAIN q /\ q[i].op = "download"
    <2>1. CASE i \in 1 .. Len(q)
      BY <1>2, <1>4, <2>1
    <2>2. CASE i \in Len(q) + 1 .. Len(q) + 2
      <3>1. (q \o r)[i] = r[i - Len(q)]
        BY <1>2, <2>2
      <3>2. i - Len(q) \in {1, 2}
        BY <1>3, <2>2
      <3> QED
        BY <1>1, <1>4, <3>1, <3>2
    <2> QED
      BY <1>2, <2>1, <2>2
  <1>5. \A i \in DOMAIN q : i \in DOMAIN (q \o r) /\ (q \o r)[i] = q[i]
    BY <1>2
  <1>6. Downloads(q \o r) = Downloads(q)
    BY <1>4, <1>5 DEF Downloads
  <1> QED
    BY <1>6 DEF r

LEMMA StageType == \A s \in States : Stage(s) \in 0 .. 2 /\ (Stage(s) = 0 <=> s = "idle")
  BY DEF Stage, States

EffortOK(d) ==
  /\ Pending(d) \in Nat /\ Cardinality(Present(d)) \in Nat
  /\ StepsLeft(d) \in Nat /\ Cardinality(got[d]) \in Nat
  /\ IsFiniteSet(got[d]) /\ Effort(d) \in [1 .. 4 -> Nat]

EffortsOK == \A d \in Devices : EffortOK(d)

LEMMA EffortType ==
  ASSUME TypeInv, FewFiles
  PROVE  EffortsOK
  <1> SUFFICES ASSUME NEW d \in Devices PROVE EffortOK(d)
    BY DEF EffortsOK
  <1>1. queue[d] \in Seq(Command) /\ pc[d] \in States /\ got[d] \subseteq 1 .. Len(rows)
        /\ Len(rows) \in Nat
    BY DEF TypeInv, TypeOK
  <1>2. Pending(d) \in Nat
    BY <1>1, DownloadsFinite DEF Pending
  <1>3. Cardinality(Present(d)) \in Nat
    BY FS_CardinalityType DEF FewFiles
  <1>4. StepsLeft(d) \in Nat
    BY <1>1, StageType DEF StepsLeft
  <1>5. IsFiniteSet(got[d])
    <2>1. IsFiniteSet(1 .. Len(rows))
      BY <1>1, FS_Interval
    <2> QED
      BY <1>1, <2>1, FS_Subset
  <1>6. Cardinality(got[d]) \in Nat
    BY <1>5, FS_CardinalityType
  <1>7. Effort(d) \in [1 .. 4 -> Nat]
    BY <1>2, <1>3, <1>4, <1>6 DEF Effort
  <1> QED
    BY <1>2, <1>3, <1>4, <1>5, <1>6, <1>7 DEF EffortOK

LEMMA EffortFalls ==
  ASSUME TypeInv, TypeInv', FewFiles, FewFiles', NEW d \in Devices,
         \/ Pending(d)' < Pending(d)
         \/ /\ Pending(d)' <= Pending(d)
            /\ Cardinality(Present(d))' < Cardinality(Present(d))
         \/ /\ Pending(d)' <= Pending(d) /\ Present(d)' = Present(d)
            /\ StepsLeft(d)' < StepsLeft(d)
         \/ /\ Pending(d)' <= Pending(d) /\ Present(d)' = Present(d)
            /\ StepsLeft(d)' <= StepsLeft(d)
            /\ Cardinality(got[d])' < Cardinality(got[d])
  PROVE  <<Effort(d)', Effort(d)>> \in Less
  <1>1. Effort(d) \in [1 .. 4 -> Nat] /\ Effort(d)' \in [1 .. 4 -> Nat]
    <2>1. EffortsOK /\ EffortsOK'
      BY EffortType, PTL
    <2> QED
      BY <2>1 DEF EffortsOK, EffortOK
  <1>2. /\ Effort(d)[1] = Pending(d) /\ Effort(d)'[1] = Pending(d)'
        /\ Effort(d)[2] = Cardinality(Present(d))
        /\ Effort(d)'[2] = Cardinality(Present(d))'
        /\ Effort(d)[3] = StepsLeft(d) /\ Effort(d)'[3] = StepsLeft(d)'
        /\ Effort(d)[4] = Cardinality(got[d]) /\ Effort(d)'[4] = Cardinality(got[d])'
    BY DEF Effort
  <1>3. Present(d)' = Present(d) =>
          Cardinality(Present(d))' <= Cardinality(Present(d))
    BY EffortType DEF EffortsOK, EffortOK
  <1>4. PICK x \in [1 .. 4 -> Nat], y \in [1 .. 4 -> Nat] : x = Effort(d)' /\ y = Effort(d)
    BY <1>1
  <1>5. \/ x[1] < y[1]
        \/ x[1] <= y[1] /\ x[2] < y[2]
        \/ x[1] <= y[1] /\ x[2] <= y[2] /\ x[3] < y[3]
        \/ x[1] <= y[1] /\ x[2] <= y[2] /\ x[3] <= y[3] /\ x[4] < y[4]
    BY <1>2, <1>3, <1>4
  <1>6. <<x, y>> \in Less
    BY <1>5, LessIs
  <1> QED
    BY <1>4, <1>6

\* What the measure of a device is made of.
Own(d) == <<queue[d], pc[d], disk[d], got[d]>>

\* A device works on its own: what another one does leaves it as it is.
LEMMA OthersKeep ==
  ASSUME TypeInv, NEW d \in Devices, NEW e \in Devices, d # e,
         User(d) \/ Worker(d) \/ Crash(d)
  PROVE  UNCHANGED Own(e)
  <1> USE DEF TypeInv, TypeOK, Own
  <1>1. CASE User(d)
    <2>1. queue'[e] = queue[e] /\ disk'[e] = disk[e]
      BY <1>1 DEF User, UserWrites, UserReads, UserCreate, UserModify, UserRename,
                  UserDelete, UserRefresh, UserDownload, Notify, Save
    <2> QED
      BY <1>1, <2>1 DEF User, UserWrites, UserReads, UserCreate, UserModify, UserRename,
                  UserDelete, UserRefresh, UserDownload, UserStep, local
  <1>2. CASE Crash(d)
    BY <1>2 DEF Crash, Restart, Goto, local
  <1>3. CASE RefreshBegin(d) \/ RefreshAnswer(d) \/ RefreshEnd(d)
    BY <1>3 DEF RefreshBegin, RefreshAnswer, RefreshEnd, Goto, Pop, local
  <1>4. CASE RefreshRow(d)
    <2>1. PICK i \in got[d] :
            /\ ApplyDeleted(d, rows[i]) \/ ApplyToKnown(d, rows[i])
                 \/ ApplyToUnknown(d, rows[i])
            /\ got' = [got EXCEPT ![d] = @ \ {i}]
      BY <1>4 DEF RefreshRow
    <2>2. queue'[e] = queue[e] /\ disk'[e] = disk[e]
      BY <2>1 DEF ApplyDeleted, ApplyToKnown, ApplyToUnknown, Notify
    <2> QED
      BY <1>4, <2>1, <2>2 DEF RefreshRow
  <1>5. CASE CreateBegin(d) \/ ModifyBegin(d) \/ RenameBegin(d) \/ DeleteBegin(d)
    BY <1>5 DEF CreateBegin, ModifyBegin, RenameBegin, DeleteBegin, Indexed, Abort,
                Restart, Goto, Pop, local
  <1>6. CASE UploadChunks(d) \/ UploadMeta(d)
    BY <1>6 DEF UploadChunks, UploadMeta, Goto, local
  <1>7. CASE DownloadAsk(d) \/ DownloadSave(d)
    BY <1>7 DEF DownloadAsk, DownloadSave, Save, Goto, Pop, local
  <1> QED
    BY <1>1, <1>2, <1>3, <1>4, <1>5, <1>6, <1>7 DEF Worker

LEMMA EffortKept ==
  ASSUME NEW d \in Devices, UNCHANGED Own(d)
  PROVE  Effort(d)' = Effort(d) /\ Present(d)' = Present(d)
  <1>1. Present(d)' = Present(d)
    BY DEF Own, Present, Exists
  <1>2. Pending(d)' = Pending(d) /\ StepsLeft(d)' = StepsLeft(d)
    BY DEF Own, Pending, Downloads, StepsLeft, Stage
  <1> QED
    BY <1>1, <1>2 DEF Own, Effort

\* Only one file can appear in a step.
LEMMA OneFileAppears ==
  ASSUME TypeInv, [Next]_vars, NEW e \in Devices
  PROVE  \E p \in Paths : \A q \in Paths \ {p} : disk'[e][q] \in {disk[e][q], Absent}
  <1>1. disk \in [Devices -> [Paths -> DiskFile]] /\ AnyPath \in Paths
    BY AnyPathType DEF TypeInv, TypeOK
  <1>2. CASE UNCHANGED disk[e]
    BY <1>1, <1>2
  <1>3. ASSUME NEW d \in Devices, User(d)
        PROVE  \E p \in Paths : \A q \in Paths \ {p} : disk'[e][q] \in {disk[e][q], Absent}
    <2>1. ASSUME NEW p \in Paths, NEW c \in Contents, UserCreate(d, p, c) \/ UserModify(d, p, c)
          PROVE  \A q \in Paths \ {p} : disk'[e][q] = disk[e][q]
      BY <1>1, <2>1 DEF UserCreate, UserModify, Save
    <2>2. ASSUME NEW p \in Paths, NEW q \in Paths, UserRename(d, p, q)
          PROVE  \A x \in Paths \ {q} : disk'[e][x] \in {disk[e][x], Absent}
      BY <1>1, <2>2 DEF UserRename
    <2>3. ASSUME NEW p \in Paths, UserDelete(d, p)
          PROVE  \A q \in Paths \ {p} : disk'[e][q] = disk[e][q]
      BY <1>1, <2>3 DEF UserDelete
    <2>4. ASSUME UserReads(d)
          PROVE  UNCHANGED disk[e]
      BY <2>4 DEF UserReads, UserRefresh, UserDownload
    <2> QED
      BY <1>2, <1>3, <2>1, <2>2, <2>3, <2>4 DEF User, UserWrites
  <1>4. ASSUME NEW d \in Devices, RefreshRow(d)
        PROVE  \E p \in Paths : \A q \in Paths \ {p} : disk'[e][q] \in {disk[e][q], Absent}
    <2>1. PICK i \in got[d] : ApplyDeleted(d, rows[i]) \/ ApplyToKnown(d, rows[i])
                                \/ ApplyToUnknown(d, rows[i])
      BY <1>4 DEF RefreshRow
    <2>2. disk' = disk \/ \E p \in Paths : disk' = [disk EXCEPT ![d][p] = Absent]
      <3>1. rows[i] \in FileInfo /\ db[d] \in LocalDB
        BY DEF TypeInv, TypeOK
      <3>2. rows[i].path \in Paths
        BY <3>1 DEF FileInfo
      <3>3. IsFileExist(db[d], rows[i].file) => SelectFile(db[d], rows[i].file).path \in Paths
        BY <3>1, SelectFileType DEF LocalFile
      <3> QED
        BY <2>1, <3>2, <3>3 DEF ApplyDeleted, ApplyToKnown, ApplyToUnknown
    <2> QED
      BY <1>1, <1>2, <2>2
  <1>5. ASSUME NEW d \in Devices, DownloadSave(d)
        PROVE  \E p \in Paths : \A q \in Paths \ {p} : disk'[e][q] \in {disk[e][q], Absent}
    <2>1. info[d].path \in Paths
      BY DEF TypeInv, TypeOK, FileInfo
    <2> QED
      BY <1>1, <1>5, <2>1 DEF DownloadSave, Save
  <1>6. ASSUME NEW d \in Devices, Worker(d)
        PROVE  RefreshRow(d) \/ DownloadSave(d) \/ UNCHANGED disk[e]
    BY <1>6 DEF Worker, RefreshBegin, RefreshAnswer, RefreshEnd, CreateBegin, ModifyBegin,
       RenameBegin, DeleteBegin, Indexed, Abort, Restart, UploadChunks, UploadMeta, DownloadAsk
  <1>7. ASSUME NEW d \in Devices, Crash(d)
        PROVE  UNCHANGED disk[e]
    BY <1>7 DEF Crash, Restart
  <1>8. CASE Tick \/ UNCHANGED vars
    BY <1>2, <1>8 DEF Tick, vars
  <1> QED
    BY <1>2, <1>3, <1>4, <1>5, <1>6, <1>7, <1>8 DEF Next

LEMMA InitFewFiles == Init => FewFiles
  <1> SUFFICES ASSUME Init, NEW d \in Devices PROVE IsFiniteSet(Present(d))
    BY DEF FewFiles
  <1>1. Present(d) = {}
    BY DEF Init, Present, Exists, Absent
  <1> QED
    BY <1>1, FS_EmptySet

LEMMA NextFewFiles ==
  ASSUME TypeInv, [Next]_vars, FewFiles
  PROVE  FewFiles'
  <1> SUFFICES ASSUME NEW e \in Devices PROVE IsFiniteSet(Present(e)')
    BY DEF FewFiles
  <1>1. PICK p \in Paths : \A q \in Paths \ {p} : disk'[e][q] \in {disk[e][q], Absent}
    BY OneFileAppears
  <1>2. Present(e)' \subseteq Present(e) \cup {p}
    BY <1>1 DEF Present, Exists, Absent
  <1>3. IsFiniteSet(Present(e) \cup {p})
    BY FS_AddElement DEF FewFiles
  <1> QED
    BY <1>2, <1>3, FS_Subset

\* A command is taken: one step at least is behind the device.
LEMMA TakenFalls ==
  ASSUME TypeInv, NEW d \in Devices, NEW goal \in States,
         pc[d] = "idle", queue[d] # <<>>, Pop(d), Goto(d, goal), UNCHANGED disk,
         goal = "save" => Head(queue[d]).op = "download"
  PROVE  /\ Pending(d)' <= Pending(d) /\ Present(d)' = Present(d)
         /\ StepsLeft(d)' < StepsLeft(d)
  <1>1. /\ queue[d] \in Seq(Command) /\ queue'[d] = Tail(queue[d]) /\ pc'[d] = goal
        /\ Len(queue'[d]) = Len(queue[d]) - 1 /\ Len(queue[d]) \in Nat
        /\ queue'[d] \in Seq(Command)
    BY DEF TypeInv, TypeOK, Pop, Goto
  <1>2. Present(d)' = Present(d)
    BY DEF Present, Exists
  <1>3. StepsLeft(d)' < StepsLeft(d)
    <2>1. Stage(pc[d]) = 0 /\ Stage(goal) \in 0 .. 2
      BY StageType DEF States
    <2> QED
      BY <1>1, <2>1 DEF StepsLeft
  <1>4. Pending(d)' <= Pending(d)
    <2> DEFINE n == IF Head(queue[d]).op = "download" THEN 1 ELSE 0
               m == IF goal = "save" THEN 1 ELSE 0
    <2>1. Cardinality(Downloads(queue'[d])) + n <= Cardinality(Downloads(queue[d]))
      BY <1>1, DownloadsPopped
    <2>2. /\ Cardinality(Downloads(queue'[d])) \in Nat
          /\ Cardinality(Downloads(queue[d])) \in Nat
      BY <1>1, DownloadsFinite
    <2>3. n \in 0 .. 1 /\ m \in 0 .. 1 /\ m <= n
      OBVIOUS
    <2>4. Pending(d) = Cardinality(Downloads(queue[d])) + 0
      BY DEF Pending
    <2>5. Pending(d)' = Cardinality(Downloads(queue'[d])) + m
      BY <1>1 DEF Pending
    <2> HIDE DEF n, m
    <2> QED
      BY <2>1, <2>2, <2>3, <2>4, <2>5
  <1> QED
    BY <1>2, <1>3, <1>4

\* A command goes on or ends.
LEMMA StageFalls ==
  ASSUME TypeInv, NEW d \in Devices, NEW goal \in States, goal # "save",
         Stage(goal) < Stage(pc[d]), Goto(d, goal), UNCHANGED <<queue, disk>>
  PROVE  /\ Pending(d)' <= Pending(d) /\ Present(d)' = Present(d)
         /\ StepsLeft(d)' < StepsLeft(d)
  <1>1. /\ queue[d] \in Seq(Command) /\ queue'[d] = queue[d] /\ pc'[d] = goal
        /\ Len(queue[d]) \in Nat /\ pc[d] \in States
    BY DEF TypeInv, TypeOK, Goto
  <1>2. Present(d)' = Present(d)
    BY DEF Present, Exists
  <1>3. StepsLeft(d)' < StepsLeft(d)
    BY <1>1, StageType DEF StepsLeft
  <1>4. Pending(d)' <= Pending(d)
    BY <1>1, DownloadsFinite DEF Pending
  <1> QED
    BY <1>2, <1>3, <1>4

\* The process starts again: there is nothing before the device.
LEMMA RestartFalls ==
  ASSUME TypeInv, FewFiles, NEW d \in Devices, Restart(d)
  PROVE  /\ Pending(d)' = 0 /\ StepsLeft(d)' = 0 /\ Present(d)' = Present(d)
         /\ got'[d] = got[d]
         /\ StepsLeft(d) = 0 <=> queue[d] = <<>> /\ pc[d] = "idle"
         /\ queue[d] = <<>> /\ pc[d] = "idle" => Pending(d) = 0
  <1>1. /\ queue[d] \in Seq(Command) /\ queue'[d] = <<>> /\ pc'[d] = "idle"
        /\ Len(queue[d]) \in Nat /\ pc[d] \in States
    BY DEF TypeInv, TypeOK, Restart, Goto
  <1>2. Present(d)' = Present(d) /\ got'[d] = got[d]
    BY DEF Present, Exists, Restart, local
  <1>3. Downloads(<<>>) = {} /\ Cardinality({}) = 0
    BY FS_EmptySet DEF Downloads
  <1>4. Pending(d)' = 0 /\ (queue[d] = <<>> /\ pc[d] = "idle" => Pending(d) = 0)
    <2>1. Pending(d)' = Cardinality(Downloads(queue'[d])) + 0
      BY <1>1 DEF Pending
    <2>2. pc[d] = "idle" => Pending(d) = Cardinality(Downloads(queue[d])) + 0
      BY DEF Pending
    <2>3. Cardinality(Downloads(<<>>)) = 0
      BY <1>3
    <2> QED
      BY <1>1, <2>1, <2>2, <2>3
  <1>5. Stage(pc[d]) \in 0 .. 2 /\ (Stage(pc[d]) = 0 <=> pc[d] = "idle") /\ Stage("idle") = 0
    BY <1>1, StageType DEF Stage
  <1>6. StepsLeft(d)' = 0
    BY <1>1, <1>5 DEF StepsLeft
  <1>7. StepsLeft(d) = 0 <=> queue[d] = <<>> /\ pc[d] = "idle"
    <2>1. Len(queue[d]) = 0 <=> queue[d] = <<>>
      BY <1>1
    <2> QED
      BY <1>1, <1>5, <2>1 DEF StepsLeft
  <1> QED
    BY <1>2, <1>4, <1>6, <1>7

LEMMA RefreshRowFalls ==
  ASSUME TypeInv, TypeInv', FewFiles, FewFiles', NEW d \in Devices, RefreshRow(d)
  PROVE  <<Effort(d)', Effort(d)>> \in Less
  <1>1. PICK i \in got[d] :
          /\ ApplyDeleted(d, rows[i]) \/ ApplyToKnown(d, rows[i])
               \/ ApplyToUnknown(d, rows[i])
          /\ got' = [got EXCEPT ![d] = @ \ {i}]
    BY DEF RefreshRow
  <1>2. /\ queue[d] \in Seq(Command) /\ Len(queue[d]) \in Nat /\ pc' = pc /\ pc[d] = "apply"
        /\ got'[d] = got[d] \ {i} /\ disk[d] \in [Paths -> DiskFile]
    BY <1>1 DEF TypeInv, TypeOK, RefreshRow
  <1>3. rows[i] \in FileInfo /\ db[d] \in LocalDB
    BY DEF TypeInv, TypeOK
  <1>4. rows[i].path \in Paths
    BY <1>3 DEF FileInfo
  <1>5. Cardinality(got[d])' < Cardinality(got[d])
    <2>1. IsFiniteSet(got[d]) /\ Cardinality(got[d]) \in Nat
      BY EffortType DEF EffortsOK, EffortOK
    <2>2. Cardinality(got[d] \ {i}) = Cardinality(got[d]) - 1
      BY <2>1, FS_RemoveElement
    <2> QED
      BY <1>2, <2>1, <2>2
  <1>6. EffortOK(d)
    BY EffortType DEF EffortsOK
  <1>7. \A p \in Paths : disk' = [disk EXCEPT ![d][p] = Absent] =>
          IF Exists(d, p)
            THEN Cardinality(Present(d))' < Cardinality(Present(d))
            ELSE Present(d)' = Present(d)
    <2> SUFFICES ASSUME NEW p \in Paths, disk' = [disk EXCEPT ![d][p] = Absent]
                 PROVE  IF Exists(d, p)
                          THEN Cardinality(Present(d))' < Cardinality(Present(d))
                          ELSE Present(d)' = Present(d)
      OBVIOUS
    <2>1. disk'[d] = [disk[d] EXCEPT ![p] = Absent]
      BY DEF TypeInv, TypeOK
    <2>2. Present(d)' = Present(d) \ {p}
      BY <1>2, <2>1 DEF Present, Exists, Absent
    <2>3. Exists(d, p) <=> p \in Present(d)
      BY DEF Present
    <2>4. IsFiniteSet(Present(d)) /\ Cardinality(Present(d)) \in Nat
      BY <1>6 DEF FewFiles, EffortOK
    <2>5. p \in Present(d) => Cardinality(Present(d) \ {p}) = Cardinality(Present(d)) - 1
      BY <2>4, FS_RemoveElement
    <2> QED
      BY <2>2, <2>3, <2>4, <2>5
  <1>8. ASSUME UNCHANGED queue
        PROVE  Pending(d)' <= Pending(d) /\ StepsLeft(d)' <= StepsLeft(d)
    <2>1. Pending(d)' = Pending(d) /\ StepsLeft(d)' = StepsLeft(d)
      BY <1>2, <1>8 DEF Pending, StepsLeft
    <2> QED
      BY <1>6, <2>1 DEF EffortOK
  <1>9. CASE ApplyDeleted(d, rows[i])
    <2> DEFINE p == rows[i].path
    <2>1. disk' = [disk EXCEPT ![d][p] = Absent]
      BY <1>9 DEF ApplyDeleted
    <2>2. ASSUME Exists(d, p)
          PROVE  <<Effort(d)', Effort(d)>> \in Less
      <3> DEFINE c == Cmd("delete", p, p, AnyFile, "sync")
      <3>1. c \in Command /\ c.op # "download"
        BY <1>4, CmdType, FileIdsType DEF Ops, Cmd
      <3>2. queue'[d] = queue[d] \o <<RefreshCmd, c>>
        BY <1>9, <2>2 DEF ApplyDeleted, Notify, TypeInv, TypeOK
      <3> HIDE DEF c
      <3>3. Downloads(queue'[d]) = Downloads(queue[d])
        BY <1>2, <3>1, <3>2, DownloadsNotified
      <3>4. Pending(d)' <= Pending(d)
        <4>1. Pending(d)' = Pending(d)
          BY <1>2, <3>3 DEF Pending
        <4> QED
          BY <1>6, <4>1 DEF EffortOK
      <3>5. Cardinality(Present(d))' < Cardinality(Present(d))
        BY <1>4, <1>7, <2>1, <2>2
      <3> QED
        BY <3>4, <3>5, EffortFalls
    <2>3. ASSUME ~ Exists(d, p)
          PROVE  <<Effort(d)', Effort(d)>> \in Less
      <3>1. UNCHANGED queue
        BY <1>9, <2>3 DEF ApplyDeleted
      <3>2. Present(d)' = Present(d)
        BY <1>4, <1>7, <2>1, <2>3
      <3> QED
        BY <1>5, <1>8, <3>1, <3>2, EffortFalls
    <2> QED
      BY <2>2, <2>3
  <1>10. CASE ApplyToKnown(d, rows[i])
    <2>1. UNCHANGED queue /\ IsFileExist(db[d], rows[i].file)
      BY <1>10 DEF ApplyToKnown
    <2>2. SelectFile(db[d], rows[i].file).path \in Paths
      BY <1>3, <2>1, SelectFileType DEF LocalFile
    <2>3. disk' = disk \/ \E p \in Paths : disk' = [disk EXCEPT ![d][p] = Absent]
      BY <1>10, <2>2 DEF ApplyToKnown
    <2>4. disk' = disk => Present(d)' = Present(d)
      BY DEF Present, Exists
    <2>5. \/ Present(d)' = Present(d)
          \/ Cardinality(Present(d))' < Cardinality(Present(d))
      BY <1>7, <2>3, <2>4
    <2> QED
      BY <1>5, <1>8, <2>1, <2>5, EffortFalls
  <1>11. CASE ApplyToUnknown(d, rows[i])
    <2>1. UNCHANGED <<queue, disk>>
      BY <1>11 DEF ApplyToUnknown
    <2>2. Present(d)' = Present(d)
      BY <2>1 DEF Present, Exists
    <2> QED
      BY <1>5, <1>8, <2>1, <2>2, EffortFalls
  <1> QED
    BY <1>1, <1>9, <1>10, <1>11

LEMMA AbortFalls ==
  ASSUME TypeInv, TypeInv', FewFiles, FewFiles', NEW d \in Devices,
         queue[d] # <<>>, Abort(d)
  PROVE  <<Effort(d)', Effort(d)>> \in Less
  <1>1. EffortOK(d)
    BY EffortType DEF EffortsOK
  <1>2. /\ Pending(d)' = 0 /\ StepsLeft(d)' = 0 /\ Present(d)' = Present(d)
        /\ StepsLeft(d) # 0
    BY RestartFalls DEF Abort
  <1>3. Pending(d)' <= Pending(d) /\ StepsLeft(d)' < StepsLeft(d)
    BY <1>1, <1>2 DEF EffortOK
  <1> QED
    BY <1>2, <1>3, EffortFalls

LEMMA WorkerFalls ==
  ASSUME TypeInv, TypeInv', FewFiles, FewFiles', NEW d \in Devices, Worker(d)
  PROVE  <<Effort(d)', Effort(d)>> \in Less
  <1>1. ASSUME NEW goal \in States \ {"save"}, pc[d] = "idle", queue[d] # <<>>,
               Pop(d), Goto(d, goal), UNCHANGED disk
        PROVE  <<Effort(d)', Effort(d)>> \in Less
    BY <1>1, TakenFalls, EffortFalls
  <1>2. ASSUME NEW goal \in States \ {"save"}, Stage(goal) < Stage(pc[d]), Goto(d, goal),
               UNCHANGED <<queue, disk>>
        PROVE  <<Effort(d)', Effort(d)>> \in Less
    BY <1>2, StageFalls, EffortFalls
  <1>3. /\ Stage("idle") = 0 /\ Stage("ask") = 2 /\ Stage("apply") = 1
        /\ Stage("chunks") = 2 /\ Stage("meta") = 1
        /\ {"idle", "ask", "apply", "chunks", "meta"} = States \ {"save"}
    BY DEF Stage, States
  <1>4. CASE RefreshBegin(d)
    BY <1>1, <1>3, <1>4 DEF RefreshBegin, Take
  <1>5. CASE RefreshAnswer(d)
    BY <1>2, <1>3, <1>5 DEF RefreshAnswer
  <1>6. CASE RefreshEnd(d)
    BY <1>2, <1>3, <1>6 DEF RefreshEnd
  <1>7. CASE UploadChunks(d)
    BY <1>2, <1>3, <1>7 DEF UploadChunks
  <1>8. CASE UploadMeta(d)
    BY <1>2, <1>3, <1>8 DEF UploadMeta
  <1>9. ASSUME NEW result, NEW goal \in {"chunks", "meta"}, Indexed(d, result, goal),
               pc[d] = "idle", queue[d] # <<>>
        PROVE  <<Effort(d)', Effort(d)>> \in Less
    BY <1>1, <1>3, <1>9 DEF Indexed
  <1>10. CASE CreateBegin(d)
    BY <1>9, <1>10, AbortFalls DEF CreateBegin, Take
  <1>11. CASE ModifyBegin(d)
    BY <1>9, <1>11, AbortFalls DEF ModifyBegin, Take
  <1>12. CASE RenameBegin(d)
    BY <1>9, <1>12, AbortFalls DEF RenameBegin, Take
  <1>13. CASE DeleteBegin(d)
    BY <1>9, <1>13, AbortFalls DEF DeleteBegin, Take
  <1>14. CASE DownloadAsk(d)
    <2>1. /\ pc[d] = "idle" /\ queue[d] # <<>> /\ Head(queue[d]).op = "download"
          /\ Pop(d) /\ UNCHANGED disk
          /\ Goto(d, "save") \/ UNCHANGED pc
      BY <1>14 DEF DownloadAsk, Take
    <2>2. UNCHANGED pc => Goto(d, "idle")
      BY <2>1 DEF Goto, TypeInv, TypeOK
    <2>3. \E goal \in {"save", "idle"} : Goto(d, goal)
      BY <2>1, <2>2
    <2>4. {"save", "idle"} \subseteq States
      BY DEF States
    <2> QED
      BY <2>1, <2>3, <2>4, TakenFalls, EffortFalls
  <1>15. CASE DownloadSave(d)
    <2>1. /\ pc[d] = "save" /\ pc'[d] = "idle" /\ queue'[d] = queue[d]
          /\ queue[d] \in Seq(Command)
      BY <1>15 DEF DownloadSave, Goto, TypeInv, TypeOK
    <2>2. /\ Pending(d) = Cardinality(Downloads(queue[d])) + 1
          /\ Pending(d)' = Cardinality(Downloads(queue[d])) + 0
      BY <2>1 DEF Pending
    <2>3. Pending(d)' < Pending(d)
      BY <2>1, <2>2, DownloadsFinite
    <2> QED
      BY <2>3, EffortFalls
  <1>16. CASE RefreshRow(d)
    BY <1>16, RefreshRowFalls
  <1> QED
    BY <1>4, <1>5, <1>6, <1>7, <1>8, <1>10, <1>11, <1>12, <1>13, <1>14, <1>15, <1>16
       DEF Worker

LEMMA CrashFalls ==
  ASSUME TypeInv, TypeInv', FewFiles, FewFiles', NEW d \in Devices, Crash(d)
  PROVE  Effort(d)' = Effort(d) \/ <<Effort(d)', Effort(d)>> \in Less
  <1>1. Restart(d)
    BY DEF Crash
  <1>2. CASE queue[d] # <<>>
    BY <1>1, <1>2, AbortFalls DEF Abort
  <1>3. CASE queue[d] = <<>> /\ pc[d] = "idle"
    <2>1. /\ Pending(d)' = Pending(d) /\ StepsLeft(d)' = StepsLeft(d)
          /\ Present(d)' = Present(d) /\ got'[d] = got[d]
      BY <1>1, <1>3, RestartFalls
    <2> QED
      BY <2>1 DEF Effort
  <1>4. CASE queue[d] = <<>> /\ pc[d] # "idle"
    <2>1. EffortOK(d)
      BY EffortType DEF EffortsOK
    <2>2. /\ Pending(d)' = 0 /\ StepsLeft(d)' = 0 /\ Present(d)' = Present(d)
          /\ StepsLeft(d) # 0
      BY <1>1, <1>4, RestartFalls
    <2>3. Pending(d)' <= Pending(d) /\ StepsLeft(d)' < StepsLeft(d)
      BY <2>1, <2>2 DEF EffortOK
    <2> QED
      BY <2>2, <2>3, EffortFalls
  <1> QED
    BY <1>2, <1>3, <1>4

\* What a step does to the effort of each device.
WorkEnds ==
  \A d \in Devices :
    /\ Worker(d) => <<Effort(d)', Effort(d)>> \in Less
    /\ \/ Effort(d)' = Effort(d)
       \/ <<Effort(d)', Effort(d)>> \in Less
       \/ User(d)

LEMMA StepEffort ==
  ASSUME TypeInv, TypeInv', FewFiles, FewFiles', [Next]_vars
  PROVE  WorkEnds
  <1> SUFFICES ASSUME NEW d \in Devices
               PROVE  /\ Worker(d) => <<Effort(d)', Effort(d)>> \in Less
                      /\ \/ Effort(d)' = Effort(d)
                         \/ <<Effort(d)', Effort(d)>> \in Less
                         \/ User(d)
    BY DEF WorkEnds
  <1>1. Worker(d) => <<Effort(d)', Effort(d)>> \in Less
    BY WorkerFalls
  <1>2. Crash(d) => Effort(d)' = Effort(d) \/ <<Effort(d)', Effort(d)>> \in Less
    BY CrashFalls
  <1>3. ASSUME NEW e \in Devices, e # d, User(e) \/ Worker(e) \/ Crash(e)
        PROVE  Effort(d)' = Effort(d)
    BY <1>3, OthersKeep, EffortKept
  <1>4. Tick \/ UNCHANGED vars => Effort(d)' = Effort(d)
    <2>1. Tick \/ UNCHANGED vars => UNCHANGED Own(d)
      BY DEF Tick, vars, local, Own
    <2> QED
      BY <2>1, EffortKept
  <1> QED
    BY <1>1, <1>2, <1>3, <1>4 DEF Next

\* What a device has to do comes to an end: its effort, in a well-founded order,
\* falls with every step of its worker, and nothing but its own user ever raises
\* it: no refresh, no failed or lost request, no crash and no other device. A
\* refresh may queue commands of its own, yet only for a file it removes
\* (Worker::Run, App::watcherCallback, RefreshCommand::Do).
THEOREM WorkComesToAnEnd ==
  /\ IsWellFoundedOn(Less, [1 .. 4 -> Nat])
  /\ Spec => [](\A d \in Devices : Effort(d) \in [1 .. 4 -> Nat])
  /\ Spec => [][WorkEnds]_vars
  <1>1. TypeInv /\ FewFiles => \A d \in Devices : Effort(d) \in [1 .. 4 -> Nat]
    BY EffortType DEF EffortsOK, EffortOK
  <1>2. TypeInv /\ TypeInv' /\ FewFiles /\ FewFiles' /\ [Next]_vars => WorkEnds
    BY StepEffort
  <1> QED
    BY <1>1, <1>2, LessWellFounded, InitTypeInv, NextTypeInv, InitFewFiles, NextFewFiles,
       PTL DEF Spec

-------------------------------------------------------------------------------
(* The threads that take the steps                                         *)

\* A step of a thread is one of CloudSync or none: whatever was proved of
\* CloudSync holds with threads (App::runWorker, Worker::Run).
THEOREM ThreadsImplement == ThreadsSpec => Spec
  <1>1. ThreadsInit => Init
    BY DEF ThreadsInit
  <1>2. [ThreadsNext]_<<vars, threads>> => [Next]_vars
    BY DEF ThreadsNext, UserCalls, RunWorker, WorkerThread, RunsCommand, SeesEmpty,
           ClearsFlag, Next
  <1> QED
    BY <1>1, <1>2, PTL DEF ThreadsSpec, Spec

LEMMA Lengthens ==
  ASSUME queue \in [Devices -> Seq(Command)], NEW d \in Devices, NEW c \in Command,
         Notify(d, c) \/ queue' = [queue EXCEPT ![d] = Append(@, c)]
  PROVE  /\ Len(queue'[d]) \in Nat /\ Len(queue'[d]) >= Len(queue[d])
         /\ \A e \in Devices \ {d} : queue'[e] = queue[e]
  <1>1. queue[d] \in Seq(Command) /\ Len(queue[d]) \in Nat /\ RefreshCmd \in Command
    BY RefreshCmdType
  <1>2. CASE Notify(d, c)
    <2>1. <<RefreshCmd, c>> \in Seq(Command) /\ Len(<<RefreshCmd, c>>) = 2
      BY <1>1
    <2>2. ASSUME NEW s \in Seq(Command), NEW t \in Seq(Command)
          PROVE  Len(s \o t) = Len(s) + Len(t)
      BY ConcatProperties, Zenon
    <2>3. Len(queue[d] \o <<RefreshCmd, c>>) = Len(queue[d]) + Len(<<RefreshCmd, c>>)
      BY <1>1, <2>1, <2>2
    <2> QED
      BY <1>1, <1>2, <2>1, <2>3 DEF Notify
  <1>3. CASE queue' = [queue EXCEPT ![d] = Append(@, c)]
    BY <1>1, <1>3
  <1> QED
    BY <1>2, <1>3

LEMMA UserQueues ==
  ASSUME TypeInv, NEW d \in Devices, User(d)
  PROVE  /\ pc' = pc
         /\ Len(queue'[d]) \in Nat /\ Len(queue'[d]) >= Len(queue[d])
         /\ \A e \in Devices \ {d} : queue'[e] = queue[e]
  <1>1. queue \in [Devices -> Seq(Command)]
    BY DEF TypeInv, TypeOK
  <1>2. \E c \in Command : Notify(d, c) \/ queue' = [queue EXCEPT ![d] = Append(@, c)]
    <2>1. ASSUME NEW p \in Paths, NEW b \in Contents, UserCreate(d, p, b) \/ UserModify(d, p, b)
          PROVE  \E c \in Command : Notify(d, c)
      BY <2>1, CmdType, FileIdsType DEF UserCreate, UserModify, Ops
    <2>2. ASSUME NEW p \in Paths, NEW q \in Paths, UserRename(d, p, q) \/ UserDelete(d, p)
          PROVE  \E c \in Command : Notify(d, c)
      BY <2>2, CmdType, FileIdsType DEF UserRename, UserDelete, Ops
    <2>3. CASE UserRefresh(d)
      BY <2>3, RefreshCmdType DEF UserRefresh
    <2>4. ASSUME NEW x \in db[d].files, UserDownload(d, x)
          PROVE  \E c \in Command : queue' = [queue EXCEPT ![d] = Append(@, c)]
      <3>1. x \in LocalFile
        BY FieldTypes DEF TypeInv, TypeOK
      <3>2. Cmd("download", x.path, x.path, x.id, "user") \in Command
        BY <3>1, CmdType DEF Ops, LocalFile
      <3> QED
        BY <2>4, <3>2 DEF UserDownload
    <2> QED
      BY <2>1, <2>2, <2>3, <2>4 DEF User, UserWrites, UserReads
  <1>3. pc' = pc
    BY DEF User, UserWrites, UserReads, UserCreate, UserModify, UserRename, UserDelete,
           UserRefresh, UserDownload, UserStep
  <1> QED
    BY <1>1, <1>2, <1>3, Lengthens

LEMMA WorkerQueues ==
  ASSUME TypeInv, NEW d \in Devices, Worker(d)
  PROVE  /\ \A e \in Devices \ {d} : queue'[e] = queue[e] /\ pc'[e] = pc[e]
         /\ pc[d] = "idle" =>
              queue[d] # <<>> /\ (EndsProcess(d) \/ queue'[d] = Tail(queue[d]))
         /\ EndsProcess(d) => pc'[d] = "idle"
         /\ pc[d] = "apply" => Len(queue'[d]) \in Nat /\ Len(queue'[d]) >= Len(queue[d])
         /\ pc[d] \notin {"idle", "apply"} => queue'[d] = queue[d]
  <1> USE DEF TypeInv, TypeOK
  <1>1. \A e \in Devices \ {d} : queue'[e] = queue[e] /\ pc'[e] = pc[e]
    BY OthersKeep DEF Own
  <1>2. CASE RefreshBegin(d) \/ DownloadAsk(d)
    BY <1>1, <1>2 DEF RefreshBegin, DownloadAsk, Take, Pop, EndsProcess
  <1>3. CASE CreateBegin(d) \/ ModifyBegin(d) \/ RenameBegin(d) \/ DeleteBegin(d)
    <2>1. /\ pc[d] = "idle" /\ queue[d] # <<>>
          /\ Head(queue[d]).op \in {"create", "modify", "rename", "delete"}
      BY <1>3 DEF CreateBegin, ModifyBegin, RenameBegin, DeleteBegin, Take
    <2>2. Abort(d) \/ \E result, at : Indexed(d, result, at)
      BY <1>3 DEF CreateBegin, ModifyBegin, RenameBegin, DeleteBegin
    <2>3. CASE Abort(d)
      BY <1>1, <2>1, <2>3 DEF Abort, Restart, Goto, EndsProcess
    <2>4. CASE \E result, at : Indexed(d, result, at)
      BY <1>1, <2>1, <2>4 DEF Indexed, Pop, EndsProcess
    <2> QED
      BY <2>2, <2>3, <2>4
  <1>4. CASE RefreshAnswer(d) \/ RefreshEnd(d) \/ UploadChunks(d) \/ UploadMeta(d)
             \/ DownloadSave(d)
    BY <1>1, <1>4 DEF RefreshAnswer, RefreshEnd, UploadChunks, UploadMeta, DownloadSave,
                      EndsProcess
  <1>5. CASE RefreshRow(d)
    <2>1. PICK i \in got[d] : ApplyDeleted(d, rows[i]) \/ ApplyToKnown(d, rows[i])
                                \/ ApplyToUnknown(d, rows[i])
      BY <1>5 DEF RefreshRow
    <2>2. rows[i] \in FileInfo
      BY <2>1
    <2>3. queue' = queue \/ \E c \in Command : Notify(d, c)
      <3>1. rows[i].path \in Paths
        BY <2>2 DEF FileInfo
      <3>2. Cmd("delete", rows[i].path, rows[i].path, AnyFile, "sync") \in Command
        BY <3>1, CmdType, FileIdsType DEF Ops
      <3> QED
        BY <2>1, <3>2 DEF ApplyDeleted, ApplyToKnown, ApplyToUnknown
    <2>4. pc[d] = "apply" /\ Len(queue[d]) \in Nat
      BY <1>5 DEF RefreshRow
    <2>5. Len(queue'[d]) \in Nat /\ Len(queue'[d]) >= Len(queue[d])
      BY <2>3, <2>4, Lengthens
    <2> QED
      BY <1>1, <2>4, <2>5 DEF EndsProcess
  <1> QED
    BY <1>2, <1>3, <1>4, <1>5 DEF Worker

\* Commands that have been put into the queue have a worker, or runWorker took one
\* that was leaving to be at work; and only a worker is ever in a command.
ThreadInv(d) ==
  /\ worker[d] \in {"none", "running", "leaving"}
  /\ calls[d] \in Nat /\ calls[d] <= Len(queue[d])
  /\ worker[d] # "running" => pc[d] = "idle"
  /\ worker[d] # "running" /\ calls[d] < Len(queue[d]) => d \in unseen

ThreadsInv ==
  /\ worker \in [Devices -> {"none", "running", "leaving"}]
  /\ calls \in [Devices -> Nat] /\ unseen \subseteq Devices
  /\ \A d \in Devices : ThreadInv(d)

\* Who has something to do has a worker that does it, or a call of runWorker to
\* come, or was forgotten by the last one.
HasWorker ==
  \A d \in Devices : pc[d] # "idle" \/ queue[d] # <<>> =>
    worker[d] = "running" \/ calls[d] > 0 \/ d \in unseen

LEMMA EndsWithQueue ==
  ASSUME TypeInv, NEW d \in Devices, Worker(d), EndsProcess(d)
  PROVE  queue'[d] = <<>>
  <1>1. CreateBegin(d) \/ ModifyBegin(d) \/ RenameBegin(d) \/ DeleteBegin(d)
    BY DEF EndsProcess, Worker, RefreshBegin, RefreshAnswer, RefreshRow, RefreshEnd,
           UploadChunks, UploadMeta, DownloadAsk, DownloadSave, Take
  <1>2. Abort(d)
    BY <1>1 DEF EndsProcess, CreateBegin, ModifyBegin, RenameBegin, DeleteBegin, Indexed,
                Goto, TypeInv, TypeOK
  <1> QED
    BY <1>2 DEF Abort, Restart, TypeInv, TypeOK

LEMMA InitThreadsInv == ThreadsInit => ThreadsInv
  BY DEF ThreadsInit, Init, ThreadsInv, ThreadInv

LEMMA CallsGrow ==
  ASSUME ThreadsInv, NEW d \in Devices, Calls(d), Len(queue[d]) \in Nat,
         Len(queue'[d]) \in Nat, Len(queue'[d]) >= Len(queue[d])
  PROVE  /\ worker' = worker /\ unseen' = unseen /\ calls' \in [Devices -> Nat]
         /\ calls[d] <= Len(queue[d]) => calls'[d] <= Len(queue'[d])
         /\ calls'[d] < Len(queue'[d]) <=> calls[d] < Len(queue[d])
         /\ \A e \in Devices \ {d} : calls'[e] = calls[e]
  <1>1. calls \in [Devices -> Nat]
    BY DEF ThreadsInv
  <1>2. PICK x \in Nat, y \in Nat, z \in Nat :
          x = calls[d] /\ y = Len(queue'[d]) /\ z = Len(queue[d])
    BY <1>1
  <1>3. calls' = [calls EXCEPT ![d] = x + (y - z)]
    BY <1>2, Zenon DEF Calls
  <1>4. x + (y - z) \in Nat /\ (x <= z => x + (y - z) <= y) /\ (x + (y - z) < y <=> x < z)
    <2>1. y >= z
      BY <1>2
    <2> QED
      BY <2>1
  <1>5. /\ calls' \in [Devices -> Nat] /\ calls'[d] = x + (y - z)
        /\ \A e \in Devices \ {d} : calls'[e] = calls[e]
    BY <1>1, <1>3, <1>4
  <1> QED
    BY <1>2, <1>4, <1>5 DEF Calls

LEMMA OneThreadMoves ==
  ASSUME ThreadsInv, NEW d \in Devices, unseen' \subseteq Devices,
         \A e \in Devices \ {d} :
           /\ queue'[e] = queue[e] /\ pc'[e] = pc[e]
           /\ worker'[e] = worker[e] /\ calls'[e] = calls[e]
           /\ e \in unseen' <=> e \in unseen,
         DOMAIN worker' = Devices, DOMAIN calls' = Devices,
         worker' = [e \in Devices |-> worker'[e]],
         calls' = [e \in Devices |-> calls'[e]],
         ThreadInv(d)'
  PROVE  ThreadsInv'
  <1>1. \A e \in Devices : ThreadInv(e)'
    BY DEF ThreadsInv, ThreadInv
  <1>2. \A e \in Devices : worker'[e] \in {"none", "running", "leaving"} /\ calls'[e] \in Nat
    BY <1>1 DEF ThreadInv
  <1> QED
    BY <1>1, <1>2 DEF ThreadsInv

LEMMA NextThreadsInv ==
  ASSUME TypeInv, TypeInv', ThreadsInv, [ThreadsNext]_<<vars, threads>>
  PROVE  ThreadsInv'
  <1>1. CASE (Tick /\ UNCHANGED threads) \/ UNCHANGED <<vars, threads>>
    BY <1>1 DEF Tick, vars, threads, ThreadsInv, ThreadInv
  <1>2. ASSUME NEW d \in Devices, UserCalls(d) PROVE ThreadsInv'
    <2>1. /\ pc' = pc /\ Len(queue'[d]) \in Nat /\ Len(queue'[d]) >= Len(queue[d])
          /\ \A e \in Devices \ {d} : queue'[e] = queue[e]
      BY <1>2, UserQueues DEF UserCalls
    <2>2. Len(queue[d]) \in Nat
      BY DEF TypeInv, TypeOK
    <2>3. /\ worker' = worker /\ unseen' = unseen /\ calls' \in [Devices -> Nat]
          /\ calls[d] <= Len(queue[d]) => calls'[d] <= Len(queue'[d])
          /\ calls'[d] < Len(queue'[d]) <=> calls[d] < Len(queue[d])
          /\ \A e \in Devices \ {d} : calls'[e] = calls[e]
      BY <1>2, <2>1, <2>2, CallsGrow DEF UserCalls
    <2>4. ThreadInv(d)'
      BY <2>1, <2>2, <2>3 DEF ThreadsInv, ThreadInv
    <2> QED
      BY <2>1, <2>3, <2>4, OneThreadMoves DEF ThreadsInv
  <1>3. ASSUME NEW d \in Devices, RunWorker(d) PROVE ThreadsInv'
    <2>1. queue' = queue /\ pc' = pc /\ Len(queue[d]) \in Nat
      BY <1>3 DEF RunWorker, vars, TypeInv, TypeOK
    <2>2. ThreadInv(d)'
      BY <1>3, <2>1 DEF RunWorker, ThreadsInv, ThreadInv
    <2> QED
      BY <1>3, <2>1, <2>2, OneThreadMoves DEF RunWorker, ThreadsInv
  <1>4. ASSUME NEW d \in Devices, SeesEmpty(d) \/ ClearsFlag(d) PROVE ThreadsInv'
    <2>1. queue' = queue /\ pc' = pc /\ Len(queue[d]) \in Nat
      BY <1>4 DEF SeesEmpty, ClearsFlag, vars, TypeInv, TypeOK
    <2>2. ThreadInv(d)' /\ unseen' = unseen
      BY <1>4, <2>1 DEF SeesEmpty, ClearsFlag, ThreadsInv, ThreadInv
    <2> QED
      BY <1>4, <2>1, <2>2, OneThreadMoves DEF SeesEmpty, ClearsFlag, ThreadsInv
  <1>5. ASSUME NEW d \in Devices, NoThreads(d), queue'[d] = <<>>, pc'[d] = "idle",
               \A e \in Devices \ {d} : queue'[e] = queue[e] /\ pc'[e] = pc[e]
        PROVE  ThreadsInv'
    <2>1. ThreadInv(d)'
      BY <1>5 DEF NoThreads, ThreadsInv, ThreadInv
    <2> QED
      BY <1>5, <2>1, OneThreadMoves DEF NoThreads, ThreadsInv
  <1>6. ASSUME NEW d \in Devices, Crash(d) /\ NoThreads(d) PROVE ThreadsInv'
    <2>1. /\ queue'[d] = <<>> /\ pc'[d] = "idle"
          /\ \A e \in Devices \ {d} : queue'[e] = queue[e] /\ pc'[e] = pc[e]
      BY <1>6 DEF Crash, Restart, Goto, TypeInv, TypeOK
    <2> QED
      BY <1>5, <1>6, <2>1
  <1>7. ASSUME NEW d \in Devices, RunsCommand(d) PROVE ThreadsInv'
    <2>1. /\ \A e \in Devices \ {d} : queue'[e] = queue[e] /\ pc'[e] = pc[e]
          /\ pc[d] = "idle" =>
               queue[d] # <<>> /\ (EndsProcess(d) \/ queue'[d] = Tail(queue[d]))
          /\ EndsProcess(d) => pc'[d] = "idle"
          /\ pc[d] = "apply" => Len(queue'[d]) \in Nat /\ Len(queue'[d]) >= Len(queue[d])
          /\ pc[d] \notin {"idle", "apply"} => queue'[d] = queue[d]
      BY <1>7, WorkerQueues DEF RunsCommand
    <2>2. queue[d] \in Seq(Command) /\ Len(queue[d]) \in Nat
      BY DEF TypeInv, TypeOK
    <2>3. CASE EndsProcess(d)
      <3>1. NoThreads(d) /\ Worker(d) /\ pc[d] = "idle"
        BY <1>7, <2>3 DEF RunsCommand, EndsProcess
      <3>2. queue'[d] = <<>>
        BY <2>3, <3>1, EndsWithQueue
      <3> QED
        BY <1>5, <2>1, <2>3, <3>1, <3>2
    <2>4. CASE ~ EndsProcess(d) /\ pc[d] = "apply"
      <3>1. Calls(d) /\ worker[d] = "running"
        BY <1>7, <2>4 DEF RunsCommand
      <3>2. /\ worker' = worker /\ unseen' = unseen /\ calls' \in [Devices -> Nat]
            /\ calls[d] <= Len(queue[d]) => calls'[d] <= Len(queue'[d])
            /\ \A e \in Devices \ {d} : calls'[e] = calls[e]
        BY <2>1, <2>2, <2>4, <3>1, CallsGrow
      <3>3. ThreadInv(d)'
        BY <2>1, <2>2, <2>4, <3>1, <3>2 DEF ThreadsInv, ThreadInv
      <3> QED
        BY <2>1, <3>2, <3>3, OneThreadMoves DEF ThreadsInv
    <2>5. CASE ~ EndsProcess(d) /\ pc[d] # "apply"
      <3>1. /\ UNCHANGED threads /\ worker[d] = "running"
            /\ pc[d] = "idle" => Len(queue[d]) > calls[d]
        BY <1>7, <2>5 DEF RunsCommand
      <3>2. calls[d] <= Len(queue'[d])
        <4>1. CASE pc[d] = "idle"
          <5>1. Len(Tail(queue[d])) = Len(queue[d]) - 1
            BY <2>1, <2>2, <4>1
          <5>2. calls[d] \in Nat
            BY DEF ThreadsInv
          <5>3. queue'[d] = Tail(queue[d])
            BY <2>1, <2>5, <4>1
          <5>4. calls[d] <= Len(queue[d]) - 1
            BY <2>2, <3>1, <4>1, <5>2
          <5> QED
            BY <5>1, <5>3, <5>4
        <4>2. CASE pc[d] # "idle"
          BY <2>1, <2>5, <4>2 DEF ThreadsInv, ThreadInv
        <4> QED
          BY <4>1, <4>2
      <3>3. ThreadInv(d)'
        BY <3>1, <3>2 DEF threads, ThreadsInv, ThreadInv
      <3> QED
        BY <2>1, <3>1, <3>3, OneThreadMoves DEF threads, ThreadsInv
    <2> QED
      BY <2>3, <2>4, <2>5
  <1> QED
    BY <1>1, <1>2, <1>3, <1>4, <1>6, <1>7 DEF ThreadsNext, WorkerThread

\* No device sits on its work with nobody to do it, but in the one case that is
\* on record: runWorker took a worker that was leaving to be at work. Commands
\* queued by the watcher in the middle of a refresh, and those of a process that
\* ends, are included (App::runWorker, Worker::Run, App::watcherCallback).
THEOREM WorkHasAWorker == ThreadsSpec => []HasWorker
  <1>1. TypeInv /\ ThreadsInv => HasWorker
    <2> SUFFICES ASSUME TypeInv, ThreadsInv, NEW d \in Devices,
                        pc[d] # "idle" \/ queue[d] # <<>>, worker[d] # "running",
                        ~ (calls[d] > 0)
                 PROVE  d \in unseen
      BY DEF HasWorker
    <2> QED
      BY DEF ThreadsInv, ThreadInv, TypeInv, TypeOK
  <1> QED
    BY <1>1, ThreadsImplement, InitTypeInv, NextTypeInv, InitThreadsInv, NextThreadsInv,
       PTL DEF ThreadsSpec, Spec
===============================================================================
