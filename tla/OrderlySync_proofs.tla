--------------------------- MODULE OrderlySync_proofs ---------------------------
(***************************************************************************)
(* Proofs about OrderlySync, for any number of devices, files and users'   *)
(* operations, when no request fails.                                      *)
(*                                                                         *)
(* The rows of the sync server are the history of one view of the files.   *)
(* Every device shows the view that some first part of the rows leads to,  *)
(* and the one that is in use goes on from the view that all of them lead  *)
(* to, so that what it does is what the others will do.                    *)
(* A device may not yet have been told of the last row it shows, when that *)
(* is its own renaming or deletion; to apply such a row once more leaves   *)
(* the view as it is, and takes the copy away, which the cloud has.        *)
(***************************************************************************)
EXTENDS OrderlySync, CloudSync_proofs, WellFoundedInduction

-------------------------------------------------------------------------------
(* Views of the files                                                      *)

FileView == [id: FileIds, path: Paths, ver: Nat]

\* What an index shows, and the ids it gives out next.
Views == [files: SUBSET FileView, chunks: [FileIds -> Seq(Nat)],
          nextFile: Nat \ {0}, nextChunk: Nat]

ViewOfFile(x) == [id |-> x.id, path |-> x.path, ver |-> x.ver]

ViewOfRow(r) == [id |-> r.file, path |-> r.path, ver |-> r.ver]

View(x) == [files |-> {ViewOfFile(y) : y \in x.files}, chunks |-> x.chunks,
            nextFile |-> x.nextFile, nextChunk |-> x.nextChunk]

\* No two files have an id or a path in common, and the next id is new.
GoodView(v) ==
  /\ \A x \in v.files : x.id < v.nextFile
  /\ \A x, y \in v.files : x.id = y.id \/ x.path = y.path => x = y
  /\ \A f \in FileIds : f >= v.nextFile => v.chunks[f] = <<>>

IsFree(v, p) == \A x \in v.files : x.path # p

\* Row r creates, modifies, renames or deletes a file of view v, which makes it w.
Creates(v, r, w) ==
  /\ r.file = v.nextFile /\ ~ r.del /\ r.chunks # <<>> /\ IsFree(v, r.path)
  /\ w.files = v.files \cup {ViewOfRow(r)}
  /\ w.chunks = [v.chunks EXCEPT ![r.file] = r.chunks]
  /\ w.nextFile = v.nextFile + 1

Follows(v, r, x) == x \in v.files /\ x.id = r.file /\ r.ver = x.ver + 1

Modifies(v, r, w, x) ==
  /\ Follows(v, r, x) /\ ~ r.del /\ r.chunks # <<>> /\ r.path = x.path
  /\ w.files = (v.files \ {x}) \cup {ViewOfRow(r)}
  /\ w.chunks = [v.chunks EXCEPT ![r.file] = r.chunks]
  /\ w.nextFile = v.nextFile

Renames(v, r, w, x) ==
  /\ Follows(v, r, x) /\ ~ r.del /\ r.chunks = <<>> /\ IsFree(v, r.path)
  /\ w.files = (v.files \ {x}) \cup {ViewOfRow(r)}
  /\ w.chunks = v.chunks
  /\ w.nextFile = v.nextFile

Deletes(v, r, w, x) ==
  /\ Follows(v, r, x) /\ r.del /\ r.chunks = <<>> /\ r.path = x.path
  /\ w.files = v.files \ {x}
  /\ w.chunks = [v.chunks EXCEPT ![r.file] = <<>>]
  /\ w.nextFile = v.nextFile

\* Its chunks have the next ids.
Leads(v, r, w) ==
  /\ r.chunks = [k \in 1 .. Len(r.chunks) |-> v.nextChunk + k - 1]
  /\ w.nextChunk = v.nextChunk + Len(r.chunks)
  /\ \/ Creates(v, r, w)
     \/ \E x \in v.files : Modifies(v, r, w, x) \/ Renames(v, r, w, x) \/ Deletes(v, r, w, x)

LEMMA ViewType ==
  ASSUME NEW x \in LocalDB
  PROVE  View(x) \in Views
  <1>1. \A y \in x.files : ViewOfFile(y) \in FileView
    BY FieldTypes DEF LocalFile, ViewOfFile, FileView
  <1>2. {ViewOfFile(y) : y \in x.files} \in SUBSET FileView
    BY <1>1
  <1> QED
    BY <1>2, FieldTypes DEF View, Views

LEMMA ViewFields ==
  ASSUME NEW v \in Views
  PROVE  /\ v.files \in SUBSET FileView /\ v.chunks \in [FileIds -> Seq(Nat)]
         /\ v.nextFile \in Nat \ {0} /\ v.nextChunk \in Nat
         /\ \A x \in v.files : x.id \in FileIds /\ x.path \in Paths /\ x.ver \in Nat /\ x.id \in Nat
  BY FileIdsType DEF Views, FileView

LEMMA RowFields ==
  ASSUME NEW r \in FileInfo
  PROVE  /\ r.file \in FileIds /\ r.file \in Nat /\ r.path \in Paths /\ r.ver \in Nat
         /\ r.del \in BOOLEAN /\ r.date \in Nat /\ r.chunks \in Seq(Nat)
         /\ r.bytes \in Seq(Blocks) /\ Len(r.chunks) \in Nat
         /\ ViewOfRow(r) \in FileView
         /\ ViewOfRow(r).id = r.file /\ ViewOfRow(r).path = r.path /\ ViewOfRow(r).ver = r.ver
  <1>1. /\ r.file \in FileIds /\ r.path \in Paths /\ r.ver \in Nat
        /\ r.del \in BOOLEAN /\ r.date \in Nat /\ r.chunks \in Seq(Nat)
        /\ r.bytes \in Seq(Blocks)
    BY DEF FileInfo
  <1>2. r.file \in Nat
    BY <1>1, FileIdsType
  <1>3. Len(r.chunks) \in Nat
    BY <1>1
  <1> QED
    BY <1>1, <1>2, <1>3 DEF ViewOfRow, FileView

\* A row leads from a good view to one.
LEMMA LeadsToGood ==
  ASSUME NEW v \in Views, NEW w \in Views, NEW r \in FileInfo, GoodView(v), Leads(v, r, w)
  PROVE  GoodView(w)
  <1> DEFINE e == ViewOfRow(r)
  <1>1. e.id = r.file /\ e.path = r.path
    BY RowFields
  <1>2. r.file \in FileIds /\ r.file \in Nat /\ v.nextFile \in Nat
    BY RowFields, ViewFields
  <1>3. \A x \in v.files : x.id \in Nat /\ x.id < v.nextFile
    BY ViewFields DEF GoodView
  <1>4. \A x, y \in v.files : x.id = y.id \/ x.path = y.path => x = y
    BY DEF GoodView
  <1>5. \A f \in FileIds : f \in Nat /\ (f >= v.nextFile => v.chunks[f] = <<>>)
    BY FileIdsType DEF GoodView
  <1> HIDE DEF e
  <1>6. CASE Creates(v, r, w)
    <2>1. /\ r.file = v.nextFile /\ \A x \in v.files : x.path # r.path
          /\ w.files = v.files \cup {e} /\ w.nextFile = v.nextFile + 1
          /\ w.chunks = [v.chunks EXCEPT ![r.file] = r.chunks]
      BY <1>6 DEF Creates, IsFree, e
    <2>2. \A x \in w.files : x.id < w.nextFile
      BY <2>1, <1>1, <1>2, <1>3
    <2>3. \A x, y \in w.files : x.id = y.id \/ x.path = y.path => x = y
      BY <2>1, <1>1, <1>2, <1>3, <1>4
    <2>4. ASSUME NEW f \in FileIds, f >= w.nextFile PROVE w.chunks[f] = <<>>
      <3>1. f # r.file /\ f >= v.nextFile
        BY <2>1, <2>4, <1>2, <1>5
      <3>2. w.chunks[f] = v.chunks[f]
        BY <2>1, <3>1, ViewFields
      <3> QED
        BY <3>1, <3>2, <1>5
    <2> QED
      BY <2>2, <2>3, <2>4 DEF GoodView
  <1>7. ASSUME NEW x \in v.files, Modifies(v, r, w, x) \/ Renames(v, r, w, x)
        PROVE  GoodView(w)
    <2>1. /\ x.id = r.file /\ w.files = (v.files \ {x}) \cup {e} /\ w.nextFile = v.nextFile
          /\ \A y \in v.files : y.path = r.path => y = x
      BY <1>7, <1>4 DEF Modifies, Renames, Follows, IsFree, e
    <2>2. \A y \in w.files : y.id < w.nextFile
      BY <2>1, <1>1, <1>2, <1>3
    <2>3. \A y, z \in w.files : y.id = z.id \/ y.path = z.path => y = z
      BY <2>1, <1>1, <1>4
    <2>4. ASSUME NEW f \in FileIds, f >= w.nextFile PROVE w.chunks[f] = v.chunks[f]
      <3>1. f # r.file
        BY <2>1, <2>4, <1>2, <1>3, <1>5
      <3>2. w.chunks = v.chunks \/ w.chunks = [v.chunks EXCEPT ![r.file] = r.chunks]
        BY <1>7 DEF Modifies, Renames
      <3> QED
        BY <3>1, <3>2, ViewFields
    <2> QED
      BY <2>1, <2>2, <2>3, <2>4, <1>5 DEF GoodView
  <1>8. ASSUME NEW x \in v.files, Deletes(v, r, w, x)
        PROVE  GoodView(w)
    <2>1. /\ w.files = v.files \ {x} /\ w.nextFile = v.nextFile
          /\ w.chunks = [v.chunks EXCEPT ![r.file] = <<>>]
      BY <1>8 DEF Deletes
    <2>2. \A f \in FileIds : f >= w.nextFile => w.chunks[f] = <<>>
      BY <2>1, <1>2, <1>5, ViewFields
    <2> QED
      BY <2>1, <2>2, <1>3, <1>4 DEF GoodView
  <1> QED
    BY <1>6, <1>7, <1>8 DEF Leads

-------------------------------------------------------------------------------
(* What the calls of the index do to its view                              *)

UniqueIds(x) == \A y, z \in x.files : y.id = z.id => y = z

LEMMA FilesInView ==
  ASSUME NEW x \in LocalDB
  PROVE  /\ \A y \in x.files : ViewOfFile(y) \in View(x).files
         /\ \A e \in View(x).files : \E y \in x.files : e = ViewOfFile(y)
         /\ \A y \in x.files : /\ ViewOfFile(y).id = y.id /\ ViewOfFile(y).path = y.path
                               /\ ViewOfFile(y).ver = y.ver
                               /\ y \in LocalFile
         /\ View(x).chunks = x.chunks /\ View(x).nextFile = x.nextFile
         /\ View(x).nextChunk = x.nextChunk
  BY FieldTypes DEF View, ViewOfFile

LEMMA SameView ==
  ASSUME NEW v \in Views, NEW w \in Views, v.files = w.files, v.chunks = w.chunks,
         v.nextFile = w.nextFile, v.nextChunk = w.nextChunk
  PROVE  v = w
  BY DEF Views

LEMMA ViewIs ==
  ASSUME NEW y \in LocalDB, NEW w \in Views, View(y).files = w.files,
         y.chunks = w.chunks, y.nextFile = w.nextFile, y.nextChunk = w.nextChunk
  PROVE  View(y) = w
  <1>1. View(y) \in Views
    BY ViewType
  <1>2. View(y).chunks = w.chunks /\ View(y).nextFile = w.nextFile /\ View(y).nextChunk = w.nextChunk
    BY FilesInView
  <1> QED
    BY <1>1, <1>2, SameView

\* One file is replaced.
LEMMA Replaced ==
  ASSUME NEW x \in LocalDB, UniqueIds(x), NEW f \in x.files, NEW g \in LocalFile,
         g.id = f.id, NEW y \in LocalDB, y.files = (x.files \ {f}) \cup {g}
  PROVE  /\ View(y).files = (View(x).files \ {ViewOfFile(f)}) \cup {ViewOfFile(g)}
         /\ UniqueIds(y)
  <1>1. UniqueIds(y)
    BY DEF UniqueIds
  <1>2. \A z \in x.files : ViewOfFile(z) = ViewOfFile(f) => z = f
    <2>1. \A z \in x.files : ViewOfFile(z).id = z.id
      BY DEF ViewOfFile
    <2> QED
      BY <2>1 DEF UniqueIds
  <1>3. View(y).files = {ViewOfFile(z) : z \in (x.files \ {f}) \cup {g}}
    BY DEF View
  <1>4. View(x).files = {ViewOfFile(z) : z \in x.files}
    BY DEF View
  <1> QED
    BY <1>1, <1>2, <1>3, <1>4

\* One file is added.
LEMMA Added ==
  ASSUME NEW x \in LocalDB, UniqueIds(x), GoodView(View(x)), NEW g, g.id = x.nextFile,
         NEW y, y.files = x.files \cup {g}
  PROVE  View(y).files = View(x).files \cup {ViewOfFile(g)} /\ UniqueIds(y)
  <1>1. \A z \in x.files : z.id # x.nextFile
    <2>1. \A e \in View(x).files : e.id < View(x).nextFile
      BY DEF GoodView
    <2>2. /\ View(x).nextFile = x.nextFile /\ x.nextFile \in Nat
          /\ \A z \in x.files : ViewOfFile(z) \in View(x).files /\ ViewOfFile(z).id = z.id
      BY FilesInView, FieldTypes
    <2> QED
      BY <2>1, <2>2
  <1>2. View(y).files = {ViewOfFile(z) : z \in x.files \cup {g}}
    BY DEF View
  <1>3. View(x).files = {ViewOfFile(z) : z \in x.files}
    BY DEF View
  <1>4. UniqueIds(y)
    BY <1>1 DEF UniqueIds
  <1> QED
    BY <1>2, <1>3, <1>4

\* Update changes the one file that has the id.
LEMMA UpdatesOne ==
  ASSUME NEW x \in LocalDB, UniqueIds(x), NEW f \in x.files
  PROVE  /\ \A y \in x.files : y.id = f.id <=> y = f
         /\ \A g : {IF y.id = f.id THEN g ELSE y : y \in x.files} = (x.files \ {f}) \cup {g}
  <1>1. \A y \in x.files : y.id = f.id <=> y = f
    BY DEF UniqueIds
  <1> QED
    BY <1>1

LEMMA FileOfRow ==
  ASSUME NEW x \in LocalDB, GoodView(View(x)), NEW f \in x.files, NEW r, NEW e \in View(x).files,
         e.id = r.file, f.id = r.file
  PROVE  e = ViewOfFile(f)
  BY FilesInView DEF GoodView

LEMMA DBFields ==
  ASSUME NEW F, NEW C, NEW n, NEW m, NEW t
  PROVE  /\ DB(F, C, n, m, t).files = F /\ DB(F, C, n, m, t).chunks = C
         /\ DB(F, C, n, m, t).nextFile = n /\ DB(F, C, n, m, t).nextChunk = m
         /\ DB(F, C, n, m, t).last = t
  BY DEF DB

\* The copy of a row in the index, which is not on disk.
RowFile(r, id) ==
  [id |-> id, path |-> r.path, ver |-> r.ver, down |-> FALSE, date |-> r.date]

LEMMA RowFileType ==
  ASSUME NEW r \in FileInfo, NEW id \in FileIds
  PROVE  /\ RowFile(r, id) \in LocalFile
         /\ RowFile(r, id).id = id /\ RowFile(r, id).path = r.path
         /\ ~ RowFile(r, id).down
         /\ id = r.file => ViewOfFile(RowFile(r, id)) = ViewOfRow(r)
  BY RowFields DEF RowFile, LocalFile, ViewOfFile, ViewOfRow

LEMMA RenameFileInfoIs ==
  ASSUME NEW x \in LocalDB, UniqueIds(x), NEW r \in FileInfo, NEW f \in x.files, f.id = r.file
  PROVE  RenameFileInfo(x, r) = DB((x.files \ {f}) \cup {RowFile(r, r.file)}, x.chunks,
                                   x.nextFile, x.nextChunk, x.last)
  <1>1. Update(x.files, r.file, LAMBDA y : [id |-> y.id, path |-> r.path, ver |-> r.ver,
                                            down |-> FALSE, date |-> r.date])
          = {IF y.id = f.id THEN RowFile(r, r.file) ELSE y : y \in x.files}
    BY DEF Update, RowFile
  <1> QED
    BY <1>1, UpdatesOne DEF RenameFileInfo

LEMMA AppliesToKnown ==
  ASSUME NEW x \in LocalDB, UniqueIds(x), GoodView(View(x)), NEW r \in FileInfo,
         NEW w \in Views, Leads(View(x), r, w), ~ r.del, NEW f \in x.files, f.id = r.file,
         NEW y, y = IF r.chunks = <<>> THEN RenameFileInfo(x, r) ELSE UpdateFileInfo(x, r)
  PROVE  /\ View(y) = w /\ UniqueIds(y) /\ y.last = x.last
         /\ y.files = (x.files \ {f}) \cup {RowFile(r, r.file)}
  <1> DEFINE g == RowFile(r, r.file)
             v == View(x)
             e == ViewOfFile(f)
  <1>1. y \in LocalDB
    BY RenameFileInfoType, UpdateFileInfoType
  <1>2. g \in LocalFile /\ g.id = f.id /\ ViewOfFile(g) = ViewOfRow(r)
    BY RowFields, RowFileType
  <1>3. RenameFileInfo(x, r) = DB((x.files \ {f}) \cup {g}, x.chunks, x.nextFile, x.nextChunk, x.last)
    BY RenameFileInfoIs
  <1>4. ~ Creates(v, r, w)
    <2>1. e \in v.files /\ e.id = r.file
      BY FilesInView
    <2> QED
      BY <2>1, ViewType, ViewFields DEF Creates, GoodView
  <1>5. Modifies(v, r, w, e) \/ Renames(v, r, w, e)
    <2>1. PICK z \in v.files : Modifies(v, r, w, z) \/ Renames(v, r, w, z) \/ Deletes(v, r, w, z)
      BY <1>4 DEF Leads
    <2>2. z = e
      BY <2>1, FileOfRow DEF Modifies, Renames, Deletes, Follows
    <2> QED
      BY <2>1, <2>2 DEF Deletes
  <1>6. w.files = (v.files \ {e}) \cup {ViewOfRow(r)} /\ w.nextFile = v.nextFile
    BY <1>5 DEF Modifies, Renames
  <1>7. /\ v.chunks = x.chunks /\ v.nextFile = x.nextFile /\ v.nextChunk = x.nextChunk
        /\ x.nextChunk \in Nat /\ w.nextChunk \in Nat
    BY FilesInView, FieldTypes, ViewFields
  <1>8. /\ r.chunks = [k \in 1 .. Len(r.chunks) |-> v.nextChunk + k - 1]
        /\ w.nextChunk = v.nextChunk + Len(r.chunks)
    BY DEF Leads
  <1>9. /\ y.files = (x.files \ {f}) \cup {g} /\ y.last = x.last
        /\ y.nextFile = x.nextFile /\ y.nextChunk = w.nextChunk /\ y.chunks = w.chunks
    <2>1. CASE r.chunks = <<>>
      <3>1. Renames(v, r, w, e) /\ Len(r.chunks) = 0
        BY <2>1, <1>5 DEF Modifies
      <3>2. y = DB((x.files \ {f}) \cup {g}, x.chunks, x.nextFile, x.nextChunk, x.last)
        BY <2>1, <1>3
      <3> QED
        BY <3>1, <3>2, <1>7, <1>8, DBFields DEF Renames
    <2>2. CASE r.chunks # <<>>
      <3>1. Modifies(v, r, w, e)
        BY <2>2, <1>5 DEF Renames
      <3>2. y = SetChunks(RenameFileInfo(x, r), r.file, Len(r.chunks))
        BY <2>2 DEF UpdateFileInfo
      <3>3. FreshChunks(RenameFileInfo(x, r), Len(r.chunks)) = r.chunks
        BY <1>3, <1>7, <1>8, DBFields DEF FreshChunks
      <3>4. y = DB((x.files \ {f}) \cup {g}, [x.chunks EXCEPT ![r.file] = r.chunks],
                   x.nextFile, x.nextChunk + Len(r.chunks), x.last)
        <4> DEFINE z == RenameFileInfo(x, r)
        <4>1. /\ z.files = (x.files \ {f}) \cup {g} /\ z.chunks = x.chunks
              /\ z.nextFile = x.nextFile /\ z.nextChunk = x.nextChunk /\ z.last = x.last
          BY <1>3, DBFields
        <4>2. y = DB(z.files, [z.chunks EXCEPT ![r.file] = r.chunks], z.nextFile,
                     z.nextChunk + Len(r.chunks), z.last)
          BY <3>2, <3>3 DEF SetChunks
        <4> HIDE DEF z
        <4> QED
          BY <4>1, <4>2
      <3> QED
        BY <3>1, <3>4, <1>7, <1>8, DBFields DEF Modifies
    <2> QED
      BY <2>1, <2>2
  <1>10. View(y).files = (v.files \ {e}) \cup {ViewOfRow(r)} /\ UniqueIds(y)
    BY <1>1, <1>2, <1>9, Replaced
  <1>11. View(y) = w
    BY <1>1, <1>6, <1>7, <1>9, <1>10, ViewIs
  <1> QED
    BY <1>9, <1>10, <1>11

LEMMA AppliesToUnknown ==
  ASSUME NEW x \in LocalDB, UniqueIds(x), GoodView(View(x)), NEW r \in FileInfo,
         NEW w \in Views, Leads(View(x), r, w), ~ r.del, \A f \in x.files : f.id # r.file,
         x.nextFile <= MaxFile, NEW y, y = InsertFileInfo(x, r)
  PROVE  /\ View(y) = w /\ UniqueIds(y) /\ y.last = x.last
         /\ y.files = x.files \cup {RowFile(r, r.file)}
  <1> DEFINE v == View(x)
             g == RowFile(r, x.nextFile)
             new == DB(x.files \cup {g}, x.chunks, x.nextFile + 1, x.nextChunk, x.last)
  <1>1. y \in LocalDB
    BY InsertFileInfoType
  <1>2. Creates(v, r, w)
    <2>1. \A z \in v.files : z.id # r.file
      BY FilesInView
    <2> QED
      BY <2>1 DEF Leads, Modifies, Renames, Deletes, Follows
  <1>3. /\ v.chunks = x.chunks /\ v.nextFile = x.nextFile /\ v.nextChunk = x.nextChunk
        /\ x.nextChunk \in Nat /\ x.nextFile = r.file
    BY <1>2, FilesInView, FieldTypes DEF Creates
  <1>4. /\ g \in LocalFile /\ g.id = r.file /\ ViewOfFile(g) = ViewOfRow(r)
        /\ g = RowFile(r, r.file)
    BY <1>3, RowFields, RowFileType
  <1>5. y = SetChunks(new, r.file, Len(r.chunks))
    BY DEF InsertFileInfo, RowFile
  <1>6. /\ new.files = x.files \cup {g} /\ new.chunks = x.chunks
        /\ new.nextFile = x.nextFile + 1 /\ new.nextChunk = x.nextChunk /\ new.last = x.last
    BY DBFields
  <1>7. /\ r.chunks = [k \in 1 .. Len(r.chunks) |-> v.nextChunk + k - 1]
        /\ w.nextChunk = v.nextChunk + Len(r.chunks)
    BY DEF Leads
  <1> HIDE DEF new, g
  <1>8. FreshChunks(new, Len(r.chunks)) = r.chunks
    BY <1>3, <1>6, <1>7 DEF FreshChunks
  <1>9. y = DB(new.files, [new.chunks EXCEPT ![r.file] = r.chunks], new.nextFile,
               new.nextChunk + Len(r.chunks), new.last)
    BY <1>5, <1>8 DEF SetChunks
  <1>10. /\ y.files = x.files \cup {g} /\ y.chunks = [x.chunks EXCEPT ![r.file] = r.chunks]
         /\ y.nextFile = x.nextFile + 1 /\ y.nextChunk = x.nextChunk + Len(r.chunks)
         /\ y.last = x.last
    BY <1>6, <1>9, DBFields
  <1>11. UniqueIds(y) /\ View(y).files = v.files \cup {ViewOfRow(r)}
    BY <1>3, <1>4, <1>10, Added
  <1>12. View(y).files = w.files /\ y.chunks = w.chunks /\ y.nextFile = w.nextFile
    BY <1>2, <1>3, <1>10, <1>11 DEF Creates
  <1>13. y.nextChunk = w.nextChunk
    BY <1>3, <1>7, <1>10
  <1>14. View(y) = w
    BY <1>1, <1>12, <1>13, ViewIs
  <1> QED
    BY <1>4, <1>10, <1>11, <1>14

LEMMA FileRemoved ==
  ASSUME NEW x \in LocalDB, UniqueIds(x), NEW f \in x.files, NEW y, y = DeleteFile(x, f.id)
  PROVE  /\ y \in LocalDB /\ UniqueIds(y) /\ y.last = x.last
         /\ y.files = x.files \ {f}
         /\ View(y).files = View(x).files \ {ViewOfFile(f)}
         /\ y.chunks = [x.chunks EXCEPT ![f.id] = <<>>]
         /\ y.nextFile = x.nextFile /\ y.nextChunk = x.nextChunk
  <1>1. f.id \in FileIds
    BY FieldTypes DEF LocalFile
  <1>2. y \in LocalDB
    BY <1>1, DeleteFileType
  <1>3. /\ y.files = {z \in x.files : z.id # f.id} /\ y.last = x.last
        /\ y.chunks = [x.chunks EXCEPT ![f.id] = <<>>]
        /\ y.nextFile = x.nextFile /\ y.nextChunk = x.nextChunk
    BY DBFields DEF DeleteFile
  <1>4. y.files = x.files \ {f}
    BY <1>3, UpdatesOne
  <1>5. UniqueIds(y)
    BY <1>4 DEF UniqueIds
  <1>6. \A z \in x.files : ViewOfFile(z) = ViewOfFile(f) => z = f
    <2>1. \A z \in x.files : ViewOfFile(z).id = z.id
      BY DEF ViewOfFile
    <2> QED
      BY <2>1 DEF UniqueIds
  <1>7. View(y).files = {ViewOfFile(z) : z \in x.files \ {f}}
    BY <1>4 DEF View
  <1>8. View(x).files = {ViewOfFile(z) : z \in x.files}
    BY DEF View
  <1>9. View(y).files = View(x).files \ {ViewOfFile(f)}
    BY <1>6, <1>7, <1>8
  <1> QED
    BY <1>2, <1>3, <1>4, <1>5, <1>9

LEMMA AppliesDeleted ==
  ASSUME NEW x \in LocalDB, UniqueIds(x), GoodView(View(x)), NEW r \in FileInfo,
         NEW w \in Views, Leads(View(x), r, w), r.del, NEW y, y = DeleteFile(x, r.file)
  PROVE  /\ View(y) = w /\ UniqueIds(y) /\ y.last = x.last
         /\ \E f \in x.files : f.path = r.path /\ y.files = x.files \ {f}
  <1> DEFINE v == View(x)
  <1>1. PICK e \in v.files : Deletes(v, r, w, e)
    BY DEF Leads, Creates, Modifies, Renames
  <1>2. PICK f \in x.files : e = ViewOfFile(f)
    BY FilesInView
  <1>3. f.id = r.file /\ f.path = r.path
    BY <1>1, <1>2, FilesInView DEF Deletes, Follows
  <1>4. /\ y \in LocalDB /\ UniqueIds(y) /\ y.last = x.last /\ y.files = x.files \ {f}
        /\ View(y).files = v.files \ {e}
        /\ y.chunks = [x.chunks EXCEPT ![r.file] = <<>>]
        /\ y.nextFile = x.nextFile /\ y.nextChunk = x.nextChunk
    <2>1. y = DeleteFile(x, f.id) /\ e = ViewOfFile(f) /\ f.id = r.file
      BY <1>2, <1>3
    <2>2. /\ y \in LocalDB /\ UniqueIds(y) /\ y.last = x.last /\ y.files = x.files \ {f}
          /\ View(y).files = v.files \ {ViewOfFile(f)}
          /\ y.chunks = [x.chunks EXCEPT ![f.id] = <<>>]
          /\ y.nextFile = x.nextFile /\ y.nextChunk = x.nextChunk
      BY <2>1, FileRemoved
    <2> QED
      BY <2>1, <2>2
  <1>5. v.chunks = x.chunks /\ v.nextFile = x.nextFile /\ v.nextChunk = x.nextChunk /\ x.nextChunk \in Nat
    BY FilesInView, FieldTypes
  <1>6. w.nextChunk = x.nextChunk
    <2>1. Len(r.chunks) = 0
      BY <1>1 DEF Deletes
    <2> QED
      BY <2>1, <1>5 DEF Leads
  <1>7. View(y) = w
    <2>1. /\ View(y).files = w.files /\ y.chunks = w.chunks /\ y.nextFile = w.nextFile
          /\ y.nextChunk = w.nextChunk
      BY <1>1, <1>4, <1>5, <1>6 DEF Deletes
    <2> QED
      BY <2>1, <1>4, ViewIs
  <1> QED
    BY <1>3, <1>4, <1>7

\* A device that gets its own renaming or deletion back is where it leads to.
LEMMA DeletedAgain ==
  ASSUME NEW x \in LocalDB, UniqueIds(x), NEW v \in Views, GoodView(v), NEW r \in FileInfo,
         Leads(v, r, View(x)), r.del, NEW y, y = DeleteFile(x, r.file)
  PROVE  View(y) = View(x) /\ UniqueIds(y) /\ y.last = x.last /\ y.files = x.files
  <1> DEFINE w == View(x)
  <1>1. PICK e \in v.files : Deletes(v, r, w, e)
    BY DEF Leads, Creates, Modifies, Renames
  <1>2. /\ e.id = r.file /\ w.files = v.files \ {e}
        /\ w.chunks = [v.chunks EXCEPT ![r.file] = <<>>]
    BY <1>1 DEF Deletes, Follows
  <1>3. \A z \in x.files : z.id # r.file
    <2>1. \A z \in w.files : z.id # r.file
      BY <1>2 DEF GoodView
    <2> QED
      BY <2>1, FilesInView
  <1>4. x.chunks[r.file] = <<>> /\ r.file \in FileIds
    <2>1. w.chunks = x.chunks /\ v.chunks \in [FileIds -> Seq(Nat)] /\ r.file \in FileIds
      BY FilesInView, ViewFields, RowFields
    <2> QED
      BY <1>2, <2>1
  <1>5. y.files = x.files /\ y.chunks = x.chunks
    <2>1. /\ y.files = {z \in x.files : z.id # r.file}
          /\ y.chunks = [x.chunks EXCEPT ![r.file] = <<>>]
      BY DBFields DEF DeleteFile
    <2>2. y.files = x.files
      BY <1>3, <2>1
    <2>3. x.chunks \in [FileIds -> Seq(Nat)]
      BY FieldTypes
    <2>4. y.chunks = x.chunks
      BY <1>4, <2>1, <2>3
    <2> QED
      BY <2>2, <2>4
  <1>6. y.nextFile = x.nextFile /\ y.nextChunk = x.nextChunk /\ y.last = x.last
    BY DBFields DEF DeleteFile
  <1> QED
    BY <1>5, <1>6 DEF View, UniqueIds

LEMMA RenamedAgain ==
  ASSUME NEW x \in LocalDB, UniqueIds(x), NEW v \in Views, GoodView(v), NEW r \in FileInfo,
         Leads(v, r, View(x)), ~ r.del, r.chunks = <<>>
  PROVE  /\ \E f \in x.files : f.id = r.file
         /\ \A f \in x.files : f.id = r.file =>
              LET y == RenameFileInfo(x, r)
              IN  /\ View(y) = View(x) /\ UniqueIds(y) /\ y.last = x.last
                  /\ y.files = (x.files \ {f}) \cup {RowFile(r, r.file)}
  <1> DEFINE w == View(x)
             g == RowFile(r, r.file)
             e == ViewOfRow(r)
             y == RenameFileInfo(x, r)
  <1>1. e \in w.files /\ e.id = r.file
    <2>1. \E z \in v.files : Renames(v, r, w, z)
      BY DEF Leads, Creates, Modifies, Deletes
    <2> QED
      BY <2>1, RowFields DEF Renames
  <1>2. \E f \in x.files : f.id = r.file
    BY <1>1, FilesInView
  <1>3. GoodView(w)
    BY ViewType, LeadsToGood
  <1>4. g \in LocalFile /\ g.id = r.file /\ ViewOfFile(g) = e
    BY RowFields, RowFileType
  <1>5. y \in LocalDB
    BY RenameFileInfoType
  <1> HIDE DEF w, g, e, y
  <1>6. ASSUME NEW f \in x.files, f.id = r.file
        PROVE  /\ View(y) = View(x) /\ UniqueIds(y) /\ y.last = x.last
               /\ y.files = (x.files \ {f}) \cup {g}
    <2>1. y = DB((x.files \ {f}) \cup {g}, x.chunks, x.nextFile, x.nextChunk, x.last)
      BY <1>6, RenameFileInfoIs DEF y, g
    <2>2. /\ y.files = (x.files \ {f}) \cup {g} /\ y.chunks = x.chunks
          /\ y.nextFile = x.nextFile /\ y.nextChunk = x.nextChunk /\ y.last = x.last
      BY <2>1, DBFields
    <2>3. e = ViewOfFile(f)
      BY <1>1, <1>3, <1>6, FileOfRow DEF w
    <2>4. View(y).files = (w.files \ {e}) \cup {e} /\ UniqueIds(y)
      BY <1>4, <1>5, <1>6, <2>2, <2>3, Replaced DEF w
    <2>5. View(y).files = w.files
      BY <1>1, <2>4
    <2>6. /\ w \in Views /\ w.chunks = x.chunks /\ w.nextFile = x.nextFile
          /\ w.nextChunk = x.nextChunk
      BY ViewType, FilesInView DEF w
    <2>7. View(y) = w
      BY <1>5, <2>2, <2>5, <2>6, ViewIs
    <2> QED
      BY <2>2, <2>4, <2>7 DEF w
  <1> QED
    BY <1>2, <1>6 DEF y, g

-------------------------------------------------------------------------------
(* The commands of a device lead to a next view                            *)

LEMMA FreshLeads ==
  ASSUME NEW x \in LocalDB, NEW n \in Nat
  PROVE  /\ FreshChunks(x, n) = [k \in 1 .. Len(FreshChunks(x, n)) |-> View(x).nextChunk + k - 1]
         /\ Len(FreshChunks(x, n)) = n
         /\ n # 0 => FreshChunks(x, n) # <<>>
  <1>1. Len(FreshChunks(x, n)) = n
    BY FreshChunksType
  <1>2. View(x).nextChunk = x.nextChunk
    BY FilesInView
  <1> QED
    BY <1>1, <1>2 DEF FreshChunks

LEMMA CreateLeads ==
  ASSUME NEW x \in LocalDB, UniqueIds(x), GoodView(View(x)), NEW p \in Paths,
         \A f \in x.files : f.path # p, NEW c \in Seq(Blocks), c # <<>>, NEW t \in Nat,
         x.nextFile <= MaxFile,
         NEW y, y = IndexCreated(x, p, c, t).db, NEW r, r = IndexCreated(x, p, c, t).info
  PROVE  /\ Leads(View(x), r, View(y)) /\ UniqueIds(y) /\ y.last = x.last
         /\ x.files \subseteq y.files /\ \E f \in y.files : f.path = p /\ f.down
         /\ r.bytes = c /\ r.date = t
  <1> DEFINE v == View(x)
             row == [id |-> x.nextFile, path |-> p, ver |-> 1, down |-> TRUE, date |-> t]
             ids == FreshChunks(x, Len(c))
  <1>1. y \in LocalDB
    BY IndexCreatedType
  <1>2. /\ r.file = x.nextFile /\ r.path = p /\ r.ver = 1 /\ ~ r.del /\ r.chunks = ids
        /\ r.bytes = c /\ r.date = t
    BY DEF IndexCreated, NewInfo
  <1>3. y = DB(x.files \cup {row}, [x.chunks EXCEPT ![x.nextFile] = x.chunks[x.nextFile] \o ids],
               x.nextFile + 1, x.nextChunk + Len(c), x.last)
    BY DEF IndexCreated
  <1>4. x.nextFile \in FileIds /\ Len(c) \in Nat /\ Len(c) # 0 /\ ids \in Seq(Nat)
    <2>1. Len(c) \in Nat /\ Len(c) # 0
      OBVIOUS
    <2>2. ids \in Seq(Nat)
      BY <2>1, FreshChunksType
    <2> QED
      BY <2>1, <2>2, FieldTypes, MaxFileAssumption DEF FileIds
  <1>5. v.chunks = x.chunks /\ v.nextFile = x.nextFile /\ v.nextChunk = x.nextChunk
    BY FilesInView
  <1>6. x.chunks[x.nextFile] = <<>>
    <2>1. v.nextFile \in Nat
      BY <1>5, FieldTypes
    <2> QED
      BY <1>4, <1>5, <2>1 DEF GoodView
  <1>7. x.chunks[x.nextFile] \o ids = ids
    BY <1>4, <1>6
  <1>8. /\ ids = [k \in 1 .. Len(ids) |-> v.nextChunk + k - 1] /\ Len(ids) = Len(c) /\ ids # <<>>
    BY <1>4, FreshLeads
  <1>9. /\ y.files = x.files \cup {row} /\ y.chunks = [x.chunks EXCEPT ![x.nextFile] = ids]
        /\ y.nextFile = x.nextFile + 1 /\ y.nextChunk = x.nextChunk + Len(c) /\ y.last = x.last
    BY <1>3, <1>7, DBFields
  <1>10. View(y).chunks = y.chunks /\ View(y).nextFile = y.nextFile /\ View(y).nextChunk = y.nextChunk
    BY <1>1, FilesInView
  <1>15. row.id = x.nextFile /\ row.path = p /\ row.down /\ ViewOfFile(row) = ViewOfRow(r)
    BY <1>2 DEF ViewOfFile, ViewOfRow
  <1> HIDE DEF row
  <1>11. View(y).files = v.files \cup {ViewOfRow(r)} /\ UniqueIds(y)
    BY <1>9, <1>15, Added
  <1>12. IsFree(v, p)
    BY FilesInView DEF IsFree
  <1>13. Creates(v, r, View(y))
    BY <1>2, <1>5, <1>8, <1>9, <1>10, <1>11, <1>12 DEF Creates
  <1>14. Leads(v, r, View(y))
    BY <1>2, <1>5, <1>8, <1>9, <1>10, <1>13 DEF Leads
  <1> QED
    BY <1>2, <1>9, <1>11, <1>14, <1>15

LEMMA FileModified ==
  ASSUME NEW f \in LocalFile, NEW n \in Nat, NEW t \in Nat
  PROVE  [f EXCEPT !.ver = n, !.date = t]
           = [id |-> f.id, path |-> f.path, ver |-> n, down |-> f.down, date |-> t]
  <1> DEFINE g == [f EXCEPT !.ver = n, !.date = t]
  <1>1. g \in LocalFile
    BY DEF LocalFile
  <1>2. g.id = f.id /\ g.path = f.path /\ g.ver = n /\ g.down = f.down /\ g.date = t
    BY DEF LocalFile
  <1> HIDE DEF g
  <1>3. g = [id |-> f.id, path |-> f.path, ver |-> n, down |-> f.down, date |-> t]
    BY <1>1, <1>2 DEF LocalFile
  <1> QED
    BY <1>3, Zenon DEF g

LEMMA FileRenamed ==
  ASSUME NEW f \in LocalFile, NEW p \in Paths, NEW n \in Nat, NEW t \in Nat
  PROVE  [f EXCEPT !.path = p, !.ver = n, !.date = t]
           = [id |-> f.id, path |-> p, ver |-> n, down |-> f.down, date |-> t]
  <1> DEFINE g == [f EXCEPT !.path = p, !.ver = n, !.date = t]
  <1>1. g \in LocalFile
    BY DEF LocalFile
  <1>2. g.id = f.id /\ g.path = p /\ g.ver = n /\ g.down = f.down /\ g.date = t
    BY DEF LocalFile
  <1> HIDE DEF g
  <1>3. g = [id |-> f.id, path |-> p, ver |-> n, down |-> f.down, date |-> t]
    BY <1>1, <1>2 DEF LocalFile
  <1> QED
    BY <1>3, Zenon DEF g

LEMMA ModifyLeads ==
  ASSUME NEW x \in LocalDB, UniqueIds(x), GoodView(View(x)), NEW f \in x.files,
         NEW c \in Seq(Blocks), c # <<>>, NEW t \in Nat,
         NEW y, y = IndexModified(x, f, c, t).db, NEW r, r = IndexModified(x, f, c, t).info
  PROVE  /\ Leads(View(x), r, View(y)) /\ UniqueIds(y) /\ y.last = x.last
         /\ \E g : y.files = (x.files \ {f}) \cup {g} /\ g.path = f.path /\ g.down = f.down
         /\ r.bytes = c /\ r.date = t
  <1> DEFINE v == View(x)
             g == [id |-> f.id, path |-> f.path, ver |-> f.ver + 1, down |-> f.down, date |-> t]
             ids == FreshChunks(x, Len(c))
             F == Update(x.files, f.id, LAMBDA z : [z EXCEPT !.ver = f.ver + 1, !.date = t])
             upd == DB(F, x.chunks, x.nextFile, x.nextChunk, x.last)
  <1>1. y \in LocalDB
    BY IndexModifiedType
  <1>2. /\ r.file = f.id /\ r.path = f.path /\ r.ver = f.ver + 1 /\ ~ r.del /\ r.chunks = ids
        /\ r.bytes = c /\ r.date = t
    BY DEF IndexModified, NewInfo
  <1>3. f \in LocalFile /\ f.ver \in Nat
    BY FieldTypes DEF LocalFile
  <1>4. /\ g \in LocalFile /\ g.id = f.id /\ g.path = f.path /\ g.down = f.down
        /\ ViewOfFile(g) = ViewOfRow(r)
    BY <1>2, <1>3 DEF LocalFile, ViewOfFile, ViewOfRow
  <1>5. F = (x.files \ {f}) \cup {g}
    <2>0. [f EXCEPT !.ver = f.ver + 1, !.date = t] = g
      <3> DEFINE n == f.ver + 1
      <3>1. n \in Nat
        BY <1>3
      <3> HIDE DEF n
      <3>2. [f EXCEPT !.ver = n, !.date = t] = [id |-> f.id, path |-> f.path, ver |-> n, down |-> f.down, date |-> t]
        BY <1>3, <3>1, FileModified, Zenon
      <3> QED
        BY <3>2, Zenon DEF n
    <2>2. ASSUME NEW z \in x.files, z.id = f.id
          PROVE  [z EXCEPT !.ver = f.ver + 1, !.date = t] = g
      <3>1. z = f
        BY <2>2, UpdatesOne
      <3> QED
        BY <2>0, <3>1
    <2>1. F = {IF z.id = f.id THEN g ELSE z : z \in x.files}
      <3> HIDE DEF g
      <3> QED
        BY <2>2 DEF Update
    <2> HIDE DEF F, g
    <2> QED
      BY <2>1, UpdatesOne
  <1>6. Len(c) \in Nat /\ Len(c) # 0
    OBVIOUS
  <1>7. y = SetChunks(upd, f.id, Len(c))
    BY DEF IndexModified
  <1>8. /\ upd.files = F /\ upd.chunks = x.chunks /\ upd.nextFile = x.nextFile
        /\ upd.nextChunk = x.nextChunk /\ upd.last = x.last
    BY DBFields
  <1> HIDE DEF upd, F, g
  <1>9. FreshChunks(upd, Len(c)) = ids
    BY <1>8 DEF FreshChunks
  <1>10. y = DB(upd.files, [upd.chunks EXCEPT ![f.id] = ids], upd.nextFile,
                upd.nextChunk + Len(c), upd.last)
    BY <1>7, <1>9 DEF SetChunks
  <1>11. /\ y.files = (x.files \ {f}) \cup {g} /\ y.chunks = [x.chunks EXCEPT ![f.id] = ids]
         /\ y.nextFile = x.nextFile /\ y.nextChunk = x.nextChunk + Len(c) /\ y.last = x.last
    BY <1>5, <1>8, <1>10, DBFields
  <1>12. View(y).files = (v.files \ {ViewOfFile(f)}) \cup {ViewOfRow(r)} /\ UniqueIds(y)
    BY <1>1, <1>4, <1>11, Replaced
  <1>13. /\ v.chunks = x.chunks /\ v.nextFile = x.nextFile /\ v.nextChunk = x.nextChunk
         /\ View(y).chunks = y.chunks /\ View(y).nextFile = y.nextFile
         /\ View(y).nextChunk = y.nextChunk
         /\ ViewOfFile(f) \in v.files /\ ViewOfFile(f).id = f.id
         /\ ViewOfFile(f).path = f.path /\ ViewOfFile(f).ver = f.ver
    BY <1>1, FilesInView
  <1>14. /\ ids = [k \in 1 .. Len(ids) |-> v.nextChunk + k - 1] /\ Len(ids) = Len(c) /\ ids # <<>>
    BY <1>6, FreshLeads
  <1>15. Modifies(v, r, View(y), ViewOfFile(f))
    BY <1>2, <1>11, <1>12, <1>13, <1>14 DEF Modifies, Follows
  <1>16. Leads(v, r, View(y))
    BY <1>2, <1>11, <1>13, <1>14, <1>15 DEF Leads
  <1> QED
    BY <1>2, <1>4, <1>11, <1>12, <1>16

\* No chunk ids are given out.
LEMMA NoChunksLead ==
  ASSUME NEW v \in Views, NEW w, w.nextChunk = v.nextChunk, NEW r, r.chunks = <<>>
  PROVE  /\ r.chunks = [k \in 1 .. Len(r.chunks) |-> v.nextChunk + k - 1]
         /\ w.nextChunk = v.nextChunk + Len(r.chunks)
  <1>1. Len(r.chunks) = 0
    OBVIOUS
  <1>2. v.nextChunk \in Nat
    BY ViewFields
  <1> QED
    BY <1>1, <1>2

LEMMA RenameLeads ==
  ASSUME NEW x \in LocalDB, UniqueIds(x), GoodView(View(x)), NEW f \in x.files,
         NEW p \in Paths, \A z \in x.files : z.path # p, NEW t \in Nat,
         NEW y, y = IndexRenamed(x, f, p, t).db, NEW r, r = IndexRenamed(x, f, p, t).info
  PROVE  /\ Leads(View(x), r, View(y)) /\ UniqueIds(y) /\ y.last = x.last
         /\ \E g : y.files = (x.files \ {f}) \cup {g} /\ g.path = p /\ g.down = f.down
         /\ r.date = t
  <1> DEFINE v == View(x)
             g == [id |-> f.id, path |-> p, ver |-> f.ver + 1, down |-> f.down, date |-> t]
             F == Update(x.files, f.id, LAMBDA z : [z EXCEPT !.path = p, !.ver = f.ver + 1, !.date = t])
  <1>1. y \in LocalDB
    BY IndexRenamedType
  <1>2. /\ r.file = f.id /\ r.path = p /\ r.ver = f.ver + 1 /\ ~ r.del /\ r.chunks = <<>>
        /\ r.date = t
    BY DEF IndexRenamed, NewInfo
  <1>3. f \in LocalFile /\ f.ver \in Nat
    BY FieldTypes DEF LocalFile
  <1>4. /\ g \in LocalFile /\ g.id = f.id /\ g.path = p /\ g.down = f.down
        /\ ViewOfFile(g) = ViewOfRow(r)
    BY <1>2, <1>3 DEF LocalFile, ViewOfFile, ViewOfRow
  <1>5. F = (x.files \ {f}) \cup {g}
    <2>0. [f EXCEPT !.path = p, !.ver = f.ver + 1, !.date = t] = g
      <3> DEFINE n == f.ver + 1
      <3>1. n \in Nat
        BY <1>3
      <3> HIDE DEF n
      <3>2. [f EXCEPT !.path = p, !.ver = n, !.date = t] = [id |-> f.id, path |-> p, ver |-> n, down |-> f.down, date |-> t]
        BY <1>3, <3>1, FileRenamed, Zenon
      <3> QED
        BY <3>2, Zenon DEF n
    <2>2. ASSUME NEW z \in x.files, z.id = f.id
          PROVE  [z EXCEPT !.path = p, !.ver = f.ver + 1, !.date = t] = g
      <3>1. z = f
        BY <2>2, UpdatesOne
      <3> QED
        BY <2>0, <3>1
    <2>1. F = {IF z.id = f.id THEN g ELSE z : z \in x.files}
      <3> HIDE DEF g
      <3> QED
        BY <2>2 DEF Update
    <2> HIDE DEF F, g
    <2> QED
      BY <2>1, UpdatesOne
  <1>6. y = DB(F, x.chunks, x.nextFile, x.nextChunk, x.last)
    BY DEF IndexRenamed
  <1> HIDE DEF F, g
  <1>7. /\ y.files = (x.files \ {f}) \cup {g} /\ y.chunks = x.chunks
        /\ y.nextFile = x.nextFile /\ y.nextChunk = x.nextChunk /\ y.last = x.last
    BY <1>5, <1>6, DBFields
  <1>8. View(y).files = (v.files \ {ViewOfFile(f)}) \cup {ViewOfRow(r)} /\ UniqueIds(y)
    BY <1>1, <1>4, <1>7, Replaced
  <1>9. /\ v.chunks = x.chunks /\ v.nextFile = x.nextFile /\ v.nextChunk = x.nextChunk
        /\ View(y).chunks = y.chunks /\ View(y).nextFile = y.nextFile
        /\ View(y).nextChunk = y.nextChunk
        /\ ViewOfFile(f) \in v.files /\ ViewOfFile(f).id = f.id /\ ViewOfFile(f).ver = f.ver
    BY <1>1, FilesInView
  <1>10. IsFree(v, p)
    BY FilesInView DEF IsFree
  <1>11. Renames(v, r, View(y), ViewOfFile(f))
    BY <1>2, <1>7, <1>8, <1>9, <1>10 DEF Renames, Follows
  <1>13. View(y).nextChunk = v.nextChunk /\ v \in Views
    BY <1>7, <1>9, ViewType
  <1>14. /\ r.chunks = [k \in 1 .. Len(r.chunks) |-> v.nextChunk + k - 1]
         /\ View(y).nextChunk = v.nextChunk + Len(r.chunks)
    BY <1>2, <1>13, NoChunksLead
  <1>12. Leads(v, r, View(y))
    BY <1>9, <1>11, <1>14 DEF Leads
  <1> QED
    BY <1>2, <1>4, <1>7, <1>8, <1>12

LEMMA DeleteLeads ==
  ASSUME NEW x \in LocalDB, UniqueIds(x), GoodView(View(x)), NEW f \in x.files, NEW t \in Nat,
         NEW y, y = IndexDeleted(x, f, t).db, NEW r, r = IndexDeleted(x, f, t).info
  PROVE  /\ Leads(View(x), r, View(y)) /\ UniqueIds(y) /\ y.last = x.last
         /\ y.files = x.files \ {f}
         /\ r.date = t
  <1> DEFINE v == View(x)
  <1>1. /\ r.file = f.id /\ r.path = f.path /\ r.ver = f.ver + 1 /\ r.del /\ r.chunks = <<>>
        /\ r.date = t
    BY DEF IndexDeleted, NewInfo
  <1>2. y = DeleteFile(x, f.id)
    BY DEF IndexDeleted
  <1>3. /\ y \in LocalDB /\ UniqueIds(y) /\ y.last = x.last
        /\ y.files = x.files \ {f}
        /\ View(y).files = v.files \ {ViewOfFile(f)}
        /\ y.chunks = [x.chunks EXCEPT ![f.id] = <<>>]
        /\ y.nextFile = x.nextFile /\ y.nextChunk = x.nextChunk
    BY <1>2, FileRemoved
  <1>4. /\ v.chunks = x.chunks /\ v.nextFile = x.nextFile /\ v.nextChunk = x.nextChunk
        /\ View(y).chunks = y.chunks /\ View(y).nextFile = y.nextFile
        /\ View(y).nextChunk = y.nextChunk
        /\ ViewOfFile(f) \in v.files /\ ViewOfFile(f).id = f.id
        /\ ViewOfFile(f).path = f.path /\ ViewOfFile(f).ver = f.ver
    BY <1>3, FilesInView
  <1>5. Deletes(v, r, View(y), ViewOfFile(f))
    BY <1>1, <1>3, <1>4 DEF Deletes, Follows
  <1>7. View(y).nextChunk = v.nextChunk /\ v \in Views
    BY <1>3, <1>4, ViewType
  <1>8. /\ r.chunks = [k \in 1 .. Len(r.chunks) |-> v.nextChunk + k - 1]
        /\ View(y).nextChunk = v.nextChunk + Len(r.chunks)
    <2>1. r.chunks = <<>>
      BY <1>1
    <2> QED
      BY <2>1, <1>7, NoChunksLead
  <1>6. Leads(v, r, View(y))
    BY <1>4, <1>5, <1>8 DEF Leads
  <1> QED
    BY <1>1, <1>3, <1>6

-------------------------------------------------------------------------------
(* What the rows tell                                                       *)

\* Of the first k rows of R, i is the last one of file f, and the last with chunks.
IsNewest(R, f, i, k) ==
  /\ i \in 1 .. k /\ R[i].file = f
  /\ \A j \in 1 .. k : j > i => R[j].file # f

IsLatest(R, f, i, k) ==
  /\ i \in 1 .. k /\ R[i].file = f /\ R[i].chunks # <<>>
  /\ \A j \in 1 .. k : j > i /\ R[j].file = f => R[j].chunks = <<>>

\* The first k rows of R show the files as v does.
Tells(R, v, k) ==
  /\ \A x \in v.files :
       /\ \E i \in 1 .. k : IsNewest(R, x.id, i, k) /\ ViewOfRow(R[i]) = x /\ ~ R[i].del
       /\ \E i \in 1 .. k : IsLatest(R, x.id, i, k) /\ v.chunks[x.id] = R[i].chunks
  /\ \A i \in 1 .. k : R[i].file < v.nextFile
  /\ \A i \in 1 .. k : IsNewest(R, R[i].file, i, k) /\ ~ R[i].del =>
       \E x \in v.files : x.id = R[i].file

VersionsGrow(R) ==
  \A i, j \in 1 .. Len(R) : i < j /\ R[i].file = R[j].file => R[i].ver < R[j].ver

\* h[k] is the view the first k rows of R lead to.
History(R, h) ==
  /\ h \in [0 .. Len(R) -> Views]
  /\ \A k \in 1 .. Len(R) : Leads(h[k - 1], R[k], h[k])
  /\ \A k \in 0 .. Len(R) : GoodView(h[k]) /\ Tells(R, h[k], k)
  /\ VersionsGrow(R)

LEMMA Inserted ==
  ASSUME NEW R \in Seq(FileInfo), NEW r \in FileInfo
  PROVE  /\ Len(R) \in Nat /\ DOMAIN R = 1 .. Len(R)
         /\ Len(InsertFile(R, r)) = Len(R) + 1
         /\ DOMAIN InsertFile(R, r) = 1 .. Len(R) + 1
         /\ InsertFile(R, r)[Len(R) + 1] = r
         /\ \A i \in 1 .. Len(R) :
              /\ R[i] \in FileInfo
              /\ InsertFile(R, r)[i].file = R[i].file /\ InsertFile(R, r)[i].path = R[i].path
              /\ InsertFile(R, r)[i].ver = R[i].ver /\ InsertFile(R, r)[i].del = R[i].del
              /\ InsertFile(R, r)[i].date = R[i].date
              /\ InsertFile(R, r)[i].chunks = R[i].chunks
              /\ InsertFile(R, r)[i].bytes = R[i].bytes
  <1> DEFINE new == InsertFile(R, r)
  <1>1. /\ new \in Seq(FileInfo) /\ Len(new) = Len(R) + 1 /\ new[Len(R) + 1] = r
        /\ \A i \in 1 .. Len(R) : new[i] = [R[i] EXCEPT !.cur = R[i].cur /\ R[i].file # r.file]
    BY InsertFileType
  <1> HIDE DEF new
  <1>2. Len(R) \in Nat /\ DOMAIN R = 1 .. Len(R) /\ DOMAIN new = 1 .. Len(R) + 1
    BY <1>1
  <1>3. ASSUME NEW i \in 1 .. Len(R)
        PROVE  /\ R[i] \in FileInfo
               /\ new[i].file = R[i].file /\ new[i].path = R[i].path
               /\ new[i].ver = R[i].ver /\ new[i].del = R[i].del /\ new[i].date = R[i].date
               /\ new[i].chunks = R[i].chunks /\ new[i].bytes = R[i].bytes
    <2>1. R[i] \in FileInfo
      BY <1>2
    <2> QED
      BY <1>1, <2>1 DEF FileInfo
  <1> QED
    BY <1>1, <1>2, <1>3 DEF new

\* Of what a row changes in the view.
LEMMA LeadsFacts ==
  ASSUME NEW v \in Views, NEW w \in Views, NEW r \in FileInfo, GoodView(v), Leads(v, r, w)
  PROVE  /\ \A x \in v.files : x.id # r.file => x \in w.files /\ w.chunks[x.id] = v.chunks[x.id]
         /\ \A x \in w.files : \/ x = ViewOfRow(r) /\ ~ r.del
                               \/ x \in v.files /\ x.id # r.file
         /\ ~ r.del => ViewOfRow(r) \in w.files
         /\ r.file < w.nextFile /\ v.nextFile <= w.nextFile
         /\ ~ r.del /\ r.chunks # <<>> => w.chunks[r.file] = r.chunks
         /\ ~ r.del /\ r.chunks = <<>> =>
              w.chunks[r.file] = v.chunks[r.file] /\ \E x \in v.files : x.id = r.file
         /\ r.file = v.nextFile \/ \E x \in v.files : x.id = r.file /\ r.ver = x.ver + 1
         /\ v.nextChunk <= w.nextChunk
  <1> DEFINE e == ViewOfRow(r)
  <1>1. /\ e.id = r.file /\ e.path = r.path /\ r.file \in FileIds /\ r.file \in Nat
        /\ Len(r.chunks) \in Nat
    BY RowFields
  <1>2. /\ v.chunks \in [FileIds -> Seq(Nat)] /\ v.nextFile \in Nat /\ v.nextChunk \in Nat
        /\ \A x \in v.files : x.id \in FileIds /\ x.id \in Nat /\ x.id < v.nextFile
        /\ \A x, y \in v.files : x.id = y.id => x = y
    BY ViewFields DEF GoodView
  <1>3. v.nextChunk <= w.nextChunk
    BY <1>1, <1>2 DEF Leads
  <1> HIDE DEF e
  <1>4. CASE Creates(v, r, w)
    <2>1. /\ r.file = v.nextFile /\ ~ r.del /\ r.chunks # <<>>
          /\ w.files = v.files \cup {e} /\ w.chunks = [v.chunks EXCEPT ![r.file] = r.chunks]
          /\ w.nextFile = v.nextFile + 1
      BY <1>4 DEF Creates, e
    <2> QED
      BY <2>1, <1>1, <1>2, <1>3 DEF e
  <1>5. ASSUME NEW x \in v.files, Modifies(v, r, w, x) \/ Renames(v, r, w, x)
        PROVE  /\ \A y \in v.files : y.id # r.file => y \in w.files /\ w.chunks[y.id] = v.chunks[y.id]
               /\ \A y \in w.files : y = e \/ (y \in v.files /\ y.id # r.file)
               /\ ~ r.del /\ e \in w.files
               /\ r.file < w.nextFile /\ v.nextFile <= w.nextFile
               /\ r.chunks # <<>> => w.chunks[r.file] = r.chunks
               /\ r.chunks = <<>> => w.chunks[r.file] = v.chunks[r.file]
               /\ x.id = r.file /\ r.ver = x.ver + 1
    <2>1. /\ ~ r.del /\ x.id = r.file /\ r.ver = x.ver + 1
          /\ w.files = (v.files \ {x}) \cup {e} /\ w.nextFile = v.nextFile
      BY <1>5 DEF Modifies, Renames, Follows, e
    <2>2. \/ r.chunks # <<>> /\ w.chunks = [v.chunks EXCEPT ![r.file] = r.chunks]
          \/ r.chunks = <<>> /\ w.chunks = v.chunks
      BY <1>5 DEF Modifies, Renames
    <2> QED
      BY <2>1, <2>2, <1>1, <1>2
  <1>6. ASSUME NEW x \in v.files, Deletes(v, r, w, x)
        PROVE  /\ \A y \in v.files : y.id # r.file => y \in w.files /\ w.chunks[y.id] = v.chunks[y.id]
               /\ \A y \in w.files : y \in v.files /\ y.id # r.file
               /\ r.del
               /\ r.file < w.nextFile /\ v.nextFile <= w.nextFile
               /\ x.id = r.file /\ r.ver = x.ver + 1
    <2>1. /\ r.del /\ x.id = r.file /\ r.ver = x.ver + 1
          /\ w.files = v.files \ {x} /\ w.nextFile = v.nextFile
          /\ w.chunks = [v.chunks EXCEPT ![r.file] = <<>>]
      BY <1>6 DEF Deletes, Follows
    <2> QED
      BY <2>1, <1>1, <1>2
  <1>7. CASE \E x \in v.files : Modifies(v, r, w, x) \/ Renames(v, r, w, x)
    BY <1>3, <1>5, <1>7 DEF e
  <1>8. CASE \E x \in v.files : Deletes(v, r, w, x)
    BY <1>3, <1>6, <1>8 DEF e
  <1> QED
    BY <1>4, <1>7, <1>8 DEF Leads

\* A new row tells nothing new of the views that came before.
LEMMA StillTells ==
  ASSUME NEW R \in Seq(FileInfo), NEW r \in FileInfo, NEW v \in Views,
         NEW k \in 0 .. Len(R), Tells(R, v, k)
  PROVE  Tells(InsertFile(R, r), v, k)
  <1> DEFINE S == InsertFile(R, r)
  <1>1. \A i \in 1 .. k : /\ i \in 1 .. Len(R) /\ R[i] \in FileInfo
                          /\ S[i].file = R[i].file /\ S[i].path = R[i].path
                          /\ S[i].ver = R[i].ver /\ S[i].del = R[i].del
                          /\ S[i].chunks = R[i].chunks
    BY Inserted
  <1> HIDE DEF S
  <1>2. \A i \in 1 .. k : ViewOfRow(S[i]) = ViewOfRow(R[i])
    BY <1>1 DEF ViewOfRow
  <1>3. \A f, i : (IsNewest(S, f, i, k) <=> IsNewest(R, f, i, k))
    BY <1>1 DEF IsNewest
  <1>4. \A f, i : (IsLatest(S, f, i, k) <=> IsLatest(R, f, i, k))
    BY <1>1 DEF IsLatest
  <1>5. \A x \in v.files :
          /\ \E i \in 1 .. k : IsNewest(S, x.id, i, k) /\ ViewOfRow(S[i]) = x /\ ~ S[i].del
          /\ \E i \in 1 .. k : IsLatest(S, x.id, i, k) /\ v.chunks[x.id] = S[i].chunks
    BY <1>1, <1>2, <1>3, <1>4 DEF Tells
  <1>6. \A i \in 1 .. k : S[i].file < v.nextFile
    BY <1>1 DEF Tells
  <1>7. \A i \in 1 .. k : IsNewest(S, S[i].file, i, k) /\ ~ S[i].del =>
          \E x \in v.files : x.id = S[i].file
    BY <1>1, <1>3 DEF Tells
  <1>8. Tells(S, v, k)
    BY <1>5, <1>6, <1>7 DEF Tells
  <1> QED
    BY <1>8 DEF S

LEMMA TellsNext ==
  ASSUME NEW R \in Seq(FileInfo), NEW r \in FileInfo, NEW v \in Views, NEW w \in Views,
         GoodView(v), Tells(R, v, Len(R)), Leads(v, r, w)
  PROVE  Tells(InsertFile(R, r), w, Len(R) + 1)
  <1> DEFINE S == InsertFile(R, r)
             n == Len(R)
             m == Len(R) + 1
  <1>1. /\ n \in Nat /\ S[m] = r /\ m \in 1 .. m
        /\ \A i \in 1 .. m : i = m \/ i \in 1 .. n
        /\ \A i \in 1 .. n : i \in 1 .. m /\ i # m /\ i < m
    BY Inserted
  <1>2. Tells(S, v, n)
    BY Inserted, StillTells
  <1>3. ViewOfRow(r).id = r.file /\ r.file \in Nat
    BY RowFields
  <1> HIDE DEF S, n, m
  <1>4. \A i, f : f # r.file => /\ IsNewest(S, f, i, n) => IsNewest(S, f, i, m)
                                /\ IsLatest(S, f, i, n) => IsLatest(S, f, i, m)
    BY <1>1 DEF IsNewest, IsLatest
  <1>5. IsNewest(S, r.file, m, m)
    BY <1>1, Inserted DEF IsNewest, m, n
  <1>6. r.chunks # <<>> => IsLatest(S, r.file, m, m)
    BY <1>1, Inserted DEF IsLatest, m, n
  <1>7. \A i : r.chunks = <<>> /\ IsLatest(S, r.file, i, n) => IsLatest(S, r.file, i, m)
    BY <1>1 DEF IsLatest
  <1>8. ASSUME NEW x \in w.files
        PROVE  /\ \E i \in 1 .. m : IsNewest(S, x.id, i, m) /\ ViewOfRow(S[i]) = x /\ ~ S[i].del
               /\ \E i \in 1 .. m : IsLatest(S, x.id, i, m) /\ w.chunks[x.id] = S[i].chunks
    <2>1. CASE x \in v.files /\ x.id # r.file
      <3>1. w.chunks[x.id] = v.chunks[x.id]
        BY <2>1, LeadsFacts
      <3>2. PICK i \in 1 .. n : IsNewest(S, x.id, i, n) /\ ViewOfRow(S[i]) = x /\ ~ S[i].del
        BY <1>2, <2>1 DEF Tells
      <3>3. PICK j \in 1 .. n : IsLatest(S, x.id, j, n) /\ v.chunks[x.id] = S[j].chunks
        BY <1>2, <2>1 DEF Tells
      <3> QED
        BY <1>1, <1>4, <2>1, <3>1, <3>2, <3>3
    <2>2. CASE x = ViewOfRow(r) /\ ~ r.del
      <3>1. \E i \in 1 .. m : IsNewest(S, x.id, i, m) /\ ViewOfRow(S[i]) = x /\ ~ S[i].del
        BY <1>1, <1>3, <1>5, <2>2
      <3>2. CASE r.chunks # <<>>
        <4>1. w.chunks[r.file] = r.chunks
          BY <2>2, <3>2, LeadsFacts
        <4> QED
          BY <1>1, <1>3, <1>6, <2>2, <3>1, <3>2, <4>1
      <3>3. CASE r.chunks = <<>>
        <4>1. w.chunks[r.file] = v.chunks[r.file] /\ \E y \in v.files : y.id = r.file
          BY <2>2, <3>3, LeadsFacts
        <4>2. PICK i \in 1 .. n : IsLatest(S, r.file, i, n) /\ v.chunks[r.file] = S[i].chunks
          BY <1>2, <4>1 DEF Tells
        <4> QED
          BY <1>1, <1>3, <1>7, <2>2, <3>1, <3>3, <4>1, <4>2
      <3> QED
        BY <3>2, <3>3
    <2> QED
      BY <2>1, <2>2, LeadsFacts
  <1>9. ASSUME NEW i \in 1 .. m
        PROVE  S[i].file < w.nextFile
    <2>1. r.file < w.nextFile /\ v.nextFile <= w.nextFile
      BY LeadsFacts
    <2>2. v.nextFile \in Nat /\ w.nextFile \in Nat
      BY ViewFields
    <2>3. CASE i = m
      BY <1>1, <2>1, <2>3
    <2>4. CASE i \in 1 .. n
      <3>1. S[i].file < v.nextFile
        BY <1>2, <2>4 DEF Tells
      <3>2. S[i].file \in Nat
        BY <2>4, Inserted, RowFields DEF S, n
      <3> QED
        BY <2>1, <2>2, <3>1, <3>2
    <2> QED
      BY <1>1, <2>3, <2>4
  <1>10. ASSUME NEW i \in 1 .. m, IsNewest(S, S[i].file, i, m), ~ S[i].del
         PROVE  \E x \in w.files : x.id = S[i].file
    <2>1. CASE i = m
      BY <1>1, <1>3, <1>10, <2>1, LeadsFacts
    <2>2. CASE i \in 1 .. n
      <3>1. S[i].file # r.file
        BY <1>1, <1>10, <2>2 DEF IsNewest
      <3>2. IsNewest(S, S[i].file, i, n)
        BY <1>1, <1>10, <2>2 DEF IsNewest
      <3>3. PICK x \in v.files : x.id = S[i].file
        BY <1>2, <1>10, <2>2, <3>2 DEF Tells
      <3> QED
        BY <3>1, <3>3, LeadsFacts
    <2> QED
      BY <1>1, <2>1, <2>2
  <1>11. Tells(S, w, m)
    BY <1>8, <1>9, <1>10 DEF Tells
  <1> QED
    BY <1>11 DEF S, m

LEMMA VersionsGrowNext ==
  ASSUME NEW R \in Seq(FileInfo), NEW r \in FileInfo, NEW v \in Views, NEW w \in Views,
         GoodView(v), Tells(R, v, Len(R)), Leads(v, r, w), VersionsGrow(R)
  PROVE  VersionsGrow(InsertFile(R, r))
  <1> DEFINE S == InsertFile(R, r)
             n == Len(R)
  <1>1. /\ n \in Nat /\ Len(S) = n + 1 /\ S[n + 1] = r
        /\ \A i \in 1 .. n : /\ S[i].file = R[i].file /\ S[i].ver = R[i].ver
                             /\ R[i].ver \in Nat /\ R[i].file \in Nat /\ R[i].file < v.nextFile
    BY Inserted, RowFields DEF Tells
  <1>2. r.ver \in Nat /\ v.nextFile \in Nat
    BY RowFields, ViewFields
  <1>3. ASSUME NEW i \in 1 .. n, R[i].file = r.file
        PROVE  R[i].ver < r.ver
    <2>1. PICK x \in v.files : x.id = r.file /\ r.ver = x.ver + 1
      <3>1. r.file # v.nextFile
        BY <1>1, <1>2, <1>3
      <3> QED
        BY <3>1, LeadsFacts
    <2>2. PICK j \in 1 .. n : IsNewest(R, x.id, j, n) /\ ViewOfRow(R[j]) = x
      BY DEF Tells
    <2>3. R[j].ver = x.ver /\ R[j].file = r.file
      BY <2>1, <2>2 DEF ViewOfRow, IsNewest
    <2>4. i = j \/ R[i].ver < R[j].ver
      BY <1>1, <1>3, <2>1, <2>2, <2>3 DEF VersionsGrow, IsNewest
    <2> QED
      BY <1>1, <1>2, <2>1, <2>3, <2>4
  <1> HIDE DEF S, n
  <1>4. ASSUME NEW i \in 1 .. n + 1, NEW j \in 1 .. n + 1, i < j, S[i].file = S[j].file
        PROVE  S[i].ver < S[j].ver
    <2>1. i \in 1 .. n
      BY <1>1, <1>4
    <2>2. CASE j = n + 1
      BY <1>1, <1>3, <1>4, <2>1, <2>2
    <2>3. CASE j \in 1 .. n
      BY <1>1, <1>4, <2>1, <2>3 DEF VersionsGrow, n
    <2> QED
      BY <1>1, <2>2, <2>3
  <1> QED
    BY <1>1, <1>4 DEF VersionsGrow, S

LEMMA LeadsAlike ==
  ASSUME NEW v, NEW w, NEW r, NEW s, s.file = r.file, s.path = r.path, s.ver = r.ver,
         s.del = r.del, s.chunks = r.chunks, ViewOfRow(s) = ViewOfRow(r), Leads(v, r, w)
  PROVE  Leads(v, s, w)
  <1>1. Creates(v, r, w) => Creates(v, s, w)
    BY DEF Creates
  <1>2. \A x : Follows(v, r, x) => Follows(v, s, x)
    BY DEF Follows
  <1>3. \A x : /\ Modifies(v, r, w, x) => Modifies(v, s, w, x)
               /\ Renames(v, r, w, x) => Renames(v, s, w, x)
               /\ Deletes(v, r, w, x) => Deletes(v, s, w, x)
    BY <1>2 DEF Modifies, Renames, Deletes
  <1>4. /\ s.chunks = [k \in 1 .. Len(s.chunks) |-> v.nextChunk + k - 1]
        /\ w.nextChunk = v.nextChunk + Len(s.chunks)
    <2>1. /\ r.chunks = [k \in 1 .. Len(r.chunks) |-> v.nextChunk + k - 1]
          /\ w.nextChunk = v.nextChunk + Len(r.chunks)
      BY DEF Leads
    <2> DEFINE c == s.chunks
    <2>2. c = r.chunks
      OBVIOUS
    <2> HIDE DEF c
    <2>3. c = [k \in 1 .. Len(c) |-> v.nextChunk + k - 1] /\ w.nextChunk = v.nextChunk + Len(c)
      BY <2>1, <2>2
    <2> QED
      BY <2>3 DEF c
  <1> QED
    BY <1>1, <1>3, <1>4 DEF Leads

\* The history goes on with a row that leads from its last view to w.
Longer(R, h, w) == [k \in 0 .. Len(R) + 1 |-> IF k <= Len(R) THEN h[k] ELSE w]

LEMMA HistoryGoesOn ==
  ASSUME NEW R \in Seq(FileInfo), NEW r \in FileInfo, NEW h, History(R, h), NEW w \in Views,
         Leads(h[Len(R)], r, w)
  PROVE  /\ History(InsertFile(R, r), Longer(R, h, w))
         /\ Longer(R, h, w)[Len(R) + 1] = w
         /\ \A k \in 0 .. Len(R) : Longer(R, h, w)[k] = h[k]
  <1> DEFINE S == InsertFile(R, r)
             n == Len(R)
             g == Longer(R, h, w)
             v == h[n]
  <1>1. /\ n \in Nat /\ Len(S) = n + 1 /\ S[n + 1] = r
        /\ \A i \in 1 .. n : /\ R[i] \in FileInfo /\ S[i].file = R[i].file /\ S[i].path = R[i].path
                             /\ S[i].ver = R[i].ver /\ S[i].del = R[i].del
                             /\ S[i].chunks = R[i].chunks
    BY Inserted
  <1>2. g = [k \in 0 .. n + 1 |-> IF k <= n THEN h[k] ELSE w]
    BY DEF Longer
  <1>3. g[n + 1] = w /\ \A k \in 0 .. n : g[k] = h[k]
    BY <1>1, <1>2
  <1>4. /\ \A k \in 0 .. n : h[k] \in Views /\ GoodView(h[k]) /\ Tells(R, h[k], k)
        /\ \A k \in 1 .. n : Leads(h[k - 1], R[k], h[k])
        /\ VersionsGrow(R) /\ n \in 0 .. n
    BY <1>1 DEF History
  <1> HIDE DEF g, S
  <1>5. g \in [0 .. n + 1 -> Views]
    BY <1>1, <1>2, <1>4
  <1>6. ASSUME NEW k \in 1 .. n + 1
        PROVE  Leads(g[k - 1], S[k], g[k])
    <2>1. CASE k = n + 1
      <3>1. k - 1 = n
        BY <1>1, <2>1
      <3> QED
        BY <1>1, <1>3, <1>4, <2>1, <3>1
    <2>2. CASE k \in 1 .. n
      <3>1. k - 1 \in 0 .. n /\ k \in 0 .. n
        BY <1>1, <2>2
      <3>2. Leads(h[k - 1], R[k], h[k])
        BY <1>4, <2>2
      <3>3. ViewOfRow(S[k]) = ViewOfRow(R[k])
        BY <1>1, <2>2 DEF ViewOfRow
      <3>4. /\ S[k].file = R[k].file /\ S[k].path = R[k].path /\ S[k].ver = R[k].ver
            /\ S[k].del = R[k].del /\ S[k].chunks = R[k].chunks
        BY <1>1, <2>2
      <3>5. Leads(h[k - 1], S[k], h[k])
        BY <3>2, <3>3, <3>4, LeadsAlike
      <3> QED
        BY <1>3, <3>1, <3>5
    <2> QED
      BY <1>1, <2>1, <2>2
  <1>7. ASSUME NEW k \in 0 .. n + 1
        PROVE  GoodView(g[k]) /\ Tells(S, g[k], k)
    <2>1. CASE k = n + 1
      BY <1>3, <1>4, <2>1, LeadsToGood, TellsNext DEF S
    <2>2. CASE k \in 0 .. n
      BY <1>3, <1>4, <2>2, StillTells DEF S
    <2> QED
      BY <1>1, <2>1, <2>2
  <1>8. VersionsGrow(S)
    BY <1>4, VersionsGrowNext DEF S
  <1>9. History(S, g)
    BY <1>1, <1>5, <1>6, <1>7, <1>8 DEF History
  <1> QED
    BY <1>3, <1>9 DEF g, S

-------------------------------------------------------------------------------
(* The invariant                                                           *)

SeenBy(R, t) == {i \in DOMAIN R : R[i].date <= t}

\* Index x shows what rows S of R lead to, which are the first ones; or one row
\* more, which is its own renaming or deletion and dated after its last refresh.
Shows(R, h, x, S) ==
  \E k \in 0 .. Len(R) :
    /\ View(x) = h[k]
    /\ \/ S = 1 .. k
       \/ k > 0 /\ S = 1 .. k - 1 /\ R[k].chunks = <<>>

\* A refresh begun at time t misses none of the rows.
UpTo(R, t) == SeenBy(R, t) = DOMAIN R

Dated(t, x) == x.last <= t /\ UniqueIds(x)

Has(x, p) == \E y \in x.files : y.path = p /\ y.down

InLog(R, b) == \E i \in DOMAIN R : R[i].bytes = b

\* What is in folder D under p, the index knows, and the cloud has it.
Kept(R, x, D, p) == D[p].bytes # <<>> => Has(x, p) /\ InLog(R, D[p].bytes)

\* A device that does nothing, or nothing but to refresh.
Rests(t, R, h, x, D) ==
  /\ Dated(t, x)
  /\ Shows(R, h, x, SeenBy(R, x.last))
  /\ \A p \in Paths : Kept(R, x, D, p)

\* Commands q refresh, or report a file that is no longer there, each after a
\* refresh but for the one whose refresh has been taken.
OnlyReads(q, D) ==
  \A j \in DOMAIN q :
    \/ q[j].op = "refresh"
    \/ /\ q[j].op = "delete" /\ D[q[j].path].bytes = <<>>
       /\ j = 1 \/ q[j - 1].op = "refresh"

Reading(h, d) ==
  /\ Dated(now, db[d])
  /\ \A p \in Paths : Kept(rows, db[d], disk[d], p)
  /\ OnlyReads(queue[d], disk[d])
  /\ \/ /\ pc[d] = "idle"
        /\ Shows(rows, h, db[d], SeenBy(rows, db[d].last))
        /\ queue[d] = <<>> \/ UpTo(rows, db[d].last) \/ Head(queue[d]).op = "refresh"
     \/ /\ pc[d] = "ask" /\ tmp[d] <= now /\ UpTo(rows, tmp[d])
        /\ Shows(rows, h, db[d], SeenBy(rows, db[d].last))
     \/ /\ pc[d] = "apply" /\ tmp[d] <= now /\ UpTo(rows, tmp[d])
        /\ Shows(rows, h, db[d], DOMAIN rows \ got[d])

\* Command c is what the user did in folder D at time t.
Creating(c, t, R, x, D) ==
  /\ c.op = "create" /\ D[c.path].bytes # <<>> /\ D[c.path].mtime = t
  /\ ~ HasPath(x, c.path)
  /\ \A p \in Paths : p # c.path => Kept(R, x, D, p)

Modifying(c, t, R, x, D) ==
  /\ c.op = "modify" /\ D[c.path].bytes # <<>> /\ D[c.path].mtime = t
  /\ Has(x, c.path)
  /\ \A p \in Paths : p # c.path => Kept(R, x, D, p)

Renaming(c, R, x, D) ==
  /\ c.op = "rename" /\ D[c.path].bytes = <<>> /\ InLog(R, D[c.to].bytes)
  /\ Has(x, c.path) /\ ~ HasPath(x, c.to)
  /\ \A p \in Paths : p # c.to => Kept(R, x, D, p)

\* What is dated t is news to all devices but d.
NewsToOthers(d, t) == \A e \in Devices : e # d => db[e].last < t

\* A device whose refresh brings nothing, and that has c to do after it, which
\* the user did at time t.
Writing(h, d, c, t) ==
  /\ Dated(now, db[d])
  /\ UpTo(rows, db[d].last) /\ View(db[d]) = h[Len(rows)]
  /\ t \in Nat /\ t <= now /\ NewsToOthers(d, t)
  /\ \/ pc[d] = "idle" /\ queue[d] = <<RefreshCmd, c>>
     \/ pc[d] = "idle" /\ queue[d] = <<c>> /\ t <= db[d].last
     \/ /\ pc[d] = "ask" /\ queue[d] = <<c>>
        /\ t <= tmp[d] /\ tmp[d] <= now /\ UpTo(rows, tmp[d])
     \/ /\ pc[d] = "apply" /\ queue[d] = <<c>> /\ got[d] = {}
        /\ t <= tmp[d] /\ tmp[d] <= now /\ UpTo(rows, tmp[d])
  /\ \/ Creating(c, t, rows, db[d], disk[d])
     \/ Modifying(c, t, rows, db[d], disk[d])
     \/ Renaming(c, rows, db[d], disk[d])

\* The index is one row ahead of the cloud; the device's own refresh may bring it
\* back if it has no chunks.
Sending(h, d) ==
  /\ pc[d] \in {"chunks", "meta"}
  /\ Dated(now, db[d]) /\ UpTo(rows, db[d].last)
  /\ info[d].date <= now /\ NewsToOthers(d, info[d].date)
  /\ info[d].date <= db[d].last \/ info[d].chunks = <<>>
  /\ Leads(h[Len(rows)], info[d], View(db[d]))
  /\ OnlyReads(queue[d], disk[d])
  /\ queue[d] = <<>> \/ Head(queue[d]).op = "refresh"
  /\ \A p \in Paths : Exists(d, p) =>
       /\ Has(db[d], p)
       /\ InLog(rows, disk[d][p].bytes) \/ info[d].bytes = disk[d][p].bytes

Downloading(h, d, c) ==
  /\ pc[d] = "idle" /\ queue[d] = <<c>> /\ c.op = "download"
  /\ Rests(now, rows, h, db[d], disk[d])
  /\ \E x \in db[d].files : x.id = c.file /\ x.path = c.path

\* Row i of R has bytes b for the version that x is.
IsVersion(R, x, b, i) ==
  /\ R[i].file = x.id /\ R[i].chunks # <<>> /\ R[i].ver <= x.ver /\ R[i].bytes = b
  /\ \A j \in DOMAIN R : j > i /\ R[j].file = x.id /\ R[j].chunks # <<>> => R[j].ver > x.ver

Saving(h, d) ==
  /\ pc[d] = "save" /\ queue[d] = <<>>
  /\ Rests(now, rows, h, db[d], disk[d])
  /\ \E x \in db[d].files :
       /\ x.id = info[d].file /\ x.path = info[d].path
       /\ \E i \in DOMAIN rows : IsVersion(rows, x, info[d].bytes, i)

Works(h, d) ==
  \/ Reading(h, d)
  \/ \E c \in Command : Downloading(h, d, c) \/ \E t \in Nat : Writing(h, d, c, t)
  \/ Sending(h, d)
  \/ Saving(h, d)

Resting(d) == pc[d] = "idle" /\ queue[d] = <<>>

OneActs ==
  \A d, e \in Devices : d = e \/ Resting(d) \/ (Resting(e) /\ db[e].last < now)

RowDates == \A i \in DOMAIN rows : rows[i].date <= now

\* The chunk ids a device gives out next are new to the storage.
ChunksNew(h) ==
  \A c \in store : \/ c.id < h[Len(rows)].nextChunk
                   \/ \E d \in Devices : pc[d] = "meta" /\ c.id < db[d].nextChunk

OrderInv(h) ==
  /\ History(rows, h)
  /\ RowDates
  /\ OneActs
  /\ ChunksNew(h)
  /\ \A d \in Devices : Works(h, d)

-------------------------------------------------------------------------------
(* The devices that are not in use                                          *)

OthersRest(d) == \A e \in Devices : e # d => Resting(e) /\ db[e].last < now

LeavesOthers(d) ==
  \A e \in Devices : e # d => /\ db'[e] = db[e] /\ disk'[e] = disk[e]
                              /\ queue'[e] = queue[e] /\ pc'[e] = pc[e]

LEMMA OneActsOthersRest ==
  ASSUME OneActs, NEW d \in Devices, ~ Resting(d) \/ Turn(d)
  PROVE  OthersRest(d)
  BY DEF OneActs, OthersRest, Turn, Quiet, Resting

LEMMA RestingRests ==
  ASSUME NEW h, NEW d \in Devices, Works(h, d), Resting(d)
  PROVE  Rests(now, rows, h, db[d], disk[d])
  <1>1. pc[d] = "idle" /\ queue[d] = <<>>
    BY DEF Resting
  <1>2. \A c : queue[d] # <<RefreshCmd, c>> /\ queue[d] # <<c>>
    BY <1>1
  <1>3. Reading(h, d)
    BY <1>1, <1>2 DEF Works, Writing, Downloading, Sending, Saving
  <1> QED
    BY <1>1, <1>3 DEF Reading, Rests

LEMMA RestsWorks ==
  ASSUME NEW h, NEW d \in Devices, Rests(now, rows, h, db[d], disk[d]), Resting(d)
  PROVE  Works(h, d)
  <1>1. OnlyReads(queue[d], disk[d])
    BY DEF Resting, OnlyReads
  <1> QED
    BY <1>1 DEF Works, Reading, Rests, Resting

LEMMA RestsWorksNext ==
  ASSUME NEW h, NEW d \in Devices, Rests(now', rows', h, db'[d], disk'[d]),
         pc'[d] = "idle", queue'[d] = <<>>
  PROVE  Works(h, d)'
  <1>1. OnlyReads(queue'[d], disk'[d])
    BY DEF OnlyReads
  <1> QED
    BY <1>1 DEF Works, Reading, Rests

\* What one device does leaves the others at rest.
LEMMA OneWorks ==
  ASSUME NEW h, NEW g, NEW d \in Devices, OthersRest(d), LeavesOthers(d), now' = now,
         \A e \in Devices : Works(h, e),
         \A e \in Devices : e # d /\ Rests(now, rows, h, db[e], disk[e])
                              => Rests(now, rows', g, db[e], disk[e]),
         Works(g, d)'
  PROVE  OneActs' /\ \A e \in Devices : Works(g, e)'
  <1>1. OneActs'
    BY DEF OneActs, OthersRest, LeavesOthers, Resting
  <1>2. ASSUME NEW e \in Devices, e # d
        PROVE  Works(g, e)'
    <2>1. Resting(e) /\ db[e].last < now
      BY <1>2 DEF OthersRest
    <2>2. Rests(now, rows', g, db[e], disk[e])
      BY <1>2, <2>1, RestingRests
    <2>3. db'[e] = db[e] /\ disk'[e] = disk[e] /\ queue'[e] = <<>> /\ pc'[e] = "idle"
      BY <1>2, <2>1 DEF LeavesOthers, Resting
    <2>4. Rests(now', rows', g, db'[e], disk'[e])
      BY <2>2, <2>3
    <2> QED
      BY <2>3, <2>4, RestsWorksNext
  <1> QED
    BY <1>1, <1>2

LEMMA SeenByNext ==
  ASSUME NEW R \in Seq(FileInfo), NEW r \in FileInfo, NEW t \in Nat
  PROVE  /\ t < r.date => SeenBy(InsertFile(R, r), t) = SeenBy(R, t)
         /\ SeenBy(R, t) = DOMAIN R /\ r.date <= t =>
              SeenBy(InsertFile(R, r), t) = DOMAIN InsertFile(R, r)
  <1> DEFINE S == InsertFile(R, r)
  <1>1. /\ Len(R) \in Nat /\ DOMAIN R = 1 .. Len(R) /\ DOMAIN S = 1 .. Len(R) + 1
        /\ S[Len(R) + 1] = r /\ \A i \in 1 .. Len(R) : S[i].date = R[i].date
    BY Inserted
  <1>2. r.date \in Nat
    BY RowFields
  <1> HIDE DEF S
  <1>3. ASSUME t < r.date
        PROVE  SeenBy(S, t) = SeenBy(R, t)
    BY <1>1, <1>2, <1>3 DEF SeenBy
  <1>4. ASSUME SeenBy(R, t) = DOMAIN R, r.date <= t
        PROVE  SeenBy(S, t) = DOMAIN S
    BY <1>1, <1>2, <1>4 DEF SeenBy
  <1> QED
    BY <1>3, <1>4 DEF S

LEMMA InLogNext ==
  ASSUME NEW R \in Seq(FileInfo), NEW r \in FileInfo
  PROVE  /\ \A b : InLog(R, b) => InLog(InsertFile(R, r), b)
         /\ InLog(InsertFile(R, r), r.bytes)
  <1> DEFINE S == InsertFile(R, r)
  <1>1. /\ Len(R) \in Nat /\ DOMAIN R = 1 .. Len(R) /\ DOMAIN S = 1 .. Len(R) + 1
        /\ S[Len(R) + 1] = r /\ \A i \in 1 .. Len(R) : S[i].bytes = R[i].bytes
    BY Inserted
  <1> HIDE DEF S
  <1>2. /\ \A b : InLog(R, b) => InLog(S, b)
        /\ InLog(S, r.bytes)
    BY <1>1 DEF InLog
  <1> QED
    BY <1>2 DEF S

\* A row that is newer than the last refresh of a device is nothing to it.
LEMMA RestsOn ==
  ASSUME NEW R \in Seq(FileInfo), NEW r \in FileInfo, NEW h, NEW w \in Views,
         History(R, h), Leads(h[Len(R)], r, w), NEW t, NEW x \in LocalDB, NEW D,
         x.last < r.date, Rests(t, R, h, x, D)
  PROVE  Rests(t, InsertFile(R, r), Longer(R, h, w), x, D)
  <1> DEFINE S == InsertFile(R, r)
             g == Longer(R, h, w)
  <1>1. Len(S) = Len(R) + 1 /\ Len(R) \in Nat /\ \A k \in 0 .. Len(R) : g[k] = h[k]
    BY Inserted, HistoryGoesOn
  <1>7. \A k \in 1 .. Len(R) : S[k].chunks = R[k].chunks
    BY Inserted
  <1>2. SeenBy(S, x.last) = SeenBy(R, x.last)
    BY SeenByNext, FieldTypes
  <1>3. \A b : InLog(R, b) => InLog(S, b)
    BY InLogNext
  <1> HIDE DEF S, g
  <1>4. Shows(S, g, x, SeenBy(S, x.last))
    <2>1. PICK k \in 0 .. Len(R) :
            /\ View(x) = h[k]
            /\ \/ SeenBy(R, x.last) = 1 .. k
               \/ k > 0 /\ SeenBy(R, x.last) = 1 .. k - 1 /\ R[k].chunks = <<>>
      BY DEF Rests, Shows
    <2>2. k \in 0 .. Len(S) /\ g[k] = h[k] /\ (k > 0 => S[k].chunks = R[k].chunks)
      BY <1>1, <1>7, <2>1
    <2> QED
      BY <1>2, <2>1, <2>2 DEF Shows
  <1>5. \A p \in Paths : Kept(S, x, D, p)
    BY <1>3 DEF Rests, Kept
  <1>6. Rests(t, S, g, x, D)
    BY <1>4, <1>5 DEF Rests
  <1> QED
    BY <1>6 DEF S, g

-------------------------------------------------------------------------------
(* The steps of a refresh                                                   *)

LEMMA DeviceTypes ==
  ASSUME TypeInv, NEW d \in Devices
  PROVE  /\ db[d] \in LocalDB /\ disk[d] \in [Paths -> DiskFile] /\ queue[d] \in Seq(Command)
         /\ pc[d] \in States /\ tmp[d] \in Nat /\ info[d] \in FileInfo
         /\ got[d] \subseteq DOMAIN rows
         /\ rows \in Seq(FileInfo) /\ Len(rows) \in Nat /\ DOMAIN rows = 1 .. Len(rows)
         /\ \A i \in 1 .. Len(rows) : rows[i] \in FileInfo
         /\ now \in Nat /\ db[d].last \in Nat
  BY FieldTypes DEF TypeInv, TypeOK

\* Nothing changes in the cloud.
LEMMA SameCloud ==
  ASSUME NEW h, OrderInv(h), NEW d \in Devices, OthersRest(d), LeavesOthers(d),
         UNCHANGED <<now, rows, store>>, pc[d] # "meta", Works(h, d)'
  PROVE  OrderInv(h)'
  <1>1. \A e \in Devices : Rests(now, rows, h, db[e], disk[e]) => Rests(now, rows', h, db[e], disk[e])
    OBVIOUS
  <1>2. OneActs' /\ \A e \in Devices : Works(h, e)'
    BY <1>1, OneWorks DEF OrderInv
  <1>3. ChunksNew(h)'
    <2>1. \A e \in Devices : pc[e] # "meta"
      BY DEF OthersRest, Resting
    <2> QED
      BY <2>1 DEF OrderInv, ChunksNew
  <1>4. RowDates' /\ History(rows', h)
    BY DEF OrderInv, RowDates
  <1> QED
    BY <1>2, <1>3, <1>4 DEF OrderInv

\* Commands that are told apart by what they do.
LEMMA Doings ==
  /\ RefreshCmd.op = "refresh"
  /\ \A h, d, c, t : Writing(h, d, c, t) => c.op \in {"create", "modify", "rename"}
  /\ \A c : /\ <<c>> # <<>> /\ Head(<<c>>) = c /\ Tail(<<c>>) = <<>>
            /\ <<RefreshCmd, c>> # <<>> /\ Head(<<RefreshCmd, c>>) = RefreshCmd
            /\ Tail(<<RefreshCmd, c>>) = <<c>>
  BY DEF RefreshCmd, Cmd, Writing, Creating, Modifying, Renaming

LEMMA OnlyReadsTail ==
  ASSUME NEW q \in Seq(Command), q # <<>>, NEW D, OnlyReads(q, D)
  PROVE  /\ OnlyReads(Tail(q), D)
         /\ \/ Head(q).op = "refresh"
            \/ /\ Head(q).op = "delete" /\ D[Head(q).path].bytes = <<>>
               /\ Tail(q) = <<>> \/ Head(Tail(q)).op = "refresh"
  <1> DEFINE s == Tail(q)
  <1>1. \A j \in DOMAIN s : j \in Nat \ {0} /\ j + 1 \in DOMAIN q /\ s[j] = q[j + 1]
    OBVIOUS
  <1>2. 1 \in DOMAIN q /\ Head(q) = q[1]
    OBVIOUS
  <1>3. \A j \in DOMAIN s : j # 1 => j - 1 \in DOMAIN s
    OBVIOUS
  <1>4. s = <<>> \/ (1 \in DOMAIN s /\ Head(s) = s[1])
    OBVIOUS
  <1> HIDE DEF s
  <1>5. OnlyReads(s, D)
    <2> SUFFICES ASSUME NEW j \in DOMAIN s
                 PROVE  \/ s[j].op = "refresh"
                        \/ /\ s[j].op = "delete" /\ D[s[j].path].bytes = <<>>
                           /\ j = 1 \/ s[j - 1].op = "refresh"
      BY DEF OnlyReads
    <2>1. j + 1 \in DOMAIN q /\ s[j] = q[j + 1] /\ j + 1 # 1 /\ (j + 1) - 1 = j
      BY <1>1
    <2>2. \/ q[j + 1].op = "refresh"
          \/ /\ q[j + 1].op = "delete" /\ D[q[j + 1].path].bytes = <<>>
             /\ q[j].op = "refresh"
      BY <2>1 DEF OnlyReads
    <2>3. j # 1 => s[j - 1] = q[j]
      BY <1>1, <1>3
    <2> QED
      BY <2>1, <2>2, <2>3
  <1>6. ASSUME Head(q).op = "delete", s # <<>>
        PROVE  Head(s).op = "refresh"
    <2>1. 2 \in DOMAIN q /\ Head(s) = q[2]
      BY <1>1, <1>4, <1>6
    <2>2. q[2].op = "refresh" \/ q[1].op = "refresh"
      BY <2>1 DEF OnlyReads
    <2> QED
      BY <1>2, <1>6, <2>1, <2>2
  <1> QED
    BY <1>2, <1>5, <1>6 DEF OnlyReads, s

LEMMA OnlyReadsMore ==
  ASSUME NEW q \in Seq(Command), NEW D, OnlyReads(q, D), NEW E,
         \A p \in Paths : D[p].bytes = <<>> => E[p].bytes = <<>>
  PROVE  /\ OnlyReads(q, E)
         /\ \A c \in Command : /\ c.op = "delete" /\ E[c.path].bytes = <<>>
                               => OnlyReads(q \o <<RefreshCmd, c>>, E)
  <1>1. OnlyReads(q, E)
    <2>1. \A j \in DOMAIN q : q[j] \in Command
      OBVIOUS
    <2>2. \A j \in DOMAIN q : q[j].path \in Paths
      BY <2>1 DEF Command
    <2> QED
      BY <2>2 DEF OnlyReads
  <1>2. ASSUME NEW c \in Command, c.op = "delete", E[c.path].bytes = <<>>
        PROVE  OnlyReads(q \o <<RefreshCmd, c>>, E)
    <2> DEFINE s == q \o <<RefreshCmd, c>>
    <2>1. \A j \in DOMAIN s :
            \/ /\ j \in DOMAIN q /\ s[j] = q[j]
               /\ j = 1 \/ s[j - 1] = q[j - 1]
            \/ s[j] = RefreshCmd
            \/ s[j] = c /\ s[j - 1] = RefreshCmd
      OBVIOUS
    <2> HIDE DEF s
    <2>2. OnlyReads(s, E)
      BY <1>1, <1>2, <2>1, Doings DEF OnlyReads
    <2> QED
      BY <2>2 DEF s
  <1> QED
    BY <1>1, <1>2

LEMMA AllSeen ==
  ASSUME RowDates
  PROVE  UpTo(rows, now)
  BY DEF RowDates, SeenBy, UpTo

LEMMA RefreshBeginOrder ==
  ASSUME TypeInv, NEW h, OrderInv(h), NEW d \in Devices, RefreshBegin(d)
  PROVE  OrderInv(h)'
  <1>1. /\ pc[d] = "idle" /\ queue[d] # <<>> /\ Head(queue[d]).op = "refresh"
        /\ tmp'[d] = now /\ pc'[d] = "ask" /\ queue'[d] = Tail(queue[d])
        /\ db' = db /\ disk' = disk /\ rows' = rows /\ store' = store /\ now' = now
        /\ LeavesOthers(d)
    BY DEF RefreshBegin, Take, Goto, Pop, TypeInv, TypeOK, LeavesOthers, server
  <1>2. OthersRest(d)
    BY <1>1, OneActsOthersRest DEF OrderInv, Resting
  <1>3. Works(h, d)
    BY DEF OrderInv
  <1>0. now \in Nat /\ UpTo(rows, now)
    BY DeviceTypes, AllSeen DEF OrderInv
  <1>4. CASE Reading(h, d)
    <2>1. OnlyReads(queue'[d], disk[d])
      BY <1>1, <1>4, OnlyReadsTail, DeviceTypes DEF Reading
    <2>2. Reading(h, d)'
      BY <1>0, <1>1, <1>4, <2>1 DEF Reading
    <2> QED
      BY <1>1, <1>2, <2>2, SameCloud DEF Works
  <1>5. ASSUME NEW c \in Command, NEW t \in Nat, Writing(h, d, c, t)
        PROVE  Writing(h, d, c, t)'
    <2>1. queue[d] = <<RefreshCmd, c>>
      BY <1>1, <1>5, Doings DEF Writing
    <2>2. queue'[d] = <<c>>
      BY <1>1, <2>1, Doings
    <2>3. /\ Dated(now, db[d]) /\ UpTo(rows, db[d].last) /\ View(db[d]) = h[Len(rows)]
          /\ t <= now /\ NewsToOthers(d, t)
          /\ \/ Creating(c, t, rows, db[d], disk[d])
             \/ Modifying(c, t, rows, db[d], disk[d])
             \/ Renaming(c, rows, db[d], disk[d])
      BY <1>5 DEF Writing
    <2>4. t <= tmp'[d] /\ tmp'[d] <= now' /\ UpTo(rows', tmp'[d])
      BY <1>0, <1>1, <2>3
    <2>5. NewsToOthers(d, t)'
      BY <1>1, <2>3 DEF NewsToOthers
    <2> QED
      BY <1>1, <2>2, <2>3, <2>4, <2>5 DEF Writing
  <1>6. \A c : ~ Downloading(h, d, c)
    BY <1>1, Doings DEF Downloading
  <1>7. ~ Sending(h, d) /\ ~ Saving(h, d)
    BY <1>1 DEF Sending, Saving
  <1>8. CASE \E c \in Command, t \in Nat : Writing(h, d, c, t)
    <2>1. Works(h, d)'
      BY <1>5, <1>8 DEF Works
    <2> QED
      BY <1>1, <1>2, <2>1, SameCloud
  <1> QED
    BY <1>3, <1>4, <1>6, <1>7, <1>8 DEF Works

LEMMA NotSeen ==
  ASSUME NEW R \in Seq(FileInfo), NEW t \in Nat
  PROVE  /\ DOMAIN R \ GetUserFilesByTime(R, t) = SeenBy(R, t)
         /\ SeenBy(R, t) = DOMAIN R => GetUserFilesByTime(R, t) = {}
  <1>1. \A i \in DOMAIN R : R[i] \in FileInfo
    OBVIOUS
  <1>2. \A i \in DOMAIN R : R[i].date \in Nat
    BY <1>1 DEF FileInfo
  <1> QED
    BY <1>2 DEF GetUserFilesByTime, SeenBy

LEMMA RefreshAnswerOrder ==
  ASSUME TypeInv, "net" \notin Faults, NEW h, OrderInv(h), NEW d \in Devices, RefreshAnswer(d)
  PROVE  OrderInv(h)'
  <1>1. /\ pc[d] = "ask" /\ pc'[d] = "apply"
        /\ got'[d] = GetUserFilesByTime(rows, db[d].last)
        /\ db' = db /\ disk' = disk /\ rows' = rows /\ store' = store /\ now' = now
        /\ queue' = queue /\ tmp' = tmp /\ LeavesOthers(d)
    BY DEF RefreshAnswer, Goto, TypeInv, TypeOK, LeavesOthers, server
  <1>2. OthersRest(d)
    BY <1>1, OneActsOthersRest DEF OrderInv, Resting
  <1>3. Works(h, d)
    BY DEF OrderInv
  <1>4. rows \in Seq(FileInfo) /\ db[d].last \in Nat
    BY DeviceTypes
  <1>5. ASSUME Reading(h, d)
        PROVE  Reading(h, d)'
    <2>1. DOMAIN rows' \ got'[d] = SeenBy(rows, db[d].last)
      BY <1>1, <1>4, NotSeen
    <2> QED
      BY <1>1, <1>5, <2>1 DEF Reading
  <1>6. ASSUME NEW c \in Command, NEW t \in Nat, Writing(h, d, c, t)
        PROVE  Writing(h, d, c, t)'
    <2>1. got'[d] = {}
      BY <1>1, <1>4, <1>6, NotSeen DEF Writing, UpTo
    <2> QED
      BY <1>1, <1>6, <2>1 DEF Writing, NewsToOthers
  <1>8. /\ \A c : ~ Downloading(h, d, c)
        /\ ~ Sending(h, d) /\ ~ Saving(h, d)
    BY <1>1 DEF Downloading, Sending, Saving
  <1>7. Works(h, d)'
    <2>1. Reading(h, d) \/ \E c \in Command, t \in Nat : Writing(h, d, c, t)
      BY <1>3, <1>8 DEF Works
    <2> QED
      BY <1>5, <1>6, <2>1 DEF Works
  <1> QED
    BY <1>1, <1>2, <1>7, SameCloud

\* Index y has the files of x but for f, and perhaps g.
LEMMA KeptWithout ==
  ASSUME NEW R, NEW x, NEW D, NEW p, Kept(R, x, D, p), NEW f, f.down => f.path # p,
         NEW y, x.files \ {f} \subseteq y.files, NEW E, E[p] = D[p]
  PROVE  Kept(R, y, E, p)
  BY DEF Kept, Has

LEMMA KeptAbsent ==
  ASSUME NEW R, NEW y, NEW E, NEW p, E[p].bytes = <<>>
  PROVE  Kept(R, y, E, p)
  BY DEF Kept

LEMMA RefreshRowOrder ==
  ASSUME TypeInv, TypeInv', NEW h, OrderInv(h), NEW d \in Devices, RefreshRow(d)
  PROVE  OrderInv(h)'
  <1> DEFINE x == db[d]
             y == db'[d]
             n == Len(rows)
  <1>1. PICK i \in got[d] :
          /\ \A j \in got[d] : i <= j
          /\ ApplyDeleted(d, rows[i]) \/ ApplyToKnown(d, rows[i]) \/ ApplyToUnknown(d, rows[i])
          /\ got' = [got EXCEPT ![d] = got[d] \ {i}]
    BY DEF RefreshRow
  <1>2. /\ pc[d] = "apply" /\ pc' = pc /\ tmp' = tmp /\ got'[d] = got[d] \ {i}
        /\ rows' = rows /\ store' = store /\ now' = now
    BY <1>1 DEF RefreshRow, server, TypeInv, TypeOK
  <1>3. OthersRest(d)
    BY <1>2, OneActsOthersRest DEF OrderInv, Resting
  <1>4. LeavesOthers(d)
    <2>1. /\ db \in [Devices -> LocalDB] /\ disk \in [Devices -> [Paths -> DiskFile]]
          /\ queue \in [Devices -> Seq(Command)]
      BY DEF TypeInv, TypeOK
    <2>2. \A e \in Devices : e # d => db'[e] = db[e]
      BY <1>1, <2>1 DEF ApplyDeleted, ApplyToKnown, ApplyToUnknown
    <2>3. \A e \in Devices : e # d => disk'[e] = disk[e]
      BY <1>1, <2>1 DEF ApplyDeleted, ApplyToKnown, ApplyToUnknown
    <2>4. \A e \in Devices : e # d => queue'[e] = queue[e]
      BY <1>1, <2>1 DEF ApplyDeleted, ApplyToKnown, ApplyToUnknown, Notify
    <2> QED
      BY <1>2, <2>2, <2>3, <2>4 DEF LeavesOthers
  <1>5. Reading(h, d) /\ Shows(rows, h, x, DOMAIN rows \ got[d])
    <2>1. Works(h, d) /\ got[d] # {}
      BY DEF OrderInv
    <2>2. Reading(h, d)
      BY <1>2, <2>1 DEF Works, Writing, Downloading, Sending, Saving
    <2> QED
      BY <1>2, <2>2 DEF Reading
  <1>6. /\ x \in LocalDB /\ disk[d] \in [Paths -> DiskFile] /\ queue[d] \in Seq(Command)
        /\ got[d] \subseteq DOMAIN rows /\ rows \in Seq(FileInfo)
        /\ n \in Nat /\ DOMAIN rows = 1 .. n /\ rows[i] \in FileInfo /\ i \in 1 .. n
    BY <1>1, DeviceTypes
  <1>7. PICK k \in 0 .. n :
          /\ View(x) = h[k]
          /\ \/ DOMAIN rows \ got[d] = 1 .. k
             \/ k > 0 /\ DOMAIN rows \ got[d] = 1 .. k - 1 /\ rows[k].chunks = <<>>
    BY <1>5 DEF Shows
  <1>8. /\ DOMAIN rows \ got'[d] = 1 .. i
        /\ i = k + 1 \/ (i = k /\ rows[i].chunks = <<>>)
    \* The first row of the answer that is left is the one after those seen.
    <2>0. \A m \in 0 .. n : DOMAIN rows \ got[d] = 1 .. m =>
            i = m + 1 /\ (1 .. n) \ (got[d] \ {i}) = 1 .. m + 1
      <3> SUFFICES ASSUME NEW m \in 0 .. n, DOMAIN rows \ got[d] = 1 .. m
                   PROVE  /\ i = m + 1 /\ m + 1 \in 1 .. n
                          /\ (1 .. n) \ (got[d] \ {i}) = 1 .. m + 1
        OBVIOUS
      <3>1. PICK S : S = got[d]
        OBVIOUS
      <3>2. /\ n \in Nat /\ S \subseteq 1 .. n /\ (1 .. n) \ S = 1 .. m
            /\ i \in S /\ \A j \in S : i <= j
        BY <1>1, <1>6, <3>1
      <3>3. i = m + 1 /\ m + 1 \in 1 .. n /\ (1 .. n) \ (S \ {i}) = 1 .. m + 1
        <4>1. i \in 1 .. n /\ m \in Nat
          BY <3>2
        <4>2. \A j \in 1 .. n : j \in S <=> j > m
          BY <3>2
        <4> HIDE DEF n
        <4>3. m + 1 \in S
          BY <3>2, <4>1, <4>2
        <4>4. i = m + 1
          BY <3>2, <4>1, <4>2, <4>3
        <4> QED
          BY <3>2, <4>1, <4>2, <4>4
      <3> QED
        BY <3>1, <3>3
    <2>1. CASE DOMAIN rows \ got[d] = 1 .. k
      BY <1>2, <1>6, <2>0, <2>1
    <2>2. CASE k > 0 /\ DOMAIN rows \ got[d] = 1 .. k - 1 /\ rows[k].chunks = <<>>
      <3>1. k - 1 \in 0 .. n /\ (k - 1) + 1 = k
        BY <2>2
      <3>2. i = k /\ (1 .. n) \ (got[d] \ {i}) = 1 .. k
        BY <2>0, <2>2, <3>1
      <3> QED
        BY <1>2, <1>6, <2>2, <3>2
    <2> QED
      BY <1>7, <2>1, <2>2
  <1> DEFINE v == h[i - 1]
             w == h[i]
  <1>9. /\ Leads(v, rows[i], w) /\ v \in Views /\ w \in Views /\ GoodView(v)
        /\ UniqueIds(x) /\ x.last <= now
        /\ View(x) = v \/ (View(x) = w /\ rows[i].chunks = <<>>)
    <2>1. i \in 0 .. n /\ i - 1 \in 0 .. n /\ History(rows, h)
      BY <1>6 DEF OrderInv
    <2>2. Leads(v, rows[i], w) /\ v \in Views /\ w \in Views /\ GoodView(v)
      BY <1>6, <2>1 DEF History
    <2>3. View(x) = v \/ (View(x) = w /\ rows[i].chunks = <<>>)
      <3>1. i = k + 1 => i - 1 = k
        BY <1>6
      <3> QED
        BY <1>7, <1>8, <3>1
    <2> QED
      BY <1>5, <2>2, <2>3 DEF Reading, Dated
  <1>10. /\ \A p \in Paths : Kept(rows, x, disk[d], p)
         /\ OnlyReads(queue[d], disk[d])
    BY <1>5 DEF Reading
  <1> DEFINE r == rows[i]
             Good == /\ View(y) = w /\ UniqueIds(y) /\ y.last = x.last
                     /\ \A p \in Paths : Kept(rows, y, disk'[d], p)
                     /\ OnlyReads(queue'[d], disk'[d])
  <1>11. /\ r \in FileInfo /\ r.path \in Paths /\ r = rows[i]
         /\ db \in [Devices -> LocalDB] /\ disk \in [Devices -> [Paths -> DiskFile]]
         /\ queue \in [Devices -> Seq(Command)] /\ Absent.bytes = <<>>
    BY <1>6, RowFields DEF TypeInv, TypeOK, Absent
  <1>12. /\ Leads(v, r, w) /\ GoodView(v)
         /\ View(x) = v \/ (View(x) = w /\ r.chunks = <<>>)
    BY <1>9
  <1> HIDE DEF r, v, w
  <1>13. ASSUME ApplyDeleted(d, r)
         PROVE  Good
    <2>1. r.del /\ y = DeleteFile(x, r.file)
          /\ disk'[d] = [disk[d] EXCEPT ![r.path] = Absent]
      BY <1>11, <1>13 DEF ApplyDeleted
    <2>5. r \in FileInfo /\ x \in LocalDB /\ r.del /\ y = DeleteFile(x, r.file)
      BY <1>6, <1>11, <2>1
    <2>2. /\ View(y) = w /\ UniqueIds(y) /\ y.last = x.last
          /\ \E f : f.path = r.path /\ x.files \ {f} \subseteq y.files
      <3>1. CASE View(x) = v
        <4>1. /\ View(y) = w /\ UniqueIds(y) /\ y.last = x.last
              /\ \E f \in x.files : f.path = r.path /\ y.files = x.files \ {f}
          BY <1>9, <1>12, <2>5, <3>1, AppliesDeleted
        <4> QED
          BY <4>1
      <3>2. CASE View(x) = w /\ r.chunks = <<>>
        <4>1. View(y) = w /\ UniqueIds(y) /\ y.last = x.last /\ y.files = x.files
          BY <1>9, <1>12, <2>5, <3>2, DeletedAgain
        <4> QED
          BY <4>1
      <3> QED
        BY <1>12, <3>1, <3>2
    <2>3. \A p \in Paths : Kept(rows, y, disk'[d], p)
      <3>1. PICK f : f.path = r.path /\ x.files \ {f} \subseteq y.files
        BY <2>2
      <3> SUFFICES ASSUME NEW p \in Paths PROVE Kept(rows, y, disk'[d], p)
        OBVIOUS
      <3>2. CASE p = r.path
        <4>1. disk'[d][p].bytes = <<>>
          BY <1>6, <1>11, <2>1, <3>2
        <4> QED
          BY <4>1, KeptAbsent
      <3>3. CASE p # r.path
        <4>1. disk'[d][p] = disk[d][p] /\ x.files \ {f} \subseteq y.files /\ f.path # p
          BY <1>6, <2>1, <3>1, <3>3
        <4> QED
          BY <1>10, <4>1, KeptWithout
      <3> QED
        BY <3>2, <3>3
    <2>4. OnlyReads(queue'[d], disk'[d])
      <3>1. \A p \in Paths : disk[d][p].bytes = <<>> => disk'[d][p].bytes = <<>>
        BY <1>6, <1>11, <2>1
      <3>2. disk'[d][r.path].bytes = <<>>
        BY <1>6, <1>11, <2>1
      <3> DEFINE c == Cmd("delete", r.path, r.path, AnyFile, "sync")
      <3>3. c \in Command /\ c.op = "delete" /\ c.path = r.path
        BY <1>11, FileIdsType, CmdType DEF Cmd, Ops
      <3>4. queue'[d] = queue[d] \/ queue'[d] = queue[d] \o <<RefreshCmd, c>>
        BY <1>11, <1>13 DEF ApplyDeleted, Notify
      <3> HIDE DEF c
      <3> QED
        BY <1>6, <1>10, <3>1, <3>2, <3>3, <3>4, OnlyReadsMore
    <2> QED
      BY <2>2, <2>3, <2>4
  <1>14. ASSUME ApplyToKnown(d, r)
         PROVE  Good
    <2>1. /\ ~ r.del /\ \E f \in x.files : f.id = r.file
          /\ y = (IF r.chunks = <<>> THEN RenameFileInfo(x, r) ELSE UpdateFileInfo(x, r))
          /\ queue' = queue
      BY <1>11, <1>14 DEF ApplyToKnown, IsFileExist
    <2> DEFINE f == SelectFile(x, r.file)
    <2>2. f \in x.files /\ f.id = r.file
      BY <2>1 DEF SelectFile
    <2>3. disk' = IF f.down THEN [disk EXCEPT ![d][f.path] = Absent] ELSE disk
      BY <1>14 DEF ApplyToKnown
    <2> HIDE DEF f
    <2>4. /\ View(y) = w /\ UniqueIds(y) /\ y.last = x.last
          /\ y.files = (x.files \ {f}) \cup {RowFile(r, r.file)}
      <3>1. CASE View(x) = v
        BY <1>6, <1>9, <1>11, <1>12, <2>1, <2>2, <3>1, AppliesToKnown
      <3>2. CASE View(x) = w /\ r.chunks = <<>>
        <4>1. y = RenameFileInfo(x, r)
          BY <2>1, <3>2
        <4> QED
          BY <1>6, <1>9, <1>11, <1>12, <2>1, <2>2, <3>2, <4>1, RenamedAgain
      <3> QED
        BY <1>12, <3>1, <3>2
    <2>5. f.path \in Paths
      BY <1>6, <2>2, FieldTypes DEF LocalFile
    <2>6. \A p \in Paths : \/ disk'[d][p] = disk[d][p] /\ (f.down => f.path # p)
                           \/ disk'[d][p].bytes = <<>>
      BY <1>6, <1>11, <2>3, <2>5
    <2>7. \A p \in Paths : Kept(rows, y, disk'[d], p)
      <3> SUFFICES ASSUME NEW p \in Paths PROVE Kept(rows, y, disk'[d], p)
        OBVIOUS
      <3>1. x.files \ {f} \subseteq y.files
        BY <2>4
      <3> QED
        BY <1>10, <2>6, <3>1, KeptWithout, KeptAbsent
    <2>8. \A p \in Paths : disk[d][p].bytes = <<>> => disk'[d][p].bytes = <<>>
      BY <2>6
    <2>9. OnlyReads(queue'[d], disk'[d])
      BY <1>6, <1>10, <2>1, <2>8, OnlyReadsMore
    <2> QED
      BY <2>4, <2>7, <2>9
  <1>15. ASSUME ApplyToUnknown(d, r)
         PROVE  Good
    <2>1. /\ ~ r.del /\ \A f \in x.files : f.id # r.file
          /\ x.nextFile <= MaxFile /\ y = InsertFileInfo(x, r)
          /\ queue' = queue /\ disk' = disk
      BY <1>11, <1>15 DEF ApplyToUnknown, IsFileExist
    <2>2. /\ View(y) = w /\ UniqueIds(y) /\ y.last = x.last
          /\ y.files = x.files \cup {RowFile(r, r.file)}
      <3>1. View(x) = v
        BY <1>6, <1>9, <1>11, <1>12, <2>1, RenamedAgain
      <3> QED
        BY <1>6, <1>9, <1>11, <1>12, <2>1, <3>1, AppliesToUnknown
    <2>3. \A p \in Paths : Kept(rows, y, disk'[d], p)
      BY <1>10, <2>1, <2>2 DEF Kept, Has
    <2> QED
      BY <1>10, <2>1, <2>2, <2>3
  <1>16. Good
    BY <1>1, <1>11, <1>13, <1>14, <1>15
  <1>17. Shows(rows, h, y, DOMAIN rows \ got'[d])
    BY <1>6, <1>8, <1>16 DEF Shows, w
  <1>18. Reading(h, d)'
    BY <1>2, <1>5, <1>9, <1>16, <1>17 DEF Reading, Dated
  <1>19. Works(h, d)'
    BY <1>18 DEF Works
  <1> QED
    BY <1>2, <1>3, <1>4, <1>19, SameCloud

\* What is said of an index of which only the files count.
LEMMA SameFiles ==
  ASSUME NEW x, NEW y, y.files = x.files
  PROVE  /\ UniqueIds(x) => UniqueIds(y)
         /\ \A R, D, p : Kept(R, x, D, p) => Kept(R, y, D, p)
         /\ \A c, t, R, D : /\ Creating(c, t, R, x, D) => Creating(c, t, R, y, D)
                            /\ Modifying(c, t, R, x, D) => Modifying(c, t, R, y, D)
                            /\ Renaming(c, R, x, D) => Renaming(c, R, y, D)
  <1>1. UniqueIds(x) => UniqueIds(y)
    BY DEF UniqueIds
  <1>2. \A p : Has(x, p) <=> Has(y, p)
    BY DEF Has
  <1>3. \A p : HasPath(x, p) <=> HasPath(y, p)
    BY DEF HasPath
  <1>4. \A R, D, p : Kept(R, x, D, p) => Kept(R, y, D, p)
    BY <1>2 DEF Kept
  <1> QED
    BY <1>1, <1>2, <1>3, <1>4 DEF Creating, Modifying, Renaming

LEMMA SaveLastUpdateIs ==
  ASSUME NEW x, NEW t, NEW y, y = SaveLastUpdate(x, t)
  PROVE  y.files = x.files /\ y.last = t /\ View(y) = View(x)
  <1>1. /\ y.files = x.files /\ y.chunks = x.chunks /\ y.nextFile = x.nextFile
        /\ y.nextChunk = x.nextChunk /\ y.last = t
    BY DBFields DEF SaveLastUpdate
  <1> QED
    BY <1>1 DEF View

LEMMA RefreshEndOrder ==
  ASSUME TypeInv, NEW h, OrderInv(h), NEW d \in Devices, RefreshEnd(d)
  PROVE  OrderInv(h)'
  <1> DEFINE x == db[d]
             y == db'[d]
  <1>1. /\ pc[d] = "apply" /\ got[d] = {} /\ pc'[d] = "idle"
        /\ y = SaveLastUpdate(x, tmp[d])
        /\ disk' = disk /\ queue' = queue /\ rows' = rows /\ store' = store /\ now' = now
        /\ LeavesOthers(d)
    BY DEF RefreshEnd, Goto, TypeInv, TypeOK, LeavesOthers, server, local
  <1>2. OthersRest(d)
    BY <1>1, OneActsOthersRest DEF OrderInv, Resting
  <1>3. /\ tmp[d] <= now /\ UpTo(rows, tmp[d])
        /\ Reading(h, d) \/ \E c \in Command, t \in Nat : Writing(h, d, c, t)
    BY <1>1 DEF OrderInv, Works, Reading, Writing, Downloading, Sending, Saving
  <1>4. y.files = x.files /\ y.last = tmp[d] /\ View(y) = View(x)
    BY <1>1, SaveLastUpdateIs
  <1>5. y.last <= now /\ UpTo(rows, y.last)
    BY <1>3, <1>4
  <1>6. x \in LocalDB /\ now \in Nat
    BY DeviceTypes
  <1> HIDE DEF x, y
  <1>7. ASSUME Reading(h, d)
        PROVE  Reading(h, d)'
    <2>1. Dated(now, y) /\ \A p \in Paths : Kept(rows, y, disk[d], p)
      BY <1>4, <1>5, <1>7, SameFiles DEF Reading, Dated, x
    <2>2. DOMAIN rows \ got[d] = DOMAIN rows /\ SeenBy(rows, y.last) = DOMAIN rows
      BY <1>1, <1>5 DEF UpTo
    <2>3. Shows(rows, h, y, SeenBy(rows, y.last))
      BY <1>1, <1>4, <1>7, <2>2 DEF Reading, Shows, x
    <2> QED
      BY <1>1, <1>5, <1>7, <2>1, <2>3 DEF Reading, y
  <1>8. ASSUME NEW c \in Command, NEW t \in Nat, Writing(h, d, c, t)
        PROVE  Writing(h, d, c, t)'
    <2>1. Dated(now, y) /\ View(y) = h[Len(rows)]
      BY <1>4, <1>5, <1>8, SameFiles DEF Writing, Dated, x
    <2>2. \/ Creating(c, t, rows, y, disk[d])
          \/ Modifying(c, t, rows, y, disk[d])
          \/ Renaming(c, rows, y, disk[d])
      BY <1>4, <1>8, SameFiles DEF Writing, x
    <2>3. queue[d] = <<c>> /\ t <= y.last /\ t <= now /\ NewsToOthers(d, t)
      BY <1>1, <1>4, <1>8 DEF Writing
    <2>4. NewsToOthers(d, t)'
      BY <1>1, <2>3 DEF NewsToOthers, LeavesOthers
    <2> QED
      BY <1>1, <1>5, <2>1, <2>2, <2>3, <2>4 DEF Writing, y
  <1>9. Works(h, d)'
    BY <1>3, <1>7, <1>8 DEF Works
  <1> QED
    BY <1>1, <1>2, <1>9, SameCloud

-------------------------------------------------------------------------------
(* The steps of a download                                                  *)

\* The chunk ids the index has for a file are those of the row it shows.
LEMMA ShownVersion ==
  ASSUME NEW R \in Seq(FileInfo), NEW h, History(R, h), NEW k \in 0 .. Len(R),
         NEW x \in LocalFile, ViewOfFile(x) \in h[k].files
  PROVE  \E i \in DOMAIN R : IsVersion(R, x, R[i].bytes, i) /\ h[k].chunks[x.id] = R[i].chunks
  <1> DEFINE v == h[k]
             e == ViewOfFile(x)
  <1>1. Tells(R, v, k) /\ VersionsGrow(R) /\ Len(R) \in Nat /\ DOMAIN R = 1 .. Len(R)
    BY DEF History
  <1>2. e.id = x.id /\ e.ver = x.ver
    BY DEF ViewOfFile
  <1>3. PICK i \in 1 .. k : IsNewest(R, e.id, i, k) /\ ViewOfRow(R[i]) = e
    BY <1>1 DEF Tells
  <1>4. PICK j \in 1 .. k : IsLatest(R, e.id, j, k) /\ v.chunks[e.id] = R[j].chunks
    BY <1>1 DEF Tells
  <1>5. R[i].ver = x.ver /\ R[i].file = x.id
    BY <1>2, <1>3 DEF ViewOfRow
  <1>6. \A m \in 1 .. Len(R) : R[m] \in FileInfo
    BY <1>1
  <1>7. \A m \in 1 .. Len(R) : R[m].ver \in Nat
    BY <1>6 DEF FileInfo
  <1>8. /\ i \in 1 .. Len(R) /\ j \in 1 .. Len(R) /\ R[j].file = x.id /\ R[j].chunks # <<>>
        /\ j <= i
    BY <1>1, <1>2, <1>3, <1>4 DEF IsNewest, IsLatest
  <1>9. R[j].ver <= x.ver
    BY <1>1, <1>5, <1>7, <1>8 DEF VersionsGrow
  <1>10. ASSUME NEW m \in DOMAIN R, m > j, R[m].file = x.id, R[m].chunks # <<>>
         PROVE  R[m].ver > x.ver
    <2>1. m > k
      BY <1>1, <1>2, <1>4, <1>10 DEF IsLatest
    <2> QED
      BY <1>1, <1>5, <1>7, <1>8, <1>10, <2>1 DEF VersionsGrow
  <1>11. IsVersion(R, x, R[j].bytes, j)
    BY <1>8, <1>9, <1>10 DEF IsVersion
  <1> QED
    BY <1>1, <1>2, <1>4, <1>8, <1>11

LEMMA DownloadAskOrder ==
  ASSUME CloudInv, NEW h, OrderInv(h), NEW d \in Devices, DownloadAsk(d)
  PROVE  OrderInv(h)'
  <1> DEFINE x == db[d]
  <1>1. TypeInv /\ RowsBacked /\ ChunksUnique
    BY DEF CloudInv, StorageInv
  <1>2. /\ pc[d] = "idle" /\ queue[d] # <<>> /\ Head(queue[d]).op = "download"
        /\ queue'[d] = Tail(queue[d])
        /\ db' = db /\ disk' = disk /\ rows' = rows /\ store' = store /\ now' = now
    BY <1>1 DEF DownloadAsk, Take, Pop, TypeInv, TypeOK, server
  <1>3. LeavesOthers(d)
    BY <1>1 DEF DownloadAsk, Pop, Goto, TypeInv, TypeOK, LeavesOthers
  <1>4. OthersRest(d)
    BY <1>2, OneActsOthersRest DEF OrderInv, Resting
  <1>5. PICK c \in Command : Downloading(h, d, c)
    <2>1. Works(h, d) /\ queue[d] \in Seq(Command)
      BY <1>1, DeviceTypes DEF OrderInv
    <2>2. ~ Reading(h, d)
      BY <1>2, <2>1, OnlyReadsTail DEF Reading
    <2>3. \A c, t : ~ Writing(h, d, c, t)
      <3> SUFFICES ASSUME NEW c, NEW t, Writing(h, d, c, t) PROVE FALSE
        OBVIOUS
      <3>1. queue[d] = <<c>> \/ queue[d] = <<RefreshCmd, c>>
        BY DEF Writing
      <3> QED
        BY <1>2, <3>1, Doings
    <2> QED
      BY <1>2, <2>1, <2>2, <2>3 DEF Works, Sending, Saving
  <1>6. /\ queue[d] = <<c>> /\ Rests(now, rows, h, x, disk[d])
        /\ \E f \in x.files : f.id = c.file /\ f.path = c.path
    BY <1>5 DEF Downloading
  <1>7. queue'[d] = <<>> /\ Head(queue[d]) = c
    BY <1>2, <1>6, Doings
  <1> DEFINE ids == x.chunks[c.file]
  <1>8. CASE /\ CanGetChunk(store, ids)
             /\ info' = [info EXCEPT ![d] = [info[d] EXCEPT !.file = c.file, !.path = c.path,
                                               !.bytes = GetChunk(store, ids)]]
             /\ Goto(d, "save")
    <2>1. /\ x \in LocalDB /\ rows \in Seq(FileInfo) /\ info[d] \in FileInfo /\ info \in [Devices -> FileInfo]
          /\ pc \in [Devices -> States]
      BY <1>1, DeviceTypes DEF TypeInv, TypeOK
    <2>2. /\ info'[d].file = c.file /\ info'[d].path = c.path
          /\ info'[d].bytes = GetChunk(store, ids)
      BY <1>8, <2>1 DEF FileInfo
    <2>3. pc'[d] = "save"
      BY <1>8, <2>1 DEF Goto
    <2>4. PICK f \in x.files : f.id = c.file /\ f.path = c.path
      BY <1>6
    <2>5. PICK k \in 0 .. Len(rows) : View(x) = h[k]
      BY <1>6 DEF Rests, Shows
    <2>6. f \in LocalFile /\ ViewOfFile(f) \in h[k].files /\ h[k].chunks = x.chunks
      BY <2>1, <2>5, FilesInView
    <2>7. PICK i \in DOMAIN rows :
            IsVersion(rows, f, rows[i].bytes, i) /\ h[k].chunks[f.id] = rows[i].chunks
      BY <2>1, <2>6, ShownVersion DEF OrderInv
    <2>8. GetChunk(store, ids) = rows[i].bytes
      <3>1. rows[i] \in FileInfo /\ Backed(rows[i]) /\ ids = rows[i].chunks
        BY <1>1, <2>1, <2>4, <2>6, <2>7 DEF RowsBacked
      <3>2. Restored(store, rows[i]) = rows[i].bytes
        BY <1>1, <3>1, RestoredType
      <3> QED
        BY <1>8, <3>1, <3>2 DEF Restored
    <2>9. \E z \in x.files :
            /\ z.id = info'[d].file /\ z.path = info'[d].path
            /\ \E m \in DOMAIN rows : IsVersion(rows, z, info'[d].bytes, m)
      BY <2>2, <2>4, <2>7, <2>8
    <2>10. Saving(h, d)'
      BY <1>2, <1>6, <1>7, <2>3, <2>9 DEF Saving
    <2>11. Works(h, d)'
      BY <2>10 DEF Works
    <2> QED
      BY <1>2, <1>3, <1>4, <2>11, SameCloud
  <1>9. CASE UNCHANGED <<pc, info>>
    <2>1. Works(h, d)'
      BY <1>2, <1>6, <1>7, <1>9, RestsWorksNext
    <2> QED
      BY <1>2, <1>3, <1>4, <2>1, SameCloud
  <1> QED
    BY <1>7, <1>8, <1>9 DEF DownloadAsk

LEMMA FileDownloaded ==
  ASSUME NEW x \in LocalDB, UniqueIds(x), NEW f \in x.files, NEW y, y = DownloadFile(x, f.id)
  PROVE  /\ View(y) = View(x) /\ UniqueIds(y) /\ y.last = x.last
         /\ x.files \ {f} \subseteq y.files /\ Has(y, f.path)
  <1> DEFINE g == [id |-> f.id, path |-> f.path, ver |-> f.ver, down |-> TRUE, date |-> f.date]
             F == Update(x.files, f.id, LAMBDA z : [z EXCEPT !.down = TRUE])
  <1>1. f \in LocalFile
    BY FieldTypes
  <1>2. y \in LocalDB
    BY <1>1, DownloadFileType DEF LocalFile
  <1>3. g \in LocalFile /\ g.id = f.id /\ g.path = f.path /\ g.down /\ ViewOfFile(g) = ViewOfFile(f)
    BY <1>1 DEF LocalFile, ViewOfFile
  <1>4. [f EXCEPT !.down = TRUE] = g
    <2> DEFINE e == [f EXCEPT !.down = TRUE]
    <2>1. e \in LocalFile
      BY <1>1 DEF LocalFile
    <2>2. e.id = f.id /\ e.path = f.path /\ e.ver = f.ver /\ e.down = TRUE /\ e.date = f.date
      BY <1>1 DEF LocalFile
    <2> HIDE DEF e
    <2>3. e = g
      BY <2>1, <2>2 DEF LocalFile
    <2> QED
      BY <2>3, Zenon DEF e
  <1>5. F = (x.files \ {f}) \cup {g}
    <2>1. ASSUME NEW z \in x.files, z.id = f.id
          PROVE  [z EXCEPT !.down = TRUE] = g
      <3>1. z = f
        BY <2>1, UpdatesOne
      <3> QED
        BY <1>4, <3>1
    <2>2. F = {IF z.id = f.id THEN g ELSE z : z \in x.files}
      <3> HIDE DEF g
      <3> QED
        BY <2>1 DEF Update
    <2> HIDE DEF F, g
    <2> QED
      BY <2>2, UpdatesOne
  <1>6. y = DB(F, x.chunks, x.nextFile, x.nextChunk, x.last)
    BY DEF DownloadFile
  <1> HIDE DEF F, g
  <1>7. /\ y.files = (x.files \ {f}) \cup {g} /\ y.chunks = x.chunks
        /\ y.nextFile = x.nextFile /\ y.nextChunk = x.nextChunk /\ y.last = x.last
    BY <1>5, <1>6, DBFields
  <1>8. View(y).files = (View(x).files \ {ViewOfFile(f)}) \cup {ViewOfFile(f)} /\ UniqueIds(y)
    BY <1>2, <1>3, <1>7, Replaced
  <1>9. /\ View(x) \in Views /\ ViewOfFile(f) \in View(x).files
        /\ View(x).chunks = x.chunks /\ View(x).nextFile = x.nextFile
        /\ View(x).nextChunk = x.nextChunk
    BY ViewType, FilesInView
  <1>10. View(y).files = View(x).files
    BY <1>8, <1>9
  <1>11. View(y) = View(x)
    BY <1>2, <1>7, <1>9, <1>10, ViewIs
  <1> QED
    BY <1>3, <1>7, <1>8, <1>11 DEF Has

LEMMA DownloadSaveOrder ==
  ASSUME TypeInv, NEW h, OrderInv(h), NEW d \in Devices, DownloadSave(d)
  PROVE  OrderInv(h)'
  <1> DEFINE x == db[d]
             y == db'[d]
             p == info[d].path
             b == info[d].bytes
  <1>1. /\ pc[d] = "save" /\ pc'[d] = "idle" /\ y = DownloadFile(x, info[d].file)
        /\ queue' = queue /\ rows' = rows /\ store' = store /\ now' = now
        /\ LeavesOthers(d)
    BY DEF DownloadSave, Save, Goto, TypeInv, TypeOK, LeavesOthers, server
  <1>2. OthersRest(d)
    BY <1>1, OneActsOthersRest DEF OrderInv, Resting
  <1>3. x \in LocalDB /\ disk[d] \in [Paths -> DiskFile] /\ p \in Paths
    BY DeviceTypes DEF FileInfo
  <1>4. disk'[d] = [disk[d] EXCEPT ![p] = [bytes |-> b, mtime |-> now]]
    BY DEF DownloadSave, Save, TypeInv, TypeOK
  <1>5. disk'[d][p].bytes = b /\ \A q \in Paths : q # p => disk'[d][q] = disk[d][q]
    BY <1>3, <1>4
  <1>6. Saving(h, d)
    BY <1>1 DEF OrderInv, Works, Reading, Writing, Downloading, Sending
  <1>7. queue[d] = <<>> /\ Rests(now, rows, h, x, disk[d])
    BY <1>6 DEF Saving
  <1>8. PICK f \in x.files :
          /\ f.id = info[d].file /\ f.path = p
          /\ \E i \in DOMAIN rows : IsVersion(rows, f, b, i)
    BY <1>6 DEF Saving
  <1>9. InLog(rows, b)
    BY <1>8 DEF InLog, IsVersion
  <1>10. /\ View(y) = View(x) /\ UniqueIds(y) /\ y.last = x.last
         /\ x.files \ {f} \subseteq y.files /\ Has(y, p)
    <2>1. y = DownloadFile(x, f.id) /\ UniqueIds(x)
      BY <1>1, <1>7, <1>8 DEF Rests, Dated
    <2> HIDE DEF x, y, p
    <2>2. /\ View(y) = View(x) /\ UniqueIds(y) /\ y.last = x.last
          /\ x.files \ {f} \subseteq y.files /\ Has(y, f.path)
      BY <1>3, <2>1, FileDownloaded
    <2> QED
      BY <1>8, <2>2
  <1>11. ASSUME NEW q \in Paths
         PROVE  Kept(rows, y, disk'[d], q)
    <2>1. CASE q = p
      BY <1>5, <1>9, <1>10, <2>1 DEF Kept
    <2>2. CASE q # p
      <3>1. Kept(rows, x, disk[d], q) /\ disk'[d][q] = disk[d][q] /\ f.path # q
        BY <1>5, <1>7, <1>8, <2>2 DEF Rests
      <3> QED
        BY <1>10, <3>1, KeptWithout
    <2> QED
      BY <2>1, <2>2
  <1> HIDE DEF x, y
  <1>12. Rests(now, rows, h, y, disk'[d])
    BY <1>7, <1>10, <1>11 DEF Rests, Dated, Shows
  <1>13. Works(h, d)'
    <2>1. Rests(now', rows', h, db'[d], disk'[d]) /\ queue'[d] = <<>> /\ pc'[d] = "idle"
      BY <1>1, <1>7, <1>12 DEF y
    <2> QED
      BY <2>1, RestsWorksNext
  <1> QED
    BY <1>1, <1>2, <1>13, SameCloud

-------------------------------------------------------------------------------
(* The commands that write                                                  *)

LEMMA ReadsNoWrites ==
  ASSUME TypeInv, NEW h, OrderInv(h), NEW d \in Devices, NEW op, Take(d, op),
         op \in {"create", "modify", "rename"}
  PROVE  /\ OthersRest(d)
         /\ \E c \in Command, t \in Nat :
              /\ Writing(h, d, c, t) /\ queue[d] = <<c>> /\ t <= db[d].last
              /\ Head(queue[d]) = c /\ Tail(queue[d]) = <<>> /\ c.op = op
  <1>1. pc[d] = "idle" /\ queue[d] # <<>> /\ Head(queue[d]).op = op /\ queue[d] \in Seq(Command)
    BY DeviceTypes DEF Take
  <1>2. OthersRest(d)
    BY <1>1, OneActsOthersRest DEF OrderInv, Resting
  <1>3. ~ Reading(h, d)
    BY <1>1, OnlyReadsTail DEF Reading
  <1>4. \A c : ~ Downloading(h, d, c)
    BY <1>1, Doings DEF Downloading
  <1>5. PICK c \in Command, t \in Nat : Writing(h, d, c, t)
    BY <1>1, <1>3, <1>4 DEF OrderInv, Works, Sending, Saving
  <1>6. queue[d] = <<c>> /\ t <= db[d].last
    BY <1>1, <1>5, Doings DEF Writing
  <1> QED
    BY <1>1, <1>2, <1>5, <1>6, Doings

\* The command has changed the index and goes on to the servers.
LEMMA IndexedOrder ==
  ASSUME TypeInv, NEW h, OrderInv(h), NEW d \in Devices, OthersRest(d), pc[d] = "idle",
         NEW res, NEW at \in {"chunks", "meta"}, Indexed(d, res, at),
         Dated(now, res.db), UpTo(rows, res.db.last),
         res.info.date <= now, NewsToOthers(d, res.info.date),
         res.info.date <= res.db.last \/ res.info.chunks = <<>>,
         Leads(h[Len(rows)], res.info, View(res.db)),
         OnlyReads(Tail(queue[d]), disk[d]),
         Tail(queue[d]) = <<>> \/ Head(Tail(queue[d])).op = "refresh",
         \A p \in Paths : Exists(d, p) =>
           /\ Has(res.db, p)
           /\ InLog(rows, disk[d][p].bytes) \/ res.info.bytes = disk[d][p].bytes
  PROVE  OrderInv(h)'
  <1>1. /\ db'[d] = res.db /\ info'[d] = res.info /\ pc'[d] = at /\ queue'[d] = Tail(queue[d])
        /\ disk' = disk /\ rows' = rows /\ store' = store /\ now' = now
        /\ LeavesOthers(d)
    BY DEF Indexed, Goto, Pop, TypeInv, TypeOK, LeavesOthers, server
  <1>2. \A p : Exists(d, p)' => Exists(d, p)
    BY <1>1 DEF Exists
  <1>3. NewsToOthers(d, res.info.date)'
    BY <1>1 DEF NewsToOthers, LeavesOthers
  <1>4. Sending(h, d)'
    BY <1>1, <1>2, <1>3 DEF Sending
  <1>5. Works(h, d)'
    BY <1>4 DEF Works
  <1> QED
    BY <1>1, <1>5, SameCloud

\* A file whose path no other has, and which is on disk as far as the index knows.
LEMMA OnlyFile ==
  ASSUME NEW x \in LocalDB, GoodView(View(x)), NEW f \in x.files
  PROVE  \A z \in x.files : z.path = f.path => ViewOfFile(z) = ViewOfFile(f)
  BY FilesInView DEF GoodView

LEMMA OnlyFileDown ==
  ASSUME NEW x \in LocalDB, UniqueIds(x), GoodView(View(x)), NEW f \in x.files, Has(x, f.path)
  PROVE  f.down
  <1>1. PICK z \in x.files : z.path = f.path /\ z.down
    BY DEF Has
  <1>2. ViewOfFile(z) = ViewOfFile(f)
    BY <1>1, OnlyFile
  <1>3. z.id = f.id
    BY <1>2, FilesInView
  <1>4. z = f
    BY <1>3 DEF UniqueIds
  <1> QED
    BY <1>1, <1>4

LEMMA LastGood ==
  ASSUME TypeInv, NEW h, OrderInv(h)
  PROVE  /\ h[Len(rows)] \in Views /\ GoodView(h[Len(rows)])
         /\ UpTo(rows, now)
  <1>1. Len(rows) \in 0 .. Len(rows) /\ History(rows, h)
    BY DEF OrderInv, TypeInv, TypeOK
  <1> QED
    BY <1>1, AllSeen DEF OrderInv, History

LEMMA CreateBeginOrder ==
  ASSUME TypeInv, NEW h, OrderInv(h), NEW d \in Devices, CreateBegin(d)
  PROVE  OrderInv(h)'
  <1> DEFINE x == db[d]
             p == Head(queue[d]).path
             b == disk[d][p].bytes
             m == disk[d][p].mtime
             res == IndexCreated(x, p, b, m)
             v == h[Len(rows)]
  <1>1. PICK c \in Command, t \in Nat :
          /\ Writing(h, d, c, t) /\ queue[d] = <<c>> /\ t <= db[d].last
          /\ Head(queue[d]) = c /\ Tail(queue[d]) = <<>> /\ c.op = "create"
    BY ReadsNoWrites DEF CreateBegin
  <1>2. OthersRest(d) /\ pc[d] = "idle"
    BY ReadsNoWrites DEF CreateBegin, Take
  <1>3. Creating(c, t, rows, x, disk[d]) /\ c.path = p
    BY <1>1 DEF Writing, Modifying, Renaming
  <1>4. x \in LocalDB /\ disk[d] \in [Paths -> DiskFile] /\ p \in Paths /\ now \in Nat
    BY <1>3, DeviceTypes DEF Command
  <1>5. b # <<>> /\ m = t /\ ~ HasPath(x, p) /\ b \in Seq(Blocks)
    BY <1>3, <1>4 DEF Creating, DiskFile
  <1>6. Indexed(d, res, "chunks") /\ x.nextFile <= MaxFile
    BY <1>5 DEF CreateBegin, Exists
  <1>7. View(x) = v /\ UniqueIds(x)
    BY <1>1 DEF Writing, Dated
  <1>8. GoodView(v)
    BY LastGood
  <1> HIDE DEF x, p, b, m, v
  <1>9. \A f \in x.files : f.path # p
    BY <1>5 DEF HasPath
  <1>10. /\ Leads(View(x), res.info, View(res.db)) /\ UniqueIds(res.db) /\ res.db.last = x.last
         /\ x.files \subseteq res.db.files /\ \E f \in res.db.files : f.path = p /\ f.down
         /\ res.info.bytes = b /\ res.info.date = m
    <2> DEFINE y == res.db
               r == res.info
    <2>1. y = IndexCreated(x, p, b, m).db /\ r = IndexCreated(x, p, b, m).info
      OBVIOUS
    <2>2. GoodView(View(x)) /\ m \in Nat
      BY <1>4, <1>5, <1>7, <1>8
    <2> HIDE DEF y, r
    <2>3. /\ Leads(View(x), r, View(y)) /\ UniqueIds(y) /\ y.last = x.last
          /\ x.files \subseteq y.files /\ \E f \in y.files : f.path = p /\ f.down
          /\ r.bytes = b /\ r.date = m
      BY <1>4, <1>5, <1>6, <1>7, <1>9, <2>1, <2>2, CreateLeads
    <2> QED
      BY <2>3 DEF y, r
  <1> HIDE DEF res
  <1>11. ASSUME NEW q \in Paths, Exists(d, q)
         PROVE  /\ Has(res.db, q)
                /\ InLog(rows, disk[d][q].bytes) \/ res.info.bytes = disk[d][q].bytes
    <2>1. CASE q = p
      BY <1>10, <2>1 DEF Has, b
    <2>2. CASE q # p
      <3>1. Has(x, q) /\ InLog(rows, disk[d][q].bytes)
        BY <1>3, <1>11, <2>2 DEF Creating, Kept, Exists, x, p
      <3> QED
        BY <1>10, <3>1 DEF Has
    <2> QED
      BY <2>1, <2>2
  <1>12. OnlyReads(Tail(queue[d]), disk[d])
    BY <1>1 DEF OnlyReads
  <1>13. /\ Dated(now, res.db) /\ UpTo(rows, res.db.last)
         /\ res.info.date <= now /\ NewsToOthers(d, res.info.date)
         /\ res.info.date <= res.db.last
    BY <1>1, <1>5, <1>10 DEF x, Writing, Dated
  <1>14. Leads(v, res.info, View(res.db))
    BY <1>7, <1>10
  <1> QED
    BY <1>1, <1>2, <1>6, <1>11, <1>12, <1>13, <1>14, IndexedOrder DEF v

LEMMA ModifyBeginOrder ==
  ASSUME TypeInv, NEW h, OrderInv(h), NEW d \in Devices, ModifyBegin(d)
  PROVE  OrderInv(h)'
  <1> DEFINE x == db[d]
             p == Head(queue[d]).path
             b == disk[d][p].bytes
             m == disk[d][p].mtime
             v == h[Len(rows)]
  <1>1. PICK c \in Command, t \in Nat :
          /\ Writing(h, d, c, t) /\ queue[d] = <<c>> /\ t <= db[d].last
          /\ Head(queue[d]) = c /\ Tail(queue[d]) = <<>> /\ c.op = "modify"
    BY ReadsNoWrites DEF ModifyBegin
  <1>2. OthersRest(d) /\ pc[d] = "idle"
    BY ReadsNoWrites DEF ModifyBegin, Take
  <1>3. Modifying(c, t, rows, x, disk[d]) /\ c.path = p
    BY <1>1 DEF Writing, Creating, Renaming
  <1>4. x \in LocalDB /\ disk[d] \in [Paths -> DiskFile] /\ p \in Paths /\ now \in Nat
    BY <1>3, DeviceTypes DEF Command
  <1>5. b # <<>> /\ m = t /\ Has(x, p) /\ b \in Seq(Blocks)
    BY <1>3, <1>4 DEF Modifying, DiskFile
  <1>6. PICK f \in GetFile(x, p) : Indexed(d, IndexModified(x, f, b, m), "chunks")
    BY <1>5 DEF ModifyBegin, Exists, Has, HasPath
  <1> DEFINE res == IndexModified(x, f, b, m)
  <1>7. View(x) = v /\ UniqueIds(x)
    BY <1>1 DEF Writing, Dated
  <1>8. GoodView(v)
    BY LastGood
  <1> HIDE DEF x, p, b, m, v
  <1>9. f \in x.files /\ f.path = p
    BY DEF GetFile
  <1>10. f.down
    BY <1>4, <1>5, <1>7, <1>8, <1>9, OnlyFileDown
  <1>11. /\ Leads(View(x), res.info, View(res.db)) /\ UniqueIds(res.db) /\ res.db.last = x.last
         /\ \E g : res.db.files = (x.files \ {f}) \cup {g} /\ g.path = f.path /\ g.down = f.down
         /\ res.info.bytes = b /\ res.info.date = m
    <2> DEFINE y == res.db
               r == res.info
    <2>1. y = IndexModified(x, f, b, m).db /\ r = IndexModified(x, f, b, m).info
      OBVIOUS
    <2>2. GoodView(View(x)) /\ m \in Nat
      BY <1>4, <1>5, <1>7, <1>8
    <2> HIDE DEF y, r
    <2>3. /\ Leads(View(x), r, View(y)) /\ UniqueIds(y) /\ y.last = x.last
          /\ \E g : y.files = (x.files \ {f}) \cup {g} /\ g.path = f.path /\ g.down = f.down
          /\ r.bytes = b /\ r.date = m
      BY <1>4, <1>5, <1>7, <1>9, <2>1, <2>2, ModifyLeads
    <2> QED
      BY <2>3 DEF y, r
  <1> HIDE DEF res
  <1>12. ASSUME NEW q \in Paths, Exists(d, q)
         PROVE  /\ Has(res.db, q)
                /\ InLog(rows, disk[d][q].bytes) \/ res.info.bytes = disk[d][q].bytes
    <2>1. CASE q = p
      BY <1>9, <1>10, <1>11, <2>1 DEF Has, b
    <2>2. CASE q # p
      <3>1. Has(x, q) /\ InLog(rows, disk[d][q].bytes)
        BY <1>3, <1>12, <2>2 DEF Modifying, Kept, Exists, x, p
      <3> QED
        BY <1>9, <1>11, <2>2, <3>1 DEF Has
    <2> QED
      BY <2>1, <2>2
  <1>13. OnlyReads(Tail(queue[d]), disk[d])
    BY <1>1 DEF OnlyReads
  <1>14. /\ Dated(now, res.db) /\ UpTo(rows, res.db.last)
         /\ res.info.date <= now /\ NewsToOthers(d, res.info.date)
         /\ res.info.date <= res.db.last
    BY <1>1, <1>5, <1>11 DEF x, Writing, Dated
  <1>15. Leads(v, res.info, View(res.db))
    BY <1>7, <1>11
  <1>16. Indexed(d, res, "chunks")
    BY <1>6 DEF res
  <1> QED
    BY <1>1, <1>2, <1>12, <1>13, <1>14, <1>15, <1>16, IndexedOrder DEF v

LEMMA NoChunksWritten ==
  ASSUME NEW x, NEW f, NEW p, NEW t
  PROVE  /\ IndexRenamed(x, f, p, t).info.chunks = <<>>
         /\ IndexDeleted(x, f, t).info.chunks = <<>>
  BY DEF IndexRenamed, IndexDeleted, NewInfo

LEMMA RenameBeginOrder ==
  ASSUME TypeInv, NEW h, OrderInv(h), NEW d \in Devices, RenameBegin(d)
  PROVE  OrderInv(h)'
  <1> DEFINE x == db[d]
             p == Head(queue[d]).path
             t == Head(queue[d]).to
             v == h[Len(rows)]
  <1>1. PICK c \in Command, m \in Nat :
          /\ Writing(h, d, c, m) /\ queue[d] = <<c>> /\ m <= db[d].last
          /\ Head(queue[d]) = c /\ Tail(queue[d]) = <<>> /\ c.op = "rename"
    BY ReadsNoWrites DEF RenameBegin
  <1>2. OthersRest(d) /\ pc[d] = "idle"
    BY ReadsNoWrites DEF RenameBegin, Take
  <1>3. Renaming(c, rows, x, disk[d]) /\ c.path = p /\ c.to = t
    BY <1>1 DEF Writing, Creating, Modifying
  <1>4. x \in LocalDB /\ p \in Paths /\ t \in Paths /\ now \in Nat
    BY <1>3, DeviceTypes DEF Command
  <1>5. Has(x, p) /\ ~ HasPath(x, t) /\ disk[d][p].bytes = <<>> /\ InLog(rows, disk[d][t].bytes)
    BY <1>3 DEF Renaming
  <1>6. PICK f \in GetFile(x, p) : Indexed(d, IndexRenamed(x, f, t, now), "meta")
    BY <1>5 DEF RenameBegin, Has, HasPath
  <1> DEFINE res == IndexRenamed(x, f, t, now)
  <1>7. View(x) = v /\ UniqueIds(x)
    BY <1>1 DEF Writing, Dated
  <1>8. GoodView(v)
    BY LastGood
  <1> HIDE DEF x, p, t, v
  <1>9. f \in x.files /\ f.path = p
    BY DEF GetFile
  <1>10. f.down
    BY <1>4, <1>5, <1>7, <1>8, <1>9, OnlyFileDown
  <1>11. \A z \in x.files : z.path # t
    BY <1>5 DEF HasPath
  <1>12. /\ Leads(View(x), res.info, View(res.db)) /\ UniqueIds(res.db) /\ res.db.last = x.last
         /\ \E g : res.db.files = (x.files \ {f}) \cup {g} /\ g.path = t /\ g.down = f.down
         /\ res.info.date = now /\ res.info.chunks = <<>>
    <2> DEFINE y == res.db
               r == res.info
    <2>1. y = IndexRenamed(x, f, t, now).db /\ r = IndexRenamed(x, f, t, now).info
      OBVIOUS
    <2>2. GoodView(View(x))
      BY <1>7, <1>8
    <2> HIDE DEF y, r
    <2>3. /\ Leads(View(x), r, View(y)) /\ UniqueIds(y) /\ y.last = x.last
          /\ \E g : y.files = (x.files \ {f}) \cup {g} /\ g.path = t /\ g.down = f.down
          /\ r.date = now
      BY <1>4, <1>7, <1>9, <1>11, <2>1, <2>2, RenameLeads
    <2>4. r.chunks = <<>>
      BY <2>1, NoChunksWritten
    <2> QED
      BY <2>3, <2>4 DEF y, r
  <1> HIDE DEF res
  <1>13. ASSUME NEW q \in Paths, Exists(d, q)
         PROVE  /\ Has(res.db, q)
                /\ InLog(rows, disk[d][q].bytes) \/ res.info.bytes = disk[d][q].bytes
    <2>1. CASE q = t
      BY <1>5, <1>10, <1>12, <2>1 DEF Has
    <2>2. CASE q # t
      <3>1. Has(x, q) /\ InLog(rows, disk[d][q].bytes)
        BY <1>3, <1>13, <2>2 DEF Renaming, Kept, Exists, x, t
      <3>2. q # p
        BY <1>5, <1>13 DEF Exists
      <3> QED
        BY <1>9, <1>12, <3>1, <3>2 DEF Has
    <2> QED
      BY <2>1, <2>2
  <1>14. OnlyReads(Tail(queue[d]), disk[d])
    BY <1>1 DEF OnlyReads
  <1>15. /\ Dated(now, res.db) /\ UpTo(rows, res.db.last)
         /\ res.info.date <= now /\ NewsToOthers(d, res.info.date)
    BY <1>1, <1>2, <1>4, <1>12 DEF x, Writing, Dated, NewsToOthers, OthersRest
  <1>17. Leads(v, res.info, View(res.db))
    BY <1>7, <1>12
  <1>16. Indexed(d, res, "meta")
    BY <1>6 DEF res
  <1> QED
    BY <1>1, <1>2, <1>12, <1>13, <1>14, <1>15, <1>16, <1>17, IndexedOrder DEF v

LEMMA ShowsAll ==
  ASSUME TypeInv, NEW h, NEW x
  PROVE  /\ Shows(rows, h, x, DOMAIN rows) => View(x) = h[Len(rows)]
         /\ View(x) = h[Len(rows)] => Shows(rows, h, x, DOMAIN rows)
  <1> DEFINE n == Len(rows)
  <1>1. n \in Nat /\ DOMAIN rows = 1 .. n
    BY DEF TypeInv, TypeOK
  <1> HIDE DEF n
  <1>2. ASSUME NEW k \in 0 .. n, 1 .. n = 1 .. k
        PROVE  k = n
    <2>1. CASE k < n
      <3>1. n \in 1 .. n /\ n \notin 1 .. k
        BY <1>1, <2>1
      <3> QED
        BY <1>2, <3>1
    <2> QED
      BY <1>1, <2>1
  <1>3. n \in 0 .. n
    BY <1>1
  <1>6. ASSUME NEW k \in 0 .. n, k > 0
        PROVE  1 .. n # 1 .. k - 1
    BY <1>1, <1>6
  <1>4. Shows(rows, h, x, 1 .. n) <=> \E k \in 0 .. n : 1 .. n = 1 .. k /\ View(x) = h[k]
    BY <1>6 DEF Shows, n
  <1>5. Shows(rows, h, x, 1 .. n) <=> View(x) = h[n]
    BY <1>2, <1>3, <1>4
  <1> QED
    BY <1>1, <1>5 DEF n

LEMMA DeleteBeginOrder ==
  ASSUME TypeInv, NEW h, OrderInv(h), NEW d \in Devices, DeleteBegin(d)
  PROVE  OrderInv(h)'
  <1> DEFINE x == db[d]
             p == Head(queue[d]).path
             v == h[Len(rows)]
  <1>1. /\ pc[d] = "idle" /\ queue[d] # <<>> /\ Head(queue[d]).op = "delete"
        /\ queue[d] \in Seq(Command)
    BY DeviceTypes DEF DeleteBegin, Take
  <1>2. OthersRest(d)
    BY <1>1, OneActsOthersRest DEF OrderInv, Resting
  <1>3. Reading(h, d)
    <2>1. \A c : ~ Downloading(h, d, c)
      BY <1>1, Doings DEF Downloading
    <2>2. \A c, t : ~ Writing(h, d, c, t)
      <3> SUFFICES ASSUME NEW c, NEW t, Writing(h, d, c, t) PROVE FALSE
        OBVIOUS
      <3>1. queue[d] = <<c>> \/ queue[d] = <<RefreshCmd, c>>
        BY DEF Writing
      <3> QED
        BY <1>1, <3>1, Doings
    <2> QED
      BY <1>1, <2>1, <2>2 DEF OrderInv, Works, Sending, Saving
  <1>4. /\ Dated(now, x) /\ UpTo(rows, x.last) /\ Shows(rows, h, x, SeenBy(rows, x.last))
        /\ \A q \in Paths : Kept(rows, x, disk[d], q)
    BY <1>1, <1>3 DEF Reading
  <1>5. /\ OnlyReads(Tail(queue[d]), disk[d]) /\ disk[d][p].bytes = <<>>
        /\ Tail(queue[d]) = <<>> \/ Head(Tail(queue[d])).op = "refresh"
    BY <1>1, <1>3, OnlyReadsTail DEF Reading
  <1>6. GoodView(v)
    BY LastGood
  <1>7. View(x) = v /\ UniqueIds(x)
    BY <1>4, ShowsAll DEF Dated, UpTo
  <1>8. x \in LocalDB /\ now \in Nat
    BY DeviceTypes
  <1>9. CASE Abort(d)
    <2>1. /\ pc'[d] = "idle" /\ queue'[d] = <<>>
          /\ db' = db /\ disk' = disk /\ rows' = rows /\ store' = store /\ now' = now
          /\ LeavesOthers(d)
      BY <1>9 DEF Abort, Restart, Goto, TypeInv, TypeOK, LeavesOthers, server
    <2>2. Rests(now, rows, h, x, disk[d])
      BY <1>4 DEF Rests
    <2>3. Works(h, d)'
      BY <2>1, <2>2, RestsWorksNext
    <2> QED
      BY <1>1, <1>2, <2>1, <2>3, SameCloud
  <1>10. ASSUME NEW f \in GetFile(x, p), Indexed(d, IndexDeleted(x, f, now), "meta")
         PROVE  OrderInv(h)'
    <2> DEFINE res == IndexDeleted(x, f, now)
    <2>1. f \in x.files /\ f.path = p
      BY DEF GetFile
    <2> HIDE DEF x, p, v
    <2>2. /\ Leads(View(x), res.info, View(res.db)) /\ UniqueIds(res.db) /\ res.db.last = x.last
          /\ res.db.files = x.files \ {f}
          /\ res.info.date = now /\ res.info.chunks = <<>>
      <3> DEFINE y == res.db
                 r == res.info
      <3>1. y = IndexDeleted(x, f, now).db /\ r = IndexDeleted(x, f, now).info
        OBVIOUS
      <3>2. GoodView(View(x))
        BY <1>6, <1>7
      <3> HIDE DEF y, r
      <3>3. /\ Leads(View(x), r, View(y)) /\ UniqueIds(y) /\ y.last = x.last
            /\ y.files = x.files \ {f} /\ r.date = now
        BY <1>7, <1>8, <2>1, <3>1, <3>2, DeleteLeads
      <3>4. r.chunks = <<>>
        BY <3>1, NoChunksWritten
      <3> QED
        BY <3>3, <3>4 DEF y, r
    <2> HIDE DEF res
    <2>3. ASSUME NEW q \in Paths, Exists(d, q)
          PROVE  /\ Has(res.db, q)
                 /\ InLog(rows, disk[d][q].bytes) \/ res.info.bytes = disk[d][q].bytes
      <3>1. Has(x, q) /\ InLog(rows, disk[d][q].bytes)
        BY <1>4, <2>3 DEF Kept, Exists
      <3>2. q # p
        BY <1>5, <2>3 DEF Exists
      <3> QED
        BY <2>1, <2>2, <3>1, <3>2 DEF Has
    <2>4. /\ Dated(now, res.db) /\ UpTo(rows, res.db.last)
          /\ res.info.date <= now /\ NewsToOthers(d, res.info.date)
      BY <1>2, <1>4, <1>8, <2>2 DEF x, Dated, NewsToOthers, OthersRest
    <2>6. Leads(v, res.info, View(res.db))
      BY <1>7, <2>2
    <2>5. Indexed(d, res, "meta")
      BY <1>10 DEF res
    <2> QED
      BY <1>1, <1>2, <1>5, <2>2, <2>3, <2>4, <2>5, <2>6, IndexedOrder DEF v
  <1> QED
    BY <1>9, <1>10 DEF DeleteBegin

-------------------------------------------------------------------------------
(* The uploads                                                              *)

\* The ids of a command's chunks are the next ones.
LEMMA NextIds ==
  ASSUME NEW v \in Views, NEW r \in FileInfo, NEW w, Leads(v, r, w)
  PROVE  /\ DOMAIN r.chunks = 1 .. Len(r.chunks)
         /\ \A k \in DOMAIN r.chunks : r.chunks[k] >= v.nextChunk /\ r.chunks[k] < w.nextChunk
         /\ v.nextChunk <= w.nextChunk
  <1>1. Len(r.chunks) \in Nat /\ v.nextChunk \in Nat /\ DOMAIN r.chunks = 1 .. Len(r.chunks)
    BY RowFields, ViewFields
  <1>2. /\ r.chunks = [k \in 1 .. Len(r.chunks) |-> v.nextChunk + k - 1]
        /\ w.nextChunk = v.nextChunk + Len(r.chunks)
    BY DEF Leads
  <1>3. \A k \in 1 .. Len(r.chunks) : r.chunks[k] = v.nextChunk + k - 1
    BY <1>2
  <1> QED
    BY <1>1, <1>2, <1>3

LEMMA UploadChunksOrder ==
  ASSUME TypeInv, "net" \notin Faults, NEW h, OrderInv(h), NEW d \in Devices, UploadChunks(d)
  PROVE  OrderInv(h)'
  <1> DEFINE r == info[d]
             v == h[Len(rows)]
             w == View(db[d])
  <1>1. /\ pc[d] = "chunks"
        /\ db' = db /\ disk' = disk /\ queue' = queue /\ rows' = rows /\ now' = now /\ info' = info
    BY DEF UploadChunks, local
  <1>2. OthersRest(d)
    BY <1>1, OneActsOthersRest DEF OrderInv, Resting
  <1>3. Sending(h, d)
    BY <1>1 DEF OrderInv, Works, Reading, Writing, Downloading, Saving
  <1>4. v \in Views /\ r \in FileInfo /\ db[d] \in LocalDB /\ w.nextChunk = db[d].nextChunk
    BY LastGood, DeviceTypes, FilesInView
  <1>5. Leads(v, r, w)
    BY <1>3 DEF Sending
  <1> HIDE DEF r, v, w
  <1>6. /\ DOMAIN r.chunks = 1 .. Len(r.chunks)
        /\ \A k \in DOMAIN r.chunks : r.chunks[k] >= v.nextChunk /\ r.chunks[k] < w.nextChunk
    BY <1>4, <1>5, NextIds
  <1>7. \A c \in store : c.id < v.nextChunk /\ c.id \in Nat
    <2>1. \A e \in Devices : pc[e] # "meta"
      BY <1>1, <1>2 DEF OthersRest, Resting
    <2>2. \A c \in store : c.id \in Nat
      BY DEF TypeInv, TypeOK, ChunkDoc
    <2> QED
      BY <2>1, <2>2 DEF OrderInv, ChunksNew, v
  <1>8. AllAreNew(store, r.chunks)
    <2>1. \A k \in DOMAIN r.chunks : r.chunks[k] \in Nat
      BY <1>4, RowFields
    <2>2. v.nextChunk \in Nat
      BY <1>4, ViewFields
    <2> QED
      BY <1>6, <1>7, <2>1, <2>2 DEF AllAreNew, HasChunk
  <1>9. store' = store \cup ChunkDocs(r.chunks, r.bytes, Len(r.chunks)) /\ Goto(d, "meta")
    BY <1>8 DEF UploadChunks, UploadFails, r
  <1>10. pc'[d] = "meta" /\ LeavesOthers(d)
    BY <1>1, <1>9 DEF Goto, TypeInv, TypeOK, LeavesOthers
  <1>11. Works(h, d)'
    <2>1. \A p \in Paths : Exists(d, p)' => Exists(d, p)
      BY <1>1 DEF Exists
    <2>2. Sending(h, d)'
      BY <1>1, <1>3, <1>10, <2>1 DEF Sending, NewsToOthers
    <2> QED
      BY <2>2 DEF Works
  <1>12. OneActs' /\ \A e \in Devices : Works(h, e)'
    <2>1. \A e \in Devices : Rests(now, rows, h, db[e], disk[e]) => Rests(now, rows', h, db[e], disk[e])
      BY <1>1
    <2> QED
      BY <1>1, <1>2, <1>10, <1>11, <2>1, OneWorks DEF OrderInv
  <1>13. ChunksNew(h)'
    <2>1. \A c \in ChunkDocs(r.chunks, r.bytes, Len(r.chunks)) : c.id < db[d].nextChunk
      BY <1>4, <1>6 DEF ChunkDocs
    <2> QED
      BY <1>1, <1>7, <1>9, <1>10, <2>1 DEF ChunksNew, v
  <1>14. RowDates' /\ History(rows', h)
    BY <1>1 DEF OrderInv, RowDates
  <1> QED
    BY <1>12, <1>13, <1>14 DEF OrderInv

LEMMA UploadMetaOrder ==
  ASSUME TypeInv, "net" \notin Faults, NEW h, OrderInv(h), NEW d \in Devices, UploadMeta(d)
  PROVE  \E g : OrderInv(g)'
  <1> DEFINE r == info[d]
             n == Len(rows)
             x == db[d]
             w == View(x)
             S == InsertFile(rows, r)
  <1>1. /\ pc[d] = "meta" /\ rows' = S /\ pc'[d] = "idle"
        /\ db' = db /\ disk' = disk /\ queue' = queue /\ store' = store /\ now' = now
        /\ LeavesOthers(d)
    BY DEF UploadMeta, Goto, local, TypeInv, TypeOK, LeavesOthers
  <1>2. OthersRest(d)
    BY <1>1, OneActsOthersRest DEF OrderInv, Resting
  <1>3. Sending(h, d)
    BY <1>1 DEF OrderInv, Works, Reading, Writing, Downloading, Saving
  <1>4. /\ rows \in Seq(FileInfo) /\ r \in FileInfo /\ x \in LocalDB /\ w \in Views
        /\ n \in Nat /\ now \in Nat /\ \A e \in Devices : db[e] \in LocalDB
        /\ w.nextChunk = x.nextChunk /\ h[n] \in Views
    BY LastGood, DeviceTypes, ViewType, FilesInView
  <1>5. /\ Dated(now, x) /\ SeenBy(rows, x.last) = DOMAIN rows
        /\ r.date <= now /\ \A e \in Devices : e # d => db[e].last < r.date
        /\ r.date <= x.last \/ r.chunks = <<>>
        /\ Leads(h[n], r, w) /\ History(rows, h)
    BY <1>3 DEF Sending, OrderInv, UpTo, NewsToOthers
  <1> HIDE DEF r, n, x, w
  <1>0. PICK g : g = Longer(rows, h, w)
    OBVIOUS
  <1>6. History(S, g) /\ g[n + 1] = w
    BY <1>0, <1>4, <1>5, HistoryGoesOn DEF n
  <1>7. Len(S) = n + 1 /\ DOMAIN S = 1 .. n + 1 /\ DOMAIN rows = 1 .. n /\ S[n + 1] = r
        /\ \A i \in 1 .. n : S[i].date = rows[i].date
    BY <1>4, Inserted DEF n
  <1>8. \/ SeenBy(S, x.last) = 1 .. n + 1
        \/ SeenBy(S, x.last) = 1 .. n /\ r.chunks = <<>>
    <2>1. x.last \in Nat /\ r.date \in Nat
      BY <1>4, FieldTypes, RowFields
    <2>2. CASE r.date <= x.last
      BY <1>4, <1>5, <1>7, <2>1, <2>2, SeenByNext
    <2>3. CASE x.last < r.date /\ r.chunks = <<>>
      BY <1>4, <1>5, <1>7, <2>1, <2>3, SeenByNext
    <2> QED
      BY <1>5, <2>1, <2>2, <2>3
  <1>9. \A b : (InLog(rows, b) => InLog(S, b)) /\ InLog(S, r.bytes)
    BY <1>4, InLogNext
  <1>10. ASSUME NEW e \in Devices, e # d, Rests(now, rows, h, db[e], disk[e])
         PROVE  Rests(now, S, g, db[e], disk[e])
    <2>1. Leads(h[Len(rows)], r, w) /\ db[e].last < r.date /\ db[e] \in LocalDB
      BY <1>4, <1>5, <1>10 DEF n
    <2> QED
      BY <1>0, <1>4, <1>5, <1>10, <2>1, RestsOn
  <1> HIDE DEF S
  <1>11. Works(g, d)'
    <2>1. Dated(now, x)
      BY <1>5
    <2>2. \A p \in Paths : Kept(S, x, disk[d], p)
      BY <1>3, <1>9 DEF Sending, Kept, Exists, x, r
    <2>3. Shows(S, g, x, SeenBy(S, x.last))
      <3>1. n + 1 \in 0 .. Len(S) /\ n + 1 > 0 /\ (n + 1) - 1 = n /\ S[n + 1].chunks = r.chunks
        BY <1>4, <1>7
      <3> QED
        BY <1>6, <1>8, <3>1 DEF Shows, w
    <2>4. OnlyReads(queue[d], disk[d]) /\ (queue[d] = <<>> \/ Head(queue[d]).op = "refresh")
      BY <1>3 DEF Sending
    <2>5. Reading(g, d)'
      BY <1>1, <2>1, <2>2, <2>3, <2>4 DEF Reading, x
    <2> QED
      BY <2>5 DEF Works
  <1>12. OneActs' /\ \A e \in Devices : Works(g, e)'
    <2>1. \A e \in Devices : e # d /\ Rests(now, rows, h, db[e], disk[e])
                               => Rests(now, rows', g, db[e], disk[e])
      BY <1>1, <1>10
    <2> QED
      BY <1>1, <1>2, <1>11, <2>1, OneWorks DEF OrderInv
  <1>13. RowDates'
    BY <1>1, <1>4, <1>5, <1>7 DEF RowDates, OrderInv
  <1>14. ChunksNew(g)'
    <2> SUFFICES ASSUME NEW c \in store PROVE c.id < g[n + 1].nextChunk
      BY <1>1, <1>7 DEF ChunksNew
    <2>1. h[n].nextChunk <= w.nextChunk
      BY <1>4, <1>5, NextIds
    <2>2. c.id < h[n].nextChunk \/ c.id < x.nextChunk
      <3>1. \A e \in Devices : e # d => pc[e] # "meta"
        BY <1>2 DEF OthersRest, Resting
      <3> QED
        BY <3>1 DEF OrderInv, ChunksNew, n, x
    <2>3. c.id \in Nat /\ h[n].nextChunk \in Nat /\ w.nextChunk \in Nat
      BY <1>4, ViewFields DEF TypeInv, TypeOK, ChunkDoc
    <2> QED
      BY <1>4, <1>6, <2>1, <2>2, <2>3
  <1>15. OrderInv(g)'
    BY <1>1, <1>6, <1>12, <1>13, <1>14 DEF OrderInv
  <1> QED
    BY <1>15

-------------------------------------------------------------------------------
(* The user                                                                 *)

LEMMA TurnFacts ==
  ASSUME TypeInv, NEW h, OrderInv(h), NEW d \in Devices, Turn(d)
  PROVE  /\ pc[d] = "idle" /\ queue[d] = <<>> /\ OthersRest(d)
         /\ Rests(now, rows, h, db[d], disk[d])
         /\ Fresh(d) => /\ UpTo(rows, db[d].last)
                        /\ View(db[d]) = h[Len(rows)]
  <1>1. Resting(d) /\ OthersRest(d)
    BY OneActsOthersRest DEF OrderInv, Turn, Quiet, Resting
  <1>2. Rests(now, rows, h, db[d], disk[d])
    BY <1>1, RestingRests DEF OrderInv
  <1>3. Fresh(d) => UpTo(rows, db[d].last)
    BY DEF Fresh, SeenBy, UpTo
  <1>4. Fresh(d) => View(db[d]) = h[Len(rows)]
    BY <1>2, <1>3, ShowsAll DEF Rests, UpTo
  <1> QED
    BY <1>1, <1>2, <1>3, <1>4 DEF Resting

\* The watcher has queued two commands for what the user did.
LEMMA Notified ==
  ASSUME TypeInv, NEW d \in Devices, queue[d] = <<>>, NEW c \in Command, Notify(d, c)
  PROVE  /\ queue'[d] = <<RefreshCmd, c>>
         /\ \A e \in Devices : e # d => queue'[e] = queue[e]
  <1>1. <<>> \o <<RefreshCmd, c>> = <<RefreshCmd, c>>
    BY RefreshCmdType
  <1> QED
    BY <1>1 DEF Notify, TypeInv, TypeOK

LEMMA UserStepLeaves ==
  ASSUME NEW d \in Devices, UserStep(d)
  PROVE  now' = now /\ rows' = rows /\ store' = store /\ db' = db /\ pc' = pc
  BY DEF UserStep, server

\* What the folder holds at other paths stays known.
LEMMA UserSaves ==
  ASSUME TypeInv, NEW d \in Devices, NEW p \in Paths, NEW b, Save(d, p, b)
  PROVE  /\ disk'[d][p].bytes = b /\ disk'[d][p].mtime = now
         /\ \A q \in Paths : q # p => disk'[d][q] = disk[d][q]
         /\ \A e \in Devices : e # d => disk'[e] = disk[e]
  BY DEF Save, TypeInv, TypeOK

LEMMA UserWritesOne ==
  ASSUME TypeInv, NEW h, OrderInv(h), NEW d \in Devices, Turn(d), Fresh(d), UserStep(d),
         NEW c \in Command, Notify(d, c),
         \A e \in Devices : e # d => disk'[e] = disk[e],
         \/ Creating(c, now, rows, db[d], disk'[d])
         \/ Modifying(c, now, rows, db[d], disk'[d])
         \/ Renaming(c, rows, db[d], disk'[d])
  PROVE  OrderInv(h)'
  <1>1. /\ pc[d] = "idle" /\ queue[d] = <<>> /\ OthersRest(d)
        /\ Rests(now, rows, h, db[d], disk[d])
        /\ UpTo(rows, db[d].last) /\ View(db[d]) = h[Len(rows)]
    BY TurnFacts
  <1>2. now' = now /\ rows' = rows /\ store' = store /\ db' = db /\ pc' = pc
    BY UserStepLeaves
  <1>3. queue'[d] = <<RefreshCmd, c>> /\ LeavesOthers(d)
    BY <1>1, <1>2, Notified DEF LeavesOthers
  <1>4. Dated(now, db[d])
    BY <1>1 DEF Rests
  <1>7. PICK t : t = now
    OBVIOUS
  <1>8. t \in Nat /\ t <= now /\ NewsToOthers(d, t)
    BY <1>1, <1>7, DeviceTypes DEF OthersRest, NewsToOthers
  <1>5. Writing(h, d, c, t)'
    BY <1>1, <1>2, <1>3, <1>4, <1>7, <1>8 DEF Writing, NewsToOthers
  <1>6. Works(h, d)'
    BY <1>5, <1>8 DEF Works
  <1> QED
    BY <1>1, <1>2, <1>3, <1>6, SameCloud

LEMMA UserCreateOrder ==
  ASSUME TypeInv, NEW h, OrderInv(h), NEW d \in Devices, Turn(d), Fresh(d), NewNames(d),
         NEW p \in Paths, NEW b \in Contents, UserCreate(d, p, b)
  PROVE  OrderInv(h)'
  <1> DEFINE c == Cmd("create", p, p, AnyFile, "user")
  <1>1. ~ Exists(d, p) /\ Save(d, p, b) /\ Notify(d, c) /\ UserStep(d)
    BY DEF UserCreate
  <1>2. c \in Command /\ c.op = "create" /\ c.path = p
    BY CmdType, FileIdsType DEF Ops, Cmd
  <1>3. b # <<>>
    BY ContentsAssumption
  <1>4. /\ disk'[d][p].bytes = b /\ disk'[d][p].mtime = now
        /\ \A q \in Paths : q # p => disk'[d][q] = disk[d][q]
        /\ \A e \in Devices : e # d => disk'[e] = disk[e]
    BY <1>1, UserSaves
  <1>5. ~ HasPath(db[d], p)
    BY <1>1, <1>3, <1>4 DEF NewNames, Exists
  <1>6. \A q \in Paths : Kept(rows, db[d], disk[d], q)
    BY TurnFacts DEF Rests
  <1> HIDE DEF c
  <1>7. Creating(c, now, rows, db[d], disk'[d])
    BY <1>2, <1>3, <1>4, <1>5, <1>6 DEF Creating, Kept
  <1> QED
    BY <1>1, <1>2, <1>4, <1>7, UserWritesOne

LEMMA UserModifyOrder ==
  ASSUME TypeInv, NEW h, OrderInv(h), NEW d \in Devices, Turn(d), Fresh(d),
         NEW p \in Paths, NEW b \in Contents, UserModify(d, p, b)
  PROVE  OrderInv(h)'
  <1> DEFINE c == Cmd("modify", p, p, AnyFile, "user")
  <1>1. Exists(d, p) /\ Save(d, p, b) /\ Notify(d, c) /\ UserStep(d)
    BY DEF UserModify
  <1>2. c \in Command /\ c.op = "modify" /\ c.path = p
    BY CmdType, FileIdsType DEF Ops, Cmd
  <1>3. b # <<>>
    BY ContentsAssumption
  <1>4. /\ disk'[d][p].bytes = b /\ disk'[d][p].mtime = now
        /\ \A q \in Paths : q # p => disk'[d][q] = disk[d][q]
        /\ \A e \in Devices : e # d => disk'[e] = disk[e]
    BY <1>1, UserSaves
  <1>5. \A q \in Paths : Kept(rows, db[d], disk[d], q)
    BY TurnFacts DEF Rests
  <1>6. Has(db[d], p)
    BY <1>1, <1>5 DEF Kept, Exists
  <1> HIDE DEF c
  <1>7. Modifying(c, now, rows, db[d], disk'[d])
    BY <1>2, <1>3, <1>4, <1>5, <1>6 DEF Modifying, Kept
  <1> QED
    BY <1>1, <1>2, <1>4, <1>7, UserWritesOne

LEMMA UserRenameOrder ==
  ASSUME TypeInv, NEW h, OrderInv(h), NEW d \in Devices, Turn(d), Fresh(d), NewNames(d),
         NEW p \in Paths, NEW q \in Paths, UserRename(d, p, q)
  PROVE  OrderInv(h)'
  <1> DEFINE c == Cmd("rename", p, q, AnyFile, "user")
  <1>1. /\ Exists(d, p) /\ ~ Exists(d, q) /\ Notify(d, c) /\ UserStep(d)
        /\ disk' = [disk EXCEPT ![d][q] = disk[d][p], ![d][p] = Absent]
    BY DEF UserRename
  <1>2. c \in Command /\ c.op = "rename" /\ c.path = p /\ c.to = q
    BY CmdType, FileIdsType DEF Ops, Cmd
  <1>3. p # q /\ Absent.bytes = <<>>
    BY <1>1 DEF Absent
  <1>4. disk \in [Devices -> [Paths -> DiskFile]]
    BY DEF TypeInv, TypeOK
  <1>5. /\ disk'[d][q] = disk[d][p] /\ disk'[d][p] = Absent
        /\ \A s \in Paths : s # p /\ s # q => disk'[d][s] = disk[d][s]
        /\ \A e \in Devices : e # d => disk'[e] = disk[e]
    BY <1>1, <1>3, <1>4
  <1>6. ~ HasPath(db[d], q)
    BY <1>1, <1>5 DEF NewNames, Exists
  <1>7. \A s \in Paths : Kept(rows, db[d], disk[d], s)
    BY TurnFacts DEF Rests
  <1>8. Has(db[d], p) /\ InLog(rows, disk[d][p].bytes)
    BY <1>1, <1>7 DEF Kept, Exists
  <1> HIDE DEF c
  <1>9. Renaming(c, rows, db[d], disk'[d])
    BY <1>2, <1>3, <1>5, <1>6, <1>7, <1>8 DEF Renaming, Kept
  <1> QED
    BY <1>1, <1>2, <1>5, <1>9, UserWritesOne

LEMMA UserDeleteOrder ==
  ASSUME TypeInv, NEW h, OrderInv(h), NEW d \in Devices, Turn(d),
         NEW p \in Paths, UserDelete(d, p)
  PROVE  OrderInv(h)'
  <1> DEFINE c == Cmd("delete", p, p, AnyFile, "user")
  <1>1. Notify(d, c) /\ UserStep(d) /\ disk' = [disk EXCEPT ![d][p] = Absent]
    BY DEF UserDelete
  <1>2. c \in Command /\ c.op = "delete" /\ c.path = p
    BY CmdType, FileIdsType DEF Ops, Cmd
  <1>3. /\ disk'[d][p].bytes = <<>>
        /\ \A q \in Paths : q # p => disk'[d][q] = disk[d][q]
        /\ \A e \in Devices : e # d => disk'[e] = disk[e]
    BY <1>1 DEF TypeInv, TypeOK, Absent
  <1>4. /\ pc[d] = "idle" /\ queue[d] = <<>> /\ OthersRest(d)
        /\ Rests(now, rows, h, db[d], disk[d])
    BY TurnFacts
  <1>5. now' = now /\ rows' = rows /\ store' = store /\ db' = db /\ pc' = pc
    BY <1>1, UserStepLeaves
  <1> HIDE DEF c
  <1>6. queue'[d] = <<RefreshCmd, c>> /\ LeavesOthers(d)
    BY <1>1, <1>2, <1>3, <1>4, <1>5, Notified DEF LeavesOthers
  <1>7. OnlyReads(queue'[d], disk'[d])
    BY <1>2, <1>3, <1>6, Doings DEF OnlyReads
  <1>8. \A q \in Paths : Kept(rows, db[d], disk'[d], q)
    BY <1>3, <1>4 DEF Rests, Kept
  <1>9. Head(queue'[d]).op = "refresh"
    BY <1>6, Doings
  <1>10. Reading(h, d)'
    BY <1>4, <1>5, <1>7, <1>8, <1>9 DEF Reading, Rests
  <1>11. Works(h, d)'
    BY <1>10 DEF Works
  <1> QED
    BY <1>4, <1>5, <1>6, <1>11, SameCloud

LEMMA UserReadsOrder ==
  ASSUME TypeInv, NEW h, OrderInv(h), NEW d \in Devices, Turn(d), UserReads(d)
  PROVE  OrderInv(h)'
  <1>1. /\ pc[d] = "idle" /\ queue[d] = <<>> /\ OthersRest(d)
        /\ Rests(now, rows, h, db[d], disk[d])
    BY TurnFacts
  <1>2. ASSUME UserRefresh(d)
        PROVE  OrderInv(h)'
    <2>1. /\ now' = now /\ rows' = rows /\ store' = store /\ db' = db /\ pc' = pc
          /\ disk' = disk
      BY <1>2, UserStepLeaves DEF UserRefresh
    <2>2. queue'[d] = <<RefreshCmd>> /\ \A e \in Devices : e # d => queue'[e] = queue[e]
      BY <1>1, <1>2 DEF UserRefresh, TypeInv, TypeOK
    <2>3. OnlyReads(queue'[d], disk'[d]) /\ Head(queue'[d]).op = "refresh"
      BY <2>2, Doings DEF OnlyReads
    <2>4. Reading(h, d)'
      BY <1>1, <2>1, <2>3 DEF Reading, Rests
    <2>5. Works(h, d)' /\ LeavesOthers(d)
      BY <2>1, <2>2, <2>4 DEF Works, LeavesOthers
    <2> QED
      BY <1>1, <2>1, <2>5, SameCloud
  <1>3. ASSUME NEW x \in db[d].files, UserDownload(d, x)
        PROVE  OrderInv(h)'
    <2> DEFINE c == Cmd("download", x.path, x.path, x.id, "user")
    <2>1. /\ now' = now /\ rows' = rows /\ store' = store /\ db' = db /\ pc' = pc
          /\ disk' = disk
      BY <1>3, UserStepLeaves DEF UserDownload
    <2>2. x.id \in FileIds /\ x.path \in Paths
      BY DeviceTypes, FieldTypes DEF LocalFile
    <2>3. c \in Command /\ c.op = "download" /\ c.path = x.path /\ c.file = x.id
      BY <2>2, CmdType DEF Ops, Cmd
    <2>4. queue' = [queue EXCEPT ![d] = Append(@, c)]
      BY <1>3 DEF UserDownload
    <2> HIDE DEF c
    <2>5. queue'[d] = <<c>> /\ \A e \in Devices : e # d => queue'[e] = queue[e]
      BY <1>1, <2>4 DEF TypeInv, TypeOK
    <2>6. Downloading(h, d, c)'
      BY <1>1, <2>1, <2>3, <2>5 DEF Downloading
    <2>7. Works(h, d)' /\ LeavesOthers(d)
      BY <2>1, <2>3, <2>5, <2>6 DEF Works, LeavesOthers
    <2> QED
      BY <1>1, <2>1, <2>7, SameCloud
  <1> QED
    BY <1>2, <1>3 DEF UserReads

-------------------------------------------------------------------------------
(* The inductive invariant                                                  *)

LEMMA TickOrder ==
  ASSUME TypeInv, NEW h, OrderInv(h), Tick
  PROVE  OrderInv(h)'
  <1>1. /\ now' = now + 1 /\ rows' = rows /\ store' = store /\ db' = db /\ disk' = disk
        /\ queue' = queue /\ pc' = pc /\ tmp' = tmp /\ got' = got /\ info' = info
    BY DEF Tick, server, local
  <1>2. \A t \in Nat : t <= now => t <= now'
    BY <1>1 DEF TypeInv, TypeOK
  <1>3. ASSUME NEW d \in Devices
        PROVE  Works(h, d)'
    <2>1. db[d].last <= now' \/ ~ Dated(now, db[d])
      BY <1>2, DeviceTypes DEF Dated
    <2>2. Dated(now, db[d]) => Dated(now, db[d])'
      BY <1>1, <2>1 DEF Dated, UniqueIds
    <2>3. tmp[d] <= now => tmp'[d] <= now'
      BY <1>1, <1>2, DeviceTypes
    <2>4. info[d].date <= now => info'[d].date <= now'
      BY <1>1, <1>2, DeviceTypes, RowFields
    <2>5. Rests(now, rows, h, db[d], disk[d]) => Rests(now, rows, h, db[d], disk[d])'
      BY <1>1, <2>2 DEF Rests
    <2>6. Reading(h, d) => Reading(h, d)'
      BY <1>1, <2>2, <2>3 DEF Reading
    <2>7. ASSUME NEW c \in Command, NEW t \in Nat, Writing(h, d, c, t)
          PROVE  Writing(h, d, c, t)'
      BY <1>1, <1>2, <2>2, <2>3, <2>7 DEF Writing, NewsToOthers
    <2>8. \A c \in Command : Downloading(h, d, c) => Downloading(h, d, c)'
      BY <1>1, <2>5 DEF Downloading
    <2>9. Sending(h, d) => Sending(h, d)'
      BY <1>1, <2>2, <2>4 DEF Sending, NewsToOthers, Exists
    <2>10. Saving(h, d) => Saving(h, d)'
      BY <1>1, <2>5 DEF Saving
    <2> QED
      BY <2>6, <2>7, <2>8, <2>9, <2>10 DEF OrderInv, Works
  <1>4. OneActs'
    <2>1. \A e \in Devices : db[e].last < now => db'[e].last < now'
      BY <1>1, DeviceTypes
    <2> QED
      BY <1>1, <2>1 DEF OrderInv, OneActs, Resting
  <1>5. RowDates'
    <2>1. \A i \in DOMAIN rows : rows[i].date \in Nat
      BY DeviceTypes, RowFields DEF TypeInv, TypeOK
    <2> QED
      BY <1>1, <1>2, <2>1 DEF OrderInv, RowDates
  <1>6. ChunksNew(h)' /\ History(rows', h)
    BY <1>1 DEF OrderInv, ChunksNew
  <1> QED
    BY <1>3, <1>4, <1>5, <1>6 DEF OrderInv

\* The view of an index that has seen nothing.
LEMMA EmptyView ==
  /\ EmptyDB \in LocalDB /\ UniqueIds(EmptyDB) /\ EmptyDB.last = 0
  /\ View(EmptyDB) \in Views /\ GoodView(View(EmptyDB)) /\ View(EmptyDB).files = {}
  <1>1. EmptyDB \in LocalDB /\ EmptyDB.files = {} /\ EmptyDB.last = 0
        /\ EmptyDB.chunks = [f \in FileIds |-> <<>>]
    BY FileIdsType DEF EmptyDB, LocalDB, DB
  <1>2. View(EmptyDB).files = {} /\ View(EmptyDB).chunks = EmptyDB.chunks
    BY <1>1 DEF View
  <1> QED
    BY <1>1, <1>2, ViewType DEF UniqueIds, GoodView

LEMMA InitOrder == Init => \E h : OrderInv(h)
  <1> SUFFICES ASSUME Init PROVE \E h : OrderInv(h)
    OBVIOUS
  <1>1. PICK v : v = View(EmptyDB)
    OBVIOUS
  <1>2. PICK h : h = [k \in {0} |-> v]
    OBVIOUS
  <1>3. Len(rows) = 0 /\ DOMAIN rows = {} /\ 0 .. Len(rows) = {0} /\ 1 .. Len(rows) = {} /\ h[0] = v
    BY <1>2 DEF Init
  <1>4. History(rows, h)
    <2>1. h \in [0 .. Len(rows) -> Views]
      BY <1>1, <1>2, <1>3, EmptyView
    <2>2. \A k \in 0 .. Len(rows) : GoodView(h[k]) /\ Tells(rows, h[k], k)
      BY <1>1, <1>3, EmptyView DEF Tells
    <2>3. VersionsGrow(rows)
      BY <1>3 DEF VersionsGrow
    <2> QED
      BY <1>3, <2>1, <2>2, <2>3 DEF History
  <1>5. \A d \in Devices : Works(h, d)
    <2> SUFFICES ASSUME NEW d \in Devices PROVE Works(h, d)
      OBVIOUS
    <2>1. /\ db[d] = EmptyDB /\ queue[d] = <<>> /\ pc[d] = "idle" /\ now = 1
          /\ \A p \in Paths : disk[d][p].bytes = <<>>
      BY DEF Init, Absent
    <2>2. Dated(now, db[d])
      BY <2>1, EmptyView DEF Dated
    <2>3. SeenBy(rows, db[d].last) = 1 .. 0 /\ 0 \in 0 .. Len(rows)
      BY <1>3 DEF SeenBy
    <2>4. Rests(now, rows, h, db[d], disk[d])
      BY <1>1, <1>3, <2>1, <2>2, <2>3 DEF Rests, Shows, Kept
    <2> QED
      BY <2>1, <2>4, RestsWorks DEF Resting
  <1>6. OneActs /\ RowDates /\ ChunksNew(h)
    BY <1>3 DEF Init, OneActs, Resting, RowDates, ChunksNew
  <1> QED
    BY <1>4, <1>5, <1>6 DEF OrderInv

LEMMA WorkerOrder ==
  ASSUME TypeInv, TypeInv', CloudInv, "net" \notin Faults, NEW h, OrderInv(h),
         NEW d \in Devices, Worker(d)
  PROVE  \E g : OrderInv(g)'
  <1>1. UploadMeta(d) => \E g : OrderInv(g)'
    BY UploadMetaOrder
  <1>2. RefreshBegin(d) \/ RefreshAnswer(d) \/ RefreshRow(d) \/ RefreshEnd(d) => OrderInv(h)'
    BY RefreshBeginOrder, RefreshAnswerOrder, RefreshRowOrder, RefreshEndOrder
  <1>3. CreateBegin(d) \/ ModifyBegin(d) \/ RenameBegin(d) \/ DeleteBegin(d) => OrderInv(h)'
    BY CreateBeginOrder, ModifyBeginOrder, RenameBeginOrder, DeleteBeginOrder
  <1>4. UploadChunks(d) \/ DownloadAsk(d) \/ DownloadSave(d) => OrderInv(h)'
    BY UploadChunksOrder, DownloadAskOrder, DownloadSaveOrder
  <1> QED
    BY <1>1, <1>2, <1>3, <1>4 DEF Worker

LEMMA UserOrder ==
  ASSUME TypeInv, NEW h, OrderInv(h), NEW d \in Devices, Turn(d),
         (Fresh(d) /\ UserWrites(d) /\ NewNames(d)) \/ UserReads(d)
  PROVE  OrderInv(h)'
  <1>1. ASSUME Fresh(d), UserWrites(d), NewNames(d)
        PROVE  OrderInv(h)'
    <2>1. CASE \E p \in Paths, c \in Contents : UserCreate(d, p, c) \/ UserModify(d, p, c)
      BY <1>1, <2>1, UserCreateOrder, UserModifyOrder
    <2>2. CASE \E p, q \in Paths : UserRename(d, p, q)
      BY <1>1, <2>2, UserRenameOrder
    <2>3. CASE \E p \in Paths : UserDelete(d, p)
      BY <2>3, UserDeleteOrder
    <2> QED
      BY <1>1, <2>1, <2>2, <2>3 DEF UserWrites
  <1> QED
    BY <1>1, UserReadsOrder

OrderlyInv == CloudInv /\ \E h : OrderInv(h)

LEMMA OrderlySteps == OrderlyNext => Next
  BY DEF OrderlyNext, Next, User

LEMMA InitOrderlyInv == Init => OrderlyInv
  BY InitCloudInv, InitOrder DEF OrderlyInv

LEMMA NextOrderlyInv ==
  ASSUME "net" \notin Faults, OrderlyInv, [OrderlyNext]_vars
  PROVE  OrderlyInv'
  <1>1. CloudInv /\ CloudInv'
    BY OrderlySteps, NextCloudInv DEF OrderlyInv
  <1>2. TypeInv /\ TypeInv'
    BY <1>1 DEF CloudInv, StorageInv
  <1>3. PICK h : OrderInv(h)
    BY DEF OrderlyInv
  <1>4. CASE Tick
    BY <1>1, <1>2, <1>3, <1>4, TickOrder DEF OrderlyInv
  <1>5. ASSUME NEW d \in Devices, Turn(d),
               (Fresh(d) /\ UserWrites(d) /\ NewNames(d)) \/ UserReads(d)
        PROVE  OrderlyInv'
    BY <1>1, <1>2, <1>3, <1>5, UserOrder DEF OrderlyInv
  <1>6. ASSUME NEW d \in Devices, Worker(d)
        PROVE  OrderlyInv'
    BY <1>1, <1>2, <1>3, <1>6, WorkerOrder DEF OrderlyInv
  <1>7. CASE UNCHANGED vars
    <2>1. /\ now' = now /\ rows' = rows /\ store' = store /\ db' = db /\ disk' = disk
          /\ queue' = queue /\ pc' = pc /\ tmp' = tmp /\ got' = got /\ info' = info
      BY <1>7 DEF vars, server, local
    <2>2. ASSUME NEW d \in Devices
          PROVE  Works(h, d)'
      <3>1. Works(h, d)
        BY <1>3 DEF OrderInv
      <3>2. Reading(h, d) => Reading(h, d)'
        BY <2>1 DEF Reading
      <3>3. \A c \in Command, t \in Nat : Writing(h, d, c, t) => Writing(h, d, c, t)'
        BY <2>1 DEF Writing, NewsToOthers
      <3>4. \A c \in Command : Downloading(h, d, c) => Downloading(h, d, c)'
        BY <2>1 DEF Downloading
      <3>5. Sending(h, d) => Sending(h, d)'
        BY <2>1 DEF Sending, NewsToOthers, Exists
      <3>6. Saving(h, d) => Saving(h, d)'
        BY <2>1 DEF Saving
      <3> QED
        BY <3>1, <3>2, <3>3, <3>4, <3>5, <3>6 DEF Works
    <2>3. OneActs' /\ RowDates' /\ ChunksNew(h)' /\ History(rows', h)
      BY <1>3, <2>1 DEF OrderInv, OneActs, Resting, RowDates, ChunksNew
    <2>4. OrderInv(h)'
      BY <2>2, <2>3 DEF OrderInv
    <2> QED
      BY <1>1, <2>4 DEF OrderlyInv
  <1> QED
    BY <1>4, <1>5, <1>6, <1>7 DEF OrderlyNext

-------------------------------------------------------------------------------
(* What the rows say of a file                                              *)

\* A set of row numbers has a greatest one.
LEMMA HasMax ==
  ASSUME NEW n \in Nat, NEW S, S \subseteq 1 .. n, S # {}
  PROVE  Max(S) \in S /\ \A j \in S : Max(S) >= j
  <1> DEFINE T == {n - i : i \in S}
  <1>1. T \subseteq Nat /\ T # {}
    <2>1. \A i \in S : i \in Nat /\ n - i \in Nat
      OBVIOUS
    <2>2. \A t \in T : \E i \in S : t = n - i
      OBVIOUS
    <2>3. T \subseteq Nat
      BY <2>1, <2>2
    <2>4. \A i \in S : n - i \in T
      OBVIOUS
    <2> QED
      BY <2>3, <2>4
  <1>2. PICK t \in T : \A u \in T : <<u, t>> \notin OpToRel(<, Nat)
    BY <1>1, NatLessThanWellFounded, WFMin
  <1>3. \A u \in T : ~ (u < t)
    BY <1>1, <1>2 DEF OpToRel
  <1>4. PICK i \in S : t = n - i
    BY <1>2
  <1>5. \A j \in S : i >= j
    <2> SUFFICES ASSUME NEW j \in S PROVE i >= j
      OBVIOUS
    <2>1. ~ (n - j < n - i)
      BY <1>3, <1>4
    <2> QED
      BY <2>1
  <1> QED
    BY <1>4, <1>5 DEF Max

LEMMA MaxIs ==
  ASSUME NEW n \in Nat, NEW S, S \subseteq 1 .. n, NEW i \in S, \A j \in S : j <= i
  PROVE  Max(S) = i
  <1>1. PICK m : m = Max(S)
    OBVIOUS
  <1>2. m \in S /\ m >= i
    BY <1>1, HasMax
  <1>3. m \in Nat /\ i \in Nat /\ m <= i
    BY <1>2
  <1>4. m = i
    BY <1>2, <1>3
  <1> QED
    BY <1>1, <1>4

\* The newest row of a file, and its last one with chunks.
LEMMA NewestIs ==
  ASSUME TypeInv, NEW f, NEW i, IsNewest(rows, f, i, Len(rows))
  PROVE  Newest(f) = rows[i] /\ f \in Files
  <1>1. Len(rows) \in Nat /\ DOMAIN rows = 1 .. Len(rows)
    BY DEF TypeInv, TypeOK
  <1>2. i \in RowsOf(f) /\ RowsOf(f) \subseteq 1 .. Len(rows) /\ \A j \in RowsOf(f) : j <= i
    BY <1>1 DEF IsNewest, RowsOf
  <1>3. Max(RowsOf(f)) = i
    BY <1>1, <1>2, MaxIs
  <1> QED
    BY <1>2, <1>3 DEF Newest, RowsOf, Files

LEMMA HasNewest ==
  ASSUME TypeInv, NEW f \in Files
  PROVE  \E i : IsNewest(rows, f, i, Len(rows))
  <1>1. Len(rows) \in Nat /\ DOMAIN rows = 1 .. Len(rows)
    BY DEF TypeInv, TypeOK
  <1>2. RowsOf(f) # {} /\ RowsOf(f) \subseteq 1 .. Len(rows)
    BY <1>1 DEF Files, RowsOf
  <1>3. PICK i : i \in RowsOf(f) /\ \A j \in RowsOf(f) : i >= j
    BY <1>1, <1>2, HasMax
  <1> QED
    BY <1>1, <1>2, <1>3 DEF IsNewest, RowsOf

LEMMA CloudChunksAre ==
  ASSUME TypeInv, VersionsGrow(rows), NEW f, NEW i, IsNewest(rows, f, i, Len(rows)),
         NEW k, IsLatest(rows, f, k, Len(rows))
  PROVE  CloudChunks(f) = rows[k].chunks
  <1> DEFINE n == Len(rows)
             C == Chunked(f, rows[i].ver)
  <1>1. n \in Nat /\ DOMAIN rows = 1 .. n /\ \A j \in 1 .. n : rows[j].ver \in Nat
    BY DeviceTypes, RowFields DEF TypeInv, TypeOK
  <1>2. /\ i \in 1 .. n /\ rows[i].file = f /\ k \in 1 .. n /\ rows[k].file = f
        /\ rows[k].chunks # <<>> /\ k <= i
        /\ \A j \in 1 .. n : rows[j].file = f /\ rows[j].chunks # <<>> => j <= k
    BY <1>1 DEF IsNewest, IsLatest
  <1>3. rows[k].ver <= rows[i].ver
    <2>1. k = i \/ rows[k].ver < rows[i].ver
      BY <1>1, <1>2 DEF VersionsGrow
    <2> QED
      BY <1>1, <1>2, <2>1
  <1>4. k \in C /\ C \subseteq 1 .. n /\ \A j \in C : j <= k
    BY <1>1, <1>2, <1>3 DEF Chunked, RowsOf
  <1>5. Max(C) = k
    BY <1>1, <1>4, MaxIs
  <1>6. Newest(f) = rows[i]
    BY NewestIs
  <1> QED
    BY <1>4, <1>5, <1>6 DEF CloudChunks

-------------------------------------------------------------------------------
(* What the invariant is for                                                *)

\* A device shows what the cloud has when it shows what all rows lead to.
LEMMA SameViews ==
  ASSUME TypeInv, NEW d \in Devices, NEW h, History(rows, h), View(db[d]) = h[Len(rows)]
  PROVE  LocalView(d) = ServerView
  <1> DEFINE n == Len(rows)
             v == View(db[d])
             x == db[d]
             Local(y) == [file |-> y.id, path |-> y.path, ver |-> y.ver, chunks |-> x.chunks[y.id]]
             Cloud(f) == [file |-> f, path |-> Newest(f).path, ver |-> Newest(f).ver,
                          chunks |-> CloudChunks(f)]
  <1>1. n \in 0 .. n /\ Tells(rows, v, n) /\ VersionsGrow(rows)
    BY DEF History, TypeInv, TypeOK
  <1>2. x \in LocalDB
    BY DeviceTypes
  <1>3. ASSUME NEW y \in x.files
        PROVE  /\ y.id \in Files /\ ~ Newest(y.id).del
               /\ Newest(y.id).path = y.path /\ Newest(y.id).ver = y.ver
               /\ CloudChunks(y.id) = x.chunks[y.id]
    <2> DEFINE e == ViewOfFile(y)
    <2>1. e \in v.files /\ e.id = y.id /\ e.path = y.path /\ e.ver = y.ver /\ v.chunks = x.chunks
      BY <1>2, FilesInView
    <2> HIDE DEF e
    <2>2. PICK i \in 1 .. n : IsNewest(rows, e.id, i, n) /\ ViewOfRow(rows[i]) = e /\ ~ rows[i].del
      BY <1>1, <2>1 DEF Tells
    <2>3. PICK k \in 1 .. n : IsLatest(rows, e.id, k, n) /\ v.chunks[e.id] = rows[k].chunks
      BY <1>1, <2>1 DEF Tells
    <2>4. rows[i].path = e.path /\ rows[i].ver = e.ver
      BY <2>2 DEF ViewOfRow
    <2>5. Newest(y.id) = rows[i] /\ y.id \in Files
      BY <2>1, <2>2, NewestIs
    <2>6. CloudChunks(y.id) = rows[k].chunks
      BY <1>1, <2>1, <2>2, <2>3, CloudChunksAre
    <2> QED
      BY <2>1, <2>2, <2>3, <2>4, <2>5, <2>6
  <1>4. ASSUME NEW f \in Files, ~ Newest(f).del
        PROVE  \E y \in x.files : y.id = f
    <2>1. PICK i : IsNewest(rows, f, i, n)
      BY HasNewest
    <2>2. i \in 1 .. n /\ rows[i].file = f /\ ~ rows[i].del
      BY <1>4, <2>1, NewestIs DEF IsNewest
    <2>3. PICK e \in v.files : e.id = f
      BY <1>1, <2>1, <2>2 DEF Tells
    <2> QED
      BY <1>2, <2>3, FilesInView
  <1>5. \A y \in x.files : Local(y) = Cloud(y.id)
    BY <1>3
  <1> HIDE DEF Local, Cloud
  <1>6. {Local(y) : y \in x.files} = {Cloud(f) : f \in {f \in Files : ~ Newest(f).del}}
    BY <1>3, <1>4, <1>5
  <1> QED
    BY <1>6 DEF LocalView, ServerView, Local, Cloud

\* The bytes of a version.
LEMMA CloudContentIs ==
  ASSUME TypeInv, NEW y, NEW b, NEW i \in DOMAIN rows, IsVersion(rows, y, b, i), y.ver \in Nat
  PROVE  CloudContent(y.id, y.ver) = b
  <1> DEFINE C == Chunked(y.id, y.ver)
  <1>1. /\ Len(rows) \in Nat /\ DOMAIN rows = 1 .. Len(rows)
        /\ \A j \in 1 .. Len(rows) : rows[j].ver \in Nat
    BY DeviceTypes, RowFields DEF TypeInv, TypeOK
  <1>2. i \in C /\ C \subseteq 1 .. Len(rows) /\ \A j \in C : j <= i
    BY <1>1 DEF IsVersion, Chunked, RowsOf
  <1>3. Max(C) = i
    BY <1>1, <1>2, MaxIs
  <1> QED
    BY <1>3 DEF CloudContent, IsVersion

\* The bytes a refresh or a download takes away are in the cloud.
LEMMA KeptNow ==
  ASSUME TypeInv, NEW h, OrderInv(h), NEW d \in Devices, RefreshRow(d) \/ DownloadSave(d)
  PROVE  \A p \in Paths : Exists(d, p) => InLog(rows, disk[d][p].bytes)
  <1>1. \A p \in Paths : Kept(rows, db[d], disk[d], p)
    <2>1. CASE RefreshRow(d)
      <3>1. pc[d] = "apply" /\ got[d] # {}
        BY <2>1 DEF RefreshRow
      <3>2. Reading(h, d)
        BY <3>1 DEF OrderInv, Works, Writing, Downloading, Sending, Saving
      <3> QED
        BY <3>2 DEF Reading
    <2>2. CASE DownloadSave(d)
      <3>1. pc[d] = "save"
        BY <2>2 DEF DownloadSave
      <3>2. Saving(h, d)
        BY <3>1 DEF OrderInv, Works, Reading, Writing, Downloading, Sending
      <3> QED
        BY <3>2 DEF Saving, Rests
    <2> QED
      BY <2>1, <2>2
  <1> QED
    BY <1>1 DEF Kept, Exists

LEMMA InvReplicas == OrderlyInv => ReplicaMatches
  <1> SUFFICES ASSUME OrderlyInv, NEW d \in Devices, pc[d] = "idle", Fresh(d)
               PROVE  LocalView(d) = ServerView
    BY DEF ReplicaMatches
  <1>1. TypeInv
    BY DEF OrderlyInv, CloudInv, StorageInv
  <1>2. PICK h : OrderInv(h)
    BY DEF OrderlyInv
  <1>3. SeenBy(rows, db[d].last) = DOMAIN rows
    BY DEF Fresh, SeenBy
  <1>4. \/ Shows(rows, h, db[d], SeenBy(rows, db[d].last))
        \/ View(db[d]) = h[Len(rows)]
    <2>1. Reading(h, d) => Shows(rows, h, db[d], SeenBy(rows, db[d].last))
      BY DEF Reading
    <2>2. \A c, t : Writing(h, d, c, t) => View(db[d]) = h[Len(rows)]
      BY DEF Writing
    <2>3. \A c : Downloading(h, d, c) => Shows(rows, h, db[d], SeenBy(rows, db[d].last))
      BY DEF Downloading, Rests
    <2>4. ~ Sending(h, d) /\ ~ Saving(h, d)
      BY DEF Sending, Saving
    <2> QED
      BY <1>2, <2>1, <2>2, <2>3, <2>4 DEF OrderInv, Works
  <1>5. View(db[d]) = h[Len(rows)]
    BY <1>1, <1>3, <1>4, ShowsAll
  <1> QED
    BY <1>1, <1>2, <1>5, SameViews DEF OrderInv

LEMMA InvDownloads ==
  ASSUME OrderlyInv, NEW d \in Devices, DownloadSave(d)
  PROVE  \E x \in db[d].files :
           /\ x.id = info[d].file
           /\ x.path = info[d].path
           /\ Chunked(x.id, x.ver) # {} => info[d].bytes = CloudContent(x.id, x.ver)
  <1>1. TypeInv
    BY DEF OrderlyInv, CloudInv, StorageInv
  <1>2. PICK h : OrderInv(h)
    BY DEF OrderlyInv
  <1>3. pc[d] = "save"
    BY DEF DownloadSave
  <1>4. Saving(h, d)
    BY <1>2, <1>3 DEF OrderInv, Works, Reading, Writing, Downloading, Sending
  <1>5. PICK x \in db[d].files : /\ x.id = info[d].file /\ x.path = info[d].path
                                 /\ \E i \in DOMAIN rows : IsVersion(rows, x, info[d].bytes, i)
    BY <1>4 DEF Saving
  <1>6. x.ver \in Nat
    BY <1>1, DeviceTypes, FilesInView DEF LocalFile
  <1>7. CloudContent(x.id, x.ver) = info[d].bytes
    BY <1>1, <1>5, <1>6, CloudContentIs
  <1> QED
    BY <1>5, <1>7

LEMMA InvLossless ==
  ASSUME OrderlyInv, NEW d \in Devices, RefreshRow(d) \/ DownloadSave(d), NEW p \in Paths,
         Exists(d, p)
  PROVE  \E i \in DOMAIN rows : rows[i].bytes = disk[d][p].bytes
  <1>1. TypeInv
    BY DEF OrderlyInv, CloudInv, StorageInv
  <1>2. PICK h : OrderInv(h)
    BY DEF OrderlyInv
  <1> QED
    BY <1>1, <1>2, KeptNow DEF InLog

\* For every number of devices, files and user operations, and every interleaving
\* the discipline allows, the invariant holds when no request fails.
THEOREM OrderlyInvariant ==
  ASSUME "net" \notin Faults
  PROVE  OrderlySpec => []OrderlyInv
  BY InitOrderlyInv, NextOrderlyInv, PTL DEF OrderlySpec

\* An idle device for which a refresh would bring nothing has the cloud's view of
\* every file, down to the file and chunk ids each device numbers on its own
\* (RefreshCommand::Do, InternalDB::InsertFileInfo, InternalDB::UpdateFileInfo).
THEOREM ReplicasMatch ==
  ASSUME "net" \notin Faults
  PROVE  OrderlySpec => []ReplicaMatches
  BY OrderlyInvariant, InvReplicas, PTL

\* A download writes the bytes the cloud has for the version the index shows, to
\* the path it shows, whichever device made them (DownloadFileCommand::Do).
THEOREM DownloadsAreRight ==
  ASSUME "net" \notin Faults
  PROVE  OrderlySpec => DownloadRight
  <1>1. OrderlyInv /\ [OrderlyNext]_vars =>
          [\A d \in Devices : DownloadSave(d) =>
             \E x \in db[d].files :
               /\ x.id = info[d].file
               /\ x.path = info[d].path
               /\ Chunked(x.id, x.ver) # {} => info[d].bytes = CloudContent(x.id, x.ver)]_vars
    BY InvDownloads
  <1> QED
    BY OrderlyInvariant, <1>1, PTL DEF DownloadRight, OrderlySpec

\* The program never removes or overwrites bytes in the folder that are not in
\* the cloud, by a refresh or by a download (RefreshCommand::Do,
\* DownloadFileCommand::Do).
THEOREM NothingIsLost ==
  ASSUME "net" \notin Faults
  PROVE  OrderlySpec => NoDataLoss
  <1>1. OrderlyInv /\ [OrderlyNext]_vars =>
          [\A d \in Devices : RefreshRow(d) \/ DownloadSave(d) =>
             \A p \in Paths :
               Exists(d, p) /\ disk'[d][p].bytes # disk[d][p].bytes =>
                 \E i \in DOMAIN rows : rows[i].bytes = disk[d][p].bytes]_vars
    BY InvLossless
  <1> QED
    BY OrderlyInvariant, <1>1, PTL DEF NoDataLoss, OrderlySpec
===============================================================================
