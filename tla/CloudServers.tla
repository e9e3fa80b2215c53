----------------------------- MODULE CloudServers -----------------------------
(***************************************************************************)
(* What the two servers do with one request: the metadata server's table   *)
(* Files (with its Version rows) in PostgreSQL and the storage server's    *)
(* collection "chunks" in MongoDB, both for a single user.                 *)
(*                                                                         *)
(* A request is served as a whole here: each server runs one worker        *)
(* (config.json, workersCount) and its client waits for the answer.        *)
(***************************************************************************)
EXTENDS Naturals, Sequences

CONSTANTS
  Paths,    \* file paths below the sync folder (path, name and extension)
  Blocks,   \* what one chunk can hold
  MaxFile   \* bound: the largest id a device gives to a file

ASSUME MaxFileAssumption == MaxFile \in Nat \ {0}
ASSUME PathsAssumption == Paths # {}

FileIds == 1 .. MaxFile

(***************************************************************************)
(* A FileInfo as the indexer builds it and as a row of Files keeps it; its *)
(* chunks are the ids of the row's Version rows in chunk order. bytes is   *)
(* the chunk data sent to the storage server: a local of the command while *)
(* it runs, and in a row a history of what that version was made from.     *)
(***************************************************************************)
FileInfo == [file: FileIds, path: Paths, ver: Nat, del: BOOLEAN, cur: BOOLEAN,
             date: Nat, chunks: Seq(Nat), bytes: Seq(Blocks)]

ChunkDoc == [id: Nat, data: Blocks]

-------------------------------------------------------------------------------
(* PostgreSQL                                                              *)

\* A bug: the old version is not taken down.
InsertFileKeepsOld(rows, info) == Append(rows, info)

\* The transaction: the old version stops being current, the new row is added.
InsertFile(rows, info) ==
  LET old == [i \in DOMAIN rows |->
                [rows[i] EXCEPT !.cur = @ /\ rows[i].file # info.file]]
  IN  Append(old, info)

\* A bug: rows as old as the client's date are sent again.
FilesNotBefore(rows, date) == {i \in DOMAIN rows : rows[i].date >= date}

\* The rows newer than the date, by number: a row's number is its Postgres id
\* and nothing but is_current, which no client reads, changes in a row.
GetUserFilesByTime(rows, date) == {i \in DOMAIN rows : rows[i].date > date}

-------------------------------------------------------------------------------
(* MongoDB                                                                 *)

HasChunk(store, id) == \E c \in store : c.id = id

\* A bug: only the first chunk of the request is looked up.
FirstIsNew(store, ids) == ids # <<>> => ~ HasChunk(store, ids[1])

\* Chunks are refused when one of their ids is taken.
AllAreNew(store, ids) == \A k \in DOMAIN ids : ~ HasChunk(store, ids[k])

\* The documents of the first n chunks.
ChunkDocs(ids, bytes, n) == {[id |-> ids[k], data |-> bytes[k]] : k \in 1 .. n}

\* An empty request and a missing chunk are answered with an error.
CanGetChunk(store, ids) ==
  /\ ids # <<>>
  /\ \A k \in DOMAIN ids : HasChunk(store, ids[k])

GetChunk(store, ids) ==
  [k \in DOMAIN ids |-> (CHOOSE c \in store : c.id = ids[k]).data]
===============================================================================
