------------------------------- MODULE ChunkStore -------------------------------
(***************************************************************************)
(* UploadChunkCommand and DownloadChunkCommand on the storage server, one  *)
(* operation of MongoDB after the other: InsertChunk looks every chunk up  *)
(* and then inserts them all, GetChunk looks every chunk up.               *)
(*                                                                         *)
(* MongoDB inserts the documents of insert_many in turn. Nothing makes the *)
(* pair of user and chunk id unique but the lookup.                        *)
(***************************************************************************)
EXTENDS CloudServers, FiniteSets

CONSTANTS
  Workers,
  Uploads,   \* the requests with chunks, [ids, bytes]; each is sent once
  MaxGets,   \* bound: downloads
  Faults     \* "mongo" an operation fails, "crash" the server ends

\* A device sends each chunk with its id, and gives each an id of its own.
ASSUME UploadsAssumption ==
  \A u \in Uploads :
    /\ u \in [ids: Seq(Nat), bytes: Seq(Blocks)]
    /\ Len(u.bytes) = Len(u.ids)
    /\ \A i, j \in DOMAIN u.ids : u.ids[i] = u.ids[j] => i = j
ASSUME MaxGetsAssumption == MaxGets \in Nat

VARIABLES
  docs,      \* the collection: documents with the number of their insertion
  todo,      \* uploads still to come
  gets,      \* downloads so far
  pc,        \* per worker: "idle", "find", "insert", "get"
  job,       \* per worker: its request
  pos,       \* per worker: how many of its chunks are dealt with
  got,       \* per worker: the data it has found
  answer,    \* per worker: its last answer
  acked      \* history: the uploads answered with StatusOk

vars == <<docs, todo, gets, pc, job, pos, got, answer, acked>>

\* The texts of UploadChunkCommand and DownloadChunkCommand.
NotInserted == "Fail to insert Chunk"
NotFound == "Fail to get Chunk"

store == {[id |-> d.id, data |-> d.data] : d \in docs}

Nothing == [ids |-> <<>>, bytes |-> <<>>]

Init ==
  /\ docs = {} /\ todo = Uploads /\ gets = 0
  /\ pc = [w \in Workers |-> "idle"]
  /\ job = [w \in Workers |-> Nothing]
  /\ pos = [w \in Workers |-> 0]
  /\ got = [w \in Workers |-> <<>>]
  /\ answer = [w \in Workers |-> "none"]
  /\ acked = {}

-------------------------------------------------------------------------------
\* A bug: the place in the request before is kept.
BeginsWhereItWas(w, at, request) ==
  /\ pc[w] = "idle"
  /\ pc' = [pc EXCEPT ![w] = at]
  /\ job' = [job EXCEPT ![w] = request]
  /\ got' = [got EXCEPT ![w] = <<>>]
  /\ answer' = [answer EXCEPT ![w] = "none"]
  /\ UNCHANGED <<docs, pos, acked>>

Begins(w, at, request) ==
  /\ pc[w] = "idle"
  /\ pc' = [pc EXCEPT ![w] = at]
  /\ job' = [job EXCEPT ![w] = request]
  /\ pos' = [pos EXCEPT ![w] = 0]
  /\ got' = [got EXCEPT ![w] = <<>>]
  /\ answer' = [answer EXCEPT ![w] = "none"]
  /\ UNCHANGED <<docs, acked>>

ReceiveUpload(w) ==
  \E u \in todo : Begins(w, "find", u) /\ todo' = todo \ {u} /\ UNCHANGED gets

\* The ids a device asks for are those of an upload: its index numbers the
\* chunks of a version as its indexer did.
ReceiveDownload(w) ==
  /\ gets < MaxGets
  /\ gets' = gets + 1
  /\ \E u \in Uploads : Begins(w, "get", [u EXCEPT !.bytes = <<>>])
  /\ UNCHANGED todo

Chunk(w) == job[w].ids[pos[w] + 1]

AllDone(w) == pos[w] = Len(job[w].ids)

Answers(w, text) ==
  /\ pc' = [pc EXCEPT ![w] = "idle"]
  /\ answer' = [answer EXCEPT ![w] = text]

Advance(w) == pos' = [pos EXCEPT ![w] = @ + 1]

\* An operation throws, or there is no connection. What is inserted stays.
Fails(w) ==
  /\ "mongo" \in Faults
  /\ pc[w] # "idle"
  /\ Answers(w, IF pc[w] = "get" THEN NotFound ELSE NotInserted)
  /\ UNCHANGED <<docs, todo, gets, job, pos, got, acked>>

Crash ==
  /\ "crash" \in Faults
  /\ pc' = [w \in Workers |-> "idle"]
  /\ UNCHANGED <<docs, todo, gets, job, pos, got, answer, acked>>

\* A bug: the documents are inserted whether their ids are taken or not.
FindsNothing(w) ==
  /\ pc[w] = "find"
  /\ IF AllDone(w) THEN pc' = [pc EXCEPT ![w] = "insert"] /\ pos' = [pos EXCEPT ![w] = 0]
                   ELSE Advance(w) /\ UNCHANGED pc
  /\ UNCHANGED <<docs, todo, gets, job, got, answer, acked>>

\* InsertChunk, the first loop.
Finds(w) ==
  /\ pc[w] = "find"
  /\ \/ /\ ~ AllDone(w)
        /\ ~ HasChunk(store, Chunk(w))
        /\ Advance(w)
        /\ UNCHANGED <<pc, answer>>
     \/ /\ ~ AllDone(w)
        /\ HasChunk(store, Chunk(w))
        /\ Answers(w, NotInserted)
        /\ UNCHANGED pos
     \/ /\ AllDone(w)
        /\ pc' = [pc EXCEPT ![w] = "insert"]
        /\ pos' = [pos EXCEPT ![w] = 0]
        /\ UNCHANGED answer
  /\ UNCHANGED <<docs, todo, gets, job, got, acked>>

\* A bug: the answer does not wait for the last document.
InsertsOneLess(w) ==
  /\ pc[w] = "insert"
  /\ \/ /\ pos[w] + 1 < Len(job[w].ids)
        /\ docs' = docs \cup {[n |-> Cardinality(docs) + 1, id |-> Chunk(w),
                               data |-> job[w].bytes[pos[w] + 1]]}
        /\ Advance(w)
        /\ UNCHANGED <<pc, answer, acked>>
     \/ /\ pos[w] + 1 = Len(job[w].ids)
        /\ Answers(w, "ok")
        /\ acked' = acked \cup {job[w]}
        /\ UNCHANGED <<docs, pos>>
  /\ UNCHANGED <<todo, gets, job, got>>

\* insert_many.
Inserts(w) ==
  /\ pc[w] = "insert"
  /\ \/ /\ ~ AllDone(w)
        /\ docs' = docs \cup {[n |-> Cardinality(docs) + 1, id |-> Chunk(w),
                               data |-> job[w].bytes[pos[w] + 1]]}
        /\ Advance(w)
        /\ UNCHANGED <<pc, answer, acked>>
     \/ /\ AllDone(w)
        /\ Answers(w, "ok")
        /\ acked' = acked \cup {job[w]}
        /\ UNCHANGED <<docs, pos>>
  /\ UNCHANGED <<todo, gets, job, got>>

\* A bug: the answer has the chunks in the opposite order.
GetsBackwards(w) ==
  /\ pc[w] = "get"
  /\ \/ /\ ~ AllDone(w)
        /\ Advance(w)
        /\ \E d \in docs : d.id = Chunk(w) /\ got' = [got EXCEPT ![w] = <<d.data>> \o @]
        /\ UNCHANGED <<pc, answer>>
     \/ /\ AllDone(w)
        /\ Answers(w, "chunks")
        /\ UNCHANGED <<pos, got>>
  /\ UNCHANGED <<docs, todo, gets, job, acked>>

\* GetChunk: of several documents with the id, find_one returns some one.
Gets(w) ==
  /\ pc[w] = "get"
  /\ \/ /\ ~ AllDone(w)
        /\ Advance(w)
        /\ \E d \in docs : d.id = Chunk(w) /\ got' = [got EXCEPT ![w] = Append(@, d.data)]
        /\ UNCHANGED <<pc, answer>>
     \/ /\ ~ AllDone(w)
        /\ ~ HasChunk(store, Chunk(w))
        /\ Answers(w, NotFound)
        /\ UNCHANGED <<pos, got>>
     \/ /\ AllDone(w)
        /\ Answers(w, "chunks")
        /\ UNCHANGED <<pos, got>>
  /\ UNCHANGED <<docs, todo, gets, job, acked>>

-------------------------------------------------------------------------------
Next ==
  \/ Crash
  \/ \E w \in Workers :
       \/ ReceiveUpload(w) \/ ReceiveDownload(w)
       \/ Finds(w) \/ Inserts(w) \/ Gets(w) \/ Fails(w)

Spec == Init /\ [][Next]_vars

-------------------------------------------------------------------------------
(* Properties                                                              *)

Requests == [ids: Seq(Nat), bytes: Seq(Blocks)]

\* The type invariant.
TypeOK ==
  /\ docs \subseteq [n: Nat, id: Nat, data: Blocks]
  /\ todo \subseteq Uploads /\ acked \subseteq Uploads /\ gets \in 0 .. MaxGets
  /\ pc \in [Workers -> {"idle", "find", "insert", "get"}]
  /\ job \in [Workers -> Requests]
  /\ pos \in [Workers -> Nat] /\ \A w \in Workers : pos[w] <= Len(job[w].ids)
  /\ got \in [Workers -> Seq(Blocks)]
  /\ answer \in [Workers -> {"none", "ok", "chunks", NotInserted, NotFound}]

\* An id has one document, though it is looked up in one step and inserted in a
\* later one (MongoDB::InsertChunk).
OneDocument == \A d, e \in docs : d.id = e.id => d = e

\* A download of the chunks of an upload that was acknowledged never returns
\* anything but that upload's bytes, all of them and in order, though others
\* upload under the same ids (MongoDB::GetChunk, MongoDB::InsertChunk).
RestoresAcked ==
  \A w \in Workers, u \in acked :
    answer[w] = "chunks" /\ pc[w] = "idle" /\ job[w].ids = u.ids => got[w] = u.bytes

\* An acknowledged upload is stored (UploadChunkCommand::Do).
AckedAreStored ==
  \A u \in acked : ChunkDocs(u.ids, u.bytes, Len(u.ids)) \subseteq store

\* The documents of uploads that are over.
Finished ==
  {[id |-> d.id, data |-> d.data] : d \in {e \in docs :
     ~ \E w \in Workers : /\ pc[w] = "insert"
                          /\ \E k \in 1 .. pos[w] : e.id = job[w].ids[k]}}

Collection == INSTANCE ChunkCollection WITH store <- Finished

\* With one worker an upload is checked and inserted as in one step
\* (MongoDB::InsertChunk).
CollectionSpec == Collection!Spec
===============================================================================
