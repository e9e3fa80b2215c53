--------------------------- MODULE ChunkStore_proofs ---------------------------
(***************************************************************************)
(* Proofs about ChunkStore: for any uploads and faults, and for any number *)
(* of workers where it does not say that there is one.                     *)
(***************************************************************************)
EXTENDS ChunkStore, SequenceTheorems, FiniteSetTheorems, TLAPS

\* There is a document with that id and these bytes.
Stored(id, data) == \E d \in docs : d.id = id /\ d.data = data

\* What worker w has inserted or found so far is in the collection.
Serving(w) ==
  /\ pc[w] \in {"find", "insert"} => job[w] \in Uploads
  /\ pc[w] = "insert" =>
       \A k \in 1 .. pos[w] : Stored(job[w].ids[k], job[w].bytes[k])
  /\ pc[w] = "get" \/ answer[w] = "chunks" =>
       /\ Len(got[w]) = pos[w]
       /\ \A k \in 1 .. pos[w] : Stored(job[w].ids[k], got[w][k])
  /\ answer[w] = "chunks" => pos[w] = Len(job[w].ids)
  /\ pc[w] # "idle" => answer[w] = "none"

AllServing == \A w \in Workers : Serving(w)

AckedStored == \A u \in acked : \A k \in 1 .. Len(u.ids) : Stored(u.ids[k], u.bytes[k])

StoreInv == TypeOK /\ IsFiniteSet(docs) /\ AllServing /\ AckedStored

-------------------------------------------------------------------------------
(* Requests and documents                                                  *)

LEMMA FailuresAreOthers ==
  /\ NotFound # "chunks" /\ NotFound # "ok" /\ NotFound # "none"
  /\ NotInserted # "chunks" /\ NotInserted # "ok" /\ NotInserted # "none"
  BY Zenon DEF NotFound, NotInserted

LEMMA UploadIsRequest ==
  ASSUME NEW u \in Uploads
  PROVE  /\ u \in Requests /\ Len(u.ids) \in Nat /\ Len(u.bytes) = Len(u.ids)
         /\ \A i, j \in 1 .. Len(u.ids) : u.ids[i] = u.ids[j] => i = j
         /\ \A k \in 1 .. Len(u.ids) : u.ids[k] \in Nat /\ u.bytes[k] \in Blocks
  <1>1. /\ u \in Requests /\ Len(u.bytes) = Len(u.ids)
        /\ \A i, j \in DOMAIN u.ids : u.ids[i] = u.ids[j] => i = j
    BY UploadsAssumption DEF Requests
  <1>2. u.ids \in Seq(Nat) /\ u.bytes \in Seq(Blocks)
    BY <1>1 DEF Requests
  <1>3. DOMAIN u.ids = 1 .. Len(u.ids) /\ Len(u.ids) \in Nat
    BY <1>2
  <1> QED
    BY <1>1, <1>2, <1>3

LEMMA StoreHas ==
  /\ \A i, b : [id |-> i, data |-> b] \in store <=> Stored(i, b)
  /\ \A i : HasChunk(store, i) <=> \E d \in docs : d.id = i
  <1>1. \A d, i, b : [id |-> i, data |-> b] = [id |-> d.id, data |-> d.data]
                     <=> d.id = i /\ d.data = b
    OBVIOUS
  <1>2. \A c : c \in store <=> \E d \in docs : c = [id |-> d.id, data |-> d.data]
    BY DEF store
  <1>3. \A i, b : [id |-> i, data |-> b] \in store <=> Stored(i, b)
    <2> SUFFICES ASSUME NEW i, NEW b
                 PROVE  [id |-> i, data |-> b] \in store <=> Stored(i, b)
      OBVIOUS
    <2> DEFINE c == [id |-> i, data |-> b]
    <2>1. c \in store <=> \E d \in docs : c = [id |-> d.id, data |-> d.data]
      BY <1>2
    <2>2. \A d : c = [id |-> d.id, data |-> d.data] <=> d.id = i /\ d.data = b
      BY <1>1
    <2> HIDE DEF c
    <2>3. c \in store <=> Stored(i, b)
      BY <2>1, <2>2 DEF Stored
    <2> QED
      BY <2>3 DEF c
  <1>4. \A i : HasChunk(store, i) <=> \E d \in docs : d.id = i
    <2> SUFFICES ASSUME NEW i PROVE HasChunk(store, i) <=> \E d \in docs : d.id = i
      OBVIOUS
    <2>1. ASSUME NEW c \in store, c.id = i PROVE \E d \in docs : d.id = i
      <3>1. PICK d \in docs : c = [id |-> d.id, data |-> d.data]
        BY <1>2
      <3> QED
        BY <2>1, <3>1
    <2>2. ASSUME NEW d \in docs, d.id = i PROVE \E c \in store : c.id = i
      <3>1. [id |-> d.id, data |-> d.data] \in store
        BY <1>2
      <3>2. [id |-> d.id, data |-> d.data].id = i
        BY <2>2
      <3> QED
        BY <3>1, <3>2
    <2> QED
      BY <2>1, <2>2 DEF HasChunk
  <1> QED
    BY <1>3, <1>4

\* No step removes a document.
LEMMA StoredStays ==
  ASSUME docs \subseteq docs'
  PROVE  \A i, b : Stored(i, b) => Stored(i, b)'
  BY DEF Stored

LEMMA ServingStays ==
  ASSUME NEW w, Serving(w), docs \subseteq docs',
         UNCHANGED <<pc[w], job[w], pos[w], got[w], answer[w]>>
  PROVE  Serving(w)'
  BY StoredStays DEF Serving

LEMMA OneWorkerServes ==
  ASSUME StoreInv, NEW w \in Workers, docs \subseteq docs',
         \A v \in Workers \ {w} : UNCHANGED <<pc[v], job[v], pos[v], got[v], answer[v]>>,
         Serving(w)'
  PROVE  AllServing'
  BY ServingStays DEF StoreInv, AllServing

LEMMA AckedStays ==
  ASSUME AckedStored, docs \subseteq docs', UNCHANGED acked
  PROVE  AckedStored'
  BY StoredStays DEF AckedStored

-------------------------------------------------------------------------------
(* Every step keeps the invariant                                          *)

LEMMA StoreInvInit == Init => StoreInv
  <1> SUFFICES ASSUME Init PROVE StoreInv
    OBVIOUS
  <1>1. Nothing \in Requests /\ Nothing.ids = <<>>
    BY DEF Nothing, Requests
  <1>2. TypeOK
    BY <1>1, MaxGetsAssumption DEF Init, TypeOK
  <1>3. IsFiniteSet(docs)
    BY FS_EmptySet DEF Init
  <1> QED
    BY <1>2, <1>3 DEF Init, StoreInv, AllServing, Serving, AckedStored

LEMMA BeginsKeeps ==
  ASSUME StoreInv, NEW w \in Workers, NEW at \in {"find", "get"}, NEW r \in Requests,
         Begins(w, at, r), todo' \subseteq Uploads, gets' \in 0 .. MaxGets,
         at = "find" => r \in Uploads
  PROVE  StoreInv'
  <1>1. /\ pc' = [pc EXCEPT ![w] = at] /\ job' = [job EXCEPT ![w] = r]
        /\ pos' = [pos EXCEPT ![w] = 0] /\ got' = [got EXCEPT ![w] = <<>>]
        /\ answer' = [answer EXCEPT ![w] = "none"] /\ UNCHANGED <<docs, acked>>
    BY DEF Begins
  <1>2. r.ids \in Seq(Nat) /\ Len(r.ids) \in Nat
    BY DEF Requests
  <1>3. TypeOK'
    <2>1. <<>> \in Seq(Blocks)
      OBVIOUS
    <2>2. pos' \in [Workers -> Nat] /\ \A v \in Workers : pos'[v] <= Len(job'[v].ids)
      BY <1>1, <1>2 DEF StoreInv, TypeOK
    <2> QED
      BY <1>1, <2>1, <2>2 DEF StoreInv, TypeOK
  <1>4. /\ pc'[w] = at /\ job'[w] = r /\ pos'[w] = 0 /\ got'[w] = <<>> /\ answer'[w] = "none"
        /\ \A v \in Workers \ {w} : UNCHANGED <<pc[v], job[v], pos[v], got[v], answer[v]>>
    BY <1>1 DEF StoreInv, TypeOK
  <1>5. Serving(w)'
    BY <1>4 DEF Serving
  <1>6. AllServing'
    BY <1>1, <1>4, <1>5, OneWorkerServes
  <1> QED
    BY <1>1, <1>3, <1>6, AckedStays DEF StoreInv

LEMMA ReceivesKeep ==
  ASSUME StoreInv, NEW w \in Workers, ReceiveUpload(w) \/ ReceiveDownload(w)
  PROVE  StoreInv'
  <1>1. CASE ReceiveUpload(w)
    <2>1. PICK u \in todo : Begins(w, "find", u) /\ todo' = todo \ {u} /\ UNCHANGED gets
      BY <1>1 DEF ReceiveUpload
    <2>2. u \in Uploads /\ todo' \subseteq Uploads /\ gets' \in 0 .. MaxGets
      BY <2>1 DEF StoreInv, TypeOK
    <2> QED
      BY <2>1, <2>2, UploadIsRequest, BeginsKeeps
  <1>2. CASE ReceiveDownload(w)
    <2>1. PICK u \in Uploads : Begins(w, "get", [u EXCEPT !.bytes = <<>>])
      BY <1>2 DEF ReceiveDownload
    <2>2. [u EXCEPT !.bytes = <<>>] \in Requests
      <3>1. u \in [ids: Seq(Nat), bytes: Seq(Blocks)] /\ <<>> \in Seq(Blocks)
        BY UploadIsRequest DEF Requests
      <3> QED
        BY <3>1 DEF Requests
    <2>3. UNCHANGED todo /\ gets' \in 0 .. MaxGets
      BY <1>2, MaxGetsAssumption DEF ReceiveDownload, StoreInv, TypeOK
    <2> QED
      BY <2>1, <2>2, <2>3, BeginsKeeps DEF StoreInv, TypeOK
  <1> QED
    BY <1>1, <1>2

LEMMA StopsKeep ==
  ASSUME StoreInv, Crash \/ \E w \in Workers : Fails(w)
  PROVE  StoreInv'
  <1>1. /\ UNCHANGED <<docs, todo, gets, job, pos, got, acked>>
        /\ \A v \in Workers :
             \/ UNCHANGED <<pc[v], answer[v]>>
             \/ pc'[v] = "idle" /\ answer'[v] = answer[v]
             \/ /\ pc'[v] = "idle"
                /\ answer'[v] \in {NotFound, NotInserted}
    BY DEF Crash, Fails, Answers, StoreInv, TypeOK
  <1>2. TypeOK'
    BY <1>1 DEF Crash, Fails, Answers, StoreInv, TypeOK
  <1>3. AllServing'
    <2> SUFFICES ASSUME NEW v \in Workers, Serving(v) PROVE Serving(v)'
      BY DEF StoreInv, AllServing
    <2>1. CASE UNCHANGED <<pc[v], answer[v]>>
      BY <1>1, <2>1, ServingStays
    <2>2. CASE pc'[v] = "idle" /\ answer'[v] \in {answer[v], NotFound, NotInserted}
      BY <1>1, <2>2, StoredStays, FailuresAreOthers DEF Serving
    <2> QED
      BY <1>1, <2>1, <2>2
  <1> QED
    BY <1>1, <1>2, <1>3, AckedStays DEF StoreInv

LEMMA FindsKeeps ==
  ASSUME StoreInv, NEW w \in Workers, Finds(w)
  PROVE  StoreInv'
  <1>1. UNCHANGED <<docs, todo, gets, job, got, acked>> /\ pc[w] = "find"
    BY DEF Finds
  <1>2. /\ \A v \in Workers \ {w} : UNCHANGED <<pc[v], pos[v], answer[v]>>
        /\ \/ /\ pos[w] # Len(job[w].ids) /\ pos'[w] = pos[w] + 1
              /\ pc'[w] = "find" /\ answer'[w] = answer[w]
           \/ /\ pc'[w] = "idle" /\ pos'[w] = pos[w] /\ answer'[w] = NotInserted
           \/ /\ pc'[w] = "insert" /\ pos'[w] = 0 /\ answer'[w] = answer[w]
    BY DEF Finds, Answers, Advance, AllDone, StoreInv, TypeOK
  <1>3. Len(job[w].ids) \in Nat /\ pos[w] \in Nat /\ pos[w] <= Len(job[w].ids)
    BY UploadIsRequest, <1>1 DEF StoreInv, TypeOK, AllServing, Serving
  <1>4. TypeOK'
    <2>1. \A v \in Workers : pos'[v] \in Nat /\ pos'[v] <= Len(job'[v].ids)
      <3>1. pos'[w] \in Nat /\ pos'[w] <= Len(job[w].ids)
        BY <1>2, <1>3
      <3>2. \A v \in Workers \ {w} : pos'[v] = pos[v]
        BY <1>2
      <3> QED
        BY <1>1, <3>1, <3>2 DEF StoreInv, TypeOK
    <2>2. pos' \in [Workers -> Nat]
      BY <2>1 DEF Finds, Answers, Advance, StoreInv, TypeOK
    <2>3. /\ pc' \in [Workers -> {"idle", "find", "insert", "get"}]
          /\ answer' \in [Workers -> {"none", "ok", "chunks", NotInserted, NotFound}]
      BY DEF Finds, Answers, StoreInv, TypeOK
    <2> QED
      BY <1>1, <2>1, <2>2, <2>3 DEF StoreInv, TypeOK
  <1>5. Serving(w)'
    BY <1>1, <1>2, <1>3, FailuresAreOthers DEF StoreInv, AllServing, Serving
  <1>6. AllServing'
    BY <1>1, <1>2, <1>5, OneWorkerServes
  <1> QED
    BY <1>1, <1>4, <1>6, AckedStays DEF StoreInv

LEMMA InsertsKeeps ==
  ASSUME StoreInv, NEW w \in Workers, Inserts(w)
  PROVE  StoreInv'
  <1>1. /\ UNCHANGED <<todo, gets, job, got>> /\ pc[w] = "insert"
        /\ job[w] \in Uploads /\ Len(job[w].ids) \in Nat
        /\ pos[w] \in Nat /\ pos[w] <= Len(job[w].ids)
    BY UploadIsRequest DEF Inserts, StoreInv, TypeOK, AllServing, Serving
  <1>2. CASE ~ AllDone(w)
    <2>0. PICK u, n, d :
            /\ u \in Uploads /\ u = job[w] /\ n = pos[w]
            /\ d = [n |-> Cardinality(docs) + 1, id |-> Chunk(w),
                    data |-> job[w].bytes[pos[w] + 1]]
      BY <1>1
    <2>1. n \in Nat /\ n + 1 \in 1 .. Len(u.ids) /\ Len(u.ids) \in Nat
      BY <1>1, <1>2, <2>0 DEF AllDone
    <2>2. /\ d.id = u.ids[n + 1] /\ d.data = u.bytes[n + 1]
          /\ d \in [n: Nat, id: Nat, data: Blocks]
      <3>1. Cardinality(docs) \in Nat
        BY FS_CardinalityType DEF StoreInv
      <3> QED
        BY <2>0, <2>1, <3>1, UploadIsRequest DEF Chunk
    <2>3. /\ docs' = docs \cup {d} /\ pos' = [pos EXCEPT ![w] = n + 1]
          /\ UNCHANGED <<pc, answer, acked>>
      BY <1>2, <2>0 DEF Inserts, Advance
    <2>4. IsFiniteSet(docs')
      BY <2>3, FS_AddElement DEF StoreInv
    <2>5. pos'[w] = n + 1 /\ job'[w] = u /\ \A v \in Workers \ {w} : pos'[v] = pos[v]
      BY <1>1, <2>0, <2>3 DEF StoreInv, TypeOK
    <2>6. TypeOK'
      BY <1>1, <2>0, <2>1, <2>2, <2>3, <2>5 DEF StoreInv, TypeOK
    <2>7. Serving(w)'
      <3>1. Stored(u.ids[n + 1], u.bytes[n + 1])'
        BY <2>2, <2>3 DEF Stored
      <3>2. \A k \in 1 .. n : Stored(u.ids[k], u.bytes[k])
        BY <1>1, <2>0 DEF StoreInv, AllServing, Serving
      <3>3. \A k \in 1 .. n : Stored(u.ids[k], u.bytes[k])'
        BY <2>3, <3>2, StoredStays
      <3>4. \A k \in 1 .. n + 1 : Stored(u.ids[k], u.bytes[k])'
        BY <2>1, <3>1, <3>3
      <3> QED
        BY <1>1, <2>3, <2>5, <3>4 DEF StoreInv, AllServing, Serving
    <2>8. AllServing'
      BY <1>1, <2>3, <2>5, <2>7, OneWorkerServes
    <2> QED
      BY <2>3, <2>4, <2>6, <2>8, AckedStays DEF StoreInv
  <1>3. CASE AllDone(w)
    <2>1. /\ pc' = [pc EXCEPT ![w] = "idle"] /\ answer' = [answer EXCEPT ![w] = "ok"]
          /\ acked' = acked \cup {job[w]} /\ UNCHANGED <<docs, pos>>
      BY <1>3 DEF Inserts, Answers
    <2>2. TypeOK'
      BY <1>1, <2>1 DEF StoreInv, TypeOK
    <2>3. /\ pc'[w] = "idle" /\ answer'[w] = "ok"
          /\ \A v \in Workers \ {w} : UNCHANGED <<pc[v], answer[v]>>
      BY <2>1 DEF StoreInv, TypeOK
    <2>4. Serving(w)'
      BY <2>3 DEF Serving
    <2>5. AllServing'
      BY <1>1, <2>1, <2>3, <2>4, OneWorkerServes
    <2>6. \A k \in 1 .. Len(job[w].ids) : Stored(job[w].ids[k], job[w].bytes[k])
      BY <1>1, <1>3 DEF AllDone, StoreInv, AllServing, Serving
    <2>7. AckedStored'
      BY <2>1, <2>6, StoredStays DEF StoreInv, AckedStored
    <2> QED
      BY <2>1, <2>2, <2>5, <2>7 DEF StoreInv
  <1> QED
    BY <1>2, <1>3

LEMMA GetsKeeps ==
  ASSUME StoreInv, NEW w \in Workers, Gets(w)
  PROVE  StoreInv'
  <1>1. /\ UNCHANGED <<docs, todo, gets, job, acked>> /\ pc[w] = "get"
        /\ pos[w] \in Nat /\ pos[w] <= Len(job[w].ids) /\ got[w] \in Seq(Blocks)
        /\ Len(got[w]) = pos[w] /\ Len(job[w].ids) \in Nat
    <2>1. job[w].ids \in Seq(Nat)
      BY DEF StoreInv, TypeOK, Requests
    <2> QED
      BY <2>1 DEF Gets, StoreInv, TypeOK, AllServing, Serving
  <1>2. ASSUME ~ AllDone(w), Advance(w), UNCHANGED <<pc, answer>>,
               NEW d \in docs, d.id = Chunk(w), got' = [got EXCEPT ![w] = Append(@, d.data)]
        PROVE  StoreInv'
    <2>0. PICK r, n, g : r = job[w] /\ n = pos[w] /\ g = Append(got[w], d.data)
      OBVIOUS
    <2>1. /\ n \in Nat /\ n + 1 <= Len(r.ids) /\ Len(r.ids) \in Nat
          /\ d.data \in Blocks /\ d.id = r.ids[n + 1]
      BY <1>1, <1>2, <2>0 DEF AllDone, Chunk, StoreInv, TypeOK
    <2>2. /\ g \in Seq(Blocks) /\ Len(g) = n + 1 /\ g[n + 1] = d.data
          /\ \A k \in 1 .. n : g[k] = got[w][k]
      BY <1>1, <2>0, <2>1, AppendProperties
    <2>3. pos' = [pos EXCEPT ![w] = n + 1] /\ got' = [got EXCEPT ![w] = g]
      BY <1>2, <2>0 DEF Advance
    <2>4. /\ pos'[w] = n + 1 /\ got'[w] = g /\ job'[w] = r
          /\ \A v \in Workers \ {w} : UNCHANGED <<pos[v], got[v]>>
      BY <1>1, <2>0, <2>3 DEF StoreInv, TypeOK
    <2>5. TypeOK'
      BY <1>1, <1>2, <2>0, <2>1, <2>2, <2>3, <2>4 DEF StoreInv, TypeOK
    <2>6. \A k \in 1 .. n + 1 : Stored(r.ids[k], g[k])
      <3>1. Stored(r.ids[n + 1], g[n + 1])
        BY <2>1, <2>2 DEF Stored
      <3>2. \A k \in 1 .. n : Stored(r.ids[k], got[w][k])
        BY <1>1, <2>0 DEF StoreInv, AllServing, Serving
      <3> QED
        BY <2>1, <2>2, <3>1, <3>2
    <2>7. \A k \in 1 .. n + 1 : Stored(r.ids[k], g[k])'
      BY <1>1, <2>6, StoredStays
    <2>8. Serving(w)'
      BY <1>1, <1>2, <2>2, <2>4, <2>7 DEF StoreInv, AllServing, Serving
    <2> QED
      BY <1>1, <1>2, <2>4, <2>5, <2>8, OneWorkerServes, AckedStays DEF StoreInv
  <1>3. CASE /\ UNCHANGED <<pos, got>>
             /\ \/ Answers(w, NotFound)
                \/ AllDone(w) /\ Answers(w, "chunks")
    <2>1. TypeOK'
      BY <1>1, <1>3 DEF Answers, StoreInv, TypeOK
    <2>2. /\ pc'[w] = "idle" /\ answer'[w] \in {NotFound, "chunks"}
          /\ answer'[w] = "chunks" => AllDone(w)
          /\ \A v \in Workers \ {w} : UNCHANGED <<pc[v], answer[v]>>
      BY <1>3, FailuresAreOthers DEF Answers, StoreInv, TypeOK
    <2>3. Serving(w)'
      BY <1>1, <1>3, <2>2, StoredStays DEF StoreInv, AllServing, Serving, AllDone
    <2> QED
      BY <1>1, <1>3, <2>1, <2>2, <2>3, OneWorkerServes, AckedStays DEF StoreInv
  <1> QED
    BY <1>2, <1>3 DEF Gets

LEMMA StoreInvKept ==
  ASSUME StoreInv, [Next]_vars
  PROVE  StoreInv'
  <1>1. CASE UNCHANGED vars
    <2>1. UNCHANGED <<docs, todo, gets, pc, job, pos, got, answer, acked>>
      BY <1>1 DEF vars
    <2>2. TypeOK'
      BY <2>1 DEF StoreInv, TypeOK
    <2>3. AllServing'
      BY <2>1, ServingStays DEF StoreInv, AllServing
    <2> QED
      BY <2>1, <2>2, <2>3, AckedStays DEF StoreInv
  <1>2. CASE Crash \/ \E w \in Workers : Fails(w)
    BY <1>2, StopsKeep
  <1>3. ASSUME NEW w \in Workers, ReceiveUpload(w) \/ ReceiveDownload(w) PROVE StoreInv'
    BY <1>3, ReceivesKeep
  <1>4. ASSUME NEW w \in Workers, Finds(w) \/ Inserts(w) \/ Gets(w) PROVE StoreInv'
    BY <1>4, FindsKeeps, InsertsKeeps, GetsKeeps
  <1> QED
    BY <1>1, <1>2, <1>3, <1>4 DEF Next

-------------------------------------------------------------------------------
(* One worker                                                              *)

Taken(i) == \E d \in docs : d.id = i

\* While the one worker w looks ids up, and until it has inserted a document,
\* nobody else takes its id.
Alone(w) ==
  /\ OneDocument
  /\ pc[w] = "find" => \A k \in 1 .. pos[w] : ~ Taken(job[w].ids[k])
  /\ pc[w] = "insert" =>
       \A k \in 1 .. Len(job[w].ids) : k > pos[w] => ~ Taken(job[w].ids[k])

LEMMA AloneInit ==
  ASSUME Init, NEW w \in Workers
  PROVE  Alone(w)
  BY DEF Init, Alone, OneDocument

\* The document that an insertion adds, with the id of the chunk that is due.
LEMMA DueIsNew ==
  ASSUME StoreInv, NEW w \in Workers, Alone(w), Inserts(w), ~ AllDone(w)
  PROVE  \E u, n, d :
           /\ u \in Uploads /\ u = job[w] /\ n \in Nat /\ n = pos[w]
           /\ n + 1 \in 1 .. Len(u.ids) /\ Len(u.ids) \in Nat
           /\ docs' = docs \cup {d} /\ d.id = u.ids[n + 1] /\ ~ Taken(d.id)
           /\ pc[w] = "insert" /\ pc'[w] = "insert" /\ pos'[w] = n + 1 /\ job'[w] = u
  <1>1. pc[w] = "insert" /\ UNCHANGED <<pc, job>>
    BY DEF Inserts
  <1>2. /\ job[w] \in Uploads /\ Len(job[w].ids) \in Nat
        /\ pos[w] \in Nat /\ pos[w] <= Len(job[w].ids)
    BY <1>1, UploadIsRequest DEF StoreInv, TypeOK, AllServing, Serving
  <1>3. PICK d : /\ docs' = docs \cup {d} /\ d.id = Chunk(w)
                 /\ pos' = [pos EXCEPT ![w] = pos[w] + 1]
    <2> DEFINE d == [n |-> Cardinality(docs) + 1, id |-> Chunk(w),
                     data |-> job[w].bytes[pos[w] + 1]]
    <2>1. docs' = docs \cup {d} /\ pos' = [pos EXCEPT ![w] = pos[w] + 1]
      BY DEF Inserts, Advance
    <2>2. d.id = Chunk(w)
      OBVIOUS
    <2> QED
      BY <2>1, <2>2
  <1>4. pos'[w] = pos[w] + 1 /\ pos[w] + 1 \in 1 .. Len(job[w].ids)
    BY <1>2, <1>3 DEF AllDone, StoreInv, TypeOK
  <1>5. ~ Taken(job[w].ids[pos[w] + 1])
    BY <1>1, <1>2, <1>4 DEF Alone
  <1> QED
    BY <1>1, <1>2, <1>3, <1>4, <1>5 DEF Chunk

LEMMA AloneKept ==
  ASSUME StoreInv, NEW w, Workers = {w}, Alone(w), [Next]_vars
  PROVE  Alone(w)'
  <1>1. CASE Inserts(w) /\ ~ AllDone(w)
    <2>1. PICK u, n, d :
            /\ u \in Uploads /\ u = job[w] /\ n \in Nat /\ n = pos[w]
            /\ n + 1 \in 1 .. Len(u.ids) /\ Len(u.ids) \in Nat
            /\ docs' = docs \cup {d} /\ d.id = u.ids[n + 1] /\ ~ Taken(d.id)
            /\ pc[w] = "insert" /\ pc'[w] = "insert" /\ pos'[w] = n + 1 /\ job'[w] = u
      BY <1>1, DueIsNew
    <2>2. OneDocument'
      BY <2>1 DEF Alone, OneDocument, Taken
    <2>3. \A k \in 1 .. Len(u.ids) : k > n + 1 => ~ Taken(u.ids[k])'
      <3>1. ASSUME NEW k \in 1 .. Len(u.ids), k > n + 1 PROVE ~ Taken(u.ids[k])'
        <4>1. u.ids[k] # d.id
          BY <2>1, <3>1, UploadIsRequest
        <4>2. ~ Taken(u.ids[k])
          BY <2>1, <3>1 DEF Alone
        <4> QED
          BY <2>1, <4>1, <4>2 DEF Taken
      <3> QED
        BY <3>1
    <2> QED
      BY <2>1, <2>2, <2>3 DEF Alone
  <1>2. CASE Finds(w)
    <2>1. UNCHANGED <<docs, job>> /\ pc[w] = "find" /\ pos[w] \in Nat /\ Len(job[w].ids) \in Nat
      BY <1>2, UploadIsRequest DEF Finds, StoreInv, TypeOK, AllServing, Serving
    <2>2. \A i : Taken(i)' = Taken(i)
      BY <2>1 DEF Taken
    <2>3. CASE ~ AllDone(w) /\ ~ HasChunk(store, Chunk(w)) /\ Advance(w) /\ UNCHANGED pc
      <3>1. pos'[w] = pos[w] + 1 /\ ~ Taken(job[w].ids[pos[w] + 1])
        BY <2>3, StoreHas DEF Advance, Chunk, Taken, StoreInv, TypeOK
      <3>2. \A k \in 1 .. pos[w] + 1 : k = pos[w] + 1 \/ k \in 1 .. pos[w]
        BY <2>1
      <3>3. PICK n : n = pos[w] + 1
        OBVIOUS
      <3>4. \A k \in 1 .. n : ~ Taken(job[w].ids[k])
        BY <2>1, <3>1, <3>2, <3>3 DEF Alone
      <3> QED
        BY <2>1, <2>2, <2>3, <3>1, <3>3, <3>4 DEF Alone, OneDocument
    <2>4. CASE pc' = [pc EXCEPT ![w] = "idle"]
      BY <2>1, <2>4 DEF Alone, OneDocument, StoreInv, TypeOK
    <2>5. CASE AllDone(w) /\ pc' = [pc EXCEPT ![w] = "insert"]
      BY <2>1, <2>2, <2>5 DEF Alone, OneDocument, AllDone, StoreInv, TypeOK
    <2> QED
      BY <1>2, <2>3, <2>4, <2>5 DEF Finds, Answers
  <1>3. CASE /\ UNCHANGED docs
             /\ \/ pc'[w] \in {"idle", "get"}
                \/ pc'[w] = "find" /\ pos'[w] = 0
                \/ UNCHANGED <<pc, pos, job>>
    BY <1>3 DEF Alone, OneDocument, Taken
  <1>4. ASSUME ReceiveUpload(w) \/ ReceiveDownload(w) \/ Gets(w) \/ Fails(w) \/ Crash
        PROVE  /\ UNCHANGED docs
               /\ \/ pc'[w] \in {"idle", "get"}
                  \/ pc'[w] = "find" /\ pos'[w] = 0
                  \/ UNCHANGED <<pc, pos, job>>
    BY <1>4 DEF ReceiveUpload, ReceiveDownload, Begins, Gets, Fails, Crash, Answers, StoreInv, TypeOK
  <1>5. Inserts(w) /\ AllDone(w) => UNCHANGED docs /\ pc'[w] = "idle"
    BY DEF Inserts, Answers, StoreInv, TypeOK
  <1> QED
    BY <1>1, <1>2, <1>3, <1>4, <1>5 DEF Next, vars

-------------------------------------------------------------------------------
(* The collection as the other modules take it                             *)

\* A document of an upload that is not over.
InProgress(d) ==
  \E w \in Workers : pc[w] = "insert" /\ \E k \in 1 .. pos[w] : d.id = job[w].ids[k]

Over == {d \in docs : ~ InProgress(d)}

LEMMA FinishedIs ==
  /\ Finished = {[id |-> d.id, data |-> d.data] : d \in Over}
  /\ Finished' = {[id |-> d.id, data |-> d.data] : d \in Over'}
  BY DEF Finished, Over, InProgress

\* A step seen from outside.
LEMMA OverChanges ==
  ASSUME StoreInv, NEW w, Workers = {w}, Alone(w), [Next]_vars
  PROVE  \/ Over' = Over
         \/ /\ pc[w] = "insert" /\ pc'[w] = "idle" /\ Over' = docs
            /\ \A d \in docs : InProgress(d) <=> \E k \in 1 .. pos[w] : d.id = job[w].ids[k]
  <1>1. CASE Inserts(w) /\ ~ AllDone(w)
    <2>1. PICK u, n, d :
            /\ u \in Uploads /\ u = job[w] /\ n \in Nat /\ n = pos[w]
            /\ n + 1 \in 1 .. Len(u.ids) /\ Len(u.ids) \in Nat
            /\ docs' = docs \cup {d} /\ d.id = u.ids[n + 1] /\ ~ Taken(d.id)
            /\ pc[w] = "insert" /\ pc'[w] = "insert" /\ pos'[w] = n + 1 /\ job'[w] = u
      BY <1>1, DueIsNew
    <2>2. \A e : InProgress(e) <=> \E k \in 1 .. n : e.id = u.ids[k]
      BY <2>1 DEF InProgress
    <2>3. \A e : InProgress(e)' <=> \E k \in 1 .. n + 1 : e.id = u.ids[k]
      BY <2>1 DEF InProgress
    <2>4. InProgress(d)'
      BY <2>1, <2>3
    <2>5. \A e \in docs : InProgress(e)' <=> InProgress(e)
      <3>1. \A e \in docs : e.id # u.ids[n + 1]
        BY <2>1 DEF Taken
      <3>2. \A k \in 1 .. n + 1 : k = n + 1 \/ k \in 1 .. n
        BY <2>1
      <3> QED
        BY <2>1, <2>2, <2>3, <3>1, <3>2
    <2> QED
      BY <2>1, <2>4, <2>5 DEF Over
  <1>2. CASE UNCHANGED docs /\ pc[w] # "insert" /\ (pc'[w] = "insert" => pos'[w] = 0)
    BY <1>2 DEF Over, InProgress
  <1>3. CASE UNCHANGED docs /\ pc[w] = "insert" /\ pc'[w] = "idle"
    BY <1>3 DEF Over, InProgress
  <1>4. CASE UNCHANGED vars
    BY <1>4 DEF vars, Over, InProgress
  <1>5. Crash \/ Fails(w) \/ (Inserts(w) /\ AllDone(w)) => UNCHANGED docs /\ pc'[w] = "idle"
    BY DEF Crash, Fails, Inserts, Answers, StoreInv, TypeOK
  <1>6. ReceiveUpload(w) \/ ReceiveDownload(w) \/ Finds(w) \/ Gets(w) =>
          UNCHANGED docs /\ pc[w] # "insert" /\ (pc'[w] = "insert" => pos'[w] = 0)
    BY DEF ReceiveUpload, ReceiveDownload, Begins, Finds, Gets, Answers, StoreInv, TypeOK
  <1> QED
    BY <1>1, <1>2, <1>3, <1>4, <1>5, <1>6 DEF Next

LEMMA StepIsInsert ==
  ASSUME StoreInv, NEW w, Workers = {w}, Alone(w), [Next]_vars
  PROVE  [Collection!Next]_Finished
  <1>1. CASE Over' = Over
    BY <1>1, FinishedIs
  <1>2. CASE /\ pc[w] = "insert" /\ pc'[w] = "idle" /\ Over' = docs
             /\ \A d \in docs : InProgress(d) <=> \E k \in 1 .. pos[w] : d.id = job[w].ids[k]
    <2>0. PICK u \in Uploads, n \in Nat :
            u = job[w] /\ n = pos[w] /\ Len(u.ids) \in Nat /\ n \in 0 .. Len(u.ids)
      BY <1>2, UploadIsRequest DEF StoreInv, TypeOK, AllServing, Serving
    <2>1. Collection!AllAreNew(Finished, u.ids)
      <3> SUFFICES ASSUME NEW k \in DOMAIN u.ids, NEW c \in Finished, c.id = u.ids[k]
                   PROVE  FALSE
        BY DEF Collection!AllAreNew, Collection!HasChunk
      <3>1. PICK d \in docs : ~ InProgress(d) /\ d.id = u.ids[k]
        BY FinishedIs DEF Over
      <3>2. k \in 1 .. Len(u.ids)
        BY <2>0 DEF Requests
      <3>3. k > n
        BY <1>2, <2>0, <3>1, <3>2
      <3> QED
        BY <1>2, <2>0, <3>1, <3>2, <3>3 DEF Alone, Taken
    <2>2. Finished' = Finished \cup Collection!ChunkDocs(u.ids, u.bytes, n)
      <3>1. Finished' = {[id |-> d.id, data |-> d.data] : d \in docs}
        BY <1>2, FinishedIs
      <3>2. ASSUME NEW d \in docs
            PROVE  [id |-> d.id, data |-> d.data]
                     \in Finished \cup Collection!ChunkDocs(u.ids, u.bytes, n)
        <4>1. CASE ~ InProgress(d)
          BY <4>1, FinishedIs DEF Over
        <4>2. CASE InProgress(d)
          <5>1. PICK k \in 1 .. n : d.id = u.ids[k]
            BY <1>2, <2>0, <4>2
          <5>2. PICK e \in docs : e.id = u.ids[k] /\ e.data = u.bytes[k]
            BY <1>2, <2>0 DEF StoreInv, AllServing, Serving, Stored
          <5>3. d = e
            BY <5>1, <5>2 DEF Alone, OneDocument
          <5> QED
            BY <5>1, <5>2, <5>3 DEF Collection!ChunkDocs
        <4> QED
          BY <4>1, <4>2
      <3>3. ASSUME NEW k \in 1 .. n
            PROVE  [id |-> u.ids[k], data |-> u.bytes[k]] \in Finished'
        <4>1. PICK e \in docs : e.id = u.ids[k] /\ e.data = u.bytes[k]
          BY <1>2, <2>0 DEF StoreInv, AllServing, Serving, Stored
        <4> QED
          BY <3>1, <4>1
      <3>4. Finished \subseteq Finished'
        BY <3>1, FinishedIs DEF Over
      <3> QED
        BY <3>1, <3>2, <3>3, <3>4 DEF Collection!ChunkDocs
    <2> QED
      BY <2>0, <2>1, <2>2 DEF Collection!Next, Collection!Insert
  <1> QED
    BY <1>1, <1>2, OverChanges

-------------------------------------------------------------------------------
(* The theorems                                                            *)

THEOREM StoreInvariant == Spec => []StoreInv
  BY StoreInvInit, StoreInvKept, PTL DEF Spec

\* The states of all variables (ChunkStore).
THEOREM StoreTypes == Spec => []TypeOK
  BY StoreInvariant, PTL DEF StoreInv

\* An upload is acknowledged only when every document is in the collection, and
\* none is ever removed, for any number of workers (UploadChunkCommand::Do).
THEOREM AcknowledgedIsStored == Spec => []AckedAreStored
  <1>1. StoreInv => AckedAreStored
    <2> SUFFICES ASSUME StoreInv, NEW u \in acked, NEW k \in 1 .. Len(u.ids)
                 PROVE  [id |-> u.ids[k], data |-> u.bytes[k]] \in store
      BY DEF AckedAreStored, ChunkDocs
    <2>1. Stored(u.ids[k], u.bytes[k])
      BY DEF StoreInv, AckedStored
    <2> QED
      BY <2>1, StoreHas
  <1> QED
    BY <1>1, StoreInvariant, PTL

LEMMA AloneInvariant ==
  ASSUME NEW w, Workers = {w}
  PROVE  Spec => []Alone(w)
  <1>1. Init => Alone(w)
    BY AloneInit
  <1>2. StoreInv /\ Alone(w) /\ [Next]_vars => Alone(w)'
    BY AloneKept
  <1> QED
    BY <1>1, <1>2, StoreInvariant, PTL DEF Spec

\* With one worker, looking the ids up and inserting in a later step is enough
\* for an id to have one document (MongoDB::InsertChunk).
THEOREM IdsAreUnique ==
  ASSUME NEW w, Workers = {w}
  PROVE  Spec => []OneDocument
  <1>1. Alone(w) => OneDocument
    BY DEF Alone
  <1> QED
    BY <1>1, AloneInvariant, PTL

\* With one worker, a download of an acknowledged upload's chunks is that
\* upload's bytes (MongoDB::GetChunk).
THEOREM DownloadsAreRight ==
  ASSUME NEW w, Workers = {w}
  PROVE  Spec => []RestoresAcked
  <1>1. StoreInv /\ Alone(w) => RestoresAcked
    <2> SUFFICES ASSUME StoreInv, OneDocument, NEW v \in Workers, NEW u \in acked,
                        answer[v] = "chunks", job[v].ids = u.ids
                 PROVE  got[v] = u.bytes
      BY DEF RestoresAcked, Alone
    <2>1. /\ u.bytes \in Seq(Blocks) /\ Len(u.bytes) = Len(u.ids) /\ Len(u.ids) \in Nat
          /\ got[v] \in Seq(Blocks) /\ Len(got[v]) = Len(u.ids)
      <3>1. u \in Uploads
        BY DEF StoreInv, TypeOK
      <3> QED
        BY <3>1, UploadIsRequest DEF StoreInv, TypeOK, AllServing, Serving, Requests
    <2>2. ASSUME NEW k \in 1 .. Len(u.ids) PROVE got[v][k] = u.bytes[k]
      <3>1. Stored(u.ids[k], got[v][k]) /\ Stored(u.ids[k], u.bytes[k])
        BY DEF StoreInv, AllServing, Serving, AckedStored
      <3> QED
        BY <3>1 DEF Stored, OneDocument
    <2> QED
      BY <2>1, <2>2, SeqEqual
  <1> QED
    BY <1>1, AloneInvariant, StoreInvariant, PTL

\* With one worker, an upload is seen as one step that is refused when an id is
\* taken, and may be cut short (MongoDB::InsertChunk).
THEOREM UploadsAreOneStep ==
  ASSUME NEW w, Workers = {w}
  PROVE  Spec => CollectionSpec
  <1>1. Init => Collection!Init
    BY DEF Init, Collection!Init, Finished
  <1>2. StoreInv /\ Alone(w) /\ [Next]_vars => [Collection!Next]_Finished
    BY StepIsInsert
  <1> QED
    BY <1>1, <1>2, AloneInvariant, StoreInvariant, PTL DEF Spec, CollectionSpec, Collection!Spec
===============================================================================
