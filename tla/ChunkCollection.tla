---------------------------- MODULE ChunkCollection ----------------------------
(***************************************************************************)
(* The collection "chunks" as the other modules take it: an upload is      *)
(* refused when one of its ids is taken, and else is one step, which may   *)
(* be cut short by a failure.                                              *)
(***************************************************************************)
EXTENDS CloudServers

CONSTANT Uploads   \* requests: [ids, bytes]

VARIABLE store

Init == store = {}

Insert(u, n) ==
  /\ AllAreNew(store, u.ids)
  /\ store' = store \cup ChunkDocs(u.ids, u.bytes, n)

Next == \E u \in Uploads : \E n \in 0 .. Len(u.ids) : Insert(u, n)

Spec == Init /\ [][Next]_store
===============================================================================
