------------------------------- MODULE MCClient -------------------------------
(***************************************************************************)
(* The parts of the client that share no variable, checked in one run: a   *)
(* behaviour is one of one part, in which the others stay as they began.   *)
(***************************************************************************)
EXTENDS Account, Watcher, CommandQueue, Chunker

VARIABLE part

OnlyPart(p) ==
  /\ part = p /\ UNCHANGED part
  /\ p # "account" => UNCHANGED accountVars
  /\ p # "watcher" => UNCHANGED watcherVars
  /\ p # "queue" => UNCHANGED queueVars
  /\ p # "chunker" => UNCHANGED chunkerVars

Init ==
  /\ part \in {"account", "watcher", "queue", "chunker"}
  /\ AccountInit /\ WatcherInit /\ QueueInit /\ ChunkerInit
  /\ part # "chunker" => file = <<>> /\ opened

Next ==
  \/ OnlyPart("account") /\ AccountNext
  \/ OnlyPart("watcher") /\ WatcherNext
  \/ OnlyPart("queue") /\ QueueNext
  \/ OnlyPart("chunker") /\ ChunkerNext

Spec == Init /\ [][Next]_<<part, accountVars, watcherVars, queueVars, chunkerVars>> /\ QueueFairness

\* The type invariants of the parts.
ClientTypeOK == AccountTypeOK /\ WatcherTypeOK /\ QueueTypeOK /\ ChunkerTypeOK
===============================================================================
