----------------------------- MODULE CloudWorkers -----------------------------
(***************************************************************************)
(* CloudSync with the threads that take its steps. The window's and the    *)
(* watcher's thread put commands into a device's queue, one by one, and    *)
(* call runWorker after each. It starts a worker thread, but not when      *)
(* _isWorkingWorker is set; and that is so until a worker that has found   *)
(* the queue empty comes to clear it.                                      *)
(*                                                                         *)
(* Putting a command there and runWorker's look at the flag are one step:  *)
(* a worker that takes the command in between leaves nothing to be seen.   *)
(* A thread that was started has set the flag before runWorker looks       *)
(* again; CommandQueue has what happens otherwise, as `late`.              *)
(***************************************************************************)
EXTENDS CloudSync

VARIABLES
  worker,  \* per device: "none", a worker "running", or one "leaving", which
           \* has found the queue empty and not yet cleared the flag
  calls,   \* per device: how many commands at the end of the queue have still
           \* to be put there by the thread that queues them
  unseen   \* history: the devices whose last call of runWorker took a worker
           \* that was leaving to be at work

threads == <<worker, calls, unseen>>

ThreadsInit ==
  /\ Init
  /\ worker = [d \in Devices |-> "none"]
  /\ calls = [d \in Devices |-> 0]
  /\ unseen = {}

-------------------------------------------------------------------------------
\* What the step queues is to be put there by a thread other than the worker.
Calls(d) ==
  /\ calls' = [calls EXCEPT ![d] = @ + (Len(queue'[d]) - Len(queue[d]))]
  /\ UNCHANGED <<worker, unseen>>

UserCalls(d) == User(d) /\ Calls(d)

RunWorker(d) ==
  /\ calls[d] > 0
  /\ calls' = [calls EXCEPT ![d] = @ - 1]
  /\ worker' = [worker EXCEPT ![d] = IF @ = "none" THEN "running" ELSE @]
  /\ unseen' = IF worker[d] = "leaving" THEN unseen \cup {d} ELSE unseen \ {d}
  /\ UNCHANGED vars

\* The process has ended, and its threads with it.
NoThreads(d) ==
  /\ worker' = [worker EXCEPT ![d] = "none"]
  /\ calls' = [calls EXCEPT ![d] = 0]
  /\ unseen' = unseen \ {d}

\* A command on a file that is not carried out at all ends the process (Abort).
EndsProcess(d) ==
  /\ pc[d] = "idle" /\ pc'[d] = "idle"
  /\ Head(queue[d]).op \in {"create", "modify", "rename", "delete"}

\* A step of the command, which may be to take the next one: it is there.
RunsCommand(d) ==
  /\ worker[d] = "running"
  /\ pc[d] = "idle" => Len(queue[d]) > calls[d]
  /\ Worker(d)
  /\ IF EndsProcess(d) THEN NoThreads(d)
     ELSE IF pc[d] = "apply" THEN Calls(d)
     ELSE UNCHANGED threads

\* A bug: the worker ends with its command.
LeavesAfterOne(d) ==
  /\ worker[d] = "running"
  /\ pc[d] = "idle"
  /\ worker' = [worker EXCEPT ![d] = "leaving"]
  /\ UNCHANGED <<vars, calls, unseen>>

SeesEmpty(d) ==
  /\ worker[d] = "running"
  /\ pc[d] = "idle"
  /\ Len(queue[d]) = calls[d]
  /\ worker' = [worker EXCEPT ![d] = "leaving"]
  /\ UNCHANGED <<vars, calls, unseen>>

ClearsFlag(d) ==
  /\ worker[d] = "leaving"
  /\ worker' = [worker EXCEPT ![d] = "none"]
  /\ UNCHANGED <<vars, calls, unseen>>

WorkerThread(d) == RunsCommand(d) \/ SeesEmpty(d) \/ ClearsFlag(d)

ThreadsNext ==
  \/ Tick /\ UNCHANGED threads
  \/ \E d \in Devices :
       \/ UserCalls(d) \/ RunWorker(d) \/ WorkerThread(d)
       \/ Crash(d) /\ NoThreads(d)

\* A thread that exists goes on: one that queues commands to its runWorker, a
\* worker through its command, as each request is answered or fails. Nothing
\* says that there is a worker.
ThreadsSpec ==
  /\ ThreadsInit /\ [][ThreadsNext]_<<vars, threads>>
  /\ \A d \in Devices : WF_<<vars, threads>>(RunWorker(d))
                        /\ WF_<<vars, threads>>(WorkerThread(d))

-------------------------------------------------------------------------------
\* Every device again and again has finished what it has to do, though a refresh
\* that removes a file queues two more commands, and though commands may be
\* refused, fail or end the process; or else its last command came while a worker
\* was leaving, and waits for the next one to be queued (App::runWorker,
\* Worker::Run, App::watcherCallback).
Drains ==
  \A d \in Devices : []<>((pc[d] = "idle" /\ queue[d] = <<>>) \/ d \in unseen)
===============================================================================
