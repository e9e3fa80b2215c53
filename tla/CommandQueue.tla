------------------------------ MODULE CommandQueue ------------------------------
(***************************************************************************)
(* The client's commands: App queues them, from the thread of the window   *)
(* and from that of the watcher, and starts a detached worker thread when  *)
(* _isWorkingWorker is not set. Neither the queue nor the flag has a lock. *)
(*                                                                         *)
(* An operation of std::queue and an access to the flag are one step each. *)
(* Front or pop of an empty queue is undefined: nothing is said of what    *)
(* follows it.                                                             *)
(***************************************************************************)
EXTENDS Naturals, Sequences, FiniteSets

CONSTANTS
  Callers,      \* threads that queue commands
  MaxCommands   \* bound: commands queued

ASSUME CallersAssumption == IsFiniteSet(Callers)
ASSUME CommandsAssumption == MaxCommands \in Nat

VARIABLES
  commands, \* _commands
  working,  \* _isWorkingWorker
  caller,   \* per caller: "idle", "run" before runWorker, and how many
            \* commands of its call are still to be queued
  workers,  \* the worker threads, in the order they were started
  queued,   \* history: how many commands there have been; they are numbered
  ran,      \* history: the commands that were begun
  late,     \* history: runWorker found the flag clear before a thread that had
            \* been started set it
  unseen,   \* history: runWorker found the flag set by a thread that had
            \* already found the queue empty
  broken    \* whether an empty queue was read

queueHistory == <<queued, ran, late, unseen>>
queueVars == <<commands, working, caller, workers, queueHistory, broken>>

QueueInit ==
  /\ commands = <<>> /\ working = FALSE
  /\ caller = [c \in Callers |-> [at |-> "idle", left |-> 0]]
  /\ workers = <<>>
  /\ queued = 0 /\ ran = <<>> /\ late = FALSE /\ unseen = FALSE /\ broken = FALSE

-------------------------------------------------------------------------------
(* The callers                                                             *)

\* How many commands calls have still to queue.
Due == Cardinality({c \in Callers : caller[c].left = 1})

\* Refresh and DownloadFile queue one command; a file event queues a refresh
\* and then its own command, and calls runWorker after each.
Emplace(c) ==
  /\ ~ broken
  /\ caller[c].at = "idle"
  /\ \E left \in {0, 1} :
       /\ left = 1 => caller[c].left = 0
       /\ caller[c].left = 1 \/ queued + Due + left < MaxCommands
       /\ caller' = [caller EXCEPT ![c] = [at |-> "run", left |-> left]]
  /\ commands' = Append(commands, queued + 1)
  /\ queued' = queued + 1
  /\ UNCHANGED <<working, workers, ran, late, unseen, broken>>

SomeWorker(steps) == \E t \in DOMAIN workers : workers[t].at \in steps

\* A new thread, which has not run yet.
NewWorker ==
  /\ workers' = Append(workers, [at |-> "start", cmd |-> 0])
  /\ late' = (late \/ SomeWorker({"start"}))
  /\ UNCHANGED unseen

\* A bug: a worker is started though one is at work.
RunsAnother(c) ==
  /\ ~ broken
  /\ caller[c].at = "run"
  /\ caller' = [caller EXCEPT ![c].at = "idle"]
  /\ NewWorker
  /\ UNCHANGED <<commands, working, queued, ran, broken>>

RunWorker(c) ==
  /\ ~ broken
  /\ caller[c].at = "run"
  /\ caller' = [caller EXCEPT ![c].at = "idle"]
  /\ \/ ~ working /\ NewWorker
     \/ /\ working
        /\ unseen' = (unseen \/ ~ SomeWorker({"start", "check", "front", "pop", "do"}))
        /\ UNCHANGED <<workers, late>>
  /\ UNCHANGED <<commands, working, queued, ran, broken>>

-------------------------------------------------------------------------------
(* Worker::Run                                                             *)

Moves(t, from, to) ==
  /\ ~ broken
  /\ workers[t].at = from
  /\ workers' = [workers EXCEPT ![t].at = to]

SetWorking(t) ==
  /\ Moves(t, "start", "check")
  /\ working' = TRUE
  /\ UNCHANGED <<commands, caller, queueHistory, broken>>

CheckEmpty(t) ==
  /\ Moves(t, "check", IF commands = <<>> THEN "end" ELSE "front")
  /\ UNCHANGED <<commands, working, caller, queueHistory, broken>>

ReadFront(t) ==
  /\ \/ /\ commands # <<>>
        /\ workers[t].at = "front"
        /\ workers' = [workers EXCEPT ![t] = [at |-> "pop", cmd |-> Head(commands)]]
        /\ UNCHANGED broken
     \/ commands = <<>> /\ Moves(t, "front", "gone") /\ broken' = TRUE
  /\ ~ broken
  /\ UNCHANGED <<commands, working, caller, queueHistory>>

\* Whatever is in front is removed, and the command read before is begun.
PopFront(t) ==
  /\ \/ /\ commands # <<>> /\ Moves(t, "pop", "do")
        /\ commands' = Tail(commands)
        /\ ran' = Append(ran, workers[t].cmd)
        /\ UNCHANGED broken
     \/ commands = <<>> /\ Moves(t, "pop", "gone") /\ broken' = TRUE /\ UNCHANGED <<commands, ran>>
  /\ UNCHANGED <<working, caller, queued, late, unseen>>

\* A bug: one command, and the worker ends.
DoneOnce(t) ==
  /\ workers[t].at = "do"
  /\ workers' = [workers EXCEPT ![t] = [at |-> "end", cmd |-> 0]]
  /\ UNCHANGED <<commands, working, caller, queueHistory, broken>>

Done(t) ==
  /\ workers[t].at = "do"
  /\ workers' = [workers EXCEPT ![t] = [at |-> "check", cmd |-> 0]]
  /\ UNCHANGED <<commands, working, caller, queueHistory, broken>>

ClearWorking(t) ==
  /\ Moves(t, "end", "gone")
  /\ working' = FALSE
  /\ UNCHANGED <<commands, caller, queueHistory, broken>>

-------------------------------------------------------------------------------
Works(t) ==
  SetWorking(t) \/ CheckEmpty(t) \/ ReadFront(t) \/ PopFront(t) \/ Done(t) \/ ClearWorking(t)

QueueNext ==
  \/ \E c \in Callers : Emplace(c) \/ RunWorker(c)
  \/ \E t \in DOMAIN workers : Works(t)

QueueSpec == QueueInit /\ [][QueueNext]_queueVars

\* A call that has begun goes on, and so does a thread, whose commands end.
QueueFairness ==
  /\ \A c \in Callers : WF_queueVars(RunWorker(c) \/ (caller[c].left = 1 /\ Emplace(c)))
  /\ \A t \in 1 .. MaxCommands : WF_queueVars(t \in DOMAIN workers /\ Works(t))

-------------------------------------------------------------------------------
(* Properties                                                              *)

\* The type invariant.
QueueTypeOK ==
  /\ queued \in 0 .. MaxCommands
  /\ commands \in Seq(1 .. queued) /\ ran \in Seq(1 .. queued)
  /\ {working, late, unseen, broken} \subseteq BOOLEAN
  /\ caller \in [Callers -> [at: {"idle", "run"}, left: {0, 1}]]
  /\ Len(workers) <= queued
  /\ \A t \in DOMAIN workers :
       /\ workers[t].at \in {"start", "check", "front", "pop", "do", "end", "gone"}
       /\ workers[t].cmd \in 0 .. queued
       /\ workers[t].at \in {"pop", "do"} => workers[t].cmd # 0

\* The commands that are under way.
Running == {workers[t].cmd : t \in {u \in DOMAIN workers : workers[u].at = "do"}}

Executor == INSTANCE CommandExecutor WITH running <- Running

\* As long as every thread sets the flag before runWorker looks at it again,
\* commands from both threads run in the order they were queued, each once and
\* one at a time, and nothing reads an empty queue, however calls fall between
\* a worker's steps (App::runWorker, Worker::Run).
InTurn ==
  /\ Executor!Init
  /\ [][late' \/ Executor!Next]_(Executor!vars)
  /\ [](broken => late)

\* A queue does not stay filled for ever, unless a worker that was about to
\* clear the flag was taken to be at work. That several work at a time does not
\* break this (App::runWorker, Worker::Run).
EveryCommandTaken == commands # <<>> ~> commands = <<>> \/ broken \/ unseen
===============================================================================
