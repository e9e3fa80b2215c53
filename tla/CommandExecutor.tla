---------------------------- MODULE CommandExecutor ----------------------------
(***************************************************************************)
(* What the client means by its queue of commands: they are numbered as    *)
(* they are queued, and run in that order, each once, one at a time.       *)
(***************************************************************************)
EXTENDS Naturals, Sequences

VARIABLES
  queued,    \* how many commands there have been
  ran,       \* the commands that have begun
  running    \* the one that is under way, if any

vars == <<queued, ran, running>>

Init == queued = 0 /\ ran = <<>> /\ running = {}

Queue == queued' = queued + 1 /\ UNCHANGED <<ran, running>>

Begin ==
  LET n == Len(ran) + 1
  IN  /\ running = {} /\ n <= queued
      /\ ran' = Append(ran, n) /\ running' = {n}
      /\ UNCHANGED queued

End == running # {} /\ running' = {} /\ UNCHANGED <<queued, ran>>

Next == Queue \/ Begin \/ End

Spec == Init /\ [][Next]_vars
===============================================================================
