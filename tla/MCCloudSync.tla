------------------------------ MODULE MCCloudSync ------------------------------
EXTENDS OrderlySync, TLC

CONSTANTS d1, d2, p1, p2, a, b

Two == {<<a>>, <<b, a>>}
One == {<<a>>, <<b>>}
Long == {<<a, b>>}

Symmetry == Permutations(Devices)
SymmetryOfBoth == Permutations(Devices) \cup Permutations(Paths)

\* What matters of the queued commands and of the variables of the one under way:
\* a refresh has no path (AnyPath is written and never read), and what a command
\* that is over has left behind is not read again.
Commands(d) ==
  [k \in DOMAIN queue[d] |->
     IF queue[d][k].op = "refresh" THEN <<>> ELSE <<queue[d][k]>>]

Locals(d) ==
  CASE pc[d] = "idle" -> <<>>
    [] pc[d] = "ask" -> <<tmp[d]>>
    [] pc[d] = "apply" -> <<tmp[d], got[d]>>
    [] pc[d] = "save" -> <<info[d].file, info[d].path, info[d].bytes>>
    [] OTHER -> <<info[d]>>

View == <<now, ops, rows, store, db, disk, pc,
          [d \in Devices |-> <<Commands(d), Locals(d)>>]>>
===============================================================================
