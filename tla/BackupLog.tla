------------------------------- MODULE BackupLog -------------------------------
(***************************************************************************)
(* What the cloud promises to all devices of a user: a log of file         *)
(* versions. A version that is in the log stays there as it is, and so do  *)
(* the bytes one gets back for it; versions are only added, one at a time. *)
(* A rename or a deletion has no bytes.                                    *)
(***************************************************************************)
EXTENDS Naturals, Sequences

CONSTANTS Paths, Blocks, MaxFile

VARIABLE log

Version == [file: 1 .. MaxFile, path: Paths, ver: Nat, del: BOOLEAN,
            bytes: Seq(Blocks)]

Init == log = <<>>

Commit(v) ==
  /\ v \in Version
  /\ v.del => v.bytes = <<>>
  /\ log' = Append(log, v)

Next == Len(log') > Len(log) /\ Commit(log'[Len(log')])

Spec == Init /\ [][Next]_log
===============================================================================
