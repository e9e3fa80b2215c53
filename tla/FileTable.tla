------------------------------- MODULE FileTable -------------------------------
(***************************************************************************)
(* Table Files with its Version rows as the other modules take it: an      *)
(* upload is one step, wholly done or not at all.                          *)
(***************************************************************************)
EXTENDS CloudServers

CONSTANT Uploads   \* the FileInfos the devices send

VARIABLE rows

Init == rows = <<>>

Next == \E u \in Uploads : rows' = InsertFile(rows, u)

Spec == Init /\ [][Next]_rows
===============================================================================
