------------------------------ MODULE OrderlySync ------------------------------
(***************************************************************************)
(* CloudSync under the discipline the design silently relies on: the user  *)
(* touches one device at a time, when every device has finished its work,  *)
(* and never in the second in which another device last refreshed; writes  *)
(* to a folder only when a refresh would bring that device nothing, rows   *)
(* of its own included; and takes no name that the index of the device     *)
(* already has for a file that is only in the cloud.                       *)
(*                                                                         *)
(* The clock runs all the while, also between the steps of a command: a    *)
(* renaming or a deletion may be dated later than the refresh before it,   *)
(* and then the device's next refresh brings it its own row again.         *)
(***************************************************************************)
EXTENDS CloudSync, FiniteSetsExt

Quiet == \A d \in Devices : pc[d] = "idle" /\ queue[d] = <<>>

\* d may be used: the rows it will write are newer than all the others know.
Turn(d) == Quiet /\ \A e \in Devices \ {d} : db[e].last < now

\* A refresh would bring d nothing, not even a row of its own.
Fresh(d) == \A i \in DOMAIN rows : rows[i].date <= db[d].last

\* A path that is taken for a file is new to the index.
NewNames(d) ==
  \A p \in Paths : Exists(d, p)' => Exists(d, p) \/ ~ HasPath(db[d], p)

OrderlyNext ==
  \/ Tick
  \/ \E d \in Devices : Turn(d) /\ Fresh(d) /\ UserWrites(d) /\ NewNames(d)
  \/ \E d \in Devices : Turn(d) /\ UserReads(d)
  \/ \E d \in Devices : Worker(d)

OrderlySpec == Init /\ [][OrderlyNext]_vars

-------------------------------------------------------------------------------
(* What the devices and the cloud know                                     *)

RowsOf(f) == {i \in DOMAIN rows : rows[i].file = f}

Chunked(f, v) == {i \in RowsOf(f) : rows[i].chunks # <<>> /\ rows[i].ver <= v}

Files == {rows[i].file : i \in DOMAIN rows}

Newest(f) == rows[Max(RowsOf(f))]

\* The bytes of version v of file f; the chunk ids of its newest version.
CloudContent(f, v) == rows[Max(Chunked(f, v))].bytes

CloudChunks(f) == IF Chunked(f, Newest(f).ver) = {} THEN <<>>
                  ELSE rows[Max(Chunked(f, Newest(f).ver))].chunks

ServerView ==
  {[file |-> f, path |-> Newest(f).path, ver |-> Newest(f).ver,
    chunks |-> CloudChunks(f)] :
      f \in {f \in Files : ~ Newest(f).del}}

LocalView(d) ==
  {[file |-> x.id, path |-> x.path, ver |-> x.ver, chunks |-> db[d].chunks[x.id]] :
      x \in db[d].files}

-------------------------------------------------------------------------------
\* An idle device for which a refresh would bring nothing has the cloud's view
\* of every file, down to the file and chunk ids, though both are numbered on
\* each device anew (RefreshCommand::Do, InternalDB::InsertFileInfo,
\* InternalDB::UpdateFileInfo, MetaDataDB::GetUserFilesByTime).
ReplicaMatches ==
  \A d \in Devices :
    pc[d] = "idle" /\ Fresh(d) => LocalView(d) = ServerView

\* A download writes the bytes the cloud has for the version the device's index
\* shows, to the path it shows, whichever device made them
\* (DownloadFileCommand::Do).
DownloadRight ==
  [][\A d \in Devices : DownloadSave(d) =>
       \E x \in db[d].files :
         /\ x.id = info[d].file
         /\ x.path = info[d].path
         /\ Chunked(x.id, x.ver) # {} => info[d].bytes = CloudContent(x.id, x.ver)]_vars

\* The program never removes or overwrites bytes in the folder that are not in
\* the cloud (RefreshCommand::Do, DownloadFileCommand::Do).
NoDataLoss ==
  [][\A d \in Devices : RefreshRow(d) \/ DownloadSave(d) =>
       \A p \in Paths :
         Exists(d, p) /\ disk'[d][p].bytes # disk[d][p].bytes =>
           \E i \in DOMAIN rows : rows[i].bytes = disk[d][p].bytes]_vars

\* A file is deleted in the cloud only because a user deleted it
\* (RefreshCommand::Do, DeleteFileCommand::Do).
DeletionsAreUsers ==
  [][\A d \in Devices : DeleteBegin(d) /\ pc'[d] = "meta" =>
       Head(queue[d]).by = "user"]_vars
===============================================================================
