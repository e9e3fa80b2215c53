-------------------------------- MODULE Watcher --------------------------------
(***************************************************************************)
(* The watcher of a device (Linux): inotify reports what the user does in  *)
(* the synchronised folder; Watcher::runOnce makes notifications of it,    *)
(* for each of which App queues a command that updates the index.          *)
(*                                                                         *)
(* A notification is followed through to the index at once, with what the  *)
(* file contains then. Events the watcher skips because of the name of     *)
(* their file are left out, and directories that are moved.                *)
(***************************************************************************)
EXTENDS Naturals, Sequences

CONSTANTS
  RootFiles,  \* names of files in the folder,
  SubFiles,   \* and in its one subdirectory
  MaxOps,     \* bound: operations of the user
  MaxStops,   \* bound: restarts
  Timing      \* "join" the user goes on before the watcher is through,
              \* "stop" so does a command that restarts the watcher

ASSUME FilesAssumption == RootFiles \cap SubFiles = {}
ASSUME BoundsAssumption == MaxOps \in Nat /\ MaxStops \in Nat

VARIABLES
  disk,     \* per file: its content; 0 when there is no such file
  sub,      \* whether the subdirectory is there
  doing,    \* what the user's operation still has to do
  kernel,   \* inotify's queue
  events,   \* _eventQueue
  mapped,   \* the subdirectory in _directorieMap: "none", "live", or "dead"
            \* when its watch went with an earlier directory of that name
  run,      \* "on", "stopping" after Stop, "off" between two Runs,
            \* "dead" when an exception has left the thread
  index,    \* per file: the content last reported
  parted,   \* history: a part of an operation's events was read
  ops, stops

edits == <<disk, sub, doing, ops>>
watcherVars == <<edits, kernel, events, mapped, run, index, parted, stops>>

Files == RootFiles \cup SubFiles

WatcherInit ==
  /\ disk = [f \in Files |-> 0] /\ sub = FALSE /\ doing = <<>>
  /\ kernel = <<>> /\ events = <<>> /\ mapped = "none" /\ run = "on" /\ parted = FALSE
  /\ index = [f \in Files |-> 0]
  /\ ops = 0 /\ stops = 0

Event(mask, file) == [mask |-> mask, file |-> file]

Quiet == doing = <<>> /\ kernel = <<>> /\ events = <<>> /\ run = "on"

-------------------------------------------------------------------------------
(* The user and inotify                                                    *)

Does(mask, file, arg) == <<[mask |-> mask, file |-> file, arg |-> arg]>>

\* What a program does to write to an open file.
Writes(f, n) ==
  Does("OPEN", f, 0) \o Does("MODIFY", f, n) \o Does("CLOSE_WRITE", f, 0)

\* The command that a notification leads to reads the file when it is written.
Create(f, n) == Does("CREATE", f, n) \o Writes(f, n)
Truncate(f, n) == Does("MODIFY", f, n) \o Writes(f, n)
Rename(f, g) == Does("MOVED_FROM", f, g) \o Does("MOVED_TO", g, 0)

There == RootFiles \cup (IF sub THEN SubFiles ELSE {})

MayAct ==
  /\ ops < MaxOps /\ doing = <<>>
  /\ run = "on" /\ ("join" \in Timing \/ Quiet)
  /\ ops' = ops + 1

Act ==
  /\ MayAct
  /\ \E f \in There :
       LET n == ops + 1 IN
       \/ disk[f] = 0 /\ doing' = Create(f, n)
       \/ disk[f] # 0 /\ doing' \in {Truncate(f, n), Writes(f, n), Does("DELETE", f, 0)}
       \/ disk[f] # 0 /\ \E g \in There \ {f} : doing' = Rename(f, g)
  /\ UNCHANGED <<disk, sub, kernel, events, mapped, run, index, parted, stops>>

Watched(f) == run \in {"on", "stopping"} /\ (f \in SubFiles => mapped = "live")

\* The next part of an operation, and its event.
Emit ==
  /\ doing # <<>>
  /\ LET e == Head(doing) IN
     /\ disk' = CASE e.mask \in {"CREATE", "MODIFY"} -> [disk EXCEPT ![e.file] = e.arg]
                  [] e.mask = "DELETE" -> [disk EXCEPT ![e.file] = 0]
                  [] e.mask = "MOVED_FROM" ->
                       [disk EXCEPT ![e.file] = 0, ![e.arg] = disk[e.file]]
                  [] OTHER -> disk
     /\ kernel' = IF Watched(e.file) THEN Append(kernel, Event(e.mask, e.file)) ELSE kernel
  /\ doing' = Tail(doing)
  /\ UNCHANGED <<sub, events, mapped, run, index, ops, parted, stops>>

MakeDir ==
  /\ MayAct /\ ~ sub
  /\ sub' = TRUE
  /\ kernel' = Append(kernel, Event("MKDIR", "sub"))
  /\ UNCHANGED <<disk, doing, events, mapped, run, index, parted, stops>>

\* The watch of the directory goes with it; its entry in the map stays.
RemoveDir ==
  /\ MayAct /\ sub
  /\ \A f \in SubFiles : disk[f] = 0
  /\ sub' = FALSE
  /\ mapped' = IF mapped = "live" THEN "dead" ELSE mapped
  /\ UNCHANGED <<disk, doing, kernel, events, run, index, parted, stops>>

-------------------------------------------------------------------------------
(* Watcher::runOnce                                                        *)

\* getNextEvent reads only when it has handled all it had read.
Read ==
  /\ run = "on" /\ events = <<>> /\ kernel # <<>>
  /\ events' = kernel /\ kernel' = <<>>
  /\ parted' = (parted \/ doing # <<>>)
  /\ UNCHANGED <<edits, mapped, run, index, stops>>

Rest == Tail(events)

Following == IF Rest = <<>> THEN "none" ELSE Head(Rest).mask

\* The next event is of this kind; afterwards these are left, and this is what
\* the index knows.
Handles(mask, left, known) ==
  /\ run = "on" /\ events # <<>> /\ Head(events).mask = mask
  /\ events' = left
  /\ index' = known
  /\ UNCHANGED <<edits, kernel, parted, stops>>

File == Head(events).file

Reported == [index EXCEPT ![File] = disk[File]]

Forgotten == [index EXCEPT ![File] = 0]

\* RenameFile knows no file that has not been reported.
Renamed(g) ==
  IF index[File] = 0 THEN index ELSE [index EXCEPT ![File] = 0, ![g] = index[File]]

\* CREATE and MODIFY drop whatever was read with them.
OnCreate ==
  /\ events # <<>>
  /\ Handles("CREATE", <<>>, Reported)
  /\ UNCHANGED <<mapped, run>>

\* A bug: a write that comes with other events is not reported.
OnModifyAlone ==
  /\ events # <<>>
  /\ Handles("MODIFY", <<>>,
       IF Rest # <<>> \/ index[File] = 0 THEN index ELSE Reported)
  /\ UNCHANGED <<mapped, run>>

OnModify ==
  /\ events # <<>>
  /\ \/ Rest = <<>> /\ Handles("MODIFY", <<>>, index)
     \/ Len(Rest) = 2 /\ Handles("MODIFY", <<>>, index)
     \/ Len(Rest) \notin {0, 2}
        /\ Handles("MODIFY", <<>>, IF index[File] = 0 THEN index ELSE Reported)
  /\ UNCHANGED <<mapped, run>>

\* A bug: half a rename is taken for none.
OnMovedFromIgnores ==
  /\ events # <<>>
  /\ \/ /\ Following = "MOVED_TO"
        /\ Handles("MOVED_FROM", Tail(Rest), Renamed(Head(Rest).file))
     \/ Following = "none" /\ Handles("MOVED_FROM", Rest, index)
  /\ UNCHANGED <<mapped, run>>

\* Whether the next event belongs to the same rename is not looked at.
OnMovedFrom ==
  /\ events # <<>>
  /\ \/ /\ Following = "MOVED_TO"
        /\ Handles("MOVED_FROM", Tail(Rest), Renamed(Head(Rest).file))
     \/ /\ Following # "MOVED_TO"
        /\ Handles("MOVED_FROM", Rest, Forgotten)
  /\ UNCHANGED <<mapped, run>>

OnMovedTo ==
  /\ events # <<>>
  /\ \/ /\ Following = "CLOSE_WRITE"
        /\ Handles("MOVED_TO", Tail(Rest), index)
     \/ /\ Following # "CLOSE_WRITE"
        /\ Handles("MOVED_TO", Rest, Reported)
  /\ UNCHANGED <<mapped, run>>

OnDelete == events # <<>> /\ Handles("DELETE", Rest, Forgotten) /\ UNCHANGED <<mapped, run>>

OnOther ==
  /\ events # <<>>
  /\ Handles(Head(events).mask, Rest, index)
  /\ Head(events).mask \in {"OPEN", "CLOSE_WRITE"}
  /\ UNCHANGED <<mapped, run>>

\* A bug: it throws when there is an entry.
OnMakeDirThrows ==
  /\ events # <<>>
  /\ Handles("MKDIR", Rest, index)
  /\ run' = IF mapped = "none" THEN "on" ELSE "dead"
  /\ mapped' = "live"

\* watchDirectory: it throws when the directory is gone again, and does not
\* replace the entry of an earlier one.
OnMakeDir ==
  /\ events # <<>>
  /\ Handles("MKDIR", Rest, index)
  /\ run' = IF sub THEN "on" ELSE "dead"
  /\ mapped' = IF sub /\ mapped = "none" THEN "live" ELSE mapped

-------------------------------------------------------------------------------
(* Watcher::Run, Watcher::Stop                                             *)

Stop ==
  /\ run = "on" /\ stops < MaxStops
  /\ "stop" \in Timing \/ Quiet
  /\ stops' = stops + 1
  /\ run' = "stopping"
  /\ UNCHANGED <<edits, kernel, events, mapped, index, parted>>

\* The watches are removed, and with them what inotify has queued. That of a
\* directory that is gone cannot be removed, which throws.
Ends ==
  /\ run = "stopping"
  /\ run' = IF mapped = "dead" THEN "dead" ELSE "off"
  /\ mapped' = "none" /\ kernel' = <<>>
  /\ UNCHANGED <<edits, events, index, parted, stops>>

\* A bug: the directories of the last Run are taken to be there.
RunsAsBefore ==
  /\ run = "off"
  /\ run' = "on"
  /\ mapped' = "live"
  /\ UNCHANGED <<edits, kernel, events, index, parted, stops>>

Run ==
  /\ run = "off"
  /\ run' = "on"
  /\ mapped' = IF sub THEN "live" ELSE "none"
  /\ UNCHANGED <<edits, kernel, events, index, parted, stops>>

-------------------------------------------------------------------------------
WatcherNext ==
  \/ Act \/ Emit \/ MakeDir \/ RemoveDir
  \/ Read \/ OnCreate \/ OnModify \/ OnMovedFrom \/ OnMovedTo \/ OnDelete \/ OnOther
  \/ OnMakeDir \/ Stop \/ Ends \/ Run

WatcherSpec == WatcherInit /\ [][WatcherNext]_watcherVars

-------------------------------------------------------------------------------
(* Properties                                                              *)

Masks == {"CREATE", "MODIFY", "MOVED_FROM", "MOVED_TO", "DELETE", "OPEN", "CLOSE_WRITE"}

Events == [mask: Masks, file: Files] \cup [mask: {"MKDIR"}, file: {"sub"}]

\* The type invariant.
WatcherTypeOK ==
  /\ disk \in [Files -> 0 .. ops] /\ index \in [Files -> 0 .. ops] /\ sub \in BOOLEAN
  /\ \A i \in DOMAIN doing : doing[i].mask \in Masks /\ doing[i].file \in Files
  /\ kernel \in Seq(Events) /\ events \in Seq(Events)
  /\ mapped \in {"none", "live", "dead"} /\ (mapped = "live" => sub)
  /\ run \in {"on", "stopping", "off", "dead"}
  /\ parted \in BOOLEAN /\ ops \in 0 .. MaxOps /\ stops \in 0 .. MaxStops

\* When the user waits for the watcher, it reports which files there are,
\* however their events are split over several reads, in the directories it
\* watches: not in one that was removed and made again (Watcher::runOnce,
\* Watcher::watchDirectory).
NamesTracked ==
  Quiet => \A f \in Files :
    (f \in SubFiles => mapped # "dead") => (disk[f] = 0 <=> index[f] = 0)

\* The one thing that ends the program then is to stop the watcher after a
\* directory it watched was removed (Watcher::removeWatch).
EndsOnlyByRemoval ==
  [][run' = "dead" => run = "stopping" /\ mapped = "dead"]_watcherVars

\* What was written to a file is reported when all that an operation causes is
\* read at once (Watcher::runOnce).
EditsTracked == Quiet /\ ~ parted => \A f \in RootFiles : index[f] = disk[f]
===============================================================================
