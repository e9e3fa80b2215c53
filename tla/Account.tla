-------------------------------- MODULE Account --------------------------------
(***************************************************************************)
(* Who is logged in on a device, and the thread that watches the folder:   *)
(* App and MainWindow start, log in and out, change the folder and quit;   *)
(* the commands of the worker thread stop and start the watcher too, while *)
(* they write files. User and folder are kept in table User and, a second  *)
(* time, in the members of InternalDB, without a lock: a statement of SQL  *)
(* and each access to a member are steps of their own.                     *)
(*                                                                         *)
(* A std::thread that is replaced while it can be joined, or joined while  *)
(* it cannot, ends the program.                                            *)
(***************************************************************************)
CONSTANTS
  Accounts,
  Folders,   \* folders of the device; Home is where a login puts the files
  Home,
  None,
  Slips      \* "refused" a login may be refused, "overlap" the window goes on
             \* during a command, "gone" a folder is removed while the program is off

ASSUME HomeAssumption == Home \in Folders
\* The rows of table User.
Rows(ids, folders) == [id: ids, folder: folders, seen: BOOLEAN]

ASSUME NoneAssumption == None \notin Accounts \cup Folders \cup Rows(Accounts, Folders)

VARIABLES
  app,      \* "off", "up", or "terminated"
  user,     \* the row of table User: [id, folder, seen], or None
  mem,      \* _userId, _syncFolder, and whether _lastUpdate was ever saved
  exists,   \* the folders there are
  watcherThread,  \* "none", "started", "running", "ended"
  stopped,  \* Watcher::_stopped
  watched,  \* the folder with watches
  asked,    \* of the worker's request: the account, and whether it is for the
            \* files since the last update only
  at,       \* the window's and the worker's next step
  todo,     \* what it is part of
  slipped,  \* history: since it was started, a login was refused or the
            \* window went on during a command
  missing,  \* history: since it was started, a watcher found no folder
  crossed,  \* history: InsertUser and a refresh were under way at one time
  fetched   \* history: the accounts all of whose files refreshes have brought

refreshed == <<crossed, fetched>>
history == <<slipped, missing, refreshed>>
watcher == <<watcherThread, stopped, watched>>
data == <<user, mem>>
accountVars == <<app, data, exists, watcher, asked, at, todo, history>>

Threads == {"window", "worker"}

Row(account, folder) == [id |-> account, folder |-> folder, seen |-> FALSE]

Empty == Row(None, None)

Off == [t \in Threads |-> "idle"]

\* What asked is when there is no request.
NoRequest == [id |-> None, since |-> FALSE]

AccountInit ==
  /\ app = "off" /\ user = None /\ mem = Empty
  /\ exists = Folders
  /\ watcherThread = "none" /\ stopped = FALSE /\ watched = None
  /\ at = Off /\ todo = [t \in Threads |-> "none"]
  /\ asked = NoRequest
  /\ slipped = FALSE /\ missing = FALSE /\ crossed = FALSE /\ fetched = {}

LoggedIn == user # None

Goes(t, step, what) ==
  /\ at' = [at EXCEPT ![t] = step]
  /\ todo' = [todo EXCEPT ![t] = what]

-------------------------------------------------------------------------------
(* Starting and ending                                                     *)

\* The constructors of InternalDB, App and MainWindow, and Display.
Open ==
  /\ app = "off"
  /\ app' = "up" /\ slipped' = FALSE /\ missing' = FALSE
  /\ mem' = IF LoggedIn THEN user ELSE Empty
  /\ watcherThread' = IF LoggedIn THEN "started" ELSE "none"
  /\ stopped' = FALSE /\ watched' = None
  /\ at' = Off /\ todo' = [t \in Threads |-> "none"] /\ asked' = NoRequest
  /\ UNCHANGED <<user, exists, refreshed>>

FolderGone ==
  /\ "gone" \in Slips /\ app = "off"
  /\ \E f \in exists : exists' = exists \ {f}
  /\ UNCHANGED <<app, data, watcher, at, todo, asked, history>>

Terminate ==
  /\ app' = "terminated"
  /\ UNCHANGED <<data, exists, watcher, at, todo, asked, history>>

-------------------------------------------------------------------------------
(* The watcher's thread                                                    *)

\* runWatcher.
RunWatcher(t, step, what) ==
  \/ /\ watcherThread = "none"
     /\ watcherThread' = "started"
     /\ Goes(t, step, what)
     /\ UNCHANGED <<app, user, mem, exists, stopped, watched, asked, history>>
  \/ watcherThread # "none" /\ Terminate

\* Watcher::Run reads the folder's name. Without the folder the exception is
\* kept, Run calls Stop itself, and the loop ends.
ThreadStarts ==
  /\ app = "up" /\ watcherThread = "started"
  /\ IF mem.folder \in exists
       THEN watcherThread' = "running" /\ watched' = mem.folder /\ UNCHANGED stopped
       ELSE watcherThread' = "ended" /\ stopped' = FALSE /\ UNCHANGED watched
  /\ missing' = (missing \/ mem.folder \notin exists)
  /\ UNCHANGED <<app, data, exists, asked, at, todo, slipped, refreshed>>

\* A bug: the map of watches is not cleared.
ThreadEndsKeepsMap ==
  /\ app = "up" /\ watcherThread = "running" /\ stopped
  /\ watcherThread' = "ended" /\ stopped' = FALSE
  /\ UNCHANGED <<app, data, exists, watched, at, todo, asked, history>>

ThreadEnds ==
  /\ app = "up" /\ watcherThread = "running" /\ stopped
  /\ watcherThread' = "ended" /\ stopped' = FALSE /\ watched' = None
  /\ UNCHANGED <<app, data, exists, at, todo, asked, history>>

\* stopWatcher, up to the join.
StopWatcher(t) ==
  /\ app = "up" /\ at[t] = "stop"
  /\ stopped' = TRUE
  /\ Goes(t, "join", todo[t])
  /\ UNCHANGED <<app, data, exists, watcherThread, watched, asked, history>>

Join(t) ==
  /\ app = "up" /\ at[t] = "join"
  /\ \/ watcherThread = "none" /\ Terminate
     \/ /\ watcherThread = "ended"
        /\ watcherThread' = "none"
        /\ CASE todo[t] = "quit" -> app' = "off" /\ Goes(t, "idle", "none")
             [] todo[t] = "logout" -> Goes(t, "idle", "none") /\ UNCHANGED app
             [] OTHER -> Goes(t, "work", todo[t]) /\ UNCHANGED app
        /\ UNCHANGED <<data, exists, stopped, watched, asked, history>>

-------------------------------------------------------------------------------
(* The window                                                              *)

\* The window takes the next click; while a command is under way, it may.
Click ==
  /\ app = "up" /\ at["window"] = "idle"
  /\ at["worker"] = "idle" \/ "overlap" \in Slips
  /\ slipped' = (slipped \/ at["worker"] # "idle")
  /\ UNCHANGED <<missing, refreshed>>

\* What InsertUser does to the members after the row is there.
Inserting == at["window"] \in {"id", "folder", "date"}

Refreshing == at["worker"] # "idle" /\ todo["worker"] = "refresh"

\* authorizeUser, registerUser: InsertUser adds the row first.
Login ==
  /\ app = "up" /\ at["window"] = "idle" /\ ~ LoggedIn
  /\ at["worker"] = "idle" \/ "overlap" \in Slips
  /\ slipped' = (slipped \/ at["worker"] # "idle")
  /\ crossed' = (crossed \/ Refreshing)
  /\ \E a \in Accounts : user' = Row(a, Home)
  /\ exists' = exists \cup {Home}
  /\ Goes("window", "id", "login")
  /\ UNCHANGED <<app, mem, watcher, asked, missing, fetched>>

\* Then _userId, _syncFolder and _lastUpdate get the values of the row that was
\* added.
SetMember(step, next, member) ==
  /\ app = "up" /\ at["window"] = step
  /\ mem' = member
  /\ Goes("window", next, "login")
  /\ UNCHANGED <<app, user, exists, watcher, asked, history>>

SetUserId == SetMember("id", "folder", [mem EXCEPT !.id = user.id])

SetSyncFolder == SetMember("folder", "date", [mem EXCEPT !.folder = Home])

\* A bug: the date of the last update stays that of the account before.
KeepsDate == SetMember("date", "run", mem)

\* runWatcher is called next, whatever the answer was.
SetLastUpdate == SetMember("date", "run", [mem EXCEPT !.seen = FALSE])

LoginRefused ==
  /\ "refused" \in Slips
  /\ app = "up" /\ at["window"] = "idle" /\ ~ LoggedIn
  /\ slipped' = TRUE /\ UNCHANGED <<missing, refreshed>>
  /\ Goes("window", "run", "login")
  /\ UNCHANGED <<app, data, exists, watcher, asked>>

LoginRuns ==
  /\ app = "up" /\ at["window"] = "run"
  /\ RunWatcher("window", "idle", "none")

\* A bug: the watcher goes on.
LogoutOnly ==
  /\ Click /\ LoggedIn
  /\ user' = None
  /\ UNCHANGED <<app, mem, exists, watcher, at, todo, asked>>

\* logout: the row goes, the members and the index stay.
Logout ==
  /\ Click /\ LoggedIn
  /\ user' = None
  /\ Goes("window", "stop", "logout")
  /\ UNCHANGED <<app, mem, exists, watcher, asked>>

ChangeFolder ==
  /\ Click /\ LoggedIn
  /\ Goes("window", "stop", "folder")
  /\ UNCHANGED <<app, data, exists, watcher, asked>>

\* UpdateSyncFolder, between stopWatcher and runWatcher: the row is updated.
NewFolder ==
  /\ app = "up" /\ at["window"] = "work"
  /\ \E f \in exists :
       user' = IF LoggedIn /\ user.id = mem.id THEN [user EXCEPT !.folder = f] ELSE user
  /\ Goes("window", "member", "folder")
  /\ UNCHANGED <<app, mem, exists, watcher, asked, history>>

\* A bug: the member stays as it was.
KeepsMember ==
  /\ app = "up" /\ at["window"] = "member"
  /\ Goes("window", "run", "folder")
  /\ UNCHANGED <<app, data, exists, watcher, asked, history>>

\* And _syncFolder gets the folder that was put into the row.
SetNewFolder ==
  /\ app = "up" /\ at["window"] = "member"
  /\ mem' = [mem EXCEPT !.folder = user.folder]
  /\ Goes("window", "run", "folder")
  /\ UNCHANGED <<app, user, exists, watcher, asked, history>>

\* The destructor of App stops the watcher whether it was started or not.
Quit ==
  /\ Click
  /\ Goes("window", "stop", "quit")
  /\ UNCHANGED <<app, data, exists, watcher, asked>>

-------------------------------------------------------------------------------
(* The worker's commands                                                   *)

\* Refresh and DownloadFile, up to the answer. They are queued by the window
\* and the watcher. GetLastUpdate reads _userId first.
Begin ==
  /\ app = "up" /\ at["worker"] = "idle"
  /\ at["window"] = "idle" \/ "overlap" \in Slips
  /\ LoggedIn \/ watcherThread = "running"
  /\ slipped' = (slipped \/ at["window"] # "idle")
  /\ \/ /\ Goes("worker", "since", "refresh")
        /\ asked' = [asked EXCEPT !.id = mem.id]
        /\ crossed' = (crossed \/ Inserting)
     \/ Goes("worker", "answer", "download") /\ UNCHANGED <<asked, crossed>>
  /\ UNCHANGED <<app, data, exists, watcher, missing, fetched>>

\* And then _lastUpdate.
ReadLastUpdate ==
  /\ app = "up" /\ at["worker"] = "since"
  /\ asked' = [asked EXCEPT !.since = mem.seen]
  /\ Goes("worker", "answer", "refresh")
  /\ UNCHANGED <<app, data, exists, watcher, history>>

\* A bug: the watcher is not stopped before.
AnswerAtWork ==
  /\ app = "up" /\ at["worker"] = "answer"
  /\ \/ Goes("worker", "idle", "none") /\ asked' = NoRequest
     \/ todo["worker"] = "refresh" /\ Goes("worker", "save", "refresh") /\ UNCHANGED asked
     \/ Goes("worker", "work", todo["worker"]) /\ UNCHANGED asked
  /\ UNCHANGED <<app, data, exists, watcher, history>>

\* The request failed, or there is no file to be replaced.
Answer ==
  /\ app = "up" /\ at["worker"] = "answer"
  /\ \/ Goes("worker", "idle", "none") /\ asked' = NoRequest
     \/ todo["worker"] = "refresh" /\ Goes("worker", "save", "refresh") /\ UNCHANGED asked
     \/ Goes("worker", "stop", todo["worker"]) /\ UNCHANGED asked
  /\ UNCHANGED <<app, data, exists, watcher, history>>

\* The file is written or deleted, and the watcher started.
WriteFiles ==
  /\ app = "up" /\ at["worker"] = "work"
  /\ IF todo["worker"] = "refresh" THEN RunWatcher("worker", "save", "refresh")
                                   ELSE RunWatcher("worker", "idle", "none")

\* The answer's files are in the index; SaveLastUpdate updates the row of the
\* account that _userId names now.
Save ==
  /\ app = "up" /\ at["worker"] = "save"
  /\ user' = IF LoggedIn /\ user.id = mem.id THEN [user EXCEPT !.seen = TRUE] ELSE user
  /\ fetched' = IF asked.since THEN fetched ELSE fetched \cup {asked.id}
  /\ Goes("worker", "saved", "refresh")
  /\ UNCHANGED <<app, mem, exists, watcher, asked, slipped, missing, crossed>>

\* And then the member.
Saved ==
  /\ app = "up" /\ at["worker"] = "saved"
  /\ mem' = [mem EXCEPT !.seen = TRUE]
  /\ asked' = NoRequest
  /\ Goes("worker", "idle", "none")
  /\ UNCHANGED <<app, user, exists, watcher, history>>

-------------------------------------------------------------------------------
AccountNext ==
  \/ Open \/ FolderGone
  \/ ThreadStarts \/ ThreadEnds
  \/ \E t \in Threads : StopWatcher(t) \/ Join(t)
  \/ Login \/ SetUserId \/ SetSyncFolder \/ SetLastUpdate \/ LoginRefused \/ LoginRuns
  \/ Logout \/ ChangeFolder \/ NewFolder \/ SetNewFolder \/ Quit
  \/ Begin \/ ReadLastUpdate \/ Answer \/ WriteFiles \/ Save \/ Saved

AccountSpec == AccountInit /\ [][AccountNext]_accountVars

-------------------------------------------------------------------------------
(* Properties                                                              *)

\* The type invariant.
AccountTypeOK ==
  /\ app \in {"off", "up", "terminated"}
  /\ user \in Rows(Accounts, Folders) \cup {None}
  /\ mem \in Rows(Accounts \cup {None}, Folders \cup {None})
  /\ exists \subseteq Folders
  /\ watcherThread \in {"none", "started", "running", "ended"} /\ stopped \in BOOLEAN
  /\ watched \in Folders \cup {None} /\ (watched # None <=> watcherThread = "running")
  /\ at \in [Threads -> {"idle", "id", "folder", "date", "stop", "join", "work", "member",
                         "run", "since", "answer", "save", "saved"}]
  /\ todo \in [Threads -> {"none", "login", "logout", "folder", "quit", "refresh",
                           "download"}]
  /\ asked \in [id: Accounts \cup {None}, since: BOOLEAN] /\ fetched \subseteq Accounts \cup {None}
  /\ slipped \in BOOLEAN /\ missing \in BOOLEAN /\ crossed \in BOOLEAN

Resting == app = "up" /\ at = Off /\ watcherThread # "started"

\* When nobody is at work, the folder of the user who is logged in is watched
\* and without a user none is, after any sequence of logins, logouts, changes of
\* the folder, commands and restarts, but for a refused login, a window that
\* went on during a command and a folder that was gone (App::runWatcher,
\* App::stopWatcher, Watcher::Run).
WatchedWhenIn ==
  Resting /\ ~ slipped /\ ~ missing =>
    watched = IF LoggedIn THEN user.folder ELSE None

\* What InternalDB remembers of the user is what its table says, though it is
\* written by two threads, one place after the other and without a lock: the
\* account and its folder, but while the window is in between; the date, but
\* while one of them is, and unless a user was inserted during a refresh
\* (InternalDB::InsertUser, InternalDB::UpdateSyncFolder,
\* InternalDB::SaveLastUpdate).
MemoryIsTable ==
  app = "up" /\ LoggedIn /\ ~ Inserting =>
    /\ mem.id = user.id
    /\ at["window"] # "member" => mem.folder = user.folder
    /\ ~ crossed /\ at["worker"] # "saved" => mem.seen = user.seen

\* Unless a login was refused or the window went on during a command, the
\* program ends itself in one case only: it is left by a user who is not logged
\* in (App::~App).
TerminatesOnly ==
  app = "terminated" => slipped \/ (~ LoggedIn /\ todo["window"] = "quit")

\* A user whose last update is saved has been sent all files there were then,
\* whoever was logged in before and whichever date was asked with; unless a user
\* was inserted during a refresh (RefreshCommand::Do, InternalDB::GetLastUpdate,
\* InternalDB::InsertUser, InternalDB::SaveLastUpdate).
SeenIsFetched == ~ crossed /\ LoggedIn /\ user.seen => user.id \in fetched
===============================================================================
