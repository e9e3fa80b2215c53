---------------------------- MODULE Account_proofs ----------------------------
(***************************************************************************)
(* Proofs about Account, for any accounts and folders.                     *)
(***************************************************************************)
EXTENDS Account, TLAPS

\* Where the threads are, and what for.
ThreadPlaces ==
  /\ at["window"] \in {"idle", "id", "folder", "date", "stop", "join", "work", "member", "run"}
  /\ at["worker"] \in {"idle", "since", "answer", "stop", "join", "work", "save", "saved"}
  /\ at["window"] = "idle" <=> todo["window"] = "none"
  /\ at["window"] \in {"stop", "join"} => todo["window"] \in {"logout", "folder", "quit"}
  /\ Inserting => todo["window"] = "login"
  /\ at["window"] \in {"work", "member"} => todo["window"] = "folder"
  /\ at["window"] = "run" => todo["window"] \in {"login", "folder"}
  /\ at["worker"] # "idle" => todo["worker"] \in {"refresh", "download"}
  /\ at["worker"] \in {"since", "save", "saved"} => todo["worker"] = "refresh"
  /\ Inserting \/ todo["window"] = "folder" => LoggedIn

Between ==
  \/ Inserting
  \/ \E t \in Threads : at[t] \in {"work", "member", "run"}

\* What the window and the worker have done so far of InsertUser and of
\* SaveLastUpdate.
Filling ==
  /\ Inserting =>
       /\ user.folder = Home
       /\ ~ crossed => ~ user.seen
       /\ at["window"] # "id" => mem.id = user.id
       /\ at["window"] = "date" => mem.folder = Home
  /\ ~ crossed /\ LoggedIn /\ at["worker"] = "saved" => user.seen

\* What a refresh knows of its account when nobody has logged in meanwhile, and
\* what the members say of the account's files.
Asked ==
  /\ ~ (Inserting /\ Refreshing)
  /\ Refreshing => asked.id = mem.id
  /\ Refreshing /\ at["worker"] # "since" /\ asked.since => asked.id \in fetched
  /\ at["worker"] = "saved" => asked.id \in fetched
  /\ ~ Inserting /\ mem.seen => mem.id \in fetched

\* When neither thread has slipped: one of them rests, and there is a thread
\* that watches when there is a user, but for the time between stopWatcher and
\* runWatcher.
OneAtWork ==
  /\ at["window"] = "idle" \/ at["worker"] = "idle"
  /\ todo["window"] \in {"login", "folder"} \/ at["worker"] # "idle" => LoggedIn
  /\ todo["window"] = "logout" => ~ LoggedIn
  /\ Between => watcherThread = "none"
  /\ ~ Between => (watcherThread # "none" <=> LoggedIn \/ todo["window"] = "logout")

Joining == \E t \in Threads : at[t] = "join"

\* And when every watcher has found its folder, it watches that of the user,
\* and ends for who joins it.
Watches ==
  /\ watcherThread = "running" => watched = mem.folder
  /\ stopped => Joining
  /\ watcherThread = "ended" => Joining /\ ~ stopped

-------------------------------------------------------------------------------
(* Types                                                                   *)

Steps == {"idle", "id", "folder", "date", "stop", "join", "work", "member", "run",
          "since", "answer", "save", "saved"}

Jobs == {"none", "login", "logout", "folder", "quit", "refresh", "download"}

\* A Boolean variable that is given the value of a formula.
LEMMA AsFormula ==
  ASSUME NEW b, NEW F \in BOOLEAN, b = F
  PROVE  b \in BOOLEAN /\ (b <=> F)
  OBVIOUS

LEMMA GoesTo ==
  ASSUME AccountTypeOK, NEW t \in Threads, NEW step, NEW what, Goes(t, step, what)
  PROVE  /\ at'[t] = step /\ todo'[t] = what
         /\ \A u \in Threads \ {t} : at'[u] = at[u] /\ todo'[u] = todo[u]
         /\ step \in Steps => at' \in [Threads -> Steps]
         /\ what \in Jobs => todo' \in [Threads -> Jobs]
  BY DEF Goes, AccountTypeOK, Steps, Jobs

LEMMA Clicks ==
  ASSUME Click
  PROVE  /\ app = "up" /\ at["window"] = "idle"
         /\ slipped' \in BOOLEAN
         /\ ~ slipped' => ~ slipped /\ at["worker"] = "idle"
         /\ UNCHANGED <<missing, crossed, fetched>>
  <1>1. (slipped \/ at["worker"] # "idle") \in BOOLEAN
    OBVIOUS
  <1>2. slipped' = (slipped \/ at["worker"] # "idle")
    BY DEF Click
  <1>3. slipped' \in BOOLEAN /\ (slipped' <=> (slipped \/ at["worker"] # "idle"))
    BY <1>1, <1>2, AsFormula, Zenon
  <1> QED
    BY <1>3 DEF Click, refreshed

LEMMA LoginSlips ==
  ASSUME Login
  PROVE  /\ slipped' \in BOOLEAN /\ crossed' \in BOOLEAN
         /\ ~ slipped' => ~ slipped /\ at["worker"] = "idle"
         /\ ~ crossed' => ~ crossed /\ ~ Refreshing
  <1>1. /\ slipped' = (slipped \/ at["worker"] # "idle")
        /\ crossed' = (crossed \/ Refreshing)
    BY DEF Login
  <1>2. /\ (slipped \/ at["worker"] # "idle") \in BOOLEAN
        /\ (crossed \/ Refreshing) \in BOOLEAN
    OBVIOUS
  <1>3. slipped' \in BOOLEAN /\ (slipped' <=> (slipped \/ at["worker"] # "idle"))
    BY <1>1, <1>2, AsFormula, Zenon
  <1>4. crossed' \in BOOLEAN /\ (crossed' <=> (crossed \/ Refreshing))
    BY <1>1, <1>2, AsFormula, Zenon
  <1> QED
    BY <1>3, <1>4

LEMMA BeginSlips ==
  ASSUME Begin, crossed \in BOOLEAN
  PROVE  /\ slipped' \in BOOLEAN /\ crossed' \in BOOLEAN
         /\ ~ slipped' => ~ slipped /\ at["window"] = "idle"
         /\ ~ crossed' => ~ crossed
         /\ ~ crossed' => ~ Inserting \/ (Goes("worker", "answer", "download") /\ UNCHANGED asked)
  <1>1. /\ slipped' = (slipped \/ at["window"] # "idle")
        /\ (slipped \/ at["window"] # "idle") \in BOOLEAN
    BY DEF Begin
  <1>2. slipped' \in BOOLEAN /\ (slipped' <=> (slipped \/ at["window"] # "idle"))
    BY <1>1, AsFormula, Zenon
  <1>3. \/ crossed' = (crossed \/ Inserting)
        \/ Goes("worker", "answer", "download") /\ UNCHANGED <<asked, crossed>>
    BY DEF Begin
  <1>4. CASE crossed' = (crossed \/ Inserting)
    <2>1. (crossed \/ Inserting) \in BOOLEAN
      OBVIOUS
    <2>2. crossed' \in BOOLEAN /\ (crossed' <=> (crossed \/ Inserting))
      BY <1>4, <2>1, AsFormula, Zenon
    <2> QED
      BY <1>2, <2>2
  <1>5. CASE Goes("worker", "answer", "download") /\ UNCHANGED <<asked, crossed>>
    BY <1>2, <1>5
  <1> QED
    BY <1>3, <1>4, <1>5

LEMMA RowTypes ==
  ASSUME NEW a \in Accounts, NEW f \in Folders
  PROVE  /\ Row(a, f) \in Rows(Accounts, Folders)
         /\ Row(a, f) # None
         /\ Row(a, f).id = a /\ Row(a, f).folder = f /\ ~ Row(a, f).seen
  <1>1. /\ Row(a, f) \in Rows(Accounts, Folders)
        /\ Row(a, f).id = a /\ Row(a, f).folder = f /\ ~ Row(a, f).seen
    BY DEF Row, Rows
  <1>2. None \notin Rows(Accounts, Folders)
    BY NoneAssumption
  <1> QED
    BY <1>1, <1>2

LEMMA UserStays ==
  ASSUME AccountTypeOK, NewFolder \/ Save
  PROVE  /\ user' \in Rows(Accounts, Folders) \cup {None}
         /\ user' # None <=> user # None
         /\ user # None => user'.id = user.id
         /\ user # None /\ NewFolder => user'.seen = user.seen
         /\ user # None /\ Save => user'.folder = user.folder
  <1>1. CASE user = None
    BY <1>1, Zenon DEF AccountTypeOK, NewFolder, Save, LoggedIn
  <1>2. CASE user # None
    <2>1. user \in Rows(Accounts, Folders) /\ None \notin Rows(Accounts, Folders)
      BY <1>2, NoneAssumption DEF AccountTypeOK
    <2>2. CASE NewFolder
      <3>1. PICK f \in Folders :
              user' = IF LoggedIn /\ user.id = mem.id THEN [user EXCEPT !.folder = f] ELSE user
        BY <2>2 DEF NewFolder, AccountTypeOK
      <3>2. /\ [user EXCEPT !.folder = f] \in Rows(Accounts, Folders)
            /\ [user EXCEPT !.folder = f].id = user.id
            /\ [user EXCEPT !.folder = f].seen = user.seen
        BY <2>1 DEF Rows
      <3>3. ~ Save
        BY <2>2, GoesTo DEF NewFolder, Save, Threads
      <3> QED
        BY <1>2, <2>1, <2>2, <3>1, <3>2, <3>3, Zenon
    <2>3. CASE Save
      <3>1. user' = IF LoggedIn /\ user.id = mem.id THEN [user EXCEPT !.seen = TRUE] ELSE user
        BY <2>3 DEF Save
      <3>2. /\ [user EXCEPT !.seen = TRUE] \in Rows(Accounts, Folders)
            /\ [user EXCEPT !.seen = TRUE].id = user.id
            /\ [user EXCEPT !.seen = TRUE].folder = user.folder
        BY <2>1 DEF Rows
      <3>3. ~ NewFolder
        BY <2>3, GoesTo DEF NewFolder, Save, Threads
      <3> QED
        BY <1>2, <2>1, <2>3, <3>1, <3>2, <3>3, Zenon
    <2> QED
      BY <2>2, <2>3
  <1> QED
    BY <1>1, <1>2

LEMMA MembersSet ==
  ASSUME AccountTypeOK, app = "up" => ThreadPlaces,
         SetUserId \/ SetSyncFolder \/ SetLastUpdate
  PROVE  /\ AccountTypeOK'
         /\ app = "up" /\ Inserting
         /\ at'["worker"] = at["worker"] /\ todo'["window"] = "login"
         /\ todo'["worker"] = todo["worker"]
         /\ UNCHANGED <<app, user, exists, watcher, asked, history>>
         /\ \/ /\ at["window"] = "id" /\ at'["window"] = "folder"
               /\ mem'.id = user.id /\ mem'.folder = mem.folder /\ mem'.seen = mem.seen
            \/ /\ at["window"] = "folder" /\ at'["window"] = "date"
               /\ mem'.id = mem.id /\ mem'.folder = Home /\ mem'.seen = mem.seen
            \/ /\ at["window"] = "date" /\ at'["window"] = "run"
               /\ mem'.id = mem.id /\ mem'.folder = mem.folder /\ ~ mem'.seen
  <1> DEFINE R == Rows(Accounts \cup {None}, Folders \cup {None})
  <1>1. PICK step \in {"id", "folder", "date"}, next \in {"folder", "date", "run"} :
               \E member : SetMember(step, next, member)
    BY DEF SetUserId, SetSyncFolder, SetLastUpdate
  <1>2. /\ app = "up" /\ Inserting
        /\ UNCHANGED <<app, user, exists, watcher, asked, history>>
        /\ at["window"] = step
    BY <1>1 DEF SetMember, Inserting
  <1>3. user \in Rows(Accounts, Folders) /\ user.id \in Accounts /\ mem \in R
    BY <1>2 DEF ThreadPlaces, LoggedIn, AccountTypeOK, Rows
  <1>4. /\ at'["window"] = next /\ at'["worker"] = at["worker"]
        /\ todo'["window"] = "login" /\ todo'["worker"] = todo["worker"]
        /\ at' \in [Threads -> Steps] /\ todo' \in [Threads -> Jobs]
    BY <1>1, GoesTo DEF SetMember, Threads, Steps, Jobs
  <1>5. CASE SetUserId
    <2>1. mem' = [mem EXCEPT !.id = user.id] /\ at["window"] = "id" /\ next = "folder"
      BY <1>1, <1>4, <1>5, GoesTo DEF SetUserId, SetMember, Threads
    <2>2. /\ mem' \in R /\ mem'.id = user.id /\ mem'.folder = mem.folder
          /\ mem'.seen = mem.seen
      BY <1>3, <2>1 DEF Rows
    <2> QED
      BY <1>2, <1>4, <2>1, <2>2
         DEF AccountTypeOK, Steps, Jobs, watcher, history, refreshed
  <1>6. CASE SetSyncFolder
    <2>1. mem' = [mem EXCEPT !.folder = Home] /\ at["window"] = "folder" /\ next = "date"
      BY <1>1, <1>4, <1>6, GoesTo DEF SetSyncFolder, SetMember, Threads
    <2>2. mem' \in R /\ mem'.id = mem.id /\ mem'.folder = Home /\ mem'.seen = mem.seen
      BY <1>3, <2>1, HomeAssumption DEF Rows
    <2> QED
      BY <1>2, <1>4, <2>1, <2>2
         DEF AccountTypeOK, Steps, Jobs, watcher, history, refreshed
  <1>7. CASE SetLastUpdate
    <2>1. mem' = [mem EXCEPT !.seen = FALSE] /\ at["window"] = "date" /\ next = "run"
      BY <1>1, <1>4, <1>7, GoesTo DEF SetLastUpdate, SetMember, Threads
    <2>2. mem' \in R /\ mem'.id = mem.id /\ mem'.folder = mem.folder /\ ~ mem'.seen
      BY <1>3, <2>1 DEF Rows
    <2> QED
      BY <1>2, <1>4, <2>1, <2>2
         DEF AccountTypeOK, Steps, Jobs, watcher, history, refreshed
  <1> QED
    BY <1>5, <1>6, <1>7

LEMMA InitTypes ==
  ASSUME AccountInit
  PROVE  AccountTypeOK
  <1>1. mem \in Rows(Accounts \cup {None}, Folders \cup {None})
    BY DEF AccountInit, Empty, Row, Rows
  <1>2. at \in [Threads -> {"idle"}] /\ todo \in [Threads -> {"none"}]
    BY DEF AccountInit, Off
  <1> QED
    BY <1>1, <1>2 DEF AccountInit, AccountTypeOK, NoRequest

LEMMA TypesKept ==
  ASSUME AccountTypeOK, app = "up" => ThreadPlaces, [AccountNext]_accountVars
  PROVE  AccountTypeOK'
  <1> USE DEF AccountTypeOK, data, watcher, history, refreshed
  <1>1. CASE UNCHANGED accountVars
    BY <1>1 DEF accountVars
  <1>2. CASE Open
    BY <1>2 DEF Open, Empty, Row, Rows, Off, Threads, LoggedIn, NoRequest
  <1>3. CASE FolderGone
    BY <1>3 DEF FolderGone
  <1>4. CASE ThreadStarts
    <2>1. missing' \in BOOLEAN
      <3>1. missing' = (missing \/ mem.folder \notin exists)
        BY <1>4 DEF ThreadStarts
      <3> QED
        BY <3>1, Zenon
    <2>2. mem.folder \in exists => mem.folder \in Folders /\ mem.folder # None
      BY NoneAssumption
    <2> QED
      BY <2>1, <2>2, <1>4 DEF ThreadStarts
  <1>5. CASE ThreadEnds
    BY <1>5 DEF ThreadEnds
  <1>6. ASSUME NEW t \in Threads, StopWatcher(t) PROVE AccountTypeOK'
    BY <1>6, GoesTo DEF StopWatcher, Steps, Jobs
  <1>7. ASSUME NEW t \in Threads, Join(t) PROVE AccountTypeOK'
    BY <1>7, GoesTo DEF Join, Terminate, Steps, Jobs
  <1>8. CASE Login
    <2>1. PICK a \in Accounts : user' = Row(a, Home)
      BY <1>8 DEF Login
    <2>2. user' \in Rows(Accounts, Folders)
      BY <2>1, RowTypes, HomeAssumption
    <2>3. at' \in [Threads -> Steps] /\ todo' \in [Threads -> Jobs]
      BY <1>8, GoesTo DEF Login, Steps, Jobs, Threads
    <2>4. slipped' \in BOOLEAN /\ crossed' \in BOOLEAN
      BY <1>8, LoginSlips
    <2> QED
      BY <2>2, <2>3, <2>4, <1>8, HomeAssumption DEF Login, Steps, Jobs
  <1>9. CASE SetUserId \/ SetSyncFolder \/ SetLastUpdate
    BY <1>9, MembersSet
  <1>10. CASE LoginRefused
    BY <1>10, GoesTo DEF LoginRefused, Steps, Jobs, Threads
  <1>11. CASE LoginRuns
    BY <1>11, GoesTo DEF LoginRuns, RunWatcher, Terminate, Steps, Jobs, Threads
  <1>12. CASE Logout
    BY <1>12, Clicks, GoesTo DEF Logout, Steps, Jobs, Threads
  <1>13. CASE ChangeFolder
    BY <1>13, Clicks, GoesTo DEF ChangeFolder, Steps, Jobs, Threads
  <1>14. CASE NewFolder
    <2>1. user' \in Rows(Accounts, Folders) \cup {None}
      BY <1>14, UserStays
    <2>2. at' \in [Threads -> Steps] /\ todo' \in [Threads -> Jobs]
      BY <1>14, GoesTo DEF NewFolder, Steps, Jobs, Threads
    <2> QED
      BY <2>1, <2>2, <1>14 DEF NewFolder, Steps, Jobs
  <1>15. CASE SetNewFolder
    <2>1. user.folder \in Folders
      BY <1>15 DEF SetNewFolder, ThreadPlaces, LoggedIn, Rows
    <2> QED
      BY <1>15, <2>1, GoesTo DEF SetNewFolder, Steps, Jobs, Threads, Rows
  <1>16. CASE Quit
    BY <1>16, Clicks, GoesTo DEF Quit, Steps, Jobs, Threads
  <1>17. CASE Begin
    BY <1>17, GoesTo, BeginSlips DEF Begin, Steps, Jobs, Threads, Rows
  <1>18. CASE ReadLastUpdate
    BY <1>18, GoesTo DEF ReadLastUpdate, Steps, Jobs, Threads, Rows
  <1>19. CASE Answer
    <2>1. at' \in [Threads -> Steps] /\ todo' \in [Threads -> Jobs]
      BY <1>19, GoesTo DEF Answer, Steps, Jobs, Threads
    <2>2. asked' \in [id: Accounts \cup {None}, since: BOOLEAN]
      <3>1. asked' = NoRequest \/ asked' = asked
        BY <1>19 DEF Answer
      <3>2. NoRequest \in [id: Accounts \cup {None}, since: BOOLEAN]
        BY Zenon DEF NoRequest
      <3>3. asked \in [id: Accounts \cup {None}, since: BOOLEAN]
        OBVIOUS
      <3> QED
        BY <3>1, <3>2, <3>3, Zenon
    <2>3. UNCHANGED <<app, data, exists, watcher, history>>
      BY <1>19 DEF Answer
    <2> QED
      BY <2>1, <2>2, <2>3 DEF NoRequest, Steps, Jobs
  <1>20. CASE WriteFiles
    BY <1>20, GoesTo DEF WriteFiles, RunWatcher, Terminate, Steps, Jobs, Threads
  <1>21. CASE Save
    <2>1. user' \in Rows(Accounts, Folders) \cup {None}
      BY <1>21, UserStays
    <2>2. at' \in [Threads -> Steps] /\ todo' \in [Threads -> Jobs]
      BY <1>21, GoesTo DEF Save, Steps, Jobs, Threads
    <2> QED
      BY <2>1, <2>2, <1>21 DEF Save, Steps, Jobs
  <1>22. CASE Saved
    BY <1>22, GoesTo DEF Saved, NoRequest, Steps, Jobs, Threads, Rows
  <1> QED
    BY <1>1, <1>2, <1>3, <1>4, <1>5, <1>6, <1>7, <1>8, <1>9, <1>10, <1>11, <1>12,
       <1>13, <1>14, <1>15, <1>16, <1>17, <1>18, <1>19, <1>20, <1>21, <1>22 DEF AccountNext

-------------------------------------------------------------------------------
(* What is remembered, and what was fetched                                *)

Filled == app = "up" => Filling

Answers == app = "up" /\ ~ crossed => Asked

LEMMA MemoryKept ==
  ASSUME AccountTypeOK, app = "up" => ThreadPlaces, MemoryIsTable, Filled, Answers,
         [AccountNext]_accountVars
  PROVE  MemoryIsTable' /\ Filled'
  <1> USE DEF MemoryIsTable, Filled, Filling, Inserting, LoggedIn, data, history, refreshed,
              Threads
  <1>1. CASE UNCHANGED accountVars
    BY <1>1 DEF accountVars
  <1>2. CASE Open
    BY <1>2 DEF Open, Off
  <1>3. CASE Login
    <2>1. PICK a \in Accounts : user' = Row(a, Home)
      BY <1>3 DEF Login
    <2>2. user' # None /\ user'.folder = Home /\ ~ user'.seen
      BY <2>1, RowTypes, HomeAssumption
    <2>3. /\ at'["window"] = "id" /\ at'["worker"] = at["worker"]
          /\ ~ crossed' => ~ Refreshing
      BY <1>3, GoesTo, LoginSlips DEF Login
    <2>4. at["worker"] = "saved" => Refreshing
      BY <1>3 DEF Login, ThreadPlaces, Refreshing
    <2> QED
      BY <1>3, <2>2, <2>3, <2>4 DEF Login
  <1>4. CASE SetUserId \/ SetSyncFolder \/ SetLastUpdate
    <2>1. user.seen \in BOOLEAN /\ mem'.seen \in BOOLEAN
      BY <1>4, MembersSet DEF ThreadPlaces, AccountTypeOK, Rows
    <2>2. /\ app = "up" /\ Inserting /\ at'["worker"] = at["worker"]
          /\ UNCHANGED <<app, user, crossed>>
      BY <1>4, MembersSet
    <2>3. CASE /\ at["window"] = "id" /\ at'["window"] = "folder"
               /\ mem'.id = user.id /\ mem'.folder = mem.folder /\ mem'.seen = mem.seen
      BY <2>2, <2>3
    <2>4. CASE /\ at["window"] = "folder" /\ at'["window"] = "date"
               /\ mem'.id = mem.id /\ mem'.folder = Home /\ mem'.seen = mem.seen
      BY <2>2, <2>4
    <2>5. CASE /\ at["window"] = "date" /\ at'["window"] = "run"
               /\ mem'.id = mem.id /\ mem'.folder = mem.folder /\ ~ mem'.seen
      BY <2>1, <2>2, <2>5
    <2> QED
      BY <1>4, <2>3, <2>4, <2>5, MembersSet
  <1>5. CASE Logout \/ ChangeFolder \/ Quit
    BY <1>5, GoesTo, Clicks DEF Logout, ChangeFolder, Quit
  <1>6. CASE NewFolder
    <2>1. user \in Rows(Accounts, Folders) /\ ~ Inserting
      BY <1>6 DEF NewFolder, ThreadPlaces, AccountTypeOK
    <2>2. /\ user' # None <=> user # None
          /\ user # None => user'.id = user.id /\ user'.seen = user.seen
      BY <1>6, UserStays
    <2>3. at'["window"] = "member" /\ at'["worker"] = at["worker"]
      BY <1>6, GoesTo DEF NewFolder
    <2> QED
      BY <1>6, <2>1, <2>2, <2>3 DEF NewFolder
  <1>7. CASE SetNewFolder
    <2>1. mem'.id = mem.id /\ mem'.folder = user.folder /\ mem'.seen = mem.seen
      BY <1>7 DEF SetNewFolder, AccountTypeOK, Rows
    <2>2. at'["window"] = "run" /\ at'["worker"] = at["worker"] /\ at["window"] = "member"
      BY <1>7, GoesTo DEF SetNewFolder
    <2> QED
      BY <1>7, <2>1, <2>2 DEF SetNewFolder
  <1>8. CASE Save
    <2>1. /\ at'["worker"] = "saved" /\ at'["window"] = at["window"] /\ at["worker"] = "save"
          /\ UNCHANGED <<app, mem, crossed>>
      BY <1>8, GoesTo DEF Save
    <2>2. CASE LoggedIn /\ user.id = mem.id
      <3>1. user \in Rows(Accounts, Folders) /\ user' = [user EXCEPT !.seen = TRUE]
        BY <1>8, <2>2 DEF Save, AccountTypeOK
      <3>2. user' # None /\ user'.id = user.id /\ user'.folder = user.folder /\ user'.seen
        BY <1>8, <2>2, <3>1, UserStays DEF Rows
      <3>3. app = "up" /\ ~ crossed => ~ Inserting
        BY <2>1 DEF Answers, Asked, Refreshing, ThreadPlaces
      <3> QED
        BY <2>1, <2>2, <3>2, <3>3
    <2>3. CASE ~ (LoggedIn /\ user.id = mem.id)
      <3>1. user' = user
        BY <1>8, <2>3 DEF Save
      <3>2. app = "up" /\ ~ crossed => ~ LoggedIn
        BY <2>1, <2>3 DEF Answers, Asked, Refreshing, ThreadPlaces
      <3> QED
        BY <2>1, <3>1, <3>2
    <2> QED
      BY <2>2, <2>3
  <1>9. CASE Saved
    <2>1. mem'.id = mem.id /\ mem'.folder = mem.folder /\ mem'.seen = TRUE
      BY <1>9 DEF Saved, AccountTypeOK, Rows
    <2>2. at'["worker"] = "idle" /\ at'["window"] = at["window"] /\ at["worker"] = "saved"
      BY <1>9, GoesTo DEF Saved
    <2> QED
      BY <1>9, <2>1, <2>2 DEF Saved
  <1>10. ASSUME NEW t \in Threads, Join(t) PROVE MemoryIsTable' /\ Filled'
    BY <1>10, GoesTo DEF Join, Terminate, ThreadPlaces
  <1>11. CASE LoginRuns
    BY <1>11, GoesTo DEF LoginRuns, RunWatcher, Terminate
  <1>12. CASE WriteFiles
    BY <1>12, GoesTo DEF WriteFiles, RunWatcher, Terminate
  <1>13. CASE Begin
    <2>1. UNCHANGED <<app, data, exists, watcher>> /\ at["worker"] = "idle"
      BY <1>13 DEF Begin
    <2>2. at'["worker"] # "saved" /\ at'["window"] = at["window"]
      BY <1>13, GoesTo DEF Begin
    <2>3. ~ crossed' => ~ crossed
      BY <1>13, BeginSlips DEF AccountTypeOK
    <2> QED
      BY <2>1, <2>2, <2>3
  <1>14. CASE ReadLastUpdate \/ Answer
    BY <1>14, GoesTo DEF ReadLastUpdate, Answer
  <1>15. CASE LoginRefused
    BY <1>15, GoesTo DEF LoginRefused
  <1>16. ASSUME NEW t \in Threads, StopWatcher(t) PROVE MemoryIsTable' /\ Filled'
    BY <1>16, GoesTo DEF StopWatcher
  <1>17. CASE FolderGone \/ ThreadStarts \/ ThreadEnds
    BY <1>17 DEF FolderGone, ThreadStarts, ThreadEnds
  <1> QED
    BY <1>1, <1>2, <1>3, <1>4, <1>5, <1>6, <1>7, <1>8, <1>9, <1>10, <1>11, <1>12, <1>13,
       <1>14, <1>15, <1>16, <1>17 DEF AccountNext

LEMMA SeenKept ==
  ASSUME AccountTypeOK, app = "up" => ThreadPlaces, MemoryIsTable, Filled, Answers,
         SeenIsFetched, [AccountNext]_accountVars
  PROVE  SeenIsFetched' /\ Answers'
  <1> USE DEF SeenIsFetched, Answers, Asked, Refreshing, Inserting, LoggedIn, data, refreshed,
              history, Threads
  <1>1. CASE UNCHANGED accountVars
    BY <1>1 DEF accountVars
  <1>2. CASE Open
    BY <1>2 DEF Open, Off, Empty, Row
  <1>3. CASE Login
    <2>1. PICK a \in Accounts : user' = Row(a, Home)
      BY <1>3 DEF Login
    <2>2. ~ user'.seen
      BY <2>1, RowTypes, HomeAssumption
    <2>3. /\ at'["window"] = "id" /\ at'["worker"] = at["worker"]
          /\ todo'["worker"] = todo["worker"]
          /\ ~ crossed' => ~ crossed /\ ~ Refreshing
      BY <1>3, GoesTo, LoginSlips DEF Login
    <2> QED
      BY <1>3, <2>2, <2>3 DEF Login
  <1>4. CASE SetUserId \/ SetSyncFolder \/ SetLastUpdate
    BY <1>4, MembersSet DEF ThreadPlaces
  <1>5. CASE Logout \/ ChangeFolder \/ Quit
    BY <1>5, GoesTo, Clicks DEF Logout, ChangeFolder, Quit
  <1>6. CASE NewFolder
    <2>1. user \in Rows(Accounts, Folders) /\ ~ Inserting
      BY <1>6 DEF NewFolder, ThreadPlaces, AccountTypeOK
    <2>2. user'.id = user.id /\ user'.seen = user.seen /\ user # None
      BY <1>6, <2>1, NoneAssumption DEF NewFolder, Rows
    <2>3. /\ at'["window"] = "member" /\ at'["worker"] = at["worker"]
          /\ todo'["worker"] = todo["worker"]
      BY <1>6, GoesTo DEF NewFolder
    <2> QED
      BY <1>6, <2>1, <2>2, <2>3 DEF NewFolder
  <1>7. CASE SetNewFolder
    <2>1. mem'.id = mem.id /\ mem'.seen = mem.seen
      BY <1>7 DEF SetNewFolder, AccountTypeOK, Rows
    <2>2. /\ at'["window"] = "run" /\ at'["worker"] = at["worker"] /\ at["window"] = "member"
          /\ todo'["worker"] = todo["worker"]
      BY <1>7, GoesTo DEF SetNewFolder
    <2> QED
      BY <1>7, <2>1, <2>2 DEF SetNewFolder
  <1>8. CASE Save
    <2>1. /\ at'["worker"] = "saved" /\ at'["window"] = at["window"] /\ at["worker"] = "save"
          /\ todo'["worker"] = "refresh" /\ todo["worker"] = "refresh"
          /\ UNCHANGED <<app, mem, crossed, asked>> /\ app = "up"
      BY <1>8, GoesTo DEF Save, ThreadPlaces
    <2>2. fetched \subseteq fetched' /\ (~ crossed => asked.id \in fetched')
      BY <1>8, <2>1 DEF Save
    <2>3. ~ crossed => asked.id = mem.id /\ ~ Inserting
      BY <2>1
    <2>4. CASE LoggedIn /\ user.id = mem.id
      <3>1. user \in Rows(Accounts, Folders) /\ user' = [user EXCEPT !.seen = TRUE]
        BY <1>8, <2>4 DEF Save, AccountTypeOK
      <3>2. user'.id = user.id
        BY <3>1 DEF Rows
      <3> QED
        BY <2>1, <2>2, <2>3, <2>4, <3>2
    <2>5. CASE ~ (LoggedIn /\ user.id = mem.id)
      <3>1. user' = user
        BY <1>8, <2>5 DEF Save
      <3> QED
        BY <2>1, <2>2, <2>3, <3>1
    <2> QED
      BY <2>4, <2>5
  <1>9. CASE Saved
    <2>1. mem'.id = mem.id
      BY <1>9 DEF Saved, AccountTypeOK, Rows
    <2>2. /\ at'["worker"] = "idle" /\ at'["window"] = at["window"] /\ at["worker"] = "saved"
          /\ todo["worker"] = "refresh" /\ app = "up"
      BY <1>9, GoesTo DEF Saved, ThreadPlaces
    <2> QED
      BY <1>9, <2>1, <2>2 DEF Saved
  <1>10. ASSUME NEW t \in Threads, Join(t) PROVE SeenIsFetched' /\ Answers'
    BY <1>10, GoesTo DEF Join, Terminate, ThreadPlaces
  <1>11. CASE LoginRuns
    BY <1>11, GoesTo DEF LoginRuns, RunWatcher, Terminate
  <1>12. CASE WriteFiles
    BY <1>12, GoesTo DEF WriteFiles, RunWatcher, Terminate, ThreadPlaces
  <1>13. CASE Begin
    <2>1. /\ UNCHANGED <<app, data, exists, watcher, fetched>> /\ at["worker"] = "idle"
          /\ at'["window"] = at["window"]
      BY <1>13, GoesTo DEF Begin
    <2>2. ~ crossed' => ~ crossed
      BY <1>13, BeginSlips DEF AccountTypeOK
    <2>3. CASE Goes("worker", "answer", "download") /\ UNCHANGED asked
      BY <2>1, <2>2, <2>3, GoesTo
    <2>4. CASE Goes("worker", "since", "refresh") /\ asked' = [asked EXCEPT !.id = mem.id]
      <3>1. asked'.id = mem.id /\ at'["worker"] = "since" /\ todo'["worker"] = "refresh"
        BY <2>4, GoesTo DEF AccountTypeOK
      <3>2. ~ crossed' => ~ Inserting
        BY <1>13, <3>1, BeginSlips, GoesTo DEF AccountTypeOK
      <3> QED
        BY <2>1, <2>2, <3>1, <3>2
    <2> QED
      BY <1>13, <2>3, <2>4 DEF Begin
  <1>14. CASE ReadLastUpdate
    <2>1. asked'.id = asked.id /\ (asked'.since <=> mem.seen)
      BY <1>14 DEF ReadLastUpdate, AccountTypeOK, Rows
    <2>2. /\ at'["worker"] = "answer" /\ at'["window"] = at["window"] /\ at["worker"] = "since"
          /\ todo'["worker"] = "refresh" /\ todo["worker"] = "refresh" /\ app = "up"
      BY <1>14, GoesTo DEF ReadLastUpdate, ThreadPlaces
    <2> QED
      BY <1>14, <2>1, <2>2 DEF ReadLastUpdate
  <1>15. CASE Answer
    BY <1>15, GoesTo DEF Answer, ThreadPlaces
  <1>16. CASE LoginRefused
    BY <1>16, GoesTo DEF LoginRefused
  <1>17. ASSUME NEW t \in Threads, StopWatcher(t) PROVE SeenIsFetched' /\ Answers'
    BY <1>17, GoesTo DEF StopWatcher
  <1>18. CASE FolderGone \/ ThreadStarts \/ ThreadEnds
    BY <1>18 DEF FolderGone, ThreadStarts, ThreadEnds
  <1> QED
    BY <1>1, <1>2, <1>3, <1>4, <1>5, <1>6, <1>7, <1>8, <1>9, <1>10, <1>11, <1>12, <1>13,
       <1>14, <1>15, <1>16, <1>17, <1>18 DEF AccountNext

-------------------------------------------------------------------------------
(* Who is at work                                                          *)

LEMMA ThreadPlacesKept ==
  ASSUME AccountTypeOK, app = "up" => ThreadPlaces, [AccountNext]_accountVars
  PROVE  (app = "up" => ThreadPlaces)'
  <1> USE DEF ThreadPlaces, Inserting, LoggedIn, Threads, data
  <1>1. CASE UNCHANGED accountVars
    BY <1>1 DEF accountVars
  <1>2. CASE Open
    BY <1>2 DEF Open, Off
  <1>3. CASE FolderGone \/ ThreadStarts \/ ThreadEnds
    BY <1>3 DEF FolderGone, ThreadStarts, ThreadEnds
  <1>4. ASSUME NEW t \in Threads, StopWatcher(t) PROVE (app = "up" => ThreadPlaces)'
    BY <1>4, GoesTo DEF StopWatcher
  <1>5. ASSUME NEW t \in Threads, Join(t) PROVE (app = "up" => ThreadPlaces)'
    BY <1>5, GoesTo DEF Join, Terminate
  <1>6. CASE Login
    <2>1. user' # None
      BY <1>6, RowTypes, HomeAssumption DEF Login
    <2> QED
      BY <1>6, <2>1, GoesTo DEF Login
  <1>7. CASE SetUserId \/ SetSyncFolder \/ SetLastUpdate
    BY <1>7, MembersSet
  <1>8. CASE LoginRefused
    BY <1>8, GoesTo DEF LoginRefused
  <1>9. CASE LoginRuns
    BY <1>9, GoesTo DEF LoginRuns, RunWatcher, Terminate
  <1>10. CASE Logout \/ ChangeFolder \/ Quit
    BY <1>10, GoesTo, Clicks DEF Logout, ChangeFolder, Quit
  <1>11. CASE NewFolder \/ SetNewFolder
    <2>1. user' # None <=> user # None
      BY <1>11, UserStays DEF SetNewFolder
    <2> QED
      BY <1>11, <2>1, GoesTo DEF NewFolder, SetNewFolder
  <1>12. CASE Begin
    BY <1>12, GoesTo DEF Begin
  <1>13. CASE ReadLastUpdate \/ Answer
    BY <1>13, GoesTo DEF ReadLastUpdate, Answer
  <1>14. CASE WriteFiles
    BY <1>14, GoesTo DEF WriteFiles, RunWatcher, Terminate
  <1>15. CASE Save \/ Saved
    <2>1. user' # None <=> user # None
      BY <1>15, UserStays DEF Saved
    <2> QED
      BY <1>15, <2>1, GoesTo DEF Save, Saved
  <1> QED
    BY <1>1, <1>2, <1>3, <1>4, <1>5, <1>6, <1>7, <1>8, <1>9, <1>10, <1>11, <1>12, <1>13,
       <1>14, <1>15 DEF AccountNext

\* A thread runs when there is a user.
Hired == app = "up" /\ ~ slipped => OneAtWork

LEMMA HiredKept ==
  ASSUME AccountTypeOK, app = "up" => ThreadPlaces, Hired, [AccountNext]_accountVars
  PROVE  Hired'
  <1> USE DEF Hired, OneAtWork, Between, Inserting, ThreadPlaces, Threads, LoggedIn, watcher,
              data, history
  <1>1. CASE UNCHANGED accountVars
    BY <1>1 DEF accountVars
  <1>2. CASE Open
    BY <1>2 DEF Open, Off
  <1>3. CASE FolderGone \/ ThreadStarts \/ ThreadEnds
    BY <1>3 DEF FolderGone, ThreadStarts, ThreadEnds
  <1>4. ASSUME NEW t \in Threads, StopWatcher(t) PROVE Hired'
    BY <1>4, GoesTo DEF StopWatcher
  <1>5. ASSUME NEW t \in Threads, Join(t) PROVE Hired'
    BY <1>5, GoesTo DEF Join, Terminate
  <1>6. CASE Login
    <2>1. user' # None
      BY <1>6, RowTypes, HomeAssumption DEF Login
    <2> QED
      BY <1>6, <2>1, GoesTo, LoginSlips DEF Login
  <1>7. CASE SetUserId \/ SetSyncFolder \/ SetLastUpdate
    BY <1>7, MembersSet
  <1>8. CASE LoginRefused
    BY <1>8 DEF LoginRefused
  <1>9. CASE LoginRuns
    BY <1>9, GoesTo DEF LoginRuns, RunWatcher, Terminate
  <1>10. CASE Logout
    BY <1>10, GoesTo, Clicks DEF Logout
  <1>11. CASE ChangeFolder \/ Quit
    BY <1>11, GoesTo, Clicks DEF ChangeFolder, Quit
  <1>12. CASE NewFolder \/ SetNewFolder
    <2>1. user' # None <=> user # None
      BY <1>12, UserStays DEF SetNewFolder
    <2> QED
      BY <1>12, <2>1, GoesTo DEF NewFolder, SetNewFolder
  <1>13. CASE Begin
    <2>1. ~ slipped' => ~ slipped /\ at["window"] = "idle"
      BY <1>13, BeginSlips DEF AccountTypeOK
    <2> QED
      BY <1>13, <2>1, GoesTo DEF Begin
  <1>14. CASE ReadLastUpdate \/ Answer
    BY <1>14, GoesTo DEF ReadLastUpdate, Answer
  <1>15. CASE WriteFiles
    BY <1>15, GoesTo DEF WriteFiles, RunWatcher, Terminate
  <1>16. CASE Save \/ Saved
    <2>1. user' # None <=> user # None
      BY <1>16, UserStays DEF Saved
    <2> QED
      BY <1>16, <2>1, GoesTo DEF Save, Saved
  <1> QED
    BY <1>1, <1>2, <1>3, <1>4, <1>5, <1>6, <1>7, <1>8, <1>9, <1>10, <1>11, <1>12,
       <1>13, <1>14, <1>15, <1>16 DEF AccountNext

\* Nobody starts a second thread or joins none.
LEMMA TerminatesKept ==
  ASSUME AccountTypeOK, app = "up" => ThreadPlaces, Hired, TerminatesOnly,
         [AccountNext]_accountVars
  PROVE  TerminatesOnly'
  <1> USE DEF TerminatesOnly, Hired, OneAtWork, Between, ThreadPlaces, Threads, LoggedIn, watcher, data,
              history
  <1>1. CASE UNCHANGED accountVars
    BY <1>1 DEF accountVars
  <1>2. CASE Open \/ FolderGone \/ ThreadStarts \/ ThreadEnds
    BY <1>2 DEF Open, FolderGone, ThreadStarts, ThreadEnds
  <1>3. ASSUME NEW t \in Threads, Join(t) PROVE TerminatesOnly'
    BY <1>3 DEF Join, Terminate
  <1>4. CASE LoginRuns
    BY <1>4 DEF LoginRuns, RunWatcher, Terminate
  <1>5. CASE WriteFiles
    BY <1>5 DEF WriteFiles, RunWatcher, Terminate
  <1>6. ASSUME NEW t \in Threads,
               \/ StopWatcher(t) \/ Login \/ LoginRefused \/ Logout \/ ChangeFolder
               \/ NewFolder \/ SetNewFolder \/ Quit \/ Begin \/ ReadLastUpdate \/ Answer
               \/ Save \/ Saved \/ SetUserId \/ SetSyncFolder \/ SetLastUpdate
        PROVE  TerminatesOnly'
    BY <1>6 DEF StopWatcher, Login, LoginRefused, Logout, ChangeFolder, NewFolder,
       SetNewFolder, Quit, Begin, ReadLastUpdate, Answer, Save, Saved, Click, SetMember,
       SetUserId, SetSyncFolder, SetLastUpdate
  <1> QED
    BY <1>1, <1>2, <1>3, <1>4, <1>5, <1>6 DEF AccountNext

-------------------------------------------------------------------------------
(* What is watched                                                         *)

Guarded == app = "up" /\ ~ slipped /\ ~ missing => Watches

LEMMA GuardedKept ==
  ASSUME AccountTypeOK, app = "up" => ThreadPlaces, Hired, Guarded, [AccountNext]_accountVars
  PROVE  Guarded'
  <1> USE DEF Guarded, Watches, Joining, Hired, OneAtWork, Between, Inserting, ThreadPlaces,
              Threads, LoggedIn, watcher, data, history
  <1>1. CASE UNCHANGED accountVars
    BY <1>1 DEF accountVars
  <1>2. CASE Open
    BY <1>2 DEF Open
  <1>3. CASE FolderGone
    BY <1>3 DEF FolderGone
  <1>4. CASE ThreadStarts
    <2>1. (missing \/ mem.folder \notin exists) \in BOOLEAN
      OBVIOUS
    <2>2. missing' = (missing \/ mem.folder \notin exists)
      BY <1>4 DEF ThreadStarts
    <2>3. missing' <=> (missing \/ mem.folder \notin exists)
      BY <2>1, <2>2, AsFormula, Zenon
    <2> QED
      BY <1>4, <2>3 DEF ThreadStarts
  <1>5. CASE ThreadEnds
    BY <1>5 DEF ThreadEnds
  <1>6. ASSUME NEW t \in Threads, StopWatcher(t) PROVE Guarded'
    BY <1>6, GoesTo DEF StopWatcher
  <1>7. ASSUME NEW t \in Threads, Join(t) PROVE Guarded'
    BY <1>7, GoesTo DEF Join, Terminate
  <1>8. CASE Login
    BY <1>8, GoesTo, LoginSlips DEF Login
  <1>9. CASE SetUserId \/ SetSyncFolder \/ SetLastUpdate
    BY <1>9, MembersSet
  <1>10. CASE LoginRefused
    BY <1>10 DEF LoginRefused
  <1>11. CASE LoginRuns
    BY <1>11, GoesTo DEF LoginRuns, RunWatcher, Terminate
  <1>12. CASE Logout \/ ChangeFolder \/ Quit
    BY <1>12, GoesTo, Clicks DEF Logout, ChangeFolder, Quit
  <1>13. CASE NewFolder
    BY <1>13, GoesTo DEF NewFolder
  <1>14. CASE SetNewFolder
    BY <1>14, GoesTo DEF SetNewFolder, AccountTypeOK
  <1>15. CASE Begin
    <2>1. ~ slipped' => ~ slipped /\ at["window"] = "idle"
      BY <1>15, BeginSlips DEF AccountTypeOK
    <2> QED
      BY <1>15, <2>1, GoesTo DEF Begin
  <1>16. CASE ReadLastUpdate \/ Answer
    BY <1>16, GoesTo DEF ReadLastUpdate, Answer
  <1>17. CASE WriteFiles
    BY <1>17, GoesTo DEF WriteFiles, RunWatcher, Terminate
  <1>18. CASE Save
    BY <1>18, GoesTo DEF Save
  <1>19. CASE Saved
    <2>1. mem'.folder = mem.folder
      BY <1>19 DEF Saved, AccountTypeOK, Rows
    <2> QED
      BY <1>19, <2>1, GoesTo DEF Saved
  <1> QED
    BY <1>1, <1>2, <1>3, <1>4, <1>5, <1>6, <1>7, <1>8, <1>9, <1>10, <1>11, <1>12,
       <1>13, <1>14, <1>15, <1>16, <1>17, <1>18, <1>19 DEF AccountNext

-------------------------------------------------------------------------------
(* The theorems                                                            *)

AccountInv ==
  /\ AccountTypeOK /\ MemoryIsTable /\ SeenIsFetched
  /\ app = "up" => ThreadPlaces
  /\ Filled /\ Answers
  /\ Hired /\ Guarded /\ TerminatesOnly

\* The inductive invariant: threads, members and table after any sequence of
\* clicks, commands and restarts (App, InternalDB, Watcher).
THEOREM AccountInvariant == AccountSpec => []AccountInv
  <1>1. ASSUME AccountInit PROVE AccountInv
    <2>1. AccountTypeOK
      BY <1>1, InitTypes
    <2> QED
      BY <2>1, <1>1
         DEF AccountInit, AccountInv, MemoryIsTable, SeenIsFetched, LoggedIn, Filled, Answers,
             Hired, Guarded, TerminatesOnly
  <1>2. AccountInv /\ [AccountNext]_accountVars => AccountInv'
    BY TypesKept, MemoryKept, SeenKept, ThreadPlacesKept, HiredKept, TerminatesKept, GuardedKept
       DEF AccountInv
  <1> QED
    BY <1>1, <1>2, PTL DEF AccountSpec

\* The types of the account's state.
THEOREM AccountTypes == AccountSpec => []AccountTypeOK
  BY AccountInvariant, PTL DEF AccountInv

\* The members of InternalDB are the row of table User, whoever changes them
\* (InternalDB::InsertUser, InternalDB::UpdateSyncFolder,
\* InternalDB::SaveLastUpdate).
THEOREM MembersAreTheRow == AccountSpec => []MemoryIsTable
  BY AccountInvariant, PTL DEF AccountInv

\* A saved date belongs to an account whose files have come
\* (InternalDB::SaveLastUpdate).
THEOREM SavedDateIsOwn == AccountSpec => []SeenIsFetched
  BY AccountInvariant, PTL DEF AccountInv

\* No thread is joined that was not started, and none started twice, unless
\* one slips or who was never logged in quits (App::runWatcher,
\* App::stopWatcher, App::~App).
THEOREM ThreadsArePaired == AccountSpec => []TerminatesOnly
  BY AccountInvariant, PTL DEF AccountInv

\* At rest the folder of the user is watched, and none without one
\* (App::runWatcher, App::stopWatcher, Watcher::Run).
THEOREM UsersFolderIsWatched == AccountSpec => []WatchedWhenIn
  <1>1. AccountInv => WatchedWhenIn
    <2> SUFFICES ASSUME AccountInv, Resting, ~ slipped, ~ missing
                 PROVE  watched = IF LoggedIn THEN user.folder ELSE None
      BY DEF WatchedWhenIn
    <2>1. /\ at["window"] = "idle" /\ at["worker"] = "idle"
          /\ todo["window"] = "none" /\ ~ Between /\ ~ Joining
      BY DEF Resting, Off, AccountInv, ThreadPlaces, Threads, Between, Joining
    <2>2. watcherThread = IF LoggedIn THEN "running" ELSE "none"
      BY <2>1 DEF Resting, AccountInv, AccountTypeOK, Hired, OneAtWork, Guarded, Watches
    <2>3. LoggedIn => watched = mem.folder
      BY <2>2 DEF Resting, AccountInv, Guarded, Watches
    <2>4. LoggedIn => mem.folder = user.folder
      BY <2>1 DEF Resting, AccountInv, MemoryIsTable, Inserting
    <2> QED
      BY <2>2, <2>3, <2>4 DEF AccountInv, AccountTypeOK
  <1> QED
    BY <1>1, AccountInvariant, PTL
===============================================================================
