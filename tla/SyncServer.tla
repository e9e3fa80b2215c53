------------------------------- MODULE SyncServer -------------------------------
(***************************************************************************)
(* The sync server as a whole: its workers serve logins, registrations,    *)
(* uploads of metadata and refreshes, in any order, each over a connection *)
(* of its own object, among those that earlier requests left open.         *)
(***************************************************************************)
EXTENDS UsersDB, DataUpdate

CONSTANT MaxRequests   \* bound: requests

ASSUME MaxRequestsAssumption == MaxRequests \in Nat

VARIABLE requests      \* how many there have been

vars == <<session, usersVars, uploadVars, refreshVars, requests>>

Init == SessionInit /\ UsersInit /\ UploadInit /\ RefreshInit /\ requests = 0

-------------------------------------------------------------------------------
\* SyncManager::GetRequest.
Receive(w) ==
  /\ requests < MaxRequests
  /\ requests' = requests + 1
  /\ \/ ReceiveAccount(w) /\ UNCHANGED <<uploadVars, refreshVars>>
     \/ ReceiveUpload(w) /\ UNCHANGED <<usersVars, refreshVars>>
     \/ ReceiveRefresh(w) /\ UNCHANGED <<usersVars, uploadVars>>

ServesAccount(w) == AccountStep(w) /\ UNCHANGED <<uploadVars, refreshVars, requests>>

ServesUpload(w) == UploadStep(w) /\ UNCHANGED <<usersVars, refreshVars, requests>>

ServesRefresh(w) == RefreshStep(w) /\ UNCHANGED <<usersVars, uploadVars, requests>>

Device ==
  /\ (requests < MaxRequests /\ Refresh) \/ Answered \/ Unanswered
  /\ UNCHANGED <<usersVars, uploadVars, requests>>

Crash ==
  /\ "crash" \in Faults
  /\ Stop
  /\ UNCHANGED <<usersVars, uploadVars, refreshVars, requests>>

Step(w) == ServesAccount(w) \/ ServesUpload(w) \/ ServesRefresh(w)

Next == Device \/ Crash \/ \E w \in Workers : Receive(w) \/ Step(w)

Spec == Init /\ [][Next]_vars

-------------------------------------------------------------------------------
(* Properties                                                              *)

\* The type invariant.
TypeOK ==
  /\ SessionTypeOK({"connect", "begin", "savepoint", "count", "password", "insert", "id",
                    "commit", "update", "select", "version", "files", "chunks"},
                   {"ok", "Invalid login or password", "Login is already exist", Failure,
                    "files", "Fail to get file"})
  /\ UsersTypeOK /\ UploadTypeOK /\ RefreshTypeOK
  /\ requests \in 0 .. MaxRequests

\* The transactions that refused and failed requests leave open, on connections
\* nobody will use again, have changed nothing and hold no lock, so that no later
\* request waits for one (PostgresSQLDB::pqExec, PostgresSQLDB::Connect).
LeftoversHoldNothing ==
  \A k \in DOMAIN conn :
    (\A w \in Workers : pc[w] = "idle" \/ Cur(w) # k) => conn[k].work = {}

\* As long as no statement fails, a request is not answered with "Database
\* error" (PostgresSQLDB::Connect).
ServerGoesOn == \A w \in Workers : answer[w] # "Database error"
===============================================================================
