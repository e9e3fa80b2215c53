------------------------------- MODULE DataUpdate -------------------------------
(***************************************************************************)
(* A device's refresh against the sync server's database, statement by     *)
(* statement: RefreshCommand asks for the rows since its last one, and     *)
(* DataUpdateCommand selects them and then the chunks of each.             *)
(*                                                                         *)
(* A row is dated by its place in the table, as if it were dated when it   *)
(* is committed (CloudSync has the case that it is not).                   *)
(***************************************************************************)
EXTENDS MetaDataDB

VARIABLES
  asking,  \* "no", "sent" while a refresh waits for a worker, then which one,
           \* and "answered" when there is an answer for the device
  begun,   \* _lastTMPUpdate: the date at which it began
  since,   \* _lastUpdate
  list,    \* per worker: the rows of its answer, [id, chunks]
  left,    \* per worker: ids of rows whose chunks are still to be selected
  reply,   \* the rows of the answer that is on its way
  emptied, \* history: whether a select of the files has failed
  got      \* history: the rows the device has received

\* asking tells a worker from where else the refresh is.
ASSUME WorkersAssumption == Workers \cap {"no", "sent", "answered"} = {}

refreshVars == <<asking, begun, since, list, left, reply, emptied, got>>

RefreshInit ==
  /\ asking = "no" /\ begun = 0 /\ since = 0
  /\ list = [w \in Workers |-> {}] /\ left = [w \in Workers |-> {}]
  /\ reply = {} /\ emptied = FALSE /\ got = {}

-------------------------------------------------------------------------------
Now == Cardinality(files)

Date(f) == Cardinality({g \in files : g.id <= f.id})

\* GetLastUpdate: the refresh is dated before its request is sent.
Refresh ==
  /\ asking = "no"
  /\ asking' = "sent" /\ begun' = Now
  /\ UNCHANGED <<session, since, list, left, reply, emptied, got>>

ReceiveRefresh(w) ==
  /\ asking = "sent"
  /\ Receives(w, "refresh")
  /\ asking' = w
  /\ list' = [list EXCEPT ![w] = {}] /\ left' = [left EXCEPT ![w] = {}]
  /\ UNCHANGED <<begun, since, reply, emptied, got>>

ConnectRefresh(w) ==
  /\ Is(w, "refresh", "connect")
  /\ Connect(w, "files")
  /\ UNCHANGED refreshVars

\* GetUserFilesByTime. When this select fails, a line is printed, and there are
\* no rows.
SelectFiles(w) ==
  /\ Is(w, "refresh", "files")
  /\ Goto(w, "chunks")
  /\ \/ /\ Usable(w)
        /\ left' = [left EXCEPT ![w] = {f.id : f \in {g \in files : Date(g) > since}}]
        /\ UNCHANGED emptied
     \/ /\ "sql" \in Faults \/ ~ Usable(w)
        /\ emptied' = TRUE
        /\ UNCHANGED left
  /\ UNCHANGED <<conn, cur, answer, asking, begun, since, list, reply, got>>

SelectChunks(w) ==
  /\ Is(w, "refresh", "chunks")
  /\ left[w] # {}
  /\ LET i == Min(left[w])
     IN  \/ /\ Reads(w, "chunks")
            /\ list' = [list EXCEPT ![w] = @ \cup {[id |-> i, chunks |-> ChunksOf(i)]}]
            /\ left' = [left EXCEPT ![w] = @ \ {i}]
         \/ Fails(w, "Fail to get file") /\ UNCHANGED <<list, left>>
  /\ UNCHANGED <<asking, begun, since, reply, emptied, got>>

FinishRefresh(w) ==
  /\ Is(w, "refresh", "chunks")
  /\ left[w] = {}
  /\ Answers(w, "files")
  /\ IF asking = w THEN asking' = "answered" /\ reply' = list[w]
                   ELSE UNCHANGED <<asking, reply>>
  /\ UNCHANGED <<conn, cur, begun, since, list, left, emptied, got>>

RefreshStep(w) ==
  ConnectRefresh(w) \/ SelectFiles(w) \/ SelectChunks(w) \/ FinishRefresh(w)

\* A bug: the refresh is dated when its answer has come.
AnsweredDatesLater ==
  /\ asking = "answered"
  /\ asking' = "no" /\ reply' = {}
  /\ got' = got \cup reply
  /\ since' = Now
  /\ UNCHANGED <<session, begun, list, left, emptied>>

\* RefreshCommand::Do: with a list it saves its date; a row without chunks is
\* taken for a renaming.
Answered ==
  /\ asking = "answered"
  /\ asking' = "no" /\ reply' = {}
  /\ got' = got \cup reply
  /\ since' = begun
  /\ UNCHANGED <<session, begun, list, left, emptied>>

\* The worker has answered with an error; or the answer is lost, or the server
\* has ended.
Unanswered ==
  /\ asking # "no"
  /\ "crash" \in Faults \/ \E w \in Workers : asking = w /\ pc[w] = "idle"
  /\ asking' = "no" /\ reply' = {}
  /\ UNCHANGED <<session, begun, since, list, left, emptied, got>>

-------------------------------------------------------------------------------
(* Properties                                                              *)

Listed == [id: 1 .. nextId, chunks: Seq(Nat)]

RefreshTypeOK ==
  /\ asking \in {"no", "sent", "answered"} \cup Workers
  /\ 0 <= since /\ since <= begun /\ begun <= Now
  /\ \A w \in Workers : list[w] \subseteq Listed /\ left[w] \subseteq 1 .. nextId
  /\ emptied \in BOOLEAN /\ reply \subseteq Listed /\ got \subseteq Listed

\* A device that takes itself for up to date has every row up to then, each with
\* its chunks, whatever statement failed, answer was lost or upload came between
\* its asking and the answer; unless the select of the files failed, which is
\* answered as if there were none (RefreshCommand::Do, InternalDB::SaveLastUpdate,
\* MetaDataDB::GetUserFilesByTime).
UpToDate ==
  ~ emptied =>
    \A f \in files : Date(f) <= since => [id |-> f.id, chunks |-> f.info.chunks] \in got
===============================================================================
