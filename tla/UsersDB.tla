-------------------------------- MODULE UsersDB --------------------------------
(***************************************************************************)
(* LoginUser and RegisterUser on the sync server, statement by statement:  *)
(* UsersDB::Login and UsersDB::Registration over a connection the workers  *)
(* share. Nothing but the count makes a login unique in table Users.       *)
(*                                                                         *)
(* Logins hold no character that "like" takes for a pattern.               *)
(***************************************************************************)
EXTENDS PostgresSQLDB, FiniteSets

CONSTANT Credentials   \* what users enter: [login, password]

ASSUME CredentialsAssumption == Credentials # {}

VARIABLES
  users,       \* table Users, committed
  nextUser,    \* the sequence of Users.id
  sent,        \* per worker: the login and password of its request
  userId,      \* per worker: the id it has read
  registered   \* history: the accounts registrations were answered with

usersVars == <<users, nextUser, sent, userId, registered>>

Account(i, r) == [id |-> i, login |-> r.login, password |-> r.password]

Requests ==
  {[kind |-> k, login |-> c.login, password |-> c.password] :
     k \in {"login", "register"}, c \in Credentials}

UsersInit ==
  /\ users = {} /\ nextUser = 1
  /\ sent = [w \in Workers |-> CHOOSE r \in Requests : TRUE]
  /\ userId = [w \in Workers |-> 0]
  /\ registered = {}

-------------------------------------------------------------------------------
\* Table Users after the changes.
UsersWith(changes) == users \cup {c.user : c \in Of(changes, "user")}

\* What the shared connection sees of it.
Seen(w) == IF Cur(w) = 0 THEN users ELSE UsersWith(conn[Cur(w)].work)

RowsOf(w) == {u \in Seen(w) : u.login = sent[w].login}

Refusal(w) ==
  IF sent[w].kind = "login" THEN "Invalid login or password" ELSE "Login is already exist"

ReceiveAccount(w) ==
  /\ Receives(w, "account")
  /\ \E r \in Requests : sent' = [sent EXCEPT ![w] = r]
  /\ UNCHANGED <<users, nextUser, userId, registered>>

\* The statements without an effect on the table, and those that fail.
PrepareAccount(w) ==
  /\ \/ Is(w, "account", "connect") /\ Connect(w, "begin")
     \/ Is(w, "account", "begin") /\ Begin(w, "savepoint", Refusal(w))
     \/ Is(w, "account", "savepoint") /\ Savepoint(w, "count", Refusal(w))
     \/ \E at \in {"count", "password", "insert", "id", "commit"} :
          Is(w, "account", at) /\ Fails(w, Refusal(w))
  /\ UNCHANGED usersVars

\* The request is refused, and its transaction stays open.
Refuse(w) == Usable(w) /\ Answers(w, Refusal(w)) /\ UNCHANGED <<conn, cur>>

\* A bug: two rows are needed to refuse a registration.
CountUserTwo(w) ==
  /\ Is(w, "account", "count")
  /\ LET exists == Cardinality(RowsOf(w)) = 2
         known == Cardinality(RowsOf(w)) = 1
     IN  CASE sent[w].kind = "login" /\ known -> Reads(w, "password")
           [] sent[w].kind = "register" /\ ~ exists -> Reads(w, "insert")
           [] OTHER -> Refuse(w)
  /\ UNCHANGED usersVars

\* userExist: it is one row that makes a user.
CountUser(w) ==
  /\ Is(w, "account", "count")
  /\ LET exists == Cardinality(RowsOf(w)) = 1
     IN  CASE sent[w].kind = "login" /\ exists -> Reads(w, "password")
           [] sent[w].kind = "register" /\ ~ exists -> Reads(w, "insert")
           [] OTHER -> Refuse(w)
  /\ UNCHANGED usersVars

\* isPasswordCorrect.
CheckPassword(w) ==
  /\ Is(w, "account", "password")
  /\ \E u \in RowsOf(w) :
       IF u.password = sent[w].password THEN Reads(w, "id") ELSE Refuse(w)
  /\ UNCHANGED usersVars

InsertUser(w) ==
  /\ Is(w, "account", "insert")
  /\ LET u == Account(nextUser, sent[w])
     IN  /\ Works(w, {[kind |-> "user", user |-> u]})
         /\ users' = IF InTransaction(w) THEN users ELSE users \cup {u}
  /\ nextUser' = nextUser + 1
  /\ Goto(w, "id")
  /\ UNCHANGED <<answer, sent, userId, registered>>

\* A bug: any user's id is selected.
SelectAnyUser(w) ==
  /\ Is(w, "account", "id")
  /\ Reads(w, "commit")
  /\ \E u \in Seen(w) : userId' = [userId EXCEPT ![w] = u.id]
  /\ UNCHANGED <<users, nextUser, sent, registered>>

\* getUserId. Without a row (another worker has ended the transaction), a null
\* pointer is read and the process ends.
SelectUser(w) ==
  LET found == {u \in RowsOf(w) : u.password = sent[w].password}
  IN  /\ Is(w, "account", "id")
      /\ Usable(w)
      /\ \/ /\ Reads(w, "commit")
            /\ \E u \in found : userId' = [userId EXCEPT ![w] = u.id]
            /\ UNCHANGED <<users, nextUser, sent, registered>>
         \/ found = {} /\ Stop /\ UNCHANGED usersVars

CommitUser(w) ==
  /\ Is(w, "account", "commit")
  /\ Commit(w, "ok", Refusal(w))
  /\ users' = Seen(w)
  /\ registered' = IF sent[w].kind = "register" /\ answer'[w] = "ok"
                     THEN registered \cup {Account(userId[w], sent[w])} ELSE registered
  /\ UNCHANGED <<nextUser, sent, userId>>

-------------------------------------------------------------------------------
AccountStep(w) ==
  \/ PrepareAccount(w) \/ CountUser(w) \/ CheckPassword(w) \/ InsertUser(w)
  \/ SelectUser(w) \/ CommitUser(w)

-------------------------------------------------------------------------------
(* Properties                                                              *)

Accounts == {Account(i, c) : i \in 1 .. nextUser, c \in Credentials}

UsersTypeOK ==
  /\ users \subseteq Accounts /\ registered \subseteq Accounts
  /\ nextUser \in Nat \ {0}
  /\ sent \in [Workers -> Requests] /\ userId \in [Workers -> Nat]

\* With one worker, an account that a registration was answered with is there
\* for good, with that id, and no other has its login, though requests failed
\* at any statement and left their transactions open (UsersDB::Registration).
Registered == \A a \in registered : {u \in users : u.login = a.login} = {a}

\* A login succeeds only into the account with that login and password
\* (UsersDB::Login).
LoginRight ==
  \A w \in Workers :
    serving[w] = "account" /\ answer[w] = "ok" => Account(userId[w], sent[w]) \in users
===============================================================================
