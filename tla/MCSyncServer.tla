------------------------------ MODULE MCSyncServer ------------------------------
EXTENDS SyncServer, TLC

CONSTANTS w1, w2, p, b

Upload(file, ver, chunks) ==
  [file |-> file, path |-> p, ver |-> ver, del |-> FALSE, cur |-> TRUE,
   date |-> 1, chunks |-> chunks, bytes |-> [k \in DOMAIN chunks |-> b]]

\* Two versions of a file, the second without chunks; with more requests,
\* another file.
Two == {Upload(1, 1, <<1, 2>>), Upload(1, 2, <<>>)}
Three == Two \cup {Upload(2, 1, <<4>>)}

\* Two users, one of whom may mistake the password.
People == {[login |-> "ann", password |-> "x"], [login |-> "ann", password |-> "y"],
           [login |-> "bob", password |-> "x"]}
===============================================================================
