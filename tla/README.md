# YSNP.Cloud in TLA+

YSNP.Cloud keeps a folder on several devices of a user in step through two
servers: a sync server with the metadata of every file version (PostgreSQL) and
a storage server with the chunks (MongoDB). On a device a watcher turns what
happens in the folder into commands, a worker runs them one at a time, and a
local index (SQLite) remembers what the device knows. This directory models
that system in TLA+, checks it with TLC and proves its core with TLAPS.

Paths below are relative to `src/project/`.

## Inventory

| Part | State | Operations | Module |
|---|---|---|---|
| Client commands, `App/src/Commands.cpp` | local variables of one command | the six file commands, login, registration | `CloudSync`; `Account` for users and the watcher's restarts; `DataUpdate` for a refresh against the database |
| App, `App/src/App.cpp` | command queue, event queue, worker flag, watcher thread | calls of the window, `watcherCallback`, `runWorker`, `runWatcher`, `stopWatcher` | `CloudSync` (what is queued), `CloudWorkers` (when a worker is started for it), `CommandQueue` (threads at the queue), `Account` (the watcher's thread) |
| Worker, `App/src/Worker.cpp` | the shared queue and flag | `Run` | `CloudWorkers`, `CommandQueue` |
| InternalDB, `DataBases/InternalDB` | tables Files, Chunks, User and the members that repeat User | the calls of the commands and of the indexer | `InternalDB`, `Account` |
| Indexer, `Client/Indexer` | none | create, modify, rename, delete | `InternalDB` |
| Watcher (Linux), `Client/Watcher/Linux` | inotify's queue, what was read of it, the map of watches | `runOnce`, `watchDirectory`, `removeWatch`, `Run`, `Stop` | `Watcher`, `Account` |
| Chunker, `Client/Chunker`, and `utils` `SerializerChunk` | the file being read | `ChunkFile`, `MergeFile`, Base64 | `Chunker` |
| PostgresSQLDB, `DataBases/PostgresDB/Base` | one `_conn` per object, the transactions on it | `Connect`, `pqExec` | `PostgresSQLDB` |
| MetaDataDB, `DataBases/PostgresDB/MetaDataDB` | tables Files, Version | `InsertFile`, `GetUserFilesByTime` | `CloudServers` (whole), `MetaDataDB` and `DataUpdate` (statements) |
| UsersDB, `DataBases/PostgresDB/UserDB` | table Users | `Login`, `Registration` | `UsersDB` |
| MongoDB, `DataBases/MongoDB` | collection chunks | `InsertChunk`, `GetChunk` | `CloudServers` (whole), `ChunkStore` (operations) |
| Server commands and managers, `Servers/*` | none of their own | one handler per request | `CloudServers`, `SyncServer`, `ServerPipeline` |
| Server network, `Network/Server`, `Servers/server` | three queues, sessions, worker threads | accept, read, serve, write | `ServerPipeline` |
| Client network, `Network/Client` | one socket | `sendAndReceive` | `ServerPipeline`, `CloudSync` |
| Qt windows, `QtClientApp` | widgets | clicks | the actions of `Account` and `CloudSync` that users take |
| Other serializers, configuration, Apple watcher | none that matters here | conversions, settings, a stub | not modelled |

How they interact. The watcher's thread and the window's call `App`, which puts
a refresh and the command for the event into the queue and starts a worker if
none seems to run. The worker runs the command: first the local index, then a
request to the storage server, then one to the sync server, each over a
connection of its own. A server reads a request in one thread, serves it in a
worker and answers from another thread. Devices learn of each other only by
refreshing: the sync server returns the rows dated after the device's last
refresh.

What makes the parts correct, and what is hard about each:

- *Commands.* A file version in the cloud must restore to the bytes it was made
  from, whatever fails between the chunks and the metadata and whatever other
  devices do. The program must not remove bytes of the user that are nowhere
  else. A deletion in the cloud must come from a user.
- *Index.* File and chunk ids come from AUTOINCREMENT columns of each device;
  the cloud knows a file and its chunks by the ids of the device that made
  them. A device that takes a foreign row over gives it its *own* next id. The
  index agrees with the cloud only as long as all devices have handed out the
  same ids in the same order.
- *MetaDataDB.* One row of a file is current. Rows are never changed otherwise.
  A refresh must not miss a row; it selects by the time the writer saw.
- *MongoDB.* An id has one document, and it never changes.
- *Worker and App.* Commands run in the order they were queued, each once, one
  at a time, though neither queue nor flag is protected; none stays behind.
- *Account and the watcher's thread.* The account is kept twice, in a table and in
  members, and two threads write both without a lock; they must say the same. The
  folder of the user who is logged in is watched; `std::thread` ends the program
  when it is assigned over or joined at the wrong moment, and three threads do
  both.
- *Watcher.* What inotify's events are taken for is what happened, however they
  are split over reads; it can be stopped and started.
- *Chunker.* What is cut, encoded and sent can be put together again.
- *Server network.* A session is in one thread's hands; a request gets its own
  answer; what can starve a client.
- *The databases behind the servers.* `_conn` is replaced by each request and
  closed by none, errors leave transactions open, checks and inserts are
  statements of their own. A reply must still mean what it says.

## Modules

    BackupLog                      what the two servers promise
       ^ refines
    CloudServers < InternalDB < CloudSync < OrderlySync < MCCloudSync
                                CloudSync < CloudWorkers < MCCloudWorkers

The system as a whole is in the first group. The others go into its parts, where
`CloudSync` has a single step or none, and most are shown to implement what
`CloudSync` takes them for:

| Detailed | implements | by which `CloudSync` may have |
|---|---|---|
| `MetaDataDB`, statements over shared connections | `FileTable` | `InsertFile` as one step |
| `ChunkStore`, operations of the collection | `ChunkCollection` | `UploadChunks` as one step that failure may cut short |
| `ServerPipeline`, threads and queues | `RequestReply` | a request that is answered, refused or lost |
| `CommandQueue`, queue and flag without a lock | `CommandExecutor` | a queue whose commands run one by one |

    PostgresSQLDB < UsersDB \ CloudServers, PostgresSQLDB < MetaDataDB <
    DataUpdate > SyncServer < MCSyncServer CloudServers < ChunkStore <
    MCChunkStore Account, Watcher, CommandQueue, Chunker < MCClient ServerPipeline

The proofs about `CloudSync`, `OrderlySync`, `SyncServer`, `ChunkStore`,
`ServerPipeline`, `Account` and `Watcher` are in a module each, named after it
with `_proofs`, which extends it; those about `CloudWorkers` are in
`CloudSync_proofs`, those about `CommandQueue`, `Chunker` and the parts of
`MCClient` together in `Client_proofs`.

- `CloudServers`: what the servers do with one request, as operators:
  `InsertFile`, `GetUserFilesByTime` (sync server), `AllAreNew`, `ChunkDocs`,
  `CanGetChunk`, `GetChunk` (storage server).
- `InternalDB`: the local index as a record, one operator per call, and the four
  operations of the indexer.
- `CloudSync`: any number of devices. Per device the index `db`, the folder
  `disk`, the command `queue`, the place of the worker in its command `pc` and
  the command's locals `tmp`, `got`, `info`; for the servers `rows` and `store`.
  The user's actions are what the watcher reports or a window calls; each puts
  its commands into the queue as `App` does. The worker's actions are the steps
  of a command between two requests:

  | Command | Actions |
  |---|---|
  | refresh | `RefreshBegin`, `RefreshAnswer`, `RefreshRow` for each row, `RefreshEnd` |
  | create, modify | `CreateBegin` or `ModifyBegin`, `UploadChunks`, `UploadMeta` |
  | rename, delete | `RenameBegin` or `DeleteBegin`, `UploadMeta` |
  | download | `DownloadAsk`, `DownloadSave` |

  `Crash` ends the process between any two steps; `Abort` is the end of the
  process by an exception no one catches, which is what `SelectFile` raises in a
  command for a path the index does not have, and `file_size` for a file that is
  gone. The database and the folder survive, the queue does not.
- `OrderlySync`: the same system under the discipline its design depends on, and
  the properties that need it. The user touches one device at a time, when all
  have finished (`Turn`), never in the second in which another device last
  refreshed, writes only when a refresh would bring the device nothing, its own
  rows included (`Fresh`), and gives no file a path that the index has for one
  that is only in the cloud (`NewNames`). The clock runs all the while, between
  the steps of a command too. A renaming and a deletion are dated when the command
  runs (`Indexer.cpp`), after the refresh before them; when the second has changed
  by then, the device's next refresh brings it its own row, deletes the renamed
  copy (`ApplyToKnown`), and the file is there again only after a download.
- `CloudWorkers`: `CloudSync` with the threads that take its steps. A command is
  put into the queue and `RunWorker` looks at the flag; a worker thread takes the
  commands (`RunsCommand`), finds none (`SeesEmpty`) and clears the flag
  (`ClearsFlag`), and in between a `RunWorker` starts none (`unseen`).
- `BackupLog`: an append-only log of file versions with their bytes.
- `MCCloudSync`, `MCCloudWorkers`: the constants of the runs.
- `PostgresSQLDB`: the connections PostgreSQL has, with the transaction on each
  (`conn`), and the two `_conn` pointers (`cur`: the server has one object of
  `UsersDB` and one of `MetaDataDB`, shared by its workers). `Connect`, `Begin`,
  `Savepoint`, `Reads`, `Works`, `Commit` and `Fails`, which rolls back to the
  savepoint and leaves the transaction open, are the statements that the next
  modules put in order. `Stop` is the end of the process.
- `UsersDB`: `CountUser`, `CheckPassword`, `InsertUser`, `SelectUser` and
  `CommitUser` are the statements of `Login` and `Registration`.
- `MetaDataDB`: `UpdateOld`, `InsertNew`, `SelectId`, `InsertVersion` and
  `CommitWork` are those of `InsertFile`. `UpdateOld` waits for rows that another
  transaction has updated; a select without a row reads a null pointer, which is
  the end of the process.
- `DataUpdate`: a device's refresh, from its date to its answer, and the two
  selects of `GetUserFilesByTime` between which uploads may come.
- `SyncServer`: all of these in one server, in any order, on the connections that
  earlier requests left behind.
- `ChunkStore`: the lookups (`Finds`), the inserts (`Inserts`) and the reads
  (`Gets`) of the storage server, one operation of MongoDB each.
- `ServerPipeline`: the io thread (`Accept`, `AcceptFails`), the reader thread
  (`ReaderTakes`, `ReaderReads`, `ReaderFails`), the workers (`Polls`, which is
  `Empty`, `Pops`, `Serves`) and the responder (`Responds`), with clients that
  send, stay silent or leave. `MaxOpen` is the process's limit of descriptors.
- `CommandQueue`: the window's and the watcher's thread (`Emplace`, `RunWorker`)
  and each access of `Worker::Run` to the queue and the flag.
- `Watcher`: what an operation of the user makes inotify report (`Emit`), one
  `Read` of all that is there, and the branches of `runOnce` (`OnCreate`,
  `OnModify`, `OnMovedFrom`, `OnMovedTo`, `OnDelete`, `OnMakeDir`, `OnOther`);
  `Stop`, `Ends` and `Run`. `index` is what the notifications come to.
- `Account`: the window (`Login`, `LoginRefused`, `Logout`, `ChangeFolder`,
  `Quit`), the worker's commands as far as they touch the account or the watcher
  (`Begin`, `Answer`, `WriteFiles`), and the watcher's thread
  (`RunWatcher`, `StopWatcher`, `Join`, `ThreadStarts`, `ThreadEnds`). The row of
  table User and the members that repeat it are written in steps of their own:
  `InsertUser` is `Login` (the row), `SetUserId`, `SetSyncFolder`, `SetLastUpdate`;
  `UpdateSyncFolder` is `NewFolder` (the row), `SetNewFolder`; `SaveLastUpdate` is
  `Save` (the row), `Saved`; and `GetLastUpdate` reads the account in `Begin`, the
  date in `ReadLastUpdate`.
- `Chunker`: `ReadChunk` is a turn of `ChunkFile`'s loop, `MergeChunk` one of
  `MergeFile`'s with the Base64 of `SerializerChunk` in between. `BufferSize` is
  `calcDecodeLength`, from the last two characters of the text; `Decode` is what
  `BIO_read` delivers, the bytes before the padding. Before the empty text
  `calcDecodeLength` reads what is in front of the string's characters: that is a
  byte of its length (`LengthByte`), which for a short text is zero and no
  padding.
- `MCClient`: the four parts of the client that share no variable. They are
  checked in one run, in which a behaviour is one of a single part: letting them
  take turns would multiply the states and show nothing more.

Operators whose comment begins with "A bug" are not part of the model. Each is
the changed form of the definition after it, with which a property was seen to
fail.

### Abstractions

- A request and its answer are one step. Between them a command only waits; an
  answer that is lost and a process that dies while it waits leave the same
  states as the request's effect followed by a failure or by `Crash`.
- In `CloudSync` a request is served as a whole, as with one worker per server.
  Both `config.json` have `workersCount` 1, and with one worker `MetaDataDB` and
  `ChunkStore` implement tables for which this is so (`FileTable`,
  `ChunkCollection`).
- An index operation is one step: a crash in the middle of it, between two
  SQLite statements, is not modelled.
- In `CloudSync` the event comes with the user's action; the way through inotify
  is in `Watcher`. The one effect of stopping the watcher that matters for the
  commands is kept: a refresh removes a *deleted* file with the watcher running
  and an *outdated* copy with it stopped.
- Threads that share a `std::queue` or `bool` without a lock are interleaved
  access by access (`CommandQueue`). What else a data race may do is left out, as
  is what libpq would do with two statements at once on a connection.
- A statement of SQL, an operation of MongoDB, `Push` and `Pop` of `SafeQueue`
  are one step each. The 2 seconds for which a server thread sleeps are none.
- A row of table Files is dated in `DataUpdate` by its place, as if it were dated
  when it is committed. That it is dated by its writer, earlier, is in
  `CloudSync`, and is one of the findings.
- The watcher is followed to the index at once: `index` has what the file held
  when the notification came. There is one subdirectory.
- Bytes are few values; Base64 is kept as groups of three with padding.
- One user. A user id is part of every key, so users do not meet.
- Times are whole seconds of one clock; `update_date` is compared as a time.
- A path is a value; the `LIKE` of `GetFileId` is taken as equality. Size,
  hashes and the creation date are left out. A file has at least one chunk, as
  the chunker always makes one.
- Chunk rows of the index are grouped by the file they name; SQLite returns them
  in the order of insertion. The same is assumed of the Version rows, which
  `GetUserFilesByTime` selects without an order.
- `got` holds the numbers of rows instead of copies: only `is_current` changes
  in a row, and no client reads it.
- `by` in a command and `bytes` in a row are history: the code has neither.

## What TLC checks

| Run | Setting | Distinct states | Question |
|---|---|---|---|
| `CloudSync.cfg` | 2 devices, 2 paths, contents of one and two chunks, 3 user actions, clock to 2, failing requests and crashes | about 1,126,000 up to symmetry | do the servers stay consistent whatever happens |
| `Orderly.cfg` | 2 devices, 2 paths, contents of one and two chunks, 5 user actions, a running clock to 4, no failures, in turn | 2,895,508 up to symmetry | does it work when used as intended |
| `Drains.cfg` | `CloudWorkers`: 2 devices, 1 path, 3 user actions, clock to 2, failing requests and crashes, fair threads | 661,910 | does every device finish |
| `Pipeline.cfg` | 3 clients, 2 of whom may leave, 2 workers, 2 descriptors, fair threads | 139,190 | does each client get its answer, and what starves one |
| `SyncServer.cfg` | 1 worker, 3 requests of any kind, 2 uploads of a file, 2 users of whom one may mistake the password, 3 connections, failing statements, crashes | 521,462 | do replies mean what they say |
| `Chunks.cfg` | 1 worker, 4 uploads with clashing ids, 2 downloads, failing operations, crashes | 27,533 | is an id stored once, and restored |
| `Client.cfg` | `Account`: 2 accounts, 2 folders; `Watcher`: 2 files and one in a subdirectory, 6 operations, 2 restarts; `CommandQueue`: 2 threads, 3 commands; `Chunker`: chunks of 3 bytes, files to 9 | 1,412,922 | threads and files of the client |
| `RestoreAfterFailure.cfg` | in turn, requests may fail | | fails: see below |
| `MissedVersion.cfg` | no failures, not in turn | | fails |
| `LostEdit.cfg` | one device, no failures | | fails |
| `EchoedDeletion.cfg` | in turn, no failures | | fails |
| `LeakedConnections.cfg` | 1 worker, 3 connections, 4 requests, no failures | | fails |

`CloudSync.cfg`. `RowsBacked`: a row never names a chunk that is missing or holds
other bytes. `ChunksUnique`, `VersionsDisjoint`: though devices number chunks
independently, an id has one document and belongs to one version. `OneCurrent`:
exactly the newest row of a file is current. `BackupSpec`: both servers implement
`BackupLog`, so a version restores to the same bytes for ever. Three actions are
enough for two devices to give out the same ids, for one of them to have lost an
id to a failed request, and for versions of one and of two chunks to overlap in
their second chunk only. States are told apart by `View` (`MCCloudSync`), without
what a command that is over has left in its variables, which nothing reads again,
and without the path of a refresh, which has none; so the two paths may be
exchanged as the two devices may. Which of two such states is kept depends on the
order in which TLC meets them, and the number of states with it by a few.

`Orderly.cfg`. The discipline is that of `OrderlySync`, above; the clock is not
part of it. `ReplicaMatches`: a device for which a refresh would bring nothing sees
each file as the cloud does, with its ids. `DownloadRight`: a download writes the
bytes of the version the index shows. `NoDataLoss`: a refresh or a download only
removes bytes that are in the cloud. Five actions suffice for create, modify,
rename, delete and create again with downloads and refreshes in between, on two
devices and two paths; among them a device that renames a file, refreshes in a
later second, loses the copy by its own row and downloads it again, and one that
gets its own deletion back.

`Drains.cfg`. Fairness is weak, for each thread's next step: one that has put a
command into the queue comes to its `runWorker`, and a worker that exists goes on.
The code gives that: a thread goes through its calls without waiting for anything
but an answer, and an answer comes or the connection fails. It does not give a
filled queue a worker: `runWorker` starts none while a worker that has seen the
queue empty has not yet cleared the flag. A device so left (`unseen`) is exempt,
until its next command is queued; without the exemption `Drains` fails. No user
action, no tick and no crash is fair. That a server answers at all, having no
timeouts, is assumed here. Aborts happen in this run (a refresh deletes a file and
its echo finds the path gone) and the device still ends with an empty queue. A
command and its `emplace` are one step here; `CommandQueue` has them apart.

`Pipeline.cfg`. `InOnePlace`: a session is in one place as long as its client
waits; between a worker's `Empty` and its `Pop` the other may take the request,
and none is lost or served twice. `RequestReplySpec`: over all threads and queues
a client gets one answer and to its own request. `StarvedOnlyByThese`: a client
that asked and stays unanswered for ever has one of two causes, a silent client
in front of the only reader thread or an `accept` that failed once; that clients
leave does no harm until their sessions, which are never released, use up the
descriptors. Fairness is weak for each server thread: a thread runs when it can.
Clients are not fair. Three clients and two descriptors are enough for one to be
silent, one to leave and one to wait.

`SyncServer.cfg`. `Registered`: an account that a registration was answered with
stays and is the only one with its login. `LoginRight`: a login succeeds only
into the account with that password. `AckedAreSaved`, `OneIsCurrent`,
`UploadsAreAtomic`: an upload is seen as a whole or not at all, whatever failed.
`LeftoversHoldNothing`: what failed and refused requests leave open on abandoned
connections holds no lock, so that no later `UpdateOld` waits for ever.
`UpToDate`: a device that has saved the date of a refresh has every row up to
then. Three requests allow a failed one, one that meets what it left, and a
third that reads.

`Chunks.cfg`. `OneDocument`, `RestoresAcked`, `AckedAreStored`, `CollectionSpec`:
lookups and inserts are operations of their own, yet with one worker an upload is
checked and inserted as in one step, a partial insert included.

`Client.cfg`. `InTurn`: until a thread is late in setting the flag, the queue
implements `CommandExecutor`. `EveryCommandTaken`, under weak fairness of calls
and threads: a queue does not stay filled, but in the case that `unseen` records.
`MemoryIsTable`: where neither thread is between a row and its members they say
the same; the date of the last update may differ once a login has met a refresh
(`crossed`). `SeenIsFetched`: a date that is saved is one of that account's files.
`TerminatesOnly`, `WatchedWhenIn`: the thread that watches is started and joined
in turn, and watches the user's folder, but in the cases that `slipped` and
`missing` record. `NamesTracked`: when the user waits for the watcher, the index
knows which files there are, however events are split over reads. `EditsTracked`:
and their contents, unless an operation's events were split. `EndsOnlyByRemoval`:
the watcher's thread dies only when it is stopped after a directory was removed.
`Restored`, `OneNotFull`, `BufferFits`: files of 0 to 9 bytes in chunks of 3 have
every remainder, and chunks that fill their Base64 groups, that do not, and that
are empty.

`CHECK_DEADLOCK` is off: when users and clients have done their last action, the
systems rest.

### Settings in which properties fail

The properties above hold under conditions that the code does not enforce. These
settings are no runs of the project; they were tried to see that each condition
is needed.

| Change of a run | What fails | Where |
|---|---|---|
| 2 workers in `SyncServer.cfg` | `OneIsCurrent`, `Registered`: statements of two requests meet on one `_conn`; `LeftoversHoldNothing`: a replaced connection keeps its changes | `MetaDataDB.cpp`, `UsersDB.cpp` |
| 2 workers in `Chunks.cfg` | `OneDocument`: both look the id up before either inserts | `MongoDB.cpp` |
| `InTurn` without `late` | a second worker is started before the first has set the flag: commands run at a time, and an empty queue may be read | `App.cpp`, `Worker.cpp` |
| `EveryCommandTaken` or `Drains` without `unseen` | a command queued between a worker's last look at the queue and its clearing the flag waits for the next one | `Worker.cpp` |
| `Timing = {"join"}` or `{"stop"}` | `NamesTracked`: a user who does not wait, or a command that restarts the watcher meanwhile, leaves changes unreported | `Watcher.cpp` |
| `EditsTracked` without `parted` | an edit whose events arrive in two reads is not reported | `Watcher.cpp` |
| `WatchedWhenIn` without `slipped`, `missing` | after a refused login, a click during a command, or a folder that was gone, another folder or none is watched | `App.cpp` |
| `SeenIsFetched` without `crossed` | a refresh that ends after another user has logged in dates that user's index | `InternalDB.cpp` |
| `MemoryIsTable` without `crossed` | a user is inserted between the two statements of `SaveLastUpdate`: the member has a date, the new row has none | `InternalDB.cpp` |
| `NamesTracked` without `mapped` | a directory that was removed and made again keeps its old entry in the map, and its events are skipped | `Watcher.cpp` |
| `OrderlySync` without `NewNames`, 14 user actions | `NoDataLoss`: a device has two files with one path, one of them only in the cloud; a command for the path takes the last (`GetFileId`), until one finds no file and ends the process, and a download overwrites the edit it was for | `InternalDB.cpp` |
| `UpToDate` without `emptied` | a failed select of the files is answered as an empty list | `MetaDataDB.cpp` |

### Where code and documentation differ

Each of these runs drops one condition of the orderly use, and TLC finds a
history in which the promise of the README, backup and restore with every change
followed, does not hold.

- `RestoreAfterFailure.cfg`: a create fails after its chunks were stored. The
  device has used up a chunk id and the cloud has no row for it. Its next modify
  is number 2 with chunk 2. The other device inserts that row with *its* next
  chunk id, 1, and a download asks the storage for chunk 1: the old bytes, shown
  as the new version. (`InternalDB::insertOneFileChunkMeta` leaves the server's
  chunk id out, `GetUserChunks` asks for local ids.)
- `MissedVersion.cfg`: a file is saved, another device refreshes, the row is
  committed. Its date is not after the refresh, so no later refresh of that device
  returns it. (`MetaDataDB::GetUserFilesByTime`.)
- `LostEdit.cfg`: one device. A file is edited again while its first edit is
  uploaded. The refresh queued by the second edit returns the device's own first
  row; it counts as an update of a downloaded file, whose copy is deleted, with
  the second edit in it. (`RefreshCommand::Do`, `ApplyToKnown`.)
- `EchoedDeletion.cfg`: both devices have a file. On one its user deletes it and
  makes another under the same path. The other device's next refresh brings both
  rows: it removes its copy with the watcher running, and inserts the new file.
  The watcher's event queues a delete command, which finds the path taken by the
  *new* file and deletes that in the cloud, which no user asked for.
  (`RefreshCommand::Do`, `ApplyDeleted`.)
- `LeakedConnections.cfg`: each request opens a connection and nothing closes the
  one before. After `max_connections` requests every answer is "Database error",
  though no statement has failed. (`PostgresSQLDB::Connect`.)

## What is proved

For every number of devices, every set of paths, blocks and contents, every
bound and every combination of faults, from the assumptions named in the modules:
there is a path, `MaxFile` is positive, the bounds are numbers; contents are
non-empty sequences of blocks; a device gives each chunk of a request an id of its
own (`UploadsAssumption`); workers are not among the marks that tell how far a
refresh has come (`WorkersAssumption`); the two folders of the watcher have no file
in common (`FilesAssumption`); finitely many callers fill the command queue
(`CallersAssumption`); the byte in front of a short string is no padding
(`LengthByteAssumption`). Theorems that need more have it as a hypothesis: a single
worker, which is what both `config.json` say, at least one worker or finitely many,
a user who waits for the watcher, or requests that do not fail.

- `TypeCorrect` (`CloudSync_proofs`): `Spec => []TypeOK`. `TypeOK` is inductive
  together with one fact about commands on their way to the servers
  (`Uploadable`: as many chunk ids as chunks, no id twice, a current row, no
  bytes for a deletion), without which the documents that `UploadChunks` adds
  would have no type. One lemma for each call of the index, one for each group
  of actions.
- `RowsAreBacked`, `ChunksAreUnique`, `VersionsAreDisjoint`, `OneIsCurrent`
  (`CloudSync_proofs`), all from `CloudInvariant`. None of them is inductive
  alone, as rows get their chunks from commands. What must be added is about a
  command between its two uploads: its chunks are stored (`PendingBacked`), and
  its ids are in no row and in no other such command (`PendingApart`). That the
  latter holds when the chunks have been accepted follows from `AllAreNew`: rows
  and other such commands have all *their* ids in the store, and the store had
  none of these. Steps that leave the servers alone are dealt with once
  (`ServersUntouched`).
- `ThreadsImplement` (`CloudSync_proofs`): `ThreadsSpec => Spec`, so that all this
  holds for the devices with their threads.
- `BackupImplemented` (`CloudSync_proofs`): `Spec => BackupSpec`. Under the
  invariant, what the storage returns for a row is what the row was made from
  (`RestoredType`), so the log is a function of the rows (`BackupIsRows`), on
  which `InsertFile` is an append (`InsertFileAppends`) and nothing else acts
  (`RowsChange`).

- `ReplicasMatch`, `DownloadsAreRight`, `NothingIsLost` (`OrderlySync_proofs`):
  `OrderlySpec` implies `[]ReplicaMatches`, `DownloadRight` and `NoDataLoss`, for
  any number of devices, paths, contents and user actions, when requests do not
  fail (`"net" \notin Faults`; `RestoreAfterFailure.cfg` shows that one failure is
  too much). All from `OrderlyInvariant`, which is about ids: each device numbers
  files and chunks on its own, and the cloud knows them by these numbers.
  - A *view* is what an index shows with the ids it will give out next. A row
    leads from a view to another (`Leads`) when it creates, modifies, renames or
    deletes one of its files with the ids that are next in that view. The calls of
    the indexer write such rows (`CreateLeads`, `ModifyLeads`, `RenameLeads`,
    `DeleteLeads`), and the calls of a refresh take an index from the one view to
    the other (`AppliesToKnown`, `AppliesToUnknown`, `AppliesDeleted`).
  - `History`: there is a sequence of views in which each row leads from one to the
    next, versions of a file grow, and the first k rows tell what the k-th view
    shows (`Tells`). An upload of metadata makes it longer (`HistoryGoesOn`).
  - `Works`: every device shows the view that the rows it has seen lead to, and
    these are the first ones; or it shows one row more, its own renaming or
    deletion, dated after its last refresh, as the clock runs (`Shows`). When the
    next refresh brings that row, it finds the file gone (`DeletedAgain`), or
    deletes the renamed copy, whose bytes the cloud has, and renames to the name
    that is there (`RenamedAgain`). What the user does is dated once, when it is
    done, and the refresh before the command comes later (`Writing`). A device
    that rests has in its folder only what its index knows and the cloud has
    (`Rests`, `Kept`). The one that is in use is reading, or has a command to
    write (its view is the last, and the command's path is as the user left it),
    or is one row ahead of the cloud (`Sending`; the row is older than its
    refresh, or has no chunks), or downloads. `OneActs` keeps the others at rest,
    with a refresh earlier than any row to come, so that nothing the one does
    concerns them (`OneWorks`).
  - `ChunksNew`: the ids that are next in the last view are not in the storage, so
    no upload of the one in use is refused.
  The invariant was checked with TLC before it was proved, which is how it came out
  that the discipline needs `NewNames`.

- `NothingIsHeld` (`SyncServer_proofs`): `Spec => []LeftoversHoldNothing` for a
  single worker. `ServerInv`: what any connection has uncommitted is on the one
  that the worker uses, between its first change and the end of its request
  (`Dirty`), and savepoints are set before it. So a failed statement, which rolls
  back to the savepoint, leaves nothing. It needs the savepoint to come before
  the first change, and one worker; with two, the other replaces `_conn` in
  between.
- `AccountsStay`, `LoginsAreRight` (`SyncServer_proofs`): `Registered` and
  `LoginRight` for a single worker. `UsersInv`: logins are unique in table Users
  (`Kept`), and in what the transaction under way sees of it (`UnderWay`), which
  needs that a registration comes to its insert only when no row has the login,
  and that between count and commit the transaction is open and nobody else's.
- `SavedLastIsCurrent`, `SavedIsThere`, `UploadsAreWhole` (`SyncServer_proofs`):
  `OneIsCurrent`, `AckedAreSaved` and the refinement of `FileTable`
  (`UploadsAreAtomic`), for a single worker. `FilesInv`: the committed tables hold
  whole uploads (`Whole`: the rows of a file are ranked by their ids and only the
  last is current, and each has all its Version rows), and what the transaction
  under way has changed is exactly what the statements of `InsertFile` up to its
  place make of them (`Uploading`, `Changes`). So a commit is one insertion, and
  everything that ends a request otherwise is none. The table of `FileTable` is
  the files in the order of their ids, which cardinalities express; the section
  "Counting" has the lemmas for that.
- `DeviceIsUpToDate` (`SyncServer_proofs`): `UpToDate` for a single worker, from
  `RefreshInv`. Until the device has saved its answer, what is due (`Complete`) is
  among the ids selected, the rows listed or the rows on their way, while further
  uploads commit between the two selects; `emptied` is the case in which a failed
  select was answered as an empty list. `ServerTypes`: `TypeOK`.
- `AcknowledgedIsStored`, `StoreTypes` (`ChunkStore_proofs`): `AckedAreStored` and
  `TypeOK` for any number of workers, from `StoreInv`: what a worker has inserted
  or read so far is in the collection (`Serving`).
- `IdsAreUnique`, `DownloadsAreRight`, `UploadsAreOneStep` (`ChunkStore_proofs`):
  `OneDocument`, `RestoresAcked` and the refinement of `ChunkCollection`, for a
  single worker. `Alone` adds that no document has an id that the worker has
  looked up and not yet inserted; two workers do not keep it.
- `SessionsInOnePlace`, `PipelineTypes` (`ServerPipeline_proofs`): `InOnePlace` and
  `TypeOK`.
- `AnswersItsRequest` (`ServerPipeline_proofs`): `Spec => RequestReplySpec`, for
  any clients, workers and descriptors. `PipelineInv` says for the wire, each
  queue and each worker that what is there carries what its client asked for, if
  it still waits (`Asker`), or the answer to that (`DueAnswer`); `Advances` is why
  other clients' steps keep it.
- `NamesAreTracked`, `EditsAreTracked`, `EndsByRemovalOnly` (`Watcher_proofs`):
  `NamesTracked`, `EditsTracked` and the action property `EndsOnlyByRemoval`, for a
  user who waits for the watcher and lets it rest before it is stopped
  (`Timing = {}`). `WatcherInv` lists what can be left of an operation (`UnderWay`):
  its parts to be done, its events in inotify's queue and those read, for a write,
  a creation, a deletion and a rename, whole, in halves that arrive in one read or
  in two, and with one of its two directories watched. Each says of which files
  the index may differ (`AgreeBut`), and a write, unless it was read in parts, that
  what is left of it has a length with which it is reported (`Whole`).
  `WatcherTypes`: `WatcherTypeOK`, for any `Timing`.
- `RunInTurn` (`Client_proofs`): `QueueSpec => InTurn`, for any number of
  callers and commands. `QueueInv`, until `late`: one worker is alive
  (`OneWorker`, where the flag tells of it), the queue continues what has run
  (`Ordered`), and who has seen a command still finds it (`Holds`).
  `QueueTypesInvariant`: `QueueTypeOK`, bounds included, which needs that every
  command was counted when its call began (`Due`) and that each is followed by one
  `runWorker`, which starts one worker at most (`Counted`).
- `MembersAreTheRow`, `SavedDateIsOwn`, `ThreadsArePaired`, `UsersFolderIsWatched`
  and `AccountTypes` (`Account_proofs`), from `AccountInv`. What must be added:
  which step each thread may be at and for what (`ThreadPlaces`), which of the
  members an insertion has filled so far (`Filling`), that a refresh knows the
  account of its date until a login crosses it (`Asked`), that one of the two
  rests and that a watcher's thread is there exactly when a user is, but for the
  time between `stopWatcher` and `runWatcher` (`OneAtWork`), and that it watches
  the user's folder and ends for who joins it (`Watches`).
- `FileIsRestored`, `LastIsShorter`, `DecodedFits` (`Client_proofs`), from
  `ChunkerInv`: for every file, chunk size and set of bytes. The i-th chunk is the
  i-th part of the file and all but the last are full (`ChunksCut`), the last is
  not (`ReadSoFar`), and what is merged is the file up to there. Base64 is dealt
  with in lemmas: decoding stops before the first padding and so returns the bytes,
  while the padding that `calcDecodeLength` counts at the end of the text is what
  they lack to a multiple of three, none for the empty text.

- `ClientTypes`, `EachPartIsItself` (`Client_proofs`): `Spec => []ClientTypeOK` for
  `MCClient`, from the type theorems of its four parts. A behaviour of `MCClient`
  is one of each part (`EachPartIsItself`), as the steps of the others move none
  of its variables, so whatever is proved of a part holds there too.

Of the three liveness properties what needs no fairness is proved: that work in
hand has someone to do it, and that doing it comes to an end. What is left to
fairness is that who can go on does.

- `WorkComesToAnEnd` (`CloudSync_proofs`), for `Drains`. The effort of a device is
  in the first place the downloads it has to do, then the files in its folder,
  then the steps of its commands, then the rows of the refresh it is in. In that
  order, which is well-founded, it falls with every step of the worker, and no
  failure, crash, tick or other device raises it: only what the device's own user
  does. The order is what it is because of `RefreshCommand`: a row that deletes a
  file queues two more commands, but there is one file fewer, and only a download
  makes another. `FewFiles` (a folder holds finitely many files, whatever `Paths`)
  is invariant for that.
- `WorkHasAWorker` (`CloudSync_proofs`), for `Drains`: a device with something to do
  has a worker at it or a `runWorker` to come, or is in `unseen`. `ThreadsInv` adds
  that commands yet to be put into the queue are at its end, and that only a worker
  is ever in a command.
- `NoWakeUpIsLost`, `WorkersComeToAnEnd` (`Client_proofs`), for `EveryCommandTaken`.
  As long as the queue is not broken and no `runWorker` took a worker about to end
  for one at work (`unseen`), a filled queue has a worker that will look at it, or
  a `runWorker` to come. And no worker goes round for ever: each of its steps
  brings it nearer to its end, and only `EmplaceCommand` takes it away from there.
- `WaitingMeansWork`, `ThreadsComeToRest` (`ServerPipeline_proofs`), for
  `StarvedOnlyByThese`. While a client waits for its answer, a thread of the
  server finds what it waits for, unless accept has failed or the reader is held
  up by a silent client; that needs a worker. `Unread` is the invariant: a
  connection from which nothing was read is of a client whose request is still on
  the wire. With finitely many workers each step of a thread leaves fewer to be
  made, and only a client that connects adds to them.

Model-checked only: the liveness properties themselves (`Drains`,
`StarvedOnlyByThese`, `EveryCommandTaken`). Beside the above they rest on weak
fairness, on who has work in hand being able to take a step (`ENABLED`), and on an
induction over the order, which are beyond the prover.

## Not modelled

- `Chunker::UpdateChunkFile`: nothing but a test calls it, and it copies from
  iterators beyond the end of its buffer, so that its result is not determined.
  The two hashes of a chunk, which it alone compares.
- `InternalDB::UpdatePassword`, which nothing calls; failures of SQLite and
  crashes between two statements of an index operation.
- `ChangePassword` of `App` and the window: a TODO. `CreateFile`, `RenameFile`,
  `DeleteFile` and `ModifyFile` of `App`, which do nothing where the watcher is
  running, as it always is on Linux. The Apple watcher is a stub.
- Malformed JSON beyond what the reader drops (`garbage` in `ServerPipeline`),
  an answer that is read in part, logins and paths with the characters of a
  `LIKE` pattern.
- In the watcher: directories that are moved, events skipped because of a file's
  name, and more events than one `read` returns (`MAX_EVENTS`).
- Configuration, logging, the other serializers, which copy fields, and layout,
  dialogs and tree of the Qt windows.

## What is left

1. A crash between the SQLite statements of an index operation.
2. Runs with two workers per server: with two the properties of `SyncServer` and
   `ChunkStore` fail as the table above says, and both `config.json` have one.
3. A property about the events that stay in inotify's queue when more have come
   than one `read` returns (`Watcher.cpp:213`): the descriptor is edge-triggered.
