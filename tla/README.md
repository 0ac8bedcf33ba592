# A verification development for devpi

devpi is a server for Python packages: it stores release files and their
metadata on private indexes, mirrors other package indexes, and can be
replicated. This directory has TLA+ models of its server and of the search
index of devpi-web, the TLC configurations which check them, and TLAPS proofs
of their safety properties.
`PROJECT.json` lists for every definition the lines of code it
models.

Paths below are relative to `src/server/devpi_server/` unless they begin with
`src/`.

## 1. The system

| Part | State it keeps | Operations | Works with |
| --- | --- | --- | --- |
| Store: `keyfs.py`, `keyfs_sqlite.py` | tables `changelog` and `kv`, caches of relpaths and changelog rows, a transaction per thread | begin, restart, get, set, delete, commit, rollback of a transaction; iteration over keys | everything; wakes threads in `wait_tx_serial` at a commit |
| Release files: `filestore_fs_base.py`, `filestore_fs.py`, `filestore.py` | files below `+files`, temporary files, the dirty files of a transaction, `rel_renames` in the changelog | set content, delete, commit, roll back, recover after a crash | called by the store's commit and by `finalize_init` |
| Notification: `TxNotificationThread` in `keyfs.py` | the file `.event_serial`, the thread's local serial | process a serial, wait for a file, wait for an event serial | reads the store and the files; calls subscribers (plugins, search index, `EventSubscribers`) |
| Changelog replication: `replica.py` | primary serial, UUIDs, replica states | long poll of the primary, import of serials, writes proxied to the primary | store of the primary and of the replica |
| File replication: `replica.py` | download queue, error queue, recent deletions, index types | queue, download, retry, initial queueing | store, files, HTTP |
| Mirrors: `mirror.py` | cached links in the store, retrieval times, project names and locks in memory | fetch links, save them, serve stale ones, delete | store, asyncio loop, HTTP, on a replica also the primary |
| Private indexes and users: `model.py` | keys for users, project names, versions, version data, simple links, files | upload, delete, change configuration, resolve names along the bases | store, files |
| Views, permissions, tokens: `views.py`, `view_auth.py`, `auth.py` | none of their own | HTTP requests | all of the above |
| Threads: `mythread.py`, `main.py` | pool, shutdown event | start, shutdown, failure of a thread | every thread |
| Search index: `src/web/devpi_web/whoosh_index.py` | queue and error queue, the index | queue, index, retry | notification |

What is hard in it:

* **Concurrency.** Waitress threads, the notification thread, replication
  threads and asyncio tasks share one database. A read of a key takes several
  statements, each of which may see a later database than the one before.
* **Two stores, one commit.** Metadata is in SQLite, release files are in the
  file system. The database commits first; files follow, after the write lock
  has been released.
* **Crashes and retries.** A kill between the two, during recovery, or between
  the delivery of an event and the record that it was delivered.
* **Progress.** An event waits for a file which another thread, a download or
  nobody will provide; threads wait for serials.

What makes each part correct, in a sentence: a transaction sees one serial and
a writer the last one (store); a file is there exactly when its metadata says
so (files); every serial is delivered in order, at least once, with its files
there (notification); a replica has a prefix of the primary's changelog and in
the end the files of it (replication); at most one update of a project runs and
an answer is never older than what was served before (mirrors); names,
versions, links and files of a project agree and deleted things leave no keys
behind (private indexes); what the search finds is the project as it is (search
index). The hazards in `PROJECT.json` give the lines where
each of these could fail.

## 2. Modules

| Module | Models | Lines of control it keeps |
| --- | --- | --- |
| `SnapshotStore` | what the store promises: a history of versions, readers fixed to one, commits on top of the last | abstract |
| `KeyFS` | `Transaction`, transaction handling of `KeyFS`, SQLite connection, writer and cache | one action per statement of a read, one per operation of a transaction |
| `FileCommit` | temporary files, commit, renames, failure, crash, `finalize_init` | one action per rename or removal |
| `Notifier` | `TxNotificationThread` and `wait_event_serial` | one action per read, call, write and lock operation |
| `ChangelogCopy` | what replication promises: one server is chosen once, its rows are copied in order | abstract |
| `Replication` | long polls, streamed responses, import, UUIDs, proxied writes | one action per message and per imported serial |
| `FileReplication` | download queues, deletions, initial queueing, downloads for clients | one action per queue operation, file operation and request |
| `MirrorLinks` | the links of a mirror project: lock, late answers, expiry | one action per lock operation, answer and transaction |
| `MirrorFiles` | the files of a mirror project: entries, downloads, deletions | one action per transaction |
| `PrivateStage` | the keys of a project on private indexes, uploads, pushes, deletions, export and import | one action per request |
| `Indexes` | users, index configuration, `sro`, mirror whitelist, order of an import | one action per request |
| `SearchIndex` | queues, indexer and documents of devpi-web's search index | one action per event, queue operation and write |
| `KeyFSProofs`, `FileCommitProofs`, `NotifierProofs`, `ReplicationProofs`, `FileReplicationProofs`, `SearchIndexProofs` | theorems about the module of that name | |
| `MirrorProofs` | theorems about `MirrorLinks` and `MirrorFiles` | |
| `PrivateProofs` | theorems about `PrivateStage` and `Indexes` | |
| `MC...` | instances for TLC where a configuration is not enough: symmetry, constants which are functions | |

How they fit together: `KeyFS` justifies that a transaction of all other modules
is one step and reads the database as of its beginning. `FileCommit` is the end of
a write transaction, `Notifier` what follows it on the same server, `Replication`
and `FileReplication` on another one. `MirrorLinks`, `MirrorFiles`, `PrivateStage`
and `Indexes` are the data on top. `SearchIndex` is a subscriber of `Notifier`.
The modules are not composed into one: each interface above is small, and the
state space of two of them together is out of reach.

### KeyFS

`changelog[s][k]` is the row of serial `s`: what the commit did to key `k` and
the serial of the change before it (`back_serial`). `kv[k]` is the latest
serial of `k`, which is all that the table `kv` holds. `lock` is the write lock
SQLite gives to the thread whose `begin immediate` succeeded. For every thread
`pc` says whether it is between transactions, in the loop around
`begin immediate`, or in a transaction; `original`, `cache` and `atSerial` are
the attributes of its `Transaction`. `reading` is the row a read has reached.

`Transaction.get_original` is split where other threads can commit: `GetCached`
and `GetFromRow` answer from `_relpath_cache` and `_changelog_cache`, `ReadKv`
reads the latest serial, `WalkBack` goes one `back_serial` down, `FoundAt` ends
the walk. `_changelog_cache` holds only immutable rows; whether a row is in it
is left open. The size of `_relpath_cache` is a constant, and a full one drops
any entry, which covers the LRU order. `Commit` and `CommitNothing` are the two
ends of `Transaction.commit`; they need the original of every dirty key, which
`commit` reads first. `BeginRead` may start at any committed serial, as
`read_transaction(at_serial=...)` can. A write transaction which is given up,
doomed or fails ends with `Rollback`.

### FileCommit

A path stands for a release file and its key. The path of a release file has
the digest of its content in it, so a file is known by its existence.
`CommitDb` is `Transaction.commit` as far as the end of `Writer.__exit__`: the
metadata and `rel_renames` are durable and the lock is free. `ApplyFile` is one
turn of the loop in `FSIOFileBase._commit`. `ApplyFails` is an `OSError` from a
rename, which leaves the loop. `Crash` may happen at any moment; the actions
`Recover...` are the turns of `_perform_crash_recovery`. `RemoveFails`
and `RecoverDeleteFails` are removals whose `OSError` is suppressed: the file stays,
the loop goes on. `lost` is a
history variable: the paths whose rename or removal was given up by an error or
a crash. `contested` is another: the paths a transaction commits while another one has still
to rename or remove them. Temporary files after a crash which no changelog row names are dropped
from the state, because a new process never uses their names again.

### Notifier

`rows[s]` says what serial `s` did to a file: stored it, deleted it with its
key, deleted only the file (mirrors), switched the index to external URLs, or
something else. Commits, files which appear and files which vanish are the
environment. `pc` follows the thread through `tick`, the first loop of
`_execute_hooks` with its three reads (index configuration, file, current
state of the key) as separate steps, the subscribers one by one, and the
condition variable under which the serial is stored. `WaitForCommit` and
`CommitArrived` are `wait_tx_serial`, which looks every 0.1 seconds and does not
depend on being notified. Waiting threads go through `enter` (taking the lock),
`check` (reading the file) and `parked` (in `wait`). `called` counts the calls of
each subscriber and is a history variable. `WriteFails` is an `OSError` from
`write_int_to_file`, after which `thread_run` lets the next `tick` begin with the stored
serial. A serial has at most one release
file, and the file `.event_serial`, which stores the serial plus one, is
represented by the serial read back from it. Reading it succeeds: the file is replaced by a rename, and that
`read_int_from_file` gives 0 when an existing file cannot be opened is left out.

### Replication and ChangelogCopy

`last[s]` is the serial of the last commit of each server which can be behind
`primary_url`, `active` the one which is. `copy` and `known` are the changelog of the
replica and the primary UUID in its `.nodeinfo`: its disk. `pc`, `request` and `seen`
follow one poll through `ReplicaThread.fetch`: asked, blocked on the primary in
`wait_tx_serial`, answered with rows or accepted (202), importing row by row.
`asOf` in a request is a history field, the serial of the primary at that time.
A request or response can break off after any step (`FetchFails`, `ResponseEnds`,
`HandlerFails`). `Block` keeps the serial the primary's transaction has read:
`last_changelog_serial` is a cached property, so the answer after `Unblock` has no
rows and the replica asks once more. `client` are writes which
`proxy_write_to_primary` passes on. The answers 404 and the exit of the replica for
a UUID in a response cannot be reached with a primary which has verified the UUID
before. `ChangelogCopy` is the abstract specification: choose a server once, copy
its rows in order.

### FileReplication

`rows` is what the primary has committed, `imported` how many serials the replica
has, `announced` for how many `on_import` has been called: a kill between the two
loses the call. `queue`, `errors` and `deleted` are those of
`FileReplicationSharedData`; the order of the priority queue is `Before`. `worker` is
what a file replication thread, or a request for a missing file
(`iter_remote_file_replica`), is doing, `initial` where `InitialQueueThread` is: waiting on
its condition variable, in the query of `iter_relpaths_at` (which sees the latest
serial only), iterating, or in `queue.join()`. `Answers` is what the primary may say to a request: the file, 410,
and for mirrors 302, 404 or 502, which `importer` ignores without trying again. `Remove` either removes the file
or meets an `OSError`, which `File.remove` suppresses. A client's request goes to the primary and, for the file of a
mirror, to its original URL; its path may be a mere link. Three history variables have serials: `excused` the deletions which were lost,
failed without notice or were overtaken by a download, `refused` the uploads a mirror could not give the file of, `undone` the
uploads whose file went with the deletion of an older one.
The constants `QueueLimit` and `DeletedSize` stand for 50000 and 100. `deleted` has a serial for a
path; when it is full, `Put` drops any other entry, because `LRUCache` keeps no order of use but
approximates it.

### MirrorLinks

The page of a project is a number, which is its serial header, ETag and content. `retrieved`
is the entry of `_project2time` (recent or not, ETag). Locks are identified by the thread
which created them and a number; `registered` is the weak dictionary
`_project2lock`, and `Collect` removes an inner lock when no wrapper or task refers to it
any more (the dictionary is weak; no code does it). `thread[t].held` are the locks the finish listeners of a transaction will
release; `Answer` is the end of the transaction, where they do. `LookUp` is `has_project_perstage` for a project without
links: with a list of projects which has changed it restarts the transaction, and the lock is gone before the fetch
(`FetchRestarted`), otherwise not (`FetchListed`). A request sends an ETag (`page` while it waits), and `Pages` are the
versions it may be answered with: not before the serial of the links, and not the one whose ETag was sent, which is a
304 (`NotModified`). `FetchTimesOut` hands the lock over to the asyncio task
`_update_simplelinks_in_future`, `LateAnswer` is the task's transaction. `Restart` is the
commit of the read transaction which a restart as a write transaction begins with: its
finish listeners release the lock before the write begins.

### MirrorFiles

`known`, `links`, `entries` are the keys `PROJNAMES`, `PROJSIMPLELINKS` and `STAGEFILE`, `files`
the disk. An entry is "mapped" (URL, no file yet), "stored" (with the metadata of a file) or
"bare" (what a download leaves which ends after the deletion of the entry: a file without
project). `download` is what a client's request has read before the remote answers,
`update` the links an update of the links has read before. The three history variables
`strays`, `removed` and `revived` name what a download or an update which ends after a
deletion has left behind. The names which `MirrorLinks` has as well begin with `MF` here (`MFInit`, `MFSpec`, ...),
because one module proves theorems about both.

### PrivateStage

`db[s]` are the keys of the one project on each index: `PROJNAMES` (`known`), `PROJVERSIONS`,
`PROJVERSION` with its links, `PROJSIMPLELINKS` (whether the key exists, and its links),
`STAGEFILE` together with the files. A path has a kind (release file, documentation, test
result), a name and a digest. Each request is one action; helpers have the names of the
methods (`SetVersiondata`, `AddLinks`, `RemoveLinks`, `DelVersiondata`, `DelEntry` ...), and what
a refused request has already written stays, as an HTTP exception does not roll back the
transaction. `Dump` and `Import` are functions on the keys of a project. `Fits[n]` are the versions
`version_in_filename` finds in a name: `pkg-1.0.1.zip` fits 1.0 and 1.0.1, and both versions may link it. It has one path
and one entry then, which belongs to the version it was uploaded for last and is deleted with the file of either.

### Indexes

`index[i]` is the configuration of an index, `hosts[i]` whether the project is there
("unknown" for a mirror which does not know). `Walk(ix, i)[n]` is the loop of
`BaseStage.sro` after `n` turns, `Sro` the result of it, `Sources` the stages `op_sro_check_mirror_whitelist` asks, `MirrorInfo` is `get_mirror_whitelist_info`.
`Creation(ix)[n]` is the loop of `IndexTree.iternames` after `n` turns, `IterNames` its result. Both are looked at
after `MaxTurns` turns, and the properties say that they have done by then all they will do. The loop of `iternames` may go on:
it has settled when every pending index was put back since the last one was created or dropped (`putback` counts
that, the code does not), and with something pending it then puts back for ever. They are checked against
definitions without a walk: `Reachable` (in every set which has the index and is closed under bases),
`Allowed`, `Importable` (what inherits from no circle), `KeptWaiting` (the others with an importable base). The names `PrivateStage` has as well begin with `IX` (`IXInit`, `IXSpec`, ...), because one
module proves theorems about both. A base which does not exist any more
stays a base, and an index can be created again with another type.

### SearchIndex

`history[n + 1]` is the database as of serial `n`, as far as the index looks at it: whether the stage
exists, and for each project the serial of its last change, whether it exists and the serial of
its documentation. `Deliver` is the notification thread with the subscribers of
`src/web/devpi_web/main.py`, which read the database as of the serial of the event; `queue`,
`errors`, `indexer` and `initial` are those of `IndexingSharedData`, `IndexerThread` and
`InitialQueueThread`. `Handle` begins a transaction at the *current* serial, whatever the serial of
the item is. A project is queued with its normalized name or as its metadata spells it
(`respelled`). `strays` is a history variable: deleted projects whose documents no deletion
has found.

## 3. Runs

| Run | Instance | Distinct states | Result |
| --- | --- | --- | --- |
| `keyfs` | 2 threads, 2 keys, 1 value and deletion, 2 commits, cache of 1, symmetry | 49,399 | inductive invariant and 3 of its parts, refinement of `SnapshotStore` hold |
| `files` | 2 threads, 2 files, one of them written by both, 2 kills, any renames fail | 135,053 | 3 invariants, 1 action property, 1 liveness property hold |
| `files_crash` | 3 files, threads with 2 and 1 of their own, 1 kill | | `RecoveryIsComplete` is violated |
| `notifier` | 3 serials, 1 file, 2 subscribers, 1 waiting thread, 1 kill, 1 failed write of the event serial | 141,111 | 4 invariants, 2 liveness properties hold |
| `replication` | 2 servers, 1 client, 2 serials, 1 kill, the URL moves twice | 102,130 | 2 invariants, 1 action property, 1 liveness property, refinement of `ChangelogCopy` hold |
| `file_replication` | 1 file of each kind, 1 thread, 1 visitor, 1 kill, 5 histories of the primary | 433,568 | 2 invariants, 1 liveness property hold |
| `mirror` | 2 threads, 2 versions of the page, 1 late answer | 339,848 | 1 invariant, 1 liveness property hold |
| `private` | 2 indexes, 2 versions, 2 file names, one of them found in both versions, 2 contents, 1 test result, 4 links at a time, symmetry | 74,493 | 5 invariants, 1 action property hold |
| `indexes` | 2 users, 4 indexes: chains, a diamond, cycles, bases which are missing | 79,690 | 3 invariants hold |
| `mirror_files` | 2 files of different versions, 2 clients, symmetry | 77,848 | 3 invariants hold |
| `mirror_delete` | the same | | `CanBeDeleted` is violated |
| `search_index` | 1 project in both spellings, 3 commits, 1 kill | 685,047 | 1 invariant, 1 liveness property hold |

`TypeOK` is part of the inductive invariant of every module with proofs; `IXTypeOK` of `Indexes` is one
itself. The inductive invariants which no run lists (`IInv` of `FileCommit`, `Notifier`, `Replication`,
`FileReplication`, `MirrorLinks`, `PrivateStage` and `SearchIndex`, `MFIInv` of `MirrorFiles`, `NothingMissed` of
`FileReplication`) were checked on the instances of the runs before they were proved: put `INVARIANT IInv`
into the configuration to repeat that.

### The bounds and why they are enough

*KeyFS*: a commit while a reader is in the middle of its walk, and a cache which evicts at
every put, need two commits, two keys and a cache of one. More is not needed: everything
this run checks is proved for all values of the constants. *FileCommit*: two files in one
transaction are needed for a kill between two renames, a second thread for two
transactions which rename at once, and a second kill for one during recovery; one of the
files is written by both threads, so that their renames can meet. Where they do, the order of the
renames is not that of the commits (section 4), and the path is excepted from the properties (`contested`).
The safety properties are proved for any files, threads and kills. *Notifier*: a serial which is followed by a deletion and by another change needs
three; a second subscriber shows a kill between two of them; a kill and a failed write repeat an event twice; the
commits include the removal of a mirror's file with its entry kept, which blocks the events behind it; the
invariants are proved for any number of each. *Replication*: two servers and two
moves of the URL bring another server into the middle of a poll and the old one back; a second
serial lets a response end between two rows. Again all safety properties are proved for any
bounds. *FileReplication*: the limit of the queue is 0 and the cache of deletions has
one entry, so that both overflow; `DeletionHistories` has the deletion of a file after the upload of
another, of an index, a mirror which learns of a file, downloads and loses it, and a file of a private index and one of a
mirror which are deleted and come again. A thread and a visitor already race for a file.
`OrphansExplained` and `NothingForgotten` are proved for any constants and histories. *MirrorLinks*: two threads make a holder and
one who waits, a second version of the page an older answer which ends after a newer one, and one late answer a task which
stores what is old by then. Three bounds keep the run small: links are removed while the page is at its first version only (`LastRemoval`);
the thread which asks again and again has at most two inner locks in use, the other one at most one (`MaxLocks`); there is
one task at a time (`MaxTasks`). `OneReleasePerLock` is proved for any number of each. *PrivateStage*: two versions are needed for the latest to
change and for a project which outlives one of them, two file names for a version which loses one
file and keeps another, two contents to replace one. One name is found in the first version only, the other in both,
so that two versions share a file. The metadata has one value (section 4 says what fails with two), and both indexes together
have at most four links (`MaxLinks`). All is proved for any constants. *Indexes*: four indexes make chains and cycles of three, a diamond and two ways to a mirror, and an index in a circle
which has a base outside of it. `MaxTurns` is 16, enough for these: that there is such a number, and what the loops have
done then, is proved for any indexes.
*MirrorFiles*: two files of two versions and two downloads at once; proved for any number. *SearchIndex*:
projects share nothing but the order of the queue, which does not matter for what is
handled in the end; three commits are a creation, a deletion and a creation, or a
documentation which is replaced while the indexer reads; `DocumentsFollow` is proved for any number of them.

### Deadlock

`files` sets `CHECK_DEADLOCK FALSE` because a server whose start fails with
"missing file" is stopped. `file_replication`, `mirror` and `search_index` set it because their
environment is bounded: when the last serial or version has been dealt with, nothing is left to do.
The others are checked for deadlock.

### Fairness

`KeyFS`, `PrivateStage`, `Indexes` and `MirrorFiles` state safety only. In `FileCommit` a thread inside
`_commit` and the main thread inside `finalize_init` go on (weak fairness): nothing in these
loops waits. Nothing makes a transaction begin, commit or roll back. In `Notifier` the
thread and the waiting threads run (weak fairness); a lock which becomes free again and
again is obtained in the end, and `begin immediate` of `file_exists`'s filestore
transaction does not time out for ever (strong fairness), as its holder releases it
at the end of a write transaction. A file its last serial has stored appears in
the end, unless the index has external URLs: on a primary the renames follow the
commit, on a replica downloads are retried without end. This is an assumption about
other components; `FilesAppear` and `FilesArrive` say when they fulfil it, and `files_crash` shows a
case in which it fails.

`Replication`: the thread of the replica goes on and a proxied write ends (weak fairness: both sides
have time limits); a network which is used again and again lets a request, a response and a row
through in the end (strong fairness). Nobody has to commit, and nobody has to leave the URL
alone. `FileReplication`: the importing thread, the initial queueing and the download threads go on
(weak), and a removal or download which is retried for ever succeeds in the end (strong), and so does a request to the
primary: the error queue has no limit on retries. An answer which is ignored counts as one, and so does a removal whose
error is suppressed; nothing makes them come right. Visitors need not come. `MirrorLinks`: time passes, requests which
have begun go on (weak), one thread asks again and again; where a request could be sent to the remote index
again and again some are, and where the remote index could answer with its current page again and again it does
(strong) - which it cannot when the ETag of that page was sent. A task which waits for a
late answer may do so for ever, because nothing fills its future when that answer is an error.
`SearchIndex`: files arrive, the notification thread, the initial queueing and the indexer go on (weak),
and an item which is retried for ever is written in the end (strong).

## 4. What the runs showed about the code

Two findings are runs of their own (`findings` in `PROJECT.json`):

1. Recovery repeats the renames of the last serial only, but several committed
   transactions can be renaming when the process is killed (`files_crash`).
2. A download of a mirror's file which ends after the deletion of its project puts the project
   back without links; after that neither the project nor the index can be deleted
   (`mirror_delete`).

More can be reproduced with a configuration which is not in the list of runs
(`tlc -config <cfg> <module>`); each is a behaviour the passing runs are stated around:

| Configuration | Module | What happens |
| --- | --- | --- |
| `MCKeyFSIter.cfg` | `MCKeyFS` | `iter_relpaths_at` loses keys which change after the transaction has begun: SQL looks at the latest serial of a key only |
| `MCFileCommitRace.cfg` | `MCFileCommit` | renames and removals of two transactions on one path are done in the opposite order of their commits, because the lock is released before them |
| `MCNotifierMirror.cfg` | `Notifier` | `MirrorStage.del_versiondata` (`mirror.py:568`) removes files and keeps their keys: a notification thread which is behind waits for such a file for ever. `EveryEventProcessed` and `WaitersReturn` except just the serials behind such a file (`Blocked`) |
| `MCFileReplicationReupload.cfg` | `MCFileReplication` | a file which is deleted and uploaded again is downloaded first, and then removed by the handling of the earlier deletion; nothing is left which would download it again (`undone`) |
| `MCMirrorLinksEtag.cfg` | `MirrorLinks` | two updates end in the wrong order, and a request which has read the newer links between them learns that these are current: the ETag which is remembered is that of the newer page, the links are those of the older one, and the remote index answers 304 from then on (`mirror.py:819`, `EtagAhead`) |
| `MCMirrorLinksNotFound.cfg` | `MirrorLinks` | "cached not found" is answered for a project whose last answer was a page: another request has read its snapshot before the links were stored |
| `MCIndexesImport.cfg` | `MCIndexes` | an export with two indexes which are bases of each other cannot be imported, although `importexport.py:488` says "due to possible circles we create without bases first": the loop of `IndexTree.iternames` never creates them. It ends with "couldn't be reached", or never when one of them has another base that was created (`importexport.py:706` puts back for ever). `test_bases_cycle` has an index which is its own base |
| `MCSearchIndexDeleted.cfg` | `SearchIndex` | documents of a deleted project stay, see below |

The last but one is a disagreement with a comment of the code. It has no run of its own: `ImportsBasesFirst` in the run `indexes`
says exactly which indexes are created and when the loop does not end.

Observations made while modelling, which the properties are worded around:

* **Notification.** When the event serial cannot be written, the exception is logged and the next `tick` begins with the stored
  serial: the subscribers are called again for it without a crash (`RepeatsExplained`).
* **Replication.** A client may see a write it sent through the replica to a server which is not
  the one the replica copies; `ReadYourWrites` speaks about the recorded primary.
* **File replication.** Files whose deletion has been imported stay when the deletion was
  queued and lost in a kill, was not queued because the metadata was not in sync, when
  `os.remove` failed (`File.remove` suppresses the error and nothing tries again), or when a
  download was on its way (`excused`). The cache of deletions is an optimisation: the primary
  answers 410 for a deleted file. When a mirror of the primary answers 302, 404 or 502 the item is dropped without
  a retry (`replica.py:1195-1223`, `refused`): the file is missing until a client asks for it or the replica is started again, and the
  replica's notification thread waits for it meanwhile.
* **Mirror links.** The project lock is released before the write transaction begins, so
  two threads can store links one after the other; a task stores a late answer without comparing its
  serial with what is stored by then; a time-out takes whichever lock is registered out of
  the dictionary; the thread which created a lock passes it while another thread holds
  it; a 404 of a node which is behind is cached. After a late 404, or any other error, the task waits for ever and keeps its
  lock. A time-out in a nested call or after a restart has no lock to give to the task, which then fails on
  `None.release` when it has the answer.
  A 304 or a time-out for the list of projects (`mirror.py:666`) is answered with the stale list,
  although the docstring promises the cached one.
* **Mirror files.** A deletion between the reading of the links and their update leaves links
  without entries (410 until they change); a download which ends after a deletion leaves an entry
  without project or a file without key, and neither is ever deleted; an update which ends
  after the deletion of the index writes keys for an index which is gone.
* **Private indexes.** `NothingLeft` does not hold: `del_entry` regenerates the simple links after
  `del_project`, and a `DELETE` of an unknown project stores simple links and answers 404 without
  rolling back. `RequiresPythonCurrent` does not hold with two values of the
  metadata: simple links are not regenerated by `register`. A file whose name is found in two versions
  can be linked from both: it has one entry, of the version it was uploaded for last, and deleting the file of either leaves the
  other one with a link without file (`Ambiguous` in `FilesAreLinked`). An export passes over such a link, and fails when it is a
  test result or the file of one (`Exportable`).
* **Indexes.** `WhitelistedAreAsked` does not hold: a whitelisted project is not looked for on a mirror without a
  project list when the first index which knows it blocks mirrors (`model.py:1153-1158`); `MirrorsAsWhitelisted` says of such a mirror that it
  is asked where no private index hosts the project, and not without a whitelist where one does. A diamond of private bases
  gives the shared base twice. With "intersection" the result is the own whitelist of the index.
  A list-form `PATCH` submits all bases again and is refused when one of them is gone.
* **Search index.** Documents of a deleted project stay when (1) its metadata spells the name
  in another way than the normalized one, because `_delete_project` builds the path from the name as
  queued and `_update_project` from the normalized name; (2) its index is deleted, because the event
  is read at its own serial where the stage is gone, so nothing is queued; the view hides the
  results until the index is created again; (3) the deletion was queued and lost in a kill, because
  the initial queueing looks at projects which exist. The tests `test_search_deleted_stage` and
  `test_search_deleted_package` run without the indexer thread and do not see this.

## 5. Proofs

`KeyFSProofs` proves `Spec => []IInv` for any sets of keys, values and threads, any
size of the cache and any bound on the serials, from the assumptions
`KeyFSConstants` and `KeyFSMarkers` (a finite set of keys is not needed by the
proofs; the markers differ from values, serials and records). `IInv` has six parts,
each of which some other needs:

* `SnapshotReads`, the goal, needs to know that the row a walk ends at is the last
  change at or before the serial of the reader: `WalkOnTrack`;
* `WalkOnTrack` needs that following `back_serial` skips no change:
  `ChangelogLinked`;
* `ChangelogLinked` is preserved by a commit because the `back_serial` it writes is
  the serial of the original the writer has read (`SnapshotReads`) and nobody
  committed since: `WriterIsCurrent`;
* a read answered from the cache needs `CacheCoherent`, which holds because
  committed rows never change (`HistoryStable`);
* everything needs `TypeOK`.

There is a lemma for each part, with a step for each action which can disturb it;
`Invariance` puts them together, and `TypeCorrect`, `SnapshotIsolation`,
`NoLostUpdate`, `CacheIsCoherent` and `ChangelogGrows` are what a reader wants from
it. `Refinement` proves `Spec => ImplementsStore`: the versions of the abstract
store are what the changelog says about each serial, so the proof shows that no step
changes the value of a key at a committed serial and that a commit adds the last
version overlaid with what the transaction has written.

`ReplicationProofs` proves the invariant `IInv` of `Replication` from `ReplicationConstants`.
`OneHistory` is not inductive: an imported row belongs to the recorded server only because
the request was for that server. So the invariant follows a request: it carries the UUID which
was recorded when it was made (`ExpectsKnown`), once `verify_primary` has passed it is for the
recorded server or nothing is recorded (`Verified`), and the serial of a response is between the
one the server had at the request and the one it has now (`SeenIsCommitted`), which gives
`InSyncSound` too. With `AnsweredHasSerial` follows `ReadYourWrites`. `CopiesOneServer` maps each
step to one of `ChangelogCopy`: only `ReceiveChanges` chooses, only `ImportNext` copies.

`MirrorProofs` proves `FilesCanBeDeleted`, `LinksHaveEntry` and `KnownHasLinks` of `MirrorFiles` for any number
of files, versions and clients from `MirrorFilesConstants`. The invariant `MFIInv` needs two facts more: links an
update has found have entries as well (`UpdateHasEntries`), because the update stores its page without
creating entries for links it has known before; and a project whose links are stored is listed
(`LinkedIsKnown`), without which the deletion of an index would skip its files.

`FileCommitProofs` proves the safety properties of `FileCommit` from `FileCommitConstants` and
`FileCommitMarkers` (the marker for a removal and that for no entry are different and no names), with
threads which may write the same files. `FilesMatchMetadata` says nothing about how the loop
in `_commit` and the recovery get there, so the invariant adds it: the content a transaction has set is in its
temporary file until the rename (`HasTmp`); what a thread has still to do with a path leads to the committed
metadata, is what the last changelog row says if that mentions the path, and nobody else is busy with it
(`AgreesWithMetadata`); the row itself agrees with the metadata (`Logged`), which is what the recovery
relies on; and before the server is up nobody else does anything (`RecoversAlone`). The
attempt without `contested` failed at `CommitDb`, and for a good reason: a transaction can commit a path whose
last rename is still to come. `OnlyCommitted` is an action property from the same invariant.

`NotifierProofs` proves the four invariants of `Notifier` from `NotifierConstants`. `Position` says where
the thread is compared with `.event_serial`: one serial ahead between the beginning of an event and the write.
`Calls` says which subscribers have been called: all for what is stored, a first part of them for the next
serial, nobody beyond. Together they give `EventsInOrder` and `NoEventDropped`. `RepeatsExplained` counts;
it becomes inductive when a crash, or a failed write of the event serial, pays in advance for the one repetition it makes possible (`RepeatsPaid`):
`MayRepeat` holds of the subscribers which were called for the current serial and will be again.
`SubscribersFindFile` is in the invariant itself, as a file may vanish while the subscribers are called. It needs that
of the serials about a file there is a last one (`HasLastFileSerial`): that one decides whether the file is expected,
and that it exists is kept by each step rather than shown by induction over the serials.

`MirrorProofs` proves `OneReleasePerLock` of `MirrorLinks` from `MirrorLinksConstants` (finitely many threads) and
`MirrorLinksOwners`. A count cannot be followed through the steps, so `HeldIsOwned` says who the one is:
a transaction holds a lock exactly when it is its owner, and a lock owned by a task is with one task. `LocksWhileFetching` says
that a lock is held only on the way to the remote index. The lemmas about `Give` and `Collect` say once what releasing
and handing over do to owners and holders, and serve all the actions which end a request.

`FileReplicationProofs` proves `OrphansExplained` and `NothingForgotten` from `FileReplicationConstants`. For the
first the invariant adds that a worker does what fits the change it is busy with (`Handling`: whoever is about to
remove a file handles a deletion, whoever downloads does not) and that the cache names deletions only
(`DeletionsCached`): an item that is skipped for the cache is no deletion, so no deletion leaves the queues but
through a removal or a kill. The last change of a path is a maximum of serials; that there is one (`HasGreatest`) is
kept by each commit, in place of an induction. For the second, `LookedAt` says where a file is which the
metadata speaks of: the initial queueing has not begun, can see it or has it still to look at, or the file is there or on
its way. `NothingMissed` adds that after the beginning of the initial queueing the metadata has been in sync, so
that whatever is imported later is queued without limit. A removal which was queued before can come after the download
of a new upload: the upload is `undone` then, unless it is queued or still to be looked at, so a file never disappears without
one of the two. That the exceptions are what they say is proved with them: only mirrors are `refused`
(`RefusedByMirrors`). Neither theorem has a hypothesis.

`PrivateProofs` proves from `PrivateStageConstants`, for any indexes, versions and names, that each operation on
the keys of a project keeps it in order, and from that the invariants of all requests, which are sequences of
operations. `VersionsAgree`, `ResultsHaveFile` and `SimpleLinksComplete` need that links are in registered
versions their names fit, with the file they are about (`LinksInOrder`), and that the simple links are right also
while the project is unknown (`SimpleInOrder`): `del_entry` regenerates them after `del_project`. `NoOrphan` is `FilesAreLinked`: a file
which two versions may link has one entry, and what removes it for one version, or gives it to the other, leaves every entry
linked from the version it names (`TwoOwners`, `EntryFields`). `Immutable` is the action property `NonVolatileKeeps`.

`Restoring`, about `ImportRestores`, needs finitely many versions. An import is two folds
over the versions, and nothing in the prover says what a fold yields. The first has a value which can be written down (`MetaOf`): one turn
leads from one to the next (`MetaOfNext`), so there is a recursive function, and by `SetInduction` over the parts of a finite
set every one has these values. The second has none where a name is found in several versions, because the entry it
ends with depends on the order. So `FixedPoint` says once what any such fold is: repeating the body of its definition gets no
further when all sizes were repeated, hence the fold satisfies its own recursion, and an invariant of the body holds of all its
values. The invariant is `Restored`: metadata and links of the versions done are those of the export, the others have none,
and each link has its file. `FilesOf` names a project which has it (`FilesOfRestored`), and a turn leads from one such
project to the next (`FilesOfNext`).

The theorems about `Indexes` follow from `IndexesConstants`. Induction is in reach for a set: the library has
that a nonempty set has a minimal element for a well-founded relation (`WFMin`), so a set of numbers has a least
one (`Least`) and a set which has 0 and with each number the next one is the set of all (`Induction`). With it there is
a function for each loop (`LoopExists`), and an invariant of the turns holds after all of them. `Walked`,
the invariant of `sro`: what was found can be reached, it contains the index, mirrors are found once, and the
bases of whatever was taken are found or still to be looked at. At the end this makes the result closed,
hence everything which can be reached. `Creating`, the one of an import: created indexes are different and come after their
bases, those which have been reached (no base, or one that was created) and are not created are pending, and none of those which have been
put back since has all its bases. When it has settled, what was created is closed under bases, so it inherits from no circle
(`CreatedClosed`, `FirstCreated`); and of what inherits from no circle and was not created one index would have all its bases, and
would be pending (`CreationSettled`). `Whitelisting` uses of `sro` only what
`ResolutionOrder` says; `WhitelistedAllowed` compares the whitelist accumulated along the walk with `Allowed`,
which has no walk. These theorems have the hypothesis `LoopsEnd`, that `MaxTurns` turns were enough: what they say is what the loops have
done then. `LoopsInTheEnd` has no hypothesis and no bound: for every configuration that comes up some number of turns ends
the walk of each index with its resolution order; and from some number of turns on an import has created what inherits from no
circle, and its loop has ended exactly if no other index has one of these as a base. Three numbers get less in lexicographic order with every turn
(`Descent`): for `sro` the stages nobody has seen, the seen ones taken once more before the first of those
(`SeenFirst`), the bases left of the stage at hand; for an import, until it settles, the indexes not created, the pending ones,
and those of them which have not been put back. Once settled it stays so (`SettledForEver`). `Least` applies to each of the three in turn, so nothing is assumed of orders.

`SearchIndexProofs` proves `DocumentsFollow` from `SearchIndexConstants`. Its invariant has the
most to say about time: an indexer transaction is not older than any document, and whatever was changed after its
beginning is either not delivered yet or queued (`OneTransaction`), so that writing what it has read is right or will be
repeated; documentation whose event was delivered is in place (`FilesAwaited`); the database at a serial is the
current one for a project which has not been changed since (`HistoryInOrder`); and a deleted project is not left to
the initial queueing, which looks at projects which exist (`Followed`).

Only model-checked:

* That the bound `MaxTurns` of a run is enough for its indexes (`LoopsEnd`): a part of `SroReaches` and
  `ImportsBasesFirst`.
* Everything about what happens in the end (`FilesAppear`, `EveryEventProcessed`, `WaitersReturn`, both `CatchesUp`,
  `FilesArrive`, `SearchCatchesUp`): liveness under fairness is out of the proof system's reach.

## 6. Not modelled, and the plan

Proofs to come: that of finitely many serials about a file there is a last
one (`HasLastFileSerial`, `HasGreatest`) could now be shown with `Least` in place of being kept by each step.
That the temporary files of two transactions which are on different paths never interfere with a recovery of
either.

Parts of the modelled components which are left out: mirrors in the search index and its
hook for replicated files; `--replica-file-search-path` and skipped index types of file
replication; the list of projects of a mirror (`ProjectNamesCache`), `+e` links and mirrors on a
replica; links' logs; password hashes and permissions; the special case `root/pypi` of an import; the
renames of `FileStoreTransaction`, which have no changelog row: a kill between two of them leaves
temporary files no recovery knows.

Not modelled: authentication (decisions on single requests; the token has no state on the
server); `ThreadPool` and shutdown (each module has the kill of its threads); the unpacking of
documentation in `src/web/devpi_web/doczip.py`, which uses a hash file as lock and removes it after
unlocking; the storages `filestore_db.py` and `filestore_hash_hl.py` and PostgreSQL (other implementations
of the interfaces which `FileCommit` and `KeyFS` model); `fsck`, which reports only; configuration,
logging, HTML, parsing of pages and rendering; the command line client and the common library, which
are sequential programs whose state is on the server.

The definitions stand for about a seventh of the implementation's lines. More than a quarter of the
code is the client, the common library and devpi-web apart from its index; within the server, large parts parse,
configure and format, and many methods do the same with other data as one which is modelled.
Their correctness is not a matter of states and steps.
