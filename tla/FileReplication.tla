--------------------------- MODULE FileReplication ---------------------------
(***************************************************************************)
(* Replication of release files: what a replica queues when it imports a   *)
(* serial (FileReplicationSharedData), the threads which download and      *)
(* delete files (FileReplicationThread), the thread which looks through    *)
(* the database once the metadata is in sync for the first time            *)
(* (InitialQueueThread), and downloads on behalf of a client               *)
(* (iter_remote_file_replica).                                             *)
(*                                                                         *)
(* A path stands for a release file and for the index it is on.  Every     *)
(* serial changes the key of one path.  The order of the serials is that   *)
(* of Replication: here the replica imports them one by one.  A release    *)
(* file has the same content whenever it is uploaded to the same path (the *)
(* path has a digest of it).                                               *)
(***************************************************************************)
EXTENDS Integers, FiniteSets, Sequences, FiniteSetsExt

CONSTANTS
    StageFiles,     \* release files on private indexes
    MirrorFiles,    \* release files on mirrors
    Threads,        \* file replication threads
    Visitors,       \* requests to the replica for a file
    QueueLimit,     \* 50000: no more is queued before the metadata is in sync
    DeletedSize,    \* 100: entries of the cache of deletions
    Histories,      \* bound: what the primary may commit, serial by serial
    MaxCrashes      \* bound: kills of the replica

Paths == StageFiles \cup MirrorFiles
Workers == Threads \cup Visitors

\* A file is uploaded, or a mirror has downloaded it ("file"), a mirror learns of a link
\* ("link", no last_modified), a file is deleted on its own or along with its index.
Kinds == {"file", "link", "deleted", "dropped"}
Change == [path : Paths, kind : Kinds]

ASSUME FileReplicationConstants ==
    /\ StageFiles \cap MirrorFiles = {} /\ Threads \cap Visitors = {}
    /\ IsFiniteSet(Threads)
    /\ {QueueLimit, MaxCrashes} \subseteq Nat /\ DeletedSize \in Nat \ {0}
    /\ \A h \in Histories : h \in Seq(Change)

VARIABLES
    rows,           \* the primary: the change of each serial
    \* the disk of the replica
    imported,       \* how many serials its database has
    files,          \* the paths whose file is in place
    \* the process of the replica
    announced,      \* how many serials on_import has been called for
    inSync,         \* replica_metadata_in_sync_at is set
    queue,          \* shared_data.queue
    errors,         \* shared_data.error_queue
    deleted,        \* shared_data.deleted: <<path, serial>>, one for a path
    worker,         \* where each thread is, with the item it handles
    initial,        \* where InitialQueueThread is
    snapshot,       \* the serials its transaction can see, until it has made its query
    remaining,      \* the items it has not looked at yet
    crashes,
    \* history
    excused,        \* deletions which were lost, failed or were overtaken by a download
    refused,        \* uploads the primary could not give the file of, which is ignored
    undone          \* uploads whose file was removed by the deletion of an older one

queues == <<queue, errors>>
initialQueue == <<initial, snapshot, remaining>>
history == <<excused, refused, undone>>
vars == <<rows, imported, files, announced, inSync, queue, errors, deleted, worker,
          initial, snapshot, remaining, crashes, excused, refused, undone>>

\* An item of the queue: the serial, which stands for its change, and who has queued it.
\* (The error queue has serials: that an item is in it twice makes no difference.)
Item == [serial : Nat, via : {"import", "initial"}]

IsDeletion(serial) == rows[serial].kind \in {"deleted", "dropped"}

\* The last change of a path among the first n serials, 0 when there is none.
LatestAt(p, n) == Max({0} \cup {s \in 1 .. n : rows[s].path = p})
HasFile(p, n) == LatestAt(p, n) # 0 /\ rows[LatestAt(p, n)].kind = "file"
WasDeleted(p, n) == LatestAt(p, n) # 0 /\ IsDeletion(LatestAt(p, n))

\* IndexType: private indexes first, then mirrors, then deleted indexes.  The indexes of
\* a serial are looked at before its files (on_import, update_index_types).
Rank(serial) ==
    IF rows[serial].kind = "dropped" THEN 3
    ELSE IF rows[serial].path \in MirrorFiles THEN 2 ELSE 1

\* The order of the PriorityQueue: the negated serial comes after the type.
Before(a, b) ==
    \/ Rank(a.serial) < Rank(b.serial)
    \/ Rank(a.serial) = Rank(b.serial) /\ a.serial > b.serial

Idle == [pc |-> "idle", serial |-> 0, from |-> "queue"]
Target(w) == rows[worker[w].serial].path        \* the path a worker is busy with

Init ==
    /\ rows = <<>> /\ imported = 0 /\ files = {}
    /\ announced = 0 /\ inSync = FALSE
    /\ queue = {} /\ errors = {} /\ deleted = {}
    /\ worker = [w \in Workers |-> Idle]
    /\ initial = "starting" /\ snapshot = 0 /\ remaining = {}
    /\ crashes = 0 /\ excused = {} /\ refused = {} /\ undone = {}

-----------------------------------------------------------------------------
(* The primary.                                                            *)

Commit ==
    /\ \E h \in Histories :
        /\ Len(rows) < Len(h) /\ rows = SubSeq(h, 1, Len(rows))
        /\ rows' = SubSeq(h, 1, Len(rows) + 1)
    /\ UNCHANGED <<imported, files, announced, inSync, queues, deleted, worker,
                   initialQueue, crashes, history>>

-----------------------------------------------------------------------------
(* The thread which imports serials.                                       *)

\* KeyFS.import_changes: the transaction.
Import ==
    /\ imported < Len(rows) /\ announced = imported
    /\ imported' = imported + 1
    /\ UNCHANGED <<rows, files, announced, inSync, queues, deleted, worker, initialQueue,
                   crashes, history>>

\* Mutant: the limit of the queue holds for good.
QueuedAlways(serial) ==
    Cardinality(queue) <= QueueLimit /\ (inSync \/ Rank(serial) = 1)

\* on_import_file: before the metadata is in sync only files of private indexes are
\* queued, and only up to a limit.
Queued(serial) ==
    inSync \/ (Rank(serial) = 1 /\ Cardinality(queue) <= QueueLimit)

\* KeyFS.import_changes calls the import subscriber after its transaction.
OnImport ==
    /\ announced < imported
    /\ announced' = imported
    /\ queue' = IF Queued(imported)
                THEN queue \cup {[serial |-> imported, via |-> "import"]} ELSE queue
    /\ excused' = IF IsDeletion(imported) /\ ~Queued(imported)
                  THEN excused \cup {imported} ELSE excused
    /\ UNCHANGED <<rows, imported, files, inSync, errors, deleted, worker, initialQueue,
                   crashes, refused, undone>>

\* Mutant: the notification is only given the first time.
MetadataInSyncOnce ==
    /\ imported = Len(rows) /\ announced = imported
    /\ ~inSync
    /\ inSync' = TRUE
    /\ initial' = IF initial = "waiting" THEN "notified" ELSE initial
    /\ UNCHANGED <<rows, imported, files, announced, queues, deleted, worker, snapshot,
                   remaining, crashes, history>>

\* update_primary_serial with the serial the replica has, which notifies the thread for
\* the initial queueing when that is waiting already.
MetadataInSync ==
    /\ imported = Len(rows) /\ announced = imported
    /\ ~inSync \/ initial = "waiting"
    /\ inSync' = TRUE
    /\ initial' = IF initial = "waiting" THEN "notified" ELSE initial
    /\ UNCHANGED <<rows, imported, files, announced, queues, deleted, worker, snapshot,
                   remaining, crashes, history>>

-----------------------------------------------------------------------------
(* InitialQueueThread.                                                     *)

InitialWait ==
    /\ initial = "starting"
    /\ initial' = "waiting"
    /\ UNCHANGED <<rows, imported, files, announced, inSync, queues, deleted, worker,
                   snapshot, remaining, crashes, history>>

InitialBegin ==
    /\ initial = "notified"
    /\ initial' = "begun" /\ snapshot' = imported
    /\ UNCHANGED <<rows, imported, files, announced, inSync, queues, deleted, worker,
                   remaining, crashes, history>>

\* iter_relpaths_at: keys whose latest serial is not beyond the one of the transaction.
InitialQuery ==
    /\ initial = "begun"
    /\ initial' = "iterating" /\ snapshot' = 0
    /\ remaining' = {s \in 1 .. snapshot :
            s = LatestAt(rows[s].path, imported) /\ ~IsDeletion(s)}
    /\ UNCHANGED <<rows, imported, files, announced, inSync, queues, deleted, worker,
                   crashes, history>>

\* More than a few items are queued: queue.join() waits until all have been handled.
InitialJoin ==
    /\ initial = "iterating" /\ remaining # {}
    /\ Cardinality(queue) > Cardinality(Threads)
    /\ initial' = "joining"
    /\ UNCHANGED <<rows, imported, files, announced, inSync, queues, deleted, worker,
                   snapshot, remaining, crashes, history>>

AllHandled ==
    queue = {} /\ \A t \in Threads : worker[t].pc = "idle" \/ worker[t].from = "errors"

\* The next key, newest serial first: queued when it has a file which is not there.
InitialNext ==
    /\ remaining # {}
    /\ \/ initial = "iterating" /\ Cardinality(queue) <= Cardinality(Threads)
       \/ initial = "joining" /\ AllHandled
    /\ initial' = "iterating"
    /\ LET serial == Max(remaining)
       IN /\ remaining' = remaining \ {serial}
          /\ queue' = IF rows[serial].kind = "file" /\ rows[serial].path \notin files
                      THEN queue \cup {[serial |-> serial, via |-> "initial"]} ELSE queue
    /\ UNCHANGED <<rows, imported, files, announced, inSync, errors, deleted, worker,
                   snapshot, crashes, history>>

InitialEnd ==
    /\ initial = "iterating" /\ remaining = {}
    /\ initial' = "done"
    /\ UNCHANGED <<rows, imported, files, announced, inSync, queues, deleted, worker,
                   snapshot, remaining, crashes, history>>

-----------------------------------------------------------------------------
(* A file replication thread.                                              *)

Goto(w, pc) == worker' = [worker EXCEPT ![w].pc = pc]
Finish(w) == worker' = [worker EXCEPT ![w] = Idle]

\* The serials somebody is still to look at.
Pending ==
    {item.serial : item \in queue} \cup errors
        \cup {worker[t].serial : t \in {u \in Threads : worker[u].pc # "idle"}}

\* process_next: the first item of the queue.
TakeNext(t) ==
    /\ worker[t].pc = "idle"
    /\ \E item \in queue :
        /\ \A other \in queue : ~Before(other, item)
        /\ queue' = queue \ {item}
        /\ worker' = [worker EXCEPT ![t] =
                [pc |-> "handle", serial |-> item.serial, from |-> "queue"]]
    /\ UNCHANGED <<rows, imported, files, announced, inSync, errors, deleted, initialQueue,
                   crashes, history>>

\* process_next_errored: an item which is due, when the queue has been empty for a while.
TakeErrored(t) ==
    /\ worker[t].pc = "idle" /\ queue = {}
    /\ \E serial \in errors :
        /\ errors' = errors \ {serial}
        /\ worker' = [worker EXCEPT ![t] =
                [pc |-> "handle", serial |-> serial, from |-> "errors"]]
    /\ UNCHANGED <<rows, imported, files, announced, inSync, queue, deleted, initialQueue,
                   crashes, history>>

\* LRUCache.get, invalidate and put.  A full cache drops some other entry: the class takes
\* what has not been used lately, but keeps no order.
Cached(p) == {d[2] : d \in {e \in deleted : e[1] = p}}
Without(p) == {d \in deleted : d[1] # p}
Put(p, serial) ==
    IF Cardinality(Without(p)) < DeletedSize THEN {Without(p) \cup {<<p, serial>>}}
    ELSE {(Without(p) \ {d}) \cup {<<p, serial>>} : d \in Without(p)}

\* handler: a deletion is remembered.  A change no later than one is skipped; a later one
\* makes the thread forget the deletion.
Handle(t) ==
    /\ worker[t].pc = "handle"
    /\ LET serial == worker[t].serial
           p == Target(t)
       IN \/ /\ IsDeletion(serial)
             /\ deleted' \in Put(p, serial) /\ Goto(t, "remove")
          \/ /\ ~IsDeletion(serial)
             /\ IF \E s \in Cached(p) : serial <= s
                THEN Finish(t) /\ UNCHANGED deleted
                ELSE deleted' = Without(p) /\ Goto(t, "check")
    /\ UNCHANGED <<rows, imported, files, announced, inSync, queues, initialQueue,
                   crashes, history>>

\* The upload whose file goes with the deletion of an older one: nobody looks at it again.
Undone(p) ==
    IF p \in files /\ HasFile(p, imported)
    THEN {LatestAt(p, imported)} \ (Pending \cup remaining) ELSE {}

\* Mutant: the deletion of what was uploaded with the very first serial is left out.
RemoveAfterFirst(t) ==
    /\ worker[t].pc = "remove"
    /\ files' = IF LatestAt(Target(t), worker[t].serial - 1) > 1
                THEN files \ {Target(t)} ELSE files
    /\ Finish(t)
    /\ UNCHANGED <<rows, imported, announced, inSync, queues, deleted, initialQueue,
                   crashes, history>>

\* importer, for a deletion: the file is removed when it is there.  An OSError of os.remove
\* is suppressed (File.remove): the file stays, and nobody tries again.
Remove(t) ==
    /\ worker[t].pc = "remove"
    /\ \/ /\ files' = files \ {Target(t)}
          /\ undone' = undone \cup Undone(Target(t))
          /\ UNCHANGED excused
       \/ /\ Target(t) \in files
          /\ excused' = excused \cup {worker[t].serial}
          /\ UNCHANGED <<files, undone>>
    /\ Finish(t)
    /\ UNCHANGED <<rows, imported, announced, inSync, queues, deleted, initialQueue,
                   crashes, refused>>

\* What the primary may answer to a request for a file (_pkgserv): 410 when its entry is
\* gone, 200 when it has the file, or fetches it for a mirror.  A mirror may have neither:
\* 302 when its index redirects, 404 or 502 when its remote server does not give the file.
Answers(p) ==
    IF WasDeleted(p, Len(rows)) THEN {"gone"}
    ELSE IF p \in MirrorFiles THEN {"file", "ignored"} ELSE {"file"}

\* importer: nothing to do for a link without a file and for a file which is there.  A
\* deletion meanwhile and a mirror without the file are ignored.  Any other answer and a
\* file which a private index misses raise: see Fail.
Request(t) ==
    /\ worker[t].pc = "check"
    /\ IF rows[worker[t].serial].kind = "file" /\ Target(t) \notin files
       THEN \E answer \in Answers(Target(t)) :
            /\ IF answer = "file" THEN Goto(t, "download") ELSE Finish(t)
            /\ refused' = IF answer = "ignored" THEN refused \cup {worker[t].serial}
                          ELSE refused
       ELSE Finish(t) /\ UNCHANGED refused
    /\ UNCHANGED <<rows, imported, files, announced, inSync, queues, deleted, initialQueue,
                   crashes, excused, undone>>

\* The serials which are not about a path.
Others(S, p) == {s \in S : rows[s].path # p}

\* The download is complete: file_set_content_no_meta in a filestore transaction.  The
\* deletion of the file may have been imported since it was requested.
Store(w) ==
    /\ worker[w].pc = "download"
    /\ files' = files \cup {Target(w)}
    /\ excused' = IF WasDeleted(Target(w), imported)
                  THEN excused \cup {LatestAt(Target(w), imported)} ELSE excused
    /\ refused' = Others(refused, Target(w)) /\ undone' = Others(undone, Target(w))
    /\ Finish(w)
    /\ UNCHANGED <<rows, imported, announced, inSync, queues, deleted, initialQueue, crashes>>

\* The handler raises (connection, status, checksum, disk): the item goes to the error
\* queue, again when it comes from there.
Fail(t) ==
    /\ worker[t].pc \in {"remove", "check", "download"}
    /\ errors' = errors \cup {worker[t].serial}
    /\ Finish(t)
    /\ UNCHANGED <<rows, imported, files, announced, inSync, queue, deleted, initialQueue,
                   crashes, history>>

-----------------------------------------------------------------------------
(* A request for a file the replica does not have: iter_remote_file_replica *)
(* asks the primary, and for a file of a mirror, whose entry has an URL,    *)
(* the remote server.  That entry may be a mere link.                       *)

Visit(v, p) ==
    /\ worker[v].pc = "idle" /\ p \notin files
    /\ LatestAt(p, imported) # 0 /\ ~WasDeleted(p, imported)
    /\ p \in MirrorFiles \/ "file" \in Answers(p)
    /\ worker' = [worker EXCEPT ![v] = [pc |-> "download", from |-> "client",
            serial |-> LatestAt(p, imported)]]
    /\ UNCHANGED <<rows, imported, files, announced, inSync, queues, deleted, initialQueue,
                   crashes, history>>

VisitFails(v) ==
    /\ worker[v].pc = "download"
    /\ Finish(v)
    /\ UNCHANGED <<rows, imported, files, announced, inSync, queues, deleted, initialQueue,
                   crashes, history>>

-----------------------------------------------------------------------------

\* A kill: all that was queued is lost, and on_import is not called again.
Crash ==
    /\ crashes < MaxCrashes
    /\ crashes' = crashes + 1
    /\ announced' = imported /\ inSync' = FALSE
    /\ queue' = {} /\ errors' = {} /\ deleted' = {}
    /\ worker' = [w \in Workers |-> Idle]
    /\ initial' = "starting" /\ snapshot' = 0 /\ remaining' = {}
    /\ excused' = excused
            \cup {s \in Pending \cup announced + 1 .. imported : IsDeletion(s)}
    /\ refused' = {} /\ undone' = {}
    /\ UNCHANGED <<rows, imported, files>>

InitialQueue ==
    InitialWait \/ InitialBegin \/ InitialQuery \/ InitialJoin \/ InitialNext \/ InitialEnd

Thread(t) ==
    \/ TakeNext(t) \/ TakeErrored(t) \/ Handle(t)
    \/ Remove(t) \/ Request(t) \/ Store(t) \/ Fail(t)

Next ==
    \/ Commit
    \/ Import \/ OnImport \/ MetadataInSync
    \/ InitialQueue
    \/ \E t \in Threads : Thread(t)
    \/ \E v \in Visitors :
        (\E p \in Paths : Visit(v, p)) \/ Store(v) \/ VisitFails(v)
    \/ Crash

Spec == Init /\ [][Next]_vars

\* The threads go on, and what is tried again and again succeeds in the end.
FairSpec ==
    /\ Spec
    /\ WF_vars(Import \/ OnImport \/ MetadataInSync) /\ WF_vars(InitialQueue)
    /\ \A t \in Threads :
        WF_vars(Thread(t)) /\ SF_vars(Request(t)) /\ SF_vars(Remove(t) \/ Store(t))

-----------------------------------------------------------------------------
(* Properties.                                                             *)

Work == [serial : 0 .. imported, from : {"queue", "errors", "client"},
         pc : {"idle", "handle", "remove", "check", "download"}]

TypeOK ==
    /\ rows \in Seq(Change)
    /\ imported \in 0 .. Len(rows) /\ announced \in {imported - 1, imported} \cap Nat
    /\ files \subseteq Paths /\ inSync \in BOOLEAN
    /\ excused \cup refused \cup undone \subseteq 1 .. imported
    /\ queue \subseteq Item /\ Pending \subseteq 1 .. imported
    /\ deleted \subseteq Paths \X (1 .. imported)
    /\ IsFiniteSet(deleted) /\ Cardinality(deleted) <= DeletedSize
    /\ worker \in [Workers -> Work]
    /\ initial \in {"starting", "waiting", "notified", "begun", "iterating", "joining", "done"}
    /\ snapshot \in 0 .. imported /\ remaining \subseteq 1 .. imported
    /\ crashes \in 0 .. MaxCrashes

\* Once the initial queueing is done, every file the imported metadata speaks of is there,
\* or its change is queued or handled, unless the primary has changed it since: no limit,
\* retry, type of index or restart makes the replica forget one.  There are two
\* exceptions.  A mirror could not give the file when it was asked.  Or the file was
\* deleted and uploaded again, and the newer change was handled first: the handling of
\* the deletion then removes the new file.
NothingForgotten ==
    initial = "done" =>
        \A p \in Paths :
            LET l == LatestAt(p, Len(rows))
            IN HasFile(p, Len(rows)) /\ l <= announced =>
                \/ p \in files \/ l \in Pending
                \/ p \in MirrorFiles /\ l \in refused
                \/ l \in undone

\* A file whose deletion has been imported and handled is gone; it can only stay when this
\* deletion was lost in a kill, not queued because the metadata was not in sync, failed
\* without notice, or was overtaken by a download which had begun before (importer,
\* on_import_file, File.remove).
OrphansExplained ==
    \A p \in files : WasDeleted(p, imported) /\ LatestAt(p, imported) <= announced =>
        LatestAt(p, imported) \in excused \cup Pending

\* Only mirrors may have no file to give.
RefusedByMirrors == \A s \in refused : rows[s].path \in MirrorFiles

\* What a worker does fits the change it is busy with.
Handling ==
    \A w \in Workers :
        /\ worker[w].pc # "idle" => worker[w].serial # 0
        /\ worker[w].pc \in {"check", "download"} => ~IsDeletion(worker[w].serial)
        /\ worker[w].pc = "remove" => IsDeletion(worker[w].serial)
        /\ w \in Visitors => worker[w].pc \in {"idle", "download"}

\* Only deletions are remembered.
DeletionsCached == \A d \in deleted : rows[d[2]].path = d[1] /\ IsDeletion(d[2])

\* Of any serials of the primary one is the greatest.
HasGreatest ==
    \A S \in SUBSET (1 .. Len(rows)) : S # {} => \E g \in S : \A s \in S : s <= g

\* The initial queueing has not come to a file yet, or the file is there, or its last
\* change is waiting or was ignored or undone.  What is imported after the beginning of
\* the initial queueing is queued without limit.
LookedAt(p) ==
    LET l == LatestAt(p, Len(rows))
    IN \/ initial \in {"starting", "waiting", "notified"}
       \/ initial = "begun" /\ l <= snapshot
       \/ l \in remaining
       \/ p \in files
       \/ l \in Pending \cup refused \cup undone

NothingMissed ==
    /\ initial \notin {"starting", "waiting"} => inSync
    /\ initial \notin {"iterating", "joining"} => remaining = {}
    /\ \A p \in Paths :
        HasFile(p, Len(rows)) /\ LatestAt(p, Len(rows)) <= announced => LookedAt(p)

\* The inductive invariant.
IInv ==
    /\ TypeOK /\ Handling /\ DeletionsCached /\ HasGreatest /\ RefusedByMirrors
    /\ OrphansExplained /\ NothingMissed

\* Every file of the metadata arrives in the end, also after kills and failures and
\* whatever the initial queueing has to wait for, and stays ("Missing files will be
\* downloaded", and the notification thread waits for them), with the same exceptions.
FilesArrive ==
    \A p \in Paths :
        <>[](HasFile(p, Len(rows)) =>
                p \in files \/ LatestAt(p, Len(rows)) \in refused \cup undone)

\* No file is forgotten because an older one at the same path was deleted.
ReuploadsKept == undone = {}
=============================================================================
