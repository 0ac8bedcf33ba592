----------------------------- MODULE FileCommit -----------------------------
(***************************************************************************)
(* Files and the database: how a write transaction of devpi-server commits *)
(* release files together with their metadata (Transaction.commit and      *)
(* KeyFS.finalize_init in keyfs.py, FSIOFileBase in filestore_fs_base.py,  *)
(* FSIOFile and FSFactory in filestore_fs.py).                             *)
(*                                                                         *)
(* New content is written to a temporary file as soon as it is set.  The   *)
(* commit of the database stores the metadata and, in the changelog row of *)
(* the serial, the list of renames and removals still to be done.  That    *)
(* commit releases the write lock; the renames and removals follow one by  *)
(* one, while other transactions write and commit.  After a crash the      *)
(* renames and removals of the LAST changelog row are repeated.            *)
(*                                                                         *)
(* A path stands for the key and the file of a release file.  It has the   *)
(* digest of the content in it (FileStore.store), so there is one content  *)
(* for a path, and a file is known by its existence.  Keys and snapshots   *)
(* are the subject of the module KeyFS.                                    *)
(***************************************************************************)
EXTENDS Integers, FiniteSets

CONSTANTS
    Paths,          \* release files
    Threads,
    MayWrite,       \* the paths each thread uploads or deletes
    MaxCrashes,     \* bound: the process is killed at most that often
    NoThread,       \* nobody has the write lock
    Clean,          \* the path is not in _dirty_files
    Written,        \* _dirty_files has a DirtyFile for the path
    Deleted,        \* _dirty_files has markers.deleted, a path without -tmp
    NoEntry         \* the last changelog row does not mention the path

\* FSFactory.from_content: the name of a temporary file has a digest of the path, the
\* id of the process and that of the thread.
TmpName == [path : Paths, thread : Threads, process : Nat]

ASSUME FileCommitConstants ==
    /\ MayWrite \in [Threads -> SUBSET Paths]
    /\ MaxCrashes \in Nat
    /\ NoThread \notin Threads
    /\ Clean # Written /\ Written # Deleted /\ Deleted # Clean

\* The entries of a changelog row which are no names.
ASSUME FileCommitMarkers ==
    Deleted \notin TmpName /\ NoEntry \notin TmpName /\ Deleted # NoEntry

VARIABLES
    files,          \* the files which exist below +files
    tmps,           \* the temporary files which exist
    meta,           \* the paths whose committed key describes a file
    relRenames,     \* rel_renames in the last changelog row
    lock,           \* the thread which has the write lock of the database
    pc,             \* "idle", "open" or "renaming" (in FSIOFileBase._commit)
    dirty,          \* FSIOFileBase._dirty_files of each transaction
    process,        \* which start of the server this is
    server,         \* "recovering" (in finalize_init), "up" or "failed"
    todo,           \* paths finalize_init has still to look at
    lost,           \* history: paths whose rename or removal was given up
    contested       \* history: paths two transactions had to rename or remove at a time

memory == <<lock, pc, dirty>>
vars == <<files, tmps, meta, relRenames, lock, pc, dirty, process, server, todo, lost,
          contested>>
history == <<lost, contested>>

NothingDirty == [p \in Paths |-> Clean]

Init ==
    /\ files = {} /\ tmps = {} /\ meta = {}
    /\ relRenames = [p \in Paths |-> NoEntry]
    /\ lock = NoThread
    /\ pc = [t \in Threads |-> "idle"]
    /\ dirty = [t \in Threads |-> NothingDirty]
    /\ process = 0
    /\ server = "up"
    /\ todo = {} /\ lost = {} /\ contested = {}

TmpOf(t, p) == [path |-> p, thread |-> t, process |-> process]
DirtyPaths(t) == {p \in Paths : dirty[t][p] # Clean}
DeletedPaths(t) == {p \in Paths : dirty[t][p] = Deleted}
WrittenPaths(t) == {p \in Paths : dirty[t][p] = Written}

-----------------------------------------------------------------------------
(* A write transaction.                                                    *)

\* The transaction begins with the write lock (see KeyFS).
Begin(t) ==
    /\ server = "up" /\ pc[t] = "idle" /\ lock = NoThread
    /\ lock' = t
    /\ pc' = [pc EXCEPT ![t] = "open"]
    /\ UNCHANGED <<files, tmps, meta, relRenames, dirty, process, server, todo, history>>

\* Mutant: the content is written to its destination at once.
SetContentInPlace(t) ==
    /\ pc[t] = "open"
    /\ \E p \in MayWrite[t] :
        /\ files' = files \cup {p}
        /\ tmps' = tmps \cup {TmpOf(t, p)}
        /\ dirty' = [dirty EXCEPT ![t][p] = Written]
    /\ UNCHANGED <<meta, relRenames, lock, pc, process, server, todo, history>>

\* BaseFileEntry.file_set_content and FSIOFileBase.set_content.
SetContent(t) ==
    /\ pc[t] = "open"
    /\ \E p \in MayWrite[t] :
        /\ tmps' = tmps \cup {TmpOf(t, p)}
        /\ dirty' = [dirty EXCEPT ![t][p] = Written]
    /\ UNCHANGED <<files, meta, relRenames, lock, pc, process, server, todo, history>>

\* BaseFileEntry.delete and FSIOFileBase.delete: the temporary file of an earlier
\* set_content is dropped.
Delete(t) ==
    /\ pc[t] = "open"
    /\ \E p \in MayWrite[t] :
        /\ tmps' = IF p \in WrittenPaths(t) THEN tmps \ {TmpOf(t, p)} ELSE tmps
        /\ dirty' = [dirty EXCEPT ![t][p] = Deleted]
    /\ UNCHANGED <<files, meta, relRenames, lock, pc, process, server, todo, history>>

\* Mutant: removals are not recorded.
RelRenamesOfWritten(t) ==
    [p \in Paths |-> IF p \in WrittenPaths(t) THEN TmpOf(t, p) ELSE NoEntry]

\* Mutant: a file to be removed is recorded like one to be renamed.
RelRenamesAllTmp(t) ==
    [p \in Paths |-> IF p \in DirtyPaths(t) THEN TmpOf(t, p) ELSE NoEntry]

\* FSIOFileBase.get_rel_renames.
RelRenames(t) ==
    [p \in Paths |-> CASE p \in WrittenPaths(t) -> TmpOf(t, p)
                       [] p \in DeletedPaths(t) -> Deleted
                       [] OTHER -> NoEntry]

\* What other threads have still to rename or remove.
OthersPaths(t) == UNION {DirtyPaths(u) : u \in {v \in Threads : v # t /\ pc[v] = "renaming"}}

\* Transaction.commit up to the end of Writer.__exit__: metadata and rel_renames are
\* durable and the write lock is released.
CommitDb(t) ==
    /\ pc[t] = "open"
    /\ DirtyPaths(t) # {}
    /\ meta' = (meta \ DeletedPaths(t)) \cup WrittenPaths(t)
    /\ relRenames' = RelRenames(t)
    /\ lock' = NoThread
    /\ pc' = [pc EXCEPT ![t] = "renaming"]
    /\ contested' = (contested \ DirtyPaths(t)) \cup (DirtyPaths(t) \cap OthersPaths(t))
    /\ UNCHANGED <<files, tmps, dirty, process, server, todo, lost>>

\* One turn of the loop of FSIOFileBase._commit: a DirtyFile is renamed to its
\* destination, a deleted file removed.  The last one ends the transaction.
ApplyFile(t) ==
    /\ pc[t] = "renaming"
    /\ \E p \in DirtyPaths(t) :
        /\ files' = IF p \in DeletedPaths(t) THEN files \ {p} ELSE files \cup {p}
        /\ tmps' = IF p \in DeletedPaths(t) THEN tmps ELSE tmps \ {TmpOf(t, p)}
        /\ dirty' = [dirty EXCEPT ![t][p] = Clean]
        /\ pc' = [pc EXCEPT ![t] = IF DirtyPaths(t) = {p} THEN "idle" ELSE "renaming"]
        /\ lost' = lost \ {p}
    /\ UNCHANGED <<meta, relRenames, lock, process, server, todo, contested>>

\* DirtyFile.commit raises OSError: the exception leaves the loop, the rest of the
\* renames and removals is not done.
ApplyFails(t) ==
    /\ pc[t] = "renaming"
    /\ WrittenPaths(t) # {}
    /\ lost' = lost \cup DirtyPaths(t)
    /\ dirty' = [dirty EXCEPT ![t] = NothingDirty]
    /\ pc' = [pc EXCEPT ![t] = "idle"]
    /\ UNCHANGED <<files, tmps, meta, relRenames, lock, process, server, todo, contested>>

\* File.remove suppresses an OSError: the file stays, and the loop goes on.
RemoveFails(t) ==
    /\ pc[t] = "renaming"
    /\ \E p \in DeletedPaths(t) \cap files :
        /\ dirty' = [dirty EXCEPT ![t][p] = Clean]
        /\ pc' = [pc EXCEPT ![t] = IF DirtyPaths(t) = {p} THEN "idle" ELSE "renaming"]
        /\ lost' = lost \cup {p}
    /\ UNCHANGED <<files, tmps, meta, relRenames, lock, process, server, todo, contested>>

\* Transaction.rollback, a commit which finds nothing dirty, and one which fails before
\* the database has committed.
Rollback(t) ==
    /\ pc[t] = "open"
    /\ tmps' = tmps \ {TmpOf(t, p) : p \in WrittenPaths(t)}
    /\ dirty' = [dirty EXCEPT ![t] = NothingDirty]
    /\ lock' = NoThread
    /\ pc' = [pc EXCEPT ![t] = "idle"]
    /\ UNCHANGED <<files, meta, relRenames, process, server, todo, history>>

-----------------------------------------------------------------------------
(* Crash and recovery.                                                     *)

\* Committed renames and removals which are not in the last changelog row.
Forgotten(t) == {p \in DirtyPaths(t) : relRenames[p] # RelRenames(t)[p]}

\* Mutant: left over temporary files are cleaned up before finalize_init.
CrashCleansUp ==
    /\ process < MaxCrashes
    /\ process' = process + 1
    /\ lock' = NoThread
    /\ pc' = [t \in Threads |-> "idle"]
    /\ dirty' = [t \in Threads |-> NothingDirty]
    /\ lost' = lost \cup UNION {Forgotten(t) : t \in {u \in Threads : pc[u] = "renaming"}}
    /\ server' = "recovering"
    /\ todo' = {p \in Paths : relRenames[p] # NoEntry}
    /\ tmps' = {}
    /\ UNCHANGED <<files, meta, relRenames, contested>>

\* The process is killed at any moment, also during recovery, and started again:
\* finalize_init runs before anything else.  Temporary files the last changelog row
\* does not name stay on the disk and are never looked at again: no later process has
\* their name.  They are left out from here on.
Crash ==
    /\ process < MaxCrashes
    /\ process' = process + 1
    /\ lock' = NoThread
    /\ pc' = [t \in Threads |-> "idle"]
    /\ dirty' = [t \in Threads |-> NothingDirty]
    /\ lost' = lost \cup UNION {Forgotten(t) : t \in {u \in Threads : pc[u] = "renaming"}}
    /\ server' = "recovering"
    /\ todo' = {p \in Paths : relRenames[p] # NoEntry}
    /\ tmps' = tmps \cap {relRenames[p] : p \in Paths}
    /\ UNCHANGED <<files, meta, relRenames, contested>>

\* Mutant: recovery only completes renames.
RecoverNoDelete(p) ==
    /\ server = "recovering" /\ p \in todo
    /\ relRenames[p] = Deleted
    /\ todo' = todo \ {p}
    /\ UNCHANGED <<files, tmps, meta, relRenames, memory, process, server, history>>

\* One turn of the loop of FSIOFile._perform_crash_recovery: a file to be deleted.
RecoverDelete(p) ==
    /\ server = "recovering" /\ p \in todo
    /\ relRenames[p] = Deleted
    /\ todo' = todo \ {p}
    /\ files' = files \ {p}
    /\ lost' = lost \ {p} /\ contested' = contested \ {p}
    /\ UNCHANGED <<tmps, meta, relRenames, memory, process, server>>

\* An OSError of the removal is suppressed there as well.
RecoverDeleteFails(p) ==
    /\ server = "recovering" /\ p \in todo
    /\ relRenames[p] = Deleted /\ p \in files
    /\ todo' = todo \ {p}
    /\ lost' = lost \cup {p}
    /\ UNCHANGED <<files, tmps, meta, relRenames, memory, process, server, contested>>

\* The temporary file is still there and is renamed.
RecoverRename(p) ==
    /\ server = "recovering" /\ p \in todo
    /\ relRenames[p] \in tmps
    /\ todo' = todo \ {p}
    /\ files' = files \cup {p}
    /\ tmps' = tmps \ {relRenames[p]}
    /\ lost' = lost \ {p} /\ contested' = contested \ {p}
    /\ UNCHANGED <<meta, relRenames, memory, process, server>>

\* It has been renamed before the crash.  If the destination does not exist either,
\* FileNotFoundError("missing file ...") ends the start of the server.
RecoverDone(p) ==
    /\ server = "recovering" /\ p \in todo
    /\ relRenames[p] # Deleted /\ relRenames[p] \notin tmps
    /\ todo' = todo \ {p}
    /\ server' = IF p \in files THEN server ELSE "failed"
    /\ UNCHANGED <<files, tmps, meta, relRenames, memory, process, history>>

StartServer ==
    /\ server = "recovering" /\ todo = {}
    /\ server' = "up"
    /\ UNCHANGED <<files, tmps, meta, relRenames, memory, process, todo, history>>

Recovery ==
    \/ \E p \in Paths :
        RecoverDelete(p) \/ RecoverDeleteFails(p) \/ RecoverRename(p) \/ RecoverDone(p)
    \/ StartServer

Next ==
    \/ \E t \in Threads :
        \/ Begin(t) \/ SetContent(t) \/ Delete(t) \/ CommitDb(t)
        \/ ApplyFile(t) \/ ApplyFails(t) \/ RemoveFails(t) \/ Rollback(t)
    \/ Crash
    \/ Recovery

Spec == Init /\ [][Next]_vars

\* A thread in the loop of _commit and the main thread in finalize_init go on: nothing
\* there waits for anybody.
FairSpec == Spec /\ WF_vars(Recovery) /\ \A t \in Threads : WF_vars(ApplyFile(t))

-----------------------------------------------------------------------------
(* Properties.                                                             *)

TypeOK ==
    /\ files \subseteq Paths
    /\ tmps \subseteq TmpName
    /\ meta \subseteq Paths
    /\ relRenames \in [Paths -> TmpName \cup {Deleted, NoEntry}]
    /\ lock \in Threads \cup {NoThread}
    /\ pc \in [Threads -> {"idle", "open", "renaming"}]
    /\ dirty \in [Threads -> [Paths -> {Clean, Written, Deleted}]]
    /\ process \in Nat
    /\ server \in {"recovering", "up", "failed"}
    /\ todo \subseteq Paths
    /\ lost \subseteq Paths
    /\ contested \subseteq Paths

\* Somebody is still going to rename or remove the file.
Renaming(t, p) == pc[t] = "renaming" /\ p \in DirtyPaths(t)
Pending(p) == \/ \E t \in Threads : Renaming(t, p)
              \/ server # "up" /\ p \in todo

\* The paths nothing is claimed about: those given up at a crash or an error, and those
\* of two transactions whose renames and removals may be done in either order.
Unsettled == lost \cup contested

\* A path has a file exactly when its metadata says so, unless a thread is still going
\* to rename or remove it or a restarted server to look at it.  Whatever fails, only
\* the unsettled paths can stay wrong.
FilesMatchMetadata ==
    \A p \in Paths \ Unsettled : (p \in files <=> p \in meta) \/ Pending(p)

\* No file appears before its metadata is committed or after it was rolled back, and none
\* disappears before its deletion is committed: not by a crash at any moment, and
\* not by the recovery from it.
OnlyCommittedAppears ==
    [][\A p \in Paths \ contested : /\ p \in files' \ files => p \in meta'
                                    /\ p \in files \ files' => p \notin meta']_vars

\* The last changelog row is enough to bring the file of every path it names to the
\* committed state, whenever the process is killed.
LastCommitRecoverable ==
    \A p \in Paths \ Unsettled :
        /\ relRenames[p] = Deleted => p \notin meta
        /\ relRenames[p] \in TmpName =>
                p \in meta /\ (relRenames[p] \in tmps \/ p \in files)

\* finalize_init does not stop the server with "missing file", unless an error has left
\* the rename of just such a file undone before, or another transaction removed it.
StartupSucceeds ==
    server = "failed" => \E p \in Unsettled \ files : relRenames[p] \in TmpName

\* The last changelog row agrees with the metadata, and names its own temporary files.
Logged ==
    \A p \in Paths :
        /\ relRenames[p] = Deleted => p \notin meta
        /\ relRenames[p] \in TmpName => p \in meta /\ relRenames[p].path = p

\* The content a transaction has set is there until its rename.
HasTmp == \A t \in Threads, p \in Paths : dirty[t][p] = Written => TmpOf(t, p) \in tmps

\* What a thread has still to do with a path only it is busy with leads to the metadata,
\* and the last changelog row says the same if it mentions the path.
AgreesWithMetadata ==
    \A p \in Paths \ contested, t \in Threads :
        Renaming(t, p) =>
            /\ dirty[t][p] = Written <=> p \in meta
            /\ relRenames[p] \in {NoEntry, RelRenames(t)[p]}
            /\ \A u \in Threads : Renaming(u, p) => u = t

\* Nothing else goes on before the server is up.
RecoversAlone ==
    /\ server # "up" => \A t \in Threads : pc[t] = "idle" /\ dirty[t] = NothingDirty
    /\ server = "up" => todo = {}
    /\ \A p \in todo : relRenames[p] # NoEntry

IInv ==
    /\ TypeOK
    /\ Logged /\ HasTmp /\ AgreesWithMetadata /\ RecoversAlone
    /\ FilesMatchMetadata /\ LastCommitRecoverable /\ StartupSucceeds

\* A file which does not agree with its metadata is put right in the end.
FilesAppear ==
    \A p \in Paths :
        (p \in files) # (p \in meta) ~>
            (p \in files) = (p \in meta) \/ p \in Unsettled \/ server = "failed"

\* The comment in FSIOFileBase._commit: "If we crash in the remainder, the next
\* restart will call perform_crash_recovery which will replay any remaining changes":
\* a recovered server has the files its metadata describes.
RecoveryIsComplete ==
    [][server = "recovering" /\ server' = "up" => files' = meta']_vars

\* The docstring of keyfs.py: "at most one write Transaction is ongoing".  When they
\* have all ended, nothing crashed and no error occurred, the files are those of the
\* commits which had the last word.
LastWriterWins ==
    process = 0 /\ lost = {} /\ (\A t \in Threads : pc[t] = "idle") => files = meta
=============================================================================
