------------------------------- MODULE KeyFS -------------------------------
(***************************************************************************)
(* The transactional key/value store of devpi-server: class Transaction    *)
(* and the transaction handling of class KeyFS (server/devpi_server/       *)
(* keyfs.py) on top of the SQLite storage (keyfs_sqlite.py).               *)
(*                                                                         *)
(* The database holds two tables.  changelog has one immutable row per     *)
(* serial with the changes of that commit; every change carries the serial *)
(* of the previous change of the same key (back_serial).  kv has for every *)
(* key the serial of its LATEST change only.  A transaction which started  *)
(* at an older serial therefore reads a key by taking the latest serial    *)
(* from kv and walking the back_serial links down to its own serial, while *)
(* others commit.  The statements of a read run in autocommit mode, so a   *)
(* commit may happen between any two of them.                              *)
(*                                                                         *)
(* Files, listeners and the notification of waiting threads are the        *)
(* subject of the modules FileCommit and Notifier.                         *)
(***************************************************************************)
EXTENDS Integers, FiniteSets

CONSTANTS
    Keys,           \* typed keys
    Vals,           \* values a key can be set to
    Threads,        \* threads, each has at most one transaction (_threadlocal.tx)
    CacheSize,      \* entries of _relpath_cache
    MaxSerial,      \* bound: no commit beyond this serial
    Absent,         \* markers.absent: the key never existed
    Deleted,        \* markers.deleted, and None in the changelog
    Unset,          \* no entry for the key in a dictionary
    NoRow,          \* the changes of a serial do not mention the key
    NoThread,       \* nobody has the write lock of the database
    NoRead,         \* the thread is not inside get_relpath_at
    NoView          \* the thread has no open transaction (SnapshotStore)

ASSUME KeyFSConstants ==
    /\ MaxSerial \in Nat
    /\ CacheSize \in Nat \ {0}
    /\ IsFiniteSet(Keys)
    /\ Absent \notin Vals /\ Deleted \notin Vals /\ Unset \notin Vals
    /\ Absent # Deleted /\ Unset # Deleted /\ Unset # Absent
    /\ NoThread \notin Threads

Serial == Nat \cup {-1}
Change == [back : Serial, val : Vals \cup {Deleted}]
Original == [serial : Serial, val : Vals \cup {Deleted, Absent}]
Cursor == [key : Keys, at : Nat]
CacheEntry == [key : Keys, at : Serial, found : Original]

\* NoRow, Unset, NoRead and NoView stand for a missing dictionary entry or object:
\* they are neither records nor serials.
ASSUME KeyFSMarkers ==
    /\ NoRow \notin Change /\ Unset \notin Original /\ NoRead \notin Cursor
    /\ NoView \notin Serial

VARIABLES
    changelog,      \* table changelog: changelog[s][k], a Change or NoRow
    last,           \* MAX(_ROWID_) of changelog, -1 when it is empty
    kv,             \* table kv: serial of the latest change of a key, -1 no row
    lock,           \* the thread whose "begin immediate" succeeded
    relpathCache,   \* BaseStorage._relpath_cache, shared by all connections
    pc,             \* "idle", "begin" (in begin immediate) or "open"
    writing,        \* Transaction.write
    atSerial,       \* Transaction.at_serial
    original,       \* Transaction._original
    cache,          \* Transaction.cache; dirty is its domain
    reading         \* the row get_relpath_at has reached for a key

db == <<changelog, last, kv>>
txvars == <<pc, writing, atSerial, original, cache>>
vars == <<changelog, last, kv, lock, relpathCache, pc, writing, atSerial,
          original, cache, reading>>

Nothing == [k \in Keys |-> Unset]

Init ==
    /\ changelog = [s \in {} |-> [k \in Keys |-> NoRow]]
    /\ last = -1
    /\ kv = [k \in Keys |-> -1]
    /\ lock = NoThread
    /\ relpathCache = {}
    /\ pc = [t \in Threads |-> "idle"]
    /\ writing = [t \in Threads |-> FALSE]
    /\ atSerial = [t \in Threads |-> -1]
    /\ original = [t \in Threads |-> Nothing]
    /\ cache = [t \in Threads |-> Nothing]
    /\ reading = [t \in Threads |-> NoRead]

-----------------------------------------------------------------------------
(* Beginning, restarting and ending a transaction.                         *)

\* Transaction.__init__ with write=False: at_serial is the current serial or
\* one the caller chooses.
BeginRead(t) ==
    /\ pc[t] = "idle"
    /\ \E s \in -1..last : atSerial' = [atSerial EXCEPT ![t] = s]
    /\ pc' = [pc EXCEPT ![t] = "open"]
    /\ UNCHANGED <<db, lock, relpathCache, writing, original, cache, reading>>

\* Transaction.__init__ with write=True opens the connection at once, and
\* BaseStorage.get_connection loops on "begin immediate".
BeginWrite(t) ==
    /\ pc[t] = "idle"
    /\ pc' = [pc EXCEPT ![t] = "begin"]
    /\ UNCHANGED <<db, lock, relpathCache, writing, atSerial, original, cache, reading>>

\* Mutant: a plain "begin", which does not take the write lock.
AcquireDeferred(t) ==
    /\ pc[t] = "begin"
    /\ lock' = t
    /\ pc' = [pc EXCEPT ![t] = "open"]
    /\ writing' = [writing EXCEPT ![t] = TRUE]
    /\ atSerial' = [atSerial EXCEPT ![t] = last]
    /\ UNCHANGED <<db, relpathCache, original, cache, reading>>

\* "begin immediate" succeeds; last_changelog_serial is read after it.
Acquire(t) ==
    /\ pc[t] = "begin"
    /\ lock = NoThread
    /\ lock' = t
    /\ pc' = [pc EXCEPT ![t] = "open"]
    /\ writing' = [writing EXCEPT ![t] = TRUE]
    /\ atSerial' = [atSerial EXCEPT ![t] = last]
    /\ UNCHANGED <<db, relpathCache, original, cache, reading>>

\* KeyfsTimeoutError: another writer holds the database for too long.
Timeout(t) ==
    /\ pc[t] = "begin"
    /\ lock # NoThread
    /\ pc' = [pc EXCEPT ![t] = "idle"]
    /\ UNCHANGED <<db, lock, relpathCache, writing, atSerial, original, cache, reading>>

\* Transaction._close, and the release of the lock by the end of the
\* connection's SQLite transaction.
Close(t) ==
    /\ pc' = [pc EXCEPT ![t] = "idle"]
    /\ writing' = [writing EXCEPT ![t] = FALSE]
    /\ atSerial' = [atSerial EXCEPT ![t] = -1]
    /\ original' = [original EXCEPT ![t] = Nothing]
    /\ cache' = [cache EXCEPT ![t] = Nothing]
    /\ lock' = IF lock = t THEN NoThread ELSE lock

InTransaction(t) == pc[t] = "open" /\ reading[t] = NoRead

\* Transaction.rollback, the commit of a doomed or of a read transaction.
Rollback(t) ==
    /\ InTransaction(t)
    /\ Close(t)
    /\ UNCHANGED <<db, relpathCache, reading>>

\* KeyFS.restart_as_write_transaction: the read transaction is committed, and
\* a new object takes its place once it has the write lock.
RestartAsWrite(t) ==
    /\ InTransaction(t)
    /\ ~writing[t]
    /\ pc' = [pc EXCEPT ![t] = "begin"]
    /\ atSerial' = [atSerial EXCEPT ![t] = -1]
    /\ original' = [original EXCEPT ![t] = Nothing]
    /\ cache' = [cache EXCEPT ![t] = Nothing]
    /\ UNCHANGED <<db, lock, relpathCache, writing, reading>>

\* KeyFS.restart_read_transaction: nothing is done at the current serial.
RestartRead(t) ==
    /\ InTransaction(t)
    /\ ~writing[t]
    /\ atSerial[t] # last
    /\ atSerial' = [atSerial EXCEPT ![t] = last]
    /\ original' = [original EXCEPT ![t] = Nothing]
    /\ cache' = [cache EXCEPT ![t] = Nothing]
    /\ UNCHANGED <<db, lock, relpathCache, pc, writing, reading>>

-----------------------------------------------------------------------------
(* Reading a key.                                                          *)

NotFound == [serial |-> -1, val |-> Absent]

\* Transaction.get_original returns the entry _original has for the key; else it
\* asks BaseConnection.get_relpath_at, whose cache may have the answer.
GetCached(t) ==
    /\ InTransaction(t)
    /\ \E k \in Keys, e \in relpathCache :
        /\ original[t][k] = Unset
        /\ e.key = k /\ e.at = atSerial[t]
        /\ original' = [original EXCEPT ![t][k] = e.found]
    /\ UNCHANGED <<db, lock, relpathCache, pc, writing, atSerial, cache, reading>>

\* LRUCache.put: a full cache drops an entry.
CachePut(e) ==
    IF Cardinality(relpathCache) < CacheSize
    THEN relpathCache' = relpathCache \cup {e}
    ELSE \E victim \in relpathCache :
            relpathCache' = (relpathCache \ {victim}) \cup {e}

\* _changelog_cache may have the changes of at_serial: if they mention the key, they
\* have the answer.  Whether the cache has them is left open.
GetFromRow(t) ==
    /\ InTransaction(t)
    /\ atSerial[t] >= 0
    /\ \E k \in Keys :
        LET s == atSerial[t]
            found == [serial |-> s, val |-> changelog[s][k].val]
        IN /\ original[t][k] = Unset
           /\ ~\E e \in relpathCache : e.key = k /\ e.at = s
           /\ changelog[s][k] # NoRow
           /\ original' = [original EXCEPT ![t][k] = found]
           /\ CachePut([key |-> k, at |-> s, found |-> found])
    /\ UNCHANGED <<db, lock, pc, writing, atSerial, cache, reading>>

\* get_relpath_at (the function of keyfs.py) reads the row of kv.
ReadKv(t) ==
    /\ InTransaction(t)
    /\ \E k \in Keys :
        /\ original[t][k] = Unset
        /\ ~\E e \in relpathCache : e.key = k /\ e.at = atSerial[t]
        /\ IF kv[k] = -1
           THEN /\ original' = [original EXCEPT ![t][k] = NotFound]
                /\ UNCHANGED reading
           ELSE /\ reading' = [reading EXCEPT ![t] = [key |-> k, at |-> kv[k]]]
                /\ UNCHANGED original
    /\ UNCHANGED <<db, lock, relpathCache, pc, writing, atSerial, cache>>

\* Mutant: the walk goes to the serial before instead of back_serial.
WalkBackByOne(t) ==
    /\ reading[t] # NoRead
    /\ reading[t].at > atSerial[t]
    /\ reading' = [reading EXCEPT ![t].at = @ - 1]
    /\ UNCHANGED <<db, lock, relpathCache, pc, writing, atSerial, original, cache>>

\* The loop of get_relpath_at goes one back_serial further down.  Below the
\* first change of the key there is none: KeyError.
WalkBack(t) ==
    /\ reading[t] # NoRead
    /\ LET k == reading[t].key
           back == changelog[reading[t].at][k].back
       IN /\ reading[t].at > atSerial[t]
          /\ IF back = -1
             THEN /\ original' = [original EXCEPT ![t][k] = NotFound]
                  /\ reading' = [reading EXCEPT ![t] = NoRead]
             ELSE /\ reading' = [reading EXCEPT ![t].at = back]
                  /\ UNCHANGED original
    /\ UNCHANGED <<db, lock, relpathCache, pc, writing, atSerial, cache>>

\* Mutant: the first row is returned, whatever its serial.
FoundLatest(t) ==
    /\ reading[t] # NoRead
    /\ LET k == reading[t].key
           found == [serial |-> reading[t].at, val |-> changelog[reading[t].at][k].val]
       IN /\ original' = [original EXCEPT ![t][k] = found]
          /\ CachePut([key |-> k, at |-> atSerial[t], found |-> found])
    /\ reading' = [reading EXCEPT ![t] = NoRead]
    /\ UNCHANGED <<db, lock, pc, writing, atSerial, cache>>

\* Mutant: the answer is kept for the current serial of the database.
FoundCachedAtLast(t) ==
    /\ reading[t] # NoRead
    /\ LET k == reading[t].key
           s == reading[t].at
           found == [serial |-> s, val |-> changelog[s][k].val]
       IN /\ s <= atSerial[t]
          /\ original' = [original EXCEPT ![t][k] = found]
          /\ CachePut([key |-> k, at |-> last, found |-> found])
    /\ reading' = [reading EXCEPT ![t] = NoRead]
    /\ UNCHANGED <<db, lock, pc, writing, atSerial, cache>>

\* The first serial which is not after at_serial: the value is returned, and
\* BaseConnection.get_relpath_at keeps it for the pair of serial and key.
FoundAt(t) ==
    /\ reading[t] # NoRead
    /\ LET k == reading[t].key
           s == reading[t].at
           found == [serial |-> s, val |-> changelog[s][k].val]
       IN /\ s <= atSerial[t]
          /\ original' = [original EXCEPT ![t][k] = found]
          /\ CachePut([key |-> k, at |-> atSerial[t], found |-> found])
    /\ reading' = [reading EXCEPT ![t] = NoRead]
    /\ UNCHANGED <<db, lock, pc, writing, atSerial, cache>>

-----------------------------------------------------------------------------
(* Writing and committing.                                                 *)

\* Transaction.set and Transaction.delete.
Set(t) ==
    /\ InTransaction(t)
    /\ writing[t]
    /\ \E k \in Keys, v \in Vals \cup {Deleted} :
            cache' = [cache EXCEPT ![t][k] = v]
    /\ UNCHANGED <<db, lock, relpathCache, pc, writing, atSerial, original, reading>>

\* Mutant: deletions leave no record.
RecordsOfSet(t) ==
    {k \in Keys : /\ cache[t][k] \notin {Unset, Deleted}
                  /\ cache[t][k] # original[t][k].val}

\* The records of Transaction.commit: a dirty key whose value is the original one,
\* or which is deleted without ever having existed, leaves no record.
Records(t) ==
    {k \in Keys : /\ cache[t][k] # Unset
                  /\ cache[t][k] # original[t][k].val
                  /\ ~(cache[t][k] = Deleted /\ original[t][k].val = Absent)}

\* commit calls get_original for every dirty key before it does anything else.
ReadyToCommit(t) ==
    /\ InTransaction(t)
    /\ writing[t]
    /\ \A k \in Keys : cache[t][k] # Unset => original[t][k] # Unset

\* Writer.__enter__: the serial after the one the connection has cached, which
\* is the one the transaction started at.
CommitSerial(t) == atSerial[t] + 1

\* The row of Writer.commit for the records.
ChangesOf(t) ==
    [k \in Keys |-> IF k \in Records(t)
                    THEN [back |-> original[t][k].serial, val |-> cache[t][k]]
                    ELSE NoRow]

\* Transaction.commit: the records are written to kv and changelog, the SQLite
\* transaction is committed and the connection closed.  There need not be a
\* record: a transaction with dirty files is committed as well.
Commit(t) ==
    /\ ReadyToCommit(t)
    /\ CommitSerial(t) <= MaxSerial
    /\ changelog' = [s \in 0..CommitSerial(t) |->
                        IF s = CommitSerial(t) THEN ChangesOf(t) ELSE changelog[s]]
    /\ last' = CommitSerial(t)
    /\ kv' = [k \in Keys |-> IF k \in Records(t) THEN CommitSerial(t) ELSE kv[k]]
    /\ Close(t)
    /\ UNCHANGED <<relpathCache, reading>>

\* "nothing to commit, just closing tx": no record, and no dirty file either.
CommitNothing(t) ==
    /\ ReadyToCommit(t)
    /\ Records(t) = {}
    /\ Close(t)
    /\ UNCHANGED <<db, relpathCache, reading>>

\* The process is killed and started again: SQLite rolls back what was not
\* committed, everything held in memory is gone.
Crash ==
    /\ lock' = NoThread
    /\ relpathCache' = {}
    /\ pc' = [t \in Threads |-> "idle"]
    /\ writing' = [t \in Threads |-> FALSE]
    /\ atSerial' = [t \in Threads |-> -1]
    /\ original' = [t \in Threads |-> Nothing]
    /\ cache' = [t \in Threads |-> Nothing]
    /\ reading' = [t \in Threads |-> NoRead]
    /\ UNCHANGED db

Next ==
    \/ \E t \in Threads :
        \/ BeginRead(t) \/ BeginWrite(t) \/ Acquire(t) \/ Timeout(t)
        \/ Rollback(t) \/ RestartAsWrite(t) \/ RestartRead(t)
        \/ GetCached(t) \/ GetFromRow(t)
        \/ ReadKv(t) \/ WalkBack(t) \/ FoundAt(t)
        \/ Set(t) \/ Commit(t) \/ CommitNothing(t)
    \/ Crash

Spec == Init /\ [][Next]_vars

-----------------------------------------------------------------------------
(* Properties.                                                             *)

\* Every variable has its type, and no transaction looks at a serial which has not
\* been committed.
TypeOK ==
    /\ last \in Serial
    /\ changelog \in [0..last -> [Keys -> Change \cup {NoRow}]]
    /\ kv \in [Keys -> Serial]
    /\ lock \in Threads \cup {NoThread}
    /\ relpathCache \subseteq CacheEntry
    /\ pc \in [Threads -> {"idle", "begin", "open"}]
    /\ writing \in [Threads -> BOOLEAN]
    /\ atSerial \in [Threads -> -1..last]
    /\ original \in [Threads -> [Keys -> Original \cup {Unset}]]
    /\ cache \in [Threads -> [Keys -> Vals \cup {Deleted, Unset}]]
    /\ reading \in [Threads -> Cursor \cup {NoRead}]

Changed(s, k) == changelog[s][k] # NoRow

\* l is the serial of the last change of k up to serial s, -1 if there is none.
IsLastChange(k, s, l) ==
    /\ l \in -1..s
    /\ l >= 0 => Changed(l, k)
    /\ \A i \in 0..s : i > l => ~Changed(i, k)

\* o is what a reader of key k at serial s must be given.
IsOriginal(k, s, o) ==
    /\ IsLastChange(k, s, o.serial)
    /\ o.val = IF o.serial = -1 THEN Absent ELSE changelog[o.serial][k].val

\* The row of kv is the latest change of its key, and the back_serial of every
\* change is the change before it.  A walk over back_serial links thus meets
\* every change of the key and never a serial which does not mention it (the
\* RuntimeError of iter_serial_and_value_backwards).
ChangelogLinked ==
    \A k \in Keys :
        /\ IsLastChange(k, last, kv[k])
        /\ \A s \in 0..last :
                Changed(s, k) => IsLastChange(k, s - 1, changelog[s][k].back)

\* "Each Transaction will see a consistent view of key/values referring to the
\* point in time it was started, independent from any future changes": all
\* values a transaction has read are those of one serial, whatever was committed
\* while it read them.
SnapshotReads ==
    \A t \in Threads, k \in Keys :
        original[t][k] # Unset => /\ pc[t] = "open"
                                  /\ IsOriginal(k, atSerial[t], original[t][k])

\* What _relpath_cache has for a serial and a key is still what the database would
\* answer, although later commits have changed the key.
CacheCoherent ==
    \A e \in relpathCache : e.at <= last /\ IsOriginal(e.key, e.at, e.found)

\* "at most one write Transaction is ongoing", and it works on the latest serial:
\* nothing it has read can be overwritten by another writer before it commits.
WriterIsCurrent ==
    \A t \in Threads :
        /\ writing[t] <=> lock = t
        /\ writing[t] => pc[t] = "open" /\ atSerial[t] = last

\* The reader has not skipped a change of its key between at_serial and the row
\* it has reached.
WalkOnTrack ==
    \A t \in Threads :
        reading[t] # NoRead =>
            LET k == reading[t].key
                s == reading[t].at
            IN /\ pc[t] = "open"
               /\ original[t][k] = Unset
               /\ s \in 0..last /\ Changed(s, k)
               /\ s <= atSerial[t] => IsLastChange(k, atSerial[t], s)

\* The inductive invariant of the store: each part needs the others to survive a statement
\* of a read or a commit (get_relpath_at, Transaction.commit, BaseConnection).
IInv ==
    /\ TypeOK
    /\ ChangelogLinked
    /\ SnapshotReads
    /\ CacheCoherent
    /\ WriterIsCurrent
    /\ WalkOnTrack

\* BaseConnection.iter_relpaths_at: for every serial from at_serial down, the rows
\* of kv with that serial.
IterRelpathsAt(s) == {k \in Keys : kv[k] \in 0..s}

\* The docstring of KeyFS for the keys a transaction iterates over: they are the ones
\* which had a change at or before its serial, "independent from any future
\* changes".
IterationSeesSnapshot ==
    \A t \in Threads :
        pc[t] = "open" =>
            IterRelpathsAt(atSerial[t])
                = {k \in Keys : \E s \in 0..atSerial[t] : Changed(s, k)}

-----------------------------------------------------------------------------
(* KeyFS implements the store of SnapshotStore.  The versions of the store *)
(* are what the changelog says about every committed serial.               *)

LastChange(k, s) == CHOOSE l \in -1..s : IsLastChange(k, s, l)

\* A deleted key has no value, like one which never existed.
ValueOf(o) == IF o.serial = -1 \/ o.val = Deleted THEN Absent ELSE o.val

ValueAt(k, s) ==
    LET l == LastChange(k, s)
    IN IF l = -1 \/ changelog[l][k].val = Deleted THEN Absent
       ELSE changelog[l][k].val

AbsVersions == [s \in -1..last |-> [k \in Keys |-> ValueAt(k, s)]]
AbsView == [t \in Threads |-> IF pc[t] = "open" THEN atSerial[t] ELSE NoView]
AbsSeen ==
    [t \in Threads |-> [k \in Keys |->
        IF original[t][k] = Unset THEN Unset ELSE ValueOf(original[t][k])]]

Store == INSTANCE SnapshotStore WITH
    versions <- AbsVersions, latest <- last, view <- AbsView, seen <- AbsSeen,
    pending <- cache

\* Every step of the transactions, the table rows and the cache is a step of the
\* abstract store, or changes nothing in it: a commit makes exactly the values the
\* transaction has written visible, on top of the serial before.
ImplementsStore == Store!StoreSpec
=============================================================================
