---------------------------- MODULE SnapshotStore ----------------------------
(***************************************************************************)
(* What KeyFS promises to the rest of devpi-server (docstring of           *)
(* server/devpi_server/keyfs.py): any number of readers and at most one    *)
(* writer, each transaction looking at one version of a key/value store.   *)
(*                                                                         *)
(* The store is the history of its versions.  Version -1 is the empty      *)
(* database; a commit appends exactly one version, which is the last one   *)
(* overlaid with the values the committing transaction has set or deleted. *)
(***************************************************************************)
EXTENDS Integers

CONSTANTS
    Keys,       \* typed keys, the rows of the kv table
    Vals,       \* values a key can be set to
    Threads,    \* threads of the server, each with at most one transaction
    Absent,     \* value of a key which does not exist
    Deleted,    \* pending deletion of a key
    Unset,      \* no pending write to a key, no value read of it
    NoView      \* the thread has no transaction

VARIABLES
    versions,   \* versions[s][k] is the value of k once serial s is committed
    latest,     \* serial of the last version
    view,       \* the version the transaction of a thread looks at, or NoView
    seen,       \* seen[t][k] is the value t has read for k in its transaction
    pending     \* pending[t][k] is what t has written to k in its transaction

svars == <<versions, latest, view, seen, pending>>

NoneOf == [k \in Keys |-> Unset]

StoreInit ==
    /\ versions = [s \in {-1} |-> [k \in Keys |-> Absent]]
    /\ latest = -1
    /\ view = [t \in Threads |-> NoView]
    /\ seen = [t \in Threads |-> NoneOf]
    /\ pending = [t \in Threads |-> NoneOf]

\* A transaction starts and fixes the version it will look at.
StoreBegin(t) ==
    /\ view[t] = NoView
    /\ \E s \in -1..latest : view' = [view EXCEPT ![t] = s]
    /\ UNCHANGED <<versions, latest, seen, pending>>

\* Every value read is the one of that version.
StoreRead(t, k) ==
    /\ view[t] # NoView
    /\ seen' = [seen EXCEPT ![t][k] = versions[view[t]][k]]
    /\ UNCHANGED <<versions, latest, view, pending>>

StoreWrite(t, k) ==
    /\ view[t] # NoView
    /\ \E v \in Vals \cup {Deleted} :
            pending' = [pending EXCEPT ![t][k] = v]
    /\ UNCHANGED <<versions, latest, view, seen>>

Overlay(old, writes) ==
    [k \in Keys |-> IF writes[k] = Unset THEN old[k]
                    ELSE IF writes[k] = Deleted THEN Absent
                    ELSE writes[k]]

Forget(t) ==
    /\ seen' = [seen EXCEPT ![t] = NoneOf]
    /\ pending' = [pending EXCEPT ![t] = NoneOf]

\* A commit is only possible for a transaction which looks at the last
\* version: between its start and its commit nobody else has committed.
StoreCommit(t) ==
    /\ view[t] = latest
    /\ latest' = latest + 1
    /\ versions' = [s \in -1..latest + 1 |->
                        IF s = latest + 1
                        THEN Overlay(versions[latest], pending[t])
                        ELSE versions[s]]
    /\ view' = [view EXCEPT ![t] = NoView]
    /\ Forget(t)

\* A transaction ends without a new version, or is replaced by a later one.
StoreEnd(t) ==
    /\ \E s \in {NoView} \cup (-1..latest) : view' = [view EXCEPT ![t] = s]
    /\ Forget(t)
    /\ UNCHANGED <<versions, latest>>

\* The process dies: no transaction survives, every version does.
StoreCrash ==
    /\ view' = [t \in Threads |-> NoView]
    /\ seen' = [t \in Threads |-> NoneOf]
    /\ pending' = [t \in Threads |-> NoneOf]
    /\ UNCHANGED <<versions, latest>>

StoreNext ==
    \/ \E t \in Threads :
        \/ StoreBegin(t) \/ StoreCommit(t) \/ StoreEnd(t)
        \/ \E k \in Keys : StoreRead(t, k) \/ StoreWrite(t, k)
    \/ StoreCrash

StoreSpec == StoreInit /\ [][StoreNext]_svars
=============================================================================
