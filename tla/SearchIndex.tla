----------------------------- MODULE SearchIndex -----------------------------
(***************************************************************************)
(* The search index of devpi-web for the projects of one private index:    *)
(* subscribers of the notification thread queue projects, the indexer      *)
(* thread brings the documents of a queued project in line with the        *)
(* database, and after a start all projects are queued once                *)
(* (IndexingSharedData, IndexerThread, InitialQueueThread).                *)
(*                                                                         *)
(* The documents and the event serial are on disk, the queues are in       *)
(* memory.  The notification thread delivers serials in order and after a  *)
(* kill repeats at most one of them (Notifier).                            *)
(***************************************************************************)
EXTENDS Naturals, Sequences, FiniteSets

CONSTANTS
    Projects,       \* known by their normalized names
    MaxSerial,      \* bound: commits
    MaxCrashes      \* bound: kills

ASSUME SearchIndexConstants ==
    /\ IsFiniteSet(Projects)
    /\ {MaxSerial, MaxCrashes} \subseteq Nat

VARIABLES
    respelled,      \* the projects whose metadata has another spelling of the name
    history,        \* the database as of each serial
    stored,         \* the serials whose documentation file is in place
    \* the disk of the search index
    event,          \* how many serials have been processed, .event_serial
    documents,      \* the main document of each project
    \* the process
    queue,          \* IndexingSharedData.queue
    errors,         \* IndexingSharedData.error_queue, the names
    indexer,        \* what the indexer thread handles, and the serial of its transaction
    initial,        \* what InitialQueueThread has not queued yet
    crashes,
    \* history
    strays          \* projects whose documents no deletion has found, for a reason

database == <<respelled, history, stored>>
process == <<queue, errors, indexer, initial>>
vars == <<database, event, documents, process, crashes, strays>>

NoDocument == [serial |-> 0, docs |-> FALSE]
Idle == [serial |-> 0, names |-> {}]
NotStarted == [serial |-> 0, rest |-> {}]

\* A project: the serial of its last change, whether it exists, the serial which has stored
\* its documentation or 0, whether there is a version without documentation.
NoProject == [change |-> 0, exists |-> FALSE, docs |-> 0, plainVersion |-> FALSE]
Deleted(serial) == [NoProject EXCEPT !.change = serial]

Now == Len(history) - 1         \* KeyFS.get_current_serial, the database begins with serial 0
At(n) == history[n + 1]
LatestAt(p, n) == At(n).project[p].change
ExistsAt(p, n) == At(n).project[p].exists
DocsAt(p, n) == At(n).project[p].docs
Changed(s) == {p \in Projects : LatestAt(p, s) = s}

\* A project is queued with its normalized name (plain) or as its metadata spells it.  The
\* serial is for the order of the queue only.
Item(p, serial, plain) == [project |-> p, serial |-> serial, plain |-> plain]
Name(item) == <<item.project, item.plain>>

Init ==
    /\ respelled \in SUBSET Projects /\ stored = {}
    /\ history = <<[stage |-> TRUE, project |-> [p \in Projects |-> NoProject]]>>
    /\ event = 0 /\ documents = [p \in Projects |-> NoDocument]
    /\ queue = {} /\ errors = {} /\ indexer = Idle /\ initial = NotStarted
    /\ crashes = 0 /\ strays = {}

-----------------------------------------------------------------------------
(* The server.                                                             *)

Commit(db) ==
    /\ Now < MaxSerial
    /\ history' = Append(history, db)
    /\ UNCHANGED <<respelled, stored, event, documents, process, crashes, strays>>

\* A version is registered, documentation is uploaded, a version with documentation is
\* deleted while another one stays, the project is deleted.
ChangeProject(p) ==
    LET db == At(Now)
        old == db.project[p]
        serial == Now + 1
        Becomes(new) == Commit([db EXCEPT !.project[p] = new])
    IN  \/ db.stage /\ Becomes([old EXCEPT !.change = serial, !.exists = TRUE,
                                            !.plainVersion = TRUE])
        \/ db.stage /\ Becomes([old EXCEPT !.change = serial, !.exists = TRUE, !.docs = serial])
        \/ /\ old.docs # 0 /\ old.plainVersion
           /\ Becomes([old EXCEPT !.change = serial, !.docs = 0])
        \/ old.exists /\ Becomes(Deleted(serial))

DeleteIndex ==
    /\ At(Now).stage
    /\ Commit([stage |-> FALSE, project |-> [p \in Projects |->
            IF ExistsAt(p, Now) THEN Deleted(Now + 1) ELSE At(Now).project[p]]])

CreateIndex == ~At(Now).stage /\ Commit([At(Now) EXCEPT !.stage = TRUE])

\* A documentation file comes into place after the commit (FileCommit).
FileArrives(p) ==
    LET s == DocsAt(p, Now) IN
    /\ s # 0 /\ s \notin stored
    /\ stored' = stored \cup {s}
    /\ UNCHANGED <<respelled, history, event, documents, process, crashes, strays>>

-----------------------------------------------------------------------------
(* The subscribers.                                                        *)

\* on_changed_version_config passes the stage as of the serial and the name the metadata
\* has, on_changed_file_entry the normalized one.  Each leads to queue_projects, whether
\* the project is to be indexed or deleted.
Subscribers(s) ==
    IF At(s).stage
    THEN {Item(p, s, p \notin respelled) : p \in Changed(s)}
         \cup {Item(p, s, TRUE) : p \in {q \in Changed(s) : DocsAt(q, s) = s /\ s \in stored}}
    ELSE {}

\* The notification thread waits for the file of the serial unless its key has been deleted.
Deliver ==
    /\ event < Now
    /\ LET s == event + 1 IN
        /\ s \in stored \/ \A p \in Projects : DocsAt(p, Now) # s
        /\ queue' = queue \cup Subscribers(s)
        /\ strays' = IF At(s).stage THEN strays ELSE strays \cup Changed(s)
    /\ event' = event + 1
    /\ UNCHANGED <<database, documents, errors, indexer, initial, crashes>>

-----------------------------------------------------------------------------
(* The threads.                                                            *)

\* InitialQueueThread, in one read transaction.
InitialBegin ==
    /\ initial = NotStarted
    /\ initial' = [serial |-> Now + 1, rest |-> {p \in Projects : ExistsAt(p, Now)}]
    /\ UNCHANGED <<database, event, documents, queue, errors, indexer, crashes, strays>>

InitialNext(p) ==
    /\ p \in initial.rest
    /\ initial' = [initial EXCEPT !.rest = @ \ {p}]
    /\ queue' = queue \cup {Item(p, initial.serial - 1, TRUE)}
    /\ UNCHANGED <<database, event, documents, errors, indexer, crashes, strays>>

\* Mutant: the project is read as of the serial of the item.
HandleAtItem(name, serial) == indexer' = [serial |-> serial + 1, names |-> {name}]

\* IndexerThread.handler begins a read transaction.
Handle(name, serial) == indexer' = [serial |-> Now + 1, names |-> {name}]

\* process_next: the newest serial first.
TakeNext ==
    /\ indexer = Idle
    /\ \E item \in queue :
        /\ \A other \in queue : other.serial <= item.serial
        /\ queue' = queue \ {item}
        /\ Handle(Name(item), item.serial)
    /\ UNCHANGED <<database, event, documents, errors, initial, crashes, strays>>

\* process_next_errored: an item which is due, when the queue has been empty for a while.
TakeErrored ==
    /\ indexer = Idle /\ queue = {}
    /\ \E name \in errors : errors' = errors \ {name} /\ Handle(name, Now)
    /\ UNCHANGED <<database, event, documents, queue, initial, crashes, strays>>

\* Mutant: only the serial decides.
NeedsReindexBySerial(existing, docs, serial) ==
    existing = NoDocument \/ existing.serial < serial

\* _update_project: the documents are left alone when they are not older and tell of
\* documentation as the project does.
NeedsReindex(existing, docs, serial) ==
    existing = NoDocument \/ existing.serial < serial \/ existing.docs # docs

\* The documentation is there when its file is, which may have been removed since the
\* beginning of the transaction (Docs.exists).
HasDocs(p, n) ==
    LET s == DocsAt(p, n) IN
    {s \in stored} \cup IF s = DocsAt(p, Now) THEN {} ELSE {FALSE}

\* preprocess_project finds the project: _update_project.
Update(p, n) ==
    /\ ExistsAt(p, n)
    /\ \E docs \in HasDocs(p, n) :
        documents' = IF NeedsReindex(documents[p], docs, n + 1)
                     THEN [documents EXCEPT ![p] = [serial |-> n + 1, docs |-> docs]]
                     ELSE documents
    /\ strays' = IF LatestAt(p, Now) <= n THEN strays \ {p} ELSE strays

\* The project or the index is not there: _delete_project, which looks for the path with
\* the name as it was queued.
Delete(p, n, plain) ==
    /\ ~ExistsAt(p, n)
    /\ documents' = IF plain THEN [documents EXCEPT ![p] = NoDocument] ELSE documents
    /\ strays' = IF documents'[p] # NoDocument THEN strays \cup {p}
                 ELSE IF LatestAt(p, Now) <= n THEN strays \ {p} ELSE strays

\* The handler commits its writer.
Write ==
    /\ \E name \in indexer.names :
        LET n == indexer.serial - 1 IN
        Update(name[1], n) \/ Delete(name[1], n, name[2])
    /\ indexer' = Idle
    /\ UNCHANGED <<database, event, queue, errors, initial, crashes>>

\* The handler raises, for example when a file vanishes while it is read: add_errored.
Fail ==
    /\ indexer # Idle
    /\ indexer' = Idle /\ errors' = errors \cup indexer.names
    /\ UNCHANGED <<database, event, documents, queue, initial, crashes, strays>>

\* The projects in the queues or in the hands of the indexer thread.
Unfinished ==
    {item.project : item \in queue} \cup {name[1] : name \in errors \cup indexer.names}

\* A kill: the queues are lost, and only projects which exist are queued again.  When the
\* last event serial has not been written yet, the subscribers will be called again.
Crash ==
    /\ crashes < MaxCrashes
    /\ crashes' = crashes + 1
    /\ event' \in {event} \cup {s \in 0 .. Now : s + 1 = event}
    /\ queue' = {} /\ errors' = {} /\ indexer' = Idle /\ initial' = NotStarted
    /\ strays' = strays \cup
            {p \in Unfinished : ~ExistsAt(p, Now) /\ LatestAt(p, Now) <= event'}
    /\ UNCHANGED <<database, documents>>

-----------------------------------------------------------------------------
Indexer == TakeNext \/ TakeErrored \/ Write

Next ==
    \/ DeleteIndex \/ CreateIndex
    \/ \E p \in Projects : ChangeProject(p) \/ FileArrives(p)
    \/ Deliver
    \/ InitialBegin \/ \E p \in Projects : InitialNext(p)
    \/ Indexer \/ Fail \/ Crash

Spec == Init /\ [][Next]_vars

\* Files arrive, threads go on, and what is tried again and again succeeds in the end.
FairSpec ==
    /\ Spec
    /\ \A p \in Projects : WF_vars(FileArrives(p))
    /\ WF_vars(Deliver)
    /\ WF_vars(InitialBegin \/ \E p \in Projects : InitialNext(p))
    /\ WF_vars(Indexer) /\ SF_vars(Write)

-----------------------------------------------------------------------------
(* Properties.                                                             *)

ProjectState == [change : Nat, exists : BOOLEAN, docs : Nat, plainVersion : BOOLEAN]
Database == [stage : BOOLEAN, project : [Projects -> ProjectState]]

TypeOK ==
    /\ respelled \subseteq Projects /\ stored \subseteq 1 .. Now
    /\ history \in Seq(Database) /\ Now \in 0 .. MaxSerial
    /\ event \in 0 .. Now
    /\ documents \in [Projects -> [serial : 0 .. Now + 1, docs : BOOLEAN]]
    /\ queue \subseteq [project : Projects, serial : 0 .. Now, plain : BOOLEAN]
    /\ errors \cup indexer.names \subseteq Projects \X BOOLEAN
    /\ indexer \in [serial : 0 .. Now + 1, names : SUBSET (Projects \X BOOLEAN)]
    /\ initial \in [serial : 0 .. Now + 1, rest : SUBSET Projects]
    /\ crashes \in 0 .. MaxCrashes /\ strays \subseteq Projects

\* The documents of a project are those of its last change, and tell of documentation which
\* is there.
Agrees(p) ==
    IF ExistsAt(p, Now)
    THEN /\ documents[p].serial > LatestAt(p, Now)
         /\ documents[p].docs = (DocsAt(p, Now) \in stored)
    ELSE documents[p] = NoDocument

\* Something is still to be done for a project.
Pending(p) ==
    \/ event < LatestAt(p, Now)
    \/ p \in {item.project : item \in queue} \cup {name[1] : name \in errors}
    \/ p \in {name[1] : name \in indexer.names} /\ indexer.serial > LatestAt(p, Now)
    \/ initial = NotStarted /\ ExistsAt(p, Now)
    \/ p \in initial.rest

\* What the search finds is the project as it is, or somebody is going to look at the
\* project: no order of events, retries, indexing with the latest metadata, late files or
\* kill makes the index miss the last change of a project which exists, or the deletion of
\* one unless that was lost in a kill, came with its index or found another spelling.
DocumentsFollow ==
    \A p \in Projects : Agrees(p) \/ Pending(p) \/ (p \in strays /\ ~ExistsAt(p, Now))

\* The database: a project stays as it is from its last change on, documentation is older
\* and only of a project which exists, and without the index there are no projects.
HistoryInOrder ==
    \A p \in Projects, n \in 0 .. Now :
        /\ LatestAt(p, n) <= n /\ DocsAt(p, n) <= LatestAt(p, n)
        /\ LatestAt(p, Now) <= n => At(n).project[p] = At(Now).project[p]
        /\ DocsAt(p, n) # 0 => ExistsAt(p, n)
        /\ ExistsAt(p, n) => At(n).stage

\* The notification thread is not past a file which is not in place.
FilesAwaited ==
    \A p \in Projects : DocsAt(p, Now) \in 1 .. event => DocsAt(p, Now) \in stored

\* The indexer thread handles one name, in a transaction which is not older than any
\* document.  What is changed after its beginning will be queued.
OneTransaction ==
    /\ \A a, b \in indexer.names : a = b
    /\ indexer.names # {} => \A p \in Projects :
        /\ documents[p].serial <= indexer.serial
        /\ indexer.serial <= LatestAt(p, Now) =>
            \/ event < LatestAt(p, Now) \/ \E item \in queue : item.project = p
            \/ p \in strays /\ ~ExistsAt(p, Now)

\* The initial queue is of no help with a project which has been deleted since.
Followed ==
    \A p \in Projects :
        \/ Agrees(p) \/ (p \in strays /\ ~ExistsAt(p, Now))
        \/ Pending(p) /\ (ExistsAt(p, Now) \/ event < LatestAt(p, Now) \/ p \in Unfinished)

\* Nothing is queued by a thread which has not started.
RestAfterStart == initial.rest # {} => initial.serial # 0

\* The inductive invariant.
IInv == TypeOK /\ RestAfterStart /\ HistoryInOrder /\ FilesAwaited /\ OneTransaction /\ Followed

\* In the end the documents agree with every project.
SearchCatchesUp ==
    \A p \in Projects : []<>(Agrees(p) \/ (p \in strays /\ ~ExistsAt(p, Now)))

\* A deleted project is not found any more once the queue is empty (test_search_deleted_package,
\* test_search_deleted_stage).
DeletedNotFound ==
    event = Now /\ Unfinished = {} =>
        \A p \in Projects : ExistsAt(p, Now) \/ documents[p] = NoDocument
==============================================================================
