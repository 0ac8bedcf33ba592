----------------------------- MODULE MirrorLinks -----------------------------
(***************************************************************************)
(* The links of one project of a mirror on a primary: requests which       *)
(* answer from the database or fetch the links from the remote index       *)
(* (MirrorStage.get_simplelinks_perstage), the lock of the project         *)
(* (ProjectUpdateCache, ProjectUpdateLock, ProjectUpdateInnerLock), and    *)
(* tasks which store an answer that came too late.                         *)
(*                                                                         *)
(* The content of the project page is a version 1, 2, ...: its serial      *)
(* header and its ETag as well.  Nodes of the remote index may be behind.  *)
(* A request reads the database as of the beginning of its transaction     *)
(* (KeyFS).                                                                *)
(***************************************************************************)
EXTENDS Integers, FiniteSets, FiniteSetsExt

CONSTANTS
    Threads,        \* threads of the web server, and the notification thread
    Visitor,        \* one which asks for the links again and again
    MaxVersion,     \* bound: versions of the remote page
    LastRemoval,    \* bound: the last version of the remote page whose links are removed
    MaxLocks,       \* bound: inner locks created by the visitor, at one time
    MaxTasks        \* bound: tasks which wait for a late answer

ASSUME MirrorLinksConstants ==
    IsFiniteSet(Threads) /\ Visitor \in Threads /\ {MaxVersion, LastRemoval, MaxLocks, MaxTasks} \subseteq Nat \ {0}

NoLinks == 0        \* the key PROJSIMPLELINKS of the project does not exist, or is {}
Versions == 1 .. MaxVersion

\* An inner lock knows the thread which has created it (thread_ident).  It has an identity
\* only as long as something refers to it.
Locks == Threads \X (1 .. MaxLocks)
NoLock == <<>>      \* a wrapper without inner lock: a dummy
Nobody == "nobody"
Task == "task"

\* Owners of a lock which are no threads.
ASSUME MirrorLinksOwners == Nobody \notin Threads /\ Task \notin Threads

VARIABLES
    remote,         \* the version of the remote page
    stored,         \* the links in the database
    retrieved,      \* _project2time: whether the time is recent, and the ETag
    registered,     \* _project2lock: the inner lock of the project or NoLock
    owner,          \* who has acquired each inner lock
    thread,         \* requests
    tasks           \* _update_simplelinks_in_future: the lock, and for which answer it waits

vars == <<remote, stored, retrieved, registered, owner, thread, tasks>>
locking == <<registered, owner>>

\* Where a request is; the links it has read, and those its transaction sees after it was
\* restarted; the lock of this call; the locks which the finish listeners of the transaction
\* release; the ETag it has sent, then the version it has got.
NoRequest == [pc |-> "idle", snap |-> NoLinks, view |-> NoLinks, lock |-> NoLock,
              held |-> {}, page |-> 0]

Init ==
    /\ remote = 1 /\ stored = NoLinks
    /\ retrieved = [recent |-> FALSE, etag |-> 0]
    /\ registered = NoLock
    /\ owner = [l \in Locks |-> Nobody]
    /\ thread = [t \in Threads |-> NoRequest]
    /\ tasks = {}

-----------------------------------------------------------------------------
(* Locks.                                                                  *)

Refresh(etag) == retrieved' = [recent |-> TRUE, etag |-> etag]
Expire == retrieved' = [recent |-> FALSE, etag |-> 0]

\* The inner locks something still refers to: a wrapper, or a task.
Referred(th, ts) ==
    (UNION {th[t].held \cup {th[t].lock} : t \in Threads}) \cup {k.lock : k \in ts}

\* The locks a thread can create: identities nothing refers to.  Bound: a thread which is
\* not the visitor has one lock at a time.
Unused(t) ==
    {n \in 1 .. MaxLocks : /\ <<t, n>> \notin Referred(thread, tasks)
                           /\ t = Visitor \/ n = 1}

\* The locks and the weak dictionary, when some references are gone.
Collect(reg, own) ==
    LET left == Referred(thread', tasks') IN
    /\ registered' = IF reg \in left THEN reg ELSE NoLock
    /\ owner' = [l \in Locks |-> IF l \in left THEN own[l] ELSE Nobody]

Give(ls, who) == [l \in Locks |-> IF l \in ls THEN who ELSE owner[l]]

\* ProjectUpdateCache.acquire: the registered inner lock or a new one; none if it is locked
\* and was created by this thread.
Acquire(t) ==
    /\ thread[t].pc = "begun"
    /\ IF registered = NoLock
       THEN /\ Unused(t) # {}
            /\ registered' = <<t, CHOOSE n \in Unused(t) : TRUE>>
            /\ thread' = [thread EXCEPT ![t].pc = "wait", ![t].lock = registered']
       ELSE LET dummy == owner[registered] # Nobody /\ registered[1] = t IN
            /\ thread' = [thread EXCEPT ![t].pc = "wait",
                                        ![t].lock = IF dummy THEN NoLock ELSE registered]
            /\ UNCHANGED registered
    /\ UNCHANGED <<remote, stored, retrieved, owner, tasks>>

\* The lock is free, or a dummy.
Entering(t) ==
    /\ thread[t].pc = "wait"
    /\ thread[t].lock # NoLock => owner[thread[t].lock] = Nobody

\* What the finish listeners will release once it is acquired.
Entered(t) == thread[t].held \cup ({thread[t].lock} \ {NoLock})

-----------------------------------------------------------------------------
(* A request.                                                              *)

Begin(t) ==
    /\ thread[t].pc = "idle"
    /\ thread' = [thread EXCEPT ![t] =
            [NoRequest EXCEPT !.pc = "begun", !.snap = stored]]
    /\ UNCHANGED <<remote, stored, retrieved, locking, tasks>>

\* The request is answered and its transaction is finished, with some locks to release.
Answer(t, held, reg) ==
    /\ thread' = [thread EXCEPT ![t] = NoRequest]
    /\ Collect(reg, Give(held, Nobody))

Links(t) == thread[t].snap \in Versions     \* _load_cache_links: links is not None

\* Mutant: the lock stays in the dictionary.
WaitTimesOutKept(t) ==
    /\ thread[t].pc = "wait" /\ ~Entering(t)
    /\ UNCHANGED <<remote, stored, retrieved, tasks>>
    /\ Answer(t, thread[t].held, registered)

\* The lock was not free in time: whatever is registered by now is taken out.  The answer
\* are the links of the database, or an error.
WaitTimesOut(t) ==
    /\ thread[t].pc = "wait" /\ ~Entering(t)
    /\ UNCHANGED <<remote, stored, retrieved, tasks>>
    /\ Answer(t, thread[t].held, NoLock)

\* The links are recent enough: the lock is given back at once.
AnswerRecent(t) ==
    /\ Entering(t) /\ Links(t) /\ retrieved.recent
    /\ UNCHANGED <<remote, stored, retrieved, tasks>>
    /\ Answer(t, thread[t].held, registered)

\* There are no links, and the project was looked for recently.
AnswerCachedNotFound(t) ==
    /\ Entering(t) /\ ~Links(t) /\ retrieved.recent
    /\ UNCHANGED <<remote, stored, retrieved, tasks>>
    /\ Answer(t, Entered(t), registered)

\* There are no links any more, or none yet: has_project_perstage asks for the list of
\* projects when that has expired, which may take a while.
LookUp(t) ==
    /\ Entering(t) /\ ~Links(t) /\ ~retrieved.recent
    /\ thread' = [thread EXCEPT ![t].pc = "lookup", ![t].held = Entered(t)]
    /\ owner' = Give(Entered(t), t)
    /\ UNCHANGED <<remote, stored, retrieved, registered, tasks>>

\* The project is not in the list.
AnswerUnlisted(t) ==
    /\ thread[t].pc = "lookup"
    /\ Refresh(0)
    /\ UNCHANGED <<remote, stored, tasks>>
    /\ Answer(t, thread[t].held, registered)

\* The ETag which is sent: that of the last answer, or the one stored with the links.
Etag(t) == IF retrieved.etag # 0 THEN retrieved.etag ELSE thread[t].snap

\* The project is in the list, or its links were cleared: go remote.
FetchListed(t) ==
    /\ thread[t].pc = "lookup"
    /\ thread' = [thread EXCEPT ![t].pc = "fetch", ![t].page = Etag(t)]
    /\ UNCHANGED <<remote, stored, retrieved, locking, tasks>>

\* It is in a list which has changed: that has restarted the read transaction, and with the
\* first one the finish listeners have released the lock.
FetchRestarted(t) ==
    /\ thread[t].pc = "lookup"
    /\ thread' = [thread EXCEPT ![t].pc = "fetch", ![t].page = Etag(t), ![t].view = stored,
                                ![t].held = {}, ![t].lock = NoLock]
    /\ UNCHANGED <<remote, stored, retrieved, tasks>>
    /\ Collect(registered, Give(thread[t].held, Nobody))

\* The links have expired, or the cache was cleared: go remote.
Fetch(t) ==
    /\ Entering(t) /\ Links(t) /\ ~retrieved.recent
    /\ thread' = [thread EXCEPT ![t].pc = "fetch", ![t].held = Entered(t),
                                ![t].page = Etag(t)]
    /\ owner' = Give(Entered(t), t)
    /\ UNCHANGED <<remote, stored, retrieved, registered, tasks>>

-----------------------------------------------------------------------------
(* The answer of the remote index: _async_fetch_releaselinks.              *)

\* 304, from a node which has the page of this ETag: the links have not changed.
NotModified(t) ==
    /\ thread[t].pc = "fetch" /\ Links(t) /\ thread[t].page \in 1 .. remote
    /\ Refresh(thread[t].page)
    /\ UNCHANGED <<remote, stored, tasks>>
    /\ Answer(t, thread[t].held, registered)

\* 304, but there are no links: try again without ETag, with any lock still held.
NotModifiedWithoutLinks(t) ==
    /\ thread[t].pc = "fetch" /\ ~Links(t) /\ thread[t].page \in 1 .. remote
    /\ Unused(t) # {}
    /\ Expire
    /\ thread' = [thread EXCEPT ![t] =
            [NoRequest EXCEPT !.pc = "begun", !.snap = thread[t].view, !.held = thread[t].held]]
    /\ UNCHANGED <<remote, stored, locking, tasks>>

\* 404, from a node which is far behind: it is cached, but links of the database are the
\* answer all the same.
NotFound(t) ==
    /\ thread[t].pc = "fetch"
    /\ Refresh(0)
    /\ UNCHANGED <<remote, stored, tasks>>
    /\ Answer(t, thread[t].held, registered)

\* Another status, no connection, or a page older than the links there are.
FetchFails(t) ==
    /\ thread[t].pc = "fetch"
    /\ UNCHANGED <<remote, stored, retrieved, tasks>>
    /\ Answer(t, thread[t].held, registered)

\* 200, with a page whose serial is not before the one of the links, and whose ETag is not
\* the one that was sent.
Pages(links, etag) == (Max({1, links}) .. remote) \ {etag}

GotSame(t) ==
    /\ thread[t].pc = "fetch" /\ thread[t].snap \in Pages(thread[t].snap, thread[t].page)
    /\ Refresh(thread[t].snap)
    /\ UNCHANGED <<remote, stored, tasks>>
    /\ Answer(t, thread[t].held, registered)

GotChanges(t) ==
    /\ thread[t].pc = "fetch"
    /\ \E v \in Pages(thread[t].snap, thread[t].page) \ {thread[t].snap} :
        thread' = [thread EXCEPT ![t] =
            [NoRequest EXCEPT !.pc = "got", !.page = v, !.held = thread[t].held]]
    /\ UNCHANGED <<remote, stored, retrieved, locking, tasks>>

\* What a task which takes over a request remembers.
TaskOf(t) ==
    [lock |-> thread[t].lock, serial |-> thread[t].snap, etag |-> thread[t].page,
     awaits |-> TRUE]

\* Mutant: the wrapper keeps the lock it has given to the task.
FetchTimesOutShared(t) ==
    /\ thread[t].pc = "fetch" /\ Cardinality(tasks) < MaxTasks /\ thread[t].lock # NoLock
    /\ tasks' = tasks \cup {TaskOf(t)}
    /\ UNCHANGED <<remote, stored, retrieved>>
    /\ thread' = [thread EXCEPT ![t] = NoRequest]
    /\ Collect(registered, Give(thread[t].held, Nobody))

\* No answer in time: a task gets the lock and waits for the answer.
FetchTimesOut(t) ==
    /\ thread[t].pc = "fetch" /\ Cardinality(tasks) < MaxTasks /\ thread[t].lock # NoLock
    /\ tasks' = tasks \cup {TaskOf(t)}
    /\ UNCHANGED <<remote, stored, retrieved>>
    /\ thread' = [thread EXCEPT ![t] = NoRequest]
    /\ Collect(registered,
               [Give(thread[t].held, Nobody) EXCEPT ![thread[t].lock] = Task])

\* The same in a nested call or after a restart, without a lock to give: the task fails when
\* it stores the links (None has no release), and the late answer is lost.
FetchTimesOutUnlocked(t) ==
    /\ thread[t].pc = "fetch" /\ thread[t].lock = NoLock
    /\ UNCHANGED <<remote, stored, retrieved, tasks>>
    /\ Answer(t, thread[t].held, registered)

-----------------------------------------------------------------------------
(* Storing new links.                                                      *)

\* _save_cache_links and its on_commit, which is not called when nothing is to be committed.
Save(v) ==
    /\ stored' = v
    /\ IF v = stored THEN UNCHANGED retrieved ELSE Refresh(v)

\* The read transaction is restarted as a write transaction: it is committed first, which
\* runs its finish listeners, and these release the lock.
Restart(t) ==
    /\ thread[t].pc = "got"
    /\ thread' = [thread EXCEPT ![t].pc = "update", ![t].held = {}, ![t].lock = NoLock]
    /\ UNCHANGED <<remote, stored, retrieved, tasks>>
    /\ Collect(registered, Give(thread[t].held, Nobody))

\* _update_simplelinks: the write transaction, up to the commit at its end.
UpdateLinks(t) ==
    /\ thread[t].pc = "update"
    /\ Save(thread[t].page)
    /\ thread' = [thread EXCEPT ![t] = NoRequest]
    /\ UNCHANGED <<remote, locking, tasks>>

\* _update_simplelinks_in_future, when the answer has come at last: stored without looking
\* at the serial of the links which are in the database by now.
LateAnswer ==
    \E k \in tasks :
        /\ k.awaits
        /\ \E v \in Pages(k.serial, k.etag) : Save(v)
        /\ tasks' = tasks \ {k}
        /\ UNCHANGED <<remote, thread>>
        /\ Collect(registered, Give({k.lock}, Nobody))

\* A late 404 is cached; as after any other error the task waits for ever, with the lock.
LateNotFound ==
    \E k \in tasks :
        /\ k.awaits
        /\ Refresh(0)
        /\ tasks' = (tasks \ {k}) \cup {[lock |-> k.lock, serial |-> 0, etag |-> 0, awaits |-> FALSE]}
        /\ UNCHANGED <<remote, stored, locking, thread>>

-----------------------------------------------------------------------------
(* What else happens.                                                      *)

RemoteChanges ==
    /\ remote < MaxVersion
    /\ remote' = remote + 1
    /\ UNCHANGED <<stored, retrieved, locking, thread, tasks>>

TimePasses ==
    /\ retrieved.recent
    /\ retrieved' = [retrieved EXCEPT !.recent = FALSE]
    /\ UNCHANGED <<remote, stored, locking, thread, tasks>>

\* del_project and clear_simplelinks_cache, in a write transaction.
RemoveLinks ==
    /\ stored # NoLinks /\ remote <= LastRemoval
    /\ stored' = NoLinks
    /\ Expire
    /\ UNCHANGED <<remote, locking, thread, tasks>>

Continue(t) ==
    \/ Acquire(t) \/ WaitTimesOut(t)
    \/ AnswerRecent(t) \/ AnswerCachedNotFound(t) \/ Fetch(t)
    \/ LookUp(t) \/ AnswerUnlisted(t) \/ FetchListed(t) \/ FetchRestarted(t)
    \/ NotModified(t) \/ NotModifiedWithoutLinks(t) \/ NotFound(t) \/ FetchFails(t)
    \/ GotSame(t) \/ GotChanges(t) \/ FetchTimesOut(t) \/ FetchTimesOutUnlocked(t)
    \/ Restart(t) \/ UpdateLinks(t)

Next ==
    \/ \E t \in Threads : Begin(t) \/ Continue(t)
    \/ LateAnswer \/ LateNotFound
    \/ RemoteChanges \/ TimePasses \/ RemoveLinks

Spec == Init /\ [][Next]_vars

\* Time passes and requests which have begun go on.  One thread makes requests forever;
\* when these could be sent to the remote index again and again some are, and some of them
\* are answered with its current page.  A task may wait forever: nothing fills its future
\* when the late answer is an error.
FairSpec ==
    /\ Spec
    /\ WF_vars(TimePasses)
    /\ \A t \in Threads : WF_vars(Continue(t))
    /\ WF_vars(Begin(Visitor))
    /\ SF_vars(\E t \in Threads : Fetch(t) \/ FetchListed(t) \/ FetchRestarted(t))
    /\ SF_vars(\E t \in Threads : GotChanges(t) /\ thread'[t].page = remote)

-----------------------------------------------------------------------------
(* Properties.                                                             *)

TypeOK ==
    /\ remote \in Versions /\ stored \in 0 .. MaxVersion
    /\ retrieved \in [recent : BOOLEAN, etag : 0 .. MaxVersion]
    /\ registered \in Locks \cup {NoLock}
    /\ owner \in [Locks -> Threads \cup {Nobody, Task}]
    /\ thread \in [Threads ->
            [pc : {"idle", "begun", "wait", "lookup", "fetch", "got", "update"},
             snap : 0 .. MaxVersion, view : 0 .. MaxVersion, page : 0 .. MaxVersion,
             lock : Locks \cup {NoLock}, held : SUBSET Locks]]
    /\ tasks \subseteq [lock : Locks, serial : 0 .. MaxVersion, etag : 0 .. MaxVersion,
                       awaits : BOOLEAN]

\* Whoever has acquired an inner lock, a transaction or a task, is the only one who will
\* release it: a lock is never released twice, which raises in a finish listener, or
\* behind the back of its holder (defer, release, on_finished).
OneReleasePerLock ==
    \A l \in Locks :
        Cardinality({t \in Threads : l \in thread[t].held}) + Cardinality({k \in tasks : k.lock = l})
            = IF owner[l] = Nobody THEN 0 ELSE 1

\* The locks of a transaction and of a task are those it has acquired.
HeldIsOwned ==
    /\ \A t \in Threads, l \in Locks : l \in thread[t].held <=> owner[l] = t
    /\ \A l \in Locks : owner[l] = Task <=> \E k \in tasks : k.lock = l
    /\ \A k, m \in tasks : k.lock = m.lock => k = m

\* Locks are acquired on the way to the remote index and released before links are stored.
LocksWhileFetching ==
    \A t \in Threads :
        /\ thread[t].pc \in {"idle", "update"} => thread[t].held = {}
        /\ thread[t].pc \in {"lookup", "fetch"} /\ thread[t].lock # NoLock =>
                thread[t].lock \in thread[t].held

IInv == TypeOK /\ HeldIsOwned /\ LocksWhileFetching

\* "Cached not found" is answered only for a project whose last answer from the remote
\* index was not a page.
NoFalseNotFound ==
    [][\A t \in Threads : AnswerCachedNotFound(t) => retrieved.etag = 0]_vars

\* The ETag of the current page is remembered while the links of an older one are stored.
EtagAhead == stored \in Versions \ {MaxVersion} /\ retrieved.etag = MaxVersion

\* The current page is stored in the end, whatever times out or is never answered.  The one
\* exception: two updates have ended in the wrong order, and a request which has read the
\* newer links between them learns afterwards that these are current.  From then on the
\* remote index answers 304 to the ETag of a page which is no longer stored.
CatchesUp == []<>(remote = MaxVersion => stored = MaxVersion \/ EtagAhead)

\* Without the exception, which the code does not promise.
AlwaysCatchesUp == []<>(remote = MaxVersion => stored = MaxVersion)
=============================================================================
