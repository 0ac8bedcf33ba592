---------------------------- MODULE MirrorProofs ----------------------------
(***************************************************************************)
(* Proofs about the two sides of a mirror.                                 *)
(*                                                                         *)
(* MirrorLinks: the locks of its projects, for every set of threads and    *)
(* any number of versions, nested calls, locks and tasks.                  *)
(*                                                                         *)
(* MirrorFiles: its files, entries, links and list of projects agree, for  *)
(* any number of files, versions and clients.                              *)
(***************************************************************************)
EXTENDS MirrorLinks, MirrorFiles, FiniteSetTheorems, TLAPS

-----------------------------------------------------------------------------
(* Helpers.                                                                *)

\* The dummy is no lock, and an owner is nobody, a task or a thread.
LEMMA Kinds ==
    /\ NoLock \notin Locks
    /\ Nobody # Task /\ Nobody \notin Threads /\ Task \notin Threads
BY MirrorLinksOwners DEF NoLock, Locks, Nobody, Task

\* Giving locks to somebody changes these locks only.
LEMMA GiveLocks ==
    ASSUME TypeOK, NEW STATE ls, NEW STATE who
    PROVE  /\ \A l \in Locks : Give(ls, who)[l] = IF l \in ls THEN who ELSE owner[l]
           /\ DOMAIN Give(ls, who) = Locks
BY DEF Give

LEMMA Refers ==
    ASSUME NEW th, NEW ts
    PROVE  /\ \A t \in Threads : th[t].held \subseteq Referred(th, ts)
           /\ \A k \in ts : k.lock \in Referred(th, ts)
<1>1. ASSUME NEW t \in Threads, NEW l \in th[t].held
      PROVE  l \in Referred(th, ts)
  <2>1. l \in th[t].held \cup {th[t].lock}
    OBVIOUS
  <2>2. l \in UNION {th[u].held \cup {th[u].lock} : u \in Threads}
    BY <2>1
  <2> QED
    BY <2>2 DEF Referred
<1>2. ASSUME NEW k \in ts
      PROVE  k.lock \in Referred(th, ts)
  <2> DEFINE Requests == UNION {th[u].held \cup {th[u].lock} : u \in Threads}
  <2>1. Referred(th, ts) = Requests \cup {m.lock : m \in ts}
    BY DEF Referred
  <2> HIDE DEF Requests
  <2> QED
    BY <2>1
<1> QED
  BY <1>1, <1>2

\* Collecting garbage frees no lock which is referred to.
LEMMA Collected ==
    ASSUME NEW STATE reg, reg \in Locks \cup {NoLock}, NEW STATE own, Collect(reg, own)
    PROVE  /\ registered' \in Locks \cup {NoLock}
           /\ \A l \in Locks :
                /\ owner'[l] = own[l] \/ owner'[l] = Nobody
                /\ \A t \in Threads : l \in thread'[t].held => owner'[l] = own[l]
                /\ \A k \in tasks' : l = k.lock => owner'[l] = own[l]
           /\ owner' = [l \in Locks |-> owner'[l]]
<1> DEFINE left == Referred(thread', tasks')
<1>1. /\ registered' = IF reg \in left THEN reg ELSE NoLock
      /\ owner' = [l \in Locks |-> IF l \in left THEN own[l] ELSE Nobody]
  BY DEF Collect
<1>2. \A t \in Threads : thread'[t].held \subseteq left
  BY Refers
<1>3. \A k \in tasks' : k.lock \in left
  BY Refers
<1> HIDE DEF left
<1>4. \A l \in Locks : owner'[l] = IF l \in left THEN own[l] ELSE Nobody
  BY <1>1
<1>5. owner' = [l \in Locks |-> owner'[l]]
  BY <1>1
<1> QED
  BY <1>1, <1>2, <1>3, <1>4, <1>5

\* The record of a request, and of a task.
RequestRecord ==
    [pc : {"idle", "begun", "wait", "lookup", "fetch", "got", "update"},
     snap : 0 .. MaxVersion, view : 0 .. MaxVersion, page : 0 .. MaxVersion,
     lock : Locks \cup {NoLock}, held : SUBSET Locks]
TaskRecord == [lock : Locks, serial : 0 .. MaxVersion, etag : 0 .. MaxVersion, awaits : BOOLEAN]

LEMMA RequestType ==
    ASSUME TypeOK, NEW t \in Threads
    PROVE  /\ thread \in [Threads -> RequestRecord] /\ thread[t] \in RequestRecord
           /\ thread[t].pc \in {"idle", "begun", "wait", "lookup", "fetch", "got", "update"}
           /\ thread[t].snap \in 0 .. MaxVersion /\ thread[t].page \in 0 .. MaxVersion
           /\ thread[t].view \in 0 .. MaxVersion
           /\ thread[t].lock \in Locks \cup {NoLock} /\ thread[t].held \in SUBSET Locks
           /\ retrieved.etag \in 0 .. MaxVersion
           /\ MaxVersion \in Nat /\ 0 \in 0 .. MaxVersion
<1>1. /\ thread \in [Threads -> RequestRecord] /\ MaxVersion \in Nat
      /\ retrieved.etag \in 0 .. MaxVersion
  BY MirrorLinksConstants DEF TypeOK, RequestRecord
<1> QED
  BY <1>1 DEF RequestRecord

LEMMA NoRequestType ==
    /\ NoRequest \in RequestRecord /\ NoRequest.held = {} /\ NoRequest.pc = "idle"
    /\ NoRequest.lock = NoLock
BY MirrorLinksConstants DEF NoRequest, RequestRecord, NoLinks

\* One request goes on.
LEMMA ThreadType ==
    ASSUME TypeOK, NEW t \in Threads, NEW r \in RequestRecord,
           thread' = [thread EXCEPT ![t] = r]
    PROVE  /\ thread' \in [Threads -> RequestRecord] /\ thread'[t] = r
           /\ \A u \in Threads : u # t => thread'[u] = thread[u]
BY RequestType

\* The type invariant from its parts.
LEMMA Typed ==
    ASSUME TypeOK, remote' \in Versions, stored' \in 0 .. MaxVersion,
           UNCHANGED retrieved \/ \E e \in 0 .. MaxVersion : Refresh(e) \/ Expire,
           registered' \in Locks \cup {NoLock},
           owner' \in [Locks -> Threads \cup {Nobody, Task}],
           thread' \in [Threads -> RequestRecord], tasks' \subseteq TaskRecord
    PROVE  TypeOK'
<1>1. retrieved' \in [recent : BOOLEAN, etag : 0 .. MaxVersion]
  <2>1. CASE UNCHANGED retrieved
    BY <2>1 DEF TypeOK
  <2>2. ASSUME NEW e \in 0 .. MaxVersion, Refresh(e)
        PROVE  retrieved' \in [recent : BOOLEAN, etag : 0 .. MaxVersion]
    BY <2>2 DEF Refresh
  <2>3. CASE Expire
    BY <2>3, MirrorLinksConstants DEF Expire
  <2> QED
    BY <2>1, <2>2, <2>3
<1> QED
  BY <1>1 DEF TypeOK, RequestRecord, TaskRecord

-----------------------------------------------------------------------------
(* Steps which release locks.                                              *)

\* A request has released what it had, and perhaps a lock nobody had, and refers to none.
LEMMA ReleaseStep ==
    ASSUME IInv, NEW t \in Threads, NEW STATE S, NEW STATE reg, reg \in Locks \cup {NoLock},
           thread[t].held \subseteq S,
           \A l \in Locks : l \in S => l \in thread[t].held \/ owner[l] = Nobody,
           \A u \in Threads : u # t => thread'[u] = thread[u],
           thread'[t].held = {}, thread'[t].lock = NoLock,
           tasks' = tasks,
           Collect(reg, Give(S, Nobody))
    PROVE  /\ registered' \in Locks \cup {NoLock}
           /\ owner' \in [Locks -> Threads \cup {Nobody, Task}]
           /\ HeldIsOwned' /\ LocksWhileFetching'
<1> DEFINE own == Give(S, Nobody)
<1>1. TypeOK /\ HeldIsOwned /\ LocksWhileFetching
  BY DEF IInv
<1>2. \A l \in Locks : own[l] = IF l \in S THEN Nobody ELSE owner[l]
  BY <1>1, GiveLocks
<1> HIDE DEF own
<1>3. /\ registered' \in Locks \cup {NoLock}
      /\ \A l \in Locks :
            /\ owner'[l] = own[l] \/ owner'[l] = Nobody
            /\ \A u \in Threads : l \in thread'[u].held => owner'[l] = own[l]
            /\ \A k \in tasks : l = k.lock => owner'[l] = own[l]
      /\ owner' = [l \in Locks |-> owner'[l]]
  BY Collected DEF own
<1>4. \A l \in Locks : owner[l] \in Threads \cup {Nobody, Task}
  BY <1>1 DEF TypeOK
<1>5. owner' \in [Locks -> Threads \cup {Nobody, Task}]
  BY <1>2, <1>3, <1>4
<1>6. \A u \in Threads, l \in Locks : l \in thread'[u].held <=> owner'[l] = u
  <2> SUFFICES ASSUME NEW u \in Threads, NEW l \in Locks
               PROVE  l \in thread'[u].held <=> owner'[l] = u
    OBVIOUS
  <2>1. \A v \in Threads : l \in thread[v].held <=> owner[l] = v
    BY <1>1 DEF HeldIsOwned
  <2>2. CASE u = t
    <3>1. owner'[l] # t
      BY <1>2, <1>3, <2>1, Kinds
    <3> QED
      BY <2>2, <3>1
  <2>3. CASE u # t
    <3>1. ASSUME l \in thread[u].held
          PROVE  owner'[l] = u
      BY <1>2, <1>3, <2>1, <2>3, <3>1, Kinds
    <3>2. ASSUME owner'[l] = u
          PROVE  l \in thread[u].held
      BY <1>2, <1>3, <2>1, <3>2, Kinds
    <3> QED
      BY <2>3, <3>1, <3>2
  <2> QED
    BY <2>2, <2>3
<1>7. \A l \in Locks : owner'[l] = Task <=> \E k \in tasks : k.lock = l
  <2> SUFFICES ASSUME NEW l \in Locks
               PROVE  owner'[l] = Task <=> \E k \in tasks : k.lock = l
    OBVIOUS
  <2>1. owner[l] = Task <=> \E k \in tasks : k.lock = l
    BY <1>1 DEF HeldIsOwned
  <2>2. l \in thread[t].held => owner[l] = t
    BY <1>1 DEF HeldIsOwned
  <2>3. ASSUME owner[l] = Task
        PROVE  owner'[l] = Task
    BY <1>2, <1>3, <2>1, <2>2, <2>3, Kinds
  <2>4. ASSUME owner'[l] = Task
        PROVE  owner[l] = Task
    BY <1>2, <1>3, <2>4, Kinds
  <2> QED
    BY <2>1, <2>3, <2>4
<1>8. HeldIsOwned'
  BY <1>1, <1>6, <1>7 DEF HeldIsOwned
<1>9. LocksWhileFetching'
  BY <1>1 DEF LocksWhileFetching
<1> QED
  BY <1>3, <1>5, <1>8, <1>9

\* The page of an answer is one of the remote index.
LEMMA PagesType ==
    ASSUME TypeOK, NEW s \in 0 .. MaxVersion, NEW e, NEW v \in Pages(s, e)
    PROVE  v \in 1 .. MaxVersion /\ v >= s /\ v \in 0 .. MaxVersion
<1>1. {1, s} \subseteq Int
  OBVIOUS
<1>2. Max({1, s}) \in {1, s} /\ Max({1, s}) >= 1 /\ Max({1, s}) >= s
  <2> DEFINE m == IF s >= 1 THEN s ELSE 1
  <2>1. m \in {1, s} /\ m >= 1 /\ m >= s
    OBVIOUS
  <2> HIDE DEF m
  <2>2. \E x \in {1, s} : \A y \in {1, s} : x >= y
    BY <2>1
  <2>3. /\ Max({1, s}) \in {1, s}
        /\ \A y \in {1, s} : Max({1, s}) >= y
    BY <2>2 DEF Max
  <2> QED
    BY <2>3
<1>3. v \in Max({1, s}) .. remote /\ remote \in 1 .. MaxVersion /\ MaxVersion \in Nat
  BY MirrorLinksConstants DEF Pages, TypeOK, Versions
<1> QED
  BY <1>2, <1>3

\* The request is answered and its locks are released.
LEMMA AnswerStep ==
    ASSUME IInv, NEW t \in Threads, NEW STATE S, NEW STATE reg, reg \in Locks \cup {NoLock},
           S = thread[t].held \/ (S = Entered(t) /\ Entering(t)),
           Answer(t, S, reg), UNCHANGED <<remote, stored, tasks>>,
           UNCHANGED retrieved \/ \E e \in 0 .. MaxVersion : Refresh(e)
    PROVE  IInv'
<1>1. TypeOK /\ HeldIsOwned
  BY DEF IInv
<1>2. thread' = [thread EXCEPT ![t] = NoRequest] /\ Collect(reg, Give(S, Nobody))
  BY DEF Answer
<1>3. /\ thread' \in [Threads -> RequestRecord] /\ thread'[t] = NoRequest
      /\ \A u \in Threads : u # t => thread'[u] = thread[u]
  BY <1>1, <1>2, NoRequestType, ThreadType
<1>4. thread[t].held \subseteq S /\ \A l \in Locks : l \in S => l \in thread[t].held \/ owner[l] = Nobody
  BY Kinds DEF Entered, Entering
<1>5. /\ registered' \in Locks \cup {NoLock}
      /\ owner' \in [Locks -> Threads \cup {Nobody, Task}]
      /\ HeldIsOwned' /\ LocksWhileFetching'
  BY <1>2, <1>3, <1>4, NoRequestType, ReleaseStep
<1>6. remote' \in Versions /\ stored' \in 0 .. MaxVersion /\ tasks' \subseteq TaskRecord
  BY <1>1 DEF TypeOK, TaskRecord
<1>7. TypeOK'
  BY <1>1, <1>3, <1>5, <1>6, Typed
<1> QED
  BY <1>5, <1>7 DEF IInv

LEMMA AnswersStep ==
    ASSUME IInv, NEW t \in Threads,
           \/ WaitTimesOut(t) \/ AnswerRecent(t) \/ AnswerCachedNotFound(t) \/ AnswerUnlisted(t)
           \/ NotModified(t) \/ NotFound(t) \/ FetchFails(t) \/ GotSame(t)
           \/ FetchTimesOutUnlocked(t)
    PROVE  IInv'
<1>1. registered \in Locks \cup {NoLock} /\ NoLock \in Locks \cup {NoLock}
  BY DEF IInv, TypeOK
<1>2. MaxVersion \in Nat /\ thread[t].snap \in 0 .. MaxVersion /\ thread[t].page \in 0 .. MaxVersion
  BY RequestType DEF IInv
<1>3. CASE WaitTimesOut(t)
  BY <1>1, <1>3, AnswerStep DEF WaitTimesOut
<1>4. CASE AnswerRecent(t)
  BY <1>1, <1>4, AnswerStep DEF AnswerRecent
<1>5. CASE AnswerCachedNotFound(t)
  BY <1>1, <1>5, AnswerStep DEF AnswerCachedNotFound
<1>6. CASE AnswerUnlisted(t)
  BY <1>1, <1>2, <1>6, AnswerStep DEF AnswerUnlisted
<1>7. CASE NotModified(t)
  BY <1>1, <1>2, <1>7, AnswerStep DEF NotModified
<1>8. CASE NotFound(t)
  BY <1>1, <1>2, <1>8, AnswerStep DEF NotFound
<1>9. CASE FetchFails(t)
  BY <1>1, <1>9, AnswerStep DEF FetchFails
<1>10. CASE GotSame(t)
  BY <1>1, <1>2, <1>10, AnswerStep DEF GotSame
<1>11. CASE FetchTimesOutUnlocked(t)
  BY <1>1, <1>11, AnswerStep DEF FetchTimesOutUnlocked
<1> QED
  BY <1>3, <1>4, <1>5, <1>6, <1>7, <1>8, <1>9, <1>10, <1>11

\* A read transaction is restarted, which releases its locks.
LEMMA RestartStep ==
    ASSUME IInv, NEW t \in Threads, Restart(t) \/ FetchRestarted(t)
    PROVE  IInv'
<1>1. TypeOK /\ HeldIsOwned
  BY DEF IInv
<1>2. PICK r \in RequestRecord :
        /\ r.held = {} /\ r.lock = NoLock
        /\ thread' = [thread EXCEPT ![t] = r]
        /\ Collect(registered, Give(thread[t].held, Nobody))
        /\ UNCHANGED <<remote, stored, retrieved, tasks>>
  <2>1. /\ thread \in [Threads -> RequestRecord] /\ thread[t] \in RequestRecord
        /\ thread[t].snap \in 0 .. MaxVersion /\ retrieved.etag \in 0 .. MaxVersion
        /\ stored \in 0 .. MaxVersion
    BY <1>1, RequestType DEF TypeOK
  <2>2. CASE Restart(t)
    <3> DEFINE q == [thread[t] EXCEPT !.pc = "update", !.held = {}, !.lock = NoLock]
    <3>1. q \in RequestRecord /\ q.held = {} /\ q.lock = NoLock
      BY <2>1 DEF RequestRecord
    <3>2. thread' = [thread EXCEPT ![t] = q]
      BY <2>1, <2>2 DEF Restart
    <3> HIDE DEF q
    <3> QED
      BY <2>2, <3>1, <3>2 DEF Restart
  <2>3. CASE FetchRestarted(t)
    <3> DEFINE e == Etag(t)
               q == [thread[t] EXCEPT !.pc = "fetch", !.page = e, !.view = stored,
                                      !.held = {}, !.lock = NoLock]
    <3>1. e \in 0 .. MaxVersion
      BY <2>1 DEF Etag
    <3>2. thread' = [thread EXCEPT ![t] = q]
      BY <2>1, <2>3 DEF FetchRestarted
    <3> HIDE DEF e
    <3>3. q \in RequestRecord /\ q.held = {} /\ q.lock = NoLock
      BY <2>1, <3>1 DEF RequestRecord
    <3> HIDE DEF q
    <3> QED
      BY <2>3, <3>2, <3>3 DEF FetchRestarted
  <2> QED
    BY <2>2, <2>3
<1>3. /\ thread' \in [Threads -> RequestRecord] /\ thread'[t] = r
      /\ \A u \in Threads : u # t => thread'[u] = thread[u]
  BY <1>1, <1>2, ThreadType
<1>4. registered \in Locks \cup {NoLock}
  BY <1>1 DEF TypeOK
<1>5. /\ registered' \in Locks \cup {NoLock}
      /\ owner' \in [Locks -> Threads \cup {Nobody, Task}]
      /\ HeldIsOwned' /\ LocksWhileFetching'
  BY <1>2, <1>3, <1>4, ReleaseStep
<1>6. remote' \in Versions /\ stored' \in 0 .. MaxVersion /\ tasks' \subseteq TaskRecord
  BY <1>1, <1>2 DEF TypeOK, TaskRecord
<1>7. TypeOK'
  BY <1>1, <1>2, <1>3, <1>5, <1>6, Typed
<1> QED
  BY <1>5, <1>7 DEF IInv

-----------------------------------------------------------------------------
(* Steps which release nothing.                                            *)

\* The owners and the tasks' locks are the same, and the request refers to its lock as before
\* or does not need one.
LEMMA SameLocks ==
    ASSUME IInv, NEW t \in Threads, NEW r \in RequestRecord,
           thread' = [thread EXCEPT ![t] = r],
           r.held = thread[t].held,
           r.pc \in {"lookup", "fetch"} => thread[t].pc = "lookup" /\ r.lock = thread[t].lock,
           r.pc \in {"idle", "update"} => r.held = {},
           remote' \in Versions, stored' \in 0 .. MaxVersion,
           UNCHANGED retrieved \/ \E e \in 0 .. MaxVersion : Refresh(e) \/ Expire,
           registered' \in Locks \cup {NoLock}, UNCHANGED <<owner, tasks>>
    PROVE  IInv'
<1>1. TypeOK /\ HeldIsOwned /\ LocksWhileFetching
  BY DEF IInv
<1>2. /\ thread' \in [Threads -> RequestRecord] /\ thread'[t] = r
      /\ \A u \in Threads : u # t => thread'[u] = thread[u]
  BY <1>1, ThreadType
<1>3. \A u \in Threads : thread'[u].held = thread[u].held
  BY <1>2
<1>4. HeldIsOwned'
  BY <1>1, <1>3 DEF HeldIsOwned
<1>5. LocksWhileFetching'
  BY <1>1, <1>2 DEF LocksWhileFetching
<1>6. TypeOK'
  <2>1. owner' \in [Locks -> Threads \cup {Nobody, Task}] /\ tasks' \subseteq TaskRecord
    BY <1>1 DEF TypeOK, TaskRecord
  <2> QED
    BY <1>1, <1>2, <2>1, Typed
<1> QED
  BY <1>4, <1>5, <1>6 DEF IInv

LEMMA GoOnStep ==
    ASSUME IInv, NEW t \in Threads,
           \/ Begin(t) \/ Acquire(t) \/ FetchListed(t) \/ NotModifiedWithoutLinks(t)
           \/ GotChanges(t) \/ UpdateLinks(t)
    PROVE  IInv'
<1>1. /\ TypeOK /\ thread \in [Threads -> RequestRecord] /\ thread[t] \in RequestRecord
      /\ thread[t].snap \in 0 .. MaxVersion /\ thread[t].view \in 0 .. MaxVersion
      /\ thread[t].page \in 0 .. MaxVersion /\ thread[t].held \in SUBSET Locks
      /\ retrieved.etag \in 0 .. MaxVersion /\ 0 \in 0 .. MaxVersion
      /\ thread[t].pc \in {"idle", "update"} => thread[t].held = {}
  BY RequestType DEF IInv, LocksWhileFetching
<1>2. /\ remote \in Versions /\ stored \in 0 .. MaxVersion /\ registered \in Locks \cup {NoLock}
  BY <1>1 DEF TypeOK
<1>3. CASE Begin(t)
  <2> DEFINE r == [NoRequest EXCEPT !.pc = "begun", !.snap = stored]
  <2>1. r \in RequestRecord /\ r.held = {} /\ r.pc = "begun"
    BY <1>2, NoRequestType DEF RequestRecord
  <2> HIDE DEF r
  <2>2. thread' = [thread EXCEPT ![t] = r] /\ thread[t].held = {}
    BY <1>1, <1>3 DEF Begin, r
  <2>3. UNCHANGED <<remote, stored, retrieved, registered, owner, tasks>>
    BY <1>3 DEF Begin, locking
  <2> QED
    BY <1>2, <2>1, <2>2, <2>3, SameLocks
<1>4. CASE Acquire(t)
  <2>1. PICK l \in Locks \cup {NoLock} :
            /\ thread' = [thread EXCEPT ![t].pc = "wait", ![t].lock = l]
            /\ registered' \in Locks \cup {NoLock}
    <3>1. \A n \in 1 .. MaxLocks : <<t, n>> \in Locks
      BY DEF Locks
    <3>2. CASE registered = NoLock
      <4>1. PICK n \in Unused(t) : registered' = <<t, n>> /\ thread' = [thread EXCEPT ![t].pc = "wait", ![t].lock = registered']
        <5>1. (CHOOSE n \in Unused(t) : TRUE) \in Unused(t)
          BY <1>4, <3>2 DEF Acquire
        <5> QED
          BY <1>4, <3>2, <5>1 DEF Acquire
      <4>2. registered' \in Locks
        BY <3>1, <4>1 DEF Unused
      <4> QED
        BY <4>1, <4>2
    <3>3. CASE registered # NoLock
      BY <1>2, <1>4, <3>3 DEF Acquire
    <3> QED
      BY <3>2, <3>3
  <2> DEFINE r == [thread[t] EXCEPT !.pc = "wait", !.lock = l]
  <2>2. r \in RequestRecord /\ r.held = thread[t].held /\ r.pc = "wait"
    BY <1>1 DEF RequestRecord
  <2>3. thread' = [thread EXCEPT ![t] = r]
    BY <1>1, <2>1
  <2> HIDE DEF r
  <2>4. UNCHANGED <<remote, stored, retrieved, owner, tasks>>
    BY <1>4 DEF Acquire
  <2> QED
    BY <1>2, <2>1, <2>2, <2>3, <2>4, SameLocks
<1>5. CASE FetchListed(t)
  <2> DEFINE e == Etag(t)
             r == [thread[t] EXCEPT !.pc = "fetch", !.page = e]
  <2>1. e \in 0 .. MaxVersion
    BY <1>1 DEF Etag
  <2>2. thread' = [thread EXCEPT ![t] = r] /\ thread[t].pc = "lookup"
    BY <1>1, <1>5 DEF FetchListed
  <2> HIDE DEF e
  <2>3. r \in RequestRecord /\ r.held = thread[t].held /\ r.pc = "fetch" /\ r.lock = thread[t].lock
    BY <1>1, <2>1 DEF RequestRecord
  <2> HIDE DEF r
  <2>4. UNCHANGED <<remote, stored, retrieved, registered, owner, tasks>>
    BY <1>5 DEF FetchListed, locking
  <2> QED
    BY <1>2, <2>2, <2>3, <2>4, SameLocks
<1>6. CASE NotModifiedWithoutLinks(t)
  <2> DEFINE r == [NoRequest EXCEPT !.pc = "begun", !.snap = thread[t].view, !.held = thread[t].held]
  <2>1. r \in RequestRecord /\ r.held = thread[t].held /\ r.pc = "begun"
    BY <1>1, NoRequestType DEF RequestRecord
  <2> HIDE DEF r
  <2>2. thread' = [thread EXCEPT ![t] = r]
    BY <1>6 DEF NotModifiedWithoutLinks, r
  <2>3. UNCHANGED <<remote, stored, registered, owner, tasks>> /\ Expire
    BY <1>6 DEF NotModifiedWithoutLinks, locking
  <2> QED
    BY <1>1, <1>2, <2>1, <2>2, <2>3, SameLocks
<1>7. CASE GotChanges(t)
  <2>1. PICK v \in Pages(thread[t].snap, thread[t].page) : thread' = [thread EXCEPT ![t] =
            [NoRequest EXCEPT !.pc = "got", !.page = v, !.held = thread[t].held]]
    BY <1>7 DEF GotChanges
  <2>2. v \in 0 .. MaxVersion
    BY <1>1, <2>1, PagesType
  <2> DEFINE r == [NoRequest EXCEPT !.pc = "got", !.page = v, !.held = thread[t].held]
  <2>3. r \in RequestRecord /\ r.held = thread[t].held /\ r.pc = "got"
    BY <1>1, <2>2, NoRequestType DEF RequestRecord
  <2>4. thread' = [thread EXCEPT ![t] = r]
    BY <2>1
  <2> HIDE DEF r
  <2>5. UNCHANGED <<remote, stored, retrieved, registered, owner, tasks>>
    BY <1>7 DEF GotChanges, locking
  <2> QED
    BY <1>2, <2>3, <2>4, <2>5, SameLocks
<1>8. CASE UpdateLinks(t)
  <2>1. thread' = [thread EXCEPT ![t] = NoRequest] /\ thread[t].held = {}
    BY <1>1, <1>8 DEF UpdateLinks
  <2>2. /\ UNCHANGED <<remote, registered, owner, tasks>> /\ stored' = thread[t].page
        /\ UNCHANGED retrieved \/ Refresh(thread[t].page)
    BY <1>8 DEF UpdateLinks, locking, Save
  <2> QED
    BY <1>1, <1>2, <2>1, <2>2, NoRequestType, SameLocks
<1> QED
  BY <1>3, <1>4, <1>5, <1>6, <1>7, <1>8

LEMMA ElsewhereStep ==
    ASSUME IInv, RemoteChanges \/ TimePasses \/ RemoveLinks \/ UNCHANGED vars
    PROVE  IInv'
<1>1. UNCHANGED <<registered, owner, thread, tasks>>
  BY DEF RemoteChanges, TimePasses, RemoveLinks, vars, locking
<1>2. HeldIsOwned' /\ LocksWhileFetching'
  BY <1>1 DEF IInv, HeldIsOwned, LocksWhileFetching
<1>3. /\ remote' \in Versions /\ stored' \in 0 .. MaxVersion
      /\ retrieved' \in [recent : BOOLEAN, etag : 0 .. MaxVersion]
  <2>1. CASE RemoteChanges
    BY <2>1, MirrorLinksConstants DEF RemoteChanges, IInv, TypeOK, Versions
  <2>2. CASE TimePasses
    <3>1. retrieved' = [retrieved EXCEPT !.recent = FALSE] /\ UNCHANGED <<remote, stored>>
      BY <2>2 DEF TimePasses
    <3> QED
      BY <3>1 DEF IInv, TypeOK
  <2>3. CASE RemoveLinks
    BY <2>3, MirrorLinksConstants DEF RemoveLinks, Expire, NoLinks, IInv, TypeOK
  <2>4. CASE UNCHANGED vars
    BY <2>4 DEF vars, IInv, TypeOK
  <2> QED
    BY <2>1, <2>2, <2>3, <2>4
<1>4. TypeOK'
  BY <1>1, <1>3 DEF IInv, TypeOK
<1> QED
  BY <1>2, <1>4 DEF IInv

-----------------------------------------------------------------------------
(* Steps which acquire a lock, give it to a task, or store a late answer.  *)

LEMMA FetchStep ==
    ASSUME IInv, NEW t \in Threads, Fetch(t) \/ LookUp(t)
    PROVE  IInv'
<1>1. /\ TypeOK /\ HeldIsOwned /\ LocksWhileFetching /\ thread \in [Threads -> RequestRecord]
      /\ thread[t] \in RequestRecord /\ thread[t].page \in 0 .. MaxVersion
  BY RequestType DEF IInv
<1>2. PICK e \in 0 .. MaxVersion, pc \in {"lookup", "fetch"} :
        thread' = [thread EXCEPT ![t] = [thread[t] EXCEPT !.pc = pc, !.held = Entered(t), !.page = e]]
  <2>1. CASE Fetch(t)
    <3>1. Etag(t) \in 0 .. MaxVersion
      BY <1>1, RequestType DEF Etag
    <3> HIDE DEF Etag
    <3> QED
      BY <1>1, <2>1, <3>1 DEF Fetch
  <2>2. CASE LookUp(t)
    <3> DEFINE q == [thread[t] EXCEPT !.pc = "lookup", !.held = Entered(t)]
    <3>1. thread' = [thread EXCEPT ![t] = q]
      BY <1>1, <2>2 DEF LookUp
    <3>2. q = [thread[t] EXCEPT !.pc = "lookup", !.held = Entered(t), !.page = thread[t].page]
      BY <1>1 DEF RequestRecord
    <3> QED
      BY <1>1, <3>1, <3>2
  <2> QED
    BY <2>1, <2>2
<1>3. Entered(t) \in SUBSET Locks /\ thread[t].held \subseteq Entered(t)
  BY <1>1, RequestType DEF Entered
<1> DEFINE r == [thread[t] EXCEPT !.pc = pc, !.held = Entered(t), !.page = e]
<1>4. /\ r \in RequestRecord /\ r.held = Entered(t) /\ r.pc = pc /\ r.lock = thread[t].lock
  BY <1>1, <1>3 DEF RequestRecord
<1>5. thread' = [thread EXCEPT ![t] = r]
  BY <1>2
<1> HIDE DEF r
<1>6. /\ thread' \in [Threads -> RequestRecord] /\ thread'[t] = r
      /\ \A u \in Threads : u # t => thread'[u] = thread[u]
  BY <1>1, <1>4, <1>5, ThreadType
<1>7. UNCHANGED <<remote, stored, retrieved, registered, tasks>> /\ owner' = Give(Entered(t), t)
  BY DEF Fetch, LookUp
<1>8. \A l \in Locks : owner'[l] = IF l \in Entered(t) THEN t ELSE owner[l]
  BY <1>1, <1>7, GiveLocks
<1>9. \A l \in Locks : l \in Entered(t) => owner[l] = t \/ owner[l] = Nobody
  BY <1>1, Kinds DEF Entered, Fetch, LookUp, Entering, HeldIsOwned
<1>10. owner' \in [Locks -> Threads \cup {Nobody, Task}]
  BY <1>1, <1>7 DEF Give, TypeOK
<1>11. TypeOK'
  BY <1>1, <1>6, <1>7, <1>10 DEF TypeOK, RequestRecord
<1>12. HeldIsOwned'
  <2>1. \A u \in Threads, l \in Locks : l \in thread'[u].held <=> owner'[l] = u
    <3> SUFFICES ASSUME NEW u \in Threads, NEW l \in Locks
                 PROVE  l \in thread'[u].held <=> owner'[l] = u
      OBVIOUS
    <3>1. \A v \in Threads : l \in thread[v].held <=> owner[l] = v
      BY <1>1 DEF HeldIsOwned
    <3>2. CASE u = t
      BY <1>3, <1>4, <1>6, <1>8, <3>1, <3>2
    <3>3. CASE u # t
      BY <1>6, <1>8, <1>9, <3>1, <3>3, Kinds
    <3> QED
      BY <3>2, <3>3
  <2>2. \A l \in Locks : owner'[l] = Task <=> owner[l] = Task
    BY <1>8, <1>9, Kinds
  <2> QED
    BY <1>1, <1>7, <2>1, <2>2 DEF HeldIsOwned
<1>13. LocksWhileFetching'
  BY <1>1, <1>4, <1>6 DEF LocksWhileFetching, Entered
<1> QED
  BY <1>11, <1>12, <1>13 DEF IInv

LEMMA FetchTimesOutStep ==
    ASSUME IInv, NEW t \in Threads, FetchTimesOut(t)
    PROVE  IInv'
<1> DEFINE lk == thread[t].lock
           k == TaskOf(t)
           own == [Give(thread[t].held, Nobody) EXCEPT ![lk] = Task]
<1>1. /\ TypeOK /\ HeldIsOwned /\ LocksWhileFetching /\ thread \in [Threads -> RequestRecord]
      /\ MaxVersion \in Nat
  BY RequestType DEF IInv, TypeOK, RequestRecord
<1>2. /\ thread[t].pc = "fetch" /\ lk # NoLock
      /\ tasks' = tasks \cup {k}
      /\ thread' = [thread EXCEPT ![t] = NoRequest]
      /\ Collect(registered, own)
      /\ UNCHANGED <<remote, stored, retrieved>>
  BY DEF FetchTimesOut
<1>3. lk \in Locks /\ lk \in thread[t].held /\ owner[lk] = t /\ thread[t].snap \in 0 .. MaxVersion
  BY <1>1, <1>2, RequestType DEF LocksWhileFetching, HeldIsOwned
<1>4. NoRequest \in RequestRecord /\ NoRequest.held = {} /\ NoRequest.pc = "idle"
  BY NoRequestType
<1>5. /\ thread' \in [Threads -> RequestRecord] /\ thread'[t] = NoRequest
      /\ \A u \in Threads : u # t => thread'[u] = thread[u]
  BY <1>1, <1>2, <1>4, ThreadType
<1>6. \A l \in Locks : own[l] = IF l = lk THEN Task
                               ELSE IF l \in thread[t].held THEN Nobody ELSE owner[l]
  BY <1>1, <1>3, GiveLocks
<1>7. k.lock = lk /\ k \in TaskRecord
  BY <1>1, <1>3, RequestType DEF TaskOf, TaskRecord
<1>8. registered \in Locks \cup {NoLock} /\ tasks \subseteq TaskRecord
  BY <1>1 DEF TypeOK, TaskRecord
<1> HIDE DEF own, k
<1>9. /\ registered' \in Locks \cup {NoLock}
      /\ \A l \in Locks :
            /\ owner'[l] = own[l] \/ owner'[l] = Nobody
            /\ \A u \in Threads : l \in thread'[u].held => owner'[l] = own[l]
            /\ \A m \in tasks' : l = m.lock => owner'[l] = own[l]
      /\ owner' = [l \in Locks |-> owner'[l]]
  BY <1>2, <1>8, Collected
<1>10. owner' \in [Locks -> Threads \cup {Nobody, Task}]
  BY <1>1, <1>6, <1>9 DEF TypeOK
<1>11. TypeOK'
  <2>1. tasks' \subseteq TaskRecord /\ remote' \in Versions /\ stored' \in 0 .. MaxVersion
    BY <1>1, <1>2, <1>7, <1>8 DEF TypeOK
  <2> QED
    BY <1>1, <1>2, <1>5, <1>9, <1>10, <2>1, Typed
<1>12. \A u \in Threads, l \in Locks : l \in thread'[u].held <=> owner'[l] = u
  <2> SUFFICES ASSUME NEW u \in Threads, NEW l \in Locks
               PROVE  l \in thread'[u].held <=> owner'[l] = u
    OBVIOUS
  <2>1. \A v \in Threads : l \in thread[v].held <=> owner[l] = v
    BY <1>1 DEF HeldIsOwned
  <2>2. CASE u = t
    <3>1. owner'[l] # t
      BY <1>6, <1>9, <2>1, Kinds
    <3> QED
      BY <1>4, <1>5, <2>2, <3>1
  <2>3. CASE u # t
    <3>1. ASSUME l \in thread[u].held
          PROVE  owner'[l] = u
      BY <1>3, <1>5, <1>6, <1>9, <2>1, <2>3, <3>1, Kinds
    <3>2. ASSUME owner'[l] = u
          PROVE  l \in thread[u].held
      BY <1>6, <1>9, <2>1, <3>2, Kinds
    <3> QED
      BY <1>5, <2>3, <3>1, <3>2
  <2> QED
    BY <2>2, <2>3
<1>13. \A l \in Locks : owner'[l] = Task <=> \E m \in tasks' : m.lock = l
  <2> SUFFICES ASSUME NEW l \in Locks
               PROVE  owner'[l] = Task <=> \E m \in tasks' : m.lock = l
    OBVIOUS
  <2>1. /\ owner[l] = Task <=> \E m \in tasks : m.lock = l
        /\ l \in thread[t].held => owner[l] = t
    BY <1>1 DEF HeldIsOwned
  <2>2. CASE l = lk
    BY <1>2, <1>6, <1>7, <1>9, <2>2
  <2>3. CASE l # lk
    <3>1. (\E m \in tasks' : m.lock = l) <=> owner[l] = Task
      BY <1>2, <1>7, <2>1, <2>3
    <3>2. owner[l] = Task => own[l] = Task
      BY <1>6, <2>1, <2>3, Kinds
    <3>3. own[l] = Task => owner[l] = Task
      BY <1>6, <2>3, Kinds
    <3> QED
      BY <1>9, <3>1, <3>2, <3>3, Kinds
  <2> QED
    BY <2>2, <2>3
<1>14. \A l, m \in tasks' : l.lock = m.lock => l = m
  <2>1. \A m \in tasks : m.lock # lk
    BY <1>1, <1>3, <1>8, Kinds DEF HeldIsOwned, TaskRecord
  <2> QED
    BY <1>1, <1>2, <1>7, <2>1 DEF HeldIsOwned
<1>15. HeldIsOwned'
  BY <1>12, <1>13, <1>14 DEF HeldIsOwned
<1>16. LocksWhileFetching'
  BY <1>1, <1>4, <1>5 DEF LocksWhileFetching
<1> QED
  BY <1>11, <1>15, <1>16 DEF IInv

LEMMA LateAnswerStep ==
    ASSUME IInv, LateAnswer
    PROVE  IInv'
<1>1. TypeOK /\ HeldIsOwned /\ LocksWhileFetching
  BY DEF IInv
<1>2. PICK k \in tasks :
        /\ \E v \in Pages(k.serial, k.etag) : Save(v)
        /\ tasks' = tasks \ {k}
        /\ UNCHANGED <<remote, thread>>
        /\ Collect(registered, Give({k.lock}, Nobody))
  BY DEF LateAnswer
<1>3. k.lock \in Locks /\ k.serial \in 0 .. MaxVersion /\ owner[k.lock] = Task
  BY <1>1, <1>2 DEF TypeOK, HeldIsOwned
<1>4. /\ stored' \in 0 .. MaxVersion
      /\ UNCHANGED retrieved \/ \E e \in 0 .. MaxVersion : Refresh(e) \/ Expire
  <2>1. PICK v \in Pages(k.serial, k.etag) : Save(v)
    BY <1>2
  <2>2. v \in 0 .. MaxVersion
    BY <1>1, <1>3, <2>1, PagesType
  <2> QED
    BY <2>1, <2>2 DEF Save
<1> DEFINE own == Give({k.lock}, Nobody)
<1>5. \A l \in Locks : own[l] = IF l = k.lock THEN Nobody ELSE owner[l]
  BY <1>1, GiveLocks
<1> HIDE DEF own
<1>6. registered \in Locks \cup {NoLock}
  BY <1>1 DEF TypeOK
<1>7. /\ registered' \in Locks \cup {NoLock}
      /\ \A l \in Locks :
            /\ owner'[l] = own[l] \/ owner'[l] = Nobody
            /\ \A u \in Threads : l \in thread'[u].held => owner'[l] = own[l]
            /\ \A m \in tasks' : l = m.lock => owner'[l] = own[l]
      /\ owner' = [l \in Locks |-> owner'[l]]
  BY <1>2, <1>6, Collected DEF own
<1>8. owner' \in [Locks -> Threads \cup {Nobody, Task}]
  BY <1>1, <1>5, <1>7 DEF TypeOK
<1>9. TypeOK'
  <2>1. tasks' \subseteq TaskRecord /\ remote' \in Versions /\ thread' \in [Threads -> RequestRecord]
    BY <1>1, <1>2 DEF TypeOK, TaskRecord, RequestRecord
  <2> QED
    BY <1>1, <1>4, <1>7, <1>8, <2>1, Typed
<1>10. \A u \in Threads, l \in Locks : l \in thread[u].held <=> owner'[l] = u
  <2> SUFFICES ASSUME NEW u \in Threads, NEW l \in Locks
               PROVE  l \in thread[u].held <=> owner'[l] = u
    OBVIOUS
  <2>1. l \in thread[u].held <=> owner[l] = u
    BY <1>1 DEF HeldIsOwned
  <2>2. ASSUME l \in thread[u].held
        PROVE  owner'[l] = u
    BY <1>2, <1>3, <1>5, <1>7, <2>1, <2>2, Kinds
  <2>3. ASSUME owner'[l] = u
        PROVE  l \in thread[u].held
    BY <1>5, <1>7, <2>1, <2>3, Kinds
  <2> QED
    BY <2>2, <2>3
<1>11. \A l \in Locks : owner'[l] = Task <=> \E m \in tasks' : m.lock = l
  <2> SUFFICES ASSUME NEW l \in Locks
               PROVE  owner'[l] = Task <=> \E m \in tasks' : m.lock = l
    OBVIOUS
  <2>1. owner[l] = Task <=> \E m \in tasks : m.lock = l
    BY <1>1 DEF HeldIsOwned
  <2>2. CASE l = k.lock
    <3>1. \A m \in tasks' : m.lock # l
      BY <1>1, <1>2, <2>2 DEF HeldIsOwned
    <3> QED
      BY <1>5, <1>7, <2>2, <3>1, Kinds
  <2>3. CASE l # k.lock
    BY <1>2, <1>5, <1>7, <2>1, <2>3, Kinds
  <2> QED
    BY <2>2, <2>3
<1>12. HeldIsOwned'
  BY <1>1, <1>2, <1>10, <1>11 DEF HeldIsOwned
<1>13. LocksWhileFetching'
  BY <1>1, <1>2 DEF LocksWhileFetching
<1> QED
  BY <1>9, <1>12, <1>13 DEF IInv

LEMMA LateNotFoundStep ==
    ASSUME IInv, LateNotFound
    PROVE  IInv'
<1>1. TypeOK /\ HeldIsOwned /\ LocksWhileFetching
  BY DEF IInv
<1> DEFINE Waiting(k) == [lock |-> k.lock, serial |-> 0, etag |-> 0, awaits |-> FALSE]
<1>2. PICK k \in tasks :
        /\ Refresh(0) /\ tasks' = (tasks \ {k}) \cup {Waiting(k)}
        /\ UNCHANGED <<remote, stored, registered, owner, thread>>
  BY DEF LateNotFound, locking
<1>3. tasks \subseteq TaskRecord /\ 0 \in 0 .. MaxVersion
  BY <1>1, MirrorLinksConstants DEF TypeOK, TaskRecord
<1>4. Waiting(k) \in TaskRecord /\ Waiting(k).lock = k.lock
  BY <1>3 DEF TaskRecord
<1> HIDE DEF Waiting
<1>5. TypeOK'
  <2>1. /\ remote' \in Versions /\ stored' \in 0 .. MaxVersion /\ registered' \in Locks \cup {NoLock}
        /\ owner' \in [Locks -> Threads \cup {Nobody, Task}] /\ thread' \in [Threads -> RequestRecord]
    BY <1>1, <1>2 DEF TypeOK, RequestRecord
  <2>2. tasks' \subseteq TaskRecord
    BY <1>2, <1>3, <1>4
  <2> QED
    BY <1>1, <1>2, <1>3, <2>1, <2>2, Typed
<1>6. \A l \in Locks : (\E m \in tasks' : m.lock = l) <=> (\E m \in tasks : m.lock = l)
  BY <1>2, <1>4
<1>7. \A m, n \in tasks' : m.lock = n.lock => m = n
  BY <1>1, <1>2, <1>4 DEF HeldIsOwned
<1>8. HeldIsOwned' /\ LocksWhileFetching'
  BY <1>1, <1>2, <1>6, <1>7 DEF HeldIsOwned, LocksWhileFetching
<1> QED
  BY <1>5, <1>8 DEF IInv

-----------------------------------------------------------------------------
(* The invariant.                                                          *)

LEMMA InitIInv == Init => IInv
<1> SUFFICES ASSUME Init
             PROVE  IInv
  OBVIOUS
<1>1. NoRequest \in RequestRecord /\ NoRequest.held = {} /\ NoRequest.pc = "idle"
  BY NoRequestType
<1>2. /\ thread = [t \in Threads |-> NoRequest] /\ tasks = {}
      /\ owner = [l \in Locks |-> Nobody]
  BY DEF Init
<1>3. TypeOK
  BY <1>1, <1>2, MirrorLinksConstants DEF Init, TypeOK, NoLinks, RequestRecord, Versions
<1>4. HeldIsOwned
  BY <1>1, <1>2, Kinds DEF HeldIsOwned
<1>5. LocksWhileFetching
  BY <1>1, <1>2 DEF LocksWhileFetching
<1> QED
  BY <1>3, <1>4, <1>5 DEF IInv

LEMMA StepIInv == IInv /\ [Next]_vars => IInv'
BY AnswersStep, RestartStep, GoOnStep, ElsewhereStep, FetchStep, FetchTimesOutStep, LateAnswerStep,
   LateNotFoundStep
   DEF Next, Continue

\* The locks of transactions and tasks are those they have acquired.
THEOREM Invariance == Spec => []IInv
BY InitIInv, StepIInv, PTL DEF Spec

\* Every inner lock which is acquired is released by exactly one transaction or task.
THEOREM ReleasedOnce == Spec => []OneReleasePerLock
<1>1. ASSUME IInv
      PROVE  OneReleasePerLock
  <2> SUFFICES ASSUME NEW l \in Locks
               PROVE  Cardinality({t \in Threads : l \in thread[t].held})
                        + Cardinality({k \in tasks : k.lock = l})
                            = IF owner[l] = Nobody THEN 0 ELSE 1
    BY DEF OneReleasePerLock
  <2> DEFINE T == {t \in Threads : l \in thread[t].held}
             K == {k \in tasks : k.lock = l}
  <2> SUFFICES Cardinality(T) + Cardinality(K) = IF owner[l] = Nobody THEN 0 ELSE 1
    OBVIOUS
  <2>1. /\ \A t \in Threads : l \in thread[t].held <=> owner[l] = t
        /\ owner[l] = Task <=> \E k \in tasks : k.lock = l
        /\ \A k, m \in tasks : k.lock = m.lock => k = m
        /\ owner[l] \in Threads \cup {Nobody, Task}
    BY <1>1 DEF IInv, HeldIsOwned, TypeOK
  <2>2. Cardinality({}) = 0 /\ \A x : Cardinality({x}) = 1
    BY FS_EmptySet, FS_Singleton
  <2>3. CASE owner[l] = Nobody
    <3>1. T = {} /\ K = {}
      BY <2>1, <2>3, Kinds
    <3>2. Cardinality(T) = 0 /\ Cardinality(K) = 0
      BY <2>2, <3>1
    <3> HIDE DEF T, K
    <3> QED
      BY <2>3, <3>2
  <2>4. CASE owner[l] = Task
    <3>1. T = {}
      BY <2>1, <2>4, Kinds
    <3>2. PICK k \in tasks : K = {k}
      BY <2>1, <2>4
    <3>3. Cardinality(T) = 0 /\ Cardinality(K) = 1
      BY <2>2, <3>1, <3>2
    <3> HIDE DEF T, K
    <3> QED
      BY <2>4, <3>3, Kinds
  <2>5. CASE owner[l] \in Threads
    <3>1. T = {owner[l]}
      BY <2>1, <2>5, Kinds
    <3>2. K = {}
      BY <2>1, <2>5, Kinds
    <3>3. Cardinality(T) = 1 /\ Cardinality(K) = 0
      BY <2>2, <3>1, <3>2
    <3> HIDE DEF T, K
    <3> QED
      BY <2>5, <3>3, Kinds
  <2> QED
    BY <2>1, <2>3, <2>4, <2>5
<1> QED
  BY <1>1, Invariance, PTL

-----------------------------------------------------------------------------
(* MirrorFiles.                                                            *)

\* A set of files is a value of PROJSIMPLELINKS of its own.
LEMMA LinksAreLinked ==
  ASSUME NEW S \in SUBSET Files
  PROVE  S # NoKey /\ S # Cleared
  BY MirrorFilesConstants

\* Links in the database are files.
LEMMA LinkedType == MFTypeOK => Linked \in SUBSET Files
  BY DEF MFTypeOK, Linked

\* The invariant holds before there is an index.
LEMMA MFInitIInv == MFInit => MFIInv
  BY DEF MFInit, MFIInv, MFTypeOK, FilesCanBeDeleted, LinksHaveEntry, KnownHasLinks,
         UpdateHasEntries, LinkedIsKnown, Linked, Mapped

\* Saving the links of the remote page gives every one of them an entry: those which were
\* found before had one.
LEMMA SaveLinksEntries ==
  ASSUME MFTypeOK, NEW old \in SUBSET Files, SaveLinks(old),
         \A f \in old : entries[f] # "none" \/ f \in removed
  PROVE  /\ entries' \in [Files -> {"none", "mapped", "stored", "bare"}]
         /\ Mapped \subseteq Mapped'
         /\ \A f \in Files : entries[f] # "none" \/ f \in removed
                                => entries'[f] # "none" \/ f \in removed'
         /\ \A f \in page : entries'[f] # "none" \/ f \in removed'
  BY DEF MFTypeOK, SaveLinks, MapLinks, Mapped

\* An update of the links, at once or with links found before.
LEMMA SaveLinksIInv ==
  ASSUME MFIInv, NEW old \in SUBSET Files, SaveLinks(old),
         \A f \in old : entries[f] # "none" \/ f \in removed,
         UNCHANGED <<exists, files, download, page>>,
         update' \in {update, Idle}
  PROVE  MFIInv'
  <1>1. /\ entries' \in [Files -> {"none", "mapped", "stored", "bare"}]
        /\ Mapped \subseteq Mapped'
        /\ \A f \in Files : entries[f] # "none" \/ f \in removed
                               => entries'[f] # "none" \/ f \in removed'
        /\ \A f \in page : entries'[f] # "none" \/ f \in removed'
    BY SaveLinksEntries DEF MFIInv
  <1>2. links' = page /\ page \in SUBSET Files /\ Linked' = page
    BY LinksAreLinked DEF MFIInv, MFTypeOK, SaveLinks, Linked
  <1>3. MFTypeOK'
    BY <1>1, <1>2 DEF MFIInv, MFTypeOK, SaveLinks
  <1>4. FilesCanBeDeleted'
    BY <1>1 DEF MFIInv, FilesCanBeDeleted, SaveLinks
  <1>5. LinksHaveEntry'
    BY <1>1, <1>2 DEF LinksHaveEntry
  <1>6. KnownHasLinks'
    BY <1>2, LinksAreLinked DEF KnownHasLinks
  <1>7. UpdateHasEntries'
    BY <1>1 DEF MFIInv, MFTypeOK, UpdateHasEntries
  <1>8. LinkedIsKnown'
    <2>1. CASE links = page
      BY <2>1, <1>2, LinksAreLinked DEF MFIInv, LinkedIsKnown, Linked, SaveLinks
    <2>2. CASE links # page
      BY <2>2 DEF LinkedIsKnown, SaveLinks
    <2>3. QED
      BY <2>1, <2>2
  <1>9. QED
    BY <1>3, <1>4, <1>5, <1>6, <1>7, <1>8 DEF MFIInv

\* Removing the entries of some files, with the files.
LEMMA RemoveEntriesIs ==
  ASSUME MFTypeOK, NEW gone \in SUBSET Files, RemoveEntries(gone)
  PROVE  /\ entries' \in [Files -> {"none", "mapped", "stored", "bare"}]
         /\ files' = files \ gone
         /\ Mapped' = Mapped \ gone
         /\ \A f \in Files \ gone : entries'[f] = entries[f]
  BY DEF MFTypeOK, RemoveEntries, Mapped

\* A download ends, with or without the file.
LEMMA DownloadIInv ==
  ASSUME MFIInv, NEW c \in Clients, Store(c) \/ PutBack(c) \/ DownloadFails(c)
  PROVE  MFIInv'
  <1> USE DEF MFIInv, MFTypeOK
  <1>1. download[c] # Idle => download[c].file \in Files
    OBVIOUS
  <1>2. CASE Store(c)
    <2> DEFINE f == download[c].file
    <2>1. f \in Files /\ (f \in Mapped => exists)
      BY <1>1, <1>2 DEF Store
    <2>2. /\ entries' = [entries EXCEPT ![f] = IF f \in Mapped THEN "stored" ELSE "bare"]
          /\ files' = files \cup {f}
          /\ known' = (known \/ f \in Mapped)
          /\ strays' = IF f \in Mapped THEN strays ELSE strays \cup {f}
          /\ revived' = (revived \/ (f \in Mapped /\ links = NoKey))
          /\ download' = [download EXCEPT ![c] = Idle]
          /\ UNCHANGED <<exists, links, update, page, removed>>
      BY <1>2 DEF Store, Ends
    <2>3. Mapped' = Mapped
      BY <2>1, <2>2 DEF Mapped
    <2>4. MFTypeOK'
      BY <2>1, <2>2
    <2>5. FilesCanBeDeleted'
      BY <2>1, <2>2, <2>3 DEF FilesCanBeDeleted
    <2>6. LinksHaveEntry' /\ UpdateHasEntries'
      BY <2>1, <2>2 DEF LinksHaveEntry, UpdateHasEntries, Linked
    <2>7. KnownHasLinks' /\ LinkedIsKnown'
      BY <2>2 DEF KnownHasLinks, LinkedIsKnown, Linked
    <2>8. QED
      BY <2>4, <2>5, <2>6, <2>7
  <1>3. CASE PutBack(c)
    BY <1>1, <1>3 DEF PutBack, Ends, FilesCanBeDeleted, LinksHaveEntry, KnownHasLinks,
                      UpdateHasEntries, LinkedIsKnown, Linked, Mapped
  <1>4. CASE DownloadFails(c)
    BY <1>4 DEF DownloadFails, Ends, FilesCanBeDeleted, LinksHaveEntry, KnownHasLinks,
                UpdateHasEntries, LinkedIsKnown, Linked, Mapped
  <1>5. QED
    BY <1>2, <1>3, <1>4

\* A file is deleted with its entry, and the project with its last file.
LEMMA DelEntryIInv ==
  ASSUME MFIInv, NEW f \in Files, DelEntry(f)
  PROVE  MFIInv'
  <1>1. /\ entries' \in [Files -> {"none", "mapped", "stored", "bare"}]
        /\ files' = files \ {f}
        /\ Mapped' = Mapped \ {f}
        /\ \A g \in Files \ {f} : entries'[g] = entries[g]
    BY RemoveEntriesIs DEF MFIInv, DelEntry
  <1>2. \/ UNCHANGED <<known, links, revived>>
        \/ DropProject
    BY DEF DelEntry
  <1>3. /\ strays' = strays \ {f} /\ removed' = removed \cup {f}
        /\ UNCHANGED <<exists, download, update, page>>
    BY DEF DelEntry, processes
  <1>4. /\ links' \in {links, NoKey} /\ known' \in {known, FALSE} /\ revived' \in BOOLEAN
        /\ Linked' \in {Linked, {}}
    BY <1>2 DEF DropProject, Linked, MFIInv, MFTypeOK
  <1>5. MFTypeOK'
    BY <1>1, <1>3, <1>4 DEF MFIInv, MFTypeOK
  <1>6. FilesCanBeDeleted'
    BY <1>1, <1>3 DEF MFIInv, FilesCanBeDeleted
  <1>7. LinksHaveEntry' /\ UpdateHasEntries'
    BY <1>1, <1>3, <1>4, LinkedType DEF MFIInv, MFTypeOK, LinksHaveEntry, UpdateHasEntries
  <1>8. KnownHasLinks' /\ LinkedIsKnown'
    BY <1>2 DEF MFIInv, DropProject, KnownHasLinks, LinkedIsKnown, Linked
  <1>9. QED
    BY <1>5, <1>6, <1>7, <1>8 DEF MFIInv

\* The project is deleted: no entry which an update has found goes without notice.
LEMMA DelProjectIs ==
  ASSUME MFIInv, DelProject, update' = update
  PROVE  /\ entries' \in [Files -> {"none", "mapped", "stored", "bare"}]
         /\ files' = files \ Linked
         /\ Mapped' = Mapped \ (Linked \cap files)
         /\ ~known' /\ known' \in BOOLEAN /\ links' = NoKey /\ ~revived' /\ revived' \in BOOLEAN
         /\ Linked' = {}
         /\ removed' \in SUBSET Files
         /\ UpdateHasEntries'
  <1> DEFINE gone == Linked \cap files
  <1>1. gone \in SUBSET Files
    BY LinkedType DEF MFIInv
  <1>2. RemoveEntries(gone) /\ DropProject
        /\ removed' = IF update = Idle THEN removed ELSE removed \cup (gone \cap update.links)
    BY DEF DelProject
  <1>3. /\ entries' \in [Files -> {"none", "mapped", "stored", "bare"}]
        /\ files' = files \ gone
        /\ Mapped' = Mapped \ gone
        /\ \A f \in Files \ gone : entries'[f] = entries[f]
    BY <1>1, <1>2, RemoveEntriesIs DEF MFIInv
  <1>4. UpdateHasEntries'
    BY <1>1, <1>2, <1>3 DEF MFIInv, MFTypeOK, UpdateHasEntries
  <1>5. QED
    BY <1>1, <1>2, <1>3, <1>4 DEF DropProject, Linked, MFIInv, MFTypeOK

\* The deletion of the project on its own.
LEMMA DelKnownProjectIInv ==
  ASSUME MFIInv, DelKnownProject
  PROVE  MFIInv'
  <1>1. DelProject /\ strays' = strays \cap files'
        /\ UNCHANGED <<exists, download, update, page>>
    BY DEF DelKnownProject, processes
  <1>2. QED
    BY <1>1, DelProjectIs DEF MFIInv, MFTypeOK, FilesCanBeDeleted, LinksHaveEntry,
                              KnownHasLinks, LinkedIsKnown

\* The deletion of the index: files which are not linked have been given up before.
LEMMA DeleteIndexIInv ==
  ASSUME MFIInv, DeleteIndex
  PROVE  MFIInv'
  <1>1. /\ exists' = FALSE /\ strays' = (strays \cap files') \cup (files \ Linked)
        /\ UNCHANGED <<download, update, page>>
    BY DEF DeleteIndex, processes
  <1>2. CASE known
    <2>1. DelProject
      BY <1>2 DEF DeleteIndex
    <2>2. QED
      BY <1>1, <2>1, DelProjectIs DEF MFIInv, MFTypeOK, FilesCanBeDeleted, LinksHaveEntry,
                                      KnownHasLinks, LinkedIsKnown
  <1>3. CASE ~known
    <2>1. UNCHANGED <<known, links, entries, files, removed, revived>> /\ Linked = {}
      BY <1>3 DEF DeleteIndex, MFIInv, LinkedIsKnown
    <2>2. QED
      BY <1>1, <1>3, <2>1 DEF MFIInv, MFTypeOK, FilesCanBeDeleted, LinksHaveEntry, KnownHasLinks,
                              UpdateHasEntries, LinkedIsKnown, Linked, Mapped
  <1>4. QED
    BY <1>2, <1>3

\* Every step preserves the invariant.
LEMMA MFNextIInv == MFIInv /\ [MFNext]_mfvars => MFIInv'
  <1> SUFFICES ASSUME MFIInv, [MFNext]_mfvars
               PROVE  MFIInv'
    OBVIOUS
  <1>1. CASE PageChanges
    BY <1>1 DEF PageChanges, history, MFIInv, MFTypeOK, FilesCanBeDeleted, LinksHaveEntry,
                KnownHasLinks, UpdateHasEntries, LinkedIsKnown, Linked, Mapped
  <1>2. CASE UpdateBegins
    <2>1. update' = [links |-> Linked] /\ Linked \in SUBSET Files
          /\ UNCHANGED <<exists, known, links, entries, files, download, page,
                         strays, removed, revived>>
      BY <1>2, LinkedType DEF UpdateBegins, history, MFIInv
    <2>2. UpdateHasEntries'
      BY <2>1 DEF MFIInv, LinksHaveEntry, UpdateHasEntries
    <2>3. QED
      BY <2>1, <2>2 DEF MFIInv, MFTypeOK, FilesCanBeDeleted, LinksHaveEntry, KnownHasLinks,
                        LinkedIsKnown, Linked, Mapped
  <1>3. CASE UpdateEnds
    <2>1. /\ SaveLinks(update.links) /\ update # Idle /\ update' = Idle
          /\ UNCHANGED <<exists, files, download, page>>
      BY <1>3 DEF UpdateEnds
    <2>2. update.links \in SUBSET Files
          /\ \A f \in update.links : entries[f] # "none" \/ f \in removed
      BY <2>1 DEF MFIInv, MFTypeOK, UpdateHasEntries
    <2>3. QED
      BY <2>1, <2>2, SaveLinksIInv
  <1>4. CASE UpdateChangesNothing
    BY <1>4 DEF UpdateChangesNothing, history, MFIInv, MFTypeOK, FilesCanBeDeleted,
                LinksHaveEntry, KnownHasLinks, UpdateHasEntries, LinkedIsKnown, Linked, Mapped
  <1>5. CASE SimpleRefresh
    <2>1. UNCHANGED <<exists, files, download, update, page>>
      BY <1>5 DEF SimpleRefresh
    <2>2. CASE SaveLinks({})
      BY <2>1, <2>2, SaveLinksIInv
    <2>3. CASE links' = Cleared /\ UNCHANGED <<known, entries>> /\ UNCHANGED history
      <3>1. Linked' = {}
        BY <2>3 DEF Linked
      <3>2. QED
        BY <2>1, <2>3, <3>1, MirrorFilesConstants
           DEF history, MFIInv, MFTypeOK, FilesCanBeDeleted, LinksHaveEntry,
               KnownHasLinks, UpdateHasEntries, LinkedIsKnown, Mapped
    <2>4. QED
      BY <1>5, <2>2, <2>3 DEF SimpleRefresh
  <1>6. ASSUME NEW c \in Clients, Request(c)
        PROVE  MFIInv'
    <2>1. download' \in [Clients -> {Idle} \cup [file : Files, entry : {"mapped", "stored"}]]
      BY <1>6 DEF Request, MFIInv, MFTypeOK, Mapped
    <2>2. UNCHANGED <<exists, known, links, entries, files, update, page,
                      strays, removed, revived>>
      BY <1>6 DEF Request, history
    <2>3. QED
      BY <2>1, <2>2 DEF MFIInv, MFTypeOK, FilesCanBeDeleted, LinksHaveEntry, KnownHasLinks,
                        UpdateHasEntries, LinkedIsKnown, Linked, Mapped
  <1>7. ASSUME NEW c \in Clients, Store(c) \/ PutBack(c) \/ DownloadFails(c)
        PROVE  MFIInv'
    BY <1>7, DownloadIInv
  <1>8. ASSUME NEW f \in Files, DelEntry(f)
        PROVE  MFIInv'
    BY <1>8, DelEntryIInv
  <1>9. ASSUME NEW f \in Files, DelVersion(Version[f])
        PROVE  MFIInv'
    BY <1>9 DEF DelVersion, processes, MFIInv, MFTypeOK, FilesCanBeDeleted, LinksHaveEntry,
                KnownHasLinks, UpdateHasEntries, LinkedIsKnown, Linked, Mapped
  <1>10. CASE DelKnownProject
    BY <1>10, DelKnownProjectIInv
  <1>11. CASE DeleteIndex
    BY <1>11, DeleteIndexIInv
  <1>12. CASE CreateIndex
    BY <1>12 DEF CreateIndex, processes, history, MFIInv, MFTypeOK, FilesCanBeDeleted,
                 LinksHaveEntry, KnownHasLinks, UpdateHasEntries, LinkedIsKnown, Linked, Mapped
  <1>13. CASE UNCHANGED mfvars
    BY <1>13 DEF mfvars, MFIInv, MFTypeOK, FilesCanBeDeleted, LinksHaveEntry, KnownHasLinks,
                 UpdateHasEntries, LinkedIsKnown, Linked, Mapped
  <1>14. QED
    BY <1>1, <1>2, <1>3, <1>4, <1>5, <1>6, <1>7, <1>8, <1>9, <1>10, <1>11, <1>12, <1>13
       DEF MFNext

\* The invariant holds in every reachable state.
THEOREM MFInvariance == MFSpec => []MFIInv
  <1>1. QED
    BY MFInitIInv, MFNextIInv, PTL DEF MFSpec

\* Every file of a mirror on disk can be deleted with its index, apart from those whose
\* download has ended after their deletion and those which had lost their link.
THEOREM Deletable == MFSpec => []FilesCanBeDeleted
  <1>1. MFIInv => FilesCanBeDeleted
    BY DEF MFIInv
  <1>2. QED
    BY <1>1, MFInvariance, PTL

\* A link of a mirror has an entry to download its file by, unless the file was deleted on
\* its own or while an update was on its way.
THEOREM Downloadable == MFSpec => []LinksHaveEntry
  <1>1. MFIInv => LinksHaveEntry
    BY DEF MFIInv
  <1>2. QED
    BY <1>1, MFInvariance, PTL

\* A project which a mirror lists has links, so that it and its index can be deleted, unless
\* a download has brought it back.
THEOREM ListedHasLinks == MFSpec => []KnownHasLinks
  <1>1. MFIInv => KnownHasLinks
    BY DEF MFIInv
  <1>2. QED
    BY <1>1, MFInvariance, PTL
=============================================================================
