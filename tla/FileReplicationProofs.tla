------------------------- MODULE FileReplicationProofs -------------------------
(***************************************************************************)
(* Proofs about FileReplication: for any files, threads, visitors, limits  *)
(* and kills a deleted file which stays has one of the known reasons, and  *)
(* so has a file which is forgotten once the initial queueing is done.     *)
(***************************************************************************)
EXTENDS FileReplication, TLAPS, FiniteSetTheorems, SequenceTheorems

USE DEF history

-----------------------------------------------------------------------------
(* The last change of a path.                                              *)

LEMMA Appended ==
    ASSUME TypeOK, Commit
    PROVE  /\ rows' \in Seq(Change) /\ Len(rows') = Len(rows) + 1
           /\ \A s \in 1 .. Len(rows) : rows'[s] = rows[s]
<1>1. PICK h \in Histories : /\ Len(rows) < Len(h) /\ rows = SubSeq(h, 1, Len(rows))
                             /\ rows' = SubSeq(h, 1, Len(rows) + 1)
  BY Zenon DEF Commit
<1>2. h \in Seq(Change) /\ Len(rows) \in Nat
  BY FileReplicationConstants DEF TypeOK
<1>3. \A n \in Nat : n <= Len(h) =>
        /\ SubSeq(h, 1, n) \in Seq(Change)
        /\ Len(SubSeq(h, 1, n)) = n
        /\ \A s \in 1 .. n : SubSeq(h, 1, n)[s] = h[s]
  <2> SUFFICES ASSUME NEW n \in Nat, n <= Len(h)
               PROVE  /\ SubSeq(h, 1, n) \in Seq(Change)
                      /\ Len(SubSeq(h, 1, n)) = n
                      /\ \A s \in 1 .. n : SubSeq(h, 1, n)[s] = h[s]
    OBVIOUS
  <2>1. \A i \in 1 .. n : h[i] \in Change
    BY <1>2
  <2> QED
    BY <2>1, SubSeqProperties, SMT
<1>4. Len(rows) + 1 \in Nat /\ Len(rows) + 1 <= Len(h) /\ Len(rows) <= Len(h)
  BY <1>1, <1>2
<1>5. /\ rows' \in Seq(Change) /\ Len(rows') = Len(rows) + 1
      /\ \A s \in 1 .. Len(rows) + 1 : rows'[s] = h[s]
      /\ \A s \in 1 .. Len(rows) : rows[s] = h[s]
  BY <1>1, <1>2, <1>3, <1>4
<1> QED
  BY <1>2, <1>4, <1>5

LEMMA Latest ==
    ASSUME TypeOK, HasGreatest, NEW p, NEW n \in 0 .. Len(rows)
    PROVE  /\ LatestAt(p, n) \in 0 .. n
           /\ LatestAt(p, n) # 0 => rows[LatestAt(p, n)].path = p
           /\ \A s \in 1 .. n : rows[s].path = p => s <= LatestAt(p, n)
<1> DEFINE S == {s \in 1 .. n : rows[s].path = p}
<1>1. Len(rows) \in Nat
  BY DEF TypeOK
<1>2. PICK g \in {0} \cup S : \A s \in {0} \cup S : s <= g
  <2>1. CASE S = {}
    BY <2>1
  <2>2. CASE S # {}
    <3>1. S \in SUBSET (1 .. Len(rows))
      BY <1>1
    <3>2. PICK g \in S : \A s \in S : s <= g
      BY <2>2, <3>1 DEF HasGreatest
    <3> QED
      BY <3>1, <3>2, <1>1
  <2> QED
    BY <2>1, <2>2
<1>3. LatestAt(p, n) \in {0} \cup S /\ \A s \in {0} \cup S : LatestAt(p, n) >= s
  <2>1. \E x \in {0} \cup S : \A y \in {0} \cup S : x >= y
    BY <1>1, <1>2
  <2>2. LatestAt(p, n) = CHOOSE x \in {0} \cup S : \A y \in {0} \cup S : x >= y
    BY Zenon DEF LatestAt, Max
  <2> HIDE DEF S
  <2> QED
    BY <2>1, <2>2
<1> QED
  BY <1>1, <1>3

LEMMA LatestIs ==
    ASSUME TypeOK, HasGreatest, NEW p, NEW n \in 0 .. Len(rows), NEW l \in 0 .. n,
           l # 0 => rows[l].path = p, \A s \in 1 .. n : rows[s].path = p => s <= l
    PROVE  LatestAt(p, n) = l
<1>1. Len(rows) \in Nat
  BY DEF TypeOK
<1> QED
  BY <1>1, Latest

LEMMA SameLatest ==
    ASSUME TypeOK, NEW p, NEW n \in 0 .. Len(rows),
           \A s \in 1 .. Len(rows) : rows'[s] = rows[s]
    PROVE  LatestAt(p, n)' = LatestAt(p, n)
<1>1. {s \in 1 .. n : rows'[s].path = p} = {s \in 1 .. n : rows[s].path = p}
  <2>1. Len(rows) \in Nat
    BY DEF TypeOK
  <2> QED
    BY <2>1
<1> QED
  BY <1>1 DEF LatestAt

-----------------------------------------------------------------------------
(* What is pending.                                                        *)

LEMMA PendingIs ==
    ASSUME NEW s
    PROVE  s \in Pending <=>
                \/ \E item \in queue : item.serial = s
                \/ s \in errors
                \/ \E t \in Threads : worker[t].pc # "idle" /\ worker[t].serial = s
BY DEF Pending

LEMMA WorkType ==
    ASSUME TypeOK, NEW w \in Workers
    PROVE  /\ worker[w].serial \in 0 .. imported
           /\ worker[w].pc \in {"idle", "handle", "remove", "check", "download"}
           /\ imported \in Nat /\ Len(rows) \in Nat /\ imported <= Len(rows)
<1>1. worker[w] \in Work
  BY DEF TypeOK
<1> QED
  BY <1>1 DEF TypeOK, Work

LEMMA GotoStep ==
    ASSUME TypeOK, NEW w \in Workers, NEW place \in {"remove", "check", "download"},
           Goto(w, place)
    PROVE  /\ worker' \in [Workers -> Work]
           /\ worker'[w].pc = place /\ worker'[w].serial = worker[w].serial
           /\ \A u \in Workers : u # w => worker'[u] = worker[u]
<1>1. worker \in [Workers -> Work] /\ worker[w] \in Work
  BY DEF TypeOK
<1> DEFINE y == [worker[w] EXCEPT !.pc = place]
<1>2. y \in Work /\ y.pc = place /\ y.serial = worker[w].serial
  BY <1>1 DEF Work
<1>3. worker' = [worker EXCEPT ![w] = y]
  BY DEF Goto
<1> HIDE DEF y
<1> QED
  BY <1>1, <1>2, <1>3

LEMMA FinishStep ==
    ASSUME TypeOK, NEW w \in Workers, Finish(w)
    PROVE  /\ worker' \in [Workers -> Work]
           /\ worker'[w] = Idle /\ Idle.pc = "idle"
           /\ \A u \in Workers : u # w => worker'[u] = worker[u]
<1>1. Idle \in Work /\ Idle.pc = "idle"
  BY DEF Idle, Work, TypeOK
<1> QED
  BY <1>1 DEF TypeOK, Finish

LEMMA GotoPending ==
    ASSUME TypeOK, NEW t \in Threads, NEW place \in {"remove", "check", "download"},
           Goto(t, place), worker[t].pc # "idle", UNCHANGED queues
    PROVE  Pending' = Pending
<1>1. t \in Workers /\ Threads \subseteq Workers
  BY DEF Workers
<1>2. \A u \in Threads : /\ worker'[u].pc # "idle" <=> worker[u].pc # "idle"
                         /\ worker'[u].serial = worker[u].serial
  BY <1>1, GotoStep
<1>3. {worker'[u].serial : u \in {x \in Threads : worker'[x].pc # "idle"}} =
      {worker[u].serial : u \in {x \in Threads : worker[x].pc # "idle"}}
  BY <1>2
<1> QED
  BY <1>3 DEF Pending, queues

LEMMA FinishPending ==
    ASSUME TypeOK, NEW t \in Threads, Finish(t), UNCHANGED queues
    PROVE  Pending' \subseteq Pending /\ Pending \subseteq Pending' \cup {worker[t].serial}
<1>1. t \in Workers /\ Threads \subseteq Workers
  BY DEF Workers
<1>2. /\ worker'[t].pc = "idle"
      /\ \A u \in Threads : u # t => worker'[u] = worker[u]
  BY <1>1, FinishStep
<1> QED
  BY <1>2 DEF Pending, queues

LEMMA VisitorPending ==
    ASSUME NEW v \in Visitors, UNCHANGED queues,
           \A u \in Workers : u # v => worker'[u] = worker[u]
    PROVE  Pending' = Pending
<1>1. \A u \in Threads : worker'[u] = worker[u]
  BY FileReplicationConstants DEF Workers
<1>2. {worker'[u].serial : u \in {x \in Threads : worker'[x].pc # "idle"}} =
      {worker[u].serial : u \in {x \in Threads : worker[x].pc # "idle"}}
  BY <1>1
<1> QED
  BY <1>2 DEF Pending, queues

-----------------------------------------------------------------------------
(* Steps of the workers.                                                   *)

\* The deletion of a file which is there goes on, or it is known why it does not.
LEMMA OrphansKept ==
    ASSUME IInv, UNCHANGED <<rows, imported, announced>>, excused \subseteq excused',
           \A p \in files' : \/ p \in files
                             \/ WasDeleted(p, imported) => LatestAt(p, imported) \in excused',
           \A s \in Pending : \/ s \in Pending' \cup excused'
                              \/ ~IsDeletion(s) \/ rows[s].path \notin files',
           \A s \in refused' : s \in refused \/ rows[s].path \in MirrorFiles
    PROVE  OrphansExplained' /\ HasGreatest' /\ RefusedByMirrors'
<1>1. HasGreatest' /\ RefusedByMirrors'
  BY DEF IInv, HasGreatest, RefusedByMirrors
<1>2. OrphansExplained'
  <2> SUFFICES ASSUME NEW p \in files', WasDeleted(p, imported),
                      LatestAt(p, imported) <= announced,
                      LatestAt(p, imported) \notin excused'
               PROVE  LatestAt(p, imported) \in Pending'
    BY DEF OrphansExplained, WasDeleted, LatestAt, IsDeletion
  <2>1. p \in files /\ LatestAt(p, imported) \notin excused
    OBVIOUS
  <2>2. LatestAt(p, imported) \in Pending
    BY <2>1 DEF IInv, OrphansExplained
  <2>3. LatestAt(p, imported) # 0 /\ IsDeletion(LatestAt(p, imported))
    BY DEF WasDeleted
  <2>4. rows[LatestAt(p, imported)].path = p
    BY <2>3, Latest DEF IInv, TypeOK
  <2> QED
    BY <2>2, <2>3, <2>4
<1> QED
  BY <1>1, <1>2

\* A file stays and its last change is not lost sight of, or it is known why.
LEMMA NothingMissedKept ==
    ASSUME IInv, UNCHANGED <<rows, imported, announced, inSync, initialQueue>>,
           \A p \in files : \/ p \in files'
                            \/ HasFile(p, imported) => LatestAt(p, imported) \in
                                    Pending' \cup remaining \cup undone',
           \A s \in Pending \cup refused \cup undone :
                \/ s \in Pending' \cup refused' \cup undone'
                \/ rows[s].kind # "file" \/ rows[s].path \in files'
                \/ \E r \in 1 .. Len(rows) : rows[r].path = rows[s].path /\ r > s
    PROVE  NothingMissed'
<1>1. Len(rows) \in Nat /\ imported \in Nat /\ announced \in Nat
      /\ imported <= Len(rows) /\ announced <= imported
  BY DEF IInv, TypeOK
<1>2. ASSUME NEW p \in Paths, HasFile(p, Len(rows)), LatestAt(p, Len(rows)) <= announced
      PROVE  LookedAt(p)'
  <2> DEFINE l == LatestAt(p, Len(rows))
  <2>1. LookedAt(p)
    BY <1>2 DEF IInv, NothingMissed
  <2>2. /\ l \in 0 .. Len(rows) /\ l # 0 /\ rows[l].path = p /\ rows[l].kind = "file"
        /\ \A s \in 1 .. Len(rows) : rows[s].path = p => s <= l
    BY <1>1, <1>2, Latest DEF IInv, HasFile
  <2>3. l <= announced /\ l' = l
    BY <1>2 DEF LatestAt
  <2>4. /\ LookedAt(p) <=> \/ initial \in {"starting", "waiting", "notified"}
                           \/ initial = "begun" /\ l <= snapshot
                           \/ l \in remaining \/ p \in files
                           \/ l \in Pending \cup refused \cup undone
        /\ LookedAt(p)' <=> \/ initial' \in {"starting", "waiting", "notified"}
                            \/ initial' = "begun" /\ l <= snapshot'
                            \/ l \in remaining' \/ p \in files'
                            \/ l \in Pending' \cup refused' \cup undone'
    BY <2>3 DEF LookedAt
  <2>5. initial' = initial /\ snapshot' = snapshot /\ remaining' = remaining
    BY DEF initialQueue
  <2> HIDE DEF l
  <2>6. LatestAt(p, imported) = l
    BY <1>1, <2>2, <2>3, LatestIs DEF IInv
  <2>7. HasFile(p, imported)
    BY <2>2, <2>6 DEF HasFile
  <2>8. \A r \in 1 .. Len(rows) : ~(rows[r].path = rows[l].path /\ r > l)
    BY <1>1, <2>2
  <2> QED
    BY <2>1, <2>2, <2>4, <2>5, <2>6, <2>7, <2>8
<1> QED
  BY <1>2 DEF IInv, NothingMissed, HasFile, LatestAt, initialQueue

LEMMA WorkTarget ==
    ASSUME TypeOK, Handling, NEW w \in Workers, worker[w].pc # "idle"
    PROVE  worker[w].serial \in 1 .. imported /\ Target(w) \in Paths
<1>1. worker[w].serial \in 1 .. imported /\ imported <= Len(rows) /\ Len(rows) \in Nat
  BY WorkType DEF Handling
<1>2. rows[worker[w].serial] \in Change
  BY <1>1 DEF TypeOK
<1> QED
  BY <1>1, <1>2 DEF Target, Change

LEMMA WorkTypes ==
    ASSUME TypeOK, UNCHANGED <<rows, imported, announced, inSync, initialQueue, crashes>>,
           files' \subseteq Paths, excused' \cup refused' \cup undone' \subseteq 1 .. imported,
           queue' \subseteq Item,
           Pending' \subseteq Pending, worker' \in [Workers -> Work],
           deleted' \subseteq Paths \X (1 .. imported), IsFiniteSet(deleted'),
           Cardinality(deleted') <= DeletedSize
    PROVE  TypeOK'
BY DEF TypeOK, initialQueue, Work

LEMMA PutType ==
    ASSUME TypeOK, NEW p \in Paths, NEW s \in 1 .. imported, NEW D \in Put(p, s)
    PROVE  /\ D \subseteq deleted \cup {<<p, s>>}
           /\ IsFiniteSet(D) /\ Cardinality(D) <= DeletedSize
<1> DEFINE O == Without(p)
<1>1. O \subseteq deleted
  BY DEF Without
<1>2. /\ IsFiniteSet(O) /\ Cardinality(O) <= DeletedSize
      /\ Cardinality(O) \in Nat /\ DeletedSize \in Nat
  <2>1. IsFiniteSet(deleted) /\ Cardinality(deleted) <= DeletedSize
    BY DEF TypeOK
  <2>2. IsFiniteSet(O) /\ Cardinality(O) <= Cardinality(deleted)
    BY <1>1, <2>1, FS_Subset
  <2>3. Cardinality(O) \in Nat /\ Cardinality(deleted) \in Nat
    BY <2>1, <2>2, FS_CardinalityType
  <2> QED
    BY <2>1, <2>2, <2>3, FileReplicationConstants
<1>3. ASSUME NEW R, IsFiniteSet(R), Cardinality(R) \in Nat, Cardinality(R) < DeletedSize
      PROVE  IsFiniteSet(R \cup {<<p, s>>}) /\ Cardinality(R \cup {<<p, s>>}) <= DeletedSize
  <2>1. /\ IsFiniteSet(R \cup {<<p, s>>})
        /\ Cardinality(R \cup {<<p, s>>}) = IF <<p, s>> \in R THEN Cardinality(R)
                                            ELSE Cardinality(R) + 1
    BY <1>3, FS_AddElement
  <2> QED
    BY <1>2, <1>3, <2>1
<1>4. CASE Cardinality(O) < DeletedSize
  <2>1. D = O \cup {<<p, s>>}
    BY <1>4 DEF Put
  <2> QED
    BY <1>1, <1>2, <1>3, <1>4, <2>1
<1>5. CASE ~(Cardinality(O) < DeletedSize)
  <2>1. PICK d \in O : D = (O \ {d}) \cup {<<p, s>>}
    BY <1>5 DEF Put
  <2>2. IsFiniteSet(O \ {d}) /\ Cardinality(O \ {d}) = Cardinality(O) - 1
    BY <1>2, FS_RemoveElement
  <2>3. Cardinality(O \ {d}) \in Nat /\ Cardinality(O \ {d}) < DeletedSize
    BY <1>2, <2>2, FS_CardinalityType
  <2> QED
    BY <1>1, <1>3, <2>1, <2>2, <2>3
<1> QED
  BY <1>4, <1>5

LEMMA HandlingKept ==
    ASSUME Handling, UNCHANGED rows, NEW w \in Workers,
           \A u \in Workers : u # w => worker'[u] = worker[u],
           worker'[w].pc # "idle" => worker'[w].serial # 0,
           worker'[w].pc \in {"check", "download"} => ~IsDeletion(worker'[w].serial),
           worker'[w].pc = "remove" => IsDeletion(worker'[w].serial),
           w \in Visitors => worker'[w].pc \in {"idle", "download"}
    PROVE  Handling'
BY DEF Handling, IsDeletion

\* A thread takes an item, from either queue.
LEMMA TakeStep ==
    ASSUME IInv, NEW t \in Threads, TakeNext(t) \/ TakeErrored(t)
    PROVE  IInv'
<1>0. t \in Workers /\ Threads \subseteq Workers /\ t \notin Visitors
  BY FileReplicationConstants DEF Workers
<1>1. PICK serial \in Pending, from \in {"queue", "errors"} :
        /\ worker' = [worker EXCEPT ![t] = [pc |-> "handle", serial |-> serial, from |-> from]]
        /\ queue' \subseteq queue /\ errors' \subseteq errors
        /\ \A item \in queue : item \in queue' \/ item.serial = serial
        /\ \A e \in errors : e \in errors' \/ e = serial
        /\ worker[t].pc = "idle"
        /\ UNCHANGED <<rows, imported, files, announced, inSync, deleted, initialQueue,
                       crashes, history>>
  <2>1. CASE TakeNext(t)
    <3>1. PICK item \in queue : /\ queue' = queue \ {item}
                                /\ worker' = [worker EXCEPT ![t] =
                                     [pc |-> "handle", serial |-> item.serial, from |-> "queue"]]
      BY <2>1 DEF TakeNext
    <3>2. item.serial \in Pending
      BY <3>1, PendingIs
    <3> QED
      BY <2>1, <3>1, <3>2 DEF TakeNext
  <2>2. CASE TakeErrored(t)
    <3>1. PICK serial \in errors : /\ errors' = errors \ {serial}
                                   /\ worker' = [worker EXCEPT ![t] =
                                        [pc |-> "handle", serial |-> serial, from |-> "errors"]]
      BY <2>2 DEF TakeErrored
    <3>2. serial \in Pending
      BY <3>1, PendingIs
    <3> QED
      BY <2>2, <3>1, <3>2 DEF TakeErrored
  <2> QED
    BY <2>1, <2>2
<1>2. serial \in 1 .. imported /\ [pc |-> "handle", serial |-> serial, from |-> from] \in Work
  BY DEF IInv, TypeOK, Work
<1>3. /\ worker' \in [Workers -> Work]
      /\ worker'[t].pc = "handle" /\ worker'[t].serial = serial
      /\ \A u \in Workers : u # t => worker'[u] = worker[u]
  BY <1>0, <1>1, <1>2 DEF IInv, TypeOK
<1>4. Pending' = Pending
  <2>1. \A s : s \in Pending' => s \in Pending
    BY <1>0, <1>1, <1>3 DEF Pending
  <2>2. \A s : s \in Pending => s \in Pending'
    BY <1>0, <1>1, <1>3 DEF Pending
  <2> QED
    BY <2>1, <2>2
<1>5. TypeOK'
  BY <1>1, <1>3, <1>4, WorkTypes DEF IInv, TypeOK
<1>6. Handling'
  BY <1>0, <1>1, <1>2, <1>3, HandlingKept DEF IInv
<1>7. DeletionsCached'
  BY <1>1 DEF IInv, DeletionsCached, IsDeletion
<1>8. OrphansExplained' /\ HasGreatest' /\ RefusedByMirrors'
  BY <1>1, <1>4, OrphansKept
<1>9. NothingMissed'
  BY <1>1, <1>4, NothingMissedKept
<1> QED
  BY <1>5, <1>6, <1>7, <1>8, <1>9 DEF IInv

\* The handling of a deletion begins.
LEMMA HandleDeletionStep ==
    ASSUME IInv, NEW t \in Threads, Handle(t), IsDeletion(worker[t].serial)
    PROVE  IInv'
<1>0. t \in Workers /\ t \notin Visitors
  BY FileReplicationConstants DEF Workers
<1>1. /\ worker[t].pc = "handle" /\ Goto(t, "remove")
      /\ deleted' \in Put(Target(t), worker[t].serial)
      /\ UNCHANGED <<rows, imported, files, announced, inSync, queues, initialQueue,
                     crashes, history>>
  BY DEF Handle
<1>2. worker[t].serial \in 1 .. imported /\ Target(t) \in Paths
  BY <1>0, <1>1, WorkTarget DEF IInv
<1>3. /\ worker' \in [Workers -> Work]
      /\ worker'[t].pc = "remove" /\ worker'[t].serial = worker[t].serial
      /\ \A u \in Workers : u # t => worker'[u] = worker[u]
  BY <1>0, <1>1, GotoStep DEF IInv
<1>4. Pending' = Pending
  BY <1>1, GotoPending DEF IInv
<1>5. /\ deleted' \subseteq deleted \cup {<<Target(t), worker[t].serial>>}
      /\ IsFiniteSet(deleted') /\ Cardinality(deleted') <= DeletedSize
  BY <1>1, <1>2, PutType DEF IInv
<1>6. TypeOK'
  <2>1. deleted' \subseteq Paths \X (1 .. imported)
    BY <1>2, <1>5 DEF IInv, TypeOK
  <2> QED
    BY <1>1, <1>3, <1>4, <1>5, <2>1, WorkTypes DEF IInv, TypeOK, queues
<1>7. Handling'
  BY <1>0, <1>1, <1>2, <1>3, HandlingKept DEF IInv
<1>8. DeletionsCached'
  BY <1>1, <1>5 DEF IInv, DeletionsCached, IsDeletion, Target
<1>9. OrphansExplained' /\ HasGreatest' /\ RefusedByMirrors'
  BY <1>1, <1>4, OrphansKept
<1>10. NothingMissed'
  BY <1>1, <1>4, NothingMissedKept
<1> QED
  BY <1>6, <1>7, <1>8, <1>9, <1>10 DEF IInv

\* A change which is not later than a deletion is skipped.
LEMMA SkipStep ==
    ASSUME IInv, NEW t \in Threads, Handle(t), ~IsDeletion(worker[t].serial),
           \E s \in Cached(Target(t)) : worker[t].serial <= s
    PROVE  IInv'
<1>0. t \in Workers /\ t \notin Visitors
  BY FileReplicationConstants DEF Workers
<1>1. /\ worker[t].pc = "handle" /\ Finish(t)
      /\ UNCHANGED <<rows, imported, files, announced, inSync, queues, initialQueue,
                     crashes, history, deleted>>
  BY DEF Handle
<1>2. /\ worker' \in [Workers -> Work] /\ worker'[t].pc = "idle"
      /\ \A u \in Workers : u # t => worker'[u] = worker[u]
  BY <1>0, <1>1, FinishStep DEF IInv
<1>3. Pending' \subseteq Pending /\ Pending \subseteq Pending' \cup {worker[t].serial}
  BY <1>1, FinishPending DEF IInv
<1>4. TypeOK'
  BY <1>1, <1>2, <1>3, WorkTypes DEF IInv, TypeOK, queues
<1>5. Handling'
  BY <1>0, <1>1, <1>2, HandlingKept DEF IInv
<1>6. DeletionsCached'
  BY <1>1 DEF IInv, DeletionsCached, IsDeletion
<1>7. OrphansExplained' /\ HasGreatest' /\ RefusedByMirrors'
  BY <1>1, <1>3, OrphansKept
<1>8. \E r \in 1 .. Len(rows) : rows[r].path = Target(t) /\ r > worker[t].serial
  <2>1. PICK d \in deleted : d[1] = Target(t) /\ worker[t].serial <= d[2]
    BY DEF Cached
  <2>2. d[2] \in 1 .. imported /\ rows[d[2]].path = Target(t) /\ IsDeletion(d[2])
    BY <2>1 DEF IInv, TypeOK, DeletionsCached
  <2>3. worker[t].serial \in 0 .. imported /\ imported \in Nat /\ imported <= Len(rows)
        /\ Len(rows) \in Nat
    BY <1>0, WorkType DEF IInv
  <2>4. d[2] # worker[t].serial
    BY <2>2
  <2> QED
    BY <2>1, <2>2, <2>3, <2>4
<1>9. NothingMissed'
  BY <1>1, <1>3, <1>8, NothingMissedKept DEF Target
<1> QED
  BY <1>4, <1>5, <1>6, <1>7, <1>9 DEF IInv

\* A later change makes the thread forget the deletion.
LEMMA ForgetStep ==
    ASSUME IInv, NEW t \in Threads, Handle(t), ~IsDeletion(worker[t].serial),
           ~\E s \in Cached(Target(t)) : worker[t].serial <= s
    PROVE  IInv'
<1>0. t \in Workers /\ t \notin Visitors
  BY FileReplicationConstants DEF Workers
<1>1. /\ worker[t].pc = "handle" /\ Goto(t, "check") /\ deleted' \subseteq deleted
      /\ UNCHANGED <<rows, imported, files, announced, inSync, queues, initialQueue,
                     crashes, history>>
  BY DEF Handle, Without
<1>2. worker[t].serial \in 1 .. imported
  BY <1>0, <1>1, WorkTarget DEF IInv
<1>3. /\ worker' \in [Workers -> Work]
      /\ worker'[t].pc = "check" /\ worker'[t].serial = worker[t].serial
      /\ \A u \in Workers : u # t => worker'[u] = worker[u]
  BY <1>0, <1>1, GotoStep DEF IInv
<1>4. Pending' = Pending
  BY <1>1, GotoPending DEF IInv
<1>5. IsFiniteSet(deleted') /\ Cardinality(deleted') <= DeletedSize
  <2>1. IsFiniteSet(deleted) /\ Cardinality(deleted) <= DeletedSize
    BY DEF IInv, TypeOK
  <2>2. IsFiniteSet(deleted') /\ Cardinality(deleted') <= Cardinality(deleted)
    BY <1>1, <2>1, FS_Subset
  <2>3. Cardinality(deleted) \in Nat /\ Cardinality(deleted') \in Nat
    BY <2>1, <2>2, FS_CardinalityType
  <2> QED
    BY <2>1, <2>2, <2>3, FileReplicationConstants
<1>6. TypeOK'
  BY <1>1, <1>3, <1>4, <1>5, WorkTypes DEF IInv, TypeOK, queues
<1>7. Handling'
  BY <1>0, <1>1, <1>2, <1>3, HandlingKept DEF IInv
<1>8. DeletionsCached'
  BY <1>1 DEF IInv, DeletionsCached, IsDeletion
<1>9. OrphansExplained' /\ HasGreatest' /\ RefusedByMirrors'
  BY <1>1, <1>4, OrphansKept
<1>10. NothingMissed'
  BY <1>1, <1>4, NothingMissedKept
<1> QED
  BY <1>6, <1>7, <1>8, <1>9, <1>10 DEF IInv

LEMMA HandleStep ==
    ASSUME IInv, NEW t \in Threads, Handle(t)
    PROVE  IInv'
BY HandleDeletionStep, SkipStep, ForgetStep

\* A file whose deletion is handled is gone, or it could not be removed.
LEMMA RemoveStep ==
    ASSUME IInv, NEW t \in Threads, Remove(t)
    PROVE  IInv'
<1>0. t \in Workers /\ t \notin Visitors
  BY FileReplicationConstants DEF Workers
<1>1. /\ worker[t].pc = "remove" /\ Finish(t)
      /\ \/ /\ files' = files \ {Target(t)} /\ excused' = excused
            /\ undone' = undone \cup Undone(Target(t))
         \/ /\ files' = files /\ undone' = undone
            /\ excused' = excused \cup {worker[t].serial}
      /\ UNCHANGED <<rows, imported, announced, inSync, queues, initialQueue,
                     crashes, refused, deleted>>
  BY DEF Remove
<1>2. /\ worker' \in [Workers -> Work] /\ worker'[t].pc = "idle"
      /\ \A u \in Workers : u # t => worker'[u] = worker[u]
  BY <1>0, <1>1, FinishStep DEF IInv
<1>3. Pending' \subseteq Pending /\ Pending \subseteq Pending' \cup {worker[t].serial}
  BY <1>1, FinishPending DEF IInv
<1>4. worker[t].serial \in 1 .. imported /\ IsDeletion(worker[t].serial)
  BY <1>0, <1>1, WorkTarget DEF IInv, Handling
<1>5. /\ imported \in Nat /\ imported <= Len(rows) /\ Len(rows) \in Nat
      /\ \A p : LatestAt(p, imported) \in 0 .. imported
  BY <1>0, WorkType, Latest DEF IInv
<1>6. Undone(Target(t)) \subseteq 1 .. imported
  BY <1>5 DEF Undone, HasFile
<1>7. TypeOK'
  <2>1. excused' \cup refused' \cup undone' \subseteq 1 .. imported
    BY <1>1, <1>4, <1>6 DEF IInv, TypeOK
  <2>2. files' \subseteq Paths
    BY <1>1 DEF IInv, TypeOK
  <2> QED
    BY <1>1, <1>2, <1>3, <2>1, <2>2, WorkTypes DEF IInv, TypeOK, queues
<1>8. Handling'
  BY <1>0, <1>1, <1>2, HandlingKept DEF IInv
<1>9. DeletionsCached'
  BY <1>1 DEF IInv, DeletionsCached, IsDeletion
<1>10. OrphansExplained' /\ HasGreatest' /\ RefusedByMirrors'
  BY <1>1, <1>3, OrphansKept DEF Target
<1>11. NothingMissed'
  <2>1. rows[worker[t].serial].kind # "file"
    BY <1>4 DEF IsDeletion
  <2>2. ASSUME NEW p \in files, p \notin files', HasFile(p, imported)
        PROVE  LatestAt(p, imported) \in Pending' \cup remaining \cup undone'
    <3>1. p = Target(t) /\ undone' = undone \cup Undone(p)
      BY <1>1, <2>2
    <3>2. LatestAt(p, imported) # worker[t].serial
      BY <2>1, <2>2 DEF HasFile
    <3> QED
      BY <1>3, <2>2, <3>1, <3>2 DEF Undone
  <2>3. \A s \in Pending \cup refused \cup undone :
            s \in Pending' \cup refused' \cup undone' \/ rows[s].kind # "file"
    BY <1>1, <1>3, <2>1
  <2> QED
    BY <1>1, <2>2, <2>3, NothingMissedKept
<1> QED
  BY <1>7, <1>8, <1>9, <1>10, <1>11 DEF IInv

\* There is nothing to download, or the request is sent.
LEMMA RequestStep ==
    ASSUME IInv, NEW t \in Threads, Request(t)
    PROVE  IInv'
<1>0. t \in Workers /\ t \notin Visitors
  BY FileReplicationConstants DEF Workers
<1>1. /\ worker[t].pc = "check"
      /\ \/ Goto(t, "download") /\ refused' = refused
         \/ /\ Finish(t) /\ refused' = refused
            /\ \/ rows[worker[t].serial].kind # "file" \/ Target(t) \in files
               \/ WasDeleted(Target(t), Len(rows))
         \/ /\ Finish(t) /\ refused' = refused \cup {worker[t].serial}
            /\ Target(t) \in MirrorFiles
      /\ UNCHANGED <<rows, imported, files, announced, inSync, queues, initialQueue,
                     crashes, excused, undone, deleted>>
  BY DEF Request, Answers
<1>2. ~IsDeletion(worker[t].serial) /\ worker[t].serial \in 1 .. imported
  BY <1>0, <1>1, WorkTarget DEF IInv, Handling
<1>3. DeletionsCached'
  BY <1>1 DEF IInv, DeletionsCached, IsDeletion
<1>4. CASE Goto(t, "download") /\ refused' = refused
  <2>1. /\ worker' \in [Workers -> Work]
        /\ worker'[t].pc = "download" /\ worker'[t].serial = worker[t].serial
        /\ \A u \in Workers : u # t => worker'[u] = worker[u]
    BY <1>0, <1>4, GotoStep DEF IInv
  <2>2. Pending' = Pending
    BY <1>1, <1>4, GotoPending DEF IInv
  <2>3. TypeOK'
    BY <1>1, <1>4, <2>1, <2>2, WorkTypes DEF IInv, TypeOK, queues
  <2>4. Handling'
    BY <1>0, <1>1, <1>2, <2>1, HandlingKept DEF IInv
  <2>5. OrphansExplained' /\ HasGreatest' /\ RefusedByMirrors'
    BY <1>1, <1>4, <2>2, OrphansKept
  <2>6. NothingMissed'
    BY <1>1, <1>4, <2>2, NothingMissedKept
  <2> QED
    BY <1>3, <2>3, <2>4, <2>5, <2>6 DEF IInv
<1>5. CASE ~(Goto(t, "download") /\ refused' = refused)
  <2>1. /\ Finish(t) /\ refused \subseteq refused'
        /\ \A s \in refused' :
                s \in refused \/ (s = worker[t].serial /\ Target(t) \in MirrorFiles)
        /\ \/ rows[worker[t].serial].kind # "file" \/ Target(t) \in files
           \/ WasDeleted(Target(t), Len(rows))
           \/ worker[t].serial \in refused'
    <3>1. CASE Finish(t) /\ refused' = refused
      BY <1>1, <1>5, <3>1
    <3>2. CASE /\ Finish(t) /\ refused' = refused \cup {worker[t].serial}
               /\ Target(t) \in MirrorFiles
      BY <3>2
    <3> QED
      BY <1>1, <1>5, <3>1, <3>2
  <2>2. /\ worker' \in [Workers -> Work] /\ worker'[t].pc = "idle"
        /\ \A u \in Workers : u # t => worker'[u] = worker[u]
    BY <1>0, <2>1, FinishStep DEF IInv
  <2>3. Pending' \subseteq Pending /\ Pending \subseteq Pending' \cup {worker[t].serial}
    BY <1>1, <2>1, FinishPending DEF IInv
  <2>4. TypeOK'
    <3>1. excused' \cup refused' \cup undone' \subseteq 1 .. imported
      BY <1>1, <1>2, <2>1 DEF IInv, TypeOK
    <3> QED
      BY <1>1, <2>2, <2>3, <3>1, WorkTypes DEF IInv, TypeOK, queues
  <2>5. Handling'
    BY <1>0, <1>1, <2>2, HandlingKept DEF IInv
  <2>6. OrphansExplained' /\ HasGreatest' /\ RefusedByMirrors'
    BY <1>1, <1>2, <2>1, <2>3, OrphansKept DEF Target
  <2>7. NothingMissed'
    <3> DEFINE s == worker[t].serial
               l == LatestAt(Target(t), Len(rows))
    <3>1. ASSUME rows[s].kind = "file", WasDeleted(Target(t), Len(rows))
          PROVE  \E r \in 1 .. Len(rows) : rows[r].path = rows[s].path /\ r > s
      <4>1. Len(rows) \in Nat /\ imported <= Len(rows) /\ imported \in Nat
        BY <1>0, WorkType DEF IInv
      <4>2. l \in 0 .. Len(rows) /\ rows[l].path = Target(t) /\ s <= l /\ l # 0
        BY <1>2, <3>1, <4>1, Latest DEF IInv, Target, WasDeleted
      <4>3. l # s
        BY <3>1 DEF WasDeleted, IsDeletion
      <4> HIDE DEF l
      <4> QED
        BY <1>2, <4>1, <4>2, <4>3 DEF Target
    <3> QED
      BY <1>1, <2>1, <2>3, <3>1, NothingMissedKept DEF Target
  <2> QED
    BY <1>3, <2>4, <2>5, <2>6, <2>7 DEF IInv
<1> QED
  BY <1>4, <1>5

\* A download which ends.  A deletion which has been imported meanwhile may be behind it.
LEMMA StoreStep ==
    ASSUME IInv, NEW w \in Workers, Store(w)
    PROVE  IInv'
<1>1. /\ worker[w].pc = "download" /\ Finish(w) /\ files' = files \cup {Target(w)}
      /\ excused' = IF WasDeleted(Target(w), imported)
                    THEN excused \cup {LatestAt(Target(w), imported)} ELSE excused
      /\ refused' = Others(refused, Target(w)) /\ undone' = Others(undone, Target(w))
      /\ UNCHANGED <<rows, imported, announced, inSync, queues, initialQueue, crashes, deleted>>
  BY DEF Store
<1>2. /\ worker' \in [Workers -> Work] /\ worker'[w].pc = "idle"
      /\ \A u \in Workers : u # w => worker'[u] = worker[u]
  BY <1>1, FinishStep DEF IInv
<1>3. Pending' \subseteq Pending /\ Pending \subseteq Pending' \cup {worker[w].serial}
  <2>1. CASE w \in Threads
    BY <1>1, <2>1, FinishPending DEF IInv
  <2>2. CASE w \in Visitors
    BY <1>1, <1>2, <2>2, VisitorPending
  <2> QED
    BY <2>1, <2>2 DEF Workers
<1>4. Target(w) \in Paths /\ ~IsDeletion(worker[w].serial)
  BY <1>1, WorkTarget DEF IInv, Handling
<1>5. files' \subseteq Paths /\ excused' \cup refused' \cup undone' \subseteq 1 .. imported
  <2>1. imported \in Nat /\ imported <= Len(rows) /\ Len(rows) \in Nat
    BY WorkType DEF IInv
  <2>2. WasDeleted(Target(w), imported) => LatestAt(Target(w), imported) \in 1 .. imported
    BY <2>1, Latest DEF IInv, WasDeleted
  <2> QED
    BY <1>1, <1>4, <2>2 DEF IInv, TypeOK, Others
<1>6. TypeOK'
  BY <1>1, <1>2, <1>3, <1>5, WorkTypes DEF IInv, TypeOK, queues
<1>7. Handling'
  BY <1>1, <1>2, HandlingKept DEF IInv
<1>8. DeletionsCached'
  BY <1>1 DEF IInv, DeletionsCached, IsDeletion
<1>9. OrphansExplained' /\ HasGreatest' /\ RefusedByMirrors'
  BY <1>1, <1>3, <1>4, OrphansKept DEF Others
<1>10. NothingMissed'
  BY <1>1, <1>3, NothingMissedKept DEF Target, Others
<1> QED
  BY <1>6, <1>7, <1>8, <1>9, <1>10 DEF IInv

\* The handling of an item fails: it goes to the error queue.
LEMMA FailStep ==
    ASSUME IInv, NEW t \in Threads, Fail(t)
    PROVE  IInv'
<1>0. t \in Workers /\ Threads \subseteq Workers /\ t \notin Visitors
  BY FileReplicationConstants DEF Workers
<1>1. /\ worker[t].pc # "idle" /\ Finish(t) /\ errors' = errors \cup {worker[t].serial}
      /\ UNCHANGED <<rows, imported, files, announced, inSync, queue, initialQueue,
                     crashes, history, deleted>>
  BY DEF Fail
<1>2. /\ worker' \in [Workers -> Work] /\ worker'[t].pc = "idle"
      /\ \A u \in Workers : u # t => worker'[u] = worker[u]
  BY <1>0, <1>1, FinishStep DEF IInv
<1>3. Pending' = Pending
  <2>1. \A s : s \in Pending' => s \in Pending
    BY <1>0, <1>1, <1>2 DEF Pending
  <2>2. \A s : s \in Pending => s \in Pending'
    BY <1>0, <1>1, <1>2 DEF Pending
  <2> QED
    BY <2>1, <2>2
<1>4. TypeOK'
  BY <1>1, <1>2, <1>3, WorkTypes DEF IInv, TypeOK
<1>5. Handling'
  BY <1>0, <1>1, <1>2, HandlingKept DEF IInv
<1>6. DeletionsCached'
  BY <1>1 DEF IInv, DeletionsCached, IsDeletion
<1>7. OrphansExplained' /\ HasGreatest' /\ RefusedByMirrors'
  BY <1>1, <1>3, OrphansKept
<1>8. NothingMissed'
  BY <1>1, <1>3, NothingMissedKept
<1> QED
  BY <1>4, <1>5, <1>6, <1>7, <1>8 DEF IInv

\* A request for a file is sent to the primary, or fails.
LEMMA VisitStep ==
    ASSUME IInv, NEW v \in Visitors,
           (\E p \in Paths : Visit(v, p)) \/ VisitFails(v)
    PROVE  IInv'
<1>0. v \in Workers /\ v \notin Threads
  BY FileReplicationConstants DEF Workers
<1>1. UNCHANGED <<rows, imported, files, announced, inSync, queues, initialQueue,
                  crashes, history, deleted>>
  BY DEF Visit, VisitFails
<1>2. /\ worker' \in [Workers -> Work]
      /\ \A u \in Workers : u # v => worker'[u] = worker[u]
      /\ worker'[v].pc \in {"idle", "download"}
      /\ worker'[v].pc = "download" =>
            worker'[v].serial # 0 /\ ~IsDeletion(worker'[v].serial)
  <2>1. CASE VisitFails(v)
    BY <1>0, <2>1, FinishStep DEF IInv, VisitFails, Idle
  <2>2. ASSUME NEW p \in Paths, Visit(v, p)
        PROVE  /\ worker' \in [Workers -> Work]
               /\ \A u \in Workers : u # v => worker'[u] = worker[u]
               /\ worker'[v].pc = "download" /\ worker'[v].serial # 0
               /\ ~IsDeletion(worker'[v].serial)
    <3> DEFINE l == LatestAt(p, imported)
               y == [pc |-> "download", from |-> "client", serial |-> l]
    <3>1. l # 0 /\ ~WasDeleted(p, imported) /\ worker' = [worker EXCEPT ![v] = y]
      BY <2>2 DEF Visit
    <3>2. ~IsDeletion(l)
      BY <3>1 DEF WasDeleted
    <3>3. l \in 0 .. imported
      BY <1>0, WorkType, Latest DEF IInv
    <3>4. y \in Work /\ y.pc = "download" /\ y.serial = l
      BY <3>3 DEF Work
    <3> HIDE DEF y, l
    <3> QED
      BY <1>0, <3>1, <3>2, <3>4 DEF IInv, TypeOK
  <2> QED
    BY <2>1, <2>2
<1>3. Pending' = Pending
  BY <1>1, <1>2, VisitorPending
<1>4. TypeOK'
  BY <1>1, <1>2, <1>3, WorkTypes DEF IInv, TypeOK, queues
<1>5. Handling'
  BY <1>0, <1>1, <1>2, HandlingKept DEF IInv
<1>6. DeletionsCached'
  BY <1>1 DEF IInv, DeletionsCached, IsDeletion
<1>7. OrphansExplained' /\ HasGreatest' /\ RefusedByMirrors'
  BY <1>1, <1>3, OrphansKept
<1>8. NothingMissed'
  BY <1>1, <1>3, NothingMissedKept
<1> QED
  BY <1>4, <1>5, <1>6, <1>7, <1>8 DEF IInv

-----------------------------------------------------------------------------
(* Steps of the primary and of the thread which imports.                   *)

\* What Latest says, for the next state too.
LatestFound ==
    \A p \in Paths, n \in 0 .. Len(rows) :
        /\ LatestAt(p, n) \in 0 .. n
        /\ LatestAt(p, n) # 0 => rows[LatestAt(p, n)].path = p
        /\ \A s \in 1 .. n : rows[s].path = p => s <= LatestAt(p, n)

LEMMA LatestAlways == TypeOK /\ HasGreatest => LatestFound
BY Latest DEF LatestFound

LEMMA LatestNext == TypeOK' /\ HasGreatest' => LatestFound'
BY LatestAlways, PTL

LEMMA CommitStep ==
    ASSUME IInv, Commit
    PROVE  IInv'
<1>1. UNCHANGED <<imported, files, announced, inSync, queues, deleted, worker,
                  initialQueue, crashes, history>>
  BY DEF Commit
<1>2. /\ rows' \in Seq(Change) /\ Len(rows') = Len(rows) + 1
      /\ \A s \in 1 .. Len(rows) : rows'[s] = rows[s]
  BY Appended DEF IInv
<1>3. /\ Len(rows) \in Nat /\ imported \in 0 .. Len(rows) /\ announced \in Nat
      /\ announced <= imported
  BY DEF IInv, TypeOK
<1>4. Pending' = Pending
  BY <1>1 DEF Pending, queues
<1>5. TypeOK'
  BY <1>1, <1>2, <1>3, <1>4 DEF IInv, TypeOK, queues, initialQueue, Work
<1>6. \A s \in 1 .. imported : rows'[s] = rows[s]
  BY <1>2, <1>3
<1>7. Handling'
  <2> SUFFICES ASSUME NEW w \in Workers, worker[w].pc # "idle"
               PROVE  /\ IsDeletion(worker[w].serial)' <=> IsDeletion(worker[w].serial)
                      /\ worker[w].serial # 0
    BY <1>1 DEF IInv, Handling
  <2>1. worker[w].serial \in 1 .. imported
    BY WorkTarget DEF IInv
  <2> QED
    BY <1>1, <1>6, <2>1 DEF IsDeletion
<1>8. DeletionsCached'
  <2>1. \A d \in deleted : d[2] \in 1 .. imported
    BY DEF IInv, TypeOK
  <2> QED
    BY <1>1, <1>6, <2>1 DEF IInv, DeletionsCached, IsDeletion
<1>9. HasGreatest'
  <2> SUFFICES ASSUME NEW S \in SUBSET (1 .. Len(rows) + 1), S # {}
               PROVE  \E g \in S : \A s \in S : s <= g
    BY <1>2 DEF HasGreatest
  <2>1. CASE Len(rows) + 1 \in S
    BY <1>3, <2>1
  <2>2. CASE Len(rows) + 1 \notin S
    <3>1. S \in SUBSET (1 .. Len(rows))
      BY <1>3, <2>2
    <3> QED
      BY <3>1 DEF IInv, HasGreatest
  <2> QED
    BY <2>1, <2>2
<1>10. \A p, n : n \in 0 .. Len(rows) => LatestAt(p, n)' = LatestAt(p, n)
  BY <1>2, SameLatest DEF IInv
<1>11. OrphansExplained' /\ RefusedByMirrors'
  <2>1. ASSUME NEW p \in files, WasDeleted(p, imported)', LatestAt(p, imported)' <= announced
        PROVE  LatestAt(p, imported)' \in excused \cup Pending
    <3>1. LatestAt(p, imported)' = LatestAt(p, imported)
      <4>1. {s \in 1 .. imported : rows'[s].path = p} = {s \in 1 .. imported : rows[s].path = p}
        BY <1>6
      <4> QED
        BY <1>1, <4>1 DEF LatestAt
    <3>2. LatestAt(p, imported) \in 0 .. imported /\ LatestAt(p, imported) # 0
      BY <1>3, <2>1, <3>1, Latest DEF IInv, WasDeleted
    <3>3. WasDeleted(p, imported)
      BY <1>6, <2>1, <3>1, <3>2 DEF WasDeleted, IsDeletion
    <3> QED
      BY <2>1, <3>1, <3>3 DEF IInv, OrphansExplained
  <2>2. RefusedByMirrors'
    BY <1>1, <1>6 DEF IInv, TypeOK, RefusedByMirrors
  <2> QED
    BY <1>1, <1>4, <2>1, <2>2 DEF OrphansExplained
<1>12. NothingMissed'
  <2>1. ASSUME NEW p \in Paths, HasFile(p, Len(rows))', LatestAt(p, Len(rows))' <= announced
        PROVE  LookedAt(p)'
    <3> DEFINE l == LatestAt(p, Len(rows))'
    <3>1. LatestFound'
      BY <1>5, <1>9, LatestNext
    <3>2. /\ l \in 0 .. Len(rows) + 1 /\ (l # 0 => rows'[l].path = p)
          /\ \A s \in 1 .. Len(rows) + 1 : rows'[s].path = p => s <= l
      BY <1>2, <1>3, <3>1 DEF LatestFound
    <3>3. l \in 1 .. announced /\ rows'[l].kind = "file"
      BY <1>3, <2>1, <3>2 DEF HasFile
    <3> HIDE DEF l
    <3>4. l = LatestAt(p, Len(rows)) /\ rows[l].kind = "file" /\ l # 0
      BY <1>2, <1>3, <3>2, <3>3, LatestIs DEF IInv
    <3>5. LookedAt(p)
      BY <1>3, <3>3, <3>4 DEF IInv, NothingMissed, HasFile
    <3> QED
      BY <1>1, <1>4, <3>4, <3>5 DEF LookedAt, l, initialQueue
  <2> QED
    BY <1>1, <2>1 DEF IInv, NothingMissed, initialQueue
<1> QED
  BY <1>5, <1>7, <1>8, <1>9, <1>11, <1>12 DEF IInv

LEMMA Counts ==
    ASSUME TypeOK
    PROVE  /\ Len(rows) \in Nat /\ imported \in Nat /\ announced \in Nat
           /\ imported <= Len(rows) /\ (announced = imported \/ announced = imported - 1)
BY DEF TypeOK

LEMMA ImportStep ==
    ASSUME IInv, Import
    PROVE  IInv'
<1>1. /\ imported < Len(rows) /\ announced = imported /\ imported' = imported + 1
      /\ UNCHANGED <<rows, files, announced, inSync, queues, deleted, worker, initialQueue,
                     crashes, history>>
  BY DEF Import
<1>2. /\ Len(rows) \in Nat /\ imported \in Nat /\ announced \in Nat
      /\ imported <= Len(rows) /\ (announced = imported \/ announced = imported - 1)
  BY Counts DEF IInv
<1>3. Pending' = Pending
  BY <1>1 DEF Pending, queues
<1>4. TypeOK'
  <2>1. Work \subseteq Work' /\ 1 .. imported \subseteq 1 .. imported'
        /\ 0 .. imported \subseteq 0 .. imported' /\ imported' \in 0 .. Len(rows)
    BY <1>1, <1>2 DEF Work
  <2> QED
    BY <1>1, <1>2, <1>3, <2>1 DEF IInv, TypeOK, queues, initialQueue
<1>5. Handling' /\ DeletionsCached' /\ HasGreatest' /\ RefusedByMirrors'
  BY <1>1 DEF IInv, Handling, DeletionsCached, HasGreatest, RefusedByMirrors, IsDeletion
<1>6. OrphansExplained'
  <2> SUFFICES ASSUME NEW p \in files, WasDeleted(p, imported + 1),
                      LatestAt(p, imported + 1) <= imported
               PROVE  LatestAt(p, imported + 1) \in excused \cup Pending
    BY <1>1, <1>3 DEF OrphansExplained, WasDeleted, LatestAt, IsDeletion
  <2>1. LatestAt(p, imported + 1) = LatestAt(p, imported)
    <3> DEFINE l == LatestAt(p, imported + 1)
    <3>1. /\ l \in 0 .. imported + 1 /\ (l # 0 => rows[l].path = p)
          /\ \A s \in 1 .. imported + 1 : rows[s].path = p => s <= l
      BY <1>1, <1>2, Latest DEF IInv
    <3> HIDE DEF l
    <3>2. l <= imported
      BY DEF l
    <3>3. l = LatestAt(p, imported)
      BY <1>1, <1>2, <3>1, <3>2, LatestIs DEF IInv
    <3> QED
      BY <3>3 DEF l
  <2> QED
    BY <1>1, <2>1 DEF IInv, OrphansExplained, WasDeleted
<1>7. NothingMissed'
  BY <1>1, <1>3 DEF IInv, NothingMissed, LookedAt, LatestAt, HasFile, initialQueue
<1> QED
  BY <1>4, <1>5, <1>6, <1>7 DEF IInv

\* What is imported is queued, or left to the initial queueing.
LEMMA OnImportStep ==
    ASSUME IInv, OnImport
    PROVE  IInv'
<1>1. /\ announced < imported /\ announced' = imported
      /\ UNCHANGED <<rows, imported, files, inSync, errors, deleted, worker, initialQueue,
                     crashes, refused, undone>>
  BY DEF OnImport
<1>2. /\ Len(rows) \in Nat /\ imported \in Nat /\ announced \in Nat
      /\ imported <= Len(rows) /\ (announced = imported \/ announced = imported - 1)
  BY Counts DEF IInv
<1>3. imported \in 1 .. Len(rows) /\ rows[imported].path \in Paths
      /\ announced = imported - 1 /\ announced' = imported
  <2>1. imported \in 1 .. Len(rows)
    BY <1>1, <1>2
  <2>2. rows[imported] \in Change
    BY <2>1 DEF IInv, TypeOK
  <2> QED
    BY <1>1, <1>2, <2>1, <2>2 DEF Change
<1>4. /\ queue' \subseteq queue \cup {[serial |-> imported, via |-> "import"]}
      /\ queue \subseteq queue' /\ excused \subseteq excused'
      /\ excused' \subseteq excused \cup {imported}
  BY DEF OnImport
<1>5. Pending' \subseteq Pending \cup {imported} /\ Pending \subseteq Pending'
  BY <1>1, <1>4 DEF Pending
<1>6. Queued(imported) => imported \in Pending'
  <2> SUFFICES ASSUME Queued(imported) PROVE imported \in Pending'
    OBVIOUS
  <2> DEFINE item == [serial |-> imported, via |-> "import"]
  <2>1. item \in queue' /\ item.serial = imported
    BY DEF OnImport
  <2> HIDE DEF item
  <2> QED
    BY <2>1 DEF Pending
<1>7. TypeOK'
  <2>1. [serial |-> imported, via |-> "import"] \in Item
    BY <1>2 DEF Item
  <2>2. /\ queue' \subseteq Item /\ Pending' \subseteq 1 .. imported
        /\ excused' \cup refused' \cup undone' \subseteq 1 .. imported
    BY <1>1, <1>2, <1>3, <1>4, <1>5, <2>1 DEF IInv, TypeOK
  <2> QED
    BY <1>1, <1>2, <1>3, <2>2 DEF IInv, TypeOK, Work, initialQueue
<1>8. Handling' /\ DeletionsCached' /\ HasGreatest' /\ RefusedByMirrors'
  BY <1>1 DEF IInv, Handling, DeletionsCached, HasGreatest, RefusedByMirrors, IsDeletion
<1>9. OrphansExplained'
  <2> SUFFICES ASSUME NEW p \in files, WasDeleted(p, imported)
               PROVE  LatestAt(p, imported) \in excused' \cup Pending'
    BY <1>1 DEF OrphansExplained, WasDeleted, LatestAt, IsDeletion
  <2> DEFINE l == LatestAt(p, imported)
  <2>1. l \in 0 .. imported /\ l # 0 /\ rows[l].path = p /\ IsDeletion(l)
    BY <1>2, Latest DEF IInv, WasDeleted
  <2>2. CASE l = imported
    <3>1. Queued(imported) \/ imported \in excused'
      BY <2>1, <2>2 DEF OnImport
    <3> QED
      BY <1>6, <2>1, <2>2, <3>1
  <2>3. CASE l # imported
    <3>1. l <= announced
      BY <1>2, <1>3, <2>1, <2>3
    <3>2. l \in excused \cup Pending
      BY <3>1 DEF IInv, OrphansExplained
    <3> QED
      BY <1>4, <1>5, <3>2
  <2> QED
    BY <2>2, <2>3
<1>10. NothingMissed'
  <2>1. ASSUME NEW p \in Paths, HasFile(p, Len(rows)), LatestAt(p, Len(rows)) <= imported
        PROVE  LookedAt(p)'
    <3> DEFINE l == LatestAt(p, Len(rows))
    <3>1. l \in 0 .. Len(rows) /\ l # 0 /\ rows[l].path = p /\ rows[l].kind = "file"
      BY <1>2, <2>1, Latest DEF IInv, HasFile
    <3>2. CASE l = imported
      <4>1. CASE initial \in {"starting", "waiting"}
        BY <1>1, <4>1 DEF LookedAt, initialQueue
      <4>2. CASE initial \notin {"starting", "waiting"}
        <5>1. imported \in Pending'
          BY <1>6, <4>2 DEF IInv, NothingMissed, Queued
        <5> QED
          BY <1>1, <3>1, <3>2, <5>1 DEF LookedAt, LatestAt
      <4> QED
        BY <4>1, <4>2
    <3>3. CASE l # imported
      <4>1. l <= announced
        BY <1>2, <1>3, <2>1, <3>1, <3>3
      <4>2. LookedAt(p)
        BY <2>1, <4>1 DEF IInv, NothingMissed
      <4> QED
        BY <1>1, <1>5, <4>2 DEF LookedAt, LatestAt, initialQueue
    <3> QED
      BY <3>2, <3>3
  <2> QED
    BY <1>1, <2>1 DEF IInv, NothingMissed, LatestAt, HasFile, initialQueue
<1> QED
  BY <1>7, <1>8, <1>9, <1>10 DEF IInv

LEMMA MetadataInSyncStep ==
    ASSUME IInv, MetadataInSync
    PROVE  IInv'
<1>1. /\ inSync' = TRUE /\ (initial' = initial \/ (initial = "waiting" /\ initial' = "notified"))
      /\ UNCHANGED <<rows, imported, files, announced, queues, deleted, worker, snapshot,
                     remaining, crashes, history>>
  BY DEF MetadataInSync
<1>2. Pending' = Pending
  BY <1>1 DEF Pending, queues
<1>3. TypeOK'
  BY <1>1, <1>2 DEF IInv, TypeOK, Work, queues
<1>4. Handling' /\ DeletionsCached' /\ HasGreatest' /\ RefusedByMirrors'
  BY <1>1 DEF IInv, Handling, DeletionsCached, HasGreatest, RefusedByMirrors, IsDeletion
<1>5. OrphansExplained'
  BY <1>1, <1>2 DEF IInv, OrphansExplained, WasDeleted, LatestAt, IsDeletion
<1>6. NothingMissed'
  BY <1>1, <1>2 DEF IInv, NothingMissed, LookedAt, LatestAt, HasFile
<1> QED
  BY <1>3, <1>4, <1>5, <1>6 DEF IInv

-----------------------------------------------------------------------------
(* The initial queueing.                                                   *)

\* What has nothing to do with how far the initial queueing is.
Untouched ==
    /\ TypeOK /\ Handling /\ DeletionsCached /\ HasGreatest /\ RefusedByMirrors
    /\ OrphansExplained

\* The thread changes nothing else than the queue.
LEMMA InitialKept ==
    ASSUME IInv, UNCHANGED <<rows, imported, files, announced, inSync, errors, deleted,
                             worker, crashes, history>>,
           queue \subseteq queue', queue' \subseteq Item,
           \A item \in queue' : item \in queue \/ item.serial \in 1 .. imported,
           initial' \in {"starting", "waiting", "notified", "begun", "iterating",
                         "joining", "done"},
           snapshot' \in 0 .. imported, remaining' \subseteq 1 .. imported
    PROVE  Untouched' /\ Pending \subseteq Pending'
<1>1. Pending \subseteq Pending' /\ \A s \in Pending' : s \in Pending \/ s \in 1 .. imported
  BY DEF Pending
<1>2. TypeOK'
  BY <1>1 DEF IInv, TypeOK, Work
<1>3. Handling' /\ DeletionsCached'
  BY DEF IInv, Handling, DeletionsCached, IsDeletion
<1>4. OrphansExplained' /\ HasGreatest' /\ RefusedByMirrors'
  BY <1>1, OrphansKept
<1> QED
  BY <1>1, <1>2, <1>3, <1>4 DEF Untouched

LEMMA InitialWaitStep ==
    ASSUME IInv, InitialWait
    PROVE  IInv'
<1>1. /\ initial = "starting" /\ initial' = "waiting"
      /\ UNCHANGED <<rows, imported, files, announced, inSync, queues, deleted, worker,
                     snapshot, remaining, crashes, history>>
  BY DEF InitialWait
<1>2. Untouched'
  BY <1>1, InitialKept DEF IInv, TypeOK, queues
<1>3. NothingMissed'
  BY <1>1 DEF IInv, NothingMissed, LookedAt, LatestAt, HasFile
<1> QED
  BY <1>2, <1>3 DEF Untouched, IInv

LEMMA InitialBeginStep ==
    ASSUME IInv, InitialBegin
    PROVE  IInv'
<1>1. /\ initial = "notified" /\ initial' = "begun" /\ snapshot' = imported
      /\ UNCHANGED <<rows, imported, files, announced, inSync, queues, deleted, worker,
                     remaining, crashes, history>>
  BY DEF InitialBegin
<1>2. /\ Len(rows) \in Nat /\ imported \in Nat /\ announced \in Nat
      /\ imported <= Len(rows) /\ (announced = imported \/ announced = imported - 1)
  BY Counts DEF IInv
<1>3. Untouched'
  BY <1>1, <1>2, InitialKept DEF IInv, TypeOK, queues
<1>4. NothingMissed'
  <2>1. ASSUME NEW p \in Paths, LatestAt(p, Len(rows)) <= announced
        PROVE  LookedAt(p)'
    <3>1. LatestAt(p, Len(rows)) \in Nat
      BY <1>2, Latest DEF IInv
    <3>2. LatestAt(p, Len(rows)) <= imported
      BY <1>2, <2>1, <3>1
    <3> QED
      BY <1>1, <3>2 DEF LookedAt, LatestAt
  <2> QED
    BY <1>1, <2>1 DEF IInv, NothingMissed, LatestAt, HasFile
<1> QED
  BY <1>3, <1>4 DEF Untouched, IInv

LEMMA InitialQueryStep ==
    ASSUME IInv, InitialQuery
    PROVE  IInv'
<1>1. /\ initial = "begun" /\ initial' = "iterating" /\ snapshot' = 0
      /\ remaining' = {s \in 1 .. snapshot :
            s = LatestAt(rows[s].path, imported) /\ ~IsDeletion(s)}
      /\ UNCHANGED <<rows, imported, files, announced, inSync, queues, deleted, worker,
                     crashes, history>>
  BY DEF InitialQuery
<1>2. /\ Len(rows) \in Nat /\ imported \in Nat /\ announced \in Nat
      /\ imported <= Len(rows) /\ snapshot \in 0 .. imported
  BY Counts DEF IInv, TypeOK
<1>3. remaining' \subseteq 1 .. imported
  BY <1>1, <1>2
<1>4. Untouched'
  BY <1>1, <1>2, <1>3, InitialKept DEF IInv, TypeOK, queues
<1>5. Pending' = Pending
  BY <1>1 DEF Pending, queues
<1>6. NothingMissed'
  <2>1. ASSUME NEW p \in Paths, HasFile(p, Len(rows)), LatestAt(p, Len(rows)) <= announced
        PROVE  LookedAt(p)'
    <3> DEFINE l == LatestAt(p, Len(rows))
    <3>1. /\ l \in 0 .. Len(rows) /\ l # 0 /\ rows[l].path = p /\ rows[l].kind = "file"
          /\ \A s \in 1 .. Len(rows) : rows[s].path = p => s <= l
      BY <1>2, <2>1, Latest DEF IInv, HasFile
    <3>2. LookedAt(p)
      BY <2>1 DEF IInv, NothingMissed
    <3>3. CASE l <= snapshot
      <4> HIDE DEF l
      <4>1. l \in 1 .. snapshot /\ l \in 0 .. imported
        BY <1>2, <3>1, <3>3
      <4>2. LatestAt(p, imported) = l
        BY <1>2, <3>1, <4>1, LatestIs DEF IInv
      <4>3. l \in remaining'
        BY <1>1, <3>1, <4>1, <4>2 DEF IsDeletion
      <4> QED
        BY <1>1, <4>3 DEF LookedAt, LatestAt, l
    <3>4. CASE ~(l <= snapshot)
      <4>1. l \notin remaining
        <5>1. remaining = {}
          BY <1>1 DEF IInv, NothingMissed
        <5> QED
          BY <5>1
      <4> QED
        BY <1>1, <1>5, <3>2, <3>4, <4>1 DEF LookedAt, LatestAt
    <3> QED
      BY <3>3, <3>4
  <2> QED
    BY <1>1, <2>1 DEF IInv, NothingMissed, LatestAt, HasFile
<1> QED
  BY <1>4, <1>6 DEF Untouched, IInv

\* The next key: an item for it, unless it has no file or the file is there.
LEMMA InitialNextStep ==
    ASSUME IInv, InitialNext
    PROVE  IInv'
<1> DEFINE serial == Max(remaining)
           item == [serial |-> serial, via |-> "initial"]
<1>1. /\ remaining # {} /\ initial' = "iterating" /\ remaining' = remaining \ {serial}
      /\ queue' = IF rows[serial].kind = "file" /\ rows[serial].path \notin files
                  THEN queue \cup {item} ELSE queue
      /\ initial \in {"iterating", "joining"}
      /\ UNCHANGED <<rows, imported, files, announced, inSync, errors, deleted, worker,
                     snapshot, crashes, history>>
  BY DEF InitialNext
<1>2. /\ Len(rows) \in Nat /\ imported \in Nat /\ imported <= Len(rows)
      /\ remaining \subseteq 1 .. imported
  BY Counts DEF IInv, TypeOK
<1>3. serial \in remaining
  <2>1. remaining \in SUBSET (1 .. Len(rows))
    BY <1>2
  <2>2. \E g \in remaining : \A s \in remaining : g >= s
    <3>1. PICK g \in remaining : \A s \in remaining : s <= g
      BY <1>1, <2>1 DEF IInv, HasGreatest
    <3> QED
      BY <1>2, <3>1
  <2>3. serial = CHOOSE g \in remaining : \A s \in remaining : g >= s
    BY Zenon DEF Max
  <2> HIDE DEF serial
  <2> QED
    BY <2>2, <2>3
<1> HIDE DEF serial
<1>4. item \in Item /\ item.serial = serial /\ serial \in 1 .. imported
  BY <1>2, <1>3 DEF Item
<1> HIDE DEF item
<1>5. Untouched' /\ Pending \subseteq Pending'
  BY <1>1, <1>2, <1>4, InitialKept DEF IInv, TypeOK
<1>6. NothingMissed'
  <2>1. ASSUME NEW p \in Paths, HasFile(p, Len(rows)), LatestAt(p, Len(rows)) <= announced
        PROVE  LookedAt(p)'
    <3> DEFINE l == LatestAt(p, Len(rows))
    <3>1. l # 0 /\ rows[l].path = p /\ rows[l].kind = "file"
      BY <1>2, <2>1, Latest DEF IInv, HasFile
    <3>2. LookedAt(p)
      BY <2>1 DEF IInv, NothingMissed
    <3>3. CASE l = serial
      <4>1. CASE p \in files
        BY <1>1, <4>1 DEF LookedAt
      <4>2. CASE p \notin files
        <5>1. item \in queue'
          BY <1>1, <3>1, <3>3, <4>2
        <5>2. serial \in Pending'
          BY <1>4, <5>1 DEF Pending
        <5> QED
          BY <1>1, <3>1, <3>3, <5>2 DEF LookedAt, LatestAt
      <4> QED
        BY <4>1, <4>2
    <3>4. CASE l # serial
      BY <1>1, <1>5, <3>2, <3>4 DEF LookedAt, LatestAt
    <3> QED
      BY <3>3, <3>4
  <2> QED
    BY <1>1, <2>1 DEF IInv, NothingMissed, LatestAt, HasFile
<1> QED
  BY <1>5, <1>6 DEF Untouched, IInv

LEMMA InitialJoinEndStep ==
    ASSUME IInv, InitialJoin \/ InitialEnd
    PROVE  IInv'
<1>1. /\ initial = "iterating" /\ initial' \in {"joining", "done"}
      /\ initial' = "done" => remaining = {}
      /\ UNCHANGED <<rows, imported, files, announced, inSync, queues, deleted, worker,
                     snapshot, remaining, crashes, history>>
  BY DEF InitialJoin, InitialEnd
<1>2. Untouched' /\ Pending \subseteq Pending'
  BY <1>1, InitialKept DEF IInv, TypeOK, queues
<1>3. NothingMissed'
  BY <1>1, <1>2 DEF IInv, NothingMissed, LookedAt, LatestAt, HasFile
<1> QED
  BY <1>2, <1>3 DEF Untouched, IInv

-----------------------------------------------------------------------------
(* A kill, and all steps together.                                         *)

\* Deletions which are lost are excused; everything else is looked at again.
LEMMA CrashStep ==
    ASSUME IInv, Crash
    PROVE  IInv'
<1> DEFINE gone == {r \in Pending \cup announced + 1 .. imported : IsDeletion(r)}
<1>1. /\ crashes < MaxCrashes /\ crashes' = crashes + 1 /\ announced' = imported
      /\ inSync' = FALSE /\ queue' = {} /\ errors' = {} /\ deleted' = {}
      /\ worker' = [w \in Workers |-> Idle]
      /\ initial' = "starting" /\ snapshot' = 0 /\ remaining' = {}
      /\ excused' = excused \cup gone /\ refused' = {} /\ undone' = {}
      /\ UNCHANGED <<rows, imported, files>>
  BY DEF Crash
<1>2. /\ Len(rows) \in Nat /\ imported \in Nat /\ announced \in Nat
      /\ imported <= Len(rows) /\ (announced = imported \/ announced = imported - 1)
  BY Counts DEF IInv
<1>3. \A w \in Workers : worker'[w].pc = "idle"
  BY <1>1 DEF Idle
<1>4. Pending' = {}
  BY <1>1, <1>3 DEF Pending, Workers
<1>5. TypeOK'
  <2>1. Idle \in Work'
    BY <1>1, <1>2 DEF Idle, Work
  <2>2. excused' \cup refused' \cup undone' \subseteq 1 .. imported'
    <3>1. Pending \subseteq 1 .. imported /\ excused \subseteq 1 .. imported
      BY DEF IInv, TypeOK
    <3>2. gone \subseteq 1 .. imported
      <4>1. announced + 1 .. imported \subseteq 1 .. imported
        BY <1>2
      <4> QED
        BY <3>1, <4>1
    <3> QED
      BY <1>1, <3>1, <3>2
  <2>3. IsFiniteSet(deleted') /\ Cardinality(deleted') <= DeletedSize
    BY <1>1, FS_EmptySet, FileReplicationConstants
  <2>4. crashes' \in 0 .. MaxCrashes
    BY <1>1, FileReplicationConstants DEF IInv, TypeOK
  <2>5. worker' \in [Workers -> Work']
    BY <1>1, <2>1
  <2>6. files' \subseteq Paths /\ rows' \in Seq(Change)
    BY <1>1 DEF IInv, TypeOK
  <2>7. /\ imported' \in 0 .. Len(rows') /\ announced' \in {imported' - 1, imported'} \cap Nat
        /\ snapshot' \in 0 .. imported' /\ inSync' \in BOOLEAN
    <3>1. imported' = imported /\ rows' = rows /\ announced' = imported /\ snapshot' = 0
      BY <1>1
    <3>2. inSync' \in BOOLEAN
      BY <1>1
    <3> QED
      BY <1>2, <3>1, <3>2
  <2>8. /\ queue' \subseteq Item /\ Pending' \subseteq 1 .. imported'
        /\ deleted' \subseteq Paths \X (1 .. imported') /\ remaining' \subseteq 1 .. imported'
        /\ initial' \in {"starting", "waiting", "notified", "begun", "iterating", "joining", "done"}
    BY <1>1, <1>4
  <2> QED
    BY <2>2, <2>3, <2>4, <2>5, <2>6, <2>7, <2>8 DEF TypeOK
<1>6. Handling' /\ DeletionsCached' /\ HasGreatest' /\ RefusedByMirrors'
  <2>1. Handling'
    BY <1>3 DEF Handling
  <2> QED
    BY <1>1, <2>1 DEF IInv, DeletionsCached, HasGreatest, RefusedByMirrors
<1>7. OrphansExplained'
  <2> SUFFICES ASSUME NEW p \in files, WasDeleted(p, imported)
               PROVE  LatestAt(p, imported) \in excused'
    BY <1>1 DEF OrphansExplained, WasDeleted, LatestAt, IsDeletion
  <2> DEFINE l == LatestAt(p, imported)
  <2>1. l \in 0 .. imported /\ l # 0 /\ IsDeletion(l)
    BY <1>2, Latest DEF IInv, WasDeleted
  <2>2. CASE l <= announced
    <3>1. l \in excused \cup Pending
      BY <2>2 DEF IInv, OrphansExplained
    <3> QED
      BY <1>1, <2>1, <3>1
  <2>3. CASE ~(l <= announced)
    <3>1. l \in gone
      BY <1>2, <2>1, <2>3
    <3> QED
      BY <1>1, <3>1
  <2> QED
    BY <2>2, <2>3
<1>8. NothingMissed'
  BY <1>1 DEF IInv, NothingMissed, LookedAt
<1> QED
  BY <1>5, <1>6, <1>7, <1>8 DEF IInv

LEMMA InitIInv == Init => IInv
<1> SUFFICES ASSUME Init PROVE IInv
  OBVIOUS
<1>1. \A w \in Workers : worker[w].pc = "idle"
  BY DEF Init, Idle
<1>2. Pending = {}
  BY <1>1 DEF Init, Pending, Workers
<1>3. rows = <<>> /\ Len(rows) = 0 /\ imported = 0 /\ announced = 0 /\ files = {}
  BY DEF Init
<1>4. TypeOK
  <2>1. worker \in [Workers -> Work]
    BY <1>3 DEF Init, Idle, Work
  <2>2. rows \in Seq(Change)
    BY <1>3
  <2>3. IsFiniteSet(deleted) /\ Cardinality(deleted) <= DeletedSize /\ crashes \in 0 .. MaxCrashes
    BY FS_EmptySet, FileReplicationConstants DEF Init
  <2>4. /\ imported \in 0 .. Len(rows) /\ announced \in {imported - 1, imported} \cap Nat
        /\ snapshot \in 0 .. imported /\ inSync \in BOOLEAN
    <3>1. snapshot = 0 /\ inSync \in BOOLEAN
      BY DEF Init
    <3> QED
      BY <1>3, <3>1
  <2>5. /\ queue \subseteq Item /\ Pending \subseteq 1 .. imported
        /\ files \subseteq Paths /\ excused \cup refused \cup undone \subseteq 1 .. imported
        /\ deleted \subseteq Paths \X (1 .. imported) /\ remaining \subseteq 1 .. imported
        /\ initial \in {"starting", "waiting", "notified", "begun", "iterating", "joining", "done"}
    BY <1>2, <1>3 DEF Init
  <2> QED
    BY <2>1, <2>2, <2>3, <2>4, <2>5 DEF TypeOK
<1>5. Handling /\ DeletionsCached /\ HasGreatest /\ OrphansExplained /\ RefusedByMirrors
  <2>1. Handling
    BY <1>1 DEF Handling
  <2>2. HasGreatest
    <3>1. 1 .. Len(rows) = {}
      BY <1>3
    <3> QED
      BY <3>1 DEF HasGreatest
  <2>3. DeletionsCached /\ OrphansExplained /\ RefusedByMirrors
    BY <1>3 DEF Init, DeletionsCached, OrphansExplained, RefusedByMirrors
  <2> QED
    BY <2>1, <2>2, <2>3
<1>6. NothingMissed
  BY <1>3 DEF Init, NothingMissed, LookedAt
<1> QED
  BY <1>4, <1>5, <1>6 DEF IInv

LEMMA StepIInv ==
    ASSUME IInv, [Next]_vars
    PROVE  IInv'
<1>1. CASE UNCHANGED vars
  <2>1. Pending' = Pending
    BY <1>1 DEF vars, Pending
  <2>2. /\ TypeOK' /\ Handling' /\ DeletionsCached' /\ HasGreatest' /\ RefusedByMirrors'
        /\ OrphansExplained'
    BY <1>1, <2>1 DEF vars, IInv, TypeOK, Work, Handling, DeletionsCached, HasGreatest,
                      RefusedByMirrors, OrphansExplained, WasDeleted, LatestAt, IsDeletion
  <2>3. NothingMissed'
    BY <1>1, <2>1 DEF vars, IInv, NothingMissed, LookedAt, LatestAt, HasFile
  <2> QED
    BY <2>2, <2>3 DEF IInv
<1>2. CASE Next
  <2>1. CASE \E t \in Threads : Thread(t)
    BY <2>1, TakeStep, HandleStep, RemoveStep, RequestStep, StoreStep, FailStep
       DEF Thread, Workers
  <2>2. CASE \E v \in Visitors : (\E p \in Paths : Visit(v, p)) \/ Store(v) \/ VisitFails(v)
    BY <2>2, VisitStep, StoreStep DEF Workers
  <2>3. CASE InitialQueue
    BY <2>3, InitialWaitStep, InitialBeginStep, InitialQueryStep, InitialNextStep,
       InitialJoinEndStep DEF InitialQueue
  <2> QED
    BY <1>2, <2>1, <2>2, <2>3, CommitStep, ImportStep, OnImportStep, MetadataInSyncStep,
       CrashStep DEF Next
<1> QED
  BY <1>1, <1>2

-----------------------------------------------------------------------------
(* The theorems.                                                           *)

\* Queues, caches and workers fit the changes they are about.
THEOREM Invariance == Spec => []IInv
BY InitIInv, StepIInv, PTL DEF Spec

\* A file whose deletion has been imported is gone, on its way out, or stays for one of
\* four reasons: a kill, metadata which was not in sync, a removal which failed, a download
\* which had begun before.
THEOREM Orphans == Spec => []OrphansExplained
<1>1. IInv => OrphansExplained
  BY DEF IInv
<1> QED
  BY <1>1, Invariance, PTL

\* Once the initial queueing is done every file is there or on its way, whatever the primary
\* commits, unless a mirror could not give it or the deletion of an older file at its path
\* was handled after it.
THEOREM Remembered == Spec => []NothingForgotten
<1>1. IInv => NothingForgotten
  <2> SUFFICES ASSUME IInv, initial = "done", NEW p \in Paths, HasFile(p, Len(rows)),
                      LatestAt(p, Len(rows)) <= announced
               PROVE  LET l == LatestAt(p, Len(rows))
                      IN \/ p \in files \/ l \in Pending
                         \/ p \in MirrorFiles /\ l \in refused
                         \/ l \in undone
    BY DEF NothingForgotten
  <2> DEFINE l == LatestAt(p, Len(rows))
  <2>1. LookedAt(p) /\ remaining = {}
    BY DEF IInv, NothingMissed
  <2>2. rows[l].path = p
    BY Latest, Counts DEF IInv, HasFile
  <2>3. l \in refused => p \in MirrorFiles
    BY <2>2 DEF IInv, RefusedByMirrors
  <2> QED
    BY <2>1, <2>3 DEF LookedAt
<1> QED
  BY <1>1, Invariance, PTL
=============================================================================
