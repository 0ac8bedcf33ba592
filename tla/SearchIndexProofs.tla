--------------------------- MODULE SearchIndexProofs ---------------------------
(***************************************************************************)
(* Proofs about SearchIndex, for any projects and any number of commits    *)
(* and kills: no change is missed by the search index.                     *)
(***************************************************************************)
EXTENDS SearchIndex, TLAPS

-----------------------------------------------------------------------------
(* Values.                                                                 *)

LEMMA Numbers ==
    ASSUME TypeOK
    PROVE  /\ Now \in Nat /\ Len(history) \in Nat /\ Len(history) = Now + 1
           /\ event \in Nat /\ event <= Now /\ MaxSerial \in Nat /\ Now <= MaxSerial
           /\ indexer.serial \in Nat /\ indexer.serial <= Now + 1
           /\ \A n \in 0 .. Now : At(n) \in Database
           /\ At(Now) \in Database
BY SearchIndexConstants DEF TypeOK, Now, At

LEMMA ProjectTypes ==
    ASSUME TypeOK, NEW p \in Projects, NEW n \in 0 .. Now
    PROVE  /\ LatestAt(p, n) \in Nat /\ DocsAt(p, n) \in Nat /\ ExistsAt(p, n) \in BOOLEAN
           /\ documents[p] \in [serial : 0 .. Now + 1, docs : BOOLEAN]
           /\ documents[p].serial \in Nat /\ documents[p].serial <= Now + 1
<1>1. At(n) \in Database
  BY Numbers
<1>2. Now + 1 \in Nat
  BY Numbers
<1>3. QED
  BY <1>1, <1>2 DEF Database, ProjectState, LatestAt, DocsAt, ExistsAt, TypeOK

-----------------------------------------------------------------------------
(* Commits.                                                                *)

\* The database after a commit: what it may do to a project.
Successor(db) ==
    /\ db \in Database
    /\ \A p \in Projects :
        LET new == db.project[p] IN
        /\ \/ new = At(Now).project[p]
           \/ new.change = Now + 1 /\ new.docs \in {0, DocsAt(p, Now), Now + 1}
        /\ new.docs # 0 => new.exists
        /\ new.exists => db.stage

LEMMA Appended ==
    ASSUME TypeOK, NEW db \in Database, history' = Append(history, db)
    PROVE  /\ history' \in Seq(Database) /\ Now' = Now + 1 /\ At(Now)' = db
           /\ \A n \in 0 .. Now : history'[n + 1] = At(n)
BY Numbers DEF TypeOK, Now, At

LEMMA CommitInv ==
    ASSUME IInv, NEW db, Commit(db), Successor(db)
    PROVE  IInv'
<1> USE DEF IInv
<1>1. /\ Now < MaxSerial /\ history' = Append(history, db) /\ db \in Database
      /\ UNCHANGED <<respelled, stored, event, documents, process, crashes, strays>>
  BY DEF Commit, Successor
<1>2. /\ history' \in Seq(Database) /\ Now' = Now + 1 /\ At(Now)' = db
      /\ \A n \in 0 .. Now : history'[n + 1] = At(n)
  BY <1>1, Appended
<1>n. /\ Now \in Nat /\ event \in Nat /\ event <= Now /\ MaxSerial \in Nat /\ Now <= MaxSerial
      /\ indexer.serial \in Nat /\ indexer.serial <= Now + 1
  BY Numbers
<1>3. TypeOK'
  <2>1. Now' \in 0 .. MaxSerial /\ 1 .. Now \subseteq 1 .. Now' /\ 0 .. Now \subseteq 0 .. Now'
        /\ 0 .. Now + 1 \subseteq 0 .. Now' + 1
    BY <1>1, <1>2, <1>n
  <2>2. /\ respelled' \subseteq Projects /\ stored' \subseteq 1 .. Now' /\ event' \in 0 .. Now'
        /\ errors' \cup indexer.names' \subseteq Projects \X BOOLEAN
        /\ crashes' \in 0 .. MaxCrashes /\ strays' \subseteq Projects
    BY <1>1, <2>1 DEF TypeOK, process
  <2>3. documents' \in [Projects -> [serial : 0 .. Now' + 1, docs : BOOLEAN]]
    BY <1>1, <2>1 DEF TypeOK
  <2>4. queue' \subseteq [project : Projects, serial : 0 .. Now', plain : BOOLEAN]
    BY <1>1, <2>1 DEF TypeOK, process
  <2>5. /\ indexer' \in [serial : 0 .. Now' + 1, names : SUBSET (Projects \X BOOLEAN)]
        /\ initial' \in [serial : 0 .. Now' + 1, rest : SUBSET Projects]
    BY <1>1, <2>1 DEF TypeOK, process
  <2>6. QED
    BY <1>2, <2>1, <2>2, <2>3, <2>4, <2>5 DEF TypeOK
\* Old and new values, for each project.
<1>4. ASSUME NEW p \in Projects, NEW n \in 0 .. Now
      PROVE  /\ LatestAt(p, n)' = LatestAt(p, n) /\ DocsAt(p, n)' = DocsAt(p, n)
             /\ ExistsAt(p, n)' = ExistsAt(p, n) /\ At(n)' = At(n)
  BY <1>2 DEF LatestAt, DocsAt, ExistsAt, At
<1>5. ASSUME NEW p \in Projects
      PROVE  /\ LatestAt(p, Now)' = db.project[p].change /\ DocsAt(p, Now)' = db.project[p].docs
             /\ ExistsAt(p, Now)' = db.project[p].exists
  BY <1>2 DEF LatestAt, DocsAt, ExistsAt
<1>6. ASSUME NEW p \in Projects
      PROVE  /\ \/ /\ LatestAt(p, Now)' = LatestAt(p, Now) /\ DocsAt(p, Now)' = DocsAt(p, Now)
                   /\ ExistsAt(p, Now)' = ExistsAt(p, Now)
                \/ LatestAt(p, Now)' = Now + 1 /\ DocsAt(p, Now)' \in {0, DocsAt(p, Now), Now + 1}
             /\ LatestAt(p, Now)' \in Nat /\ DocsAt(p, Now)' \in Nat
  <2>1. db.project[p].change \in Nat /\ db.project[p].docs \in Nat
    BY <1>1 DEF Database, ProjectState
  <2>2. \/ /\ db.project[p].change = LatestAt(p, Now) /\ db.project[p].docs = DocsAt(p, Now)
           /\ db.project[p].exists = ExistsAt(p, Now)
        \/ db.project[p].change = Now + 1 /\ db.project[p].docs \in {0, DocsAt(p, Now), Now + 1}
    BY DEF Successor, LatestAt, DocsAt, ExistsAt
  <2>3. QED
    BY <1>5, <2>1, <2>2
<1>7. HistoryInOrder'
  <2> SUFFICES ASSUME NEW p \in Projects, NEW n \in 0 .. Now'
               PROVE  /\ LatestAt(p, n)' <= n /\ DocsAt(p, n)' <= LatestAt(p, n)'
                      /\ LatestAt(p, Now)' <= n => At(n)'.project[p] = At(Now)'.project[p]
                      /\ DocsAt(p, n)' # 0 => ExistsAt(p, n)'
                      /\ ExistsAt(p, n)' => At(n)'.stage
    BY DEF HistoryInOrder
  <2>1. CASE n \in 0 .. Now
    <3>1. /\ LatestAt(p, n) <= n /\ DocsAt(p, n) <= LatestAt(p, n)
          /\ LatestAt(p, Now) <= n => At(n).project[p] = At(Now).project[p]
          /\ DocsAt(p, n) # 0 => ExistsAt(p, n)
          /\ ExistsAt(p, n) => At(n).stage
      BY <2>1 DEF HistoryInOrder
    <3>2. LatestAt(p, Now)' <= n => db.project[p] = At(Now).project[p] /\ LatestAt(p, Now) <= n
      <4>1. db.project[p] = At(Now).project[p] \/ db.project[p].change = Now + 1
        BY DEF Successor
      <4>2. db.project[p] = At(Now).project[p] => LatestAt(p, Now)' = LatestAt(p, Now)
        BY <1>5 DEF LatestAt
      <4>3. QED
        BY <1>5, <1>n, <2>1, <4>1, <4>2
    <3>3. QED
      BY <1>2, <1>4, <2>1, <3>1, <3>2
  <2>2. CASE n = Now'
    <3>1. /\ db.project[p].docs # 0 => db.project[p].exists
          /\ db.project[p].exists => db.stage
      BY DEF Successor
    <3>2. LatestAt(p, Now) <= Now /\ DocsAt(p, Now) <= LatestAt(p, Now)
          /\ LatestAt(p, Now) \in Nat /\ DocsAt(p, Now) \in Nat
      BY <1>n, ProjectTypes DEF HistoryInOrder
    <3>3. LatestAt(p, Now)' <= Now + 1 /\ DocsAt(p, Now)' <= LatestAt(p, Now)'
      BY <1>6, <1>n, <3>2
    <3>4. QED
      BY <1>2, <1>5, <2>2, <3>1, <3>3
  <2>3. QED
    BY <1>2, <1>n, <2>1, <2>2
<1>8. FilesAwaited'
  <2> SUFFICES ASSUME NEW p \in Projects, DocsAt(p, Now)' \in 1 .. event'
               PROVE  DocsAt(p, Now)' \in stored'
    BY DEF FilesAwaited
  <2>1. DocsAt(p, Now)' = DocsAt(p, Now)
    BY <1>1, <1>6, <1>n
  <2>2. QED
    BY <1>1, <2>1 DEF FilesAwaited
<1>9. OneTransaction'
  <2> SUFFICES ASSUME indexer.names # {}, NEW p \in Projects
               PROVE  /\ documents[p].serial <= indexer.serial
                      /\ indexer.serial <= LatestAt(p, Now)' =>
                            \/ event < LatestAt(p, Now)' \/ \E item \in queue : item.project = p
                            \/ p \in strays /\ ~ExistsAt(p, Now)'
    BY <1>1 DEF OneTransaction, process
  <2>1. QED
    BY <1>6, <1>n DEF OneTransaction
<1>10. Followed'
  <2> SUFFICES ASSUME NEW p \in Projects
               PROVE  \/ Agrees(p)' \/ (p \in strays' /\ ~ExistsAt(p, Now)')
                      \/ Pending(p)' /\ (ExistsAt(p, Now)' \/ event' < LatestAt(p, Now)'
                                          \/ p \in Unfinished')
    BY DEF Followed
  <2>1. CASE LatestAt(p, Now)' = Now + 1
    BY <1>1, <1>n, <2>1 DEF Pending
  <2>2. CASE LatestAt(p, Now)' # Now + 1
    <3>1. /\ LatestAt(p, Now)' = LatestAt(p, Now) /\ DocsAt(p, Now)' = DocsAt(p, Now)
          /\ ExistsAt(p, Now)' = ExistsAt(p, Now)
      BY <1>6, <2>2
    <3>2. Agrees(p)' = Agrees(p) /\ Pending(p)' = Pending(p) /\ Unfinished' = Unfinished
      BY <1>1, <3>1 DEF Agrees, Pending, Unfinished, process
    <3>3. QED
      BY <1>1, <3>1, <3>2 DEF Followed
  <2>3. QED
    BY <2>1, <2>2
<1>11. RestAfterStart'
  BY <1>1 DEF RestAfterStart, process
<1>12. QED
  BY <1>3, <1>7, <1>8, <1>9, <1>10, <1>11

LEMMA DeletedState ==
    ASSUME NEW serial \in Nat
    PROVE  /\ Deleted(serial) \in ProjectState
           /\ Deleted(serial).change = serial /\ Deleted(serial).docs = 0 /\ ~Deleted(serial).exists
BY DEF Deleted, NoProject, ProjectState

\* What a project has in the database.
LEMMA CurrentProject ==
    ASSUME IInv, NEW p \in Projects
    PROVE  /\ At(Now) \in Database /\ Now + 1 \in Nat
           /\ At(Now).project[p] \in ProjectState
           /\ At(Now).project[p].docs = DocsAt(p, Now)
           /\ At(Now).project[p].docs # 0 => At(Now).project[p].exists
           /\ At(Now).project[p].exists => At(Now).stage
<1>1. At(Now) \in Database /\ Now \in 0 .. Now /\ Now + 1 \in Nat
  BY Numbers DEF IInv
<1>2. /\ DocsAt(p, Now) # 0 => ExistsAt(p, Now)
      /\ ExistsAt(p, Now) => At(Now).stage
  BY <1>1 DEF IInv, HistoryInOrder
<1>3. QED
  BY <1>1, <1>2 DEF DocsAt, ExistsAt, Database

LEMMA ChangeProjectInv ==
    ASSUME IInv, NEW p \in Projects, ChangeProject(p)
    PROVE  IInv'
<1> DEFINE old == At(Now).project[p]
           Becomes(new) == Commit([At(Now) EXCEPT !.project[p] = new])
           Allowed(new) ==
                /\ new \in ProjectState
                /\ new.change = Now + 1 /\ new.docs \in {0, old.docs, Now + 1}
                /\ new.docs # 0 => new.exists
                /\ new.exists => At(Now).stage
           plain == [old EXCEPT !.change = Now + 1, !.exists = TRUE, !.plainVersion = TRUE]
           documented == [old EXCEPT !.change = Now + 1, !.exists = TRUE, !.docs = Now + 1]
           removed == [old EXCEPT !.change = Now + 1, !.docs = 0]
<1>1. /\ Now + 1 \in Nat /\ old \in ProjectState
      /\ old.docs # 0 => old.exists
      /\ old.exists => At(Now).stage
  BY CurrentProject
<1>2. \/ At(Now).stage /\ Becomes(plain)
      \/ At(Now).stage /\ Becomes(documented)
      \/ old.docs # 0 /\ Becomes(removed)
      \/ Becomes(Deleted(Now + 1))
  BY DEF ChangeProject
<1> HIDE DEF Becomes
<1>3. PICK new : Becomes(new) /\ Allowed(new)
  <2> HIDE DEF old
  <2>1. CASE At(Now).stage /\ Becomes(plain)
    <3>1. Allowed(plain)
      BY <1>1, <2>1 DEF ProjectState
    <3>2. QED
      BY <2>1, <3>1
  <2>2. CASE At(Now).stage /\ Becomes(documented)
    <3>1. Allowed(documented)
      BY <1>1, <2>2 DEF ProjectState
    <3>2. QED
      BY <2>2, <3>1
  <2>3. CASE old.docs # 0 /\ Becomes(removed)
    <3>1. Allowed(removed)
      BY <1>1, <2>3 DEF ProjectState
    <3>2. QED
      BY <2>3, <3>1
  <2>4. CASE Becomes(Deleted(Now + 1))
    <3>1. Allowed(Deleted(Now + 1))
      BY <1>1, DeletedState
    <3>2. QED
      BY <2>4, <3>1
  <2>5. QED
    BY <1>2, <2>1, <2>2, <2>3, <2>4
<1> DEFINE db == [At(Now) EXCEPT !.project[p] = new]
<1>4. db \in Database /\ db.stage = At(Now).stage /\ db.project[p] = new
      /\ \A q \in Projects \ {p} : db.project[q] = At(Now).project[q]
  BY <1>3, CurrentProject DEF Database
<1>5. Commit(db)
  BY <1>3 DEF Becomes
<1> HIDE DEF db
<1>6. Successor(db)
  <2> SUFFICES ASSUME NEW q \in Projects
               PROVE  /\ \/ db.project[q] = At(Now).project[q]
                         \/ /\ db.project[q].change = Now + 1
                            /\ db.project[q].docs \in {0, DocsAt(q, Now), Now + 1}
                      /\ db.project[q].docs # 0 => db.project[q].exists
                      /\ db.project[q].exists => db.stage
    BY <1>4 DEF Successor
  <2>1. CASE q = p
    BY <1>3, <1>4, <2>1, CurrentProject
  <2>2. CASE q # p
    BY <1>4, <2>2, CurrentProject
  <2>3. QED
    BY <2>1, <2>2
<1>7. QED
  BY <1>5, <1>6, CommitInv

LEMMA DeleteIndexInv ==
    ASSUME IInv, DeleteIndex
    PROVE  IInv'
<1> DEFINE db == [stage |-> FALSE, project |-> [p \in Projects |->
                        IF ExistsAt(p, Now) THEN Deleted(Now + 1) ELSE At(Now).project[p]]]
<1>1. Now + 1 \in Nat
  BY Numbers DEF IInv
<1>2. /\ Deleted(Now + 1) \in ProjectState /\ Deleted(Now + 1).change = Now + 1
      /\ Deleted(Now + 1).docs = 0 /\ ~Deleted(Now + 1).exists
  BY <1>1, DeletedState
<1>3. \A p \in Projects : At(Now).project[p] \in ProjectState
  BY CurrentProject
<1>4. /\ db \in Database
      /\ \A p \in Projects : db.project[p] =
            IF At(Now).project[p].exists THEN Deleted(Now + 1) ELSE At(Now).project[p]
  BY <1>2, <1>3 DEF Database, ExistsAt
<1>5. Commit(db)
  BY DEF DeleteIndex
<1> HIDE DEF db
<1>6. Successor(db)
  <2> SUFFICES ASSUME NEW p \in Projects
               PROVE  /\ \/ db.project[p] = At(Now).project[p]
                         \/ /\ db.project[p].change = Now + 1
                            /\ db.project[p].docs \in {0, DocsAt(p, Now), Now + 1}
                      /\ db.project[p].docs # 0 => db.project[p].exists
                      /\ ~db.project[p].exists
    BY <1>4 DEF Successor
  <2>1. CASE At(Now).project[p].exists
    BY <1>2, <1>4, <2>1
  <2>2. CASE ~At(Now).project[p].exists
    BY <1>4, <2>2, CurrentProject
  <2>3. QED
    BY <2>1, <2>2
<1>7. QED
  BY <1>5, <1>6, CommitInv

LEMMA CreateIndexInv ==
    ASSUME IInv, CreateIndex
    PROVE  IInv'
<1> DEFINE db == [At(Now) EXCEPT !.stage = TRUE]
<1>1. At(Now) \in Database
  BY Numbers DEF IInv
<1>2. db \in Database /\ db.stage /\ db.project = At(Now).project
  BY <1>1 DEF Database
<1>3. Commit(db)
  BY DEF CreateIndex
<1> HIDE DEF db
<1>4. Successor(db)
  <2> SUFFICES ASSUME NEW p \in Projects
               PROVE  /\ db.project[p] = At(Now).project[p]
                      /\ db.project[p].docs # 0 => db.project[p].exists
    BY <1>2 DEF Successor
  <2>1. QED
    BY <1>2, CurrentProject
<1>5. QED
  BY <1>3, <1>4, CommitInv

-----------------------------------------------------------------------------
(* The other steps, in which the history stays as it is.                   *)

LEMMA SameHistory ==
    ASSUME UNCHANGED history
    PROVE  /\ Now' = Now /\ \A n : At(n)' = At(n)
           /\ \A p, n : LatestAt(p, n)' = LatestAt(p, n) /\ DocsAt(p, n)' = DocsAt(p, n)
                      /\ ExistsAt(p, n)' = ExistsAt(p, n)
           /\ \A p : LatestAt(p, Now)' = LatestAt(p, Now) /\ DocsAt(p, Now)' = DocsAt(p, Now)
                   /\ ExistsAt(p, Now)' = ExistsAt(p, Now)
           /\ HistoryInOrder' = HistoryInOrder
BY DEF Now, At, LatestAt, DocsAt, ExistsAt, HistoryInOrder

LEMMA FileArrivesInv ==
    ASSUME IInv, NEW p \in Projects, FileArrives(p)
    PROVE  IInv'
<1> USE DEF IInv
<1> DEFINE s == DocsAt(p, Now)
<1>1. /\ s # 0 /\ s \notin stored /\ stored' = stored \cup {s}
      /\ UNCHANGED <<respelled, history, event, documents, process, crashes, strays>>
  BY DEF FileArrives
<1>2. /\ Now' = Now /\ HistoryInOrder'
      /\ \A q : LatestAt(q, Now)' = LatestAt(q, Now) /\ DocsAt(q, Now)' = DocsAt(q, Now)
              /\ ExistsAt(q, Now)' = ExistsAt(q, Now)
  BY <1>1, SameHistory
<1>3. /\ Now \in Nat /\ event \in Nat /\ s \in Nat /\ LatestAt(p, Now) \in Nat
      /\ s <= LatestAt(p, Now) /\ LatestAt(p, Now) <= Now
  BY Numbers, ProjectTypes DEF HistoryInOrder
<1>4. event < s
  BY <1>1, <1>3 DEF FilesAwaited
<1>5. TypeOK'
  <2>1. s \in 1 .. Now
    BY <1>1, <1>3
  <2> HIDE DEF s
  <2>2. QED
    BY <1>1, <1>2, <2>1 DEF TypeOK, process
<1>6. FilesAwaited' /\ RestAfterStart'
  BY <1>1, <1>2 DEF FilesAwaited, RestAfterStart, process
<1>7. OneTransaction'
  BY <1>1, <1>2 DEF OneTransaction, process
<1>8. Followed'
  <2> SUFFICES ASSUME NEW q \in Projects
               PROVE  \/ Agrees(q)' \/ (q \in strays /\ ~ExistsAt(q, Now))
                      \/ Pending(q)' /\ (ExistsAt(q, Now) \/ event < LatestAt(q, Now)
                                          \/ q \in Unfinished)
    BY <1>1, <1>2 DEF Followed, Unfinished, process
  <2>1. Pending(q)' = Pending(q)
    BY <1>1, <1>2 DEF Pending, process
  <2>2. CASE DocsAt(q, Now) # s
    <3>1. DocsAt(q, Now) \in stored' <=> DocsAt(q, Now) \in stored
      BY <1>1, <2>2
    <3>2. Agrees(q) => Agrees(q)'
      BY <1>1, <1>2, <3>1 DEF Agrees
    <3>3. QED
      BY <2>1, <3>2 DEF Followed
  <2>3. CASE DocsAt(q, Now) = s
    <3>1. s <= LatestAt(q, Now) /\ LatestAt(q, Now) \in Nat
      BY <1>3, <2>3, ProjectTypes DEF HistoryInOrder
    <3>2. event < LatestAt(q, Now)
      BY <1>3, <1>4, <3>1
    <3>3. QED
      BY <2>1, <3>2 DEF Pending
  <2>4. QED
    BY <2>2, <2>3
<1>9. QED
  BY <1>2, <1>5, <1>6, <1>7, <1>8

LEMMA SubscribersOf ==
    ASSUME TypeOK, NEW s \in 0 .. Now
    PROVE  /\ Subscribers(s) \subseteq [project : Projects, serial : 0 .. Now, plain : BOOLEAN]
           /\ At(s).stage => \A p \in Changed(s) : \E item \in Subscribers(s) : item.project = p
<1>1. \A p \in Projects, plain \in BOOLEAN :
        /\ Item(p, s, plain) \in [project : Projects, serial : 0 .. Now, plain : BOOLEAN]
        /\ Item(p, s, plain).project = p
  BY DEF Item
<1>2. Changed(s) \subseteq Projects
  BY DEF Changed
<1>3. ASSUME At(s).stage, NEW p \in Changed(s)
      PROVE  \E item \in Subscribers(s) : item.project = p
  <2>1. Item(p, s, p \notin respelled) \in Subscribers(s)
    BY <1>3 DEF Subscribers
  <2>2. Item(p, s, p \notin respelled).project = p
    BY <1>1, <1>2
  <2>3. QED
    BY <2>1, <2>2
<1>4. \A item \in Subscribers(s) : \E p \in Projects, plain \in BOOLEAN : item = Item(p, s, plain)
  BY <1>2 DEF Subscribers
<1>5. QED
  BY <1>1, <1>3, <1>4

LEMMA DeliverInv ==
    ASSUME IInv, Deliver
    PROVE  IInv'
<1> USE DEF IInv
<1> DEFINE s == event + 1
<1>1. /\ event < Now /\ event' = s
      /\ s \in stored \/ \A p \in Projects : DocsAt(p, Now) # s
      /\ queue' = queue \cup Subscribers(s)
      /\ strays' = IF At(s).stage THEN strays ELSE strays \cup Changed(s)
      /\ UNCHANGED <<respelled, history, stored, documents, errors, indexer, initial, crashes>>
  BY DEF Deliver, database
<1>2. /\ Now' = Now /\ HistoryInOrder'
      /\ \A q : LatestAt(q, Now)' = LatestAt(q, Now) /\ DocsAt(q, Now)' = DocsAt(q, Now)
              /\ ExistsAt(q, Now)' = ExistsAt(q, Now)
  BY <1>1, SameHistory
<1>3. Now \in Nat /\ event \in Nat /\ s \in 0 .. Now /\ s \in Nat
  BY <1>1, Numbers
<1>4. /\ Subscribers(s) \subseteq [project : Projects, serial : 0 .. Now, plain : BOOLEAN]
      /\ At(s).stage => \A p \in Changed(s) : \E item \in Subscribers(s) : item.project = p
  BY <1>3, SubscribersOf
<1>5. Changed(s) \subseteq Projects
  BY DEF Changed
<1> DEFINE Reached(p) == \/ \E item \in queue' : item.project = p
                         \/ p \in strays' /\ ~ExistsAt(p, Now)
\* The last change of a project is delivered.
<1>6. ASSUME NEW p \in Projects, LatestAt(p, Now) = s
      PROVE  Reached(p)
  <2>1. At(s).project[p] = At(Now).project[p]
    BY <1>3, <1>6 DEF HistoryInOrder
  <2>2. LatestAt(p, s) = s /\ ExistsAt(p, s) = ExistsAt(p, Now)
    BY <1>6, <2>1 DEF LatestAt, ExistsAt
  <2>3. p \in Changed(s)
    BY <2>2 DEF Changed
  <2>4. CASE At(s).stage
    BY <1>1, <1>4, <2>3, <2>4
  <2>5. CASE ~At(s).stage
    <3>1. ~ExistsAt(p, s)
      BY <1>3, <2>5 DEF HistoryInOrder
    <3>2. QED
      BY <1>1, <2>2, <2>3, <2>5, <3>1
  <2>6. QED
    BY <2>4, <2>5
<1>7. \A p \in Projects : LatestAt(p, Now) \in Nat /\ DocsAt(p, Now) \in Nat
  BY <1>3, ProjectTypes
<1> HIDE DEF s
<1>8. TypeOK'
  <2>1. queue' \subseteq [project : Projects, serial : 0 .. Now, plain : BOOLEAN]
    BY <1>1, <1>4 DEF TypeOK
  <2>2. strays' \subseteq Projects
    BY <1>1, <1>5 DEF TypeOK
  <2>3. QED
    BY <1>1, <1>2, <1>3, <2>1, <2>2 DEF TypeOK
<1>a. RestAfterStart'
  BY <1>1 DEF RestAfterStart
<1>9. FilesAwaited'
  <2> SUFFICES ASSUME NEW p \in Projects, DocsAt(p, Now) \in 1 .. s
               PROVE  DocsAt(p, Now) \in stored
    BY <1>1, <1>2 DEF FilesAwaited
  <2>1. CASE DocsAt(p, Now) = s
    BY <1>1, <2>1
  <2>2. CASE DocsAt(p, Now) # s
    BY <1>3, <2>2 DEF FilesAwaited, s
  <2>3. QED
    BY <2>1, <2>2
<1>10. \A p \in Projects : event < LatestAt(p, Now) => s < LatestAt(p, Now) \/ LatestAt(p, Now) = s
  BY <1>3, <1>7 DEF s
<1>11. queue \subseteq queue' /\ strays \subseteq strays'
  BY <1>1
<1>12. OneTransaction'
  <2> SUFFICES ASSUME indexer.names # {}, NEW p \in Projects, indexer.serial <= LatestAt(p, Now)
               PROVE  s < LatestAt(p, Now) \/ Reached(p)
    BY <1>1, <1>2 DEF OneTransaction
  <2>1. \/ event < LatestAt(p, Now) \/ \E item \in queue : item.project = p
        \/ p \in strays /\ ~ExistsAt(p, Now)
    BY DEF OneTransaction
  <2>2. QED
    BY <1>6, <1>10, <1>11, <2>1
<1>13. Followed'
  <2> SUFFICES ASSUME NEW p \in Projects
               PROVE  \/ Agrees(p)' \/ (p \in strays' /\ ~ExistsAt(p, Now))
                      \/ Pending(p)' /\ (ExistsAt(p, Now) \/ s < LatestAt(p, Now)
                                          \/ p \in Unfinished')
    BY <1>1, <1>2 DEF Followed
  <2>1. Agrees(p)' = Agrees(p)
    BY <1>1, <1>2 DEF Agrees
  <2>2. Unfinished \subseteq Unfinished'
    BY <1>1 DEF Unfinished
  <2>3. CASE Reached(p)
    BY <2>3 DEF Pending, Unfinished
  <2>4. CASE s < LatestAt(p, Now)
    BY <1>1, <1>2, <2>4 DEF Pending
  <2>5. CASE ~(event < LatestAt(p, Now))
    <3>1. Pending(p) => Pending(p)'
      BY <1>1, <1>2, <2>5 DEF Pending
    <3>2. QED
      BY <1>11, <2>1, <2>2, <2>5, <3>1 DEF Followed
  <2>6. QED
    BY <1>6, <1>10, <2>3, <2>4, <2>5
<1>14. QED
  BY <1>2, <1>8, <1>a, <1>9, <1>12, <1>13

-----------------------------------------------------------------------------
(* The threads.                                                            *)

LEMMA InitialBeginInv ==
    ASSUME IInv, InitialBegin
    PROVE  IInv'
<1> USE DEF IInv
<1>1. /\ initial = NotStarted
      /\ initial' = [serial |-> Now + 1, rest |-> {p \in Projects : ExistsAt(p, Now)}]
      /\ UNCHANGED <<respelled, history, stored, event, documents, queue, errors, indexer,
                     crashes, strays>>
  BY DEF InitialBegin, database
<1>2. /\ Now' = Now /\ HistoryInOrder'
      /\ \A q : LatestAt(q, Now)' = LatestAt(q, Now) /\ DocsAt(q, Now)' = DocsAt(q, Now)
              /\ ExistsAt(q, Now)' = ExistsAt(q, Now)
  BY <1>1, SameHistory
<1>3. TypeOK'
  <2>1. initial' \in [serial : 0 .. Now + 1, rest : SUBSET Projects]
    BY <1>1, Numbers
  <2>2. QED
    BY <1>1, <1>2, <2>1 DEF TypeOK
<1>4. FilesAwaited' /\ OneTransaction' /\ RestAfterStart'
  <2>1. initial'.serial # 0
    BY <1>1, Numbers
  <2>2. QED
    BY <1>1, <1>2, <2>1 DEF FilesAwaited, OneTransaction, RestAfterStart
<1>5. Followed'
  <2> SUFFICES ASSUME NEW p \in Projects
               PROVE  \/ Agrees(p) \/ (p \in strays /\ ~ExistsAt(p, Now))
                      \/ Pending(p)' /\ (ExistsAt(p, Now) \/ event < LatestAt(p, Now)
                                          \/ p \in Unfinished)
    BY <1>1, <1>2 DEF Followed, Agrees, Unfinished
  <2>1. CASE ExistsAt(p, Now)
    <3>1. p \in initial'.rest
      BY <1>1, <2>1
    <3>2. QED
      BY <2>1, <3>1 DEF Pending
  <2>2. CASE ~ExistsAt(p, Now)
    <3>1. (event < LatestAt(p, Now) \/ p \in Unfinished) /\ Pending(p) => Pending(p)'
      BY <1>1, <1>2, <2>2 DEF Pending, NotStarted
    <3>2. QED
      BY <2>2, <3>1 DEF Followed
  <2>3. QED
    BY <2>1, <2>2
<1>6. QED
  BY <1>2, <1>3, <1>4, <1>5

LEMMA InitialNextInv ==
    ASSUME IInv, NEW r, InitialNext(r)
    PROVE  IInv'
<1> USE DEF IInv
<1> DEFINE item == Item(r, initial.serial - 1, TRUE)
<1>1. /\ r \in initial.rest /\ initial' = [initial EXCEPT !.rest = @ \ {r}]
      /\ queue' = queue \cup {item}
      /\ UNCHANGED <<respelled, history, stored, event, documents, errors, indexer,
                     crashes, strays>>
  BY DEF InitialNext, database
<1>2. /\ Now' = Now /\ HistoryInOrder'
      /\ \A q : LatestAt(q, Now)' = LatestAt(q, Now) /\ DocsAt(q, Now)' = DocsAt(q, Now)
              /\ ExistsAt(q, Now)' = ExistsAt(q, Now)
  BY <1>1, SameHistory
<1>3. /\ initial \in [serial : 0 .. Now + 1, rest : SUBSET Projects] /\ Now \in Nat
      /\ initial.serial # 0 /\ r \in Projects
  BY <1>1, Numbers DEF TypeOK, RestAfterStart
<1>4. item \in [project : Projects, serial : 0 .. Now, plain : BOOLEAN] /\ item.project = r
  BY <1>3 DEF Item
<1> HIDE DEF item
<1>5. TypeOK'
  <2>1. initial' \in [serial : 0 .. Now + 1, rest : SUBSET Projects]
    BY <1>1, <1>3
  <2>2. queue' \subseteq [project : Projects, serial : 0 .. Now, plain : BOOLEAN]
    BY <1>1, <1>4 DEF TypeOK
  <2>3. QED
    BY <1>1, <1>2, <2>1, <2>2 DEF TypeOK
<1>6. /\ initial'.serial = initial.serial /\ initial'.rest = initial.rest \ {r}
  BY <1>1, <1>3
<1>7. FilesAwaited' /\ OneTransaction' /\ RestAfterStart'
  <2>1. FilesAwaited' /\ RestAfterStart'
    BY <1>1, <1>2, <1>6 DEF FilesAwaited, RestAfterStart
  <2>2. OneTransaction'
    BY <1>1, <1>2 DEF OneTransaction
  <2>3. QED
    BY <2>1, <2>2
<1>8. Followed'
  <2> SUFFICES ASSUME NEW p \in Projects
               PROVE  \/ Agrees(p) \/ (p \in strays /\ ~ExistsAt(p, Now))
                      \/ Pending(p)' /\ (ExistsAt(p, Now) \/ event < LatestAt(p, Now)
                                          \/ p \in Unfinished')
    BY <1>1, <1>2 DEF Followed, Agrees
  <2>1. Unfinished \subseteq Unfinished'
    BY <1>1 DEF Unfinished
  <2>2. CASE p = r
    <3>1. item \in queue' /\ item.project = p
      BY <1>1, <1>4, <2>2
    <3>2. QED
      BY <3>1 DEF Pending, Unfinished
  <2>3. CASE p # r
    <3>1. p \in initial.rest => p \in initial'.rest
      BY <1>6, <2>3
    <3>2. initial # NotStarted
      BY <1>3 DEF NotStarted
    <3>3. Pending(p) => Pending(p)'
      BY <1>1, <1>2, <3>1, <3>2 DEF Pending
    <3>4. QED
      BY <2>1, <3>3 DEF Followed
  <2>4. QED
    BY <2>2, <2>3
<1>9. QED
  BY <1>2, <1>5, <1>7, <1>8

\* The indexer thread takes a name from a queue, which loses no other one.
LEMMA HandleInv ==
    ASSUME IInv, NEW name \in Projects \X BOOLEAN, NEW serial, Handle(name, serial), indexer = Idle,
           UNCHANGED <<database, event, documents, initial, crashes, strays>>,
           queue' \subseteq queue, errors' \subseteq errors,
           \A item \in queue \ queue' : item.project = name[1],
           errors \ errors' \subseteq {name}
    PROVE  IInv'
<1> USE DEF IInv
<1>1. /\ indexer' = [serial |-> Now + 1, names |-> {name}]
      /\ indexer.names = {}
      /\ UNCHANGED <<respelled, history, stored, event, documents, initial, crashes, strays>>
  BY DEF Handle, Idle, database
<1>2. /\ Now' = Now /\ HistoryInOrder'
      /\ \A q : LatestAt(q, Now)' = LatestAt(q, Now) /\ DocsAt(q, Now)' = DocsAt(q, Now)
              /\ ExistsAt(q, Now)' = ExistsAt(q, Now)
  BY <1>1, SameHistory
<1>3. Now \in Nat /\ Now + 1 \in 0 .. Now + 1
  BY Numbers
<1>4. indexer'.serial = Now + 1 /\ indexer'.names = {name}
  BY <1>1
<1>5. TypeOK'
  <2>1. indexer' \in [serial : 0 .. Now + 1, names : SUBSET (Projects \X BOOLEAN)]
    BY <1>1, <1>3
  <2>2. /\ queue' \subseteq [project : Projects, serial : 0 .. Now, plain : BOOLEAN]
        /\ errors' \cup indexer'.names \subseteq Projects \X BOOLEAN
    BY <1>4 DEF TypeOK
  <2>3. QED
    BY <1>1, <1>2, <2>1, <2>2 DEF TypeOK
<1>6. FilesAwaited' /\ RestAfterStart'
  BY <1>1, <1>2 DEF FilesAwaited, RestAfterStart
<1>7. \A p \in Projects : /\ LatestAt(p, Now) \in Nat /\ LatestAt(p, Now) <= Now
                         /\ documents[p].serial <= Now + 1
  BY <1>3, ProjectTypes DEF HistoryInOrder
<1>8. OneTransaction'
  BY <1>1, <1>2, <1>3, <1>4, <1>7 DEF OneTransaction
<1>9. Followed'
  <2> SUFFICES ASSUME NEW p \in Projects
               PROVE  \/ Agrees(p) \/ (p \in strays /\ ~ExistsAt(p, Now))
                      \/ Pending(p)' /\ (ExistsAt(p, Now) \/ event < LatestAt(p, Now)
                                          \/ p \in Unfinished')
    BY <1>1, <1>2 DEF Followed, Agrees
  <2>1. CASE p = name[1]
    <3>1. p \in {n[1] : n \in indexer'.names} /\ indexer'.serial > LatestAt(p, Now)
      BY <1>3, <1>4, <1>7, <2>1
    <3>2. p \in Unfinished'
      BY <1>4, <2>1 DEF Unfinished
    <3>3. QED
      BY <1>2, <3>1, <3>2 DEF Pending
  <2>2. CASE p # name[1]
    <3>1. \A item \in queue : item.project = p => item \in queue'
      BY <2>2
    <3>2. \A n \in errors : n[1] = p => n \in errors'
      BY <2>2
    <3>3. p \in {item.project : item \in queue} \cup {n[1] : n \in errors} =>
            p \in {item.project : item \in queue'} \cup {n[1] : n \in errors'}
      BY <3>1, <3>2
    <3>4. p \notin {n[1] : n \in indexer.names}
      BY <1>1
    <3>5. Pending(p) => Pending(p)'
      BY <1>1, <1>2, <3>3, <3>4 DEF Pending
    <3>6. p \in Unfinished => p \in Unfinished'
      BY <1>1, <3>1, <3>2 DEF Unfinished
    <3>7. QED
      BY <3>5, <3>6 DEF Followed
  <2>3. QED
    BY <2>1, <2>2
<1>10. QED
  BY <1>2, <1>5, <1>6, <1>8, <1>9

LEMMA TakeInv ==
    ASSUME IInv, TakeNext \/ TakeErrored
    PROVE  IInv'
<1>1. CASE TakeNext
  <2>1. PICK item \in queue : queue' = queue \ {item} /\ Handle(Name(item), item.serial)
    BY <1>1 DEF TakeNext
  <2>2. Name(item) \in Projects \X BOOLEAN /\ Name(item)[1] = item.project
    BY DEF IInv, TypeOK, Name
  <2>3. /\ indexer = Idle /\ errors' = errors
        /\ UNCHANGED <<database, event, documents, initial, crashes, strays>>
    BY <1>1 DEF TakeNext
  <2>4. \A other \in queue \ queue' : other.project = Name(item)[1]
    BY <2>1, <2>2
  <2>5. QED
    BY <2>1, <2>2, <2>3, <2>4, HandleInv
<1>2. CASE TakeErrored
  <2>1. PICK name \in errors : errors' = errors \ {name} /\ Handle(name, Now)
    BY <1>2 DEF TakeErrored
  <2>2. name \in Projects \X BOOLEAN
    BY DEF IInv, TypeOK
  <2>3. /\ indexer = Idle /\ queue' = queue
        /\ UNCHANGED <<database, event, documents, initial, crashes, strays>>
    BY <1>2 DEF TakeErrored
  <2>4. QED
    BY <2>1, <2>2, <2>3, HandleInv
<1>3. QED
  BY <1>1, <1>2

\* After a write the project of the indexer thread agrees, or its last change is going to be
\* handled, or nobody finds its documents.
LEMMA WriteFollows ==
    ASSUME IInv, NEW name \in indexer.names, NEW p, p = name[1], NEW n, n = indexer.serial - 1,
           Update(p, n) \/ Delete(p, n, name[2]),
           UNCHANGED <<database, event, queue, errors, initial, crashes>>
    PROVE  /\ documents' \in [Projects -> [serial : 0 .. Now + 1, docs : BOOLEAN]]
           /\ \A q \in Projects \ {p} : documents'[q] = documents[q]
           /\ strays' \in {strays, strays \cup {p}, strays \ {p}}
           /\ \/ Agrees(p)' \/ (p \in strays' /\ ~ExistsAt(p, Now))
              \/ event < LatestAt(p, Now) \/ \E item \in queue : item.project = p
<1> USE DEF IInv
<1>1. p \in Projects /\ name[2] \in BOOLEAN
  BY DEF TypeOK
<1>2. /\ UNCHANGED <<history, stored, event, queue>> /\ Now' = Now
      /\ \A q : LatestAt(q, Now)' = LatestAt(q, Now) /\ DocsAt(q, Now)' = DocsAt(q, Now)
              /\ ExistsAt(q, Now)' = ExistsAt(q, Now)
  BY SameHistory DEF database
<1>3. /\ Now \in Nat /\ indexer.serial \in Nat /\ indexer.serial <= Now + 1
      /\ LatestAt(p, Now) \in Nat /\ LatestAt(p, Now) <= Now /\ event \in Nat /\ n + 1 = indexer.serial
      /\ documents \in [Projects -> [serial : 0 .. Now + 1, docs : BOOLEAN]]
      /\ documents[p].serial \in Nat /\ documents[p].docs \in BOOLEAN
  <2>1. Now \in Nat /\ Now \in 0 .. Now /\ event \in Nat
    BY Numbers
  <2>2. indexer.serial \in Nat /\ indexer.serial <= Now + 1 /\ n + 1 = indexer.serial
    BY Numbers
  <2>3. LatestAt(p, Now) \in Nat /\ LatestAt(p, Now) <= Now
    BY <1>1, <2>1, ProjectTypes DEF HistoryInOrder
  <2>4. documents[p].serial \in Nat /\ documents[p].docs \in BOOLEAN
    BY <1>1, <2>1, ProjectTypes
  <2>5. QED
    BY <2>1, <2>2, <2>3, <2>4 DEF TypeOK
\* What was committed before the transaction is what it reads.
<1>4. ASSUME LatestAt(p, Now) <= n
      PROVE  ExistsAt(p, n) = ExistsAt(p, Now) /\ DocsAt(p, n) = DocsAt(p, Now)
  <2>1. At(n).project[p] = At(Now).project[p]
    BY <1>1, <1>3, <1>4 DEF HistoryInOrder
  <2>2. QED
    BY <2>1 DEF ExistsAt, DocsAt
<1>5. ASSUME ~(LatestAt(p, Now) <= n)
      PROVE  \/ event < LatestAt(p, Now) \/ \E item \in queue : item.project = p
             \/ p \in strays /\ ~ExistsAt(p, Now)
  <2>1. indexer.serial <= LatestAt(p, Now)
    BY <1>3, <1>5
  <2>2. QED
    BY <1>1, <2>1 DEF OneTransaction
<1>6. CASE Update(p, n)
  <2>1. PICK docs \in HasDocs(p, n) :
            documents' = IF NeedsReindex(documents[p], docs, n + 1)
                         THEN [documents EXCEPT ![p] = [serial |-> n + 1, docs |-> docs]]
                         ELSE documents
    BY <1>6 DEF Update
  <2>2. strays' = IF LatestAt(p, Now) <= n THEN strays \ {p} ELSE strays
    BY <1>6 DEF Update
  <2>3. docs \in BOOLEAN
    BY <2>1 DEF HasDocs
  <2>4. [serial |-> n + 1, docs |-> docs] \in [serial : 0 .. Now + 1, docs : BOOLEAN]
    BY <1>3, <2>3
  <2>5. /\ documents' \in [Projects -> [serial : 0 .. Now + 1, docs : BOOLEAN]]
        /\ \A q \in Projects \ {p} : documents'[q] = documents[q]
        /\ documents'[p] = IF NeedsReindex(documents[p], docs, n + 1)
                           THEN [serial |-> n + 1, docs |-> docs] ELSE documents[p]
    BY <1>1, <1>3, <2>1, <2>4
  <2>6. CASE LatestAt(p, Now) <= n
    <3>1. ExistsAt(p, Now)
      BY <1>4, <1>6, <2>6 DEF Update
    <3>2. docs = (DocsAt(p, Now) \in stored)
      BY <1>4, <2>1, <2>6 DEF HasDocs
    <3>3. documents'[p].serial >= n + 1 /\ documents'[p].docs = docs
      BY <1>3, <2>5 DEF NeedsReindex
    <3>4. documents'[p].serial \in Nat /\ documents'[p].serial > LatestAt(p, Now)
      BY <1>1, <1>3, <2>5, <2>6, <3>3
    <3>5. Agrees(p)'
      BY <1>2, <3>1, <3>2, <3>3, <3>4 DEF Agrees
    <3>6. QED
      BY <2>2, <2>5, <3>5
  <2>7. CASE ~(LatestAt(p, Now) <= n)
    BY <1>5, <2>2, <2>5, <2>7
  <2>8. QED
    BY <2>6, <2>7
<1>7. CASE Delete(p, n, name[2])
  <2>1. /\ ~ExistsAt(p, n)
        /\ documents' = IF name[2] THEN [documents EXCEPT ![p] = NoDocument] ELSE documents
        /\ strays' = IF documents'[p] # NoDocument THEN strays \cup {p}
                     ELSE IF LatestAt(p, Now) <= n THEN strays \ {p} ELSE strays
    BY <1>7 DEF Delete
  <2>2. NoDocument \in [serial : 0 .. Now + 1, docs : BOOLEAN]
    BY <1>3 DEF NoDocument
  <2>3. /\ documents' \in [Projects -> [serial : 0 .. Now + 1, docs : BOOLEAN]]
        /\ \A q \in Projects \ {p} : documents'[q] = documents[q]
    BY <1>1, <1>3, <2>1, <2>2
  <2>4. CASE ~ExistsAt(p, Now)
    <3>1. documents'[p] = NoDocument => Agrees(p)'
      BY <1>2, <2>4 DEF Agrees
    <3>2. QED
      BY <2>1, <2>3, <2>4, <3>1
  <2>5. CASE ExistsAt(p, Now)
    <3>1. ~(LatestAt(p, Now) <= n)
      BY <1>4, <2>1, <2>5
    <3>2. QED
      BY <1>5, <2>1, <2>3, <2>5, <3>1
  <2>6. QED
    BY <2>4, <2>5
<1>8. QED
  BY <1>6, <1>7

LEMMA WriteInv ==
    ASSUME IInv, Write
    PROVE  IInv'
<1> USE DEF IInv
<1>1. PICK name \in indexer.names :
        Update(name[1], indexer.serial - 1) \/ Delete(name[1], indexer.serial - 1, name[2])
  BY DEF Write
<1> DEFINE p == name[1]
<1>2. /\ indexer' = Idle
      /\ UNCHANGED <<database, event, queue, errors, initial, crashes>>
      /\ UNCHANGED <<respelled, history, stored, event, queue, errors, initial, crashes>>
  BY DEF Write, database
<1>3. /\ Now' = Now /\ HistoryInOrder'
      /\ \A q : LatestAt(q, Now)' = LatestAt(q, Now) /\ DocsAt(q, Now)' = DocsAt(q, Now)
              /\ ExistsAt(q, Now)' = ExistsAt(q, Now)
  BY <1>2, SameHistory
<1>4. /\ documents' \in [Projects -> [serial : 0 .. Now + 1, docs : BOOLEAN]]
      /\ \A q \in Projects \ {p} : documents'[q] = documents[q]
      /\ strays' \in {strays, strays \cup {p}, strays \ {p}}
      /\ \/ Agrees(p)' \/ (p \in strays' /\ ~ExistsAt(p, Now))
         \/ event < LatestAt(p, Now) \/ \E item \in queue : item.project = p
  BY <1>1, <1>2, WriteFollows
<1>5. p \in Projects
  BY DEF TypeOK
<1>6. \A other \in indexer.names : other[1] = p
  BY DEF OneTransaction
<1> HIDE DEF p
<1>7. indexer'.names = {} /\ indexer' \in [serial : 0 .. Now + 1, names : SUBSET (Projects \X BOOLEAN)]
  BY <1>2, Numbers DEF Idle
<1>8. TypeOK'
  <2>1. strays' \subseteq Projects /\ errors' \cup indexer'.names \subseteq Projects \X BOOLEAN
    BY <1>2, <1>4, <1>5, <1>7 DEF TypeOK
  <2>2. QED
    BY <1>2, <1>3, <1>4, <1>7, <2>1 DEF TypeOK
<1>9. FilesAwaited' /\ RestAfterStart' /\ OneTransaction'
  BY <1>2, <1>3, <1>7 DEF FilesAwaited, RestAfterStart, OneTransaction
<1>10. Followed'
  <2> SUFFICES ASSUME NEW q \in Projects
               PROVE  \/ Agrees(q)' \/ (q \in strays' /\ ~ExistsAt(q, Now))
                      \/ Pending(q)' /\ (ExistsAt(q, Now) \/ event < LatestAt(q, Now)
                                          \/ q \in Unfinished')
    BY <1>2, <1>3 DEF Followed
  <2>1. CASE q = p
    <3>1. event < LatestAt(p, Now) => Pending(p)'
      BY <1>2, <1>3 DEF Pending
    <3>2. (\E item \in queue : item.project = p) => Pending(p)' /\ p \in Unfinished'
      BY <1>2 DEF Pending, Unfinished
    <3>3. QED
      BY <1>4, <2>1, <3>1, <3>2
  <2>2. CASE q # p
    <3>1. Agrees(q)' = Agrees(q)
      BY <1>2, <1>3, <1>4, <2>2 DEF Agrees
    <3>2. q \notin {other[1] : other \in indexer.names}
      BY <1>6, <2>2
    <3>3. Pending(q) => Pending(q)'
      BY <1>2, <1>3, <3>2 DEF Pending
    <3>4. q \in Unfinished => q \in Unfinished'
      BY <1>2, <3>2 DEF Unfinished
    <3>5. q \in strays => q \in strays'
      BY <1>4, <2>2
    <3>6. QED
      BY <3>1, <3>3, <3>4, <3>5 DEF Followed
  <2>3. QED
    BY <2>1, <2>2
<1>11. QED
  BY <1>3, <1>8, <1>9, <1>10

LEMMA FailInv ==
    ASSUME IInv, Fail
    PROVE  IInv'
<1> USE DEF IInv
<1>1. /\ indexer' = Idle /\ errors' = errors \cup indexer.names
      /\ UNCHANGED <<respelled, history, stored, event, documents, queue, initial, crashes, strays>>
  BY DEF Fail, database
<1>2. /\ Now' = Now /\ HistoryInOrder'
      /\ \A q : LatestAt(q, Now)' = LatestAt(q, Now) /\ DocsAt(q, Now)' = DocsAt(q, Now)
              /\ ExistsAt(q, Now)' = ExistsAt(q, Now)
  BY <1>1, SameHistory
<1>3. indexer'.names = {} /\ indexer' \in [serial : 0 .. Now + 1, names : SUBSET (Projects \X BOOLEAN)]
  BY <1>1, Numbers DEF Idle
<1>4. TypeOK'
  <2>1. errors' \cup indexer'.names \subseteq Projects \X BOOLEAN
    BY <1>1, <1>3 DEF TypeOK
  <2>2. QED
    BY <1>1, <1>2, <1>3, <2>1 DEF TypeOK
<1>5. FilesAwaited' /\ RestAfterStart' /\ OneTransaction'
  BY <1>1, <1>2, <1>3 DEF FilesAwaited, RestAfterStart, OneTransaction
<1>6. Followed'
  <2> SUFFICES ASSUME NEW p \in Projects
               PROVE  \/ Agrees(p) \/ (p \in strays /\ ~ExistsAt(p, Now))
                      \/ Pending(p)' /\ (ExistsAt(p, Now) \/ event < LatestAt(p, Now)
                                          \/ p \in Unfinished')
    BY <1>1, <1>2 DEF Followed, Agrees
  <2>1. {name[1] : name \in errors} \cup {name[1] : name \in indexer.names} \subseteq
            {name[1] : name \in errors'}
    BY <1>1
  <2>2. Pending(p) => Pending(p)'
    BY <1>1, <1>2, <2>1 DEF Pending
  <2>3. Unfinished \subseteq Unfinished'
    BY <1>1 DEF Unfinished
  <2>4. QED
    BY <2>2, <2>3 DEF Followed
<1>7. QED
  BY <1>2, <1>4, <1>5, <1>6

LEMMA CrashInv ==
    ASSUME IInv, Crash
    PROVE  IInv'
<1> USE DEF IInv
<1>1. /\ crashes < MaxCrashes /\ crashes' = crashes + 1
      /\ event' \in {event} \cup {s \in 0 .. Now : s + 1 = event}
      /\ queue' = {} /\ errors' = {} /\ indexer' = Idle /\ initial' = NotStarted
      /\ strays' = strays \cup
            {p \in Unfinished : ~ExistsAt(p, Now) /\ LatestAt(p, Now) <= event'}
      /\ UNCHANGED <<respelled, history, stored, documents>>
  BY DEF Crash, database
<1>2. /\ Now' = Now /\ HistoryInOrder'
      /\ \A q : LatestAt(q, Now)' = LatestAt(q, Now) /\ DocsAt(q, Now)' = DocsAt(q, Now)
              /\ ExistsAt(q, Now)' = ExistsAt(q, Now)
  BY <1>1, SameHistory
<1>3. /\ Now \in Nat /\ event \in Nat /\ event' \in Nat /\ event' <= event /\ event' <= Now
      /\ \A p \in Projects : LatestAt(p, Now) \in Nat
  BY <1>1, Numbers, ProjectTypes
<1>4. /\ indexer'.names = {} /\ indexer' \in [serial : 0 .. Now + 1, names : SUBSET (Projects \X BOOLEAN)]
      /\ initial'.rest = {} /\ initial' \in [serial : 0 .. Now + 1, rest : SUBSET Projects]
  BY <1>1, <1>3 DEF Idle, NotStarted
<1>5. TypeOK'
  <2>1. Unfinished \subseteq Projects
    BY DEF Unfinished, TypeOK
  <2>2. strays' \subseteq Projects
    BY <1>1, <2>1 DEF TypeOK
  <2>3. crashes' \in 0 .. MaxCrashes
    BY <1>1, SearchIndexConstants DEF TypeOK
  <2>4. errors' \cup indexer'.names \subseteq Projects \X BOOLEAN
    BY <1>1, <1>4
  <2>5. QED
    BY <1>1, <1>2, <1>3, <1>4, <2>2, <2>3, <2>4 DEF TypeOK
<1>6. FilesAwaited' /\ RestAfterStart' /\ OneTransaction'
  BY <1>1, <1>2, <1>3, <1>4 DEF FilesAwaited, RestAfterStart, OneTransaction
<1>7. Followed'
  <2> SUFFICES ASSUME NEW p \in Projects
               PROVE  \/ Agrees(p) \/ (p \in strays' /\ ~ExistsAt(p, Now))
                      \/ Pending(p)' /\ (ExistsAt(p, Now) \/ event' < LatestAt(p, Now)
                                          \/ p \in Unfinished')
    BY <1>1, <1>2 DEF Followed, Agrees
  <2>1. CASE ExistsAt(p, Now)
    BY <1>1, <1>2, <2>1 DEF Pending
  <2>2. CASE ~ExistsAt(p, Now)
    <3>1. event' < LatestAt(p, Now) => Pending(p)'
      BY <1>2 DEF Pending
    <3>2. event < LatestAt(p, Now) => event' < LatestAt(p, Now)
      BY <1>3
    <3>3. p \in Unfinished => p \in strays' \/ event' < LatestAt(p, Now)
      BY <1>1, <1>3, <2>2
    <3>4. strays \subseteq strays'
      BY <1>1
    <3>5. QED
      BY <2>2, <3>1, <3>2, <3>3, <3>4 DEF Followed
  <2>3. QED
    BY <2>1, <2>2
<1>8. QED
  BY <1>2, <1>5, <1>6, <1>7

-----------------------------------------------------------------------------
(* The theorems.                                                           *)

LEMMA InitInv == Init => IInv
<1> SUFFICES ASSUME Init PROVE IInv
  OBVIOUS
<1> DEFINE db == [stage |-> TRUE, project |-> [p \in Projects |-> NoProject]]
<1>1. /\ respelled \in SUBSET Projects /\ stored = {} /\ history = <<db>>
      /\ event = 0 /\ documents = [p \in Projects |-> NoDocument]
      /\ queue = {} /\ errors = {} /\ indexer = Idle /\ initial = NotStarted
      /\ crashes = 0 /\ strays = {}
  BY DEF Init
<1>2. NoProject \in ProjectState
      /\ NoProject.change = 0 /\ NoProject.docs = 0 /\ ~NoProject.exists
  BY DEF NoProject, ProjectState
<1>3. db \in Database /\ \A p \in Projects : db.project[p] = NoProject
  BY <1>2 DEF Database
<1> HIDE DEF db
<1>4. Now = 0 /\ At(0) = db /\ history \in Seq(Database) /\ 0 .. Now = {0}
  BY <1>1, <1>3 DEF Now, At
<1>5. /\ Idle.names = {} /\ Idle \in [serial : 0 .. 1, names : SUBSET (Projects \X BOOLEAN)]
      /\ NotStarted.rest = {} /\ NotStarted \in [serial : 0 .. 1, rest : SUBSET Projects]
      /\ NoDocument \in [serial : 0 .. 1, docs : BOOLEAN]
  BY DEF Idle, NotStarted, NoDocument
<1>6. TypeOK
  BY <1>1, <1>4, <1>5, SearchIndexConstants DEF TypeOK
<1>7. \A p \in Projects : LatestAt(p, 0) = 0 /\ DocsAt(p, 0) = 0 /\ ~ExistsAt(p, 0)
  BY <1>2, <1>3, <1>4 DEF LatestAt, DocsAt, ExistsAt
<1>8. HistoryInOrder /\ FilesAwaited
  BY <1>1, <1>4, <1>7 DEF HistoryInOrder, FilesAwaited
<1>9. RestAfterStart /\ OneTransaction
  BY <1>1, <1>5 DEF RestAfterStart, OneTransaction
<1>10. Followed
  BY <1>1, <1>4, <1>7 DEF Followed, Agrees
<1>11. QED
  BY <1>6, <1>8, <1>9, <1>10 DEF IInv

LEMMA StepInv ==
    ASSUME IInv, [Next]_vars
    PROVE  IInv'
<1>1. CASE UNCHANGED vars
  BY <1>1 DEF vars, database, process, IInv, TypeOK, RestAfterStart, HistoryInOrder, FilesAwaited,
              OneTransaction, Followed, Agrees, Pending, Unfinished, Now, At, LatestAt, DocsAt, ExistsAt
<1>2. CASE Next
  BY <1>2, DeleteIndexInv, CreateIndexInv, ChangeProjectInv, FileArrivesInv, DeliverInv,
     InitialBeginInv, InitialNextInv, TakeInv, WriteInv, FailInv, CrashInv DEF Next, Indexer
<1>3. QED
  BY <1>1, <1>2

\* Commits, late files, retries and kills never bring the search index out of step.
THEOREM Invariance == Spec => []IInv
BY InitInv, StepInv, PTL DEF Spec

\* What the search finds is the project as it is, or somebody is going to look at it.
THEOREM Follow == Spec => []DocumentsFollow
<1>1. IInv => DocumentsFollow
  BY DEF IInv, Followed, DocumentsFollow
<1>2. QED
  BY <1>1, Invariance, PTL
=============================================================================
