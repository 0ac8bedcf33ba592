---------------------------- MODULE KeyFSProofs ----------------------------
(***************************************************************************)
(* Proofs about KeyFS: its inductive invariant for any number of threads,  *)
(* keys, values and commits, and that it implements the store of           *)
(* SnapshotStore.                                                          *)
(***************************************************************************)
EXTENDS KeyFS, TLAPS

\* The constants which mark a missing thing are not things.
LEMMA Markers ==
    /\ NoRow \notin Change /\ Unset \notin Original /\ NoRead \notin Cursor
    /\ Absent \notin Vals /\ Deleted \notin Vals /\ Unset \notin Vals
    /\ Absent # Deleted /\ Unset # Deleted /\ Unset # Absent
    /\ NoThread \notin Threads
  BY KeyFSConstants, KeyFSMarkers

\* Initially every variable has its type.
LEMMA InitTypeOK == Init => TypeOK
  BY Markers DEF Init, TypeOK, Serial, Nothing

\* A row of kv which exists is a row of the changelog.
LEMMA KvInLog ==
  ASSUME TypeOK, ChangelogLinked, NEW k \in Keys
  PROVE  kv[k] \in -1..last
  BY DEF TypeOK, ChangelogLinked, IsLastChange, Serial

\* A back_serial points below its own serial.
LEMMA BackInLog ==
  ASSUME TypeOK, ChangelogLinked, NEW k \in Keys, NEW s \in 0..last,
         Changed(s, k)
  PROVE  /\ changelog[s][k] \in Change
         /\ changelog[s][k].back \in -1..s - 1
         /\ changelog[s][k].val \in Vals \cup {Deleted}
  <1>1. changelog[s][k] \in Change
    BY DEF TypeOK, Changed
  <1>2. IsLastChange(k, s - 1, changelog[s][k].back)
    BY DEF ChangelogLinked
  <1>3. QED
    BY <1>1, <1>2 DEF IsLastChange, Change

\* Remembering what was found for a key keeps the type of _original.
LEMMA RememberType ==
  ASSUME TypeOK, NEW t \in Threads, NEW k \in Keys, NEW o \in Original
  PROVE  [original EXCEPT ![t][k] = o] \in [Threads -> [Keys -> Original \cup {Unset}]]
  BY DEF TypeOK

\* Every step preserves the types.
LEMMA NextTypeOK == IInv /\ [Next]_vars => TypeOK'
  <1> SUFFICES ASSUME IInv, [Next]_vars
               PROVE  TypeOK'
    OBVIOUS
  <1> USE DEF IInv, TypeOK, Serial
  <1>1. ASSUME NEW t \in Threads, BeginRead(t)
        PROVE  TypeOK'
    BY <1>1 DEF BeginRead, db
  <1>2. ASSUME NEW t \in Threads, BeginWrite(t)
        PROVE  TypeOK'
    BY <1>2 DEF BeginWrite, db
  <1>3. ASSUME NEW t \in Threads, Acquire(t)
        PROVE  TypeOK'
    BY <1>3 DEF Acquire, db
  <1>4. ASSUME NEW t \in Threads, Timeout(t)
        PROVE  TypeOK'
    BY <1>4 DEF Timeout, db
  <1>5. ASSUME NEW t \in Threads, Rollback(t)
        PROVE  TypeOK'
    BY <1>5 DEF Rollback, Close, Nothing, db
  <1>6. ASSUME NEW t \in Threads, RestartAsWrite(t)
        PROVE  TypeOK'
    BY <1>6 DEF RestartAsWrite, Nothing, db
  <1>7. ASSUME NEW t \in Threads, RestartRead(t)
        PROVE  TypeOK'
    BY <1>7 DEF RestartRead, Nothing, db
  <1>8. ASSUME NEW t \in Threads, GetCached(t)
        PROVE  TypeOK'
    BY <1>8 DEF GetCached, CacheEntry, db
  <1>8a. ASSUME NEW t \in Threads, GetFromRow(t)
         PROVE  TypeOK'
    <2> DEFINE s == atSerial[t]
    <2>1. PICK k \in Keys :
            LET found == [serial |-> s, val |-> changelog[s][k].val]
            IN /\ changelog[s][k] # NoRow
               /\ original' = [original EXCEPT ![t][k] = found]
               /\ CachePut([key |-> k, at |-> s, found |-> found])
      BY <1>8a DEF GetFromRow
    <2> DEFINE found == [serial |-> s, val |-> changelog[s][k].val]
    <2>2. s \in 0..last /\ Changed(s, k)
      BY <1>8a, <2>1 DEF GetFromRow, Changed
    <2>3. found \in Original
      BY <2>2, BackInLog DEF Original
    <2>4. [key |-> k, at |-> s, found |-> found] \in CacheEntry
      BY <2>3 DEF CacheEntry
    <2>5. relpathCache' \subseteq CacheEntry
      BY <2>1, <2>4 DEF CachePut
    <2>6. original' \in [Threads -> [Keys -> Original \cup {Unset}]]
      BY <2>1, <2>3, RememberType
    <2>7. QED
      BY <1>8a, <2>5, <2>6 DEF GetFromRow, db
  <1>9. ASSUME NEW t \in Threads, ReadKv(t)
        PROVE  TypeOK'
    <2>1. NotFound \in Original
      BY DEF NotFound, Original
    <2>2. PICK k \in Keys :
            IF kv[k] = -1
            THEN /\ original' = [original EXCEPT ![t][k] = NotFound]
                 /\ UNCHANGED reading
            ELSE /\ reading' = [reading EXCEPT ![t] = [key |-> k, at |-> kv[k]]]
                 /\ UNCHANGED original
      BY <1>9 DEF ReadKv
    <2>3. kv[k] # -1 => [key |-> k, at |-> kv[k]] \in Cursor
      BY DEF Cursor
    <2>4. original' \in [Threads -> [Keys -> Original \cup {Unset}]]
      <3>1. [original EXCEPT ![t][k] = NotFound]
              \in [Threads -> [Keys -> Original \cup {Unset}]]
        BY <2>1, RememberType
      <3>2. QED
        BY <2>2, <3>1
    <2>5. reading' \in [Threads -> Cursor \cup {NoRead}]
      BY <2>2, <2>3
    <2>6. QED
      BY <1>9, <2>4, <2>5 DEF ReadKv, db
  <1>10. ASSUME NEW t \in Threads, WalkBack(t)
         PROVE  TypeOK'
    <2>1. NotFound \in Original
      BY DEF NotFound, Original
    <2>2. reading[t] \in Cursor /\ reading[t].key \in Keys
      BY <1>10 DEF WalkBack, Cursor
    <2>3. reading[t].at \in 0..last /\ Changed(reading[t].at, reading[t].key)
      BY <1>10 DEF WalkBack, WalkOnTrack
    <2>4. changelog[reading[t].at][reading[t].key].back \in Serial
      BY <2>2, <2>3, BackInLog
    <2> DEFINE k == reading[t].key
               back == changelog[reading[t].at][k].back
    <2>5. \/ /\ original' = [original EXCEPT ![t][k] = NotFound]
             /\ reading' = [reading EXCEPT ![t] = NoRead]
          \/ /\ back # -1
             /\ reading' = [reading EXCEPT ![t].at = back]
             /\ UNCHANGED original
      BY <1>10 DEF WalkBack
    <2>6. original' \in [Threads -> [Keys -> Original \cup {Unset}]]
      <3>1. [original EXCEPT ![t][k] = NotFound]
              \in [Threads -> [Keys -> Original \cup {Unset}]]
        BY <2>1, <2>2, RememberType
      <3>2. QED
        BY <2>5, <3>1
    <2>7. back # -1 => [reading[t] EXCEPT !.at = back] \in Cursor
      BY <2>2, <2>4 DEF Cursor
    <2>8. reading' \in [Threads -> Cursor \cup {NoRead}]
      BY <2>5, <2>7
    <2>9. QED
      BY <1>10, <2>6, <2>8 DEF WalkBack, db
  <1>11. ASSUME NEW t \in Threads, FoundAt(t)
         PROVE  TypeOK'
    <2> DEFINE k == reading[t].key
               s == reading[t].at
               found == [serial |-> s, val |-> changelog[s][k].val]
    <2>1. k \in Keys
      BY <1>11 DEF FoundAt, Cursor
    <2>2. s \in 0..last /\ Changed(s, k)
      BY <1>11 DEF FoundAt, WalkOnTrack
    <2>3. found \in Original
      BY <2>1, <2>2, BackInLog DEF Original
    <2>4. [key |-> k, at |-> atSerial[t], found |-> found] \in CacheEntry
      BY <2>1, <2>3 DEF CacheEntry
    <2>5. relpathCache' \subseteq CacheEntry
      BY <1>11, <2>4 DEF FoundAt, CachePut
    <2>6. original' = [original EXCEPT ![t][k] = found]
          /\ reading' = [reading EXCEPT ![t] = NoRead]
          /\ UNCHANGED <<db, lock, pc, writing, atSerial, cache>>
      BY <1>11 DEF FoundAt
    <2>7. original' \in [Threads -> [Keys -> Original \cup {Unset}]]
      BY <2>1, <2>3, <2>6, RememberType
    <2>8. QED
      BY <2>5, <2>6, <2>7 DEF db
  <1>12. ASSUME NEW t \in Threads, Set(t)
         PROVE  TypeOK'
    BY <1>12 DEF Set, db
  <1>13. ASSUME NEW t \in Threads, Commit(t)
         PROVE  TypeOK'
    <2>1. /\ last' = last + 1
          /\ last' \in Serial
      BY <1>13 DEF Commit, CommitSerial, ReadyToCommit, WriterIsCurrent
    <2>2. ChangesOf(t) \in [Keys -> Change \cup {NoRow}]
      <3>1. ASSUME NEW k \in Records(t)
            PROVE  [back |-> original[t][k].serial, val |-> cache[t][k]] \in Change
        <4>1. k \in Keys /\ cache[t][k] \in Vals \cup {Deleted}
          BY DEF Records
        <4>2. original[t][k] \in Original
          BY <1>13, <4>1 DEF Commit, ReadyToCommit, Records
        <4>3. QED
          BY <4>1, <4>2 DEF Change, Original
      <3>2. QED
        BY <3>1 DEF ChangesOf
    <2>3. changelog' \in [0..last' -> [Keys -> Change \cup {NoRow}]]
      BY <1>13, <2>1, <2>2 DEF Commit
    <2>4. kv' \in [Keys -> Serial]
      BY <1>13, <2>1 DEF Commit
    <2>5. QED
      BY <1>13, <2>1, <2>3, <2>4 DEF Commit, Close, Nothing
  <1>14. ASSUME NEW t \in Threads, CommitNothing(t)
         PROVE  TypeOK'
    BY <1>14 DEF CommitNothing, Close, Nothing, db
  <1>15. ASSUME Crash
         PROVE  TypeOK'
    BY <1>15 DEF Crash, Nothing, db
  <1>16. CASE UNCHANGED vars
    BY <1>16 DEF vars
  <1>17. QED
    BY <1>1, <1>2, <1>3, <1>4, <1>5, <1>6, <1>7, <1>8, <1>8a, <1>9, <1>10,
       <1>11, <1>12, <1>13, <1>14, <1>15, <1>16 DEF Next

-----------------------------------------------------------------------------
(* What a step does to the two tables.                                     *)

\* Only a commit changes them.
LEMMA DbStep == [Next]_vars => UNCHANGED db \/ \E t \in Threads : Commit(t)
  BY DEF Next, vars, db, BeginRead, BeginWrite, Acquire, Timeout, Rollback,
         RestartAsWrite, RestartRead, GetCached, GetFromRow, ReadKv, WalkBack, FoundAt, Set,
         CommitNothing, Crash

\* A commit appends one row to the changelog; its changes name the serials the
\* transaction has read.
LEMMA CommitStep ==
  ASSUME IInv, NEW t \in Threads, Commit(t)
  PROVE  /\ atSerial[t] = last /\ last' = last + 1 /\ last \in Serial
         /\ \A s \in 0..last : changelog'[s] = changelog[s]
         /\ \A k \in Keys :
              \/ /\ kv'[k] = last'
                 /\ changelog'[last'][k]
                      = [back |-> original[t][k].serial, val |-> cache[t][k]]
                 /\ Changed(last, k)'
                 /\ IsLastChange(k, last, original[t][k].serial)
              \/ /\ kv'[k] = kv[k]
                 /\ ~Changed(last, k)'
  <1>1. atSerial[t] = last /\ last' = last + 1 /\ last \in Serial
    BY DEF Commit, ReadyToCommit, CommitSerial, IInv, WriterIsCurrent, TypeOK
  <1>2. changelog' = [s \in 0..last + 1 |->
                        IF s = last + 1 THEN ChangesOf(t) ELSE changelog[s]]
    BY <1>1 DEF Commit, CommitSerial
  <1>3. \A s \in 0..last : changelog'[s] = changelog[s]
    BY <1>1, <1>2 DEF Serial
  <1>4. changelog'[last'] = ChangesOf(t)
    BY <1>1, <1>2 DEF Serial
  <1>5. ASSUME NEW k \in Keys, k \in Records(t)
        PROVE  /\ kv'[k] = last'
               /\ changelog'[last'][k]
                    = [back |-> original[t][k].serial, val |-> cache[t][k]]
               /\ Changed(last, k)'
               /\ IsLastChange(k, last, original[t][k].serial)
    <2>1. original[t][k] # Unset
      BY <1>5 DEF Commit, ReadyToCommit, Records
    <2>2. IsLastChange(k, last, original[t][k].serial)
      BY <2>1, <1>1 DEF IInv, SnapshotReads, IsOriginal
    <2>3. [back |-> original[t][k].serial, val |-> cache[t][k]] \in Change
      <3>1. original[t][k] \in Original
        BY <2>1 DEF IInv, TypeOK
      <3>2. cache[t][k] \in Vals \cup {Deleted}
        BY <1>5 DEF IInv, TypeOK, Records
      <3>3. QED
        BY <3>1, <3>2 DEF Original, Change
    <2>4. changelog'[last'][k]
            = [back |-> original[t][k].serial, val |-> cache[t][k]]
      BY <1>4, <1>5 DEF ChangesOf
    <2>5. Changed(last, k)'
      BY <2>3, <2>4, Markers DEF Changed
    <2>6. kv'[k] = last'
      BY <1>1, <1>5 DEF Commit, CommitSerial
    <2>7. QED
      BY <2>2, <2>4, <2>5, <2>6
  <1>6. ASSUME NEW k \in Keys, k \notin Records(t)
        PROVE  kv'[k] = kv[k] /\ ~Changed(last, k)'
    BY <1>4, <1>6 DEF Commit, ChangesOf, Changed
  <1>7. QED
    BY <1>1, <1>3, <1>5, <1>6

\* What was committed stays as it was: the last change of a key up to a committed
\* serial is the same after any step.
LEMMA HistoryStable ==
  ASSUME IInv, [Next]_vars
  PROVE  /\ last \in Serial /\ last' \in Serial /\ last <= last'
         /\ \A s \in 0..last : changelog'[s] = changelog[s]
         /\ \A k \in Keys, s \in -1..last, l \in Serial :
                IsLastChange(k, s, l) <=> IsLastChange(k, s, l)'
  <1>1. /\ last \in Serial /\ last' \in Serial /\ last <= last'
        /\ \A s \in 0..last : changelog'[s] = changelog[s]
    <2>1. CASE UNCHANGED db
      BY <2>1 DEF db, IInv, TypeOK, Serial
    <2>2. CASE \E t \in Threads : Commit(t)
      BY <2>2, CommitStep DEF Serial
    <2>3. QED
      BY <2>1, <2>2, DbStep
  <1>2. \A k \in Keys, s \in 0..last : Changed(s, k) <=> Changed(s, k)'
    BY <1>1 DEF Changed
  <1>3. QED
    BY <1>1, <1>2 DEF IsLastChange, Serial

\* An answer which was right for a committed serial stays right.
LEMMA OriginalStable ==
  ASSUME IInv, [Next]_vars, NEW k \in Keys, NEW s \in -1..last, NEW o \in Original,
         IsOriginal(k, s, o)
  PROVE  IsOriginal(k, s, o)'
  <1>1. o.serial \in Serial /\ o.serial \in -1..s
    BY DEF Original, IsOriginal, IsLastChange
  <1>2. IsLastChange(k, s, o.serial)'
    BY <1>1, HistoryStable DEF IsOriginal
  <1>3. o.serial # -1 => changelog'[o.serial] = changelog[o.serial]
    BY <1>1, HistoryStable DEF Serial
  <1>4. QED
    BY <1>2, <1>3 DEF IsOriginal

\* kv and the back_serial links stay correct.
LEMMA NextLinked == IInv /\ [Next]_vars => ChangelogLinked'
  <1> SUFFICES ASSUME IInv, [Next]_vars, NEW k \in Keys
               PROVE  /\ IsLastChange(k, last, kv[k])'
                      /\ \A s \in 0..last' : Changed(s, k)' =>
                            IsLastChange(k, s - 1, changelog[s][k].back)'
    BY DEF ChangelogLinked
  <1>1. CASE UNCHANGED db
    BY <1>1 DEF db, IInv, ChangelogLinked, IsLastChange, Changed
  <1>2. ASSUME NEW t \in Threads, Commit(t)
        PROVE  /\ IsLastChange(k, last, kv[k])'
               /\ \A s \in 0..last' : Changed(s, k)' =>
                            IsLastChange(k, s - 1, changelog[s][k].back)'
    <2>1. /\ last' = last + 1 /\ last \in Serial
          /\ \A s \in 0..last : changelog'[s] = changelog[s]
      BY <1>2, CommitStep
    <2>2. kv[k] \in Serial /\ IsLastChange(k, last, kv[k])
      BY DEF IInv, TypeOK, ChangelogLinked
    <2>3. \A s \in 0..last : Changed(s, k) <=> Changed(s, k)'
      BY <2>1 DEF Changed
    <2>4. IsLastChange(k, last, kv[k])'
      <3>1. CASE kv'[k] = last' /\ Changed(last, k)'
        BY <2>1, <3>1 DEF IsLastChange, Serial
      <3>2. CASE kv'[k] = kv[k] /\ ~Changed(last, k)'
        BY <2>1, <2>2, <2>3, <3>2 DEF IsLastChange, Serial
      <3>3. QED
        BY <1>2, CommitStep, <3>1, <3>2
    <2>5. ASSUME NEW s \in 0..last, Changed(s, k)'
          PROVE  IsLastChange(k, s - 1, changelog[s][k].back)'
      <3>1. changelog[s][k].back \in Serial
            /\ IsLastChange(k, s - 1, changelog[s][k].back)
        BY <2>3, <2>5, BackInLog DEF IInv, ChangelogLinked, Change
      <3>2. PICK l \in Serial : l = changelog[s][k].back
        BY <3>1
      <3>3. IsLastChange(k, s - 1, l)'
        BY <2>1, <3>1, <3>2, HistoryStable DEF Serial
      <3>4. changelog'[s][k].back = l
        BY <2>1, <3>2
      <3>5. QED
        BY <3>3, <3>4
    <2>6. Changed(last, k)' => IsLastChange(k, last - 1, changelog[last][k].back)'
      <3>1. CASE /\ changelog'[last'][k]
                      = [back |-> original[t][k].serial, val |-> cache[t][k]]
                 /\ IsLastChange(k, last, original[t][k].serial)
        <4>1. PICK l \in Serial : l = original[t][k].serial
          BY <3>1, <2>1 DEF IsLastChange, Serial
        <4>2. IsLastChange(k, last, l)
          BY <3>1, <4>1
        <4>3. IsLastChange(k, last - 1, l)'
          BY <4>1, <4>2, <2>1, <2>3 DEF IsLastChange, Serial
        <4>4. changelog'[last'][k].back = l
          BY <3>1, <4>1
        <4>5. QED
          BY <4>3, <4>4
      <3>2. CASE ~Changed(last, k)'
        BY <3>2
      <3>3. QED
        BY <1>2, CommitStep, <3>1, <3>2
    <2>7. QED
      BY <2>1, <2>4, <2>5, <2>6 DEF Serial
  <1>3. QED
    BY <1>1, <1>2, DbStep

-----------------------------------------------------------------------------
(* What a transaction reads.                                               *)

\* A key with no change up to s does not exist at s.
LEMMA NotFoundIsOriginal ==
  ASSUME NEW k \in Keys, NEW s, IsLastChange(k, s, -1)
  PROVE  IsOriginal(k, s, NotFound)
  BY DEF IsOriginal, NotFound

\* Each of the ways get_original obtains a value gives the one at at_serial.
LEMMA ReadIsOriginal ==
  ASSUME IInv, NEW t \in Threads, NEW k \in Keys,
         GetCached(t) \/ GetFromRow(t) \/ ReadKv(t) \/ WalkBack(t) \/ FoundAt(t),
         original'[t][k] # original[t][k]
  PROVE  /\ pc[t] = "open" /\ atSerial[t] \in -1..last
         /\ original'[t][k] \in Original
         /\ IsOriginal(k, atSerial[t], original'[t][k])
  <1> USE DEF IInv, TypeOK
  <1>0. atSerial[t] \in -1..last /\ last \in Serial /\ NotFound \in Original
    BY DEF NotFound, Original, Serial
  <1>1. CASE GetCached(t)
    <2>1. PICK e \in relpathCache :
            /\ e.key = k /\ e.at = atSerial[t]
            /\ original'[t][k] = e.found
      BY <1>1 DEF GetCached
    <2>2. e.found \in Original /\ IsOriginal(k, atSerial[t], e.found)
      BY <2>1 DEF CacheCoherent, CacheEntry
    <2>3. QED
      BY <1>0, <1>1, <2>1, <2>2 DEF GetCached, InTransaction
  <1>1a. CASE GetFromRow(t)
    <2> DEFINE s == atSerial[t]
    <2>1. /\ pc[t] = "open" /\ s \in 0..last /\ Changed(s, k)
          /\ original'[t][k] = [serial |-> s, val |-> changelog[s][k].val]
      BY <1>0, <1>1a DEF GetFromRow, InTransaction, Changed, Serial
    <2>2. changelog[s][k].val \in Vals \cup {Deleted}
      BY <2>1, BackInLog
    <2>3. original'[t][k] \in Original
      BY <2>1, <2>2 DEF Original, Serial
    <2>4. IsLastChange(k, s, s)
      BY <2>1 DEF IsLastChange
    <2>5. QED
      BY <1>0, <2>1, <2>3, <2>4 DEF IsOriginal, Serial
  <1>2. CASE ReadKv(t)
    <2>1. original'[t][k] = NotFound /\ kv[k] = -1 /\ pc[t] = "open"
      BY <1>2 DEF ReadKv, InTransaction
    <2>2. IsLastChange(k, atSerial[t], -1)
      BY <1>0, <2>1 DEF ChangelogLinked, IsLastChange, Serial
    <2>3. QED
      BY <1>0, <2>1, <2>2, NotFoundIsOriginal
  <1>3. CASE WalkBack(t)
    <2> DEFINE s == reading[t].at
    <2>1. /\ reading[t] \in Cursor /\ reading[t].key = k
          /\ original'[t][k] = NotFound
          /\ s > atSerial[t] /\ changelog[s][k].back = -1
      BY <1>3 DEF WalkBack
    <2>2. pc[t] = "open" /\ s \in 0..last /\ Changed(s, k)
      BY <2>1, <1>3 DEF WalkBack, WalkOnTrack
    <2>3. IsLastChange(k, s - 1, -1)
      BY <2>1, <2>2 DEF ChangelogLinked
    <2>4. IsLastChange(k, atSerial[t], -1)
      BY <1>0, <2>1, <2>2, <2>3 DEF IsLastChange, Serial
    <2>5. QED
      BY <1>0, <2>1, <2>2, <2>4, NotFoundIsOriginal
  <1>4. CASE FoundAt(t)
    <2> DEFINE s == reading[t].at
    <2>1. /\ reading[t] \in Cursor /\ reading[t].key = k
          /\ original'[t][k] = [serial |-> s, val |-> changelog[s][k].val]
          /\ s <= atSerial[t]
      BY <1>4 DEF FoundAt
    <2>2. /\ pc[t] = "open" /\ s \in 0..last /\ Changed(s, k)
          /\ IsLastChange(k, atSerial[t], s)
      BY <2>1, <1>4 DEF FoundAt, WalkOnTrack
    <2>3. changelog[s][k].val \in Vals \cup {Deleted}
      BY <2>2, BackInLog
    <2>4. original'[t][k] \in Original
      BY <2>1, <2>2, <2>3 DEF Original, Serial
    <2>5. IsOriginal(k, atSerial[t], original'[t][k])
      BY <2>1, <2>2 DEF IsOriginal
    <2>6. QED
      BY <1>0, <2>2, <2>4, <2>5
  <1>5. QED
    BY <1>1, <1>1a, <1>2, <1>3, <1>4

\* Whatever a step does, what a transaction has read stays right, and what it reads
\* is right.
LEMMA NextSnapshotReads == IInv /\ [Next]_vars => SnapshotReads'
  <1> SUFFICES ASSUME IInv, [Next]_vars, NEW t \in Threads, NEW k \in Keys,
                      original'[t][k] # Unset
               PROVE  /\ pc'[t] = "open"
                      /\ IsOriginal(k, atSerial[t], original[t][k])'
    BY DEF SnapshotReads
  <1>0. atSerial[t] \in -1..last /\ TypeOK
    BY DEF IInv, TypeOK
  <1>1. ASSUME original'[t][k] = original[t][k], atSerial'[t] = atSerial[t],
               pc'[t] = pc[t]
        PROVE  pc'[t] = "open" /\ IsOriginal(k, atSerial[t], original[t][k])'
    <2>1. /\ pc[t] = "open" /\ original[t][k] \in Original
          /\ IsOriginal(k, atSerial[t], original[t][k])
      BY <1>1 DEF IInv, SnapshotReads, TypeOK
    <2>2. PICK s \in -1..last, o \in Original : s = atSerial[t] /\ o = original[t][k]
      BY <1>0, <2>1
    <2>3. IsOriginal(k, s, o)'
      BY <2>1, <2>2, OriginalStable
    <2>4. QED
      BY <1>1, <2>1, <2>2, <2>3
  <1>2. ASSUME GetCached(t) \/ GetFromRow(t) \/ ReadKv(t) \/ WalkBack(t) \/ FoundAt(t)
        PROVE  pc'[t] = "open" /\ IsOriginal(k, atSerial[t], original[t][k])'
    <2>1. pc' = pc /\ atSerial' = atSerial
      BY <1>2 DEF GetCached, GetFromRow, ReadKv, WalkBack, FoundAt
    <2>2. CASE original'[t][k] = original[t][k]
      BY <1>1, <2>1, <2>2
    <2>3. CASE original'[t][k] # original[t][k]
      <3>1. PICK s \in -1..last, o \in Original :
              /\ s = atSerial[t] /\ o = original'[t][k]
              /\ pc[t] = "open" /\ IsOriginal(k, s, o)
        BY <1>2, <2>3, ReadIsOriginal
      <3>2. IsOriginal(k, s, o)'
        BY <3>1, OriginalStable
      <3>3. QED
        BY <2>1, <3>1, <3>2
    <2>4. QED
      BY <2>2, <2>3
  <1>3. ASSUME NEW u \in Threads, u # t, 
               GetCached(u) \/ GetFromRow(u) \/ ReadKv(u) \/ WalkBack(u) \/ FoundAt(u)
        PROVE  pc'[t] = "open" /\ IsOriginal(k, atSerial[t], original[t][k])'
    <2>1. pc' = pc /\ atSerial' = atSerial
      BY <1>3 DEF GetCached, GetFromRow, ReadKv, WalkBack, FoundAt
    <2>2. original'[t] = original[t]
      BY <1>0, <1>3 DEF GetCached, GetFromRow, ReadKv, WalkBack, FoundAt, TypeOK
    <2>3. QED
      BY <1>1, <2>1, <2>2
  <1>4. ASSUME NEW u \in Threads,
               \/ BeginRead(u) \/ BeginWrite(u) \/ Acquire(u) \/ Timeout(u)
               \/ Rollback(u) \/ RestartAsWrite(u) \/ RestartRead(u)
               \/ Set(u) \/ Commit(u) \/ CommitNothing(u)
        PROVE  pc'[t] = "open" /\ IsOriginal(k, atSerial[t], original[t][k])'
    <2>1. original'[t][k] = original[t][k]
      BY <1>0, <1>4 DEF BeginRead, BeginWrite, Acquire, Timeout, Rollback,
             RestartAsWrite, RestartRead, Set, Commit, CommitNothing, Close,
             Nothing, TypeOK
    <2>2. pc[t] = "open"
      BY <2>1 DEF IInv, SnapshotReads
    <2>3. pc'[t] = pc[t] /\ atSerial'[t] = atSerial[t]
      BY <1>0, <1>4, <2>2 DEF BeginRead, BeginWrite, Acquire, Timeout, Rollback,
             RestartAsWrite, RestartRead, Set, Commit, CommitNothing, Close,
             Nothing, TypeOK
    <2>4. QED
      BY <1>1, <2>1, <2>3
  <1>5. CASE Crash
    BY <1>5 DEF Crash, Nothing
  <1>6. CASE UNCHANGED vars
    BY <1>1, <1>6 DEF vars
  <1>7. QED
    BY <1>2, <1>3, <1>4, <1>5, <1>6 DEF Next

\* The cached answers stay right, and only right answers are cached.
LEMMA NextCacheCoherent == IInv /\ [Next]_vars => CacheCoherent'
  <1> SUFFICES ASSUME IInv, [Next]_vars, NEW e \in relpathCache'
               PROVE  e.at <= last' /\ IsOriginal(e.key, e.at, e.found)'
    BY DEF CacheCoherent
  <1>1. ASSUME e \in relpathCache
        PROVE  e.at <= last' /\ IsOriginal(e.key, e.at, e.found)'
    <2>1. /\ e.key \in Keys /\ e.at \in -1..last /\ e.found \in Original
          /\ IsOriginal(e.key, e.at, e.found)
      BY <1>1 DEF IInv, TypeOK, CacheCoherent, CacheEntry, Serial
    <2>2. QED
      BY <2>1, OriginalStable, HistoryStable DEF Serial
  <1>2. ASSUME NEW t \in Threads, FoundAt(t), e \notin relpathCache
        PROVE  e.at <= last' /\ IsOriginal(e.key, e.at, e.found)'
    <2> DEFINE k == reading[t].key
               s == reading[t].at
               found == [serial |-> s, val |-> changelog[s][k].val]
    <2>1. k \in Keys /\ atSerial[t] \in -1..last
      BY <1>2 DEF FoundAt, IInv, TypeOK, Cursor
    <2>2. e = [key |-> k, at |-> atSerial[t], found |-> found]
      BY <1>2 DEF FoundAt, CachePut
    <2>3. /\ s \in 0..last /\ Changed(s, k)
          /\ IsLastChange(k, atSerial[t], s)
      BY <1>2 DEF FoundAt, IInv, WalkOnTrack
    <2>4. changelog[s][k].val \in Vals \cup {Deleted}
      BY <2>1, <2>3, BackInLog DEF IInv
    <2>5. found \in Original
      BY <2>3, <2>4 DEF Original, Serial
    <2>6. IsOriginal(k, atSerial[t], found)
      BY <2>3 DEF IsOriginal
    <2>7. e.key \in Keys /\ e.at \in -1..last /\ e.found \in Original
          /\ IsOriginal(e.key, e.at, e.found)
      BY <2>1, <2>2, <2>5, <2>6
    <2>8. QED
      BY <2>7, OriginalStable, HistoryStable DEF Serial
  <1>2a. ASSUME NEW t \in Threads, GetFromRow(t), e \notin relpathCache
         PROVE  e.at <= last' /\ IsOriginal(e.key, e.at, e.found)'
    <2> DEFINE s == atSerial[t]
    <2>1. PICK k \in Keys :
            /\ changelog[s][k] # NoRow
            /\ CachePut([key |-> k, at |-> s,
                         found |-> [serial |-> s, val |-> changelog[s][k].val]])
      BY <1>2a DEF GetFromRow
    <2> DEFINE found == [serial |-> s, val |-> changelog[s][k].val]
    <2>2. e = [key |-> k, at |-> s, found |-> found]
      BY <1>2a, <2>1 DEF CachePut
    <2>3. s \in 0..last /\ Changed(s, k) /\ IsLastChange(k, s, s)
      BY <1>2a, <2>1 DEF GetFromRow, IInv, TypeOK, Changed, IsLastChange
    <2>4. found \in Original
      BY <2>3, BackInLog DEF Original, Serial, IInv
    <2>5. IsOriginal(k, s, found)
      BY <2>3 DEF IsOriginal
    <2>6. e.key \in Keys /\ e.at \in -1..last /\ e.found \in Original
          /\ IsOriginal(e.key, e.at, e.found)
      BY <2>2, <2>3, <2>4, <2>5
    <2>7. QED
      BY <2>6, OriginalStable, HistoryStable DEF Serial
  <1>3. e \notin relpathCache => \E t \in Threads : FoundAt(t) \/ GetFromRow(t)
    BY DEF Next, vars, BeginRead, BeginWrite, Acquire, Timeout, Rollback,
           RestartAsWrite, RestartRead, GetCached, ReadKv, WalkBack, Set, Commit,
           CommitNothing, Crash
  <1>4. QED
    BY <1>1, <1>2, <1>2a, <1>3

\* There stays at most one writer, at the last serial.
LEMMA NextWriterIsCurrent == IInv /\ [Next]_vars => WriterIsCurrent'
  <1> SUFFICES ASSUME IInv, [Next]_vars, NEW t \in Threads
               PROVE  /\ writing'[t] <=> lock' = t
                      /\ writing'[t] => pc'[t] = "open" /\ atSerial'[t] = last'
    BY DEF WriterIsCurrent
  <1> USE Markers DEF IInv, TypeOK, WriterIsCurrent
  <1>1. ASSUME NEW u \in Threads,
               \/ BeginRead(u) \/ BeginWrite(u) \/ Timeout(u) \/ Set(u)
               \/ GetCached(u) \/ GetFromRow(u) \/ ReadKv(u) \/ WalkBack(u) \/ FoundAt(u)
               \/ RestartAsWrite(u) \/ RestartRead(u)
        PROVE  /\ writing'[t] <=> lock' = t
               /\ writing'[t] => pc'[t] = "open" /\ atSerial'[t] = last'
    BY <1>1 DEF BeginRead, BeginWrite, Timeout, Set, GetCached, GetFromRow, ReadKv, WalkBack,
           FoundAt, RestartAsWrite, RestartRead, db, InTransaction
  <1>2. ASSUME NEW u \in Threads, Acquire(u)
        PROVE  /\ writing'[t] <=> lock' = t
               /\ writing'[t] => pc'[t] = "open" /\ atSerial'[t] = last'
    BY <1>2 DEF Acquire, db
  <1>3. ASSUME NEW u \in Threads, Rollback(u) \/ CommitNothing(u)
        PROVE  /\ writing'[t] <=> lock' = t
               /\ writing'[t] => pc'[t] = "open" /\ atSerial'[t] = last'
    <2>1. /\ lock' = IF lock = u THEN NoThread ELSE lock
          /\ writing' = [writing EXCEPT ![u] = FALSE]
          /\ pc' = [pc EXCEPT ![u] = "idle"]
          /\ atSerial' = [atSerial EXCEPT ![u] = -1]
          /\ last' = last
      BY <1>3 DEF Rollback, CommitNothing, Close, db
    <2>2. CASE t = u
      BY <2>1, <2>2
    <2>3. CASE t # u
      BY <2>1, <2>3
    <2>4. QED
      BY <2>2, <2>3
  <1>4. ASSUME NEW u \in Threads, Commit(u)
        PROVE  /\ writing'[t] <=> lock' = t
               /\ writing'[t] => pc'[t] = "open" /\ atSerial'[t] = last'
    BY <1>4 DEF Commit, ReadyToCommit, Close
  <1>5. CASE Crash
    BY <1>5 DEF Crash
  <1>6. CASE UNCHANGED vars
    BY <1>6 DEF vars
  <1>7. QED
    BY <1>1, <1>2, <1>3, <1>4, <1>5, <1>6 DEF Next

\* A reader which has not reached its serial yet has not missed a change.
LEMMA NextWalkOnTrack == IInv /\ [Next]_vars => WalkOnTrack'
  <1> SUFFICES ASSUME IInv, [Next]_vars, NEW t \in Threads, reading'[t] # NoRead
               PROVE  /\ pc'[t] = "open"
                      /\ original'[t][reading'[t].key] = Unset
                      /\ reading'[t].at \in 0..last'
                      /\ Changed(reading[t].at, reading[t].key)'
                      /\ reading'[t].at <= atSerial'[t] =>
                           IsLastChange(reading[t].key, atSerial[t], reading[t].at)'
    BY DEF WalkOnTrack
  <1> DEFINE Track ==
                 /\ pc'[t] = "open"
                 /\ original'[t][reading'[t].key] = Unset
                 /\ reading'[t].at \in 0..last'
                 /\ Changed(reading[t].at, reading[t].key)'
                 /\ reading'[t].at <= atSerial'[t] =>
                      IsLastChange(reading[t].key, atSerial[t], reading[t].at)'
  <1>0. TypeOK /\ atSerial[t] \in -1..last /\ last \in Serial
    BY DEF IInv, TypeOK
  <1>1. ASSUME NEW k \in Keys, NEW s \in 0..last,
               pc'[t] = "open", original'[t][k] = Unset,
               reading'[t] = [key |-> k, at |-> s], atSerial'[t] = atSerial[t],
               Changed(s, k),
               s <= atSerial[t] => IsLastChange(k, atSerial[t], s)
        PROVE  Track
    <2>1. PICK a \in -1..last : a = atSerial[t]
      BY <1>0
    <2>2. s <= a => IsLastChange(k, a, s)'
      BY <1>1, <2>1, HistoryStable DEF Serial
    <2>3. Changed(s, k)'
      BY <1>1, HistoryStable DEF Changed
    <2>4. s \in 0..last'
      BY <1>1, HistoryStable DEF Serial
    <2>5. QED
      BY <1>1, <2>1, <2>2, <2>3, <2>4
  <1>2. ASSUME reading'[t] = reading[t], pc'[t] = pc[t],
               original'[t] = original[t], atSerial'[t] = atSerial[t]
        PROVE  Track
    <2>1. reading[t] \in Cursor
      BY <1>2 DEF IInv, TypeOK
    <2>2. PICK k \in Keys, s \in Nat : reading[t] = [key |-> k, at |-> s]
      BY <2>1 DEF Cursor
    <2>3. /\ pc[t] = "open" /\ original[t][k] = Unset
          /\ s \in 0..last /\ Changed(s, k)
          /\ s <= atSerial[t] => IsLastChange(k, atSerial[t], s)
      BY <1>2, <2>2 DEF IInv, WalkOnTrack
    <2>4. QED
      BY <1>1, <1>2, <2>2, <2>3
  <1>3. CASE ReadKv(t)
    <2>1. PICK k \in Keys :
            /\ original[t][k] = Unset /\ kv[k] # -1
            /\ reading'[t] = [key |-> k, at |-> kv[k]]
      BY <1>3 DEF ReadKv, InTransaction, IInv, TypeOK
    <2>2. kv[k] \in 0..last /\ IsLastChange(k, last, kv[k])
      BY <1>0, <2>1, KvInLog DEF IInv, ChangelogLinked, Serial
    <2>3. Changed(kv[k], k)
      BY <2>2 DEF IsLastChange
    <2>4. kv[k] <= atSerial[t] => IsLastChange(k, atSerial[t], kv[k])
      BY <1>0, <2>2 DEF IsLastChange, Serial
    <2>5. pc'[t] = "open" /\ atSerial'[t] = atSerial[t]
      BY <1>3 DEF ReadKv, InTransaction
    <2>6. original'[t][k] = Unset
      BY <1>0, <1>3, <2>1 DEF ReadKv, InTransaction, TypeOK
    <2>7. QED
      BY <1>1, <2>1, <2>2, <2>3, <2>4, <2>5, <2>6
  <1>4. CASE WalkBack(t)
    <2>1. reading[t] \in Cursor
      BY <1>4 DEF WalkBack, IInv, TypeOK
    <2>2. PICK k \in Keys, s \in Nat : reading[t] = [key |-> k, at |-> s]
      BY <2>1 DEF Cursor
    <2> DEFINE back == changelog[s][k].back
    <2>3. /\ pc[t] = "open" /\ original[t][k] = Unset /\ s \in 0..last
          /\ Changed(s, k)
      BY <1>4, <2>2 DEF WalkBack, IInv, WalkOnTrack
    <2>4. /\ s > atSerial[t] /\ back # -1 /\ UNCHANGED <<original, pc, atSerial>>
          /\ reading' = [reading EXCEPT ![t].at = back]
      BY <1>0, <1>4, <2>2 DEF WalkBack, TypeOK
    <2>5. back \in -1..s - 1 /\ IsLastChange(k, s - 1, back)
      BY <2>3, BackInLog DEF IInv, ChangelogLinked
    <2>6. back \in 0..last /\ Changed(back, k)
      BY <1>0, <2>3, <2>4, <2>5 DEF IsLastChange, Serial
    <2>7. back <= atSerial[t] => IsLastChange(k, atSerial[t], back)
      BY <1>0, <2>3, <2>4, <2>5 DEF IsLastChange, Serial
    <2>8. reading'[t] = [key |-> k, at |-> back]
      BY <1>0, <2>2, <2>4 DEF TypeOK
    <2>9. QED
      BY <1>1, <2>3, <2>4, <2>6, <2>7, <2>8
  <1>5. ASSUME NEW u \in Threads, u # t,
               GetCached(u) \/ GetFromRow(u) \/ ReadKv(u) \/ WalkBack(u) \/ FoundAt(u)
        PROVE  Track
    BY <1>0, <1>2, <1>5 DEF GetCached, GetFromRow, ReadKv, WalkBack, FoundAt, TypeOK
  <1>6. ASSUME GetCached(t) \/ GetFromRow(t) \/ FoundAt(t)
        PROVE  FALSE
    BY <1>0, <1>6 DEF GetCached, GetFromRow, FoundAt, InTransaction, TypeOK
  <1>7. ASSUME NEW u \in Threads,
               \/ BeginRead(u) \/ BeginWrite(u) \/ Acquire(u) \/ Timeout(u)
               \/ Rollback(u) \/ RestartAsWrite(u) \/ RestartRead(u)
               \/ Set(u) \/ Commit(u) \/ CommitNothing(u)
        PROVE  Track
    <2>1. reading'[t] = reading[t] /\ pc[t] = "open"
      BY <1>7 DEF BeginRead, BeginWrite, Acquire, Timeout, Rollback,
             RestartAsWrite, RestartRead, Set, Commit, CommitNothing,
             IInv, WalkOnTrack
    <2>2. /\ pc'[t] = pc[t] /\ atSerial'[t] = atSerial[t]
          /\ original'[t] = original[t]
      BY <1>0, <1>7, <2>1 DEF BeginRead, BeginWrite, Acquire, Timeout, Rollback,
             RestartAsWrite, RestartRead, Set, Commit, CommitNothing, Close,
             ReadyToCommit, InTransaction, TypeOK
    <2>3. QED
      BY <1>2, <2>1, <2>2
  <1>8. CASE Crash
    BY <1>8 DEF Crash
  <1>9. CASE UNCHANGED vars
    BY <1>2, <1>9 DEF vars
  <1>10. QED
    BY <1>3, <1>4, <1>5, <1>6, <1>7, <1>8, <1>9 DEF Next

-----------------------------------------------------------------------------
(* The theorems.                                                           *)

\* The invariant holds initially.
LEMMA InitIInv == Init => IInv
  <1> SUFFICES ASSUME Init
               PROVE  IInv
    OBVIOUS
  <1>1. TypeOK
    BY InitTypeOK
  <1>2. ChangelogLinked
    BY DEF Init, ChangelogLinked, IsLastChange
  <1>3. WriterIsCurrent
    BY Markers DEF Init, WriterIsCurrent
  <1>4. SnapshotReads /\ CacheCoherent /\ WalkOnTrack
    BY DEF Init, SnapshotReads, CacheCoherent, WalkOnTrack, Nothing
  <1>5. QED
    BY <1>1, <1>2, <1>3, <1>4 DEF IInv

\* Every step preserves it.
LEMMA NextIInv == IInv /\ [Next]_vars => IInv'
  BY NextTypeOK, NextLinked, NextSnapshotReads, NextCacheCoherent,
     NextWriterIsCurrent, NextWalkOnTrack DEF IInv

\* The invariant of KeyFS holds in every reachable state.
THEOREM Invariance == Spec => []IInv
  BY InitIInv, NextIInv, PTL DEF Spec

\* Every variable keeps its type.
THEOREM TypeCorrect == Spec => []TypeOK
  <1>1. IInv => TypeOK
    BY DEF IInv
  <1>2. QED
    BY <1>1, Invariance, PTL

\* Snapshot isolation of the readers: all that a transaction has read belongs to the
\* serial it started at, for any number of concurrent commits.
THEOREM SnapshotIsolation == Spec => []SnapshotReads
  <1>1. IInv => SnapshotReads
    BY DEF IInv
  <1>2. QED
    BY <1>1, Invariance, PTL

\* One writer at a time, and it has read the latest serial: no update is lost.
THEOREM NoLostUpdate == Spec => []WriterIsCurrent
  <1>1. IInv => WriterIsCurrent
    BY DEF IInv
  <1>2. QED
    BY <1>1, Invariance, PTL

\* The cache of relpaths never disagrees with the database.
THEOREM CacheIsCoherent == Spec => []CacheCoherent
  <1>1. IInv => CacheCoherent
    BY DEF IInv
  <1>2. QED
    BY <1>1, Invariance, PTL

\* The serials committed are never rewritten: the changelog only grows.
THEOREM ChangelogGrows ==
    Spec => [][last <= last' /\ \A s \in 0..last : changelog'[s] = changelog[s]]_vars
  <1>1. IInv /\ [Next]_vars
          => last <= last' /\ \A s \in 0..last : changelog'[s] = changelog[s]
    BY HistoryStable
  <1>2. QED
    BY <1>1, Invariance, PTL DEF Spec

-----------------------------------------------------------------------------
(* KeyFS implements SnapshotStore.                                         *)

\* There is a last change of every key up to every committed serial.  The walk over
\* the changelog defines the versions of the abstract store only because of this.
HasLastChange ==
    \A k \in Keys, s \in -1..last : \E l \in Serial : IsLastChange(k, s, l)

\* There is only one.
LEMMA LastChangeUnique ==
  ASSUME TypeOK, NEW k \in Keys, NEW s \in -1..last, NEW l \in Serial,
         IsLastChange(k, s, l)
  PROVE  LastChange(k, s) = l
  <1>1. \A m \in -1..s : IsLastChange(k, s, m) => m = l
    BY DEF IsLastChange, TypeOK, Serial
  <1>2. l \in -1..s
    BY DEF IsLastChange
  <1>3. QED
    BY <1>1, <1>2 DEF LastChange

\* The same after a step.
LEMMA LastChangeUniquePrimed ==
  ASSUME TypeOK', NEW k \in Keys, NEW s \in -1..last', NEW l \in Serial,
         IsLastChange(k, s, l)'
  PROVE  LastChange(k, s)' = l
  <1>1. \A m \in -1..s : IsLastChange(k, s, m)' => m = l
    BY DEF IsLastChange, TypeOK, Serial
  <1>2. l \in -1..s
    BY DEF IsLastChange
  <1>3. QED
    BY <1>1, <1>2 DEF LastChange

\* HasLastChange holds initially and in every state after.
LEMMA HasLastChangeInvariant == Spec => []HasLastChange
  <1>1. Init => HasLastChange
    BY DEF Init, HasLastChange, IsLastChange, Serial
  <1>2. IInv /\ HasLastChange /\ [Next]_vars => HasLastChange'
    <2> SUFFICES ASSUME IInv, HasLastChange, [Next]_vars,
                        NEW k \in Keys, NEW s \in -1..last'
                 PROVE  \E l \in Serial : IsLastChange(k, s, l)'
      BY DEF HasLastChange
    <2>1. CASE s \in -1..last
      BY <2>1, HistoryStable DEF HasLastChange
    <2>2. CASE s \notin -1..last
      <3>1. IInv'
        BY NextIInv
      <3>2. /\ last' \in Serial
            /\ IsLastChange(k, last, kv[k])' /\ kv'[k] \in Serial
        BY <3>1 DEF IInv, TypeOK, ChangelogLinked
      <3>3. s = last'
        <4>1. last' = last \/ last' = last + 1
          BY DbStep, CommitStep DEF db
        <4>2. QED
          BY <2>2, <4>1 DEF IInv, TypeOK, Serial
      <3>4. PICK l \in Serial : l = kv'[k]
        BY <3>2
      <3>5. IsLastChange(k, s, l)'
        BY <3>2, <3>3, <3>4
      <3>6. QED
        BY <3>5
    <2>3. QED
      BY <2>1, <2>2
  <1>3. QED
    BY <1>1, <1>2, Invariance, PTL DEF Spec

-----------------------------------------------------------------------------
(* Values at a serial.                                                     *)

\* What a reader is given is the value at its serial.
LEMMA OriginalIsValueAt ==
  ASSUME TypeOK, NEW k \in Keys, NEW s \in -1..last, NEW o \in Original,
         IsOriginal(k, s, o)
  PROVE  ValueOf(o) = ValueAt(k, s)
  <1>1. o.serial \in Serial
    BY DEF Original
  <1>2. LastChange(k, s) = o.serial
    BY <1>1, LastChangeUnique DEF IsOriginal
  <1>3. QED
    BY <1>2 DEF ValueOf, ValueAt, IsOriginal

\* No step changes the value of a key at a committed serial.
LEMMA ValueStable ==
  ASSUME IInv, HasLastChange, [Next]_vars, NEW k \in Keys, NEW s \in -1..last
  PROVE  ValueAt(k, s)' = ValueAt(k, s)
  <1>1. PICK l \in Serial : IsLastChange(k, s, l)
    BY DEF HasLastChange
  <1>2. IsLastChange(k, s, l)'
    BY <1>1, HistoryStable
  <1>3. TypeOK /\ TypeOK' /\ s \in -1..last' /\ l \in -1..last
    BY <1>1, NextIInv, HistoryStable DEF IInv, IsLastChange, Serial
  <1>4. LastChange(k, s) = l /\ LastChange(k, s)' = l
    BY <1>1, <1>2, <1>3, LastChangeUnique, LastChangeUniquePrimed
  <1>5. l # -1 => changelog'[l] = changelog[l]
    BY <1>3, HistoryStable DEF Serial
  <1>6. QED
    BY <1>4, <1>5 DEF ValueAt

\* The value at the serial just committed is the one written, or the one before.
LEMMA CommittedValue ==
  ASSUME IInv, HasLastChange, NEW t \in Threads, Commit(t), NEW k \in Keys
  PROVE  ValueAt(k, last)' = IF cache[t][k] = Unset THEN ValueAt(k, last)
                             ELSE IF cache[t][k] = Deleted THEN Absent
                             ELSE cache[t][k]
  <1>0. /\ last' = last + 1 /\ last \in Serial /\ atSerial[t] = last
        /\ [Next]_vars /\ TypeOK /\ TypeOK'
    BY CommitStep, NextIInv DEF Next, IInv
  <1>1. cache[t][k] \in Vals \cup {Deleted, Unset}
    BY DEF IInv, TypeOK
  <1>2. CASE k \in Records(t)
    <2>1. /\ cache[t][k] # Unset
          /\ changelog'[last'] = ChangesOf(t)
      BY <1>0, <1>2 DEF Records, Commit, CommitSerial, Serial
    <2>2. /\ changelog'[last'][k]
               = [back |-> original[t][k].serial, val |-> cache[t][k]]
      BY <1>2, <2>1 DEF ChangesOf
    <2>3. PICK l \in Serial : l = last' /\ l \in -1..last' /\ l # -1
      BY <1>0 DEF Serial
    <2>4. kv'[k] = last' /\ IsLastChange(k, last, kv[k])'
      BY <1>0, <1>2, NextIInv DEF Commit, CommitSerial, IInv, ChangelogLinked
    <2>5. IsLastChange(k, l, l)'
      BY <2>3, <2>4
    <2>6. LastChange(k, l)' = l
      BY <1>0, <2>3, <2>5, LastChangeUniquePrimed
    <2>7. ValueAt(k, l)' = IF cache[t][k] = Deleted THEN Absent ELSE cache[t][k]
      BY <2>2, <2>3, <2>6 DEF ValueAt
    <2>8. QED
      BY <2>1, <2>3, <2>7
  <1>3. CASE k \notin Records(t)
    <2>1. changelog'[last'][k] = NoRow
      BY <1>0, <1>3 DEF Commit, CommitSerial, ChangesOf, Serial
    <2>2. PICK m \in Serial : IsLastChange(k, last, m)
      BY <1>0 DEF HasLastChange, Serial
    <2>3. IsLastChange(k, last, m)'
      <3>1. PICK s \in -1..last : s = last
        BY <1>0 DEF Serial
      <3>2. IsLastChange(k, s, m)'
        BY <1>0, <2>2, <3>1, HistoryStable
      <3>3. QED
        BY <1>0, <2>1, <3>1, <3>2 DEF IsLastChange, Changed, Serial
    <2>4. PICK s \in -1..last' : s = last'
      BY <1>0 DEF Serial
    <2>5. LastChange(k, s)' = m
      BY <1>0, <2>3, <2>4, LastChangeUniquePrimed
    <2>6. LastChange(k, last) = m
      BY <1>0, <2>2, LastChangeUnique DEF Serial
    <2>7. m # -1 => changelog'[m] = changelog[m]
      BY <1>0, <2>2, HistoryStable DEF IsLastChange, Serial
    <2>8. ValueAt(k, last)' = ValueAt(k, last)
      BY <2>4, <2>5, <2>6, <2>7 DEF ValueAt
    <2>9. CASE cache[t][k] = Unset
      BY <2>8, <2>9
    <2>10. CASE cache[t][k] # Unset
      <3>1. original[t][k] # Unset
        BY <2>10 DEF Commit, ReadyToCommit
      <3>2. original[t][k] \in Original /\ IsOriginal(k, last, original[t][k])
        BY <1>0, <3>1 DEF IInv, SnapshotReads, TypeOK
      <3>3. ValueAt(k, last) = ValueOf(original[t][k])
        BY <1>0, <3>2, OriginalIsValueAt DEF Serial
      <3>4. \/ cache[t][k] = original[t][k].val
            \/ cache[t][k] = Deleted /\ original[t][k].val = Absent
        BY <1>3, <2>10 DEF Records
      <3>5. original[t][k].serial = -1 => original[t][k].val = Absent
        BY <3>2 DEF IsOriginal
      <3>6. cache[t][k] # Absent
        BY <1>1, Markers
      <3>7. QED
        BY <2>8, <2>10, <3>3, <3>4, <3>5, <3>6 DEF ValueOf
    <2>11. QED
      BY <2>9, <2>10
  <1>4. QED
    BY <1>2, <1>3

-----------------------------------------------------------------------------
(* Steps of KeyFS as steps of the store.                                   *)

\* Unless there is a commit, the versions stay what they are.
LEMMA SameVersions ==
  ASSUME IInv, HasLastChange, [Next]_vars, last' = last
  PROVE  AbsVersions' = AbsVersions
  <1>1. \A s \in -1..last, k \in Keys : ValueAt(k, s)' = ValueAt(k, s)
    BY ValueStable
  <1>2. QED
    BY <1>1 DEF AbsVersions

\* A read step remembers a value for one key.
LEMMA ReadShape ==
  ASSUME NEW t \in Threads, GetCached(t) \/ GetFromRow(t) \/ ReadKv(t) \/ WalkBack(t) \/ FoundAt(t),
         TypeOK, original' # original
  PROVE  \E k \in Keys : \E o : original' = [original EXCEPT ![t][k] = o]
  <1>1. CASE GetCached(t) \/ GetFromRow(t)
    BY <1>1 DEF GetCached, GetFromRow
  <1>2. CASE ReadKv(t)
    BY <1>2 DEF ReadKv
  <1>3. ASSUME WalkBack(t) \/ FoundAt(t)
        PROVE  \E k \in Keys : \E o : original' = [original EXCEPT ![t][k] = o]
    <2>1. reading[t].key \in Keys
      BY <1>3 DEF WalkBack, FoundAt, TypeOK, Cursor
    <2>2. \E o : original' = [original EXCEPT ![t][reading[t].key] = o]
      BY <1>3 DEF WalkBack, FoundAt
    <2>3. QED
      BY <2>1, <2>2
  <1>4. QED
    BY <1>1, <1>2, <1>3

\* One more value read by t.
LEMMA ReadMaps ==
  ASSUME IInv, HasLastChange, [Next]_vars, UNCHANGED <<db, pc, atSerial, cache>>,
         NEW t \in Threads, NEW k \in Keys, NEW o \in Original,
         pc[t] = "open", IsOriginal(k, atSerial[t], o),
         original' = [original EXCEPT ![t][k] = o]
  PROVE  Store!StoreRead(t, k)
  <1>1. /\ atSerial[t] \in -1..last /\ AbsView[t] = atSerial[t] /\ AbsView' = AbsView
        /\ TypeOK /\ last' = last
    BY DEF IInv, TypeOK, AbsView, db
  <1>2. AbsView[t] # NoView
    BY <1>1, KeyFSMarkers DEF IInv, TypeOK, Serial
  <1>3. AbsVersions[AbsView[t]][k] = ValueOf(o)
    BY <1>1, OriginalIsValueAt DEF AbsVersions
  <1>4. o # Unset
    BY Markers
  <1>5. AbsSeen' = [AbsSeen EXCEPT ![t][k] = ValueOf(o)]
    <2> DEFINE S(orig) == [u \in Threads |-> [j \in Keys |->
                    IF orig[u][j] = Unset THEN Unset ELSE ValueOf(orig[u][j])]]
    <2>1. AbsSeen = S(original) /\ AbsSeen' = S(original')
      BY DEF AbsSeen, ValueOf
    <2>2. S([original EXCEPT ![t][k] = o]) = [S(original) EXCEPT ![t][k] = ValueOf(o)]
      BY <1>1, <1>4 DEF TypeOK
    <2>3. QED
      BY <2>1, <2>2
  <1>6. QED
    BY <1>1, <1>2, <1>3, <1>5, SameVersions DEF Store!StoreRead

\* Forgetting what t has read or written.
LEMMA ForgetMaps ==
  ASSUME TypeOK, NEW t \in Threads,
         original' = [original EXCEPT ![t] = Nothing],
         cache' = [cache EXCEPT ![t] = Nothing]
  PROVE  Store!Forget(t)
  <1>1. AbsSeen' = [AbsSeen EXCEPT ![t] = Nothing]
    <2>1. \A u \in Threads, k \in Keys : u # t => original'[u][k] = original[u][k]
      BY DEF TypeOK
    <2>2. \A k \in Keys : original'[t][k] = Unset
      BY DEF TypeOK, Nothing
    <2>3. AbsSeen' = [u \in Threads |-> IF u = t THEN Nothing ELSE AbsSeen[u]]
      BY <2>1, <2>2 DEF AbsSeen, Nothing, ValueOf
    <2>4. QED
      BY <2>3 DEF AbsSeen
  <1>2. QED
    BY <1>1 DEF Store!Forget, Store!NoneOf, Nothing

\* The initial states map to the initial state of the store.
LEMMA InitMaps == Init => Store!StoreInit
  <1> SUFFICES ASSUME Init
               PROVE  Store!StoreInit
    OBVIOUS
  <1>1. \A k \in Keys : ValueAt(k, -1) = Absent
    <2>1. TypeOK /\ last = -1
      BY InitTypeOK DEF Init
    <2>2. \A k \in Keys : IsLastChange(k, -1, -1)
      BY <2>1 DEF IsLastChange
    <2>3. \A k \in Keys : LastChange(k, -1) = -1
      BY <2>1, <2>2, LastChangeUnique DEF Serial
    <2>4. QED
      BY <2>3 DEF ValueAt
  <1>2. AbsVersions = [s \in {-1} |-> [k \in Keys |-> Absent]]
    BY <1>1 DEF AbsVersions, Init
  <1>3. AbsView = [t \in Threads |-> NoView]
    BY DEF AbsView, Init
  <1>4. AbsSeen = [t \in Threads |-> Nothing]
    BY DEF AbsSeen, Init, Nothing
  <1>5. QED
    BY <1>2, <1>3, <1>4 DEF Store!StoreInit, Store!NoneOf, Init, Nothing

\* Every step maps to a step of the store or leaves it unchanged.
LEMMA StepMaps ==
  IInv /\ HasLastChange /\ [Next]_vars => [Store!StoreNext]_(Store!svars)
  <1> SUFFICES ASSUME IInv, HasLastChange, [Next]_vars
               PROVE  Store!StoreNext \/ UNCHANGED Store!svars
    OBVIOUS
  <1>0. TypeOK /\ last \in Serial
    BY DEF IInv, TypeOK
  <1>1. ASSUME last' = last, original' = original, cache' = cache,
               AbsView' = AbsView
        PROVE  UNCHANGED Store!svars
    <2>1. AbsSeen' = AbsSeen
      BY <1>1 DEF AbsSeen, ValueOf
    <2>2. QED
      BY <1>1, <2>1, SameVersions DEF Store!svars
  <1>2. ASSUME NEW t \in Threads, BeginWrite(t) \/ Timeout(t)
        PROVE  UNCHANGED Store!svars
    <2>1. AbsView' = AbsView
      BY <1>0, <1>2 DEF BeginWrite, Timeout, AbsView, TypeOK
    <2>2. QED
      BY <1>1, <1>2, <2>1 DEF BeginWrite, Timeout, db
  <1>3. ASSUME NEW t \in Threads, BeginRead(t) \/ Acquire(t)
        PROVE  Store!StoreBegin(t)
    <2>1. AbsView[t] = NoView
      BY <1>3 DEF BeginRead, Acquire, AbsView
    <2>2. PICK s \in -1..last : /\ atSerial' = [atSerial EXCEPT ![t] = s]
                                /\ pc' = [pc EXCEPT ![t] = "open"]
      BY <1>0, <1>3 DEF BeginRead, Acquire, Serial
    <2>3. AbsView' = [AbsView EXCEPT ![t] = s]
      BY <1>0, <2>2 DEF AbsView, TypeOK
    <2>4. last' = last /\ original' = original /\ cache' = cache
      BY <1>3 DEF BeginRead, Acquire, db
    <2>5. AbsSeen' = AbsSeen
      BY <2>4 DEF AbsSeen, ValueOf
    <2>6. QED
      BY <2>1, <2>3, <2>4, <2>5, SameVersions DEF Store!StoreBegin
  <1>4. ASSUME NEW t \in Threads, Rollback(t) \/ CommitNothing(t)
        PROVE  Store!StoreEnd(t)
    <2>1. /\ pc' = [pc EXCEPT ![t] = "idle"] /\ atSerial' = [atSerial EXCEPT ![t] = -1]
          /\ original' = [original EXCEPT ![t] = Nothing]
          /\ cache' = [cache EXCEPT ![t] = Nothing] /\ last' = last
      BY <1>4 DEF Rollback, CommitNothing, Close, db
    <2>2. AbsView' = [AbsView EXCEPT ![t] = NoView]
      BY <1>0, <2>1 DEF AbsView, TypeOK
    <2>3. QED
      BY <1>0, <2>1, <2>2, SameVersions, ForgetMaps DEF Store!StoreEnd
  <1>5. ASSUME NEW t \in Threads, RestartAsWrite(t)
        PROVE  Store!StoreEnd(t)
    <2>1. /\ pc' = [pc EXCEPT ![t] = "begin"] /\ atSerial' = [atSerial EXCEPT ![t] = -1]
          /\ original' = [original EXCEPT ![t] = Nothing]
          /\ cache' = [cache EXCEPT ![t] = Nothing] /\ last' = last
      BY <1>5 DEF RestartAsWrite, db
    <2>2. AbsView' = [AbsView EXCEPT ![t] = NoView]
      BY <1>0, <2>1 DEF AbsView, TypeOK
    <2>3. QED
      BY <1>0, <2>1, <2>2, SameVersions, ForgetMaps DEF Store!StoreEnd
  <1>6. ASSUME NEW t \in Threads, RestartRead(t)
        PROVE  Store!StoreEnd(t)
    <2>1. /\ pc[t] = "open" /\ pc' = pc /\ atSerial' = [atSerial EXCEPT ![t] = last]
          /\ original' = [original EXCEPT ![t] = Nothing]
          /\ cache' = [cache EXCEPT ![t] = Nothing] /\ last' = last
      BY <1>6 DEF RestartRead, InTransaction, db
    <2>2. AbsView' = [AbsView EXCEPT ![t] = last]
      BY <1>0, <2>1 DEF AbsView, TypeOK
    <2>3. last \in -1..last
      BY <1>0 DEF Serial
    <2>4. QED
      BY <1>0, <2>1, <2>2, <2>3, SameVersions, ForgetMaps DEF Store!StoreEnd
  <1>7. ASSUME NEW t \in Threads,
               GetCached(t) \/ GetFromRow(t) \/ ReadKv(t) \/ WalkBack(t) \/ FoundAt(t)
        PROVE  Store!StoreNext \/ UNCHANGED Store!svars
    <2>1. UNCHANGED <<db, pc, atSerial, cache>>
      BY <1>7 DEF GetCached, GetFromRow, ReadKv, WalkBack, FoundAt
    <2>2. CASE original' = original
      BY <1>1, <2>1, <2>2 DEF AbsView, db
    <2>3. CASE original' # original
      <3>1. \E k \in Keys : \E o : original' = [original EXCEPT ![t][k] = o]
        BY <1>0, <1>7, <2>3, ReadShape
      <3>2. PICK k \in Keys :
              /\ original' = [original EXCEPT ![t][k] = original'[t][k]]
              /\ original'[t][k] # original[t][k]
        <4>1. PICK k \in Keys : \E o : original' = [original EXCEPT ![t][k] = o]
          BY <3>1
        <4>2. PICK o : original' = [original EXCEPT ![t][k] = o]
          BY <4>1
        <4>3. o = original'[t][k]
          BY <1>0, <4>2 DEF TypeOK
        <4>4. [original EXCEPT ![t][k] = original[t][k]] = original
          BY <1>0 DEF TypeOK
        <4>5. QED
          BY <2>3, <4>2, <4>3, <4>4
      <3> DEFINE o == original'[t][k]
      <3>3. pc[t] = "open" /\ o \in Original /\ IsOriginal(k, atSerial[t], o)
        BY <1>7, <3>2, ReadIsOriginal
      <3>4. Store!StoreRead(t, k)
        BY <2>1, <3>2, <3>3, ReadMaps
      <3>5. QED
        BY <3>4 DEF Store!StoreNext
    <2>4. QED
      BY <2>2, <2>3
  <1>8. ASSUME NEW t \in Threads, Set(t)
        PROVE  \E k \in Keys : Store!StoreWrite(t, k)
    <2>1. PICK k \in Keys, v \in Vals \cup {Deleted} : cache' = [cache EXCEPT ![t][k] = v]
      BY <1>8 DEF Set
    <2>2. /\ last' = last /\ original' = original /\ pc' = pc /\ atSerial' = atSerial
          /\ pc[t] = "open"
      BY <1>8 DEF Set, db, InTransaction
    <2>3. AbsView' = AbsView /\ AbsView[t] # NoView
      BY <1>0, <2>2, KeyFSMarkers DEF AbsView, TypeOK, Serial
    <2>4. AbsSeen' = AbsSeen
      BY <2>2 DEF AbsSeen, ValueOf
    <2>5. QED
      BY <2>1, <2>2, <2>3, <2>4, SameVersions DEF Store!StoreWrite
  <1>9. ASSUME NEW t \in Threads, Commit(t)
        PROVE  Store!StoreCommit(t)
    <2>1. /\ pc[t] = "open" /\ atSerial[t] = last /\ last' = last + 1
          /\ pc' = [pc EXCEPT ![t] = "idle"] /\ atSerial' = [atSerial EXCEPT ![t] = -1]
          /\ original' = [original EXCEPT ![t] = Nothing]
          /\ cache' = [cache EXCEPT ![t] = Nothing]
      BY <1>9, CommitStep DEF Commit, Close, ReadyToCommit, InTransaction
    <2>2. AbsView[t] = last /\ AbsView' = [AbsView EXCEPT ![t] = NoView]
      BY <1>0, <2>1 DEF AbsView, TypeOK
    <2>3. \A k \in Keys :
            ValueAt(k, last)' = Store!Overlay(AbsVersions[last], cache[t])[k]
      BY <1>0, <1>9, CommittedValue DEF Store!Overlay, AbsVersions, Serial
    <2>4. \A s \in -1..last, k \in Keys : ValueAt(k, s)' = AbsVersions[s][k]
      BY ValueStable DEF AbsVersions
    <2>5. AbsVersions' = [s \in -1..last + 1 |->
                            IF s = last + 1
                            THEN Store!Overlay(AbsVersions[last], cache[t])
                            ELSE AbsVersions[s]]
      <3>1. AbsVersions' = [s \in -1..last + 1 |-> [k \in Keys |-> ValueAt(k, s)']]
        BY <2>1 DEF AbsVersions
      <3>2. ASSUME NEW s \in -1..last
            PROVE  [k \in Keys |-> ValueAt(k, s)'] = AbsVersions[s]
        BY <2>4 DEF AbsVersions
      <3>3. PICK n \in -1..last' : n = last'
        BY <1>0, <2>1 DEF Serial
      <3>4. [k \in Keys |-> ValueAt(k, n)'] = Store!Overlay(AbsVersions[last], cache[t])
        BY <2>3, <3>3 DEF Store!Overlay
      <3>5. \A s \in -1..last + 1 : s = n \/ s \in -1..last
        BY <1>0, <2>1, <3>3 DEF Serial
      <3>6. QED
        BY <1>0, <2>1, <3>1, <3>2, <3>3, <3>4, <3>5 DEF Serial
    <2>6. QED
      BY <1>0, <2>1, <2>2, <2>5, ForgetMaps DEF Store!StoreCommit
  <1>10. ASSUME Crash
         PROVE  Store!StoreCrash
    <2>1. last' = last /\ cache' = [t \in Threads |-> Nothing]
      BY <1>10 DEF Crash, db
    <2>2. AbsView' = [t \in Threads |-> NoView]
      BY <1>10 DEF Crash, AbsView
    <2>3. AbsSeen' = [t \in Threads |-> Nothing]
      BY <1>10 DEF Crash, AbsSeen, Nothing, ValueOf
    <2>4. QED
      BY <2>1, <2>2, <2>3, SameVersions DEF Store!StoreCrash, Store!NoneOf, Nothing
  <1>11. CASE UNCHANGED vars
    BY <1>1, <1>11 DEF vars, AbsView
  <1>12. QED
    BY <1>2, <1>3, <1>4, <1>5, <1>6, <1>7, <1>8, <1>9, <1>10, <1>11
       DEF Next, Store!StoreNext

-----------------------------------------------------------------------------

\* KeyFS implements the store: snapshot reads, one writer at the latest version, and
\* commits which make exactly what was written visible.
THEOREM Refinement == Spec => ImplementsStore
  <1>1. IInv /\ HasLastChange /\ [Next]_vars => [Store!StoreNext]_(Store!svars)
    BY StepMaps
  <1>2. QED
    BY <1>1, InitMaps, Invariance, HasLastChangeInvariant, PTL
       DEF Spec, ImplementsStore, Store!StoreSpec
=============================================================================
