-------------------------- MODULE FileCommitProofs --------------------------
(***************************************************************************)
(* Proofs about release files and their metadata, for every set of paths   *)
(* and threads, whatever paths they share, and any number of crashes.      *)
(***************************************************************************)
EXTENDS FileCommit, TLAPS

USE DEF memory, history

-----------------------------------------------------------------------------
(* Helpers.                                                                *)

\* Temporary files of different threads or paths have different names.
LEMMA TmpNames ==
    ASSUME process \in Nat, NEW t \in Threads, NEW p \in Paths
    PROVE  /\ TmpOf(t, p) \in TmpName /\ TmpOf(t, p) # Deleted /\ TmpOf(t, p) # NoEntry
           /\ TmpOf(t, p).path = p /\ TmpOf(t, p).thread = t
<1>1. TmpOf(t, p) \in TmpName /\ TmpOf(t, p).path = p /\ TmpOf(t, p).thread = t
  BY DEF TmpOf, TmpName
<1> QED
  BY <1>1, FileCommitMarkers

LEMMA ExceptOne ==
    ASSUME NEW S, NEW T, NEW V, NEW f \in [S -> [T -> V]], NEW s \in S, NEW t \in T, NEW v \in V
    PROVE  /\ [f EXCEPT ![s][t] = v] \in [S -> [T -> V]]
           /\ [f EXCEPT ![s][t] = v][s][t] = v
           /\ \A r \in S, u \in T : r # s \/ u # t => [f EXCEPT ![s][t] = v][r][u] = f[r][u]
           /\ \A r \in S : r # s => [f EXCEPT ![s][t] = v][r] = f[r]
<1> DEFINE h == [f[s] EXCEPT ![t] = v]
           g == [f EXCEPT ![s][t] = v]
<1>1. h \in [T -> V] /\ h[t] = v /\ \A u \in T : u # t => h[u] = f[s][u]
  OBVIOUS
<1>2. g = [f EXCEPT ![s] = h]
  OBVIOUS
<1> HIDE DEF h
<1>3. g \in [S -> [T -> V]] /\ g[s] = h /\ \A r \in S : r # s => g[r] = f[r]
  BY <1>1, <1>2
<1> QED
  BY <1>1, <1>3

LEMMA DirtyCases ==
    ASSUME TypeOK, NEW t \in Threads
    PROVE  /\ \A p : p \in DirtyPaths(t) <=> p \in Paths /\ dirty[t][p] # Clean
           /\ \A p : p \in WrittenPaths(t) <=> p \in Paths /\ dirty[t][p] = Written
           /\ \A p : p \in DeletedPaths(t) <=> p \in Paths /\ dirty[t][p] = Deleted
           /\ \A p \in DirtyPaths(t) :
                \/ p \in WrittenPaths(t) /\ p \notin DeletedPaths(t)
                \/ p \in DeletedPaths(t) /\ p \notin WrittenPaths(t)
           /\ WrittenPaths(t) \cup DeletedPaths(t) = DirtyPaths(t)
BY FileCommitConstants DEF TypeOK, DirtyPaths, WrittenPaths, DeletedPaths

LEMMA RelRenamesOf ==
    ASSUME TypeOK, NEW t \in Threads, NEW p \in Paths
    PROVE  /\ p \in WrittenPaths(t) => RelRenames(t)[p] = TmpOf(t, p)
           /\ p \in DeletedPaths(t) => RelRenames(t)[p] = Deleted
           /\ p \notin DirtyPaths(t) => RelRenames(t)[p] = NoEntry
<1> DEFINE entry(q) == CASE q \in WrittenPaths(t) -> TmpOf(t, q)
                         [] q \in DeletedPaths(t) -> Deleted
                         [] OTHER -> NoEntry
<1>1. RelRenames(t)[p] = entry(p)
  BY DEF RelRenames
<1> QED
  BY <1>1, DirtyCases

LEMMA RelRenamesType ==
    ASSUME TypeOK, NEW t \in Threads
    PROVE  RelRenames(t) \in [Paths -> TmpName \cup {Deleted, NoEntry}]
<1>1. \A p \in Paths : RelRenames(t)[p] \in TmpName \cup {Deleted, NoEntry}
  BY RelRenamesOf, TmpNames, DirtyCases DEF TypeOK
<1>2. RelRenames(t) = [p \in Paths |-> RelRenames(t)[p]]
  BY DEF RelRenames
<1> QED
  BY <1>1, <1>2

LEMMA InitIInv == Init => IInv
<1> SUFFICES ASSUME Init
             PROVE  IInv
  OBVIOUS
<1>1. TypeOK
  BY DEF Init, TypeOK, NothingDirty
<1>2. \A p \in Paths : relRenames[p] = NoEntry /\ NoEntry \notin TmpName /\ NoEntry # Deleted
  BY FileCommitMarkers DEF Init
<1>3. \A t \in Threads, p \in Paths : dirty[t][p] # Written
  BY FileCommitConstants DEF Init, NothingDirty
<1>4. Logged /\ HasTmp /\ LastCommitRecoverable
  BY <1>2, <1>3 DEF Logged, HasTmp, LastCommitRecoverable
<1>5. \A t \in Threads : pc[t] = "idle"
  BY DEF Init
<1>6. AgreesWithMetadata /\ RecoversAlone /\ FilesMatchMetadata /\ StartupSucceeds
  BY <1>5 DEF Init, AgreesWithMetadata, RecoversAlone, FilesMatchMetadata, StartupSucceeds, Renaming
<1> QED
  BY <1>1, <1>4, <1>6 DEF IInv

-----------------------------------------------------------------------------
(* Types.                                                                  *)

LEMMA TypeStep ==
    ASSUME TypeOK, [Next]_vars
    PROVE  TypeOK'
<1> USE DEF TypeOK
<1>1. ASSUME NEW t \in Threads, Begin(t)
      PROVE  TypeOK'
  BY <1>1 DEF Begin
<1>2. ASSUME NEW t \in Threads, SetContent(t) \/ Delete(t)
      PROVE  TypeOK'
  <2>1. PICK p \in MayWrite[t] : /\ dirty' = [dirty EXCEPT ![t][p] = Written] \/ dirty' = [dirty EXCEPT ![t][p] = Deleted]
                                 /\ tmps' \subseteq tmps \cup {TmpOf(t, p)}
    BY <1>2 DEF SetContent, Delete
  <2>2. p \in Paths
    BY <2>1, FileCommitConstants
  <2>3. tmps' \subseteq TmpName
    BY <2>1, <2>2, TmpNames
  <2>4. dirty' \in [Threads -> [Paths -> {Clean, Written, Deleted}]]
    BY <2>1, <2>2, ExceptOne
  <2> QED
    BY <1>2, <2>3, <2>4 DEF SetContent, Delete
<1>3. ASSUME NEW t \in Threads, CommitDb(t)
      PROVE  TypeOK'
  <2>1. relRenames' \in [Paths -> TmpName \cup {Deleted, NoEntry}]
    BY <1>3, RelRenamesType DEF CommitDb
  <2>2. meta' \subseteq Paths /\ contested' \subseteq Paths
    BY <1>3, DirtyCases DEF CommitDb
  <2> QED
    BY <1>3, <2>1, <2>2 DEF CommitDb
<1>4. ASSUME NEW t \in Threads, ApplyFile(t) \/ RemoveFails(t)
      PROVE  TypeOK'
  <2>1. PICK p \in Paths :
            /\ dirty' = [dirty EXCEPT ![t][p] = Clean]
            /\ files' \subseteq files \cup {p} /\ tmps' \subseteq tmps
            /\ lost' \subseteq lost \cup {p}
            /\ pc' = [pc EXCEPT ![t] = IF DirtyPaths(t) = {p} THEN "idle" ELSE "renaming"]
            /\ UNCHANGED <<meta, relRenames, lock, process, server, todo, contested>>
    BY <1>4, DirtyCases DEF ApplyFile, RemoveFails
  <2>2. dirty' \in [Threads -> [Paths -> {Clean, Written, Deleted}]]
    BY <2>1
  <2> QED
    BY <2>1, <2>2
<1>5. ASSUME NEW t \in Threads, ApplyFails(t) \/ Rollback(t)
      PROVE  TypeOK'
  <2>1. /\ dirty' = [dirty EXCEPT ![t] = NothingDirty]
        /\ lost' \subseteq lost \cup DirtyPaths(t)
        /\ tmps' \subseteq tmps
        /\ lock' \in {lock, NoThread}
        /\ pc' = [pc EXCEPT ![t] = "idle"]
        /\ UNCHANGED <<files, meta, relRenames, process, server, todo, contested>>
    BY <1>5 DEF ApplyFails, Rollback
  <2>2. dirty' \in [Threads -> [Paths -> {Clean, Written, Deleted}]]
    BY <2>1 DEF NothingDirty
  <2>3. lost' \subseteq Paths
    BY <2>1 DEF DirtyPaths
  <2> QED
    BY <2>1, <2>2, <2>3
<1>6. CASE Crash
  <2>1. lost' \subseteq Paths /\ todo' \subseteq Paths
    BY <1>6 DEF Crash, Forgotten, DirtyPaths
  <2>2. dirty' \in [Threads -> [Paths -> {Clean, Written, Deleted}]]
    BY <1>6 DEF Crash, NothingDirty
  <2> QED
    BY <1>6, <2>1, <2>2, FileCommitConstants DEF Crash
<1>7. ASSUME NEW p \in Paths,
             RecoverDelete(p) \/ RecoverDeleteFails(p) \/ RecoverRename(p) \/ RecoverDone(p)
      PROVE  TypeOK'
  BY <1>7 DEF RecoverDelete, RecoverDeleteFails, RecoverRename, RecoverDone
<1>8. CASE StartServer
  BY <1>8 DEF StartServer
<1>9. CASE UNCHANGED vars
  BY <1>9 DEF vars
<1> QED
  BY <1>1, <1>2, <1>3, <1>4, <1>5, <1>6, <1>7, <1>8, <1>9 DEF Next, Recovery

-----------------------------------------------------------------------------
(* Steps of a thread which has nothing to rename.                          *)

Rest == /\ Logged /\ HasTmp /\ AgreesWithMetadata /\ RecoversAlone
        /\ FilesMatchMetadata /\ LastCommitRecoverable /\ StartupSucceeds

\* What a thread does to its own temporary files before its commit, or when it rolls
\* back, concerns no other thread and nothing which has been committed.
LEMMA LocalStep ==
    ASSUME IInv, TypeOK', NEW t \in Threads, server = "up",
           pc[t] # "renaming", pc'[t] # "renaming",
           \A u \in Threads : u # t => pc'[u] = pc[u] /\ dirty'[u] = dirty[u],
           UNCHANGED <<files, meta, relRenames, process, server, todo, lost, contested>>,
           tmps \subseteq tmps' \cup {TmpOf(t, p) : p \in Paths},
           \A p \in Paths : dirty'[t][p] = Written => TmpOf(t, p) \in tmps'
    PROVE  Rest'
<1> USE DEF IInv
<1>1. \A u \in Threads, p \in Paths : Renaming(u, p)' <=> Renaming(u, p)
  BY DEF Renaming, DirtyPaths
<1>2. \A u \in Threads, p \in Paths : u # t => RelRenames(u)'[p] = RelRenames(u)[p]
  BY DEF RelRenames, WrittenPaths, DeletedPaths, TmpOf
<1>3. \A p \in Paths : Pending(p)' <=> Pending(p)
  BY <1>1 DEF Pending
<1>4. Logged' /\ RecoversAlone' /\ StartupSucceeds'
  BY DEF Logged, RecoversAlone, StartupSucceeds, Unsettled
<1>5. HasTmp'
  <2> SUFFICES ASSUME NEW u \in Threads, NEW p \in Paths, dirty'[u][p] = Written
               PROVE  TmpOf(u, p)' \in tmps'
    BY DEF HasTmp
  <2>1. TmpOf(u, p)' = TmpOf(u, p)
    BY DEF TmpOf
  <2>2. CASE u = t
    BY <2>1, <2>2
  <2>3. CASE u # t
    <3>1. TmpOf(u, p) \in tmps
      BY <2>3 DEF HasTmp
    <3>2. \A q \in Paths : TmpOf(u, p) # TmpOf(t, q)
      BY <2>3, TmpNames DEF TypeOK
    <3> QED
      BY <2>1, <3>1, <3>2
  <2> QED
    BY <2>2, <2>3
<1>6. AgreesWithMetadata'
  <2> SUFFICES ASSUME NEW p \in Paths \ contested, NEW u \in Threads, Renaming(u, p)
               PROVE  /\ dirty'[u][p] = Written <=> p \in meta
                      /\ relRenames[p] \in {NoEntry, RelRenames(u)'[p]}
                      /\ \A v \in Threads : Renaming(v, p) => v = u
    BY <1>1 DEF AgreesWithMetadata
  <2>1. u # t
    BY DEF Renaming
  <2> QED
    BY <1>2, <2>1 DEF AgreesWithMetadata
<1>7. FilesMatchMetadata'
  BY <1>3 DEF FilesMatchMetadata, Unsettled
<1>8. LastCommitRecoverable'
  <2> SUFFICES ASSUME NEW p \in Paths \ Unsettled, relRenames[p] \in TmpName, p \notin files
               PROVE  relRenames[p] \in tmps'
    BY DEF LastCommitRecoverable, Unsettled
  <2>1. p \in meta /\ relRenames[p] \in tmps
    BY DEF LastCommitRecoverable
  <2>2. PICK u \in Threads : Renaming(u, p)
    BY <2>1 DEF FilesMatchMetadata, Pending
  <2>3. u # t /\ p \in Paths \ contested
    BY <2>2 DEF Renaming, Unsettled
  <2>4. /\ dirty[u][p] = Written /\ relRenames[p] \in {NoEntry, RelRenames(u)[p]}
        /\ relRenames[p] # NoEntry
    BY <2>1, <2>2, <2>3, FileCommitMarkers DEF AgreesWithMetadata
  <2>5. relRenames[p] = TmpOf(u, p)
    BY <2>4, RelRenamesOf, DirtyCases
  <2>6. \A q \in Paths : TmpOf(u, p) # TmpOf(t, q)
    BY <2>3, TmpNames DEF TypeOK
  <2> QED
    BY <2>1, <2>5, <2>6
<1> QED
  BY <1>4, <1>5, <1>6, <1>7, <1>8 DEF Rest

-----------------------------------------------------------------------------
(* Steps of a thread which renames and removes.                            *)

\* A thread has done with the paths of R: their files are right now or they are given up.
LEMMA FinishStep ==
    ASSUME IInv, TypeOK', NEW t \in Threads, NEW R \in SUBSET DirtyPaths(t),
           pc[t] = "renaming",
           \A u \in Threads : u # t => pc'[u] = pc[u] /\ dirty'[u] = dirty[u],
           \A q \in R : dirty'[t][q] = Clean,
           \A q \in Paths : q \notin R =>
                /\ dirty'[t][q] = dirty[t][q]
                /\ q \in files' <=> q \in files
                /\ q \in lost' <=> q \in lost
                /\ dirty[t][q] # Clean => pc'[t] = "renaming",
           UNCHANGED <<meta, relRenames, process, server, todo, contested>>,
           \A x \in tmps : x \in tmps' \/ \E q \in R : x = TmpOf(t, q),
           \A q \in R : q \in lost' \/ q \in contested \/ (q \in files' <=> q \in meta)
    PROVE  Rest'
<1> USE DEF IInv
<1>1. server = "up" /\ R \subseteq Paths
  BY DEF RecoversAlone, DirtyPaths
<1>2. \A u \in Threads, p \in Paths : u # t => (Renaming(u, p)' <=> Renaming(u, p))
  BY DEF Renaming, DirtyPaths
<1>3. \A p \in Paths : /\ p \in R => ~Renaming(t, p)'
                       /\ p \notin R => (Renaming(t, p)' <=> Renaming(t, p))
  <2> SUFFICES ASSUME NEW p \in Paths
               PROVE  /\ p \in R => ~Renaming(t, p)'
                      /\ p \notin R => (Renaming(t, p)' <=> Renaming(t, p))
    OBVIOUS
  <2>1. Renaming(t, p)' <=> pc'[t] = "renaming" /\ dirty'[t][p] # Clean
    BY DEF Renaming, DirtyPaths
  <2>2. Renaming(t, p) <=> dirty[t][p] # Clean
    BY DEF Renaming, DirtyPaths
  <2> QED
    BY <2>1, <2>2
<1>4. \A u \in Threads, p \in Paths : u # t \/ p \notin R => RelRenames(u)'[p] = RelRenames(u)[p]
  <2> SUFFICES ASSUME NEW u \in Threads, NEW p \in Paths, u # t \/ p \notin R
               PROVE  RelRenames(u)'[p] = RelRenames(u)[p]
    OBVIOUS
  <2>1. dirty'[u][p] = dirty[u][p]
    OBVIOUS
  <2>2. TmpOf(u, p)' = TmpOf(u, p)
    BY DEF TmpOf
  <2> QED
    BY <2>1, <2>2 DEF RelRenames, WrittenPaths, DeletedPaths
<1>5. Logged' /\ RecoversAlone' /\ StartupSucceeds'
  BY <1>1 DEF Logged, RecoversAlone, StartupSucceeds
<1>6. HasTmp'
  <2> SUFFICES ASSUME NEW u \in Threads, NEW p \in Paths, dirty'[u][p] = Written
               PROVE  TmpOf(u, p)' \in tmps'
    BY DEF HasTmp
  <2>1. TmpOf(u, p)' = TmpOf(u, p)
    BY DEF TmpOf
  <2>2. u # t \/ p \notin R
    BY FileCommitConstants
  <2>3. TmpOf(u, p) \in tmps
    <3>1. dirty[u][p] = Written
      BY <2>2
    <3> QED
      BY <3>1 DEF HasTmp
  <2>4. \A q \in R : TmpOf(u, p) # TmpOf(t, q)
    BY <1>1, <2>2, TmpNames DEF TypeOK
  <2> QED
    BY <2>1, <2>3, <2>4
<1>7. AgreesWithMetadata'
  <2> SUFFICES ASSUME NEW p \in Paths \ contested, NEW u \in Threads, Renaming(u, p)'
               PROVE  /\ dirty'[u][p] = Written <=> p \in meta
                      /\ relRenames[p] \in {NoEntry, RelRenames(u)'[p]}
                      /\ \A v \in Threads : Renaming(v, p)' => v = u
    BY DEF AgreesWithMetadata
  <2>1. u # t \/ p \notin R
    BY <1>3
  <2>2. Renaming(u, p) /\ dirty'[u][p] = dirty[u][p]
    BY <1>2, <1>3, <2>1
  <2>3. \A v \in Threads : Renaming(v, p)' => Renaming(v, p)
    BY <1>2, <1>3
  <2> QED
    BY <1>4, <2>1, <2>2, <2>3 DEF AgreesWithMetadata
<1>8. FilesMatchMetadata'
  <2> SUFFICES ASSUME NEW p \in Paths, p \notin lost', p \notin contested, ~Pending(p)'
               PROVE  p \in files' <=> p \in meta
    BY DEF FilesMatchMetadata, Unsettled
  <2>1. CASE p \in R
    BY <2>1
  <2>2. CASE p \notin R
    <3>1. ~Pending(p)
      BY <1>1, <1>2, <1>3, <2>2 DEF Pending
    <3> QED
      BY <2>2, <3>1 DEF FilesMatchMetadata, Unsettled
  <2> QED
    BY <2>1, <2>2
<1>9. LastCommitRecoverable'
  <2> SUFFICES ASSUME NEW p \in Paths, p \notin lost', p \notin contested,
                      relRenames[p] \in TmpName, p \notin files'
               PROVE  relRenames[p] \in tmps'
    BY DEF LastCommitRecoverable, Logged, Unsettled
  <2>1. p \in meta /\ relRenames[p].path = p
    BY DEF Logged
  <2>2. p \notin R
    BY <2>1
  <2>3. relRenames[p] \in tmps
    BY <2>2 DEF LastCommitRecoverable, Unsettled
  <2>4. \A q \in R : TmpOf(t, q).path # p
    BY <1>1, <2>2, TmpNames DEF TypeOK
  <2> QED
    BY <2>1, <2>3, <2>4
<1> QED
  BY <1>5, <1>6, <1>7, <1>8, <1>9 DEF Rest

LEMMA OpenStep ==
    ASSUME IInv, TypeOK', NEW t \in Threads,
           Begin(t) \/ SetContent(t) \/ Delete(t) \/ Rollback(t)
    PROVE  Rest'
<1> DEFINE Own == {TmpOf(t, p) : p \in Paths}
<1>0. TypeOK /\ RecoversAlone /\ HasTmp
  BY DEF IInv
<1>1. CASE Begin(t)
  <2>1. /\ server = "up" /\ pc[t] = "idle" /\ pc' = [pc EXCEPT ![t] = "open"]
        /\ UNCHANGED <<files, tmps, meta, relRenames, dirty, process, server, todo, lost, contested>>
    BY <1>1 DEF Begin
  <2>2. \A p \in Paths : dirty'[t][p] = Written => TmpOf(t, p) \in tmps'
    BY <1>0, <2>1 DEF HasTmp
  <2>3. pc'[t] = "open" /\ \A u \in Threads : u # t => pc'[u] = pc[u] /\ dirty'[u] = dirty[u]
    BY <1>0, <2>1 DEF TypeOK
  <2> QED
    BY <2>1, <2>2, <2>3, LocalStep
<1>2. CASE SetContent(t)
  <2>1. PICK p \in MayWrite[t] : /\ tmps' = tmps \cup {TmpOf(t, p)}
                                 /\ dirty' = [dirty EXCEPT ![t][p] = Written]
    BY <1>2 DEF SetContent
  <2>2. /\ pc[t] = "open" /\ p \in Paths
        /\ UNCHANGED <<files, meta, relRenames, pc, process, server, todo, lost, contested>>
    BY <1>2, <2>1, FileCommitConstants DEF SetContent
  <2>3. server = "up"
    BY <1>0, <2>2 DEF RecoversAlone
  <2>4. /\ \A q \in Paths : q # p => dirty'[t][q] = dirty[t][q]
        /\ \A u \in Threads : u # t => dirty'[u] = dirty[u]
    BY <1>0, <2>1, <2>2, ExceptOne DEF TypeOK
  <2>5. \A q \in Paths : dirty'[t][q] = Written => TmpOf(t, q) \in tmps'
    BY <1>0, <2>1, <2>4 DEF HasTmp
  <2> QED
    BY <2>1, <2>2, <2>3, <2>4, <2>5, LocalStep
<1>3. CASE Delete(t)
  <2>1. PICK p \in MayWrite[t] :
            /\ tmps' = tmps \/ tmps' = tmps \ {TmpOf(t, p)}
            /\ dirty' = [dirty EXCEPT ![t][p] = Deleted]
    BY <1>3 DEF Delete
  <2>2. /\ pc[t] = "open" /\ p \in Paths
        /\ UNCHANGED <<files, meta, relRenames, pc, process, server, todo, lost, contested>>
    BY <1>3, <2>1, FileCommitConstants DEF Delete
  <2>3. server = "up"
    BY <1>0, <2>2 DEF RecoversAlone
  <2>4. /\ \A q \in Paths : q # p => dirty'[t][q] = dirty[t][q]
        /\ \A u \in Threads : u # t => dirty'[u] = dirty[u]
        /\ dirty'[t][p] # Written
    BY <1>0, <2>1, <2>2, ExceptOne, FileCommitConstants DEF TypeOK
  <2>5. \A q \in Paths : dirty'[t][q] = Written => TmpOf(t, q) \in tmps'
    <3> SUFFICES ASSUME NEW q \in Paths, dirty'[t][q] = Written
                 PROVE  TmpOf(t, q) \in tmps'
      OBVIOUS
    <3>1. q # p /\ dirty[t][q] = Written
      BY <2>4
    <3>2. TmpOf(t, q) \in tmps /\ TmpOf(t, q) # TmpOf(t, p)
      BY <1>0, <2>2, <3>1, TmpNames DEF HasTmp, TypeOK
    <3> QED
      BY <2>1, <3>2
  <2>6. tmps \subseteq tmps' \cup Own
    BY <2>1, <2>2
  <2> QED
    BY <2>2, <2>3, <2>4, <2>5, <2>6, LocalStep
<1>4. CASE Rollback(t)
  <2>1. /\ pc[t] = "open" /\ pc' = [pc EXCEPT ![t] = "idle"]
        /\ dirty' = [dirty EXCEPT ![t] = NothingDirty]
        /\ tmps' = tmps \ {TmpOf(t, p) : p \in WrittenPaths(t)}
        /\ UNCHANGED <<files, meta, relRenames, process, server, todo, lost, contested>>
    BY <1>4 DEF Rollback
  <2>2. server = "up"
    BY <1>0, <2>1 DEF RecoversAlone
  <2>3. /\ pc'[t] = "idle" /\ dirty'[t] = NothingDirty
        /\ \A u \in Threads : u # t => pc'[u] = pc[u] /\ dirty'[u] = dirty[u]
    BY <1>0, <2>1 DEF TypeOK
  <2>4. \A q \in Paths : dirty'[t][q] # Written
    BY <2>3, FileCommitConstants DEF NothingDirty
  <2>5. tmps \subseteq tmps' \cup Own
    BY <2>1 DEF WrittenPaths
  <2> QED
    BY <2>1, <2>2, <2>3, <2>4, <2>5, LocalStep
<1> QED
  BY <1>1, <1>2, <1>3, <1>4

LEMMA RenamingStep ==
    ASSUME IInv, TypeOK', NEW t \in Threads,
           ApplyFile(t) \/ RemoveFails(t) \/ ApplyFails(t)
    PROVE  Rest'
<1>0. TypeOK /\ AgreesWithMetadata
  BY DEF IInv
<1>1. CASE ApplyFile(t)
  <2>1. PICK p \in DirtyPaths(t) :
        /\ files' = IF p \in DeletedPaths(t) THEN files \ {p} ELSE files \cup {p}
        /\ tmps' = IF p \in DeletedPaths(t) THEN tmps ELSE tmps \ {TmpOf(t, p)}
        /\ dirty' = [dirty EXCEPT ![t][p] = Clean]
        /\ pc' = [pc EXCEPT ![t] = IF DirtyPaths(t) = {p} THEN "idle" ELSE "renaming"]
        /\ lost' = lost \ {p}
    BY <1>1 DEF ApplyFile
  <2>2. /\ pc[t] = "renaming" /\ p \in Paths
        /\ UNCHANGED <<meta, relRenames, process, server, todo, contested>>
    BY <1>1, <2>1 DEF ApplyFile, DirtyPaths
  <2>3. /\ dirty'[t][p] = Clean
        /\ \A q \in Paths : q # p => dirty'[t][q] = dirty[t][q]
        /\ \A u \in Threads : u # t => dirty'[u] = dirty[u]
    BY <1>0, <2>1, <2>2, ExceptOne DEF TypeOK
  <2>4. /\ \A u \in Threads : u # t => pc'[u] = pc[u]
        /\ \A q \in Paths : q # p /\ dirty[t][q] # Clean => pc'[t] = "renaming"
    BY <1>0, <2>1 DEF TypeOK, DirtyPaths
  <2>5. p \in contested \/ (p \in files' <=> p \in meta)
    <3>1. p \notin contested => (dirty[t][p] = Written <=> p \in meta)
      BY <1>0, <2>2, <2>1 DEF AgreesWithMetadata, Renaming
    <3>2. p \in files' <=> dirty[t][p] = Written
      BY <1>0, <2>1, DirtyCases
    <3> QED
      BY <3>1, <3>2
  <2>6. \A x \in tmps : x \in tmps' \/ \E q \in {p} : x = TmpOf(t, q)
    BY <2>1
  <2>7. \A q \in Paths : q \notin {p} =>
            /\ dirty'[t][q] = dirty[t][q]
            /\ q \in files' <=> q \in files
            /\ q \in lost' <=> q \in lost
            /\ dirty[t][q] # Clean => pc'[t] = "renaming"
    BY <2>1, <2>3, <2>4
  <2>8. /\ {p} \in SUBSET DirtyPaths(t) /\ \A q \in {p} : dirty'[t][q] = Clean
        /\ \A q \in {p} : q \in lost' \/ q \in contested \/ (q \in files' <=> q \in meta)
        /\ \A u \in Threads : u # t => pc'[u] = pc[u] /\ dirty'[u] = dirty[u]
    BY <2>1, <2>3, <2>4, <2>5
  <2> QED
    BY <2>2, <2>6, <2>7, <2>8, FinishStep
<1>2. CASE RemoveFails(t)
  <2>1. PICK p \in DeletedPaths(t) \cap files :
        /\ dirty' = [dirty EXCEPT ![t][p] = Clean]
        /\ pc' = [pc EXCEPT ![t] = IF DirtyPaths(t) = {p} THEN "idle" ELSE "renaming"]
        /\ lost' = lost \cup {p}
    BY <1>2 DEF RemoveFails
  <2>2. /\ pc[t] = "renaming" /\ p \in Paths /\ p \in DirtyPaths(t)
        /\ UNCHANGED <<files, tmps, meta, relRenames, process, server, todo, contested>>
    BY <1>0, <1>2, <2>1, DirtyCases DEF RemoveFails
  <2>3. /\ dirty'[t][p] = Clean
        /\ \A q \in Paths : q # p => dirty'[t][q] = dirty[t][q]
        /\ \A u \in Threads : u # t => dirty'[u] = dirty[u]
    BY <1>0, <2>1, <2>2, ExceptOne DEF TypeOK
  <2>4. /\ \A u \in Threads : u # t => pc'[u] = pc[u]
        /\ \A q \in Paths : q # p /\ dirty[t][q] # Clean => pc'[t] = "renaming"
    BY <1>0, <2>1 DEF TypeOK, DirtyPaths
  <2>5. \A q \in Paths : q \notin {p} =>
            /\ dirty'[t][q] = dirty[t][q]
            /\ q \in files' <=> q \in files
            /\ q \in lost' <=> q \in lost
            /\ dirty[t][q] # Clean => pc'[t] = "renaming"
    BY <2>1, <2>2, <2>3, <2>4
  <2>6. /\ {p} \in SUBSET DirtyPaths(t) /\ \A q \in {p} : dirty'[t][q] = Clean
        /\ \A q \in {p} : q \in lost' \/ q \in contested \/ (q \in files' <=> q \in meta)
        /\ \A u \in Threads : u # t => pc'[u] = pc[u] /\ dirty'[u] = dirty[u]
        /\ \A x \in tmps : x \in tmps' \/ \E q \in {p} : x = TmpOf(t, q)
    BY <2>1, <2>2, <2>3, <2>4
  <2>7. UNCHANGED <<meta, relRenames, process, server, todo, contested>> /\ pc[t] = "renaming"
    BY <2>2
  <2> QED
    BY <2>5, <2>6, <2>7, FinishStep
<1>3. CASE ApplyFails(t)
  <2>1. /\ pc[t] = "renaming" /\ lost' = lost \cup DirtyPaths(t)
        /\ dirty' = [dirty EXCEPT ![t] = NothingDirty]
        /\ pc' = [pc EXCEPT ![t] = "idle"]
        /\ UNCHANGED <<files, tmps, meta, relRenames, process, server, todo, contested>>
    BY <1>3 DEF ApplyFails
  <2>2. /\ dirty'[t] = NothingDirty
        /\ \A u \in Threads : u # t => pc'[u] = pc[u] /\ dirty'[u] = dirty[u]
    BY <1>0, <2>1 DEF TypeOK
  <2>3. /\ \A q \in Paths : dirty'[t][q] = Clean
        /\ \A q \in Paths : q \notin DirtyPaths(t) => dirty[t][q] = Clean
        /\ DirtyPaths(t) \subseteq Paths
    BY <2>2 DEF NothingDirty, DirtyPaths
  <2>4. \A q \in Paths : q \notin DirtyPaths(t) =>
            (q \in files' <=> q \in files) /\ (q \in lost' <=> q \in lost)
    BY <2>1
  <2> QED
    BY <2>1, <2>2, <2>3, <2>4, FinishStep
<1> QED
  BY <1>1, <1>2, <1>3

LEMMA CommitDbStep ==
    ASSUME IInv, TypeOK', NEW t \in Threads, CommitDb(t)
    PROVE  Rest'
<1> USE DEF IInv
<1>1. /\ pc[t] = "open"
      /\ meta' = (meta \ DeletedPaths(t)) \cup WrittenPaths(t)
      /\ relRenames' = RelRenames(t)
      /\ pc' = [pc EXCEPT ![t] = "renaming"]
      /\ contested' = (contested \ DirtyPaths(t)) \cup (DirtyPaths(t) \cap OthersPaths(t))
      /\ UNCHANGED <<files, tmps, dirty, process, server, todo, lost>>
  BY DEF CommitDb
<1>2. server = "up"
  BY <1>1 DEF RecoversAlone
<1>3. pc'[t] = "renaming" /\ \A u \in Threads : u # t => pc'[u] = pc[u]
  BY <1>1 DEF TypeOK
<1>4. \A u \in Threads, p \in Paths :
            Renaming(u, p)' <=> IF u = t THEN p \in DirtyPaths(t) ELSE Renaming(u, p)
  BY <1>1, <1>3 DEF Renaming, DirtyPaths
<1>5. \A u \in Threads : RelRenames(u)' = RelRenames(u)
  BY <1>1 DEF RelRenames, WrittenPaths, DeletedPaths, TmpOf
<1>6. \A p \in Paths :
        /\ p \in WrittenPaths(t) => relRenames'[p] = TmpOf(t, p) /\ p \in meta'
        /\ p \in DeletedPaths(t) => relRenames'[p] = Deleted /\ p \notin meta'
        /\ p \notin DirtyPaths(t) => relRenames'[p] = NoEntry /\ (p \in meta' <=> p \in meta)
  BY <1>1, RelRenamesOf, DirtyCases
<1>7. Logged'
  <2> SUFFICES ASSUME NEW p \in Paths
               PROVE  /\ relRenames'[p] = Deleted => p \notin meta'
                      /\ relRenames'[p] \in TmpName => p \in meta' /\ relRenames'[p].path = p
    BY DEF Logged
  <2> QED
    BY <1>6, TmpNames, DirtyCases, FileCommitMarkers DEF TypeOK
<1>8. HasTmp' /\ RecoversAlone' /\ StartupSucceeds'
  <2>1. HasTmp'
    BY <1>1 DEF HasTmp, TmpOf
  <2>2. todo = {}
    BY <1>2 DEF RecoversAlone
  <2> QED
    BY <1>1, <1>2, <2>1, <2>2 DEF RecoversAlone, StartupSucceeds
<1>9. AgreesWithMetadata'
  <2> SUFFICES ASSUME NEW p \in Paths, p \notin contested', NEW u \in Threads, Renaming(u, p)'
               PROVE  /\ dirty[u][p] = Written <=> p \in meta'
                      /\ relRenames'[p] \in {NoEntry, RelRenames(u)[p]}
                      /\ \A v \in Threads : Renaming(v, p)' => v = u
    BY <1>1, <1>5 DEF AgreesWithMetadata
  <2>1. CASE p \in DirtyPaths(t)
    <3>1. \A v \in Threads : v # t => ~Renaming(v, p)
      BY <1>1, <2>1 DEF OthersPaths, Renaming
    <3>2. u = t
      BY <1>4, <3>1
    <3>3. dirty[t][p] = Written <=> p \in meta'
      BY <1>6, <2>1, DirtyCases
    <3> QED
      BY <1>1, <1>4, <3>1, <3>2, <3>3
  <2>2. CASE p \notin DirtyPaths(t)
    <3>1. p \notin contested /\ u # t /\ Renaming(u, p)
      BY <1>1, <1>4, <2>2
    <3>2. dirty[u][p] = Written <=> p \in meta
      BY <3>1 DEF AgreesWithMetadata
    <3>3. \A v \in Threads : Renaming(v, p)' => v = u
      BY <1>4, <2>2, <3>1 DEF AgreesWithMetadata
    <3> QED
      BY <1>6, <2>2, <3>2, <3>3
  <2> QED
    BY <2>1, <2>2
<1>10. FilesMatchMetadata'
  <2> SUFFICES ASSUME NEW p \in Paths, p \notin lost, p \notin contested', ~Pending(p)'
               PROVE  p \in files <=> p \in meta'
    BY <1>1 DEF FilesMatchMetadata, Unsettled
  <2>1. p \notin DirtyPaths(t)
    BY <1>4 DEF Pending
  <2>2. ~Pending(p)
    BY <1>1, <1>2, <1>4 DEF Pending, Renaming
  <2>3. p \notin contested
    BY <1>1, <2>1
  <2> QED
    BY <1>6, <2>1, <2>2, <2>3 DEF FilesMatchMetadata, Unsettled
<1>11. LastCommitRecoverable'
  <2> SUFFICES ASSUME NEW p \in Paths, relRenames'[p] \in TmpName
               PROVE  relRenames'[p] \in tmps
    BY <1>1, <1>7 DEF LastCommitRecoverable, Logged
  <2>1. p \in WrittenPaths(t)
    BY <1>6, DirtyCases, FileCommitMarkers
  <2> QED
    BY <1>6, <2>1, DirtyCases DEF HasTmp
<1> QED
  BY <1>7, <1>8, <1>9, <1>10, <1>11 DEF Rest

-----------------------------------------------------------------------------
(* Crash and recovery.                                                     *)

LEMMA CrashStep ==
    ASSUME IInv, TypeOK', Crash
    PROVE  Rest'
<1> USE DEF IInv
<1>1. /\ \A t \in Threads : pc'[t] = "idle" /\ dirty'[t] = NothingDirty
      /\ lost' = lost \cup UNION {Forgotten(t) : t \in {u \in Threads : pc[u] = "renaming"}}
      /\ server' = "recovering"
      /\ todo' = {p \in Paths : relRenames[p] # NoEntry}
      /\ tmps' = tmps \cap {relRenames[p] : p \in Paths}
      /\ UNCHANGED <<files, meta, relRenames, contested>>
  BY DEF Crash
<1>2. Logged' /\ RecoversAlone' /\ StartupSucceeds'
  BY <1>1 DEF Logged, RecoversAlone, StartupSucceeds
<1>3. HasTmp' /\ AgreesWithMetadata'
  BY <1>1, FileCommitConstants DEF HasTmp, AgreesWithMetadata, Renaming, NothingDirty
<1>4. FilesMatchMetadata'
  <2> SUFFICES ASSUME NEW p \in Paths, p \notin lost', p \notin contested, ~(p \in files <=> p \in meta)
               PROVE  p \in todo'
    BY <1>1 DEF FilesMatchMetadata, Unsettled, Pending
  <2>1. p \notin lost
    BY <1>1
  <2>2. Pending(p)
    BY <2>1 DEF FilesMatchMetadata, Unsettled
  <2>3. CASE p \in todo
    BY <1>1, <2>3 DEF RecoversAlone
  <2>4. ASSUME NEW t \in Threads, Renaming(t, p)
        PROVE  p \in todo'
    <3>1. relRenames[p] = RelRenames(t)[p]
      BY <1>1, <2>4 DEF Forgotten, Renaming
    <3>2. RelRenames(t)[p] # NoEntry
      BY <2>4, RelRenamesOf, DirtyCases, TmpNames, FileCommitMarkers DEF Renaming, TypeOK
    <3> QED
      BY <1>1, <3>1, <3>2
  <2> QED
    BY <2>2, <2>3, <2>4 DEF Pending
<1>5. LastCommitRecoverable'
  BY <1>1 DEF LastCommitRecoverable, Unsettled
<1> QED
  BY <1>2, <1>3, <1>4, <1>5 DEF Rest

\* A restarted server looks at one path: its file is right now or the path is given up,
\* or the server stops because the file is missing.
LEMMA LookStep ==
    ASSUME IInv, TypeOK', NEW p \in todo, server = "recovering",
           UNCHANGED <<meta, relRenames, pc, dirty, process>>,
           todo' = todo \ {p},
           server' \in {"recovering", "failed"},
           server' = "failed" =>
                relRenames[p] \in TmpName /\ p \notin files' /\ p \in lost' \cup contested',
           \A q \in Paths : q # p => /\ (q \in files' <=> q \in files)
                                   /\ (q \in lost' <=> q \in lost)
                                   /\ (q \in contested' <=> q \in contested),
           tmps' \subseteq tmps, tmps \subseteq tmps' \cup {relRenames[p]},
           p \in lost' \/ p \in contested' \/ (p \in files' <=> p \in meta)
    PROVE  Rest'
<1> USE DEF IInv
<1>1. p \in Paths /\ \A t \in Threads : pc[t] = "idle"
  BY DEF RecoversAlone, TypeOK
<1>2. Logged' /\ RecoversAlone'
  BY <1>1 DEF Logged, RecoversAlone
<1>3. StartupSucceeds'
  BY <1>1 DEF StartupSucceeds, Unsettled
<1>4. AgreesWithMetadata'
  BY <1>1 DEF AgreesWithMetadata, Renaming
<1>5. FilesMatchMetadata'
  <2> SUFFICES ASSUME NEW q \in Paths, q \notin lost', q \notin contested', q \notin todo'
               PROVE  q \in files' <=> q \in meta
    BY DEF FilesMatchMetadata, Unsettled, Pending
  <2>1. CASE q = p
    BY <2>1
  <2>2. CASE q # p
    <3>1. q \notin lost /\ q \notin contested /\ q \notin todo
      BY <2>2
    <3>2. ~Pending(q)
      BY <1>1, <3>1 DEF Pending, Renaming
    <3> QED
      BY <2>2, <3>1, <3>2 DEF FilesMatchMetadata, Unsettled
  <2> QED
    BY <2>1, <2>2
<1>6. LastCommitRecoverable'
  <2> SUFFICES ASSUME NEW q \in Paths, q \notin lost', q \notin contested',
                      relRenames[q] \in TmpName, q \notin files'
               PROVE  relRenames[q] \in tmps'
    BY DEF LastCommitRecoverable, Logged, Unsettled
  <2>1. q # p
    BY DEF Logged
  <2>2. relRenames[q] \in tmps
    <3>1. q \notin lost /\ q \notin contested /\ q \notin files
      BY <2>1
    <3> QED
      BY <3>1 DEF LastCommitRecoverable, Unsettled
  <2>3. relRenames[q] # relRenames[p]
    BY <1>1, <2>1 DEF Logged
  <2> QED
    BY <2>2, <2>3
<1>7. HasTmp'
  <2> SUFFICES ASSUME NEW t \in Threads, NEW q \in Paths, dirty[t][q] = Written
               PROVE  FALSE
    BY DEF HasTmp, TmpOf
  <2>1. dirty[t][q] = Clean
    BY DEF RecoversAlone, NothingDirty
  <2> QED
    BY <2>1, FileCommitConstants
<1> QED
  BY <1>2, <1>3, <1>4, <1>5, <1>6, <1>7 DEF Rest

LEMMA RecoveryStep ==
    ASSUME IInv, TypeOK', Recovery
    PROVE  Rest'
<1> USE DEF IInv
<1>1. ASSUME NEW p \in Paths, RecoverDelete(p)
      PROVE  Rest'
  <2>1. p \notin meta
    BY <1>1 DEF RecoverDelete, Logged
  <2> QED
    BY <1>1, <2>1, LookStep DEF RecoverDelete
<1>2. ASSUME NEW p \in Paths, RecoverDeleteFails(p)
      PROVE  Rest'
  BY <1>2, LookStep DEF RecoverDeleteFails
<1>3. ASSUME NEW p \in Paths, RecoverRename(p)
      PROVE  Rest'
  <2>1. p \in meta
    BY <1>3 DEF RecoverRename, Logged, TypeOK
  <2> QED
    BY <1>3, <2>1, LookStep DEF RecoverRename
<1>4. ASSUME NEW p \in Paths, RecoverDone(p)
      PROVE  Rest'
  <2>1. relRenames[p] \in TmpName /\ p \in meta
    BY <1>4 DEF RecoverDone, RecoversAlone, Logged, TypeOK
  <2>2. p \notin files => p \in lost \cup contested
    BY <1>4, <2>1 DEF RecoverDone, LastCommitRecoverable, Unsettled
  <2> QED
    BY <1>4, <2>1, <2>2, LookStep DEF RecoverDone
<1>5. CASE StartServer
  <2>1. /\ server = "recovering" /\ todo = {} /\ server' = "up"
        /\ UNCHANGED <<files, tmps, meta, relRenames, pc, dirty, process, todo, lost, contested>>
    BY <1>5 DEF StartServer
  <2>2. Logged' /\ RecoversAlone' /\ StartupSucceeds' /\ LastCommitRecoverable'
    BY <2>1 DEF Logged, RecoversAlone, StartupSucceeds, LastCommitRecoverable, Unsettled
  <2>3. HasTmp' /\ AgreesWithMetadata'
    BY <2>1 DEF HasTmp, AgreesWithMetadata, Renaming, TmpOf, DirtyPaths, RelRenames,
                WrittenPaths, DeletedPaths, RecoversAlone
  <2>4. FilesMatchMetadata'
    BY <2>1 DEF FilesMatchMetadata, Unsettled, Pending, Renaming, DirtyPaths
  <2> QED
    BY <2>2, <2>3, <2>4 DEF Rest
<1> QED
  BY <1>1, <1>2, <1>3, <1>4, <1>5 DEF Recovery

-----------------------------------------------------------------------------
(* The invariant and the properties.                                       *)

LEMMA StepIInv == IInv /\ [Next]_vars => IInv'
<1> SUFFICES ASSUME IInv, [Next]_vars
             PROVE  IInv'
  OBVIOUS
<1>1. TypeOK'
  BY TypeStep DEF IInv
<1>2. CASE UNCHANGED vars
  BY <1>2 DEF vars, IInv, TypeOK, Logged, HasTmp, AgreesWithMetadata, RecoversAlone,
              FilesMatchMetadata, LastCommitRecoverable, StartupSucceeds, Unsettled, Pending,
              Renaming, TmpOf, DirtyPaths, RelRenames, WrittenPaths, DeletedPaths
<1>3. CASE Next
  <2>1. Rest'
    BY <1>1, <1>3, OpenStep, RenamingStep, CommitDbStep, CrashStep, RecoveryStep DEF Next
  <2> QED
    BY <1>1, <2>1 DEF Rest, IInv
<1> QED
  BY <1>2, <1>3

\* What is on disk, in the metadata, in the last changelog row and still to be done by
\* the threads fits together.
THEOREM Invariance == Spec => []IInv
BY InitIInv, StepIInv, PTL DEF Spec

\* Metadata and files agree for every path which nobody is busy with and which was neither
\* given up nor written by two transactions at a time.
THEOREM FilesMatch == Spec => []FilesMatchMetadata
<1>1. IInv => FilesMatchMetadata
  BY DEF IInv
<1> QED
  BY <1>1, Invariance, PTL

\* Killing the process at any moment leaves what the recovery needs.
THEOREM Recoverable == Spec => []LastCommitRecoverable
<1>1. IInv => LastCommitRecoverable
  BY DEF IInv
<1> QED
  BY <1>1, Invariance, PTL

\* The server only refuses to start for a file which was given up or written by two
\* transactions at a time.
THEOREM Startup == Spec => []StartupSucceeds
<1>1. IInv => StartupSucceeds
  BY DEF IInv
<1> QED
  BY <1>1, Invariance, PTL

LEMMA AppearStep ==
    IInv /\ [Next]_vars =>
        \A p \in Paths \ contested : /\ p \in files' \ files => p \in meta'
                                     /\ p \in files \ files' => p \notin meta'
<1> DEFINE Step ==
        \A p \in Paths \ contested : /\ p \in files' \ files => p \in meta'
                                     /\ p \in files \ files' => p \notin meta'
<1> SUFFICES ASSUME IInv, [Next]_vars
             PROVE  Step
  OBVIOUS
<1>1. Step
  <2>1. ASSUME NEW t \in Threads, ApplyFile(t)
        PROVE  Step
    <3>1. PICK p \in DirtyPaths(t) :
                files' = IF p \in DeletedPaths(t) THEN files \ {p} ELSE files \cup {p}
      BY <2>1 DEF ApplyFile
    <3>2. pc[t] = "renaming" /\ p \in Paths /\ meta' = meta
      BY <2>1, <3>1 DEF ApplyFile, DirtyPaths
    <3>3. p \notin contested => (dirty[t][p] = Written <=> p \in meta)
      BY <3>1, <3>2 DEF IInv, AgreesWithMetadata, Renaming
    <3>4. p \in DeletedPaths(t) <=> ~(dirty[t][p] = Written)
      BY <3>1, DirtyCases DEF IInv
    <3> QED
      BY <3>1, <3>2, <3>3, <3>4
  <2>2. ASSUME NEW p \in Paths, RecoverDelete(p)
        PROVE  Step
    BY <2>2 DEF RecoverDelete, IInv, Logged
  <2>3. ASSUME NEW p \in Paths, RecoverRename(p)
        PROVE  Step
    BY <2>3 DEF RecoverRename, IInv, Logged, TypeOK
  <2>4. CASE files' = files
    BY <2>4
  <2>5. \/ \E t \in Threads : ApplyFile(t)
        \/ \E p \in Paths : RecoverDelete(p) \/ RecoverRename(p)
        \/ files' = files
    BY DEF Next, Recovery, Begin, SetContent, Delete, CommitDb, ApplyFails, RemoveFails,
                Rollback, Crash, RecoverDeleteFails, RecoverDone, StartServer, vars
  <2> QED
    BY <2>1, <2>2, <2>3, <2>4, <2>5
<1> QED
  BY <1>1

\* Files appear and disappear as the committed metadata says.
THEOREM OnlyCommitted == Spec => OnlyCommittedAppears
BY AppearStep, Invariance, PTL DEF Spec, OnlyCommittedAppears
=============================================================================
