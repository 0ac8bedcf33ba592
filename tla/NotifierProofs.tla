--------------------------- MODULE NotifierProofs ---------------------------
(***************************************************************************)
(* Proofs about the notification thread, for every number of serials,      *)
(* subscribers, files, waiting threads, crashes and errors.                        *)
(***************************************************************************)
EXTENDS Notifier, FiniteSetTheorems, TLAPS

USE DEF Subscribers, store, thread, waiting, Goto

-----------------------------------------------------------------------------
(* One call more.                                                          *)

LEMMA CountOne ==
    ASSUME NEW S, NEW T, NEW f \in [S -> [T -> Nat]], NEW s \in S, NEW t \in T
    PROVE  /\ [f EXCEPT ![s][t] = @ + 1] \in [S -> [T -> Nat]]
           /\ [f EXCEPT ![s][t] = @ + 1][s][t] = f[s][t] + 1
           /\ \A r \in S, u \in T :
                r # s \/ u # t => [f EXCEPT ![s][t] = @ + 1][r][u] = f[r][u]
<1> DEFINE g == [f EXCEPT ![s][t] = @ + 1]
           h == [f[s] EXCEPT ![t] = @ + 1]
<1>1. f[s] \in [T -> Nat] /\ f[s][t] \in Nat
  OBVIOUS
<1>2. h \in [T -> Nat]
  BY <1>1
<1>3. g = [f EXCEPT ![s] = h]
  OBVIOUS
<1>4. h[t] = f[s][t] + 1 /\ \A u \in T : u # t => h[u] = f[s][u]
  BY <1>1
<1> HIDE DEF h
<1>5. g \in [S -> [T -> Nat]] /\ g[s] = h /\ \A r \in S : r # s => g[r] = f[r]
  BY <1>2, <1>3
<1> QED
  BY <1>4, <1>5

-----------------------------------------------------------------------------
(* Types.                                                                  *)

LEMMA InitTypeOK == Init => TypeOK
BY NotifierConstants, SMT DEF Init, TypeOK

LEMMA CommitType ==
    ASSUME TypeOK, Commit
    PROVE  /\ last' = last + 1 /\ last' \in 0..MaxSerial
           /\ rows' \in [0..last' -> Row]
           /\ \A s \in 0..last : rows'[s] = rows[s]
<1>1. last \in -1..MaxSerial /\ last < MaxSerial /\ last' = last + 1
  BY DEF Commit, TypeOK
<1>2. last' \in 0..MaxSerial
  BY <1>1, NotifierConstants
<1>3. PICK r \in Row :
        rows' = [s \in 0..last + 1 |-> IF s = last + 1 THEN r ELSE rows[s]]
  BY DEF Commit
<1>4. \A s \in 0..last + 1 : s # last + 1 => s \in 0..last
  BY <1>1
<1>5. rows' \in [0..last' -> Row]
  BY <1>1, <1>3, <1>4 DEF TypeOK
<1>6. \A s \in 0..last : rows'[s] = rows[s]
  BY <1>1, <1>3
<1> QED
  BY <1>1, <1>2, <1>5, <1>6

\* The numbers among the types.
LEMMA Numbers ==
    ASSUME TypeOK
    PROVE  /\ last \in Int /\ disk \in Int /\ event \in Int
           /\ crashes \in Nat /\ failures \in Nat
           /\ -1 <= disk /\ disk <= last /\ -1 <= event /\ event <= last /\ last <= MaxSerial
           /\ MaxSerial \in Nat /\ MaxCrashes \in Nat /\ MaxFailures \in Nat
           /\ next \in Subscribers /\ NumSubscribers \in Nat
           /\ called \in [0..MaxSerial -> [Subscribers -> Nat]]
BY NotifierConstants DEF TypeOK

LEMMA TypeStep ==
    ASSUME TypeOK, Position, [Next]_vars
    PROVE  TypeOK'
<1> USE DEF TypeOK
<1>1. CASE Commit
  BY <1>1, CommitType DEF Commit
<1>2. ASSUME NEW f \in Files, FileAppears(f) \/ FileVanishes(f)
      PROVE  TypeOK'
  BY <1>2 DEF FileAppears, FileVanishes
<1>3. CASE Tick
  <2>1. CASE StartTick \/ NextEvent \/ WaitForCommit \/ CommitArrived
    <3>1. /\ pc' \in {"loop", "config", "wait", "start"}
          /\ \/ event' \in {event, disk, -1}
             \/ event < last /\ event' = event + 1
          /\ UNCHANGED <<rows, last, files, disk, next, cv, wpc, target, crashes, failures,
                        called>>
      BY <2>1, Zenon DEF StartTick, NextEvent, WaitForCommit, CommitArrived
    <3>2. event' \in -1..last'
      BY <3>1, NotifierConstants
    <3> QED
      BY <3>1, <3>2
  <2>2. CASE CheckConfig \/ CheckFile \/ CheckFileFails \/ CheckCurrent \/ Retry
    <3>1. /\ pc' \in {"exists", "hooks", "current", "sleep", "start"}
          /\ next' \in {1, next} /\ event' \in {-1, event}
          /\ UNCHANGED <<rows, last, files, disk, cv, wpc, target, crashes, failures, called>>
      BY <2>2, Zenon DEF CheckConfig, CheckFile, CheckFileFails, CheckCurrent, Retry
    <3>2. next' \in Subscribers /\ event' \in -1..last'
      BY <3>1, NotifierConstants
    <3> QED
      BY <3>1, <3>2
  <2>3. CASE CallSubscriber
    <3>1. /\ pc = "hooks"
          /\ called' = [called EXCEPT ![event][next] = @ + 1]
          /\ next' = IF next = NumSubscribers THEN 1 ELSE next + 1
          /\ pc' \in {"lock", "hooks"}
          /\ UNCHANGED <<rows, last, files, disk, event, cv, wpc, target, crashes, failures>>
      BY <2>3 DEF CallSubscriber
    <3>2. event \in 0..MaxSerial
      <4>1. event = disk + 1 /\ event \in -1..last /\ disk \in -1..last /\ last \in -1..MaxSerial
        BY <3>1 DEF Position
      <4> QED
        BY <4>1, NotifierConstants
    <3>3. called' \in [0..MaxSerial -> [Subscribers -> Nat]]
      BY <3>1, <3>2, CountOne
    <3>4. next' \in Subscribers
      BY <3>1, NotifierConstants
    <3> QED
      BY <3>1, <3>3, <3>4
  <2>4. CASE LockCondition \/ WriteEventSerial \/ WriteFails \/ NotifyAll
    <3>1. CASE LockCondition
      BY <3>1 DEF LockCondition
    <3>2. CASE WriteEventSerial
      BY <3>2 DEF WriteEventSerial
    <3>3. CASE WriteFails
      <4>1. failures' \in 0..MaxFailures
        BY <3>3, NotifierConstants DEF WriteFails
      <4> QED
        BY <3>3, <4>1 DEF WriteFails
    <3>4. CASE NotifyAll
      BY <3>4 DEF NotifyAll
    <3> QED
      BY <2>4, <3>1, <3>2, <3>3, <3>4
  <2> QED
    BY <1>3, <2>1, <2>2, <2>3, <2>4 DEF Tick
<1>4. ASSUME NEW w \in Waiters, CallWait(w) \/ EnterCondition(w) \/ CheckCondition(w)
      PROVE  TypeOK'
  <2>1. CASE CallWait(w)
    <3>1. PICK s \in 0..last : target' = [target EXCEPT ![w] = s]
      BY <2>1 DEF CallWait
    <3>2. s \in -1..last
      BY <3>1
    <3>3. target' \in [Waiters -> -1..last]
      BY <3>1, <3>2
    <3>4. /\ wpc' = [wpc EXCEPT ![w] = "enter"]
          /\ UNCHANGED <<rows, last, files, disk, pc, event, next, cv, crashes, failures, called>>
      BY <2>1 DEF CallWait
    <3> QED
      BY <3>3, <3>4
  <2>2. CASE EnterCondition(w)
    BY <2>2 DEF EnterCondition
  <2>5. CASE CheckCondition(w)
    <3>1. target' \in [Waiters -> -1..last]
      BY <2>5, Numbers DEF CheckCondition
    <3> QED
      BY <2>5, <3>1 DEF CheckCondition
  <2> QED
    BY <1>4, <2>1, <2>2, <2>5
<1>5. CASE Crash
  BY <1>5, NotifierConstants DEF Crash
<1>6. CASE UNCHANGED vars
  BY <1>6 DEF vars
<1> QED
  BY <1>1, <1>2, <1>3, <1>4, <1>5, <1>6 DEF Next

-----------------------------------------------------------------------------
(* Where the thread is.                                                    *)

LEMMA PositionStep ==
    ASSUME TypeOK, Position, [Next]_vars
    PROVE  Position'
<1> USE DEF Position
<1>1. CASE Commit \/ (\E f \in Files : FileAppears(f) \/ FileVanishes(f))
  BY <1>1 DEF Commit, FileAppears, FileVanishes
<1>2. CASE StartTick \/ NextEvent \/ WaitForCommit \/ CommitArrived
  BY <1>2 DEF StartTick, NextEvent, WaitForCommit, CommitArrived, TypeOK
<1>3. CASE CheckConfig \/ CheckFile \/ CheckFileFails \/ CheckCurrent \/ Retry
  BY <1>3 DEF CheckConfig, CheckFile, CheckFileFails, CheckCurrent, Retry
<1>4. CASE CallSubscriber \/ LockCondition \/ WriteEventSerial \/ WriteFails \/ NotifyAll
  BY <1>4 DEF CallSubscriber, LockCondition, WriteEventSerial, WriteFails, NotifyAll
<1>5. CASE \E w \in Waiters : CallWait(w) \/ EnterCondition(w) \/ CheckCondition(w)
  BY <1>5 DEF CallWait, EnterCondition, CheckCondition
<1>6. CASE Crash \/ UNCHANGED vars
  BY <1>6 DEF Crash, vars
<1> QED
  BY <1>1, <1>2, <1>3, <1>4, <1>5, <1>6 DEF Next, Tick

\* What a step which calls no subscriber leaves as it was.
LEMMA CalledUnchanged ==
    ASSUME [Next]_vars
    PROVE  CallSubscriber \/ UNCHANGED called
BY DEF Next, Tick, Commit, FileAppears, FileVanishes, StartTick, NextEvent, WaitForCommit,
       CommitArrived, CheckConfig, CheckFile, CheckFileFails, CheckCurrent, Retry,
       LockCondition, WriteEventSerial, WriteFails, NotifyAll, CallWait, EnterCondition,
       CheckCondition, Crash, vars

\* What else it may do: store the serial, leave the thread where it is, or move it.
LEMMA HowItMoves ==
    ASSUME Position, [Next]_vars
    PROVE  \/ CallSubscriber
           \/ pc = "write" /\ WriteEventSerial
           \/ disk' = disk /\ pc' \in {"hooks", "lock", "write"} /\ pc' = pc
                /\ next' = next /\ event' = event
           \/ disk' = disk /\ pc' \notin {"hooks", "lock", "write"}
                /\ (Crash \/ WriteFails \/ pc \notin {"hooks", "lock", "write"})
           \/ disk' = disk /\ pc' = "hooks" /\ next' = 1
                /\ pc \notin {"hooks", "lock", "write"}
           \/ disk' = disk /\ pc = "lock" /\ pc' = "write" /\ event' = event
BY DEF Position, Next, Tick, Commit, FileAppears, FileVanishes, StartTick, NextEvent, WaitForCommit,
       CommitArrived, CheckConfig, CheckFile, CheckFileFails, CheckCurrent, Retry,
       LockCondition, WriteEventSerial, WriteFails, NotifyAll, CallWait, EnterCondition,
       CheckCondition, Crash, vars

LEMMA Counted ==
    ASSUME [Next]_vars
    PROVE  Crash \/ WriteFails \/ UNCHANGED <<crashes, failures>>
BY DEF Next, Tick, Commit, FileAppears, FileVanishes, StartTick, NextEvent, WaitForCommit,
       CommitArrived, CheckConfig, CheckFile, CheckFileFails, CheckCurrent, Retry,
       CallSubscriber, LockCondition, WriteEventSerial, NotifyAll, CallWait, EnterCondition,
       CheckCondition, vars

\* A step which calls a subscriber.
LEMMA CallStep ==
    ASSUME TypeOK, Position, CallSubscriber
    PROVE  /\ pc = "hooks" /\ event = disk + 1 /\ event \in 0..MaxSerial /\ disk \in Int
           /\ next \in Subscribers /\ NumSubscribers \in Nat
           /\ called[event][next] \in Nat
           /\ called'[event][next] = called[event][next] + 1
           /\ \A s \in 0..MaxSerial, i \in Subscribers :
                s # event \/ i # next => called'[s][i] = called[s][i]
           /\ next < NumSubscribers => pc' = "hooks" /\ next' = next + 1
           /\ next = NumSubscribers => pc' = "lock"
           /\ UNCHANGED <<rows, last, files, disk, event, crashes, failures>>
<1>1. /\ pc = "hooks"
      /\ called' = [called EXCEPT ![event][next] = @ + 1]
      /\ next < NumSubscribers => pc' = "hooks" /\ next' = next + 1
      /\ next = NumSubscribers => pc' = "lock"
      /\ UNCHANGED <<rows, last, files, disk, event, crashes, failures>>
  BY NotifierConstants DEF CallSubscriber, TypeOK
<1>2. event = disk + 1 /\ event \in 0..MaxSerial /\ disk \in Int /\ next \in Subscribers
  <2>1. event = disk + 1
    BY <1>1 DEF Position
  <2> QED
    BY <2>1, Numbers
<1>3. called \in [0..MaxSerial -> [Subscribers -> Nat]] /\ NumSubscribers \in Nat
  BY Numbers
<1>4. called[event][next] \in Nat
  BY <1>2, <1>3
<1>5. /\ called'[event][next] = called[event][next] + 1
      /\ \A s \in 0..MaxSerial, i \in Subscribers :
            s # event \/ i # next => called'[s][i] = called[s][i]
  <2> HIDE DEF Subscribers
  <2> QED
    BY <1>1, <1>2, <1>3, CountOne
<1> QED
  BY <1>1, <1>2, <1>3, <1>4, <1>5

-----------------------------------------------------------------------------
(* Which subscribers have been called.                                     *)

LEMMA CallsStep ==
    ASSUME TypeOK, Position, Calls, [Next]_vars
    PROVE  Calls'
<1> USE DEF Calls
<1>1. CASE CallSubscriber
  <2>1. \A s \in 0..MaxSerial, i \in Subscribers : called[s][i] \in Nat
    BY DEF TypeOK
  <2>2. \A s \in 0..MaxSerial, i \in Subscribers :
            called[s][i] > 0 => called'[s][i] > 0
    BY <1>1, <2>1, CallStep
  <2>3. ASSUME NEW s \in 0..MaxSerial, NEW i \in Subscribers
        PROVE  /\ s <= disk' => called'[s][i] > 0
               /\ s > disk' + 1 => called'[s][i] = 0
    BY <1>1, <2>2, CallStep
  <2>4. ASSUME NEW s \in 0..MaxSerial, NEW i \in Subscribers, called'[s][i] > 0,
               NEW j \in 1..i - 1
        PROVE  called'[s][j] > 0
    <3>1. j \in Subscribers
      BY <1>1, CallStep
    <3>2. CASE s = event /\ i = next
      BY <1>1, <2>2, <3>1, <3>2, CallStep
    <3>3. CASE ~(s = event /\ i = next)
      BY <1>1, <2>2, <2>4, <3>1, <3>3, CallStep
    <3> QED
      BY <3>2, <3>3
  <2>5. \A j \in Subscribers : j <= next => called'[event][j] > 0
    <3>1. SUFFICES ASSUME NEW j \in Subscribers, j <= next
                   PROVE  called'[event][j] > 0
      OBVIOUS
    <3>2. CASE j = next
      BY <1>1, <2>1, <3>2, CallStep
    <3>3. CASE j # next
      <4>1. j \in 1..next - 1
        BY <1>1, <3>1, <3>3, CallStep
      <4> QED
        BY <1>1, <2>2, <4>1, <3>1, CallStep
    <3> QED
      BY <3>2, <3>3
  <2>6. pc' = "hooks" => \A j \in 1..next' - 1 : called'[event'][j] > 0
    BY <1>1, <2>5, CallStep
  <2>7. pc' \in {"lock", "write"} => \A j \in Subscribers : called'[event'][j] > 0
    BY <1>1, <2>5, CallStep
  <2> QED
    BY <2>3, <2>4, <2>6, <2>7
<1>2. CASE UNCHANGED called
  <2>1. CASE pc = "write" /\ WriteEventSerial
    <3>1. /\ disk' = event /\ pc' = "notify" /\ event = disk + 1 /\ disk \in Int
          /\ called' = called
          /\ \A j \in Subscribers : called[event][j] > 0
      BY <2>1 DEF WriteEventSerial, Position, TypeOK
    <3> QED
      BY <3>1
  <2>2. CASE disk' = disk /\ pc' \in {"hooks", "lock", "write"} /\ pc' = pc
              /\ next' = next /\ event' = event
    BY <1>2, <2>2
  <2>3. CASE disk' = disk /\ pc' \notin {"hooks", "lock", "write"}
    BY <1>2, <2>3
  <2>4. CASE disk' = disk /\ pc' = "hooks" /\ next' = 1
    BY <1>2, <2>4
  <2>5. CASE disk' = disk /\ pc = "lock" /\ pc' = "write" /\ event' = event
    BY <1>2, <2>5
  <2> QED
    BY <1>1, <1>2, <2>1, <2>2, <2>3, <2>4, <2>5, HowItMoves, Zenon
<1> QED
  BY <1>1, <1>2, CalledUnchanged

-----------------------------------------------------------------------------
(* Repeated calls are paid for by crashes.                                 *)

LEMMA RepeatsFinite ==
    ASSUME NEW R, R \subseteq (0..MaxSerial) \X (2..MaxCrashes + MaxFailures + 2)
    PROVE  IsFiniteSet(R) /\ Cardinality(R) \in Nat
<1>1. IsFiniteSet(0..MaxSerial) /\ IsFiniteSet(2..MaxCrashes + MaxFailures + 2)
  BY NotifierConstants, FS_Interval
<1>2. IsFiniteSet((0..MaxSerial) \X (2..MaxCrashes + MaxFailures + 2))
  BY <1>1, FS_Product
<1> QED
  BY <1>2, FS_Subset, FS_CardinalityType

\* A call is a repetition of the subscriber which is called, unless it is the first one.
LEMMA RepeatsGrow ==
    ASSUME TypeOK, Position, CallSubscriber, NEW i \in Subscribers
    PROVE  /\ i # next => Repeats(i)' = Repeats(i)
           /\ called[event][i] = 0 => Repeats(i)' = Repeats(i)
           /\ Cardinality(Repeats(i)') <= Cardinality(Repeats(i)) + 1
<1> DEFINE Pairs == (0..MaxSerial) \X (2..MaxCrashes + MaxFailures + 2)
           q == <<event, called[event][i] + 1>>
<1>1. /\ event \in 0..MaxSerial /\ called[event][next] \in Nat
      /\ called'[event][next] = called[event][next] + 1
      /\ \A s \in 0..MaxSerial :
            s # event \/ i # next => called'[s][i] = called[s][i]
  BY CallStep
<1>2. \A p \in Pairs : p[1] \in 0..MaxSerial /\ p[2] \in Int /\ p[2] >= 2 /\ p = <<p[1], p[2]>>
  BY Numbers
<1>3. Repeats(i)' = {p \in Pairs : called'[p[1]][i] >= p[2]}
  BY DEF Repeats
<1> HIDE DEF Pairs
<1>4. Repeats(i) = {p \in Pairs : called[p[1]][i] >= p[2]}
  BY DEF Repeats, Pairs
<1>5. i # next => Repeats(i)' = Repeats(i)
  BY <1>1, <1>2, <1>3, <1>4
<1>6. ASSUME called[event][i] = 0
      PROVE  Repeats(i)' = Repeats(i)
  <2>1. ASSUME NEW p \in Pairs
        PROVE  called'[p[1]][i] >= p[2] <=> called[p[1]][i] >= p[2]
    <3>1. CASE p[1] = event /\ i = next
      BY <1>1, <1>2, <1>6, <3>1
    <3>2. CASE ~(p[1] = event /\ i = next)
      BY <1>1, <1>2, <3>2
    <3> QED
      BY <3>1, <3>2
  <2> QED
    BY <2>1, <1>3, <1>4, Zenon
<1>7. ASSUME NEW p \in Pairs, called'[p[1]][i] >= p[2], p # q
      PROVE  called[p[1]][i] >= p[2]
  <2>1. CASE p[1] = event /\ i = next
    <3>1. p[2] # called[event][i] + 1
      BY <1>2, <1>7, <2>1
    <3> QED
      BY <1>1, <1>2, <1>7, <2>1, <3>1
  <2>2. CASE ~(p[1] = event /\ i = next)
    BY <1>1, <1>2, <1>7, <2>2
  <2> QED
    BY <2>1, <2>2
<1>8. Repeats(i)' \subseteq Repeats(i) \cup {q}
  <2> HIDE DEF q
  <2> QED
    BY <1>3, <1>4, <1>7, Zenon
<1>9. IsFiniteSet(Repeats(i)) /\ Cardinality(Repeats(i)) \in Nat
  BY <1>4, RepeatsFinite DEF Pairs
<1> HIDE DEF q
<1>10. /\ IsFiniteSet(Repeats(i) \cup {q})
       /\ Cardinality(Repeats(i) \cup {q}) <= Cardinality(Repeats(i)) + 1
  <2>1. IsFiniteSet(Repeats(i) \cup {q})
    BY <1>9, FS_AddElement
  <2>2. Cardinality(Repeats(i) \cup {q}) =
            IF q \in Repeats(i) THEN Cardinality(Repeats(i)) ELSE Cardinality(Repeats(i)) + 1
    BY <1>9, FS_AddElement
  <2> QED
    BY <1>9, <2>1, <2>2
<1>11. /\ IsFiniteSet(Repeats(i)')
       /\ Cardinality(Repeats(i)') <= Cardinality(Repeats(i) \cup {q})
  BY <1>8, <1>10, FS_Subset
<1>12. /\ Cardinality(Repeats(i)') \in Nat
       /\ Cardinality(Repeats(i) \cup {q}) \in Nat
  BY <1>10, <1>11, FS_CardinalityType
<1> QED
  BY <1>5, <1>6, <1>9, <1>10, <1>11, <1>12

LEMMA RepeatsPaidStep ==
    ASSUME TypeOK, Position, Calls, RepeatsPaid, [Next]_vars
    PROVE  RepeatsPaid'
<1> SUFFICES ASSUME NEW i \in Subscribers
             PROVE  Cardinality(Repeats(i)') + (IF MayRepeat(i)' THEN 1 ELSE 0) <= crashes' + failures'
  BY DEF RepeatsPaid
<1>1. /\ Cardinality(Repeats(i)) \in Nat /\ Cardinality(Repeats(i)') \in Nat
      /\ crashes \in Nat /\ failures \in Nat
  <2>1. Repeats(i) \subseteq (0..MaxSerial) \X (2..MaxCrashes + MaxFailures + 2)
    BY DEF Repeats
  <2>2. Repeats(i)' \subseteq (0..MaxSerial) \X (2..MaxCrashes + MaxFailures + 2)
    BY DEF Repeats
  <2> QED
    BY <2>1, <2>2, RepeatsFinite, Numbers
<1>2. Cardinality(Repeats(i)) + (IF MayRepeat(i) THEN 1 ELSE 0) <= crashes + failures
  BY DEF RepeatsPaid
<1>3. CASE CallSubscriber
  <2>1. crashes' = crashes /\ failures' = failures
    BY <1>3, CallStep
  <2>2. CASE i # next
    <3>1. MayRepeat(i)' => MayRepeat(i)
      <4>1. /\ disk' = disk /\ event = disk + 1 /\ pc = "hooks"
            /\ called'[event][i] = called[event][i]
            /\ next < NumSubscribers => pc' = "hooks" /\ next' = next + 1
            /\ next = NumSubscribers => pc' = "lock"
        BY <1>3, <2>2, CallStep
      <4>2. next \in Nat /\ i \in Nat /\ NumSubscribers \in Nat /\ next <= NumSubscribers
        BY Numbers
      <4> QED
        BY <2>2, <4>1, <4>2 DEF MayRepeat
    <3> QED
      BY <1>1, <1>2, <1>3, <2>1, <2>2, <3>1, RepeatsGrow
  <2>3. CASE i = next
    <3>1. ~MayRepeat(i)'
      BY <1>3, <2>3, CallStep, Numbers DEF MayRepeat
    <3>2. CASE called[event][i] = 0
      BY <1>1, <1>2, <1>3, <2>1, <3>1, <3>2, RepeatsGrow
    <3>3. CASE called[event][i] # 0
      <4>1. MayRepeat(i)
        BY <1>3, <2>3, <3>3, CallStep, Numbers DEF MayRepeat
      <4> QED
        BY <1>1, <1>2, <1>3, <2>1, <3>1, <4>1, RepeatsGrow
    <3> QED
      BY <3>2, <3>3
  <2> QED
    BY <2>2, <2>3
<1>4. CASE UNCHANGED called
  <2>1. Repeats(i)' = Repeats(i)
    BY <1>4 DEF Repeats
  <2>2. CASE Crash \/ WriteFails
    <3>1. crashes' + failures' = crashes + failures + 1
      BY <1>1, <2>2 DEF Crash, WriteFails
    <3> QED
      BY <1>1, <1>2, <2>1, <3>1
  <2>3. CASE ~(Crash \/ WriteFails)
    <3>1. crashes' = crashes /\ failures' = failures
      BY <2>3, Counted
    <3>2. MayRepeat(i)' => MayRepeat(i)
      <4>1. CASE pc = "write" /\ WriteEventSerial
        <5>1. disk' = disk + 1 /\ called' = called
          BY <4>1 DEF WriteEventSerial, Position
        <5>2. disk' < MaxSerial => called[disk + 2][i] = 0
          <6>1. \A s \in 0..MaxSerial : s > disk + 1 => called[s][i] = 0
            BY DEF Calls
          <6>2. disk' < MaxSerial => disk + 2 \in 0..MaxSerial /\ disk + 2 > disk + 1
            BY <5>1, Numbers
          <6> QED
            BY <6>1, <6>2
        <5>3. disk' < MaxSerial => ~(called'[disk' + 1][i] > 0)
          <6>1. disk \in Int /\ MaxSerial \in Nat
            BY Numbers
          <6>2. disk' + 1 = disk + 2
            BY <5>1, <6>1
          <6> QED
            BY <5>1, <5>2, <6>2
        <5> QED
          BY <5>3 DEF MayRepeat
      <4>2. CASE disk' = disk /\ pc' \in {"hooks", "lock", "write"} /\ pc' = pc
                /\ next' = next /\ event' = event
        BY <1>4, <4>2 DEF MayRepeat
      <4>3. CASE disk' = disk /\ pc \notin {"hooks", "lock", "write"}
        BY <1>4, <4>3 DEF MayRepeat
      <4>4. CASE CallSubscriber
        BY <1>4, <4>4, CallStep, Numbers
      <4>5. CASE disk' = disk /\ pc = "lock" /\ pc' = "write"
        BY <1>4, <4>5 DEF MayRepeat
      <4> QED
        BY <2>3, <4>1, <4>2, <4>3, <4>4, <4>5, HowItMoves
    <3> QED
      BY <1>1, <1>2, <2>1, <3>1, <3>2
  <2> QED
    BY <2>2, <2>3
<1> QED
  BY <1>3, <1>4, CalledUnchanged

-----------------------------------------------------------------------------
(* The files of the serials.                                               *)

LEMMA RowsStep ==
    ASSUME TypeOK, [Next]_vars
    PROVE  Commit \/ (last' = last /\ rows' = rows)
BY DEF Next, Tick, FileAppears, FileVanishes, StartTick, NextEvent, WaitForCommit,
       CommitArrived, CheckConfig, CheckFile, CheckFileFails, CheckCurrent, Retry,
       CallSubscriber, LockCondition, WriteEventSerial, WriteFails, NotifyAll, CallWait, EnterCondition,
       CheckCondition, Crash, vars

LEMMA HasLastStep ==
    ASSUME TypeOK, HasLastFileSerial, [Next]_vars
    PROVE  HasLastFileSerial'
<1>1. CASE Commit
  <2> SUFFICES ASSUME NEW f \in Files, FileSerials(f)' # {}
               PROVE  \E s \in FileSerials(f)' : \A r \in FileSerials(f)' : r <= s
    BY DEF HasLastFileSerial
  <2>1. /\ last \in Int /\ last' = last + 1 /\ last' \in 0..MaxSerial
        /\ \A s \in 0..last : rows'[s] = rows[s]
    BY <1>1, CommitType, Numbers
  <2>2. FileSerials(f) = {s \in FileSerials(f)' : s # last'}
    BY <2>1 DEF FileSerials
  <2>3. \A s \in FileSerials(f)' : s \in Int /\ s <= last'
    BY <2>1 DEF FileSerials
  <2>4. CASE last' \in FileSerials(f)'
    BY <2>3, <2>4
  <2>5. CASE last' \notin FileSerials(f)'
    <3>1. FileSerials(f)' = FileSerials(f)
      BY <2>2, <2>5
    <3> QED
      BY <3>1 DEF HasLastFileSerial
  <2> QED
    BY <2>4, <2>5
<1>2. CASE last' = last /\ rows' = rows
  BY <1>2 DEF HasLastFileSerial, FileSerials
<1> QED
  BY <1>1, <1>2, RowsStep

\* If the last serial with a file did not store it, a later one than any which did has
\* deleted it.
LEMMA DeletedLater ==
    ASSUME TypeOK, HasLastFileSerial, NEW s \in 0..last, rows[s].op = "set",
           ~Expected(rows[s].file)
    PROVE  DeletedAfter(rows[s].file, s) # {}
<1> DEFINE f == rows[s].file
<1>1. f \in Files
  BY DEF TypeOK, Row
<1>2. s \in FileSerials(f)
  BY DEF FileSerials
<1>3. PICK r \in FileSerials(f) : \A q \in FileSerials(f) : q <= r
  BY <1>1, <1>2 DEF HasLastFileSerial
<1>4. rows[r].op # "set"
  BY <1>3 DEF Expected
<1>5. r \in 0..last /\ rows[r].op \in {"del", "delfile"} /\ rows[r].file = f
  BY <1>3, <1>4 DEF FileSerials
<1>6. s <= r /\ s # r
  BY <1>2, <1>3, <1>4
<1>7. r \in s + 1..last
  BY <1>5, <1>6, Numbers
<1> QED
  BY <1>5, <1>7 DEF DeletedAfter

LEMMA FindFileStep ==
    ASSUME TypeOK, Position, HasLastFileSerial, SubscribersFindFile, [Next]_vars
    PROVE  SubscribersFindFile'
<1> USE DEF SubscribersFindFile
<1>1. CASE Commit
  <2> SUFFICES ASSUME pc = "hooks", rows'[event].op = "set"
               PROVE  \/ rows'[event].file \in files
                      \/ DeletedAfter(rows[event].file, event)' # {}
                      \/ External'
    BY <1>1 DEF Commit
  <2>1. /\ last \in Int /\ last' = last + 1
        /\ \A s \in 0..last : rows'[s] = rows[s]
    BY <1>1, CommitType, Numbers
  <2>2. event \in 0..last /\ event' = event
    BY <1>1, Numbers DEF Position, Commit
  <2>3. rows'[event] = rows[event]
    BY <2>1, <2>2
  <2>4. CASE rows[event].file \in files
    BY <2>3, <2>4
  <2>5. CASE DeletedAfter(rows[event].file, event) # {}
    <3>1. PICK r \in event + 1..last :
                rows[r].op \in {"del", "delfile"} /\ rows[r].file = rows[event].file
      BY <2>5 DEF DeletedAfter
    <3>2. r \in 0..last /\ r \in event + 1..last'
      BY <2>1, <2>2
    <3>3. rows'[r].op \in {"del", "delfile"} /\ rows'[r].file = rows'[event'].file
      BY <2>1, <2>2, <2>3, <3>1, <3>2
    <3> QED
      BY <2>2, <3>2, <3>3 DEF DeletedAfter
  <2>6. CASE External
    BY <2>1, <2>6 DEF External
  <2> QED
    BY <2>3, <2>4, <2>5, <2>6
<1>2. ASSUME NEW f \in Files, FileAppears(f)
      PROVE  SubscribersFindFile'
  BY <1>2 DEF FileAppears, DeletedAfter, External
<1>3. ASSUME NEW f \in Files, FileVanishes(f)
      PROVE  SubscribersFindFile'
  <2>1. /\ ~Expected(f) /\ files' = files \ {f}
        /\ UNCHANGED <<rows, last, pc, event>>
    BY <1>3 DEF FileVanishes
  <2>2. DeletedAfter(rows[event].file, event)' = DeletedAfter(rows[event].file, event)
        /\ External' = External
    BY <2>1 DEF DeletedAfter, External
  <2>3. CASE pc = "hooks" /\ rows[event].op = "set" /\ rows[event].file = f
    <3>1. event \in 0..last
      BY <2>3, Numbers DEF Position
    <3>2. DeletedAfter(rows[event].file, event) # {}
      BY <2>1, <2>3, <3>1, DeletedLater
    <3> QED
      BY <2>2, <3>2
  <2>4. CASE ~(pc = "hooks" /\ rows[event].op = "set" /\ rows[event].file = f)
    BY <2>1, <2>2, <2>4
  <2> QED
    BY <2>3, <2>4
<1>4. CASE CheckConfig
  <2>1. pc' = "hooks" => ~(rows[event].op = "set" /\ ~External)
    BY <1>4 DEF CheckConfig
  <2>2. UNCHANGED <<rows, last, event>>
    BY <1>4 DEF CheckConfig
  <2> QED
    BY <2>1, <2>2 DEF External
<1>5. CASE CheckFile
  BY <1>5 DEF CheckFile
<1>6. CASE CheckCurrent
  <2>1. UNCHANGED <<rows, last, event, files>> /\ pc = "current"
    BY <1>6 DEF CheckCurrent
  <2> SUFFICES ASSUME pc' = "hooks", rows[event].op = "set", ~External
               PROVE  DeletedAfter(rows[event].file, event) # {}
    BY <2>1 DEF DeletedAfter, External
  <2>2. event \in 0..last
    BY <2>1, Numbers DEF Position
  <2>3. event \in FileSerials(rows[event].file)
    BY <2>2 DEF FileSerials
  <2>4. ~HasKey(rows[event].file)
    BY <1>6 DEF CheckCurrent
  <2>5. PICK r \in FileSerials(rows[event].file) : rows[r].op = "del" /\ ~(r < event)
    BY <2>3, <2>4 DEF HasKey
  <2>6. r \in 0..last /\ rows[r].file = rows[event].file /\ r # event
    BY <2>5 DEF FileSerials
  <2>7. r \in event + 1..last
    BY <2>2, <2>5, <2>6
  <2> QED
    BY <2>5, <2>6, <2>7 DEF DeletedAfter
<1>7. CASE CallSubscriber
  BY <1>7 DEF CallSubscriber, DeletedAfter, External
<1>8. CASE UNCHANGED <<rows, last, event, files>> /\ (pc' = pc \/ pc' # "hooks")
  BY <1>8 DEF DeletedAfter, External
<1>9. CASE pc' # "hooks"
  BY <1>9
<1>10. \/ Commit \/ (\E f \in Files : FileAppears(f) \/ FileVanishes(f))
       \/ CheckConfig \/ CheckFile \/ CheckCurrent \/ CallSubscriber
       \/ UNCHANGED <<rows, last, event, files>> /\ (pc' = pc \/ pc' # "hooks")
       \/ pc' # "hooks"
  BY DEF Next, Tick, StartTick, NextEvent, WaitForCommit,
         CommitArrived, CheckFileFails, Retry,
         LockCondition, WriteEventSerial, WriteFails, NotifyAll, CallWait, EnterCondition,
         CheckCondition, Crash, vars
<1> QED
  BY <1>1, <1>2, <1>3, <1>4, <1>5, <1>6, <1>7, <1>8, <1>9, <1>10

-----------------------------------------------------------------------------
(* The invariant.                                                          *)

LEMMA InitIInv == Init => IInv
<1> SUFFICES ASSUME Init
             PROVE  IInv
  OBVIOUS
<1>1. TypeOK
  BY InitTypeOK
<1>2. Position /\ SubscribersFindFile
  BY DEF Init, Position, SubscribersFindFile
<1>3. /\ disk = -1 /\ last = -1 /\ pc = "start" /\ crashes = 0 /\ failures = 0
      /\ \A s \in 0..MaxSerial, i \in Subscribers : called[s][i] = 0
  BY DEF Init
<1>4. Calls
  BY <1>3 DEF Calls
<1>5. \A i \in Subscribers : Repeats(i) = {} /\ ~MayRepeat(i)
  BY <1>3, NotifierConstants DEF Repeats, MayRepeat
<1>6. RepeatsPaid
  BY <1>3, <1>5, FS_EmptySet DEF RepeatsPaid
<1>7. HasLastFileSerial
  BY <1>3 DEF HasLastFileSerial, FileSerials
<1> QED
  BY <1>1, <1>2, <1>4, <1>6, <1>7 DEF IInv

LEMMA StepIInv == IInv /\ [Next]_vars => IInv'
BY TypeStep, PositionStep, CallsStep, RepeatsPaidStep, HasLastStep, FindFileStep DEF IInv

\* Types, where the thread is compared with .event_serial, which subscribers have been
\* called, and how many repetitions the crashes so far account for.
THEOREM Invariance == Spec => []IInv
BY InitIInv, StepIInv, PTL DEF Spec

-----------------------------------------------------------------------------
(* The properties.                                                         *)

\* Every subscriber sees the serials in their order, none before all subscribers have
\* seen the earlier ones, through waits for files, timeouts and restarts.
THEOREM Order == Spec => []EventsInOrder
<1>1. ASSUME IInv
      PROVE  EventsInOrder
  <2> SUFFICES ASSUME NEW s \in 0..MaxSerial, NEW i \in Subscribers, called[s][i] > 0
               PROVE  /\ \A j \in 1..i - 1 : called[s][j] > 0
                      /\ \A r \in 0..s - 1, j \in Subscribers : called[r][j] > 0
    BY DEF EventsInOrder
  <2>1. Calls /\ TypeOK
    BY <1>1 DEF IInv
  <2>2. \A j \in 1..i - 1 : called[s][j] > 0
    BY <2>1 DEF Calls
  <2>3. s <= disk + 1
    <3>1. s > disk + 1 => called[s][i] = 0
      BY <2>1 DEF Calls
    <3> QED
      BY <2>1, <3>1, Numbers
  <2>4. \A r \in 0..s - 1 : r \in 0..MaxSerial /\ r <= disk
    BY <2>1, <2>3, Numbers
  <2> QED
    BY <2>1, <2>2, <2>4 DEF Calls
<1> QED
  BY <1>1, Invariance, PTL

\* What .event_serial says is processed has been seen by every subscriber.
THEOREM Processed == Spec => []NoEventDropped
<1>1. ASSUME IInv
      PROVE  NoEventDropped
  <2>1. Calls /\ TypeOK
    BY <1>1 DEF IInv
  <2>2. \A s \in 0..disk : s \in 0..MaxSerial /\ s <= disk
    BY <2>1, Numbers
  <2> QED
    BY <2>1, <2>2 DEF Calls, NoEventDropped
<1> QED
  BY <1>1, Invariance, PTL

\* A subscriber is called again for a serial at most as often as the process was killed
\* or .event_serial could not be written.
THEOREM Repetitions == Spec => []RepeatsExplained
<1>1. ASSUME IInv
      PROVE  RepeatsExplained
  <2> SUFFICES ASSUME NEW i \in Subscribers
               PROVE  Cardinality(Repeats(i)) <= crashes + failures
    BY DEF RepeatsExplained
  <2>1. /\ Cardinality(Repeats(i)) + (IF MayRepeat(i) THEN 1 ELSE 0) <= crashes + failures
        /\ TypeOK
    BY <1>1 DEF IInv, RepeatsPaid
  <2>2. Cardinality(Repeats(i)) \in Nat
    BY RepeatsFinite DEF Repeats
  <2> QED
    BY <2>1, <2>2, Numbers
<1> QED
  BY <1>1, Invariance, PTL

\* The subscribers of a serial find the file it stored, unless something later took it away.
THEOREM FilesFound == Spec => []SubscribersFindFile
<1>1. IInv => SubscribersFindFile
  BY DEF IInv
<1> QED
  BY <1>1, Invariance, PTL
=============================================================================
