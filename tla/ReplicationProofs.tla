--------------------------- MODULE ReplicationProofs ---------------------------
(***************************************************************************)
(* Proofs about Replication: for any number of servers and clients, and    *)
(* whatever breaks off or is killed, a replica has a prefix of the         *)
(* changelog of one server, reports itself in sync only when it is, and    *)
(* implements ChangelogCopy.                                               *)
(***************************************************************************)
EXTENDS Replication, TLAPS

\* The invariant holds before anything has been committed.
LEMMA InitIInv == Init => IInv
  <1> SUFFICES ASSUME Init PROVE IInv
    OBVIOUS
  <1>2. TypeOK
    <2>1. last \in [Servers -> Int] /\ \A s \in Servers : last[s] \in -1 .. MaxSerial
      BY ReplicationConstants DEF Init
    <2>2. copy \in Seq([by : Servers, serial : Nat])
      BY DEF Init
    <2>3. client \in [Clients -> [pc : {"none", "relayed", "waiting", "answered", "failed"},
                                  by : Servers, serial : Int]]
      BY ReplicationConstants DEF Init, NoCommit
    <2>4. /\ active \in Servers /\ moves \in 0 .. MaxMoves
          /\ known \in Servers \cup {NoServer} /\ crashes \in 0 .. MaxCrashes
          /\ pc \in {"idle", "asked", "blocked", "answered", "accepted", "importing"}
          /\ seen \in -1 .. MaxSerial
      BY ReplicationConstants DEF Init
    <2>6. primarySerial \in Int \cup {Unknown} /\ inSync \in BOOLEAN
      BY Zenon DEF Init
    <2>5. request \in [server : Servers, serial : Nat, expects : Servers \cup {NoServer},
                       asOf : Int]
      BY ReplicationConstants DEF Init, NoRequest
    <2>7. QED
      BY <2>1, <2>2, <2>3, <2>4, <2>5, <2>6 DEF TypeOK
  <1>3. OneHistory
    BY DEF Init, OneHistory
  <1>4. ExpectsKnown /\ Verified /\ SeenIsCommitted /\ AnsweredHasSerial
    BY DEF Init, ExpectsKnown, Verified, SeenIsCommitted, AnsweredHasSerial, NoCommit
  <1>5. QED
    BY <1>2, <1>3, <1>4 DEF IInv

\* Commits of a server keep the invariant, whatever happens to the clients meanwhile.
LEMMA ServersGrow ==
  ASSUME IInv, last' \in [Servers -> Int],
         \A s \in Servers : last[s] <= last'[s] /\ last'[s] \in -1 .. MaxSerial,
         UNCHANGED <<disk, fetching>>
  PROVE  ExpectsKnown' /\ Verified' /\ SeenIsCommitted' /\ OneHistory'
  <1>1. SeenIsCommitted'
    BY ReplicationConstants DEF IInv, TypeOK, SeenIsCommitted, fetching
  <1>2. OneHistory'
    BY DEF IInv, TypeOK, OneHistory, disk
  <1>3. QED
    BY <1>1, <1>2 DEF IInv, ExpectsKnown, Verified, disk, fetching

LEMMA CommitStep ==
  ASSUME IInv, NEW s \in Servers, Commit(s)
  PROVE  IInv'
  <1>1. /\ last' \in [Servers -> Int]
        /\ \A r \in Servers : last[r] <= last'[r] /\ last'[r] \in -1 .. MaxSerial
    BY ReplicationConstants DEF IInv, TypeOK, Commit
  <1>2. TypeOK'
    BY <1>1 DEF IInv, TypeOK, Commit, disk, fetching, status
  <1>3. AnsweredHasSerial'
    BY DEF IInv, AnsweredHasSerial, Commit, disk
  <1>4. QED
    BY <1>1, <1>2, <1>3, ServersGrow DEF IInv, Commit

LEMMA MoveStep ==
  ASSUME IInv, NEW s \in Servers, Move(s)
  PROVE  IInv'
  <1>1. TypeOK'
    BY ReplicationConstants DEF IInv, TypeOK, Move, disk, fetching, status
  <1>2. AnsweredHasSerial'
    BY DEF IInv, AnsweredHasSerial, Move, disk
  <1>3. ExpectsKnown' /\ Verified' /\ SeenIsCommitted' /\ OneHistory'
    BY DEF IInv, ExpectsKnown, Verified, SeenIsCommitted, OneHistory, Move, disk, fetching
  <1>4. QED
    BY <1>1, <1>2, <1>3 DEF IInv

\* A request which is over leaves the invariant true, as long as the rows and the UUID stay.
LEMMA DoneStep ==
  ASSUME IInv, Done, UNCHANGED <<primary, disk, crashes, client>>,
         primarySerial' \in Int \cup {Unknown}, inSync' \in BOOLEAN
  PROVE  IInv'
  <1>1. TypeOK'
    BY ReplicationConstants DEF IInv, TypeOK, Done, NoRequest, primary, disk
  <1>2. ExpectsKnown' /\ Verified' /\ SeenIsCommitted'
    BY DEF Done, ExpectsKnown, Verified, SeenIsCommitted
  <1>3. OneHistory' /\ AnsweredHasSerial'
    BY DEF IInv, OneHistory, AnsweredHasSerial, primary, disk
  <1>4. QED
    BY <1>1, <1>2, <1>3 DEF IInv

\* update_primary_serial keeps the types.
LEMMA UpdateType ==
  ASSUME TypeOK, NEW serial \in Int, NEW b \in BOOLEAN, UpdatePrimarySerial(serial, b)
  PROVE  primarySerial' \in Int \cup {Unknown} /\ inSync' \in BOOLEAN
  BY DEF TypeOK, UpdatePrimarySerial

\* The steps which end a request.
LEMMA EndStep ==
  ASSUME IInv, Refuse \/ FetchFails \/ ReceiveAccepted \/ ResponseEnds \/ HandlerFails
  PROVE  IInv'
  <1>1. CASE Refuse \/ FetchFails \/ HandlerFails
    BY <1>1, DoneStep DEF IInv, TypeOK, Refuse, FetchFails, HandlerFails, status, disk
  <1>2. CASE ReceiveAccepted \/ ResponseEnds
    <2>1. seen \in Int /\ TypeOK
      BY DEF IInv, TypeOK
    <2>2. UpdatePrimarySerial(seen, TRUE) /\ Done /\ UNCHANGED <<primary, disk, crashes, client>>
      BY <1>2 DEF ReceiveAccepted, ResponseEnds
    <2>3. QED
      BY <2>1, <2>2, UpdateType, DoneStep
  <1>3. QED
    BY <1>1, <1>2

\* The steps of a request which is on its way.
LEMMA RequestStep ==
  ASSUME IInv, Tick \/ Answer \/ Block \/ Unblock \/ TimeOut
  PROVE  IInv'
  <1> USE DEF IInv
  <1>1. UNCHANGED <<primary, disk, status, crashes, client>>
    BY DEF Tick, Answer, Block, Unblock, TimeOut
  <1>2. OneHistory' /\ AnsweredHasSerial'
    BY <1>1 DEF OneHistory, AnsweredHasSerial, primary, disk
  <1>3. CASE Tick
    <2>1. NextSerial \in Nat
      BY DEF TypeOK, NextSerial
    <2>2. TypeOK'
      BY <1>1, <1>3, <2>1, ReplicationConstants
         DEF TypeOK, Tick, primary, disk, status
    <2>3. ExpectsKnown' /\ Verified' /\ SeenIsCommitted'
      BY <1>1, <1>3 DEF TypeOK, Tick, ExpectsKnown, Verified, SeenIsCommitted, primary, disk
    <2>4. QED
      BY <1>2, <2>2, <2>3
  <1>4. CASE Answer \/ Block
    <2>1. TypeOK'
      BY <1>1, <1>4 DEF TypeOK, Answer, Block, primary, disk, status
    <2>2. ExpectsKnown' /\ Verified'
      BY <1>1, <1>4 DEF Answer, Block, WrongPrimary, ExpectsKnown, Verified, disk
    <2>3. SeenIsCommitted'
      BY <1>1, <1>4 DEF TypeOK, Answer, Block, SeenIsCommitted, primary
    <2>4. QED
      BY <1>2, <2>1, <2>2, <2>3
  <1>5. CASE Unblock \/ TimeOut
    <2>1. TypeOK'
      BY <1>1, <1>5 DEF TypeOK, Unblock, TimeOut, primary, disk, status
    <2>2. ExpectsKnown' /\ Verified' /\ SeenIsCommitted'
      BY <1>1, <1>5 DEF Unblock, TimeOut, ExpectsKnown, Verified, SeenIsCommitted, primary, disk
    <2>3. QED
      BY <1>2, <2>1, <2>2
  <1>6. QED
    BY <1>3, <1>4, <1>5

\* The UUID is recorded: it is that of the server asked, and there are no rows of another one.
LEMMA ReceiveStep ==
  ASSUME IInv, ReceiveChanges
  PROVE  IInv'
  <1> USE DEF IInv
  <1>1. /\ pc = "answered" /\ pc' = "importing" /\ request.server \in Servers
        /\ UNCHANGED <<primary, copy, request, seen, crashes, client>>
    BY DEF ReceiveChanges, TypeOK
  <1>2. known' = request.server
    BY <1>1 DEF Verified, ReceiveChanges
  <1>3. TypeOK'
    <2>1. UpdatePrimarySerial(seen, TRUE)
      BY DEF ReceiveChanges
    <2>2. seen \in Int
      BY DEF TypeOK
    <2>3. primarySerial' \in Int \cup {Unknown} /\ inSync' \in BOOLEAN
      BY <2>1, <2>2, UpdateType
    <2>4. QED
      BY <1>1, <1>2, <2>3 DEF TypeOK, primary
  <1>4. ExpectsKnown' /\ Verified' /\ SeenIsCommitted'
    BY <1>1, <1>2 DEF ExpectsKnown, Verified, SeenIsCommitted, primary
  <1>5. OneHistory'
    <2>1. CASE known = NoServer
      <3>1. copy = <<>> /\ copy' = <<>>
        BY <1>1, <2>1, ReplicationConstants DEF OneHistory
      <3>2. QED
        BY <3>1 DEF OneHistory
    <2>2. CASE known = request.server
      BY <1>1, <1>2, <2>2 DEF OneHistory, primary
    <2>3. QED
      BY <1>1, <2>1, <2>2 DEF Verified
  <1>6. AnsweredHasSerial'
    BY <1>1 DEF AnsweredHasSerial
  <1>7. QED
    BY <1>3, <1>4, <1>5, <1>6

\* The next row of the server whose UUID is recorded.
LEMMA ImportStep ==
  ASSUME IInv, ImportNext
  PROVE  IInv'
  <1> USE DEF IInv
  <1>1. /\ pc = "importing" /\ known = request.server /\ known \in Servers
        /\ NextSerial \in Nat /\ NextSerial = Len(copy) /\ request.serial = NextSerial
        /\ NextSerial <= last[known] /\ last[known] \in Int
        /\ UNCHANGED <<primary, known, pc, seen, inSync, crashes, client>>
    BY ReplicationConstants
       DEF ImportNext, TypeOK, Verified, SeenIsCommitted, NextSerial
  <1> DEFINE row == [by |-> known, serial |-> Len(copy)]
  <1>2. /\ row \in [by : Servers, serial : Nat]
        /\ copy' = Append(copy, row) /\ Len(copy') = Len(copy) + 1
        /\ copy' \in Seq([by : Servers, serial : Nat])
        /\ \A i \in 1 .. Len(copy) : copy'[i] = copy[i]
        /\ copy'[Len(copy) + 1] = row
    BY <1>1 DEF ImportNext, TypeOK
  <1>3. request' = [request EXCEPT !.serial = @ + 1]
    BY DEF ImportNext
  <1>4. TypeOK'
    <2>1. primarySerial' \in Int \cup {Unknown}
      BY <1>1 DEF ImportNext, TypeOK
    <2>2. request' \in [server : Servers, serial : Nat, expects : Servers \cup {NoServer},
                        asOf : Int]
      <3>1. request.serial + 1 \in Nat
        BY <1>1
      <3>2. QED
        BY <1>3, <3>1 DEF TypeOK
    <2>3. QED
      BY <1>1, <1>2, <2>1, <2>2 DEF TypeOK, primary
  <1>5. ExpectsKnown' /\ Verified' /\ SeenIsCommitted'
    BY <1>1, <1>3 DEF TypeOK, ExpectsKnown, Verified, SeenIsCommitted, primary
  <1>6. OneHistory'
    <2>1. Len(copy') <= last'[known'] + 1 /\ known' \in Servers
      BY <1>1, <1>2 DEF primary
    <2>2. ASSUME NEW i \in 1 .. Len(copy) + 1
          PROVE  copy'[i] = [by |-> known', serial |-> i - 1]
      <3>1. CASE i = Len(copy) + 1
        BY <1>1, <1>2, <3>1
      <3>2. CASE i # Len(copy) + 1
        <4>1. i \in 1 .. Len(copy)
          BY <1>1, <3>2
        <4>2. i \in DOMAIN copy
          BY <4>1 DEF TypeOK
        <4>3. copy[i] = [by |-> known, serial |-> i - 1]
          BY <4>2 DEF OneHistory
        <4>4. QED
          BY <1>1, <1>2, <4>1, <4>3
      <3>3. QED
        BY <3>1, <3>2
    <2>3. DOMAIN copy' = 1 .. Len(copy) + 1
      BY <1>1, <1>2
    <2>4. QED
      BY <2>1, <2>2, <2>3 DEF OneHistory
  <1>7. AnsweredHasSerial'
    BY <1>1, <1>2 DEF TypeOK, AnsweredHasSerial
  <1>8. QED
    BY <1>4, <1>5, <1>6, <1>7

\* Writes passed on: a client is answered when the replica has its serial.
LEMMA ProxyStep ==
  ASSUME IInv, NEW c \in Clients, ProxyWrite(c) \/ Proxy(c)
  PROVE  IInv'
  <1> USE DEF IInv
  <1>1. CASE ProxyWrite(c)
    <2>1. PICK commits \in {TRUE, FALSE} :
            /\ commits => last[active] < MaxSerial
            /\ last' = IF commits THEN [last EXCEPT ![active] = @ + 1] ELSE last
            /\ client' = [client EXCEPT ![c] =
                    [pc |-> "relayed", by |-> active, serial |-> last'[active]]]
      BY <1>1 DEF ProxyWrite
    <2>2. /\ last' \in [Servers -> Int]
          /\ \A r \in Servers : last[r] <= last'[r] /\ last'[r] \in -1 .. MaxSerial
      BY <2>1, ReplicationConstants DEF TypeOK
    <2>3. UNCHANGED <<active, moves, disk, fetching, status, crashes>>
      BY <1>1 DEF ProxyWrite
    <2>4. TypeOK'
      BY <2>1, <2>2, <2>3 DEF TypeOK, disk, fetching, status
    <2>5. AnsweredHasSerial'
      BY <2>1, <2>3 DEF TypeOK, AnsweredHasSerial, disk
    <2>6. QED
      BY <2>2, <2>3, <2>4, <2>5, ServersGrow
  <1>2. CASE Proxy(c)
    <2>1. UNCHANGED <<primary, disk, fetching, status, crashes>>
      BY <1>2 DEF Proxy, ProxyFails, ProxyReceives, ProxyAnswers
    <2>2. PICK there \in {"failed", "waiting", "answered"} :
            /\ client' = [client EXCEPT ![c].pc = there]
            /\ there = "answered" => client[c].serial <= CurrentSerial
      BY <1>2 DEF Proxy, ProxyFails, ProxyReceives, ProxyAnswers
    <2>3. TypeOK'
      BY <2>1, <2>2 DEF TypeOK, primary, disk, fetching, status
    <2>4. AnsweredHasSerial'
      BY <2>1, <2>2 DEF TypeOK, AnsweredHasSerial, CurrentSerial, disk
    <2>5. ExpectsKnown' /\ Verified' /\ SeenIsCommitted' /\ OneHistory'
      BY <2>1 DEF ExpectsKnown, Verified, SeenIsCommitted, OneHistory, primary, disk, fetching
    <2>6. QED
      BY <2>3, <2>4, <2>5
  <1>3. QED
    BY <1>1, <1>2

\* A kill of the replica: the rows and the UUID are on its disk.
LEMMA CrashStep ==
  ASSUME IInv, Crash
  PROVE  IInv'
  <1> USE DEF IInv
  <1>1. TypeOK'
    <2>1. client' \in [Clients -> [pc : {"none", "relayed", "waiting", "answered", "failed"},
                                   by : Servers, serial : Int]]
      BY DEF Crash, TypeOK
    <2>2. inSync' \in BOOLEAN /\ primarySerial' \in Int \cup {Unknown}
      BY Zenon DEF Crash
    <2>3. /\ crashes' \in 0 .. MaxCrashes
          /\ pc' = "idle" /\ request' = NoRequest /\ seen' = -1
          /\ UNCHANGED <<primary, disk>>
      BY ReplicationConstants DEF Crash, TypeOK, Done
    <2>4. request' \in [server : Servers, serial : Nat, expects : Servers \cup {NoServer},
                        asOf : Int]
      BY <2>3, ReplicationConstants DEF NoRequest
    <2>5. QED
      BY <2>1, <2>2, <2>3, <2>4, ReplicationConstants DEF TypeOK, primary, disk
  <1>2. ExpectsKnown' /\ Verified' /\ SeenIsCommitted'
    BY DEF Crash, Done, ExpectsKnown, Verified, SeenIsCommitted
  <1>3. OneHistory'
    BY DEF Crash, OneHistory, primary, disk
  <1>4. AnsweredHasSerial'
    BY DEF Crash, TypeOK, AnsweredHasSerial, disk
  <1>5. QED
    BY <1>1, <1>2, <1>3, <1>4

LEMMA NextIInv == IInv /\ [Next]_vars => IInv'
  <1>1. SUFFICES ASSUME IInv, [Next]_vars PROVE IInv'
    OBVIOUS
  <1>2. CASE UNCHANGED vars
    BY <1>1, <1>2 DEF IInv, TypeOK, ExpectsKnown, Verified, SeenIsCommitted, OneHistory,
                      AnsweredHasSerial, vars
  <1>3. CASE \E s \in Servers : Commit(s) \/ Move(s)
    BY <1>1, <1>3, CommitStep, MoveStep
  <1>4. CASE Thread
    BY <1>1, <1>4, EndStep, RequestStep, ReceiveStep, ImportStep DEF Thread
  <1>5. CASE \E c \in Clients : ProxyWrite(c) \/ Proxy(c)
    BY <1>1, <1>5, ProxyStep
  <1>6. CASE Crash
    BY <1>1, <1>6, CrashStep
  <1>7. QED
    BY <1>1, <1>2, <1>3, <1>4, <1>5, <1>6 DEF Next

THEOREM Invariance == Spec => []IInv
  <1>1. QED
    BY InitIInv, NextIInv, PTL DEF Spec

\* A replica has a prefix of the changelog of the server whose UUID it has recorded.
THEOREM PrefixOfOne == Spec => []OneHistory
  <1>1. IInv => OneHistory
    BY DEF IInv
  <1>2. QED
    BY <1>1, Invariance, PTL

\* A write which was answered through the replica can be read from it.
THEOREM WritesAreRead == Spec => []ReadYourWrites
  <1>1. ASSUME IInv, NEW c \in Clients,
               client[c].pc = "answered", client[c].by = known, client[c].serial >= 0
        PROVE  /\ client[c].serial < Len(copy)
               /\ copy[client[c].serial + 1] = [by |-> client[c].by, serial |-> client[c].serial]
    <2>1. /\ client[c].serial < Len(copy) /\ client[c].serial \in Int
          /\ copy \in Seq([by : Servers, serial : Nat])
      BY <1>1 DEF IInv, TypeOK, AnsweredHasSerial
    <2>2. client[c].serial + 1 \in DOMAIN copy
      BY <1>1, <2>1
    <2>3. QED
      BY <1>1, <2>1, <2>2 DEF IInv, OneHistory
  <1>2. IInv => ReadYourWrites
    BY <1>1 DEF ReadYourWrites
  <1>3. QED
    BY <1>2, Invariance, PTL

\* Only the handling of a response makes the replica say that it is in sync.
LEMMA SyncStep ==
  ASSUME IInv, [Next]_vars, inSync', ~inSync
  PROVE  request.asOf <= Len(copy') - 1
  <1>1. CASE ReceiveChanges \/ ReceiveAccepted \/ ResponseEnds
    <2>1. UpdatePrimarySerial(seen, TRUE) /\ UNCHANGED copy
      BY <1>1 DEF ReceiveChanges, ReceiveAccepted, ResponseEnds, disk
    <2>2. CurrentSerial = seen
      BY <2>1 DEF UpdatePrimarySerial
    <2>3. request.asOf <= seen
      BY <1>1 DEF IInv, SeenIsCommitted, ReceiveChanges, ReceiveAccepted, ResponseEnds
    <2>4. QED
      BY <2>1, <2>2, <2>3 DEF CurrentSerial
  <1>2. CASE ~(ReceiveChanges \/ ReceiveAccepted \/ ResponseEnds)
    <2>1. UNCHANGED inSync \/ ~inSync'
      BY <1>2 DEF Next, Thread, Proxy, Commit, Move, Tick, Refuse, Answer, Block, Unblock,
                  TimeOut, FetchFails, ImportNext, HandlerFails, ProxyWrite, ProxyReceives,
                  ProxyFails, ProxyAnswers, Crash, status, vars
    <2>2. QED
      BY <2>1
  <1>3. QED
    BY <1>1, <1>2

\* A replica says that it is in sync only when it has all its primary had at the request.
THEOREM InSyncIsTrue == Spec => InSyncSound
  <1>1. IInv /\ [Next]_vars => (inSync' /\ ~inSync => request.asOf <= Len(copy') - 1)
    BY SyncStep
  <1>2. QED
    BY <1>1, Invariance, PTL DEF Spec, InSyncSound

\* Every step commits a row of a server, chooses the server, copies its next row, or does
\* nothing to these.
LEMMA CopyStep ==
  ASSUME IInv, [Next]_vars
  PROVE  [Copying!Next]_(Copying!vars)
  <1> USE DEF IInv
  <1>1. ASSUME NEW s \in Servers, last' = [last EXCEPT ![s] = @ + 1], UNCHANGED disk
        PROVE  Copying!Next
    BY <1>1 DEF Copying!Next, Copying!Commit, disk
  <1>2. CASE \E s \in Servers : Commit(s)
    BY <1>1, <1>2 DEF Commit
  <1>3. CASE \E c \in Clients : ProxyWrite(c)
    <2>1. PICK c \in Clients : ProxyWrite(c)
      BY <1>3
    <2>2. /\ last' = [last EXCEPT ![active] = @ + 1] \/ UNCHANGED last
          /\ active \in Servers /\ UNCHANGED disk
      BY <2>1 DEF ProxyWrite, TypeOK
    <2>3. QED
      BY <1>1, <2>2 DEF Copying!vars, disk
  <1>4. CASE ReceiveChanges
    <2>1. request.server \in Servers /\ UNCHANGED <<last, copy>>
      BY <1>4 DEF ReceiveChanges, TypeOK, primary
    <2>2. CASE known = NoServer
      BY <1>4, <2>1, <2>2 DEF ReceiveChanges, Copying!Next, Copying!Choose
    <2>3. CASE known # NoServer
      BY <1>4, <2>1, <2>3 DEF ReceiveChanges, Copying!vars
    <2>4. QED
      BY <2>2, <2>3
  <1>5. CASE ImportNext
    <2>1. known = request.server /\ known \in Servers /\ UNCHANGED <<last, known>>
      BY <1>5 DEF ImportNext, TypeOK, Verified, primary
    <2>2. Len(copy) <= last[known]
      BY <1>5, <2>1, ReplicationConstants
         DEF ImportNext, TypeOK, SeenIsCommitted, NextSerial
    <2>3. copy' = Append(copy, [by |-> known, serial |-> Len(copy)])
      BY <1>5, <2>1 DEF ImportNext, NextSerial
    <2>4. QED
      BY <2>1, <2>2, <2>3 DEF Copying!Next, Copying!Import
  <1>6. CASE UNCHANGED <<last, known, copy>>
    BY <1>6 DEF Copying!vars
  <1>7. \/ \E s \in Servers : Commit(s)
        \/ \E c \in Clients : ProxyWrite(c)
        \/ ReceiveChanges \/ ImportNext
        \/ UNCHANGED <<last, known, copy>>
    BY DEF Next, Thread, Proxy, Move, Tick, Refuse, Answer, Block, Unblock, TimeOut,
           FetchFails, ReceiveAccepted, ResponseEnds, HandlerFails, ProxyReceives,
           ProxyFails, ProxyAnswers, Crash, primary, disk, vars
  <1>8. QED
    BY <1>2, <1>3, <1>4, <1>5, <1>6, <1>7

\* Replication implements the abstract copy: a replica chooses one server once and copies
\* its changelog row after row, whatever polls, responses, kills and proxied writes do.
THEOREM CopiesOneServer == Spec => ImplementsCopy
  <1>1. Init => Copying!Init
    BY DEF Init, Copying!Init
  <1>2. IInv /\ [Next]_vars => [Copying!Next]_(Copying!vars)
    BY CopyStep
  <1>3. QED
    BY <1>1, <1>2, Invariance, PTL DEF Spec, ImplementsCopy, Copying!Spec
=============================================================================
