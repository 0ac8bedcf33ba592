------------------------------ MODULE Notifier ------------------------------
(***************************************************************************)
(* The notification thread of devpi-server: class TxNotificationThread in  *)
(* server/devpi_server/keyfs.py.                                           *)
(*                                                                         *)
(* Every committed serial is an event.  The thread goes through the events *)
(* in order and calls the subscribers (plugins, the search index, the      *)
(* EventSubscribers of model.py) for each of them, then stores the serial  *)
(* in the file .event_serial.  Before it calls the subscribers of a serial *)
(* it makes sure that the release files the serial brought are there: the  *)
(* commit of a transaction becomes visible before its files do (module     *)
(* FileCommit), and a replica downloads them later.  Other threads wait    *)
(* with wait_event_serial until a serial has been processed.               *)
(*                                                                         *)
(* Storing the serial may fail; reading it gives what was stored last:     *)
(* .event_serial is replaced by a rename, and that an existing file cannot *)
(* be opened (read_int_from_file would return 0) is not modelled.          *)
(***************************************************************************)
EXTENDS Integers, FiniteSets

CONSTANTS
    Files,          \* release files (keys STAGEFILE and PYPIFILE_NOMD5) of an index
    Waiters,        \* threads which call wait_event_serial
    Ops,            \* what the commits of this instance do, see Row
    NumSubscribers, \* subscribers called for every serial
    MaxSerial,      \* bound: no commit beyond this serial
    MaxCrashes,     \* bound: the process is killed at most that often
    MaxFailures,    \* bound: .event_serial cannot be written at most that often
    Nobody,         \* the lock of cv_new_event_serial is free
    NotifierThread  \* the notification thread as the owner of that lock

ASSUME NotifierConstants ==
    /\ NumSubscribers \in Nat \ {0}
    /\ MaxSerial \in Nat /\ MaxCrashes \in Nat /\ MaxFailures \in Nat
    /\ Ops \subseteq {"set", "del", "delfile", "external", "plain"}
    /\ Nobody \notin Waiters /\ NotifierThread \notin Waiters
    /\ Nobody # NotifierThread

\* What a serial does to a release file: "set" stores or downloads it, "del" deletes
\* the file and its key, "delfile" deletes the file of a mirror and keeps its key.
\* "external" switches the index of the files to mirror_use_external_urls, "plain"
\* is any other commit.
Row == [op : Ops, file : Files]
Subscribers == 1..NumSubscribers

VARIABLES
    rows,           \* the changes of every committed serial
    last,           \* the current serial
    files,          \* the release files which exist on disk
    disk,           \* event serial in the file .event_serial
    pc,             \* where the notification thread is
    event,          \* its local event_serial
    next,           \* the subscriber it calls next
    cv,             \* owner of the lock of cv_new_event_serial
    wpc,            \* "idle", "enter", "check" or "parked" in wait_event_serial
    target,         \* the serial a thread waits for
    crashes,        \* how often the process was killed
    failures,       \* how often the event serial could not be stored
    called          \* history: how often a subscriber was called for a serial

store == <<rows, last, files>>
thread == <<pc, event, next>>
waiting == <<wpc, target>>
vars == <<rows, last, files, disk, pc, event, next, cv, wpc, target, crashes, failures,
          called>>

Init ==
    /\ rows = [s \in {} |-> <<>>]
    /\ last = -1
    /\ files = {}
    /\ disk = -1
    /\ pc = "start" /\ event = -1 /\ next = 1
    /\ cv = Nobody
    /\ wpc = [w \in Waiters |-> "idle"]
    /\ target = [w \in Waiters |-> -1]
    /\ crashes = 0 /\ failures = 0
    /\ called = [s \in 0..MaxSerial |-> [i \in Subscribers |-> 0]]

-----------------------------------------------------------------------------
(* The rest of the server: commits and the files they bring or remove.     *)

\* Serials after s which delete f, with its key or without.
DeletedAfter(f, s) ==
    {r \in s + 1..last : rows[r].op \in {"del", "delfile"} /\ rows[r].file = f}

FileSerials(f) ==
    {s \in 0..last : rows[s].file = f /\ rows[s].op \in {"set", "del", "delfile"}}

\* The last transaction which touched the file of f stored it.
Expected(f) ==
    \E s \in FileSerials(f) :
        rows[s].op = "set" /\ \A r \in FileSerials(f) : r <= s

\* The key of f was set and not deleted since.
HasKey(f) ==
    \E s \in FileSerials(f) :
        /\ rows[s].op = "set"
        /\ \A r \in FileSerials(f) : rows[r].op = "del" => r < s

\* The index the files belong to redirects to external URLs.
External == \E s \in 0..last : rows[s].op = "external"

\* Only what is there can be deleted.
Possible(r) ==
    /\ r.op = "del" => HasKey(r.file)
    /\ r.op = "delfile" => Expected(r.file)
    /\ r.op = "external" => ~External

\* Transaction.commit of any thread.
Commit ==
    /\ last < MaxSerial
    /\ last' = last + 1
    /\ \E r \in Row :
        /\ Possible(r)
        /\ rows' = [s \in 0..last + 1 |-> IF s = last + 1 THEN r ELSE rows[s]]
    /\ UNCHANGED <<files, disk, thread, cv, waiting, crashes, failures, called>>

\* The renames after the commit, or the download of a replica.
FileAppears(f) ==
    /\ Expected(f) /\ f \notin files
    /\ files' = files \cup {f}
    /\ UNCHANGED <<rows, last, disk, thread, cv, waiting, crashes, failures, called>>

\* The removals after the commit.
FileVanishes(f) ==
    /\ ~Expected(f) /\ f \in files
    /\ files' = files \ {f}
    /\ UNCHANGED <<rows, last, disk, thread, cv, waiting, crashes, failures, called>>

-----------------------------------------------------------------------------
(* TxNotificationThread.tick                                               *)

Goto(label) == pc' = label /\ UNCHANGED <<store, cv, waiting, crashes, failures>>

\* Mutant: the thread starts with the events after the current serial.
StartTickAtLast ==
    /\ pc = "start"
    /\ event' = last
    /\ Goto("loop")
    /\ UNCHANGED <<disk, next, called>>

StartTick ==
    /\ pc = "start"
    /\ event' = disk
    /\ Goto("loop")
    /\ UNCHANGED <<disk, next, called>>

\* while event_serial < get_current_serial()
NextEvent ==
    /\ pc = "loop"
    /\ event < last
    /\ event' = event + 1
    /\ Goto("config")
    /\ UNCHANGED <<disk, next, called>>

\* Nothing left: wait_tx_serial returns once there is a later serial.  It looks again
\* every 0.1 seconds, whether it was notified or not.
WaitForCommit ==
    /\ pc = "loop"
    /\ event >= last
    /\ Goto("wait")
    /\ UNCHANGED <<event, next, disk, called>>

CommitArrived ==
    /\ pc = "wait"
    /\ last > event
    /\ event' = -1
    /\ Goto("start")
    /\ UNCHANGED <<next, disk, called>>

\* The first loop of _execute_hooks, one read after the other.  The serial has no file,
\* or has removed it; or its index has external URLs now.
CheckConfig ==
    /\ pc = "config"
    /\ Goto(IF rows[event].op = "set" /\ ~External THEN "exists" ELSE "hooks")
    /\ next' = 1
    /\ UNCHANGED <<event, disk, called>>

\* Mutant: a missing file is only logged.
CheckFileOnlyLogs ==
    /\ pc = "exists"
    /\ Goto("hooks")
    /\ UNCHANGED <<event, next, disk, called>>

\* entry.file_exists() in a filestore_transaction.
CheckFile ==
    /\ pc = "exists"
    /\ Goto(IF rows[event].file \in files THEN "hooks" ELSE "current")
    /\ UNCHANGED <<event, next, disk, called>>

\* The filestore_transaction needs the write lock of the database: KeyfsTimeoutError.
\* thread_run catches it.
CheckFileFails ==
    /\ pc = "exists"
    /\ Goto("sleep")
    /\ UNCHANGED <<event, next, disk, called>>

\* Mutant: the current state of the entry is not looked at.
CheckCurrentNever ==
    /\ pc = "current"
    /\ Goto("sleep")
    /\ UNCHANGED <<event, next, disk, called>>

\* The file is missing.  When there are newer serials, it does not matter if the key has
\* been deleted or the index has external URLs by now; else MissingFileException.
CheckCurrent ==
    /\ pc = "current"
    /\ Goto(IF event < last /\ (~HasKey(rows[event].file) \/ External)
            THEN "hooks" ELSE "sleep")
    /\ UNCHANGED <<event, next, disk, called>>

\* thread_run: MissingFileException or any other exception; tick is called again.
Retry ==
    /\ pc = "sleep"
    /\ event' = -1
    /\ Goto("start")
    /\ UNCHANGED <<next, disk, called>>

\* The second loop of _execute_hooks.  Exceptions of a subscriber are logged.
CallSubscriber ==
    /\ pc = "hooks"
    /\ called' = [called EXCEPT ![event][next] = @ + 1]
    /\ next' = IF next = NumSubscribers THEN 1 ELSE next + 1
    /\ Goto(IF next = NumSubscribers THEN "lock" ELSE "hooks")
    /\ UNCHANGED <<event, disk>>

\* with self.cv_new_event_serial
LockCondition ==
    /\ pc = "lock" /\ cv = Nobody
    /\ cv' = NotifierThread
    /\ pc' = "write"
    /\ UNCHANGED <<store, disk, event, next, waiting, crashes, failures, called>>

\* Mutant: the serial is stored one too low.
WriteEventSerialOffByOne ==
    /\ pc = "write"
    /\ disk' = event - 1
    /\ Goto("notify")
    /\ UNCHANGED <<event, next, called>>

\* Mutant: everything committed so far counts as processed.
WriteCurrentSerial ==
    /\ pc = "write"
    /\ disk' = last
    /\ Goto("notify")
    /\ UNCHANGED <<event, next, called>>

\* write_event_serial, a rename of the file.
WriteEventSerial ==
    /\ pc = "write"
    /\ disk' = event
    /\ Goto("notify")
    /\ UNCHANGED <<event, next, called>>

\* An OSError while the file is written leaves the old one.  The condition is released,
\* thread_run catches the error, and tick begins again from what is stored.
WriteFails ==
    /\ pc = "write"
    /\ failures < MaxFailures
    /\ failures' = failures + 1
    /\ pc' = "sleep"
    /\ cv' = Nobody
    /\ UNCHANGED <<store, disk, event, next, waiting, crashes, called>>

\* Mutant: nobody is notified.
ReleaseOnly ==
    /\ pc = "notify"
    /\ cv' = Nobody
    /\ pc' = "loop"
    /\ UNCHANGED <<store, disk, event, next, waiting, crashes, failures, called>>

\* notify_all, and the lock is released.
NotifyAll ==
    /\ pc = "notify"
    /\ wpc' = [w \in Waiters |-> IF wpc[w] = "parked" THEN "enter" ELSE wpc[w]]
    /\ cv' = Nobody
    /\ pc' = "loop"
    /\ UNCHANGED <<store, disk, event, next, target, crashes, failures, called>>

-----------------------------------------------------------------------------
(* wait_event_serial                                                       *)

\* A thread waits for a serial which has been committed.
CallWait(w) ==
    /\ wpc[w] = "idle"
    /\ \E s \in 0..last : target' = [target EXCEPT ![w] = s]
    /\ wpc' = [wpc EXCEPT ![w] = "enter"]
    /\ UNCHANGED <<store, disk, thread, cv, crashes, failures, called>>

\* The lock is taken, on the way in and again when wait() returns.
EnterCondition(w) ==
    /\ wpc[w] = "enter" /\ cv = Nobody
    /\ cv' = w
    /\ wpc' = [wpc EXCEPT ![w] = "check"]
    /\ UNCHANGED <<store, disk, thread, target, crashes, failures, called>>

\* while serial > self.read_event_serial(): wait(), which releases the lock.
CheckCondition(w) ==
    /\ wpc[w] = "check"
    /\ wpc' = [wpc EXCEPT ![w] = IF target[w] > disk THEN "parked" ELSE "idle"]
    /\ target' = [target EXCEPT ![w] = IF @ > disk THEN @ ELSE -1]
    /\ cv' = Nobody
    /\ UNCHANGED <<store, disk, thread, crashes, failures, called>>

-----------------------------------------------------------------------------
\* The process is killed and started again; the databases and the files remain.
Crash ==
    /\ crashes < MaxCrashes
    /\ crashes' = crashes + 1
    /\ pc' = "start" /\ event' = -1 /\ next' = 1
    /\ cv' = Nobody
    /\ wpc' = [w \in Waiters |-> "idle"]
    /\ target' = [w \in Waiters |-> -1]
    /\ UNCHANGED <<store, disk, failures, called>>

Tick ==
    \/ StartTick \/ NextEvent \/ WaitForCommit \/ CommitArrived
    \/ CheckConfig \/ CheckFile \/ CheckFileFails \/ CheckCurrent \/ Retry
    \/ CallSubscriber \/ LockCondition \/ WriteEventSerial \/ WriteFails \/ NotifyAll

Next ==
    \/ Commit
    \/ \E f \in Files : FileAppears(f) \/ FileVanishes(f)
    \/ Tick
    \/ \E w \in Waiters : CallWait(w) \/ EnterCondition(w) \/ CheckCondition(w)
    \/ Crash

\* The threads run, a lock which is released again and again is obtained, the database
\* does not time out for ever, and a file a serial has stored arrives in the end,
\* unless its index has external URLs.
Fairness ==
    /\ WF_vars(Tick) /\ SF_vars(CheckFile) /\ SF_vars(LockCondition)
    /\ \A w \in Waiters : SF_vars(EnterCondition(w)) /\ WF_vars(CheckCondition(w))
    /\ \A f \in Files : WF_vars(FileAppears(f) /\ ~External)

Spec == Init /\ [][Next]_vars /\ Fairness

-----------------------------------------------------------------------------
(* Properties.                                                             *)

TypeOK ==
    /\ last \in -1..MaxSerial
    /\ rows \in [0..last -> Row]
    /\ files \subseteq Files
    /\ disk \in -1..last
    /\ pc \in {"start", "loop", "wait", "config", "exists", "current", "sleep",
               "hooks", "lock", "write", "notify"}
    /\ event \in -1..last
    /\ next \in Subscribers
    /\ cv \in Waiters \cup {Nobody, NotifierThread}
    /\ wpc \in [Waiters -> {"idle", "enter", "check", "parked"}]
    /\ target \in [Waiters -> -1..last]
    /\ crashes \in 0..MaxCrashes
    /\ failures \in 0..MaxFailures
    /\ called \in [0..MaxSerial -> [Subscribers -> Nat]]

\* The subscribers see the events in the order of their serials: none is called for a
\* serial before all of them have been called for every earlier serial, whatever
\* was retried or restarted in between.
EventsInOrder ==
    \A s \in 0..MaxSerial, i \in Subscribers :
        called[s][i] > 0 =>
            /\ \A j \in 1..i - 1 : called[s][j] > 0
            /\ \A r \in 0..s - 1, j \in Subscribers : called[r][j] > 0

\* A serial is only recorded as processed, and waiting threads only told so, when every
\* subscriber has been called for it: a crash or an error repeats an event but never
\* drops one.
NoEventDropped ==
    \A s \in 0..disk, i \in Subscribers : called[s][i] > 0

\* The calls of a subscriber beyond the first, serial by serial.
Repeats(i) ==
    {r \in (0..MaxSerial) \X (2..MaxCrashes + MaxFailures + 2) : called[r[1]][i] >= r[2]}

\* A subscriber is called again for a serial only because the process was killed, or
\* because the serial could not be stored, each time for one serial at most.  Waiting
\* for a missing file, timeouts of the database and other errors repeat nothing.
RepeatsExplained ==
    \A i \in Subscribers : Cardinality(Repeats(i)) <= crashes + failures

\* When the subscribers are called for a serial which has stored a file, the file is
\* there, or a later serial has deleted it or made its index use external URLs.
SubscribersFindFile ==
    pc = "hooks" /\ rows[event].op = "set" =>
        \/ rows[event].file \in files
        \/ DeletedAfter(rows[event].file, event) # {}
        \/ External

\* Where the thread is, compared with what it has stored.
Position ==
    /\ pc \in {"loop", "wait", "notify"} => event = disk
    /\ pc \in {"config", "exists", "current", "hooks", "lock", "write"} => event = disk + 1
    /\ pc \in {"exists", "current"} => next = 1

\* Which subscribers have been called: all for what is stored, the first ones for the serial
\* after that, and none for later ones.
Calls ==
    /\ \A s \in 0..MaxSerial, i \in Subscribers :
        /\ s <= disk => called[s][i] > 0
        /\ s > disk + 1 => called[s][i] = 0
        /\ called[s][i] > 0 => \A j \in 1..i - 1 : called[s][j] > 0
    /\ pc = "hooks" => \A j \in 1..next - 1 : called[event][j] > 0
    /\ pc \in {"lock", "write"} => \A j \in Subscribers : called[event][j] > 0

\* A subscriber which was called for the serial before a crash or a failed write, and has
\* not been called for it since.
MayRepeat(i) ==
    /\ disk < MaxSerial /\ called[disk + 1][i] > 0
    /\ ~(pc \in {"lock", "write"} \/ (pc = "hooks" /\ i < next))

\* A crash or a failed write pays for one repetition of each subscriber, in advance.
RepeatsPaid ==
    \A i \in Subscribers : Cardinality(Repeats(i)) + (IF MayRepeat(i) THEN 1 ELSE 0)
            <= crashes + failures

\* Of the serials which concern a file there is a last one.
HasLastFileSerial ==
    \A f \in Files : FileSerials(f) # {} =>
        \E s \in FileSerials(f) : \A r \in FileSerials(f) : r <= s

IInv ==
    /\ TypeOK
    /\ Position /\ Calls /\ RepeatsPaid /\ HasLastFileSerial /\ SubscribersFindFile

\* A file of a mirror was stored and then removed, its entry was kept, and its index does
\* not redirect: the thread cannot ignore the file, and it does not come back.
Removed(f) == HasKey(f) /\ ~Expected(f) /\ ~External

\* One of the serials up to s stored such a file.
Blocked(s) ==
    \E r \in 0..s : r <= last /\ rows[r].op = "set" /\ Removed(rows[r].file)

\* Every committed serial is processed in the end, through missing files, errors and
\* crashes, if it is not blocked for ever: the thread waits without end for the file of a
\* mirror which was removed while its entry stays (mirror.py:568), for no other reason.
EveryEventProcessed ==
    \A s \in 0..MaxSerial : <>[]~Blocked(s) => <>[](last >= s => disk >= s)

\* A thread does not wait for ever for a serial which was committed when it began to,
\* again unless events are blocked for ever.
WaitersReturn ==
    <>[]~Blocked(MaxSerial) => \A w \in Waiters : []<>(wpc[w] = "idle")

\* The comment in _execute_hooks: "all files exist or are deleted in a later serial".
\* The thread waits for a missing file only if no later serial has deleted it.
WaitsForUndeletedFile ==
    pc = "sleep" /\ rows[event].op = "set" =>
        \/ rows[event].file \in files
        \/ \A s \in event + 1..last :
                ~(rows[s].file = rows[event].file /\ rows[s].op \in {"del", "delfile"})
=============================================================================
