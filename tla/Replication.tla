----------------------------- MODULE Replication -----------------------------
(***************************************************************************)
(* Replication of the changelog: the primary's side of a long poll         *)
(* (PrimaryChangelogRequest in replica.py), the thread of the replica      *)
(* which asks for changes and imports them (ReplicaThread and              *)
(* KeyFS.import_changes), and writes a replica passes on to the primary    *)
(* (proxy_write_to_primary).                                               *)
(*                                                                         *)
(* A row of a changelog is known by the server which committed it and its  *)
(* serial.  The URL of the primary reaches one server at a time; an        *)
(* administrator may put another one behind it.  The replica records the   *)
(* UUID of the first primary which sends it changes.  Requests and         *)
(* responses break off at any moment, the replica is killed at any moment. *)
(***************************************************************************)
EXTENDS Integers, Sequences

CONSTANTS
    Servers,        \* servers which can be a primary; a server stands for its UUID
    Home,           \* the one behind the URL at first
    Clients,        \* write requests made to the replica
    MaxSerial,      \* bound: the last serial of a server
    MaxCrashes,     \* bound: kills of the replica
    MaxMoves,       \* bound: how often another server is put behind the URL
    NoServer,       \* the replica has no primary-uuid yet
    Unknown         \* ReplicaThread._primary_serial is None

ASSUME ReplicationConstants ==
    /\ Home \in Servers /\ NoServer \notin Servers
    /\ MaxSerial \in Nat /\ MaxCrashes \in Nat /\ MaxMoves \in Nat
    /\ Unknown \notin Int

VARIABLES
    last,           \* the serial of the last commit of each server
    active,         \* the server behind primary_url
    moves,
    \* the disk of the replica
    copy,           \* its changelog
    known,          \* primary-uuid in .nodeinfo
    \* the process of the replica
    pc,             \* where the replica thread is in fetch
    request,        \* the request it has made: the server, the serial asked for,
                    \* the UUID it expects, and history: the primary's serial then
    seen,           \* devpi_serial, the serial in the primary's response
    primarySerial,  \* ReplicaThread._primary_serial
    inSync,         \* replica_metadata_in_sync_at is set
    crashes,
    client          \* proxied writes: where each is, and the commit it waits for

primary == <<last, active, moves>>
disk == <<copy, known>>
fetching == <<pc, request, seen>>
status == <<primarySerial, inSync>>
vars == <<last, active, moves, copy, known, pc, request, seen, primarySerial, inSync,
          crashes, client>>

NextSerial == Len(copy)             \* KeyFS.get_next_serial: serials begin at 0
CurrentSerial == Len(copy) - 1      \* KeyFS.get_current_serial

NoRequest == [server |-> Home, serial |-> 0, expects |-> NoServer, asOf |-> -1]
NoCommit == [pc |-> "none", by |-> Home, serial |-> -1]

Init ==
    /\ last = [s \in Servers |-> -1]
    /\ active = Home /\ moves = 0
    /\ copy = <<>> /\ known = NoServer
    /\ pc = "idle" /\ request = NoRequest /\ seen = -1
    /\ primarySerial = Unknown /\ inSync = FALSE
    /\ crashes = 0
    /\ client = [c \in Clients |-> NoCommit]

-----------------------------------------------------------------------------
(* The servers.                                                            *)

Commit(s) ==
    /\ last[s] < MaxSerial
    /\ last' = [last EXCEPT ![s] = @ + 1]
    /\ UNCHANGED <<active, moves, disk, fetching, status, crashes, client>>

\* Another server is put behind the URL, or the old one again.
Move(s) ==
    /\ moves < MaxMoves /\ s # active
    /\ active' = s /\ moves' = moves + 1
    /\ UNCHANGED <<last, disk, fetching, status, crashes, client>>

-----------------------------------------------------------------------------
(* The replica asks, the primary answers.                                  *)

\* Mutant: the replica asks for the serial it has.
TickAtCurrent ==
    /\ pc = "idle"
    /\ pc' = "asked"
    /\ request' = [server |-> active, serial |-> IF copy = <<>> THEN 0 ELSE CurrentSerial,
                   expects |-> known, asOf |-> last[active]]
    /\ UNCHANGED <<primary, disk, seen, status, crashes, client>>

\* ReplicaThread.tick and fetch_multi.
Tick ==
    /\ pc = "idle"
    /\ pc' = "asked"
    /\ request' = [server |-> active, serial |-> NextSerial, expects |-> known,
                   asOf |-> last[active]]
    /\ UNCHANGED <<primary, disk, seen, status, crashes, client>>

Done == pc' = "idle" /\ request' = NoRequest /\ seen' = -1

\* Mutant: a replica which expects another primary is served.
VerifyPrimaryNever == FALSE

\* PrimaryChangelogRequest.verify_primary answers 400.  (The replica compares the UUID
\* in the response with the one it has as well, and exits; a primary of this version
\* has refused before.)
WrongPrimary == request.expects # NoServer /\ request.expects # request.server

Refuse ==
    /\ pc = "asked"
    /\ WrongPrimary \/ request.serial > last[request.server] + 1
    /\ Done
    /\ UNCHANGED <<primary, disk, status, crashes, client>>

\* _wait_for_serial: the serial asked for is there.  get_multiple_changes and
\* get_streaming_changes send the rows up to devpi_serial.
Answer ==
    /\ pc = "asked" /\ ~WrongPrimary
    /\ request.serial <= last[request.server]
    /\ seen' = last[request.server]
    /\ pc' = "answered"
    /\ UNCHANGED <<primary, disk, request, status, crashes, client>>

\* It is the next one: the request blocks.  The transaction of the request keeps the
\* serial it has read (Connection.last_changelog_serial is a cached property).
Block ==
    /\ pc = "asked" /\ ~WrongPrimary
    /\ request.serial = last[request.server] + 1
    /\ seen' = last[request.server]
    /\ pc' = "blocked"
    /\ UNCHANGED <<primary, disk, request, status, crashes, client>>

\* wait_tx_serial returns True.  The response has no rows: devpi_serial is still the
\* serial before, so the replica has to ask once more.
Unblock ==
    /\ pc = "blocked"
    /\ request.serial <= last[request.server]
    /\ pc' = "answered"
    /\ UNCHANGED <<primary, disk, request, seen, status, crashes, client>>

\* wait_tx_serial returns False after MAX_REPLICA_BLOCK_TIME: 202 "no new transaction yet".
TimeOut ==
    /\ pc = "blocked"
    /\ request.serial > last[request.server]
    /\ pc' = "accepted"
    /\ UNCHANGED <<primary, disk, request, seen, status, crashes, client>>

\* The connection fails before a response has arrived: fetch returns False.
FetchFails ==
    /\ pc \in {"asked", "blocked", "answered", "accepted"}
    /\ Done
    /\ UNCHANGED <<primary, disk, status, crashes, client>>

-----------------------------------------------------------------------------
(* The replica handles the response.                                       *)

\* ReplicaThread.update_primary_serial
UpdatePrimarySerial(serial, updateSync) ==
    /\ inSync' = (inSync \/ (updateSync /\ CurrentSerial = serial))
    /\ primarySerial' =
        IF primarySerial = Unknown \/ serial > primarySerial THEN serial ELSE primarySerial

\* Mutant: the UUID is only recorded when all changes have been processed.
ReceiveChangesUnrecorded ==
    /\ pc = "answered"
    /\ UpdatePrimarySerial(seen, TRUE)
    /\ pc' = "importing"
    /\ UNCHANGED <<primary, disk, request, seen, crashes, client>>

\* ReplicaThread.fetch, a response with status 200: the UUID of the primary is recorded
\* before the first change is imported.
ReceiveChanges ==
    /\ pc = "answered"
    /\ known' = IF known = NoServer THEN request.server ELSE known
    /\ UpdatePrimarySerial(seen, TRUE)
    /\ pc' = "importing"
    /\ UNCHANGED <<primary, copy, request, seen, crashes, client>>

\* A response with status 202: trying again.
ReceiveAccepted ==
    /\ pc = "accepted"
    /\ UpdatePrimarySerial(seen, TRUE)
    /\ Done
    /\ UNCHANGED <<primary, disk, crashes, client>>

\* Mutant: every imported row counts as news from the primary about its serial.
ImportNextInSync ==
    /\ pc = "importing" /\ request.serial <= seen /\ request.serial = NextSerial
    /\ copy' = Append(copy, [by |-> request.server, serial |-> NextSerial])
    /\ request' = [request EXCEPT !.serial = @ + 1]
    /\ inSync' = TRUE
    /\ UNCHANGED <<primary, known, pc, seen, primarySerial, crashes, client>>

\* handler_multi: the next row of the response is there and KeyFS.import_changes commits
\* it.  When it does not follow the last one, an assertion ends the handler (see
\* HandlerFails).
ImportNext ==
    /\ pc = "importing" /\ request.serial <= seen /\ request.serial = NextSerial
    /\ copy' = Append(copy, [by |-> request.server, serial |-> NextSerial])
    /\ request' = [request EXCEPT !.serial = @ + 1]
    /\ primarySerial' = IF NextSerial > primarySerial THEN NextSerial ELSE primarySerial
    /\ UNCHANGED <<primary, known, pc, seen, inSync, crashes, client>>

\* The response is at its end, for a stream also when it is cut off (EOFError), for
\* other responses when a limit of size or time has been reached.
ResponseEnds ==
    /\ pc = "importing"
    /\ UpdatePrimarySerial(seen, TRUE)
    /\ Done
    /\ UNCHANGED <<primary, disk, crashes, client>>

\* handler_multi raises: "could not process".
HandlerFails ==
    /\ pc = "importing"
    /\ Done
    /\ UNCHANGED <<primary, disk, status, crashes, client>>

-----------------------------------------------------------------------------
(* Writes a replica passes on.                                             *)

\* proxy_request_to_primary: the request is sent; the server behind the URL commits it
\* (X-DEVPI-SERIAL is commit_serial) or finds nothing to change (at_serial).
ProxyWrite(c) ==
    /\ client[c].pc = "none"
    /\ \E commits \in {TRUE, FALSE} :
        /\ commits => last[active] < MaxSerial
        /\ last' = IF commits THEN [last EXCEPT ![active] = @ + 1] ELSE last
        /\ client' = [client EXCEPT ![c] =
                [pc |-> "relayed", by |-> active, serial |-> last'[active]]]
    /\ UNCHANGED <<active, moves, disk, fetching, status, crashes>>

\* The answer has a status of 400 or more, or is lost on its way (UpstreamError): the
\* client gets that at once, and never learns whether its write was committed.
ProxyFails(c) ==
    /\ client[c].pc = "relayed"
    /\ client' = [client EXCEPT ![c].pc = "failed"]
    /\ UNCHANGED <<primary, disk, fetching, status, crashes>>

ProxyReceives(c) ==
    /\ client[c].pc = "relayed"
    /\ client' = [client EXCEPT ![c].pc = "waiting"]
    /\ UNCHANGED <<primary, disk, fetching, status, crashes>>

\* Mutant: a replica which is about to import the row is good enough.
ProxyAnswersEarly(c) ==
    /\ client[c].pc = "waiting"
    /\ client[c].serial <= NextSerial
    /\ client' = [client EXCEPT ![c].pc = "answered"]
    /\ UNCHANGED <<primary, disk, fetching, status, crashes>>

\* wait_tx_serial(commit_serial), without a time limit, then the response.
ProxyAnswers(c) ==
    /\ client[c].pc = "waiting"
    /\ client[c].serial <= CurrentSerial
    /\ client' = [client EXCEPT ![c].pc = "answered"]
    /\ UNCHANGED <<primary, disk, fetching, status, crashes>>

-----------------------------------------------------------------------------

\* The replica is killed and started again: ReplicaThread.__init__.
Crash ==
    /\ crashes < MaxCrashes
    /\ crashes' = crashes + 1
    /\ Done
    /\ primarySerial' = Unknown /\ inSync' = FALSE
    /\ client' = [c \in Clients |->
            IF client[c].pc \in {"relayed", "waiting"}
            THEN [client[c] EXCEPT !.pc = "failed"] ELSE client[c]]
    /\ UNCHANGED <<primary, disk>>

Thread ==
    \/ Tick \/ Refuse \/ Answer \/ Block \/ Unblock \/ TimeOut \/ FetchFails
    \/ ReceiveChanges \/ ReceiveAccepted
    \/ ImportNext \/ ResponseEnds \/ HandlerFails

Proxy(c) == ProxyReceives(c) \/ ProxyFails(c) \/ ProxyAnswers(c)

Next ==
    \/ \E s \in Servers : Commit(s) \/ Move(s)
    \/ Thread
    \/ \E c \in Clients : ProxyWrite(c) \/ Proxy(c)
    \/ Crash

Spec == Init /\ [][Next]_vars

\* The thread goes on, requests end (both sides have time limits), and a network which
\* is used again and again lets a request, a response and a row through in the end.
FairSpec ==
    /\ Spec
    /\ WF_vars(Thread)
    /\ SF_vars(Answer) /\ SF_vars(ReceiveChanges) /\ SF_vars(ImportNext)
    /\ \A c \in Clients : WF_vars(Proxy(c))

-----------------------------------------------------------------------------
(* Properties.                                                             *)

TypeOK ==
    /\ last \in [Servers -> Int] /\ \A s \in Servers : last[s] \in -1 .. MaxSerial
    /\ active \in Servers /\ moves \in 0 .. MaxMoves
    /\ copy \in Seq([by : Servers, serial : Nat])
    /\ known \in Servers \cup {NoServer}
    /\ pc \in {"idle", "asked", "blocked", "answered", "accepted", "importing"}
    /\ request \in [server : Servers, serial : Nat, expects : Servers \cup {NoServer},
                    asOf : Int]
    /\ seen \in -1 .. MaxSerial
    /\ primarySerial \in Int \cup {Unknown} /\ inSync \in BOOLEAN
    /\ crashes \in 0 .. MaxCrashes
    /\ client \in [Clients -> [pc : {"none", "relayed", "waiting", "answered", "failed"},
                               by : Servers, serial : Int]]

\* The changelog of the replica is a prefix of the changelog of the one server whose
\* UUID it has recorded, whatever broke off, was asked twice or was killed, and
\* whichever server is behind the URL (KeyFS.import_changes, verify_primary, fetch).
OneHistory ==
    /\ copy # <<>> => known \in Servers /\ Len(copy) <= last[known] + 1
    /\ \A i \in DOMAIN copy : copy[i] = [by |-> known, serial |-> i - 1]

\* The replica reports itself in sync only when it has every commit its primary had when
\* the request was made (update_primary_serial; InitialQueueThread and the status page
\* depend on it).
InSyncSound ==
    [][inSync' /\ ~inSync => request.asOf <= Len(copy') - 1]_vars

\* A write which was answered through the replica can be read from the replica: "relay
\* modifying http requests to primary and wait until the change is replicated back".
ReadYourWrites ==
    \A c \in Clients :
        client[c].pc = "answered" /\ client[c].by = known /\ client[c].serial >= 0 =>
            /\ client[c].serial < Len(copy)
            /\ copy[client[c].serial + 1] = [by |-> client[c].by, serial |-> client[c].serial]

\* Every commit of the primary arrives at its replica, unless another server is put
\* behind the URL.
CatchesUp ==
    \A n \in 0 .. MaxSerial :
        last[Home] >= n ~> Len(copy) > n \/ active # Home \/ known \notin {Home, NoServer}

\* Replication implements the abstract copy of a changelog.
Copying == INSTANCE ChangelogCopy WITH origin <- known
ImplementsCopy == Copying!Spec

\* A request carries the UUID the replica has recorded when it is made, and nobody records
\* another one before its answer is handled.
ExpectsKnown ==
    pc \in {"asked", "blocked", "answered", "accepted"} => request.expects = known

\* A request which has passed verify_primary is for the primary of the replica.
Verified ==
    /\ pc \in {"blocked", "answered", "accepted"} => known \in {NoServer, request.server}
    /\ pc = "importing" => known = request.server

\* The serial of a response is one the server has, and no older than the request.
SeenIsCommitted ==
    /\ pc # "idle" => request.asOf <= last[request.server]
    /\ pc \in {"blocked", "answered", "accepted", "importing"} =>
            request.asOf <= seen /\ seen <= last[request.server]

\* A client which has got its answer has its serial on the replica.
AnsweredHasSerial ==
    \A c \in Clients : client[c].pc = "answered" => client[c].serial < Len(copy)

IInv ==
    /\ TypeOK
    /\ ExpectsKnown /\ Verified /\ SeenIsCommitted /\ OneHistory /\ AnsweredHasSerial
=============================================================================
