-------------------------------- MODULE Indexes --------------------------------
(***************************************************************************)
(* Users, the configuration of their indexes, and what an index inherits   *)
(* from its bases (RootModel, User, BaseStage): the resolution order       *)
(* (sro), the rule that a project which is hosted on a private index is    *)
(* not mixed with the one of the same name on a mirror unless it is        *)
(* whitelisted, and the import of an export of the indexes.  There is one  *)
(* project.                                                                *)
(*                                                                         *)
(* An index which is deleted stays among the bases of others, it may be    *)
(* created again with another type, and bases may form cycles.             *)
(*                                                                         *)
(* The two loops, of sro and of the import, are functions of the number of *)
(* their turns.  PrivateProofs extends this module and PrivateStage: IX    *)
(* marks the names both have.                                              *)
(***************************************************************************)
EXTENDS Naturals, FiniteSets, SequencesExt

CONSTANTS
    Users,
    StageNames,     \* names of indexes
    Owner,          \* the user each belongs to
    Types,          \* the types each may be created with
    Settings,       \* the values each setting of an index may get
    MaxTurns        \* bound: turns of a loop

Whitelists == SUBSET {"project", "*"}

ASSUME IndexesConstants ==
    /\ IsFiniteSet(StageNames) /\ MaxTurns \in Nat
    /\ Owner \in [StageNames -> Users]
    /\ Types \in [StageNames -> SUBSET {"stage", "mirror"}]
    /\ \A i \in StageNames :
        /\ Settings[i].bases \subseteq Seq(StageNames)
        /\ Settings[i].whitelist \subseteq Whitelists
        /\ Settings[i].inheritance \subseteq {"intersection", "union"}
        /\ TRUE \in Settings[i].volatile /\ Settings[i].volatile \subseteq BOOLEAN

VARIABLES
    userlist,       \* USERLIST
    users,          \* the users with a USER key
    index,          \* the configuration of each index, in the USER key
    hosts           \* has_project_perstage: "unknown" is the answer of a mirror without a
                    \* project list whose links have not been fetched

ixvars == <<userlist, users, index, hosts>>

NoConfig == [type |-> "none"]
Answers == {"yes", "no", "unknown"}
Stage(bases, whitelist, inheritance, volatile) ==
    [type |-> "stage", bases |-> bases, mirror_whitelist |-> whitelist,
     mirror_whitelist_inheritance |-> inheritance, volatile |-> volatile]
Mirror(volatile) == [type |-> "mirror", volatile |-> volatile]

\* The indexes of a configuration of all of them: which exist, which are private, which are
\* mirrors, and what an index inherits from.
Existing(ix) == {i \in StageNames : ix[i] # NoConfig}
Privates(ix) == {i \in StageNames : ix[i].type = "stage"}
Mirrors(ix) == {i \in StageNames : ix[i].type = "mirror"}
Bases(ix, i) == IF i \in Privates(ix) THEN ix[i].bases ELSE <<>>

-----------------------------------------------------------------------------
(* The resolution order.                                                   *)

\* The lists of sro, and the bases of the last stage which are left to look at.
Begin(i) == [todo |-> <<i>>, bases |-> <<>>, seen |-> {}, stages |-> <<>>, mirrors |-> <<>>]

\* Mutant: a mirror is given as often as it is a base.
TakeBaseAgain(ix, w) ==
    LET base == Head(w.bases)
        rest == [w EXCEPT !.bases = Tail(@)]
    IN IF base \in w.seen \/ base \notin Existing(ix) THEN rest
       ELSE IF base \in Mirrors(ix) THEN [rest EXCEPT !.mirrors = Append(@, base)]
       ELSE [rest EXCEPT !.todo = Append(@, base)]

\* A base is skipped when it is missing or has been seen; mirrors are kept for the end.
TakeBase(ix, w) ==
    LET base == Head(w.bases)
        rest == [w EXCEPT !.bases = Tail(@)]
    IN IF base \in w.seen \/ base \notin Existing(ix) THEN rest
       ELSE IF base \in Mirrors(ix)
       THEN [rest EXCEPT !.mirrors = Append(@, base), !.seen = @ \cup {base}]
       ELSE [rest EXCEPT !.todo = Append(@, base)]

TakeStage(ix, w) ==
    LET stage == Head(w.todo)
    IN [w EXCEPT !.todo = Tail(@), !.bases = Bases(ix, stage),
                 !.seen = @ \cup {stage}, !.stages = Append(@, stage)]

Ended(w) == w.todo = <<>> /\ w.bases = <<>>

WalkOn(ix, w) ==
    IF w.bases # <<>> THEN TakeBase(ix, w)
    ELSE IF w.todo # <<>> THEN TakeStage(ix, w) ELSE w

\* The loop of sro, turn by turn.
Walk(ix, i) ==
    LET walk[n \in Nat] == IF n = 0 THEN Begin(i) ELSE WalkOn(ix, walk[n - 1])
    IN walk

\* sro
Sro(ix, i) == LET w == Walk(ix, i)[MaxTurns] IN w.stages \o w.mirrors

-----------------------------------------------------------------------------
(* The mirror whitelist, for an index with its resolution order.           *)

\* The private indexes among the first k.
PrivateUpTo(order, k) == {j \in 1 .. k : order[j] \in Privates(index)}

\* The whitelist after these, as the index that is asked inherits whitelists.
Whitelist(i, order, k) ==
    LET lists == {index[order[j]].mirror_whitelist : j \in PrivateUpTo(order, k)} IN
    IF index[i].mirror_whitelist_inheritance = "union" THEN UNION lists
    ELSE {name \in UNION lists : \A list \in lists : name \in list}

Matches(i, order, k) == Whitelist(i, order, k) \cap {"*", "project"} # {}

\* Mutant: the whitelist after the last index counts.
WhitelistedLast(i, order) ==
    PrivateUpTo(order, Len(order)) # {} /\ Matches(i, order, Len(order))

\* whitelisted: once it matches, later indexes do not change it.
Whitelisted(i, order) ==
    \E k \in PrivateUpTo(order, Len(order)) : Matches(i, order, k)

\* private_hit in op_sro_check_mirror_whitelist: not where the whitelist matches.
PrivateHit(i, order) ==
    \E k \in PrivateUpTo(order, Len(order)) :
        hosts[order[k]] = "yes" /\ ~Matches(i, order, k)

\* op_sro_check_mirror_whitelist: the indexes whose links are returned.  A mirror without
\* a project list is asked if no private index has the project.
Sources(i, order) ==
    {j \in ToSet(order) :
        /\ j \in Mirrors(index) /\ PrivateHit(i, order) => Whitelisted(i, order)
        /\ \/ hosts[j] = "yes"
           \/ hosts[j] = "unknown" /\ ~PrivateHit(i, order)}

\* The mirror which is asked first, if there is one.
FirstMirror(order) ==
    {order[k] : k \in {j \in DOMAIN order :
        order[j] \in Mirrors(index) /\ \A l \in 1 .. j - 1 : order[l] \notin Mirrors(index)}}

\* get_mirror_whitelist_info: has_mirror_base and blocked_by_mirror_whitelist, from the
\* first of the mirrors.
MirrorInfo(i, order) ==
    LET blocked == /\ \E j \in ToSet(order) \cap Privates(index) : hosts[j] = "yes"
                   /\ ~Whitelisted(i, order)
        first == FirstMirror(order)
    IN [has |-> IF first = {} THEN "no"
                ELSE IF blocked THEN "unknown" ELSE hosts[CHOOSE m \in first : TRUE],
        blocked |-> IF blocked THEN first ELSE {}]

-----------------------------------------------------------------------------
(* The requests, each of them one write transaction.                       *)

IXInit ==
    /\ userlist = {} /\ users = {}
    /\ index = [i \in StageNames |-> NoConfig]
    /\ hosts = [i \in StageNames |-> "no"]

\* user_create, create_user
UserCreate(u) ==
    /\ u \notin users /\ u \notin userlist
    /\ users' = users \cup {u}
    /\ userlist' = userlist \cup {u}
    /\ UNCHANGED <<index, hosts>>

\* delete_stage, delete: the projects of the indexes and their configuration.
RemoveIndexes(gone) ==
    /\ index' = [i \in StageNames |-> IF i \in gone THEN NoConfig ELSE index[i]]
    /\ hosts' = [i \in StageNames |-> IF i \in gone THEN "no" ELSE hosts[i]]

\* user_delete: with all its indexes and their projects, if all of them are volatile.
UserDelete(u) ==
    /\ u \in users
    /\ \A i \in StageNames : Owner[i] = u /\ i \in Existing(index) => index[i].volatile
    /\ RemoveIndexes({i \in StageNames : Owner[i] = u})
    /\ users' = users \ {u}
    /\ userlist' = userlist \ {u}

\* normalize_bases: every base must exist.
ValidBases(bases) == ToSet(bases) \subseteq Existing(index)

\* create_stage: with its settings, or not at all.
CreateStage(i, config) ==
    index' = IF config.type = "stage" /\ ~ValidBases(config.bases) THEN index
             ELSE [index EXCEPT ![i] = config]

\* index_create: the user who is logged in is created if it has to be, and stays when the
\* bases are refused.
IndexCreate(i, config) ==
    /\ i \notin Existing(index)
    /\ users' = users \cup {Owner[i]}
    /\ userlist' = userlist \cup {Owner[i]}
    /\ CreateStage(i, config)
    /\ UNCHANGED hosts

\* get_indexconfig_from_kwargs, for a request with one setting of an index: the type stays.
\* Bases are looked at only when they are given.
Changed(i) ==
    {[index[i] EXCEPT !.volatile = volatile] : volatile \in Settings[i].volatile}
    \cup IF i \notin Privates(index) THEN {}
         ELSE {[index[i] EXCEPT !.bases = bases] :
                    bases \in {b \in Settings[i].bases : ValidBases(b)}}
              \cup {[index[i] EXCEPT !.mirror_whitelist = names] :
                    names \in Settings[i].whitelist}
              \cup {[index[i] EXCEPT !.mirror_whitelist_inheritance = how] :
                    how \in Settings[i].inheritance}

\* index_modify, _modify
IndexModify(i) ==
    /\ i \in Existing(index)
    /\ \E config \in Changed(i) : index' = [index EXCEPT ![i] = config]
    /\ UNCHANGED <<userlist, users, hosts>>

\* index_delete, delete_stage
IndexDelete(i) ==
    /\ i \in Existing(index) /\ index[i].volatile
    /\ RemoveIndexes({i})
    /\ UNCHANGED <<userlist, users>>

\* The project is registered on or deleted from a private index, appears on a mirror or
\* is gone from it.
Host(i, known) ==
    /\ i \in Existing(index) /\ (i \in Privates(index) => known # "unknown")
    /\ hosts' = [hosts EXCEPT ![i] = known]
    /\ UNCHANGED <<userlist, users, index>>

IXNext ==
    \/ \E u \in Users : UserCreate(u) \/ UserDelete(u)
    \/ \E i \in StageNames :
        \/ "mirror" \in Types[i] /\ IndexCreate(i, Mirror(TRUE))
        \/ /\ "stage" \in Types[i]
           /\ \E bases \in Settings[i].bases : IndexCreate(i, Stage(bases, {}, "intersection", TRUE))
        \/ IndexModify(i) \/ IndexDelete(i)
        \/ \E known \in Answers : Host(i, known)

IXSpec == IXInit /\ [][IXNext]_ixvars

-----------------------------------------------------------------------------
(* Import of an export of the indexes into an empty server (Importer,      *)
(* IndexTree): bases come before the indexes which inherit from them.      *)

\* Mutant: an index which is its own base waits for itself.
TreeBasesWithSelf(ix, i) == ToSet(Bases(ix, i)) \cap Existing(ix)

\* The bases which are in the export, without the index itself.
TreeBases(ix, i) == (ToSet(Bases(ix, i)) \cap Existing(ix)) \ {i}

\* name2children of an index, and of None.
Children(ix, i) == {j \in Existing(ix) : i \in TreeBases(ix, j)}
Roots(ix) == {i \in Existing(ix) : TreeBases(ix, i) = {}}

\* The loop of iternames.  An index is put back as long as one of its bases has not been
\* created; putback counts how often that happened in a row, the code does not.
CreateNext(ix, c) ==
    LET i == Head(c.pending) IN
    IF ~(TreeBases(ix, i) \subseteq ToSet(c.created))
    THEN [c EXCEPT !.pending = Append(Tail(@), i), !.putback = @ + 1]
    ELSE IF i \in ToSet(c.created) THEN [c EXCEPT !.pending = Tail(@), !.putback = 0]
    ELSE [pending |-> Tail(c.pending) \o SetToSeq(Children(ix, i) \ ToSet(c.created)),
          created |-> Append(c.created, i), putback |-> 0]

CreateOn(ix, c) == IF c.pending = <<>> THEN c ELSE CreateNext(ix, c)

Creation(ix) ==
    LET creation[n \in Nat] ==
            IF n = 0 THEN [pending |-> SetToSeq(Roots(ix)), created |-> <<>>, putback |-> 0]
            ELSE CreateOn(ix, creation[n - 1])
    IN creation

\* iternames: Fatal when an index has not been reached.
IterNames(ix) ==
    LET c == Creation(ix)[MaxTurns]
    IN [created |-> c.created, ends |-> c.pending = <<>> /\ Existing(ix) \subseteq ToSet(c.created)]

-----------------------------------------------------------------------------
(* Properties.                                                             *)

StageConfig ==
    [type : {"stage"}, bases : Seq(StageNames), mirror_whitelist : Whitelists,
     mirror_whitelist_inheritance : {"intersection", "union"}, volatile : BOOLEAN]
MirrorConfig == [type : {"mirror"}, volatile : BOOLEAN]

\* A user of the list has a key, and an index an owner in the list; only mirrors do not know
\* whether they have the project.
IXTypeOK ==
    /\ userlist \subseteq Users /\ users = userlist
    /\ index \in [StageNames -> {NoConfig} \cup StageConfig \cup MirrorConfig]
    /\ hosts \in [StageNames -> Answers]
    /\ \A i \in StageNames :
        /\ i \in Existing(index) => Owner[i] \in users
        /\ i \notin Existing(index) => hosts[i] = "no"
        /\ hosts[i] = "unknown" => i \in Mirrors(index)

\* What can be reached over private bases which exist, without the walk: it is in every set
\* that has the index and with an index the bases of it.
Closed(ix, C) == \A i \in C : ToSet(Bases(ix, i)) \cap Existing(ix) \subseteq C
Reachable(ix, i) ==
    LET closed == {C \in SUBSET StageNames : i \in C /\ Closed(ix, C)}
    IN {j \in StageNames : \A C \in closed : j \in C}

\* An order which begins with the index itself, has every index which can be reached, private
\* ones first and every mirror once.
Resolves(ix, i, order) ==
    /\ ToSet(order) = Reachable(ix, i) /\ order[1] = i
    /\ \A j, k \in DOMAIN order :
        j < k /\ order[j] \in Mirrors(ix) => order[k] \in Mirrors(ix) /\ order[j] # order[k]

\* The walk of sro comes to its end with such an order, whatever cycles there are.
SroReaches ==
    \A i \in Existing(index) :
        Ended(Walk(index, i)[MaxTurns]) /\ Resolves(index, i, Sro(index, i))

\* What the whitelists of indexes allow: in an intersection the index itself has to, in a
\* union one of the indexes it inherits from.
Allowed(i, reachable) ==
    \E j \in reachable \cap Privates(index) :
        /\ index[j].mirror_whitelist # {}
        /\ index[i].mirror_whitelist_inheritance = "intersection" => j = i

\* Where a private index hosts the project, a mirror is asked for it only if the whitelist
\* allows that, whichever indexes are between the index, the private one and the mirror.  A
\* mirror which has the project is then asked, and always where no private index hosts it.
\* One which does not know (no project list) is asked where no private index hosts it; where
\* one does it may be left out although it is whitelisted (WhitelistedAreAsked).  Nothing a
\* private index hosts gets lost.  What the pages tell of the mirrors is what the links come
\* from: blocked if and only if the whitelist allows no mirror, and a mirror which is said to
\* have the project gives its links.
MirrorsAsWhitelisted ==
    \A i \in Existing(index) :
        LET order == Sro(index, i)
            reachable == Reachable(index, i)
            sources == Sources(i, order)
            info == MirrorInfo(i, order)
            hosting == {j \in reachable \cap Privates(index) : hosts[j] = "yes"}
            allowed == Allowed(i, reachable)
        IN /\ hosting \subseteq sources
           /\ \A m \in reachable \cap Mirrors(index) :
                /\ m \in sources => hosting = {} \/ allowed
                /\ hosts[m] = "yes" /\ (hosting = {} \/ allowed) => m \in sources
                /\ hosts[m] = "unknown" /\ hosting = {} => m \in sources
                /\ hosting # {} => (info.blocked = {} <=> allowed)
           /\ info.blocked # {} => hosting # {} /\ info.blocked \cap sources = {}
           /\ info.has = "yes" => \E m \in sources : m \in Mirrors(index)

\* A project which is whitelisted is looked for on every mirror which may have it.
WhitelistedAreAsked ==
    \A i \in Privates(index) : index[i].mirror_whitelist # {} =>
        \A m \in Reachable(index, i) \cap Mirrors(index) :
            hosts[m] # "no" => m \in Sources(i, Sro(index, i))

\* No circle of two indexes or more is among what an index inherits from and itself.
FreeOfCircles(ix, i) ==
    \A S \in SUBSET Reachable(ix, i) :
        S # {} => \E j \in S : ToSet(Bases(ix, j)) \cap S \subseteq {j}
Importable(ix) == {i \in Existing(ix) : FreeOfCircles(ix, i)}

\* The others, which have an importable base: they are put back for ever.
KeptWaiting(ix) ==
    {i \in Existing(ix) \ Importable(ix) : ToSet(Bases(ix, i)) \cap Importable(ix) # {}}

\* The loop creates nothing more: nothing is pending, or each pending index has been put back
\* since the last one was created or dropped.
Settled(c) == c.putback >= Len(c.pending)

\* The import creates each index which inherits from no circle, once and after its bases;
\* missing bases and an index which is its own base do not stop it, and without circles it
\* succeeds.  With circles its loop (iternames) ends, and reports the indexes it has not
\* reached, if and only if none of them has an importable base; otherwise it goes on for ever.
ImportsBasesFirst ==
    LET c == Creation(index)[MaxTurns]
        created == c.created
    IN /\ Settled(c)
       /\ ToSet(created) = Importable(index)
       /\ c.pending = <<>> <=> KeptWaiting(index) = {}
       /\ Importable(index) = Existing(index) => IterNames(index).ends
       /\ \A j, k \in DOMAIN created : j < k =>
            created[j] # created[k] /\ created[k] \notin ToSet(Bases(index, created[j]))

\* Indexes in a circle can be imported: "due to possible circles we create without bases
\* first".
ImportSucceeds == IterNames(index).ends

\* Both loops have nothing to do any more before the bound: part of SroReaches and
\* ImportsBasesFirst, the hypothesis of the theorems.
LoopsEnd ==
    /\ \A i \in Existing(index) : Ended(Walk(index, i)[MaxTurns])
    /\ Settled(Creation(index)[MaxTurns])
=============================================================================
