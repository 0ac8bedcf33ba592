----------------------------- MODULE PrivateProofs -----------------------------
(***************************************************************************)
(* Proofs about PrivateStage, for any indexes, versions, files and         *)
(* requests.  The first part says what each operator does to the fields of *)
(* a project, the second what it keeps in order, the third is about the    *)
(* requests.                                                               *)
(*                                                                         *)
(* Then proofs about Indexes, for any users, indexes and settings.  The    *)
(* loops of sro and of the import are recursive functions of the number of *)
(* turns: a set of natural numbers has a least one (Least), so a set that  *)
(* has 0 and the successor of each member has all numbers (Induction), so  *)
(* such a function exists (LoopExists) and an invariant of its turns holds *)
(* after all of them.  A loop ends if three numbers get less with each     *)
(* turn (Descent).  Then come the requests, the mirror whitelist and,      *)
(* back in PrivateStage, what an import makes of an export.                *)
(***************************************************************************)
EXTENDS PrivateStage, Indexes, FunctionTheorems, FiniteSetTheorems, SequenceTheorems,
        WellFoundedInduction, TLAPS

\* What IInv says of one project, apart from PROJNAMES and the simple links.
Sound(x) ==
    /\ x \in Project
    /\ \A v \in Versions : v \in x.versions <=> x.verdata[v].meta # NoMeta
    /\ LinksInOrder(x)

\* What FilesAreLinked says of one project.
Linked(x) ==
    /\ \A e \in x.entries : e.path \in x.verdata[e.version].links
    /\ \A v \in Versions : \A p \in x.verdata[v].links :
            Ambiguous(p) \/ [path |-> p, version |-> v] \in x.entries

Tidy(x) == Sound(x) /\ Linked(x)

\* What VersionsAgree says of PROJNAMES.
Known(x) == x.known <=> x.versions # {}

\* What a project is after every request, and the invariant which follows from it.
Good(x) == Tidy(x) /\ Known(x) /\ SimpleInOrder(x)

Inv ==
    /\ config \in [Stages -> {NoIndex, "volatile", "nonvolatile"}]
    /\ db \in [Stages -> Project]
    /\ \A s \in Stages : Good(db[s])

\* No release file or documentation is missing in y.
Keeps(x, y) ==
    \A v \in Versions : \A l \in x.verdata[v].links :
        l.rel # "toxresult" => l \in y.verdata[v].links

\* Two states of a project with the same links.
SameLinks(x, y) == \A v \in Versions : y.verdata[v].links = x.verdata[v].links

-----------------------------------------------------------------------------
(* Paths.                                                                  *)

LEMMA ForPath ==
    ASSUME NEW p \in Paths, p.rel = "toxresult"
    PROVE  For(p) \in Paths /\ For(p).rel = "releasefile" /\ For(p).name = p.name
BY DEF Paths, For

\* Results are results, and of files among the given ones.
LEMMA ResultsOf ==
    ASSUME NEW links, NEW paths
    PROVE  /\ Results(links, paths) \subseteq links
           /\ \A l \in links : l \in Results(links, paths) <=> l.rel = "toxresult" /\ For(l) \in paths
BY DEF Results

LEMMA PathKinds ==
    ASSUME NEW p \in Paths
    PROVE  /\ p.rel \in {"releasefile", "doczip", "toxresult"}
           /\ p.rel # "doczip" => p.name \in Names
           /\ p.rel = "doczip" => p.name \in Versions
BY DEF Paths

-----------------------------------------------------------------------------
(* What the operators do to the fields of a project.                       *)

LEMMA SetVersiondataFields ==
    ASSUME NEW x \in Project, NEW v \in Versions, NEW meta \in Metas
    PROVE  LET y == SetVersiondata(x, v, meta) IN
           /\ y \in Project
           /\ y.known /\ y.versions = x.versions \cup {v}
           /\ y.simple = x.simple /\ y.entries = x.entries
           /\ y.verdata[v].meta = meta
           /\ \A w \in Versions \ {v} : y.verdata[w].meta = x.verdata[w].meta
           /\ SameLinks(x, y)
<1> DEFINE y == SetVersiondata(x, v, meta)
           d == [x.verdata[v] EXCEPT !.meta = meta]
<1>1. d \in Versiondata /\ d.meta = meta /\ d.links = x.verdata[v].links
  BY DEF Project, Versiondata
<1> DEFINE vs == x.versions \cup {v}
<1>2. y = [x EXCEPT !.known = TRUE, !.versions = vs, !.verdata = [@ EXCEPT ![v] = d]]
      /\ vs \in SUBSET Versions
  BY DEF SetVersiondata, Project
<1>a. vs = x.versions \cup {v}
  OBVIOUS
<1> HIDE DEF y, d, vs
<1>3. /\ y \in Project
      /\ y.known = TRUE /\ y.versions = vs
      /\ y.simple = x.simple /\ y.entries = x.entries
      /\ y.verdata[v] = d /\ \A w \in Versions \ {v} : y.verdata[w] = x.verdata[w]
  BY <1>1, <1>2 DEF Project
<1>4. QED
  BY <1>1, <1>a, <1>3 DEF SameLinks, y

LEMMA RemoveLinksFields ==
    ASSUME NEW x \in Project, NEW v \in Versions, NEW gone
    PROVE  LET y == RemoveLinks(x, v, gone)
               all == gone \cup Results(x.verdata[v].links, gone)
           IN
           /\ y \in Project
           /\ y.known = x.known /\ y.versions = x.versions /\ y.simple = x.simple
           /\ y.entries = {e \in x.entries : e.path \notin all}
           /\ y.verdata[v].links = x.verdata[v].links \ all
           /\ \A w \in Versions \ {v} : y.verdata[w] = x.verdata[w]
           /\ \A w \in Versions : y.verdata[w].meta = x.verdata[w].meta
BY DEF RemoveLinks, Project, Versiondata, Entries

LEMMA AddLinksFields ==
    ASSUME NEW x \in Project, NEW v \in Versions, NEW new \in SUBSET Paths
    PROVE  LET y == AddLinks(x, v, new) IN
           /\ y \in Project
           /\ y.known = x.known /\ y.versions = x.versions /\ y.simple = x.simple
           /\ y.entries = {e \in x.entries : e.path \notin new}
                          \cup {[path |-> p, version |-> v] : p \in new}
           /\ y.verdata[v].links = x.verdata[v].links \cup new
           /\ \A w \in Versions \ {v} : y.verdata[w] = x.verdata[w]
           /\ \A w \in Versions : y.verdata[w].meta = x.verdata[w].meta
<1> DEFINE y == AddLinks(x, v, new)
           d == [x.verdata[v] EXCEPT !.links = @ \cup new]
           E == {e \in x.entries : e.path \notin new} \cup {[path |-> p, version |-> v] : p \in new}
<1>1. d \in Versiondata /\ d.meta = x.verdata[v].meta /\ d.links = x.verdata[v].links \cup new
  BY DEF Project, Versiondata
<1>2. E \in Entries
  BY DEF Project, Entries
<1>3. y = [x EXCEPT !.verdata = [@ EXCEPT ![v] = d], !.entries = E]
  BY DEF AddLinks, Project
<1>4. y.entries = E
  BY <1>3 DEF Project
<1> HIDE DEF y, d, E
<1>5. /\ y \in Project
      /\ y.known = x.known /\ y.versions = x.versions /\ y.simple = x.simple
      /\ y.verdata[v] = d /\ \A w \in Versions \ {v} : y.verdata[w] = x.verdata[w]
  BY <1>1, <1>2, <1>3 DEF Project
<1>6. QED
  BY <1>1, <1>4, <1>5 DEF E, y

LEMMA DelVersionsFields ==
    ASSUME NEW x \in Project, NEW vs \in SUBSET Versions
    PROVE  LET y == DelVersions(x, vs) IN
           /\ y \in Project
           /\ y.known = x.known /\ y.versions = x.versions \ vs /\ y.simple = x.simple
           /\ y.entries = {e \in x.entries : e.path \notin Links(x, vs)}
           /\ \A w \in vs : y.verdata[w] = NoVersiondata
           /\ \A w \in Versions \ vs : y.verdata[w] = x.verdata[w]
BY DEF DelVersions, Project, Versiondata, Entries, NoVersiondata
\* The simple links have the metadata of registered versions.
LEMMA RegenFields ==
    ASSUME NEW x, Sound(x)
    PROVE  LET y == Regen(x) IN
           /\ y \in Project
           /\ y.known = x.known /\ y.versions = x.versions /\ y.entries = x.entries
           /\ y.verdata = x.verdata
           /\ \A p : (\E l \in y.simple.links : l.path = p) <=>
                      \E v \in x.versions : p \in Releases(x.verdata[v].links)
<1> DEFINE y == Regen(x)
           L == UNION {{[path |-> p, meta |-> x.verdata[v].meta] :
                            p \in Releases(x.verdata[v].links)} : v \in x.versions}
           T == [path : Paths, meta : Metas]
<1>1. x \in Project
  BY DEF Sound
<1>2. \A v \in x.versions : /\ x.verdata[v].meta \in Metas
                            /\ Releases(x.verdata[v].links) \subseteq Paths
  BY <1>1 DEF Sound, Project, Versiondata, Releases
<1>3. L \in SUBSET T
  BY <1>2
<1>4. \A p : (\E l \in L : l.path = p) <=> \E v \in x.versions : p \in Releases(x.verdata[v].links)
  <2>1. ASSUME NEW l \in L
        PROVE  \E v \in x.versions : l.path \in Releases(x.verdata[v].links)
    OBVIOUS
  <2>2. ASSUME NEW v \in x.versions, NEW p \in Releases(x.verdata[v].links)
        PROVE  \E l \in L : l.path = p
    <3>1. [path |-> p, meta |-> x.verdata[v].meta] \in L
      OBVIOUS
    <3>2. QED
      BY <3>1
  <2>3. QED
    BY <2>1, <2>2
<1>5. y = [x EXCEPT !.simple = [key |-> TRUE, links |-> L]]
  BY DEF Regen
<1> HIDE DEF y, L
<1>6. y.simple = [key |-> TRUE, links |-> L]
  BY <1>1, <1>5 DEF Project
<1>7. [key |-> TRUE, links |-> L] \in SimpleLinks
  BY <1>3 DEF SimpleLinks
<1>8. y \in Project /\ y.known = x.known /\ y.versions = x.versions
      /\ y.entries = x.entries /\ y.verdata = x.verdata
  BY <1>1, <1>5, <1>7 DEF Project
<1>9. QED
  BY <1>4, <1>6, <1>8 DEF y

-----------------------------------------------------------------------------
(* What the operators keep in order.                                       *)

LEMMA SetVersiondataSound ==
    ASSUME NEW x, Sound(x), NEW v \in Versions, NEW meta \in Metas
    PROVE  LET y == SetVersiondata(x, v, meta) IN
           Sound(y) /\ v \in y.versions /\ y.known
<1> DEFINE y == SetVersiondata(x, v, meta)
<1>1. x \in Project /\ y \in Project
  BY SetVersiondataFields DEF Sound
<1>b. y.known
  BY <1>1, SetVersiondataFields
<1>2. /\ y.versions = x.versions \cup {v}
      /\ y.verdata[v].meta = meta
      /\ \A w \in Versions \ {v} : y.verdata[w].meta = x.verdata[w].meta
      /\ SameLinks(x, y)
  BY <1>1, SetVersiondataFields
<1> HIDE DEF y
<1>3. meta # NoMeta
  BY PrivateStageConstants
<1>4. \A w \in Versions : w \in y.versions <=> y.verdata[w].meta # NoMeta
  BY <1>2, <1>3 DEF Sound
<1>5. LinksInOrder(y)
  BY <1>2 DEF Sound, LinksInOrder, SameLinks
<1>6. QED
  BY <1>1, <1>b, <1>2, <1>4, <1>5 DEF Sound, y

LEMMA RemoveLinksSound ==
    ASSUME NEW x, Sound(x), NEW v \in Versions, NEW gone
    PROVE  Sound(RemoveLinks(x, v, gone))
<1> DEFINE y == RemoveLinks(x, v, gone)
           all == gone \cup Results(x.verdata[v].links, gone)
<1>1. x \in Project
  BY DEF Sound
<1>2. /\ y \in Project /\ y.versions = x.versions
      /\ y.verdata[v].links = x.verdata[v].links \ all
      /\ \A w \in Versions \ {v} : y.verdata[w] = x.verdata[w]
      /\ \A w \in Versions : y.verdata[w].meta = x.verdata[w].meta
  BY <1>1, RemoveLinksFields
<1> HIDE DEF y
<1>3. \A w \in Versions : y.verdata[w].links \subseteq x.verdata[w].links
  BY <1>2
<1>4. ASSUME NEW w \in Versions, NEW l \in y.verdata[w].links, l.rel = "toxresult"
      PROVE  For(l) \in y.verdata[w].links
  <2>1. l \in Paths /\ For(l) \in x.verdata[w].links /\ For(l).rel = "releasefile"
    BY <1>1, <1>3, <1>4, ForPath DEF Project, Versiondata, Sound, LinksInOrder
  <2>2. CASE w = v
    <3>1. l \in x.verdata[v].links /\ l \notin all
      BY <1>2, <2>2
    <3>2. For(l) \notin gone
      BY <1>4, <3>1, ResultsOf
    <3>3. For(l) \notin Results(x.verdata[v].links, gone)
      BY <2>1 DEF Results
    <3>4. QED
      BY <1>2, <2>1, <2>2, <3>2, <3>3
  <2>3. CASE w # v
    BY <1>2, <2>1, <2>3
  <2>4. QED
    BY <2>2, <2>3
<1>5. LinksInOrder(y)
  BY <1>2, <1>3, <1>4 DEF Sound, LinksInOrder
<1>6. QED
  BY <1>2, <1>5 DEF Sound, y

\* The new links belong to a registered version, and so do the files of new results.
LEMMA AddLinksSound ==
    ASSUME NEW x, Sound(x), NEW v \in Versions, NEW new \in SUBSET Paths,
           v \in x.versions,
           \A p \in new : Fit(p, v),
           \A p \in new : p.rel = "toxresult" => For(p) \in x.verdata[v].links \cup new
    PROVE  Sound(AddLinks(x, v, new))
<1> DEFINE y == AddLinks(x, v, new)
<1>1. x \in Project
  BY DEF Sound
<1>2. /\ y \in Project /\ y.versions = x.versions
      /\ y.verdata[v].links = x.verdata[v].links \cup new
      /\ \A w \in Versions \ {v} : y.verdata[w] = x.verdata[w]
      /\ \A w \in Versions : y.verdata[w].meta = x.verdata[w].meta
  BY <1>1, AddLinksFields
<1> HIDE DEF y
<1>3. ASSUME NEW w \in Versions, NEW l \in y.verdata[w].links
      PROVE  w \in y.versions /\ Fit(l, w) /\ (l.rel = "toxresult" => For(l) \in y.verdata[w].links)
  <2>1. CASE l \in x.verdata[w].links
    BY <1>2, <2>1 DEF Sound, LinksInOrder
  <2>2. CASE l \notin x.verdata[w].links
    BY <1>2, <2>2
  <2>3. QED
    BY <2>1, <2>2
<1>4. LinksInOrder(y)
  BY <1>3 DEF LinksInOrder
<1>5. QED
  BY <1>2, <1>4 DEF Sound, y

LEMMA RegenSound ==
    ASSUME NEW x, Sound(x)
    PROVE  Sound(Regen(x)) /\ SimpleInOrder(Regen(x))
<1> DEFINE y == Regen(x)
<1>1. /\ y \in Project
      /\ y.versions = x.versions /\ y.verdata = x.verdata
  BY RegenFields
<1>a. \A p : (\E l \in y.simple.links : l.path = p) <=>
              \E v \in x.versions : p \in Releases(x.verdata[v].links)
  BY RegenFields
<1> HIDE DEF y
<1>2. Sound(y)
  BY <1>1 DEF Sound, LinksInOrder
<1>3. \A p : p \in Releases(Links(y, Versions)) <=>
              \E v \in x.versions : p \in Releases(x.verdata[v].links)
  <2>1. \A v \in Versions : v \notin x.versions => x.verdata[v].links = {}
    BY DEF Sound, LinksInOrder
  <2>2. x.versions \subseteq Versions
    BY DEF Sound, Project
  <2>3. QED
    BY <1>1, <2>1, <2>2 DEF Releases, Links
<1>4. \A p : (\E l \in y.simple.links : l.path = p) <=> p \in Releases(Links(y, Versions))
  BY <1>3, <1>a
<1>5. {l.path : l \in y.simple.links} = Releases(Links(y, Versions))
  BY <1>4
<1>6. QED
  BY <1>2, <1>5 DEF SimpleInOrder, y

LEMMA DelVersionsSound ==
    ASSUME NEW x, Sound(x), NEW vs \in SUBSET Versions
    PROVE  Sound(DelVersions(x, vs))
<1> DEFINE y == DelVersions(x, vs)
<1>1. x \in Project
  BY DEF Sound
<1>2. /\ y \in Project /\ y.versions = x.versions \ vs
      /\ \A w \in vs : y.verdata[w].meta = NoMeta /\ y.verdata[w].links = {}
      /\ \A w \in Versions \ vs : y.verdata[w] = x.verdata[w]
  BY <1>1, DelVersionsFields DEF NoVersiondata
<1> HIDE DEF y
<1>3. \A v \in Versions : v \in y.versions <=> y.verdata[v].meta # NoMeta
  BY <1>2 DEF Sound
<1>4. LinksInOrder(y)
  BY <1>2 DEF Sound, LinksInOrder
<1>5. QED
  BY <1>2, <1>3, <1>4 DEF Sound, y
-----------------------------------------------------------------------------
(* Every file is linked, and a link has its file.                          *)

\* A file which two versions link has a name that fits both.
LEMMA TwoOwners ==
    ASSUME NEW x, Sound(x), NEW v \in Versions, NEW w \in Versions, v # w,
           NEW p \in x.verdata[v].links, p \in x.verdata[w].links
    PROVE  Ambiguous(p)
<1>1. p \in Paths /\ Fit(p, v) /\ Fit(p, w)
  BY DEF Sound, LinksInOrder, Project, Versiondata
<1>2. QED
  BY <1>1 DEF Ambiguous, Fit

\* The entries of a project.
LEMMA EntryFields ==
    ASSUME NEW x, Sound(x), NEW e \in x.entries
    PROVE  e.path \in Paths /\ e.version \in Versions /\ e = [path |-> e.path, version |-> e.version]
BY DEF Sound, Project, Entries

LEMMA LinksFit ==
    ASSUME NEW x, Sound(x), NEW v \in Versions, NEW l \in x.verdata[v].links
    PROVE  l \in Paths /\ Fit(l, v) /\ v \in x.versions
BY DEF Sound, LinksInOrder, Project, Versiondata

LEMMA RemoveLinksLinked ==
    ASSUME NEW x, Tidy(x), NEW v \in Versions, NEW gone \in SUBSET x.verdata[v].links
    PROVE  Tidy(RemoveLinks(x, v, gone))
<1> DEFINE y == RemoveLinks(x, v, gone)
           all == gone \cup Results(x.verdata[v].links, gone)
<1>1. Sound(x) /\ x \in Project
  BY DEF Tidy, Sound
<1>2. /\ y.entries = {e \in x.entries : e.path \notin all}
      /\ y.verdata[v].links = x.verdata[v].links \ all
      /\ \A w \in Versions \ {v} : y.verdata[w] = x.verdata[w]
  BY <1>1, RemoveLinksFields
<1>3. Sound(y)
  BY <1>1, RemoveLinksSound
<1>4. all \subseteq x.verdata[v].links
  BY ResultsOf
<1> HIDE DEF y, all
<1>5. ASSUME NEW e \in y.entries
      PROVE  e.path \in y.verdata[e.version].links
  <2>1. e \in x.entries /\ e.path \notin all
    BY <1>2
  <2>2. e.version \in Versions /\ e.path \in x.verdata[e.version].links
    BY <1>1, <2>1, EntryFields DEF Tidy, Linked
  <2>3. QED
    BY <1>2, <2>1, <2>2
<1>6. ASSUME NEW w \in Versions, NEW p \in y.verdata[w].links, ~Ambiguous(p)
      PROVE  [path |-> p, version |-> w] \in y.entries
  <2>1. p \in x.verdata[w].links
    BY <1>2
  <2>2. p \notin all
    BY <1>1, <1>2, <1>4, <1>6, <2>1, TwoOwners
  <2>3. [path |-> p, version |-> w] \in x.entries
    BY <1>6, <2>1 DEF Tidy, Linked
  <2>4. QED
    BY <1>2, <2>2, <2>3
<1>7. QED
  BY <1>3, <1>5, <1>6 DEF Tidy, Linked, y

LEMMA AddLinksLinked ==
    ASSUME NEW x, Tidy(x), NEW v \in Versions, NEW new \in SUBSET Paths,
           v \in x.versions,
           \A p \in new : Fit(p, v),
           \A p \in new : p.rel = "toxresult" => For(p) \in x.verdata[v].links \cup new
    PROVE  Tidy(AddLinks(x, v, new))
<1> DEFINE y == AddLinks(x, v, new)
<1>1. Sound(x) /\ x \in Project
  BY DEF Tidy, Sound
<1>2. /\ y.entries = {e \in x.entries : e.path \notin new}
                      \cup {[path |-> p, version |-> v] : p \in new}
      /\ y.verdata[v].links = x.verdata[v].links \cup new
      /\ \A w \in Versions \ {v} : y.verdata[w] = x.verdata[w]
  BY <1>1, AddLinksFields
<1> HIDE DEF y
<1>3. Sound(y)
  BY <1>1, AddLinksSound DEF y
<1>5. ASSUME NEW e \in y.entries
      PROVE  e.path \in y.verdata[e.version].links
  <2>1. CASE e \in x.entries
    <3>1. e.version \in Versions /\ e.path \in x.verdata[e.version].links
      BY <1>1, <2>1, EntryFields DEF Tidy, Linked
    <3>2. QED
      BY <1>2, <3>1
  <2>2. CASE \E p \in new : e = [path |-> p, version |-> v]
    BY <1>2, <2>2
  <2>3. QED
    BY <1>2, <2>1, <2>2
<1>6. ASSUME NEW w \in Versions, NEW p \in y.verdata[w].links, ~Ambiguous(p)
      PROVE  [path |-> p, version |-> w] \in y.entries
  <2>1. CASE p \in new
    <3>1. p \in y.verdata[v].links
      BY <1>2, <2>1
    <3>2. w = v
      BY <1>3, <1>6, <3>1, TwoOwners
    <3>3. QED
      BY <1>2, <2>1, <3>2
  <2>2. CASE p \notin new
    <3>1. p \in x.verdata[w].links
      BY <1>2, <2>2
    <3>2. [path |-> p, version |-> w] \in x.entries
      BY <1>6, <3>1 DEF Tidy, Linked
    <3>3. QED
      BY <1>2, <2>2, <3>2
  <2>3. QED
    BY <2>1, <2>2
<1>7. QED
  BY <1>3, <1>5, <1>6 DEF Tidy, Linked, y

LEMMA DelVersionsLinked ==
    ASSUME NEW x, Tidy(x), NEW vs \in SUBSET Versions
    PROVE  Tidy(DelVersions(x, vs))
<1> DEFINE y == DelVersions(x, vs)
<1>1. Sound(x) /\ x \in Project
  BY DEF Tidy, Sound
<1>2. /\ y.entries = {e \in x.entries : e.path \notin Links(x, vs)}
      /\ \A w \in vs : y.verdata[w].links = {}
      /\ \A w \in Versions \ vs : y.verdata[w] = x.verdata[w]
  BY <1>1, DelVersionsFields DEF NoVersiondata
<1>3. Sound(y)
  BY <1>1, DelVersionsSound
<1> HIDE DEF y
<1>5. ASSUME NEW e \in y.entries
      PROVE  e.path \in y.verdata[e.version].links
  <2>1. e \in x.entries /\ \A u \in vs : e.path \notin x.verdata[u].links
    BY <1>2 DEF Links
  <2>2. e.version \in Versions /\ e.path \in x.verdata[e.version].links
    BY <1>1, <2>1, EntryFields DEF Tidy, Linked
  <2>3. QED
    BY <1>2, <2>1, <2>2
<1>6. ASSUME NEW w \in Versions, NEW p \in y.verdata[w].links, ~Ambiguous(p)
      PROVE  [path |-> p, version |-> w] \in y.entries
  <2>1. w \notin vs /\ p \in x.verdata[w].links
    BY <1>2
  <2>2. \A u \in vs : p \notin x.verdata[u].links
    BY <1>1, <1>6, <2>1, TwoOwners
  <2>3. [path |-> p, version |-> w] \in x.entries
    BY <1>6, <2>1 DEF Tidy, Linked
  <2>4. QED
    BY <1>2, <2>2, <2>3 DEF Links
<1>7. QED
  BY <1>3, <1>5, <1>6 DEF Tidy, Linked, y

LEMMA RegenLinked ==
    ASSUME NEW x, Tidy(x)
    PROVE  Tidy(Regen(x)) /\ SimpleInOrder(Regen(x))
<1>1. Sound(x)
  BY DEF Tidy
<1>2. Regen(x).entries = x.entries /\ Regen(x).verdata = x.verdata
  BY <1>1, RegenFields
<1>3. QED
  BY <1>1, <1>2, RegenSound DEF Tidy, Linked

LEMMA SetVersiondataLinked ==
    ASSUME NEW x, Tidy(x), NEW v \in Versions, NEW meta \in Metas
    PROVE  Tidy(SetVersiondata(x, v, meta))
<1>1. Sound(x) /\ x \in Project
  BY DEF Tidy, Sound
<1> DEFINE y == SetVersiondata(x, v, meta)
<1>2. y.entries = x.entries /\ \A w \in Versions : y.verdata[w].links = x.verdata[w].links
  BY <1>1, SetVersiondataFields DEF SameLinks
<1>3. Sound(y)
  BY <1>1, SetVersiondataSound
<1> HIDE DEF y
<1>4. Linked(y)
  BY <1>1, <1>2, EntryFields DEF Tidy, Linked
<1>5. QED
  BY <1>3, <1>4 DEF Tidy, y

-----------------------------------------------------------------------------
(* The simple links and the methods which store them.                      *)

LEMMA SimpleKept ==
    ASSUME NEW x, SimpleInOrder(x), NEW y, y.simple = x.simple,
           \A v \in Versions : Releases(y.verdata[v].links) = Releases(x.verdata[v].links)
    PROVE  SimpleInOrder(y)
<1>1. Releases(Links(x, Versions)) = UNION {Releases(x.verdata[v].links) : v \in Versions}
  BY DEF Releases, Links
<1>2. Releases(Links(y, Versions)) = UNION {Releases(y.verdata[v].links) : v \in Versions}
  BY DEF Releases, Links
<1>3. QED
  BY <1>1, <1>2 DEF SimpleInOrder

LEMMA NamedOf ==
    ASSUME NEW links, NEW new
    PROVE  /\ Named(links, new) \subseteq links
           /\ \A l \in links : l \in Named(links, new) => \E p \in new : p.rel = l.rel /\ p.name = l.name
           /\ \A l \in links : l \in new => l \in Named(links, new)
BY DEF Named, Basename

\* The links of the version: those of the same names are replaced, their results deleted.
LEMMA CreateLinkedEntriesFields ==
    ASSUME NEW x, Tidy(x), NEW v \in Versions, NEW new \in SUBSET Paths, v \in x.versions,
           \A p \in new : Fit(p, v) /\ p.rel # "toxresult"
    PROVE  LET y == CreateLinkedEntries(x, v, new)
               named == Named(x.verdata[v].links, new)
           IN
           /\ Tidy(y)
           /\ y.known = x.known /\ y.versions = x.versions /\ y.simple = x.simple
           /\ \A w \in Versions \ {v} : y.verdata[w] = x.verdata[w]
           /\ y.verdata[v].links =
                (x.verdata[v].links \ (named \cup Results(x.verdata[v].links, named))) \cup new
<1> DEFINE named == Named(x.verdata[v].links, new)
           z == RemoveLinks(x, v, named)
           y == AddLinks(z, v, new)
<1>1. x \in Project
  BY DEF Tidy, Sound
<1>2. Tidy(z)
  BY NamedOf, RemoveLinksLinked
<1>3. /\ z \in Project
      /\ z.known = x.known /\ z.versions = x.versions /\ z.simple = x.simple
      /\ z.verdata[v].links = x.verdata[v].links \ (named \cup Results(x.verdata[v].links, named))
      /\ \A w \in Versions \ {v} : z.verdata[w] = x.verdata[w]
  BY <1>1, RemoveLinksFields
<1> HIDE DEF z, named
<1>4. Tidy(y)
  BY <1>2, <1>3, AddLinksLinked
<1>5. /\ y.known = z.known /\ y.versions = z.versions /\ y.simple = z.simple
      /\ y.verdata[v].links = z.verdata[v].links \cup new
      /\ \A w \in Versions \ {v} : y.verdata[w] = z.verdata[w]
  BY <1>3, AddLinksFields
<1>6. y = CreateLinkedEntries(x, v, new)
  BY DEF CreateLinkedEntries, z, named
<1> HIDE DEF y
<1>7. QED
  BY <1>3, <1>4, <1>5, <1>6 DEF named

LEMMA StoreReleasefilesFields ==
    ASSUME NEW x, Tidy(x), SimpleInOrder(x),
           NEW v \in Versions, NEW new \in SUBSET Paths, v \in x.versions,
           \A p \in new : Fit(p, v) /\ p.rel = "releasefile"
    PROVE  LET y == StoreReleasefiles(x, v, new) IN
           /\ Tidy(y) /\ SimpleInOrder(y)
           /\ y.known = x.known /\ y.versions = x.versions
           /\ \A w \in Versions \ {v} : y.verdata[w] = x.verdata[w]
           /\ new \subseteq y.verdata[v].links
           /\ y.verdata[v].links \subseteq x.verdata[v].links \cup new
           /\ \A l \in x.verdata[v].links : l.rel = "doczip" => l \in y.verdata[v].links
           /\ Named(x.verdata[v].links, new) = {} => x.verdata[v].links \subseteq y.verdata[v].links
<1> DEFINE c == CreateLinkedEntries(x, v, new)
           named == Named(x.verdata[v].links, new)
           y == Regen(c)
<1>1. CASE new = {}
  BY <1>1 DEF StoreReleasefiles
<1>2. CASE new # {}
  <2>1. /\ Tidy(c)
        /\ c.known = x.known /\ c.versions = x.versions
        /\ \A w \in Versions \ {v} : c.verdata[w] = x.verdata[w]
        /\ c.verdata[v].links =
            (x.verdata[v].links \ (named \cup Results(x.verdata[v].links, named))) \cup new
    BY CreateLinkedEntriesFields
  <2>2. y = StoreReleasefiles(x, v, new)
    BY <1>2 DEF StoreReleasefiles
  <2>3. \A l \in named : l.rel = "releasefile"
    BY NamedOf
  <2>4. \A l \in Results(x.verdata[v].links, named) : l.rel = "toxresult"
    BY ResultsOf
  <2>5. named = {} => Results(x.verdata[v].links, named) = {}
    BY ResultsOf
  <2> HIDE DEF c, named
  <2>6. /\ Tidy(y) /\ SimpleInOrder(y)
        /\ y.known = c.known /\ y.versions = c.versions /\ y.verdata = c.verdata
    <3>1. Sound(c)
      BY <2>1 DEF Tidy
    <3>2. QED
      BY <2>1, <3>1, RegenLinked, RegenFields
  <2> HIDE DEF y
  <2>7. \A l \in x.verdata[v].links : l.rel = "doczip" => l \in c.verdata[v].links
    BY <2>1, <2>3, <2>4
  <2>8. QED
    BY <2>1, <2>2, <2>5, <2>6, <2>7 DEF named
<1>3. QED
  BY <1>1, <1>2

\* Documentation is no release file.
LEMMA CreateDocs ==
    ASSUME NEW x, Tidy(x), SimpleInOrder(x),
           NEW v \in Versions, NEW new \in SUBSET Paths, v \in x.versions,
           \A p \in new : Fit(p, v) /\ p.rel = "doczip"
    PROVE  LET y == CreateLinkedEntries(x, v, new) IN
           /\ SimpleInOrder(y)
           /\ \A l \in x.verdata[v].links : l.rel = "releasefile" => l \in y.verdata[v].links
           /\ Named(x.verdata[v].links, new) = {} => x.verdata[v].links \subseteq y.verdata[v].links
<1> DEFINE y == CreateLinkedEntries(x, v, new)
           named == Named(x.verdata[v].links, new)
<1>1. /\ y.simple = x.simple
      /\ \A w \in Versions \ {v} : y.verdata[w] = x.verdata[w]
      /\ y.verdata[v].links =
            (x.verdata[v].links \ (named \cup Results(x.verdata[v].links, named))) \cup new
  BY CreateLinkedEntriesFields
<1>2. \A l \in named : l.rel = "doczip"
  BY NamedOf
<1>3. \A l \in Results(x.verdata[v].links, named) : l.rel = "toxresult"
  BY ResultsOf
<1> HIDE DEF y, named
<1>4. \A w \in Versions : Releases(y.verdata[w].links) = Releases(x.verdata[w].links)
  BY <1>1, <1>2, <1>3 DEF Releases
<1>5. QED
  <2>1. SimpleInOrder(y)
    BY <1>1, <1>4, SimpleKept
  <2>2. \A l \in x.verdata[v].links : l.rel = "releasefile" => l \in y.verdata[v].links
    BY <1>1, <1>2, <1>3
  <2>3. named = {} => Results(x.verdata[v].links, named) = {}
    BY ResultsOf
  <2>4. named = {} => x.verdata[v].links \subseteq y.verdata[v].links
    BY <1>1, <2>3
  <2>5. QED
    BY <2>1, <2>2, <2>4 DEF y, named

\* Nor are test results.
LEMMA AddResults ==
    ASSUME NEW x, Tidy(x), SimpleInOrder(x),
           NEW v \in Versions, NEW new \in SUBSET Paths, v \in x.versions,
           \A p \in new : p.rel = "toxresult" /\ For(p) \in x.verdata[v].links
    PROVE  LET y == AddLinks(x, v, new) IN
           /\ Tidy(y) /\ SimpleInOrder(y)
           /\ y.known = x.known /\ y.versions = x.versions
           /\ \A w \in Versions : x.verdata[w].links \subseteq y.verdata[w].links
<1> DEFINE y == AddLinks(x, v, new)
<1>1. x \in Project /\ Sound(x)
  BY DEF Tidy, Sound
<1>2. \A p \in new : Fit(p, v)
  <2> TAKE p \in new
  <2>1. For(p).rel = "releasefile" /\ For(p).name = p.name /\ Fit(For(p), v)
    BY <1>1, ForPath, LinksFit
  <2>2. QED
    BY <2>1 DEF Fit
<1>3. Tidy(y)
  BY <1>2, AddLinksLinked
<1>4. /\ y.known = x.known /\ y.versions = x.versions /\ y.simple = x.simple
      /\ y.verdata[v].links = x.verdata[v].links \cup new
      /\ \A w \in Versions \ {v} : y.verdata[w] = x.verdata[w]
  BY <1>1, AddLinksFields
<1> HIDE DEF y
<1>5. \A w \in Versions : Releases(y.verdata[w].links) = Releases(x.verdata[w].links)
  BY <1>4 DEF Releases
<1>6. SimpleInOrder(y)
  BY <1>4, <1>5, SimpleKept
<1>7. QED
  BY <1>3, <1>4, <1>6 DEF y

LEMMA DelProjectTidy ==
    ASSUME NEW x, Tidy(x)
    PROVE  LET y == DelProject(x) IN Tidy(y) /\ SimpleInOrder(y) /\ Known(y)
<1> DEFINE d == DelVersions(x, x.versions)
           y == DelProject(x)
<1>1. x \in Project /\ x.versions \in SUBSET Versions
  BY DEF Tidy, Sound, Project
<1>2. Tidy(d) /\ d.versions = {} /\ d \in Project
  BY <1>1, DelVersionsLinked, DelVersionsFields
<1> HIDE DEF d
<1>3. y = [d EXCEPT !.known = FALSE, !.simple = NoSimple]
  BY DEF DelProject, d
<1>4. NoSimple \in SimpleLinks /\ NoSimple.links = {}
  BY DEF NoSimple, SimpleLinks
<1>5. /\ y \in Project /\ ~y.known /\ y.simple = NoSimple
      /\ y.versions = d.versions /\ y.verdata = d.verdata /\ y.entries = d.entries
  BY <1>2, <1>3, <1>4 DEF Project
<1> HIDE DEF y
<1>6. Tidy(y)
  BY <1>2, <1>5 DEF Tidy, Sound, LinksInOrder, Linked
<1>7. \A v \in Versions : y.verdata[v].links = {}
  BY <1>2, <1>5, LinksFit DEF Tidy
<1>8. SimpleInOrder(y)
  BY <1>4, <1>5, <1>7 DEF SimpleInOrder, Releases, Links
<1>9. QED
  BY <1>2, <1>5, <1>6, <1>8 DEF Known, y

LEMMA DelVersiondataTidy ==
    ASSUME NEW x, Tidy(x), Known(x), NEW v \in Versions
    PROVE  LET y == DelVersiondata(x, v) IN Tidy(y) /\ SimpleInOrder(y) /\ Known(y)
<1> DEFINE d == DelVersions(x, {v})
           y == Regen(d)
<1>1. x \in Project
  BY DEF Tidy, Sound
<1>2. Tidy(d) /\ d.known = x.known /\ d.versions = x.versions \ {v}
  BY <1>1, DelVersionsLinked, DelVersionsFields
<1> HIDE DEF d
<1>3. Sound(d)
  BY <1>2 DEF Tidy
<1>4. Tidy(y) /\ SimpleInOrder(y) /\ y.known = x.known /\ y.versions = x.versions \ {v}
  BY <1>2, <1>3, RegenLinked, RegenFields
<1>5. DelVersiondata(x, v) = IF y.versions = {} THEN DelProject(y) ELSE y
  BY DEF DelVersiondata, d
<1> HIDE DEF y
<1>6. CASE y.versions = {}
  BY <1>4, <1>5, <1>6, DelProjectTidy
<1>7. CASE y.versions # {}
  <2>1. Known(y)
    BY <1>4, <1>7 DEF Known
  <2>2. QED
    BY <1>4, <1>5, <1>7, <2>1
<1>8. QED
  BY <1>6, <1>7

\* del_entry removes no file of a second link, unless its name is ambiguous.
LEMMA DelEntryTidy ==
    ASSUME NEW x, Tidy(x), Known(x), NEW e \in x.entries
    PROVE  LET y == DelEntry(x, e) IN Tidy(y) /\ SimpleInOrder(y) /\ Known(y)
<1> DEFINE v == e.version
           gone == Named(x.verdata[v].links, {e.path})
           y == RemoveLinks(x, v, gone)
           z == [y EXCEPT !.entries = {f \in @ : f.path # e.path}]
<1>1. /\ x \in Project /\ Sound(x)
      /\ e.path \in Paths /\ v \in Versions /\ e = [path |-> e.path, version |-> v]
  BY DEF Tidy, Sound, Project, Entries
<1>2. gone \subseteq x.verdata[v].links
  BY NamedOf
<1>3. Tidy(y)
  BY <1>1, <1>2, RemoveLinksLinked
<1>4. /\ y \in Project /\ y.known = x.known /\ y.versions = x.versions
      /\ y.verdata[v].links = x.verdata[v].links \ (gone \cup Results(x.verdata[v].links, gone))
      /\ \A w \in Versions \ {v} : y.verdata[w] = x.verdata[w]
  BY <1>1, RemoveLinksFields
<1>5. \A w \in Versions : e.path \in y.verdata[w].links => Ambiguous(e.path)
  <2> SUFFICES ASSUME NEW w \in Versions, e.path \in y.verdata[w].links
               PROVE  Ambiguous(e.path)
    OBVIOUS
  <2>1. e.path \in x.verdata[v].links
    BY <1>1 DEF Tidy, Linked
  <2>2. e.path \in gone
    BY <2>1, NamedOf
  <2>3. w # v /\ e.path \in x.verdata[w].links
    BY <1>4, <2>2
  <2>4. QED
    BY <1>1, <2>1, <2>3, TwoOwners
<1>c. \A f \in y.entries : f.path # e.path => f.path \in y.verdata[f.version].links
  BY <1>3 DEF Tidy, Linked
<1> HIDE DEF y, gone
<1>6. {f \in y.entries : f.path # e.path} \in Entries
  BY <1>4 DEF Project, Entries
<1>7. /\ z \in Project /\ z.known = x.known /\ z.versions = x.versions /\ z.verdata = y.verdata
      /\ z.entries = {f \in y.entries : f.path # e.path}
  BY <1>4, <1>6 DEF Project
<1> HIDE DEF z
<1>a. Sound(z)
  <2>1. Sound(y) /\ z.versions = y.versions
    BY <1>3, <1>4, <1>7 DEF Tidy
  <2>2. QED
    BY <1>7, <2>1 DEF Sound, LinksInOrder
<1>b. Known(z)
  BY <1>7 DEF Known
<1>8. Sound(z) /\ Known(z)
  BY <1>a, <1>b
<1>9. Linked(z)
  <2>1. \A f \in z.entries : f.path \in z.verdata[f.version].links
    BY <1>7, <1>c
  <2>2. ASSUME NEW w \in Versions, NEW p \in z.verdata[w].links, ~Ambiguous(p)
        PROVE  [path |-> p, version |-> w] \in z.entries
    <3>1. p \in y.verdata[w].links /\ p # e.path
      BY <1>5, <1>7, <2>2
    <3>2. [path |-> p, version |-> w] \in y.entries
      BY <1>3, <2>2, <3>1 DEF Tidy, Linked
    <3>3. QED
      BY <1>7, <3>1, <3>2
  <2>3. QED
    BY <2>1, <2>2 DEF Linked
<1>10. Tidy(z)
  BY <1>8, <1>9 DEF Tidy
<1>11. CASE z.verdata[v].links = {}
  <2> DEFINE d == DelVersiondata(z, v)
  <2>1. Tidy(d) /\ Known(d) /\ Sound(d)
    BY <1>1, <1>8, <1>10, DelVersiondataTidy DEF Tidy
  <2>2. DelEntry(x, e) = Regen(d)
    BY <1>11 DEF DelEntry, z, y, gone
  <2> HIDE DEF d
  <2>3. Known(Regen(d))
    BY <2>1, RegenFields DEF Known
  <2>4. QED
    BY <2>1, <2>2, <2>3, RegenLinked
<1>12. CASE z.verdata[v].links # {}
  <2>1. DelEntry(x, e) = Regen(z)
    BY <1>12 DEF DelEntry, z, y, gone
  <2>2. Known(Regen(z))
    BY <1>8, RegenFields DEF Known
  <2>3. QED
    BY <1>10, <2>1, <2>2, RegenLinked
<1>13. QED
  BY <1>11, <1>12

-----------------------------------------------------------------------------
(* The requests.                                                           *)

LEMMA InitGood == Good(Empty) /\ Empty \in Project
<1>1. NoVersiondata \in Versiondata /\ NoVersiondata.meta = NoMeta /\ NoVersiondata.links = {}
  BY DEF NoVersiondata, Versiondata
<1>2. NoSimple \in SimpleLinks /\ NoSimple.links = {}
  BY DEF NoSimple, SimpleLinks
<1>3. {} \in Entries
  BY DEF Entries
<1>4. Empty \in Project
  BY <1>1, <1>2, <1>3 DEF Empty, Project
<1>5. /\ ~Empty.known /\ Empty.versions = {} /\ Empty.entries = {} /\ Empty.simple = NoSimple
      /\ \A v \in Versions : Empty.verdata[v] = NoVersiondata
  BY DEF Empty
<1>6. Tidy(Empty)
  BY <1>1, <1>4, <1>5 DEF Tidy, Sound, Linked, LinksInOrder
<1>7. Known(Empty) /\ SimpleInOrder(Empty)
  BY <1>1, <1>2, <1>5 DEF Known, SimpleInOrder, Releases, Links
<1>8. QED
  BY <1>4, <1>6, <1>7 DEF Good

LEMMA WriteInv ==
    ASSUME Inv, NEW s \in Stages, NEW y, Good(y), Write(s, y)
    PROVE  Inv'
<1>1. y \in Project
  BY DEF Good, Tidy, Sound
<1>2. /\ config' = config /\ db' \in [Stages -> Project]
      /\ \A r \in Stages : Good(db'[r])
  BY <1>1 DEF Inv, Write
<1>3. QED
  BY <1>2 DEF Inv

LEMMA RegisterGood ==
    ASSUME NEW x, Good(x), NEW v \in Versions, NEW meta \in Metas
    PROVE  LET y == SetVersiondata(x, v, meta) IN
           Good(y) /\ v \in y.versions /\ SameLinks(x, y) /\ Keeps(x, y)
<1> DEFINE y == SetVersiondata(x, v, meta)
<1>1. Tidy(x) /\ Sound(x) /\ x \in Project
  BY DEF Good, Tidy, Sound
<1>2. Tidy(y)
  BY <1>1, SetVersiondataLinked
<1>3. y.known /\ v \in y.versions
  BY <1>1, SetVersiondataSound
<1>4. y.simple = x.simple /\ SameLinks(x, y)
  BY <1>1, SetVersiondataFields
<1> HIDE DEF y
<1>5. SimpleInOrder(y)
  BY <1>4, SimpleKept DEF Good, SameLinks
<1>6. QED
  BY <1>2, <1>3, <1>4, <1>5 DEF Good, Known, Keeps, SameLinks, y

\* store_releasefile of one file, in a version which is registered.
LEMMA UploadGood ==
    ASSUME NEW x, Good(x), NEW v \in Versions, v \in x.versions,
           NEW path \in Paths, path.rel = "releasefile", v \in Fits[path.name]
    PROVE  LET y == StoreReleasefiles(x, v, {path}) IN
           Good(y) /\ (Named(x.verdata[v].links, {path}) = {} => Keeps(x, y))
<1> DEFINE y == StoreReleasefiles(x, v, {path})
           new == {path}
<1>1. Tidy(x) /\ SimpleInOrder(x) /\ new \in SUBSET Paths
  BY DEF Good
<1>2. \A p \in new : Fit(p, v) /\ p.rel = "releasefile"
  BY DEF Fit
<1> HIDE DEF new
<1>3. LET z == StoreReleasefiles(x, v, new) IN
      /\ Tidy(z) /\ SimpleInOrder(z)
      /\ z.known = x.known /\ z.versions = x.versions
      /\ \A w \in Versions \ {v} : z.verdata[w] = x.verdata[w]
      /\ Named(x.verdata[v].links, new) = {} => x.verdata[v].links \subseteq z.verdata[v].links
  BY <1>1, <1>2, StoreReleasefilesFields
<1>4. QED
  BY <1>3 DEF Good, Known, Keeps, new

\* The same for documentation.
LEMMA UploadDocGood ==
    ASSUME NEW x, Good(x), NEW v \in Versions, v \in x.versions,
           NEW path \in Paths, path.rel = "doczip", path.name = v
    PROVE  LET y == CreateLinkedEntries(x, v, {path}) IN
           Good(y) /\ (Named(x.verdata[v].links, {path}) = {} => Keeps(x, y))
<1> DEFINE new == {path}
<1>1. Tidy(x) /\ SimpleInOrder(x) /\ new \in SUBSET Paths
  BY DEF Good
<1>2. \A p \in new : Fit(p, v) /\ p.rel = "doczip" /\ p.rel # "toxresult"
  BY DEF Fit
<1> HIDE DEF new
<1>3. LET z == CreateLinkedEntries(x, v, new) IN
      /\ Tidy(z)
      /\ z.known = x.known /\ z.versions = x.versions
      /\ \A w \in Versions \ {v} : z.verdata[w] = x.verdata[w]
  BY <1>1, <1>2, CreateLinkedEntriesFields
<1>4. LET z == CreateLinkedEntries(x, v, new) IN
      /\ SimpleInOrder(z)
      /\ Named(x.verdata[v].links, new) = {} => x.verdata[v].links \subseteq z.verdata[v].links
  BY <1>1, <1>2, CreateDocs
<1>5. QED
  BY <1>3, <1>4 DEF Good, Known, Keeps, new

\* What is pushed to an index which is not volatile has no name it has already.
LEMMA PushUpToFields ==
    ASSUME NEW links \in SUBSET Paths, NEW target \in SUBSET Paths, NEW volatile \in BOOLEAN
    PROVE  LET new == PushUpTo(links, target, volatile) IN
           /\ new \subseteq links
           /\ \A p \in new : p.rel \in {"releasefile", "doczip"}
           /\ ~volatile => Named(target, new) = {}
<1> DEFINE new == PushUpTo(links, target, volatile)
           refused == IF volatile THEN {} ELSE Named(links, target)
<1>1. \A p \in new :
        /\ p \in links
        /\ \/ p.rel = "releasefile" /\ \A r \in Releases(refused) : p.name < r.name
           \/ p.rel = "doczip" /\ p \notin refused
  BY DEF PushUpTo, Releases
<1>2. ASSUME ~volatile, NEW l \in target, NEW p \in new, Basename(p) = Basename(l)
      PROVE  FALSE
  <2>1. p \in refused
    BY <1>1, <1>2 DEF Named
  <2>2. p.rel = "releasefile" /\ p \in Releases(refused) /\ p.name < p.name
    BY <1>1, <2>1 DEF Releases
  <2>3. p.name \in Nat
    BY <1>1, <2>2, PathKinds, PrivateStageConstants
  <2>4. QED
    BY <2>2, <2>3
<1>3. ~volatile => Named(target, new) = {}
  BY <1>2 DEF Named
<1>4. QED
  BY <1>1, <1>3

\* _push_links into x, whose version is registered, of links of that version.
LEMMA PushGood ==
    ASSUME NEW x, Good(x), NEW v \in Versions, v \in x.versions,
           NEW links \in SUBSET Paths, \A l \in links : Fit(l, v), NEW volatile \in BOOLEAN
    PROVE  LET new == PushUpTo(links, x.verdata[v].links, volatile)
               y == StoreReleasefiles(x, v, Releases(new))
               z == CreateLinkedEntries(y, v, new \ Releases(new))
               w == AddLinks(z, v, Results(links, new))
           IN Good(w) /\ (~volatile => Keeps(x, w))
<1> DEFINE new == PushUpTo(links, x.verdata[v].links, volatile)
           files == Releases(new)
           docs == new \ Releases(new)
           y == StoreReleasefiles(x, v, files)
           z == CreateLinkedEntries(y, v, docs)
           tested == Results(links, new)
           w == AddLinks(z, v, tested)
<1>1. Tidy(x) /\ SimpleInOrder(x) /\ x.verdata[v].links \in SUBSET Paths
  BY DEF Good, Tidy, Sound, Project, Versiondata
<1>2. /\ new \subseteq links /\ \A p \in new : p.rel \in {"releasefile", "doczip"}
      /\ ~volatile => Named(x.verdata[v].links, new) = {}
  BY <1>1, PushUpToFields
<1> HIDE DEF new
<1>3. /\ files \in SUBSET Paths /\ \A p \in files : Fit(p, v) /\ p.rel = "releasefile"
      /\ docs \in SUBSET Paths
      /\ \A p \in docs : Fit(p, v) /\ p.rel = "doczip" /\ p.rel # "toxresult"
  BY <1>2 DEF Releases
<1>4. files \subseteq new /\ docs \subseteq new
  BY DEF Releases
<1>5. tested \in SUBSET Paths /\ \A p \in tested : p.rel = "toxresult" /\ For(p) \in files
  <2>1. tested \subseteq links /\ \A p \in tested : p.rel = "toxresult" /\ For(p) \in new
    BY ResultsOf
  <2>2. \A p \in tested : For(p).rel = "releasefile"
    BY <2>1, ForPath
  <2>3. QED
    BY <2>1, <2>2 DEF Releases
<1> HIDE DEF files, docs, tested
<1>6. /\ Tidy(y) /\ SimpleInOrder(y)
      /\ y.known = x.known /\ y.versions = x.versions
      /\ \A u \in Versions \ {v} : y.verdata[u] = x.verdata[u]
      /\ files \subseteq y.verdata[v].links
      /\ y.verdata[v].links \subseteq x.verdata[v].links \cup files
      /\ Named(x.verdata[v].links, files) = {} => x.verdata[v].links \subseteq y.verdata[v].links
  BY <1>1, <1>3, StoreReleasefilesFields
<1> HIDE DEF y
<1>7. /\ Tidy(z)
      /\ z.known = y.known /\ z.versions = y.versions
      /\ \A u \in Versions \ {v} : z.verdata[u] = y.verdata[u]
  BY <1>3, <1>6, CreateLinkedEntriesFields
<1>8. /\ SimpleInOrder(z)
      /\ \A l \in y.verdata[v].links : l.rel = "releasefile" => l \in z.verdata[v].links
      /\ Named(y.verdata[v].links, docs) = {} => y.verdata[v].links \subseteq z.verdata[v].links
  BY <1>3, <1>6, CreateDocs
<1> HIDE DEF z
<1>9. \A p \in tested : For(p) \in z.verdata[v].links
  BY <1>3, <1>5, <1>6, <1>8
<1>10. /\ Tidy(w) /\ SimpleInOrder(w)
       /\ w.known = z.known /\ w.versions = z.versions
       /\ \A u \in Versions : z.verdata[u].links \subseteq w.verdata[u].links
  BY <1>5, <1>6, <1>7, <1>8, <1>9, AddResults
<1> HIDE DEF w
<1>11. Good(w)
  BY <1>6, <1>7, <1>10 DEF Good, Known
<1>12. ASSUME ~volatile PROVE Keeps(x, w)
  <2>1. Named(x.verdata[v].links, files) = {}
    BY <1>2, <1>4, <1>12 DEF Named
  <2>2. Named(y.verdata[v].links, docs) = {}
    <3>1. SUFFICES ASSUME NEW l \in y.verdata[v].links, NEW p \in docs, Basename(p) = Basename(l)
                   PROVE  FALSE
      BY DEF Named
    <3>2. l.rel = "doczip"
      BY <1>3, <3>1 DEF Basename
    <3>3. l \in x.verdata[v].links
      BY <1>3, <1>6, <3>2
    <3>4. QED
      BY <1>2, <1>4, <1>12, <3>1, <3>3 DEF Named
  <2>3. \A u \in Versions : x.verdata[u].links \subseteq w.verdata[u].links
    BY <1>6, <1>7, <1>8, <1>10, <2>1, <2>2
  <2>4. QED
    BY <2>3 DEF Keeps
<1>13. QED
  BY <1>11, <1>12 DEF w, z, y, tested, docs, files, new

\* A request of which an index comes out in order, and with everything if it is not volatile.
Served(s) ==
    \E y : Good(y) /\ Write(s, y) /\ (~Volatile(s) => Keeps(db[s], y))

LEMMA RegisterServed ==
    ASSUME Inv, NEW s \in Stages, NEW v \in Versions, NEW meta \in Metas, Register(s, v, meta)
    PROVE  Served(s)
<1>1. Good(db[s])
  BY DEF Inv
<1>2. QED
  BY <1>1, RegisterGood DEF Served, Register

LEMMA UploadServed ==
    ASSUME Inv, NEW s \in Stages, NEW v \in Versions, NEW meta \in Metas, NEW path \in Paths,
           Upload(s, v, meta, path)
    PROVE  Served(s)
<1> DEFINE x == SetVersiondata(db[s], v, meta)
           y == StoreReleasefiles(x, v, {path})
<1>1. Good(db[s])
  BY DEF Inv
<1>2. Good(x) /\ v \in x.versions /\ SameLinks(db[s], x) /\ Keeps(db[s], x)
  BY <1>1, RegisterGood
<1>3. /\ path.rel = "releasefile" /\ v \in Fits[path.name]
      /\ Write(s, IF ~Volatile(s) /\ Named(x.verdata[v].links, {path}) # {} THEN x ELSE y)
  BY DEF Upload
<1> HIDE DEF x
<1>4. Good(y) /\ (Named(x.verdata[v].links, {path}) = {} => Keeps(x, y))
  BY <1>2, <1>3, UploadGood
<1> HIDE DEF y
<1>5. Keeps(x, y) => Keeps(db[s], y)
  BY <1>2 DEF Keeps
<1>6. QED
  BY <1>2, <1>3, <1>4, <1>5 DEF Served

LEMMA UploadDocServed ==
    ASSUME Inv, NEW s \in Stages, NEW v \in Versions, NEW meta \in Metas, NEW path \in Paths,
           UploadDoc(s, v, meta, path)
    PROVE  Served(s)
<1>1. Good(db[s]) /\ path.rel = "doczip" /\ path.name = v
  BY DEF Inv, UploadDoc
<1>2. CASE LET x == SetVersiondata(db[s], v, meta) IN
           Write(s, IF ~Volatile(s) /\ Named(x.verdata[v].links, {path}) # {}
                    THEN x ELSE CreateLinkedEntries(x, v, {path}))
  <2> DEFINE x == SetVersiondata(db[s], v, meta)
             y == CreateLinkedEntries(x, v, {path})
  <2>1. Good(x) /\ v \in x.versions /\ Keeps(db[s], x)
    BY <1>1, RegisterGood
  <2>2. Write(s, IF ~Volatile(s) /\ Named(x.verdata[v].links, {path}) # {} THEN x ELSE y)
    BY <1>2
  <2> HIDE DEF x
  <2>3. Good(y) /\ (Named(x.verdata[v].links, {path}) = {} => Keeps(x, y))
    BY <1>1, <2>1, UploadDocGood
  <2> HIDE DEF y
  <2>4. Keeps(x, y) => Keeps(db[s], y)
    BY <2>1 DEF Keeps
  <2>5. QED
    BY <2>1, <2>2, <2>3, <2>4 DEF Served
<1>3. CASE /\ IsLatest(v, db[s].versions)
           /\ Volatile(s) \/ Named(db[s].verdata[v].links, {path}) = {}
           /\ Write(s, CreateLinkedEntries(db[s], v, {path}))
  <2> DEFINE y == CreateLinkedEntries(db[s], v, {path})
  <2>1. v \in db[s].versions
    BY <1>3 DEF IsLatest
  <2>2. Good(y) /\ (Named(db[s].verdata[v].links, {path}) = {} => Keeps(db[s], y))
    BY <1>1, <2>1, UploadDocGood
  <2> HIDE DEF y
  <2>3. QED
    BY <1>3, <2>2 DEF Served, y
<1>4. QED
  BY <1>2, <1>3 DEF UploadDoc

LEMMA PostToxresultServed ==
    ASSUME Inv, NEW s \in Stages, NEW path \in Paths, PostToxresult(s, path)
    PROVE  Served(s)
<1>1. PICK e \in db[s].entries :
        /\ path.rel = "toxresult" /\ e.path = For(path)
        /\ e.path \in db[s].verdata[e.version].links
        /\ Write(s, AddLinks(db[s], e.version, {path}))
  BY DEF PostToxresult
<1> DEFINE x == db[s]
           v == e.version
           new == {path}
           y == AddLinks(x, v, new)
<1>2. Good(x) /\ Tidy(x) /\ Sound(x) /\ SimpleInOrder(x)
  BY DEF Inv, Good, Tidy
<1>3. v \in Versions /\ v \in x.versions
  <2>1. v \in Versions
    BY <1>2 DEF Sound, Project, Entries
  <2>2. QED
    BY <1>1, <1>2, <2>1, LinksFit
<1>4. new \in SUBSET Paths /\ \A p \in new : p.rel = "toxresult" /\ For(p) \in x.verdata[v].links
  BY <1>1
<1>5. Write(s, y)
  BY <1>1
<1> HIDE DEF new, x
<1>6. /\ Tidy(y) /\ SimpleInOrder(y)
      /\ y.known = x.known /\ y.versions = x.versions
      /\ \A w \in Versions : x.verdata[w].links \subseteq y.verdata[w].links
  BY <1>2, <1>3, <1>4, AddResults
<1> HIDE DEF y
<1>7. Good(y) /\ Keeps(x, y)
  BY <1>2, <1>6 DEF Good, Known, Keeps
<1>8. QED
  BY <1>5, <1>7 DEF Served, x

LEMMA PushServed ==
    ASSUME Inv, NEW s \in Stages, NEW t \in Stages, NEW v \in Versions,
           NEW docs \in BOOLEAN, NEW files \in BOOLEAN, Push(s, t, v, docs, files)
    PROVE  Served(t)
<1> DEFINE verdata == db[s].verdata[v]
           links == {p \in verdata.links : IF p.rel = "doczip" THEN docs ELSE files}
           x == SetVersiondata(db[t], v, verdata.meta)
           new == PushUpTo(links, x.verdata[v].links, Volatile(t))
           y == StoreReleasefiles(x, v, Releases(new))
           z == CreateLinkedEntries(y, v, new \ Releases(new))
           w == AddLinks(z, v, Results(links, new))
<1>1. links # {} /\ Write(t, w)
  BY DEF Push
<1>2. Good(db[t]) /\ Good(db[s]) /\ Sound(db[s])
  BY DEF Inv, Good, Tidy
<1>3. \A l \in verdata.links : l \in Paths /\ Fit(l, v) /\ v \in db[s].versions
  BY <1>2, LinksFit
<1>4. verdata.meta \in Metas
  BY <1>1, <1>2, <1>3 DEF Sound, Project, Versiondata
<1>5. links \in SUBSET Paths /\ \A l \in links : Fit(l, v)
  BY <1>3
<1> HIDE DEF verdata, links
<1>6. Good(x) /\ v \in x.versions /\ Keeps(db[t], x)
  BY <1>2, <1>4, RegisterGood
<1>7. Volatile(t) \in BOOLEAN
  BY DEF Volatile
<1> HIDE DEF x
<1>8. Good(w) /\ (~Volatile(t) => Keeps(x, w))
  BY <1>5, <1>6, <1>7, PushGood
<1> HIDE DEF w
<1>9. Keeps(x, w) => Keeps(db[t], w)
  BY <1>6 DEF Keeps
<1>10. QED
  BY <1>1, <1>8, <1>9 DEF Served

\* A deletion without "force" is of a volatile index.
LEMMA DeletionGood ==
    ASSUME Inv, NEW s \in Stages, NEW force \in BOOLEAN, Deletion(s, force)
    PROVE  \E y : Good(y) /\ Write(s, y)
<1>1. Good(db[s]) /\ Tidy(db[s]) /\ Known(db[s]) /\ db[s] \in Project
  BY DEF Inv, Good
<1>2. CASE DelPkg(s, force)
  BY <1>1, <1>2, DelEntryTidy DEF DelPkg, Good
<1>3. CASE DelVersion(s, force)
  <2>1. db[s].versions \subseteq Versions
    BY <1>1 DEF Project
  <2>2. QED
    BY <1>1, <1>3, <2>1, DelVersiondataTidy DEF DelVersion, Good
<1>4. CASE DelKnownProject(s, force)
  BY <1>1, <1>4, DelProjectTidy DEF DelKnownProject, Good
<1>5. CASE DelUnknownProject(s, force)
  <2> DEFINE d == DelVersions(db[s], db[s].versions)
  <2>1. /\ Tidy(d) /\ d.known = db[s].known
        /\ d.versions = db[s].versions \ db[s].versions
    <3>1. db[s].versions \in SUBSET Versions
      BY <1>1 DEF Project
    <3>2. QED
      BY <1>1, <3>1, DelVersionsLinked, DelVersionsFields
  <2>2. Write(s, Regen(d)) /\ ~db[s].known
    BY <1>5 DEF DelUnknownProject
  <2> HIDE DEF d
  <2>3. Sound(d)
    BY <2>1 DEF Tidy
  <2>4. Regen(d).known = d.known /\ Regen(d).versions = d.versions
    BY <2>3, RegenFields
  <2>5. Known(Regen(d))
    BY <2>1, <2>2, <2>4 DEF Known
  <2>6. QED
    BY <2>1, <2>2, <2>5, RegenLinked DEF Good
<1>6. QED
  BY <1>2, <1>3, <1>4, <1>5 DEF Deletion

LEMMA DeleteIndexInv ==
    ASSUME Inv, NEW s \in Stages, DeleteIndex(s)
    PROVE  Inv'
<1> DEFINE y == IF db[s].known THEN DelProject(db[s]) ELSE db[s]
<1>1. Good(db[s]) /\ Tidy(db[s])
  BY DEF Inv, Good
<1>2. Good(y)
  BY <1>1, DelProjectTidy DEF Good
<1>3. db' = [db EXCEPT ![s] = y] /\ config' = [config EXCEPT ![s] = NoIndex]
  BY DEF DeleteIndex
<1> HIDE DEF y
<1>4. y \in Project
  BY <1>2 DEF Good, Tidy, Sound
<1>5. QED
  BY <1>2, <1>3, <1>4 DEF Inv

\* Every step: Inv is kept, and what an index has which is not volatile.
LEMMA StepInv ==
    ASSUME Inv, [Next]_vars
    PROVE  /\ Inv'
           /\ \A s \in Stages : Volatile(s) \/ Deletion(s, TRUE) \/ Keeps(db[s], db'[s])
<1> DEFINE Kept == \A s \in Stages : Volatile(s) \/ Deletion(s, TRUE) \/ Keeps(db[s], db'[s])
<1>a. \A x : Keeps(x, x)
  BY DEF Keeps
<1>b. ASSUME NEW s \in Stages, Served(s) PROVE Inv' /\ Kept
  <2>1. PICK y : Good(y) /\ Write(s, y) /\ (~Volatile(s) => Keeps(db[s], y))
    BY <1>b DEF Served
  <2>2. db' = [db EXCEPT ![s] = y] /\ db \in [Stages -> Project]
    BY <2>1 DEF Write, Inv
  <2>3. \A r \in Stages : db'[r] = IF r = s THEN y ELSE db[r]
    BY <2>2
  <2>4. QED
    BY <1>a, <2>1, <2>3, WriteInv
<1>1. ASSUME NEW s \in Stages, NEW v \in Versions, NEW meta \in Metas, Register(s, v, meta)
      PROVE  Inv' /\ Kept
  BY <1>b, <1>1, RegisterServed
<1>2. ASSUME NEW s \in Stages, NEW v \in Versions, NEW meta \in Metas, NEW path \in Paths,
             Upload(s, v, meta, path)
      PROVE  Inv' /\ Kept
  BY <1>b, <1>2, UploadServed
<1>3. ASSUME NEW s \in Stages, NEW v \in Versions, NEW meta \in Metas, NEW path \in Paths,
             UploadDoc(s, v, meta, path)
      PROVE  Inv' /\ Kept
  BY <1>b, <1>3, UploadDocServed
<1>4. ASSUME NEW s \in Stages, NEW path \in Paths, PostToxresult(s, path)
      PROVE  Inv' /\ Kept
  BY <1>b, <1>4, PostToxresultServed
<1>5. ASSUME NEW s \in Stages, NEW force \in BOOLEAN, Deletion(s, force)
      PROVE  Inv' /\ Kept
  <2>1. PICK y : Good(y) /\ Write(s, y)
    BY <1>5, DeletionGood
  <2>2. db' = [db EXCEPT ![s] = y] /\ db \in [Stages -> Project]
    BY <2>1 DEF Write, Inv
  <2>3. \A r \in Stages \ {s} : db'[r] = db[r]
    BY <2>2
  <2>4. Volatile(s) \/ force = TRUE
    BY <1>5 DEF Deletion, DelPkg, DelVersion, DelKnownProject, DelUnknownProject, Forced
  <2>5. Volatile(s) \/ Deletion(s, TRUE)
    BY <1>5, <2>4
  <2>6. Kept
    BY <1>a, <2>3, <2>5
  <2>7. QED
    BY <2>1, <2>6, WriteInv
<1>6. ASSUME NEW s \in Stages, NEW t \in Stages, NEW v \in Versions,
             NEW docs \in BOOLEAN, NEW files \in BOOLEAN, Push(s, t, v, docs, files)
      PROVE  Inv' /\ Kept
  BY <1>b, <1>6, PushServed
<1>7. ASSUME NEW s \in Stages, NEW c \in {"volatile", "nonvolatile"}, Configure(s, c)
      PROVE  Inv' /\ Kept
  BY <1>a, <1>7 DEF Configure, Inv
<1>8. ASSUME NEW s \in Stages, DeleteIndex(s)
      PROVE  Inv' /\ Kept
  <2>1. \A r \in Stages \ {s} : db'[r] = db[r]
    BY <1>8 DEF DeleteIndex, Inv
  <2>2. Volatile(s)
    BY <1>8 DEF DeleteIndex
  <2>3. QED
    BY <1>a, <1>8, <2>1, <2>2, DeleteIndexInv
<1>9. CASE UNCHANGED vars
  BY <1>a, <1>9 DEF vars, Inv
<1>10. CASE Next
  <2>1. ASSUME NEW s \in Stages, NEW t \in Stages, NEW v \in Versions,
               NEW only \in {"all", "no_docs", "only_docs"},
               Push(s, t, v, only # "no_docs", only # "only_docs")
        PROVE  Inv' /\ Kept
    BY <1>6, <2>1
  <2>2. QED
    BY <1>1, <1>2, <1>3, <1>4, <1>5, <1>7, <1>8, <1>10, <2>1 DEF Next
<1>11. QED
  BY <1>9, <1>10

\* What Inv says in the words of PrivateStage.
LEMMA Consequences ==
    ASSUME Inv
    PROVE  IInv /\ ResultsHaveFile /\ SimpleLinksComplete /\ FilesAreLinked
<1>1. TypeOK
  BY DEF Inv, TypeOK
<1>2. ASSUME NEW s \in Stages
      PROVE  /\ db[s].known <=> db[s].versions # {}
             /\ db[s].versions = {v \in Versions : db[s].verdata[v].meta # NoMeta}
             /\ LinksInOrder(db[s]) /\ SimpleInOrder(db[s])
  <2>1. /\ Known(db[s]) /\ Sound(db[s]) /\ SimpleInOrder(db[s]) /\ LinksInOrder(db[s])
        /\ db[s].versions \subseteq Versions
    BY DEF Inv, Good, Tidy, Sound, Project
  <2>2. \A v \in Versions : v \in db[s].versions <=> db[s].verdata[v].meta # NoMeta
    BY <2>1 DEF Sound
  <2>3. QED
    BY <2>1, <2>2 DEF Known
<1>3. VersionsAgree
  BY <1>2 DEF VersionsAgree
<1>4. ResultsHaveFile /\ SimpleLinksComplete
  BY <1>2 DEF ResultsHaveFile, SimpleLinksComplete, LinksInOrder, SimpleInOrder
<1>5. FilesAreLinked
  BY DEF FilesAreLinked, Inv, Good, Tidy, Linked
<1>6. QED
  BY <1>1, <1>2, <1>3, <1>4, <1>5 DEF IInv

LEMMA Always == Spec => []Inv
<1>1. Init => Inv
  BY InitGood DEF Init, Inv
<1>2. Inv /\ [Next]_vars => Inv'
  BY StepInv
<1>3. QED
  BY <1>1, <1>2, PTL DEF Spec

-----------------------------------------------------------------------------
(* The theorems.                                                           *)

\* No request, or refused one, leaves a project out of order.
THEOREM Invariance == Spec => []IInv
BY Always, Consequences, PTL

\* The keys PROJNAMES, PROJVERSIONS and PROJVERSION name the same versions.
THEOREM Agreement == Spec => []VersionsAgree
<1>1. Inv => VersionsAgree
  BY Consequences DEF IInv
<1>2. QED
  BY <1>1, Always, PTL

\* No test result without its file.
THEOREM ResultsWithFile == Spec => []ResultsHaveFile
BY Always, Consequences, PTL

\* The simple page misses no release file and lists none which is gone.
THEOREM SimplePage == Spec => []SimpleLinksComplete
BY Always, Consequences, PTL

\* No file is left behind, and none is lost to another version unless its name fits both.
THEOREM NoOrphan == Spec => []FilesAreLinked
<1>1. Inv => FilesAreLinked
  BY Consequences
<1>2. QED
  BY <1>1, Always, PTL

\* A non-volatile index loses a file by a deletion with "force" only.
THEOREM Immutable == Spec => NonVolatileKeeps
<1>1. Inv /\ [Next]_vars =>
        \A s \in Stages, v \in Versions :
            \A l \in db[s].verdata[v].links :
                l.rel # "toxresult" /\ ~Volatile(s) =>
                    l \in db'[s].verdata[v].links \/ Deletion(s, TRUE)
  BY StepInv DEF Keeps
<1>2. QED
  BY <1>1, Always, PTL DEF Spec, NonVolatileKeeps

-----------------------------------------------------------------------------
(* Natural numbers and sequences.                                          *)

\* The order of the natural numbers, as a set.
Less == {xy \in Nat \X Nat : xy[1] < xy[2]}

\* A set of natural numbers has a least one.
LEMMA Least ==
  ASSUME NEW T, T \subseteq Nat, T # {}
  PROVE  \E x \in T : \A y \in T : x <= y
  <1>1. OpToRel(<, Nat) = Less
    BY DEF OpToRel, Less
  <1>2. IsWellFoundedOn(Less, Nat)
    BY <1>1, NatLessThanWellFounded
  <1>3. PICK x \in T : \A y \in T : ~ (<<y, x>> \in Less)
    BY <1>2, WFMin, Zenon
  <1>4. ASSUME NEW y \in T
        PROVE  x <= y
    <2>1. <<y, x>> \in Nat \X Nat /\ y \in Nat /\ x \in Nat
      OBVIOUS
    <2>2. ASSUME y < x
          PROVE  FALSE
      <3>1. <<y, x>> \in Less
        BY <2>1, <2>2, Zenon DEF Less
      <3>2. QED
        BY <3>1, <1>3
    <2>3. QED
      BY <2>1, <2>2
  <1>5. QED
    BY <1>4

\* A set of natural numbers with 0 and with each number the next one has all of them.
LEMMA Induction ==
  ASSUME NEW S \in SUBSET Nat, 0 \in S, \A n \in S : n + 1 \in S
  PROVE  S = Nat
  <1>1. ASSUME Nat \ S # {}
        PROVE  FALSE
    <2>1. PICK x \in Nat \ S : \A y \in Nat \ S : x <= y
      BY <1>1, Least
    <2>2. x # 0 /\ x - 1 \in Nat /\ x - 1 < x
      BY <2>1
    <2>3. x - 1 \in S
      BY <2>1, <2>2
    <2>4. (x - 1) + 1 \in S
      BY <2>3
    <2>5. QED
      BY <2>1, <2>4
  <1>2. QED
    BY <1>1

\* What a loop does in its first m turns.
Turns(W, b, t, m) ==
  {g \in [0 .. m -> W] : g[0] = b /\ \A k \in 0 .. m : k # m => g[k + 1] = t[g[k]]}

\* It is the same however many turns are looked at.
LEMMA TurnsAgree ==
  ASSUME NEW W, NEW b \in W, NEW t \in [W -> W], NEW m \in Nat, NEW n \in Nat, m <= n,
         NEW g \in Turns(W, b, t, m), NEW h \in Turns(W, b, t, n)
  PROVE  g[m] = h[m]
  <1> DEFINE S == {k \in Nat : k <= m => g[k] = h[k]}
  <1>1. 0 \in S
    BY DEF Turns
  <1>2. ASSUME NEW k \in S
        PROVE  k + 1 \in S
    <2>1. CASE k + 1 <= m
      <3>1. k \in 0 .. m /\ k # m /\ k \in 0 .. n /\ k # n
        BY <2>1
      <3>2. g[k + 1] = t[g[k]] /\ h[k + 1] = t[h[k]]
        BY <3>1 DEF Turns
      <3>3. QED
        BY <3>1, <3>2
    <2>2. QED
      BY <2>1
  <1>3. S \in SUBSET Nat
    OBVIOUS
  <1> HIDE DEF S
  <1>4. S = Nat
    BY <1>1, <1>2, <1>3, Induction
  <1>5. QED
    BY <1>4 DEF S

\* Every number of turns can be made.
LEMMA TurnsExist ==
  ASSUME NEW W, NEW b \in W, NEW t \in [W -> W], NEW m \in Nat
  PROVE  Turns(W, b, t, m) # {}
  <1> DEFINE S == {k \in Nat : Turns(W, b, t, k) # {}}
  <1>1. 0 \in S
    <2>1. [k \in 0 .. 0 |-> b] \in Turns(W, b, t, 0)
      BY DEF Turns
    <2>2. QED
      BY <2>1
  <1>2. ASSUME NEW k \in S
        PROVE  k + 1 \in S
    <2>1. PICK g : g \in Turns(W, b, t, k)
      OBVIOUS
    <2> DEFINE h == [j \in 0 .. k + 1 |-> IF j = k + 1 THEN t[g[k]] ELSE g[j]]
    <2>2. k \in Nat /\ g \in [0 .. k -> W] /\ g[0] = b /\ k \in 0 .. k
      BY <2>1 DEF Turns
    <2>3. t[g[k]] \in W
      BY <2>2
    <2>4. h \in [0 .. k + 1 -> W] /\ h[0] = b
      BY <2>2, <2>3
    <2>5. ASSUME NEW j \in 0 .. k + 1, j # k + 1
          PROVE  h[j + 1] = t[h[j]]
      <3>1. j \in 0 .. k /\ h[j] = g[j] /\ j + 1 \in 0 .. k + 1
        BY <2>2, <2>5
      <3>2. CASE j = k
        BY <3>1, <3>2
      <3>3. CASE j # k
        <4>1. g[j + 1] = t[g[j]] /\ j + 1 # k + 1
          BY <2>1, <2>2, <3>1, <3>3 DEF Turns
        <4>2. QED
          BY <3>1, <4>1
      <3>4. QED
        BY <3>2, <3>3
    <2> HIDE DEF h
    <2>6. h \in Turns(W, b, t, k + 1)
      BY <2>4, <2>5 DEF Turns
    <2>7. QED
      BY <2>2, <2>6
  <1>3. S \in SUBSET Nat
    OBVIOUS
  <1> HIDE DEF S
  <1>4. S = Nat
    BY <1>1, <1>2, <1>3, Induction
  <1>5. QED
    BY <1>4 DEF S

\* A loop as a function of the number of turns.
Loops(W, b, t) == {f \in [Nat -> W] : f[0] = b /\ \A n \in Nat : f[n + 1] = t[f[n]]}

LEMMA LoopExists ==
  ASSUME NEW W, NEW b \in W, NEW t \in [W -> W]
  PROVE  Loops(W, b, t) # {}
  <1> DEFINE first(m) == CHOOSE g : g \in Turns(W, b, t, m)
  <1> DEFINE f == [m \in Nat |-> first(m)[m]]
  <1>1. \A m \in Nat : first(m) \in Turns(W, b, t, m)
    BY TurnsExist
  <1> HIDE DEF first
  <1>2. \A m \in Nat : first(m)[m] \in W
    BY <1>1 DEF Turns
  <1>3. f \in [Nat -> W]
    BY <1>2
  <1>4. f[0] = b
    BY <1>1 DEF Turns
  <1>5. ASSUME NEW n \in Nat
        PROVE  f[n + 1] = t[f[n]]
    <2>1. n + 1 \in Nat /\ n <= n + 1 /\ n \in 0 .. n + 1 /\ n # n + 1
      OBVIOUS
    <2>2. first(n + 1)[n + 1] = t[first(n + 1)[n]]
      BY <1>1, <2>1 DEF Turns
    <2>3. first(n)[n] = first(n + 1)[n]
      BY <1>1, <2>1, TurnsAgree
    <2>4. QED
      BY <2>1, <2>2, <2>3
  <1> HIDE DEF f
  <1>6. f \in Loops(W, b, t)
    BY <1>3, <1>4, <1>5 DEF Loops
  <1>7. QED
    BY <1>6

\* Two sequences, one after the other.
LEMMA Concatenated ==
  ASSUME NEW S, NEW s \in Seq(S), NEW u \in Seq(S)
  PROVE  /\ s \o u \in Seq(S) /\ Len(s) \in Nat /\ Len(u) \in Nat
         /\ DOMAIN (s \o u) = 1 .. Len(s) + Len(u)
         /\ DOMAIN s = 1 .. Len(s) /\ DOMAIN u = 1 .. Len(u)
         /\ \A k \in 1 .. Len(s) + Len(u) :
                (s \o u)[k] = IF k <= Len(s) THEN s[k] ELSE u[k - Len(s)]
  <1>1. /\ s \o u \in Seq(S) /\ Len(s \o u) = Len(s) + Len(u)
        /\ Len(s) \in Nat /\ Len(u) \in Nat
        /\ \A k \in 1 .. Len(s) + Len(u) :
              (s \o u)[k] = IF k <= Len(s) THEN s[k] ELSE u[k - Len(s)]
    BY ConcatProperties, LenProperties
  <1>2. DOMAIN (s \o u) = 1 .. Len(s) + Len(u) /\ DOMAIN s = 1 .. Len(s)
        /\ DOMAIN u = 1 .. Len(u)
    BY <1>1, LenProperties
  <1>3. QED
    BY <1>1, <1>2

\* The elements of sequences.
LEMMA ElementsOfSeqs ==
  ASSUME NEW S, NEW s \in Seq(S), NEW u \in Seq(S), NEW x \in S
  PROVE  /\ ToSet(s) \in SUBSET S
         /\ Append(s, x) \in Seq(S) /\ ToSet(Append(s, x)) = ToSet(s) \cup {x}
         /\ s \o u \in Seq(S) /\ ToSet(s \o u) = ToSet(s) \cup ToSet(u)
         /\ s # <<>> => /\ Head(s) \in ToSet(s) /\ Tail(s) \in Seq(S)
                        /\ ToSet(s) = ToSet(Tail(s)) \cup {Head(s)}
         /\ s = <<>> => ToSet(s) = {}
  <1>1. ToSet(s) \in SUBSET S
    BY DEF ToSet
  <1>2. Append(s, x) \in Seq(S) /\ ToSet(Append(s, x)) = ToSet(s) \cup {x}
    BY AppendProperties DEF ToSet
  <1>3. s \o u \in Seq(S) /\ ToSet(s \o u) = ToSet(s) \cup ToSet(u)
    <2>1. /\ s \o u \in Seq(S)
          /\ Len(s) \in Nat /\ Len(u) \in Nat
          /\ \A i \in 1 .. Len(s) + Len(u) :
                (s \o u)[i] = IF i <= Len(s) THEN s[i] ELSE u[i - Len(s)]
      BY Concatenated
    <2>2. DOMAIN (s \o u) = 1 .. Len(s) + Len(u) /\ DOMAIN s = 1 .. Len(s)
          /\ DOMAIN u = 1 .. Len(u)
      BY Concatenated
    <2>3. ASSUME NEW y \in ToSet(s \o u)
          PROVE  y \in ToSet(s) \cup ToSet(u)
      <3>1. PICK i \in 1 .. Len(s) + Len(u) : y = (s \o u)[i]
        BY <2>2 DEF ToSet
      <3>2. CASE i <= Len(s)
        BY <2>1, <2>2, <3>1, <3>2 DEF ToSet
      <3>3. CASE ~(i <= Len(s))
        <4>1. y = u[i - Len(s)] /\ i - Len(s) \in 1 .. Len(u)
          BY <2>1, <3>1, <3>3
        <4>2. QED
          BY <2>2, <4>1 DEF ToSet
      <3>4. QED
        BY <3>2, <3>3
    <2>4. ASSUME NEW y \in ToSet(s)
          PROVE  y \in ToSet(s \o u)
      <3>1. PICK i \in 1 .. Len(s) : y = s[i]
        BY <2>2 DEF ToSet
      <3>2. i \in 1 .. Len(s) + Len(u) /\ (s \o u)[i] = y
        BY <2>1, <3>1
      <3>3. QED
        BY <2>2, <3>2 DEF ToSet
    <2>5. ASSUME NEW y \in ToSet(u)
          PROVE  y \in ToSet(s \o u)
      <3>1. PICK i \in 1 .. Len(u) : y = u[i]
        BY <2>2 DEF ToSet
      <3>2. Len(s) + i \in 1 .. Len(s) + Len(u) /\ (s \o u)[Len(s) + i] = y
        BY <2>1, <3>1
      <3>3. QED
        BY <2>2, <3>2 DEF ToSet
    <2>6. QED
      BY <2>1, <2>3, <2>4, <2>5
  <1>4. ASSUME s # <<>>
        PROVE  /\ Head(s) \in ToSet(s) /\ Tail(s) \in Seq(S)
               /\ ToSet(s) = ToSet(Tail(s)) \cup {Head(s)}
    <2>1. /\ Head(s) = s[1] /\ Tail(s) \in Seq(S) /\ Len(s) \in Nat \ {0}
          /\ Len(Tail(s)) = Len(s) - 1 /\ \A i \in 1 .. Len(Tail(s)) : Tail(s)[i] = s[i + 1]
      BY <1>4, HeadTailProperties, EmptySeq
    <2>2. DOMAIN s = 1 .. Len(s) /\ DOMAIN Tail(s) = 1 .. Len(s) - 1
      BY <2>1, LenProperties
    <2>3. Head(s) \in ToSet(s)
      BY <2>1, <2>2 DEF ToSet
    <2>4. ASSUME NEW y \in ToSet(Tail(s))
          PROVE  y \in ToSet(s)
      <3>1. PICK i \in 1 .. Len(s) - 1 : y = Tail(s)[i]
        BY <2>2 DEF ToSet
      <3>2. i + 1 \in 1 .. Len(s) /\ y = s[i + 1]
        BY <2>1, <3>1
      <3>3. QED
        BY <2>2, <3>2 DEF ToSet
    <2>5. ASSUME NEW y \in ToSet(s), y # Head(s)
          PROVE  y \in ToSet(Tail(s))
      <3>1. PICK i \in 1 .. Len(s) : y = s[i]
        BY <2>2 DEF ToSet
      <3>2. i - 1 \in 1 .. Len(s) - 1 /\ y = Tail(s)[i - 1]
        BY <2>1, <2>5, <3>1
      <3>3. QED
        BY <2>2, <3>2 DEF ToSet
    <2>6. QED
      BY <2>1, <2>3, <2>4, <2>5
  <1>5. s = <<>> => ToSet(s) = {}
    BY DEF ToSet
  <1>6. QED
    BY <1>1, <1>2, <1>3, <1>4, <1>5

-----------------------------------------------------------------------------
(* The loop of sro.                                                        *)

Configs == [StageNames -> {NoConfig} \cup StageConfig \cup MirrorConfig]

\* An index which exists is private or a mirror; only private ones have bases.
LEMMA Kinds ==
  ASSUME NEW ix \in Configs
  PROVE  /\ Existing(ix) = Privates(ix) \cup Mirrors(ix) /\ Privates(ix) \cap Mirrors(ix) = {}
         /\ Existing(ix) \subseteq StageNames
         /\ \A i \in StageNames : Bases(ix, i) \in Seq(StageNames)
         /\ \A i \in StageNames : i \notin Privates(ix) => Bases(ix, i) = <<>>
  <1>1. ASSUME NEW i \in StageNames
        PROVE  /\ i \in Existing(ix) <=> i \in Privates(ix) \/ i \in Mirrors(ix)
               /\ ~(i \in Privates(ix) /\ i \in Mirrors(ix))
               /\ i \in Privates(ix) => Bases(ix, i) \in Seq(StageNames)
    <2>1. \/ ix[i] = NoConfig \/ ix[i] \in StageConfig \/ ix[i] \in MirrorConfig
      BY DEF Configs
    <2>2. QED
      BY <2>1 DEF Existing, Privates, Mirrors, Bases, NoConfig, StageConfig, MirrorConfig
  <1>2. \A i \in StageNames : i \notin Privates(ix) => Bases(ix, i) = <<>>
    BY DEF Bases
  <1>3. <<>> \in Seq(StageNames)
    BY EmptySeq
  <1>4. QED
    BY <1>1, <1>2, <1>3 DEF Existing, Privates, Mirrors

\* What can be reached is closed, and the index itself can be reached.
LEMMA ReachableClosed ==
  ASSUME NEW ix \in Configs, NEW i \in StageNames
  PROVE  /\ Reachable(ix, i) \subseteq StageNames /\ i \in Reachable(ix, i)
         /\ Closed(ix, Reachable(ix, i))
         /\ \A C \in SUBSET StageNames : i \in C /\ Closed(ix, C) => Reachable(ix, i) \subseteq C
  <1>1. ASSUME NEW j \in Reachable(ix, i), NEW b \in ToSet(Bases(ix, j)) \cap Existing(ix)
        PROVE  b \in Reachable(ix, i)
    <2>1. ASSUME NEW C \in SUBSET StageNames, i \in C, Closed(ix, C)
          PROVE  b \in C
      BY <2>1, Zenon DEF Reachable, Closed
    <2>2. b \in StageNames
      BY DEF Existing
    <2>3. QED
      BY <2>1, <2>2, Zenon DEF Reachable
  <1>2. Closed(ix, Reachable(ix, i))
    BY <1>1, Zenon DEF Closed
  <1>3. QED
    BY <1>2, Zenon DEF Reachable

WalkState ==
  [todo : Seq(StageNames), bases : Seq(StageNames), seen : SUBSET StageNames,
   stages : Seq(StageNames), mirrors : Seq(StageNames)]

\* All the walk knows of.
Found(w) == ToSet(w.stages) \cup ToSet(w.mirrors) \cup ToSet(w.todo)

\* The invariant of the loop: what was found can be reached, what can be reached from a stage
\* was found or is among the bases left to look at.
Walked(ix, i, w) ==
  /\ w \in WalkState
  /\ w.seen = ToSet(w.stages) \cup ToSet(w.mirrors)
  /\ ToSet(w.mirrors) \subseteq Mirrors(ix)
  /\ \A s \in ToSet(w.todo) \cup ToSet(w.stages) : s = i \/ s \in Privates(ix)
  /\ Found(w) \cup (ToSet(w.bases) \cap Existing(ix)) \subseteq Reachable(ix, i)
  /\ \A s \in ToSet(w.stages) :
        ToSet(Bases(ix, s)) \cap Existing(ix) \subseteq Found(w) \cup ToSet(w.bases)
  /\ \A j, k \in DOMAIN w.mirrors : j # k => w.mirrors[j] # w.mirrors[k]
  /\ \/ w.stages = <<>> /\ w.todo = <<i>> /\ w.bases = <<>> /\ w.mirrors = <<>>
     \/ /\ w.stages # <<>> /\ w.stages[1] = i
        /\ i \notin Privates(ix) =>
              w.todo = <<>> /\ w.bases = <<>> /\ w.mirrors = <<>> /\ Len(w.stages) = 1

LEMMA WalkBegins ==
  ASSUME NEW ix \in Configs, NEW i \in Existing(ix)
  PROVE  Walked(ix, i, Begin(i))
  <1>1. i \in StageNames /\ <<>> \in Seq(StageNames)
    BY EmptySeq DEF Existing
  <1>2. <<i>> \in Seq(StageNames) /\ ToSet(<<i>>) = {i} /\ ToSet(<<>>) = {}
    BY <1>1 DEF ToSet
  <1>3. i \in Reachable(ix, i)
    BY <1>1, ReachableClosed
  <1>4. QED
    BY <1>1, <1>2, <1>3 DEF Walked, WalkState, Begin, Found

\* A base is looked at.
LEMMA BaseWalked ==
  ASSUME NEW ix \in Configs, NEW i \in StageNames, NEW w, Walked(ix, i, w), w.bases # <<>>
  PROVE  Walked(ix, i, TakeBase(ix, w))
  <1> DEFINE base == Head(w.bases)
             rest == [w EXCEPT !.bases = Tail(w.bases)]
             y == TakeBase(ix, w)
  <1>1. /\ w.todo \in Seq(StageNames) /\ w.bases \in Seq(StageNames)
        /\ w.seen \in SUBSET StageNames
        /\ w.stages \in Seq(StageNames) /\ w.mirrors \in Seq(StageNames)
    BY DEF Walked, WalkState
  <1>2. /\ base \in ToSet(w.bases) /\ base \in StageNames /\ Tail(w.bases) \in Seq(StageNames)
        /\ ToSet(w.bases) = ToSet(Tail(w.bases)) \cup {base}
    BY <1>1, ElementsOfSeqs
  <1>3. /\ w.stages # <<>> /\ w.stages[1] = i /\ i \in Privates(ix)
        /\ w.seen = ToSet(w.stages) \cup ToSet(w.mirrors)
        /\ ToSet(w.mirrors) \subseteq Mirrors(ix)
        /\ \A s \in ToSet(w.todo) \cup ToSet(w.stages) : s = i \/ s \in Privates(ix)
        /\ Found(w) \cup (ToSet(w.bases) \cap Existing(ix)) \subseteq Reachable(ix, i)
        /\ \A s \in ToSet(w.stages) :
              ToSet(Bases(ix, s)) \cap Existing(ix) \subseteq Found(w) \cup ToSet(w.bases)
        /\ \A j, k \in DOMAIN w.mirrors : j # k => w.mirrors[j] # w.mirrors[k]
    BY DEF Walked
  <1>4. CASE base \in w.seen \/ base \notin Existing(ix)
    <2>1. y = rest
      BY <1>4 DEF TakeBase
    <2>2. /\ rest.todo = w.todo /\ rest.bases = Tail(w.bases) /\ rest.seen = w.seen
          /\ rest.stages = w.stages /\ rest.mirrors = w.mirrors /\ rest \in WalkState
      BY <1>1, <1>2 DEF Walked, WalkState
    <2> HIDE DEF rest
    <2>3. Found(rest) = Found(w) /\ (base \in Found(w) \/ base \notin Existing(ix))
      BY <1>3, <1>4, <2>2 DEF Found
    <2>4. Walked(ix, i, rest)
      BY <1>2, <1>3, <2>2, <2>3 DEF Walked
    <2>5. QED
      BY <2>1, <2>4
  <1>5. CASE base \notin w.seen /\ base \in Existing(ix) /\ base \in Mirrors(ix)
    <2> DEFINE mirrors == Append(w.mirrors, base)
    <2>1. y = [rest EXCEPT !.mirrors = mirrors, !.seen = w.seen \cup {base}]
      BY <1>5 DEF TakeBase, Walked, WalkState
    <2>2. /\ mirrors \in Seq(StageNames) /\ ToSet(mirrors) = ToSet(w.mirrors) \cup {base}
      BY <1>1, <1>2, ElementsOfSeqs
    <2>3. \A j, k \in DOMAIN mirrors : j # k => mirrors[j] # mirrors[k]
      <3>1. /\ Len(mirrors) = Len(w.mirrors) + 1 /\ Len(w.mirrors) \in Nat
            /\ \A j \in 1 .. Len(w.mirrors) : mirrors[j] = w.mirrors[j]
            /\ mirrors[Len(w.mirrors) + 1] = base
            /\ DOMAIN mirrors = 1 .. Len(w.mirrors) + 1 /\ DOMAIN w.mirrors = 1 .. Len(w.mirrors)
        BY <1>1, <1>2, <2>2, AppendProperties, LenProperties
      <3>2. \A j \in 1 .. Len(w.mirrors) : w.mirrors[j] # base
        BY <1>3, <1>5, <3>1 DEF ToSet
      <3> HIDE DEF mirrors, base
      <3>3. QED
        BY <1>3, <3>1, <3>2
    <2>4. /\ y.todo = w.todo /\ y.bases = Tail(w.bases) /\ y.seen = w.seen \cup {base}
          /\ y.stages = w.stages /\ y.mirrors = mirrors /\ y \in WalkState
      <3> HIDE DEF mirrors, base, y
      <3>1. w.seen \cup {base} \in SUBSET StageNames /\ w \in WalkState
        BY <1>1, <1>2 DEF Walked
      <3>2. rest \in WalkState /\ rest.todo = w.todo /\ rest.bases = Tail(w.bases)
            /\ rest.stages = w.stages
        BY <1>2, <3>1 DEF WalkState
      <3> HIDE DEF rest
      <3>3. QED
        BY <2>1, <2>2, <3>1, <3>2 DEF WalkState
    <2> HIDE DEF y, mirrors
    <2>5. Found(y) = Found(w) \cup {base}
      BY <2>2, <2>4 DEF Found
    <2>6. Walked(ix, i, y)
      BY <1>2, <1>3, <1>5, <2>2, <2>3, <2>4, <2>5 DEF Walked
    <2>7. QED
      BY <2>6 DEF y
  <1>6. CASE base \notin w.seen /\ base \in Existing(ix) /\ base \notin Mirrors(ix)
    <2> DEFINE todo == Append(w.todo, base)
    <2>1. y = [rest EXCEPT !.todo = todo]
      BY <1>6 DEF TakeBase, Walked, WalkState
    <2>2. /\ todo \in Seq(StageNames) /\ ToSet(todo) = ToSet(w.todo) \cup {base}
      BY <1>1, <1>2, ElementsOfSeqs
    <2>3. /\ y.todo = todo /\ y.bases = Tail(w.bases) /\ y.seen = w.seen
          /\ y.stages = w.stages /\ y.mirrors = w.mirrors /\ y \in WalkState
      BY <1>1, <1>2, <2>1, <2>2 DEF Walked, WalkState
    <2>4. base \in Privates(ix)
      BY <1>6, Kinds
    <2> HIDE DEF y, todo
    <2>5. Found(y) = Found(w) \cup {base}
      BY <2>2, <2>3 DEF Found
    <2>6. Walked(ix, i, y)
      BY <1>2, <1>3, <1>6, <2>2, <2>3, <2>4, <2>5 DEF Walked
    <2>7. QED
      BY <2>6 DEF y
  <1>7. QED
    BY <1>4, <1>5, <1>6

\* The next stage is taken.
LEMMA StageWalked ==
  ASSUME NEW ix \in Configs, NEW i \in StageNames, NEW w, Walked(ix, i, w),
         w.bases = <<>>, w.todo # <<>>
  PROVE  Walked(ix, i, TakeStage(ix, w))
  <1> DEFINE stage == Head(w.todo)
             bases == Bases(ix, stage)
             stages == Append(w.stages, stage)
             y == TakeStage(ix, w)
  <1>1. /\ w.todo \in Seq(StageNames) /\ w.seen \in SUBSET StageNames
        /\ w.stages \in Seq(StageNames) /\ w.mirrors \in Seq(StageNames)
    BY DEF Walked, WalkState
  <1>2. /\ stage \in ToSet(w.todo) /\ stage \in StageNames /\ Tail(w.todo) \in Seq(StageNames)
        /\ ToSet(w.todo) = ToSet(Tail(w.todo)) \cup {stage}
    BY <1>1, ElementsOfSeqs
  <1>3. /\ w.seen = ToSet(w.stages) \cup ToSet(w.mirrors)
        /\ ToSet(w.mirrors) \subseteq Mirrors(ix)
        /\ \A s \in ToSet(w.todo) \cup ToSet(w.stages) : s = i \/ s \in Privates(ix)
        /\ Found(w) \subseteq Reachable(ix, i)
        /\ \A s \in ToSet(w.stages) : ToSet(Bases(ix, s)) \cap Existing(ix) \subseteq Found(w)
        /\ \A j, k \in DOMAIN w.mirrors : j # k => w.mirrors[j] # w.mirrors[k]
    BY DEF Walked, ToSet
  <1>4. bases \in Seq(StageNames) /\ (stage \notin Privates(ix) => bases = <<>>)
    BY <1>2, Kinds
  <1>5. /\ stages \in Seq(StageNames) /\ ToSet(stages) = ToSet(w.stages) \cup {stage}
    BY <1>1, <1>2, ElementsOfSeqs
  <1>6. /\ y.todo = Tail(w.todo) /\ y.bases = bases /\ y.seen = w.seen \cup {stage}
        /\ y.stages = stages /\ y.mirrors = w.mirrors /\ y \in WalkState
    BY <1>1, <1>2, <1>4, <1>5 DEF TakeStage, Walked, WalkState
  <1>7. Found(y) = Found(w) /\ stage \in Found(w)
    BY <1>2, <1>5, <1>6 DEF Found
  <1>8. ToSet(bases) \cap Existing(ix) \subseteq Reachable(ix, i)
    BY <1>3, <1>7, ReachableClosed DEF Closed
  <1>9. /\ stages # <<>> /\ stages[1] = i
        /\ i \notin Privates(ix) =>
              Tail(w.todo) = <<>> /\ bases = <<>> /\ w.mirrors = <<>> /\ Len(stages) = 1
    <2>1. CASE w.stages = <<>>
      <3>1. w.todo = <<i>> /\ w.mirrors = <<>>
        BY <2>1 DEF Walked
      <3>2. stage = i /\ Tail(w.todo) = <<>> /\ stages = <<i>>
        BY <2>1, <3>1
      <3> HIDE DEF stages, bases
      <3>3. stages # <<>> /\ stages[1] = i /\ Len(stages) = 1
        BY <3>2
      <3>4. QED
        BY <1>4, <3>1, <3>2, <3>3
    <2>2. CASE w.stages # <<>>
      <3>1. w.stages[1] = i /\ i \in Privates(ix)
        BY <2>2 DEF Walked
      <3>2. Len(w.stages) \in Nat \ {0}
        BY <1>1, <2>2, EmptySeq
      <3>3. stages[1] = i /\ stages # <<>>
        BY <1>1, <1>2, <3>1, <3>2, AppendProperties
      <3>4. QED
        BY <3>1, <3>3
    <2>3. QED
      BY <2>1, <2>2
  <1> HIDE DEF y, bases, stages, stage
  <1>10. ASSUME NEW s \in ToSet(y.stages)
         PROVE  ToSet(Bases(ix, s)) \cap Existing(ix) \subseteq Found(y) \cup ToSet(y.bases)
    <2>1. CASE s = stage
      BY <2>1, <1>6 DEF bases
    <2>2. CASE s # stage
      BY <2>2, <1>3, <1>5, <1>6, <1>7
    <2>3. QED
      BY <2>1, <2>2
  <1>11. \A s \in ToSet(y.todo) \cup ToSet(y.stages) : s = i \/ s \in Privates(ix)
    BY <1>2, <1>3, <1>5, <1>6
  <1>12. Found(y) \cup (ToSet(y.bases) \cap Existing(ix)) \subseteq Reachable(ix, i)
    BY <1>3, <1>6, <1>7, <1>8
  <1>13. y.seen = ToSet(y.stages) \cup ToSet(y.mirrors)
    BY <1>3, <1>5, <1>6
  <1>14. Walked(ix, i, y)
    BY <1>3, <1>6, <1>9, <1>10, <1>11, <1>12, <1>13 DEF Walked
  <1>15. QED
    BY <1>14 DEF y
\* What each turn of the walk preserves.
LEMMA WalkedOn ==
  ASSUME NEW ix \in Configs, NEW i \in StageNames, NEW w, Walked(ix, i, w)
  PROVE  Walked(ix, i, WalkOn(ix, w))
  <1>1. CASE w.bases # <<>>
    BY <1>1, BaseWalked DEF WalkOn
  <1>2. CASE w.bases = <<>> /\ w.todo # <<>>
    BY <1>2, StageWalked DEF WalkOn
  <1>3. CASE w.bases = <<>> /\ w.todo = <<>>
    BY <1>3 DEF WalkOn
  <1>4. QED
    BY <1>1, <1>2, <1>3

\* The function Walk is what its recursion says.
LEMMA WalkTurns ==
  ASSUME NEW ix \in Configs, NEW i \in Existing(ix)
  PROVE  /\ Walk(ix, i)[0] = Begin(i)
         /\ \A n \in Nat : Walk(ix, i)[n + 1] = WalkOn(ix, Walk(ix, i)[n])
  <1> DEFINE W == {w \in WalkState : Walked(ix, i, w)}
             t == [w \in W |-> WalkOn(ix, w)]
             body(f) == [n \in Nat |-> IF n = 0 THEN Begin(i) ELSE WalkOn(ix, f[n - 1])]
  <1>0. i \in StageNames
    BY DEF Existing
  <1>1. \A w : Walked(ix, i, w) => w \in W
    BY DEF Walked
  <1>2. Begin(i) \in W
    BY <1>1, WalkBegins
  <1>3. t \in [W -> W]
    BY <1>0, <1>1, WalkedOn
  <1> HIDE DEF W, t
  <1>4. PICK f : f \in Loops(W, Begin(i), t)
    BY <1>2, <1>3, LoopExists
  <1> USE DEF t
  <1>5. f \in [Nat -> W] /\ f[0] = Begin(i) /\ \A n \in Nat : f[n + 1] = t[f[n]]
    BY <1>4 DEF Loops
  <1>6. f = body(f)
    <2>1. ASSUME NEW n \in Nat
          PROVE  f[n] = IF n = 0 THEN Begin(i) ELSE WalkOn(ix, f[n - 1])
      <3>1. CASE n = 0
        BY <3>1, <1>5
      <3>2. CASE n # 0
        <4>1. n - 1 \in Nat /\ (n - 1) + 1 = n
          BY <3>2
        <4>2. f[(n - 1) + 1] = t[f[n - 1]] /\ f[n - 1] \in W
          BY <4>1, <1>5
        <4>3. QED
          BY <3>2, <4>1, <4>2
      <3>3. QED
        BY <3>1, <3>2
    <2>2. f = [n \in Nat |-> f[n]]
      BY <1>5
    <2>3. QED
      BY <2>1, <2>2
  <1>7. Walk(ix, i) = CHOOSE f_1 : f_1 = body(f_1)
    BY DEF Walk
  <1> HIDE DEF body
  <1>8. Walk(ix, i) = body(Walk(ix, i))
    BY <1>6, <1>7, Zenon
  <1>9. \A n \in Nat : Walk(ix, i)[n]
            = IF n = 0 THEN Begin(i) ELSE WalkOn(ix, Walk(ix, i)[n - 1])
    BY <1>8, Zenon DEF body
  <1>10. ASSUME NEW n \in Nat
        PROVE  Walk(ix, i)[n + 1] = WalkOn(ix, Walk(ix, i)[n])
    <2>1. n + 1 \in Nat /\ n + 1 # 0 /\ (n + 1) - 1 = n
      OBVIOUS
    <2>2. QED
      BY <1>9, <2>1, Zenon
  <1>11. QED
    BY <1>9, <1>10, Zenon

\* The invariant of the walk, after any number of turns.
LEMMA WalkedTurns ==
  ASSUME NEW ix \in Configs, NEW i \in Existing(ix), NEW n \in Nat
  PROVE  Walked(ix, i, Walk(ix, i)[n])
  <1> DEFINE S == {k \in Nat : Walked(ix, i, Walk(ix, i)[k])}
  <1>0. i \in StageNames
    BY DEF Existing
  <1>1. 0 \in S
    BY WalkTurns, WalkBegins
  <1>2. ASSUME NEW k \in S
        PROVE  k + 1 \in S
    <2>1. Walk(ix, i)[k + 1] = WalkOn(ix, Walk(ix, i)[k])
      BY WalkTurns
    <2>2. Walked(ix, i, WalkOn(ix, Walk(ix, i)[k]))
      BY <1>0, WalkedOn
    <2>3. QED
      BY <2>1, <2>2
  <1>3. S \in SUBSET Nat
    OBVIOUS
  <1> HIDE DEF S
  <1>4. S = Nat
    BY <1>1, <1>2, <1>3, Induction
  <1>5. QED
    BY <1>4 DEF S

\* A walk which has come to its end has resolved the index.
LEMMA WalkResolves ==
  ASSUME NEW ix \in Configs, NEW i \in Existing(ix), NEW w, Walked(ix, i, w), Ended(w)
  PROVE  Resolves(ix, i, w.stages \o w.mirrors)
  <1> DEFINE order == w.stages \o w.mirrors
             m == Len(w.stages)
             n == Len(w.mirrors)
  <1>1. i \in StageNames /\ w.stages \in Seq(StageNames) /\ w.mirrors \in Seq(StageNames)
    BY DEF Walked, WalkState, Existing
  <1>2. /\ w.todo = <<>> /\ w.bases = <<>> /\ ToSet(w.todo) = {} /\ ToSet(w.bases) = {}
    BY DEF Ended, ToSet
  <1>3. w.stages # <<>> /\ w.stages[1] = i /\ Len(w.stages) \in Nat \ {0}
    BY <1>1, <1>2, EmptySeq DEF Walked
  <1>4. ToSet(order) = ToSet(w.stages) \cup ToSet(w.mirrors) /\ ToSet(order) = Found(w)
    <2>1. ToSet(order) = ToSet(w.stages) \cup ToSet(w.mirrors)
      BY <1>1, ElementsOfSeqs
    <2>2. QED
      BY <2>1, <1>2 DEF Found
  <1>5. /\ m \in Nat \ {0} /\ n \in Nat /\ DOMAIN order = 1 .. m + n
        /\ DOMAIN w.stages = 1 .. m /\ DOMAIN w.mirrors = 1 .. n
        /\ \A j \in 1 .. m + n : order[j] = IF j <= m THEN w.stages[j] ELSE w.mirrors[j - m]
    <2>1. /\ m \in Nat /\ n \in Nat /\ DOMAIN order = 1 .. m + n
          /\ DOMAIN w.stages = 1 .. m /\ DOMAIN w.mirrors = 1 .. n
          /\ \A j \in 1 .. m + n : order[j] = IF j <= m THEN w.stages[j] ELSE w.mirrors[j - m]
      <3> DEFINE s == w.stages
                 u == w.mirrors
      <3>1. s \in Seq(StageNames) /\ u \in Seq(StageNames)
        BY <1>1
      <3>2. m = Len(s) /\ n = Len(u) /\ order = s \o u
        OBVIOUS
      <3> HIDE DEF s, u, m, n, order
      <3>3. /\ m \in Nat /\ n \in Nat /\ DOMAIN order = 1 .. m + n
            /\ DOMAIN s = 1 .. m /\ DOMAIN u = 1 .. n
            /\ \A j \in 1 .. m + n : order[j] = IF j <= m THEN s[j] ELSE u[j - m]
        BY <3>1, <3>2, Concatenated
      <3>4. QED
        BY <3>3 DEF s, u
    <2>2. QED
      BY <2>1, <1>3
  <1>6. ToSet(w.mirrors) \subseteq Mirrors(ix)
    BY DEF Walked
  <1> HIDE DEF order, m, n
  <1>7. ToSet(order) = Reachable(ix, i)
    <2>1. ToSet(order) \subseteq Reachable(ix, i)
      BY <1>4 DEF Walked
    <2>2. ASSUME NEW s \in ToSet(order)
          PROVE  ToSet(Bases(ix, s)) \cap Existing(ix) \subseteq ToSet(order)
      <3>1. CASE s \in ToSet(w.stages)
        BY <3>1, <1>2, <1>4 DEF Walked
      <3>2. CASE s \in ToSet(w.mirrors)
        <4>1. s \in Mirrors(ix) /\ s \in StageNames
          BY <3>2, <1>6 DEF Mirrors
        <4>2. Bases(ix, s) = <<>>
          BY <4>1, Kinds
        <4>3. QED
          BY <4>2 DEF ToSet
      <3>3. QED
        BY <3>1, <3>2, <1>4
    <2>3. i \in ToSet(order)
      BY <1>3, <1>4, <1>5 DEF ToSet
    <2>4. ToSet(order) \in SUBSET StageNames
      BY <2>1, <1>1, ReachableClosed
    <2>5. QED
      BY <2>1, <2>2, <2>3, <2>4, <1>1, ReachableClosed DEF Closed
  <1>8. order[1] = i
    BY <1>3, <1>5
  <1>9. ASSUME NEW j \in DOMAIN order, NEW k \in DOMAIN order, j < k,
               order[j] \in Mirrors(ix)
        PROVE  order[k] \in Mirrors(ix) /\ order[j] # order[k]
    <2>1. CASE j <= m
      <3>1. order[j] = w.stages[j] /\ j \in DOMAIN w.stages
        BY <1>3, <1>5, <2>1
      <3>2. order[j] \in ToSet(w.stages)
        BY <3>1 DEF ToSet
      <3>3. order[j] = i /\ i \notin Privates(ix)
        BY <3>2, <1>9, Kinds DEF Walked
      <3>4. w.mirrors = <<>> /\ m = 1
        BY <3>3, <1>3 DEF Walked, m
      <3>5a. n = 0
        BY <3>4, EmptySeq DEF n
      <3>5. DOMAIN order = 1 .. 1
        BY <3>4, <3>5a, <1>5
      <3>6. QED
        BY <3>5, <1>9
    <2>2. CASE ~(j <= m)
      <3>1. /\ j - m \in DOMAIN w.mirrors /\ k - m \in DOMAIN w.mirrors
            /\ j - m # k - m
            /\ order[j] = w.mirrors[j - m]
            /\ order[k] = w.mirrors[k - m]
        BY <1>3, <1>5, <1>9, <2>2
      <3>2. order[j] # order[k]
        BY <3>1 DEF Walked
      <3>3. order[k] \in ToSet(w.mirrors)
        BY <3>1 DEF ToSet
      <3>4. QED
        BY <3>2, <3>3, <1>6
    <2>3. QED
      BY <2>1, <2>2
  <1>10. QED
    BY <1>7, <1>8, <1>9 DEF Resolves, order

\* The resolution order of a walk which ends before the bound.
LEMMA SroResolves ==
  ASSUME NEW ix \in Configs, NEW i \in Existing(ix), Ended(Walk(ix, i)[MaxTurns])
  PROVE  Resolves(ix, i, Sro(ix, i)) /\ Sro(ix, i) \in Seq(StageNames)
  <1>1. MaxTurns \in Nat
    BY IndexesConstants
  <1>2. Walked(ix, i, Walk(ix, i)[MaxTurns])
    BY <1>1, WalkedTurns
  <1>3. Resolves(ix, i, Sro(ix, i))
    BY <1>2, WalkResolves DEF Sro
  <1>4. Sro(ix, i) \in Seq(StageNames)
    BY <1>2, ConcatProperties DEF Sro, Walked, WalkState
  <1>5. QED
    BY <1>3, <1>4

-----------------------------------------------------------------------------
(* The loop of the import.                                                 *)

\* A finite set as a sequence has its elements.
LEMMA SeqOfSet ==
  ASSUME NEW S, IsFiniteSet(S)
  PROVE  SetToSeq(S) \in Seq(S) /\ ToSet(SetToSeq(S)) = S
  <1> DEFINE n == Cardinality(S)
             f == SetToSeq(S)
  <1>1. n \in Nat /\ ExistsBijection(1 .. n, S)
    BY FS_CardinalityType
  <1>2. \E g \in [1 .. n -> S] : IsInjective(g)
    BY <1>1, Zenon DEF ExistsBijection, Bijection, Injection
  <1>3. f \in [1 .. n -> S] /\ IsInjective(f)
    BY <1>2, Zenon DEF SetToSeq
  <1> HIDE DEF f
  <1>4. f \in Injection(1 .. n, S)
    BY <1>3, Zenon DEF Injection
  <1>5. IsFiniteSet(1 .. n) /\ Cardinality(1 .. n) = n
    BY <1>1, FS_Interval
  <1>6. f \in Surjection(1 .. n, S)
    BY <1>4, <1>5, FS_Injection
  <1> HIDE DEF n
  <1>7. DOMAIN f = 1 .. n /\ \A t \in S : \E k \in 1 .. n : f[k] = t
    BY <1>3, <1>6 DEF Surjection
  <1>8. ToSet(f) = S
    BY <1>3, <1>7 DEF ToSet
  <1>9. f \in Seq(S)
    BY <1>1, <1>3, IsASeq
  <1>10. QED
    BY <1>8, <1>9 DEF f

CreationState == [pending : Seq(StageNames), created : Seq(StageNames), putback : Nat]

\* All bases of an index have been created.
Ready(ix, c, i) == TreeBases(ix, i) \subseteq ToSet(c.created)

\* An index is pending from then on when one of its bases has been created, or has none.
Reached(ix, c, i) == TreeBases(ix, i) = {} \/ TreeBases(ix, i) \cap ToSet(c.created) # {}

\* The indexes created before the k-th.
Before(c, k) == {c.created[j] : j \in 1 .. k - 1}

\* The invariant of the loop: each index is created once, after its bases; those which have
\* been reached and not created are pending; one which was put back after the last one was
\* created or dropped waits for a base.
Creating(ix, c) ==
  /\ c \in CreationState
  /\ ToSet(c.pending) \cup ToSet(c.created) \subseteq Existing(ix)
  /\ \A j, k \in DOMAIN c.created : j # k => c.created[j] # c.created[k]
  /\ \A k \in DOMAIN c.created : TreeBases(ix, c.created[k]) \subseteq Before(c, k)
  /\ \A i \in Existing(ix) \ ToSet(c.created) : i \in ToSet(c.pending) <=> Reached(ix, c, i)
  /\ \A k \in DOMAIN c.pending :
        k > Len(c.pending) - c.putback => ~Ready(ix, c, c.pending[k])

LEMMA CreationBegins ==
  ASSUME NEW ix \in Configs
  PROVE  Creating(ix, [pending |-> SetToSeq(Roots(ix)), created |-> <<>>, putback |-> 0])
  <1> DEFINE pending == SetToSeq(Roots(ix))
             c == [pending |-> pending, created |-> <<>>, putback |-> 0]
  <1>1. Roots(ix) \subseteq Existing(ix) /\ Existing(ix) \subseteq StageNames
    BY DEF Roots, Existing
  <1>2. IsFiniteSet(Roots(ix))
    BY <1>1, IndexesConstants, FS_Subset
  <1>3. pending \in Seq(Roots(ix)) /\ ToSet(pending) = Roots(ix)
    BY <1>2, SeqOfSet
  <1>4. pending \in Seq(StageNames) /\ Len(pending) \in Nat /\ DOMAIN pending = 1 .. Len(pending)
    BY <1>1, <1>3, LenProperties, SeqMonotonic
  <1> HIDE DEF pending
  <1>5. /\ c.pending = pending /\ c.created = <<>> /\ c.putback = 0 /\ ToSet(c.created) = {}
        /\ DOMAIN c.created = {}
    BY DEF ToSet
  <1>6. c \in CreationState
    BY <1>4, EmptySeq DEF CreationState
  <1> HIDE DEF c
  <1>7. \A i \in Existing(ix) : i \in ToSet(c.pending) <=> Reached(ix, c, i)
    BY <1>3, <1>5 DEF Reached, Roots
  <1>8. Creating(ix, c)
    BY <1>1, <1>3, <1>4, <1>5, <1>6, <1>7 DEF Creating
  <1>9. QED
    BY <1>8 DEF c, pending

\* The parts of the invariant, for the steps of the loop.
LEMMA CreatingParts ==
  ASSUME NEW ix \in Configs, NEW c, Creating(ix, c), c.pending # <<>>
  PROVE  /\ c.pending \in Seq(StageNames) /\ c.created \in Seq(StageNames)
         /\ c.putback \in Nat /\ Len(c.pending) \in Nat \ {0}
         /\ DOMAIN c.pending = 1 .. Len(c.pending)
         /\ Head(c.pending) = c.pending[1] /\ Tail(c.pending) \in Seq(StageNames)
         /\ Len(Tail(c.pending)) = Len(c.pending) - 1
         /\ DOMAIN Tail(c.pending) = 1 .. Len(c.pending) - 1
         /\ \A k \in 1 .. Len(c.pending) - 1 : Tail(c.pending)[k] = c.pending[k + 1]
         /\ Head(c.pending) \in Existing(ix) /\ Head(c.pending) \in StageNames
         /\ ToSet(c.pending) = ToSet(Tail(c.pending)) \cup {Head(c.pending)}
  <1> DEFINE s == c.pending
  <1>1. s \in Seq(StageNames) /\ c.created \in Seq(StageNames) /\ c.putback \in Nat
    BY DEF Creating, CreationState
  <1>2. ToSet(s) \subseteq Existing(ix) /\ Existing(ix) \subseteq StageNames /\ s # <<>>
    BY DEF Creating, Existing
  <1> HIDE DEF s
  <1>3. /\ Len(s) \in Nat \ {0} /\ DOMAIN s = 1 .. Len(s)
    BY <1>1, <1>2, EmptySeq, LenProperties
  <1>4. /\ Head(s) = s[1] /\ Tail(s) \in Seq(StageNames) /\ Len(Tail(s)) = Len(s) - 1
        /\ \A k \in 1 .. Len(Tail(s)) : Tail(s)[k] = s[k + 1]
    BY <1>1, <1>2, HeadTailProperties
  <1>5. DOMAIN Tail(s) = 1 .. Len(s) - 1
    BY <1>4, LenProperties
  <1>6. ToSet(s) = ToSet(Tail(s)) \cup {Head(s)}
    BY <1>1, <1>2, ElementsOfSeqs
  <1>7. QED
    BY <1>1, <1>2, <1>3, <1>4, <1>5, <1>6 DEF s

\* An index is put back.
LEMMA PutBackCreating ==
  ASSUME NEW ix \in Configs, NEW c, Creating(ix, c), c.pending # <<>>,
         ~Ready(ix, c, Head(c.pending))
  PROVE  Creating(ix, [c EXCEPT !.pending = Append(Tail(c.pending), Head(c.pending)),
                                !.putback = c.putback + 1])
  <1> DEFINE i == Head(c.pending)
             tail == Tail(c.pending)
             pending == Append(tail, i)
             d == [c EXCEPT !.pending = pending, !.putback = c.putback + 1]
             n == Len(c.pending)
  <1>1. /\ c.putback \in Nat /\ n \in Nat \ {0} /\ DOMAIN c.pending = 1 .. n
        /\ tail \in Seq(StageNames) /\ Len(tail) = n - 1 /\ DOMAIN tail = 1 .. n - 1
        /\ \A k \in 1 .. n - 1 : tail[k] = c.pending[k + 1]
        /\ i \in StageNames /\ ToSet(c.pending) = ToSet(tail) \cup {i}
    BY CreatingParts
  <1>2. \A k \in 1 .. n : k > n - c.putback => ~Ready(ix, c, c.pending[k])
    BY <1>1 DEF Creating
  <1>3. c \in CreationState
    BY DEF Creating
  <1> HIDE DEF i, tail, n
  <1>4. /\ pending \in Seq(StageNames) /\ ToSet(pending) = ToSet(c.pending)
    BY <1>1, ElementsOfSeqs
  <1>5. /\ Len(pending) = n /\ DOMAIN pending = 1 .. n /\ pending[n] = i
        /\ \A k \in 1 .. n - 1 : pending[k] = c.pending[k + 1]
    <2>1. /\ Len(pending) = (n - 1) + 1 /\ \A k \in 1 .. n - 1 : pending[k] = tail[k]
          /\ pending[(n - 1) + 1] = i
      BY <1>1, AppendProperties
    <2>2. DOMAIN pending = 1 .. Len(pending)
      BY <1>4, LenProperties
    <2> HIDE DEF pending
    <2>3. (n - 1) + 1 = n
      BY <1>1
    <2>4. QED
      BY <1>1, <2>1, <2>2, <2>3
  <1> HIDE DEF pending
  <1>6. /\ d \in CreationState /\ d.pending = pending /\ d.created = c.created
        /\ d.putback = c.putback + 1
    <2> DEFINE putback == c.putback + 1
    <2>1. putback \in Nat
      BY <1>1
    <2> HIDE DEF putback
    <2>2. d = [c EXCEPT !.pending = pending, !.putback = putback]
      BY DEF putback
    <2> HIDE DEF d
    <2>3. d \in CreationState /\ d.pending = pending /\ d.created = c.created /\ d.putback = putback
      BY <1>3, <1>4, <2>1, <2>2 DEF CreationState
    <2>4. QED
      BY <2>3 DEF putback
  <1> HIDE DEF d
  <1>7. \A j : (Ready(ix, d, j) <=> Ready(ix, c, j)) /\ (Reached(ix, d, j) <=> Reached(ix, c, j))
    BY <1>6 DEF Ready, Reached
  <1>8. \A k : Before(d, k) = Before(c, k)
    BY <1>6 DEF Before
  <1>9. ASSUME NEW k \in 1 .. n, k > n - (c.putback + 1)
        PROVE  ~Ready(ix, c, pending[k])
    <2>1. CASE k = n
      BY <2>1, <1>5 DEF i
    <2>2. CASE k # n
      <3>1. k \in 1 .. n - 1 /\ k + 1 \in 1 .. n /\ k + 1 > n - c.putback
        BY <1>1, <1>9, <2>2
      <3>2. QED
        BY <1>2, <1>5, <3>1
    <2>3. QED
      BY <2>1, <2>2
  <1>10. \A k \in DOMAIN d.pending : k > Len(d.pending) - d.putback => ~Ready(ix, d, d.pending[k])
    BY <1>5, <1>6, <1>7, <1>9
  <1>11. \A j \in Existing(ix) \ ToSet(d.created) : j \in ToSet(d.pending) <=> Reached(ix, d, j)
    BY <1>4, <1>6, <1>7 DEF Creating
  <1>12. Creating(ix, d)
    BY <1>4, <1>6, <1>8, <1>10, <1>11 DEF Creating
  <1>13. QED
    BY <1>12 DEF d, pending, tail, i

\* An index which has been created already is dropped.
LEMMA DropCreating ==
  ASSUME NEW ix \in Configs, NEW c, Creating(ix, c), c.pending # <<>>,
         Head(c.pending) \in ToSet(c.created)
  PROVE  Creating(ix, [c EXCEPT !.pending = Tail(c.pending), !.putback = 0])
  <1> DEFINE tail == Tail(c.pending)
             d == [c EXCEPT !.pending = tail, !.putback = 0]
  <1>1. /\ tail \in Seq(StageNames) /\ Len(tail) \in Nat /\ DOMAIN tail = 1 .. Len(tail)
        /\ ToSet(c.pending) = ToSet(tail) \cup {Head(c.pending)}
    BY CreatingParts
  <1>2. c \in CreationState
    BY DEF Creating
  <1> HIDE DEF tail
  <1>3. /\ d \in CreationState /\ d.pending = tail /\ d.created = c.created /\ d.putback = 0
    BY <1>1, <1>2 DEF CreationState
  <1> HIDE DEF d
  <1>4. /\ \A j : Reached(ix, d, j) <=> Reached(ix, c, j)
        /\ \A k : Before(d, k) = Before(c, k)
    BY <1>3 DEF Reached, Before
  <1>5. \A j \in Existing(ix) \ ToSet(d.created) : j \in ToSet(d.pending) <=> Reached(ix, d, j)
    BY <1>1, <1>3, <1>4 DEF Creating
  <1>6. \A k \in DOMAIN d.pending : ~(k > Len(d.pending) - d.putback)
    BY <1>1, <1>3
  <1>7. Creating(ix, d)
    BY <1>1, <1>3, <1>4, <1>5, <1>6 DEF Creating
  <1>8. QED
    BY <1>7 DEF d, tail

\* An index is created.
LEMMA CreateCreating ==
  ASSUME NEW ix \in Configs, NEW c, Creating(ix, c), c.pending # <<>>,
         Ready(ix, c, Head(c.pending)), Head(c.pending) \notin ToSet(c.created)
  PROVE  LET i == Head(c.pending)
         IN Creating(ix,
                [pending |-> Tail(c.pending) \o SetToSeq(Children(ix, i) \ ToSet(c.created)),
                 created |-> Append(c.created, i), putback |-> 0])
  <1> DEFINE i == Head(c.pending)
             tail == Tail(c.pending)
             children == Children(ix, i) \ ToSet(c.created)
             more == SetToSeq(children)
             pending == tail \o more
             created == Append(c.created, i)
             d == [pending |-> pending, created |-> created, putback |-> 0]
             n == Len(c.created)
  <1>1. /\ c.created \in Seq(StageNames) /\ tail \in Seq(StageNames) /\ i \in StageNames
        /\ i \in Existing(ix) /\ ToSet(c.pending) = ToSet(tail) \cup {i}
    BY CreatingParts
  <1>2. n \in Nat /\ DOMAIN c.created = 1 .. n
    BY <1>1, LenProperties
  <1>3. children \subseteq Existing(ix) /\ Existing(ix) \subseteq StageNames /\ IsFiniteSet(children)
    <2>1. children \subseteq Existing(ix) /\ Existing(ix) \subseteq StageNames
      BY DEF Children, Existing
    <2>2. QED
      BY <2>1, IndexesConstants, FS_Subset
  <1> HIDE DEF children
  <1>4. more \in Seq(StageNames) /\ ToSet(more) = children
    BY <1>3, SeqOfSet, SeqMonotonic
  <1> HIDE DEF i, tail, more
  <1>5. /\ pending \in Seq(StageNames) /\ ToSet(pending) = ToSet(tail) \cup children
    BY <1>1, <1>4, ElementsOfSeqs
  <1>6. /\ created \in Seq(StageNames) /\ ToSet(created) = ToSet(c.created) \cup {i}
    BY <1>1, ElementsOfSeqs
  <1>7. /\ DOMAIN created = 1 .. n + 1 /\ created[n + 1] = i
        /\ \A k \in 1 .. n : created[k] = c.created[k]
    <2>1. /\ Len(created) = n + 1 /\ created[n + 1] = i
          /\ \A k \in 1 .. n : created[k] = c.created[k]
      BY <1>1, AppendProperties
    <2>2. QED
      BY <2>1, <1>6, LenProperties
  <1> HIDE DEF pending, created
  <1>8. Len(pending) \in Nat /\ DOMAIN pending = 1 .. Len(pending)
    BY <1>5, LenProperties
  <1>9. d.pending = pending /\ d.created = created /\ d.putback = 0 /\ d \in CreationState
    BY <1>5, <1>6 DEF CreationState
  <1> HIDE DEF d, n
  <1>10. \A k \in 1 .. n : created[k] # i
    BY <1>2, <1>7 DEF ToSet, i
  <1>11. \A j, k \in DOMAIN d.created : j # k => d.created[j] # d.created[k]
    <2>1. ASSUME NEW j \in 1 .. n + 1, NEW k \in 1 .. n + 1, j # k
          PROVE  created[j] # created[k]
      <3>1. \/ j \in 1 .. n /\ k \in 1 .. n
            \/ j \in 1 .. n /\ k = n + 1
            \/ j = n + 1 /\ k \in 1 .. n
        BY <1>2, <2>1
      <3>2. QED
        BY <3>1, <2>1, <1>2, <1>7, <1>10 DEF Creating
    <2>2. QED
      BY <2>1, <1>7, <1>9
  <1>12. \A k \in DOMAIN d.created : TreeBases(ix, d.created[k]) \subseteq Before(d, k)
    <2>1. \A k \in 1 .. n + 1 : Before(d, k) = Before(c, k)
      <3>1. ASSUME NEW k \in 1 .. n + 1, NEW j \in 1 .. k - 1
            PROVE  d.created[j] = c.created[j]
        <4>1. j \in 1 .. n
          BY <1>2
        <4>2. QED
          BY <4>1, <1>7, <1>9
      <3>2. QED
        BY <3>1 DEF Before
    <2>2. Before(c, n + 1) = ToSet(c.created)
      <3>1. 1 .. (n + 1) - 1 = 1 .. n
        BY <1>2
      <3>2. QED
        BY <3>1, <1>2 DEF Before, ToSet
    <2>3. TreeBases(ix, i) \subseteq ToSet(c.created)
      BY DEF Ready, i
    <2>4. ASSUME NEW k \in 1 .. n + 1
          PROVE  TreeBases(ix, created[k]) \subseteq Before(c, k)
      <3>1. CASE k = n + 1
        BY <3>1, <2>2, <2>3, <1>7
      <3>2. CASE k # n + 1
        <4>1. k \in 1 .. n
          BY <1>2, <3>2
        <4>2. QED
          BY <4>1, <1>2, <1>7 DEF Creating
      <3>3. QED
        BY <3>1, <3>2
    <2>5. QED
      BY <2>1, <2>4, <1>7, <1>9
  <1>13. ASSUME NEW j \in Existing(ix) \ ToSet(created)
         PROVE  j \in ToSet(pending) <=> Reached(ix, d, j)
    <2>1. j \notin ToSet(c.created) /\ j # i
      BY <1>6
    <2>2. Reached(ix, d, j) <=> Reached(ix, c, j) \/ i \in TreeBases(ix, j)
      BY <1>6, <1>9 DEF Reached
    <2>3. j \in ToSet(tail) <=> Reached(ix, c, j)
      BY <2>1, <1>1 DEF Creating
    <2>4. j \in children <=> i \in TreeBases(ix, j)
      BY <2>1 DEF Children, children
    <2>5. QED
      BY <2>2, <2>3, <2>4, <1>5
  <1>14. ToSet(d.pending) \cup ToSet(d.created) \subseteq Existing(ix)
    BY <1>1, <1>3, <1>5, <1>6, <1>9 DEF Creating
  <1>15. \A k \in DOMAIN d.pending : ~(k > Len(d.pending) - d.putback)
    BY <1>8, <1>9
  <1>16. Creating(ix, d)
    BY <1>9, <1>11, <1>12, <1>13, <1>14, <1>15 DEF Creating
  <1>17. QED
    BY <1>16 DEF d, pending, created, more, children, tail, i

\* What each turn preserves.
LEMMA CreatingOn ==
  ASSUME NEW ix \in Configs, NEW c, Creating(ix, c)
  PROVE  Creating(ix, CreateOn(ix, c))
  <1>1. CASE c.pending = <<>>
    BY <1>1 DEF CreateOn
  <1>2. CASE c.pending # <<>>
    <2> DEFINE i == Head(c.pending)
    <2>1. CASE ~Ready(ix, c, i)
      <3>1. CreateOn(ix, c) = [c EXCEPT !.pending = Append(Tail(c.pending), i),
                                        !.putback = c.putback + 1]
        BY <1>2, <2>1 DEF CreateOn, CreateNext, Ready, Creating, CreationState
      <3>2. QED
        BY <3>1, <1>2, <2>1, PutBackCreating
    <2>2. CASE Ready(ix, c, i) /\ i \in ToSet(c.created)
      <3>1. CreateOn(ix, c) = [c EXCEPT !.pending = Tail(c.pending), !.putback = 0]
        BY <1>2, <2>2 DEF CreateOn, CreateNext, Ready, Creating, CreationState
      <3>2. QED
        BY <3>1, <1>2, <2>2, DropCreating
    <2>3. CASE Ready(ix, c, i) /\ i \notin ToSet(c.created)
      <3>1. CreateOn(ix, c) =
                [pending |-> Tail(c.pending) \o SetToSeq(Children(ix, i) \ ToSet(c.created)),
                 created |-> Append(c.created, i), putback |-> 0]
        BY <1>2, <2>3 DEF CreateOn, CreateNext, Ready
      <3>2. QED
        BY <3>1, <1>2, <2>3, CreateCreating
    <2>4. QED
      BY <2>1, <2>2, <2>3
  <1>3. QED
    BY <1>1, <1>2

\* The function Creation is what its recursion says.
LEMMA CreationTurns ==
  ASSUME NEW ix \in Configs
  PROVE  /\ Creation(ix)[0] = [pending |-> SetToSeq(Roots(ix)), created |-> <<>>, putback |-> 0]
         /\ \A n \in Nat : Creation(ix)[n + 1] = CreateOn(ix, Creation(ix)[n])
  <1> DEFINE W == {c \in CreationState : Creating(ix, c)}
             t == [c \in W |-> CreateOn(ix, c)]
             begin == [pending |-> SetToSeq(Roots(ix)), created |-> <<>>, putback |-> 0]
             body(f) == [k \in Nat |-> IF k = 0 THEN begin ELSE CreateOn(ix, f[k - 1])]
  <1>1. \A c : Creating(ix, c) => c \in W
    BY DEF Creating
  <1>2. begin \in W
    BY <1>1, CreationBegins
  <1>3. t \in [W -> W]
    BY <1>1, CreatingOn
  <1>4. Creation(ix) = CHOOSE f_1 : f_1 = body(f_1)
    BY DEF Creation
  <1> HIDE DEF W, t, begin
  <1>5. PICK f : f \in Loops(W, begin, t)
    BY <1>2, <1>3, LoopExists
  <1> USE DEF t
  <1>6. f \in [Nat -> W] /\ f[0] = begin /\ \A k \in Nat : f[k + 1] = t[f[k]]
    BY <1>5 DEF Loops
  <1>7. f = body(f)
    <2>1. ASSUME NEW k \in Nat
          PROVE  f[k] = IF k = 0 THEN begin ELSE CreateOn(ix, f[k - 1])
      <3>1. CASE k = 0
        BY <3>1, <1>6
      <3>2. CASE k # 0
        <4>1. k - 1 \in Nat /\ (k - 1) + 1 = k
          BY <3>2
        <4>2. f[(k - 1) + 1] = t[f[k - 1]] /\ f[k - 1] \in W
          BY <4>1, <1>6
        <4>3. QED
          BY <3>2, <4>1, <4>2
      <3>3. QED
        BY <3>1, <3>2
    <2>2. f = [k \in Nat |-> f[k]]
      BY <1>6
    <2>3. QED
      BY <2>1, <2>2
  <1> HIDE DEF body
  <1>8. Creation(ix) = body(Creation(ix))
    BY <1>4, <1>7, Zenon
  <1>9. \A k \in Nat : Creation(ix)[k]
            = IF k = 0 THEN begin ELSE CreateOn(ix, Creation(ix)[k - 1])
    BY <1>8, Zenon DEF body
  <1>10. Creation(ix)[0] = begin
    BY <1>9
  <1>11. ASSUME NEW n \in Nat
         PROVE  Creation(ix)[n + 1] = CreateOn(ix, Creation(ix)[n])
    <2>1. n + 1 \in Nat /\ n + 1 # 0 /\ (n + 1) - 1 = n
      OBVIOUS
    <2>2. QED
      BY <1>9, <2>1, Zenon
  <1>12. QED
    BY <1>10, <1>11 DEF begin

\* The invariant of the loop of the import, after any number of turns.
LEMMA CreatingTurns ==
  ASSUME NEW ix \in Configs, NEW n \in Nat
  PROVE  Creating(ix, Creation(ix)[n])
  <1> DEFINE S == {k \in Nat : Creating(ix, Creation(ix)[k])}
  <1>1. 0 \in S
    BY CreationTurns, CreationBegins
  <1>2. ASSUME NEW k \in S
        PROVE  k + 1 \in S
    <2>1. Creation(ix)[k + 1] = CreateOn(ix, Creation(ix)[k])
      BY CreationTurns
    <2>2. Creating(ix, CreateOn(ix, Creation(ix)[k]))
      BY CreatingOn
    <2>3. QED
      BY <2>1, <2>2
  <1>3. S \in SUBSET Nat
    OBVIOUS
  <1> HIDE DEF S
  <1>4. S = Nat
    BY <1>1, <1>2, <1>3, Induction
  <1>5. QED
    BY <1>4 DEF S

\* The first of indexes which were created inherits from none of the others.
LEMMA FirstCreated ==
  ASSUME NEW ix \in Configs, NEW c, Creating(ix, c), NEW S, S \subseteq ToSet(c.created), S # {}
  PROVE  \E i \in S : ToSet(Bases(ix, i)) \cap S \subseteq {i}
  <1> DEFINE n == Len(c.created)
             T == {k \in 1 .. n : c.created[k] \in S}
  <1>1. n \in Nat /\ DOMAIN c.created = 1 .. n /\ ToSet(c.created) \subseteq Existing(ix)
    BY LenProperties DEF Creating, CreationState
  <1>2. T \subseteq Nat /\ T # {}
    BY <1>1 DEF ToSet
  <1>3. PICK k \in T : \A j \in T : k <= j
    BY <1>2, Least
  <1>4. \A j \in 1 .. k - 1 : c.created[j] \notin S
    BY <1>1, <1>3
  <1>5. TreeBases(ix, c.created[k]) \subseteq Before(c, k)
    BY <1>1 DEF Creating
  <1>6. TreeBases(ix, c.created[k]) \cap S = {}
    BY <1>4, <1>5 DEF Before
  <1>7. ToSet(Bases(ix, c.created[k])) \cap S \subseteq {c.created[k]}
    BY <1>1, <1>6 DEF TreeBases
  <1>8. QED
    BY <1>7

\* What an index inherits from was created with it.
LEMMA CreatedClosed ==
  ASSUME NEW ix \in Configs, NEW c, Creating(ix, c), NEW i \in ToSet(c.created)
  PROVE  Reachable(ix, i) \subseteq ToSet(c.created)
  <1> DEFINE created == ToSet(c.created)
  <1>1. Len(c.created) \in Nat /\ DOMAIN c.created = 1 .. Len(c.created)
    BY LenProperties DEF Creating, CreationState
  <1>2. created \subseteq Existing(ix) /\ Existing(ix) \subseteq StageNames
    BY DEF Creating, Existing
  <1>3. ASSUME NEW j \in created
        PROVE  ToSet(Bases(ix, j)) \cap Existing(ix) \subseteq created
    <2>1. PICK k \in 1 .. Len(c.created) : j = c.created[k]
      BY <1>1 DEF ToSet
    <2>2. TreeBases(ix, j) \subseteq Before(c, k)
      BY <1>1, <2>1 DEF Creating
    <2>3. Before(c, k) \subseteq created
      <3>1. ASSUME NEW l \in 1 .. k - 1
            PROVE  c.created[l] \in created
        <4>1. l \in 1 .. Len(c.created)
          BY <1>1
        <4>2. QED
          BY <4>1, <1>1 DEF ToSet
      <3>2. QED
        BY <3>1 DEF Before
    <2>4. QED
      BY <2>2, <2>3 DEF TreeBases
  <1>4. Closed(ix, created)
    BY <1>3 DEF Closed
  <1>5. QED
    BY <1>2, <1>4, ReachableClosed

\* What an import has created when it creates nothing more, and what is pending then.
LEMMA CreationSettled ==
  ASSUME NEW ix \in Configs, NEW c, Creating(ix, c), Settled(c)
  PROVE  /\ ToSet(c.created) = Importable(ix)
         /\ c.pending = <<>> <=> KeptWaiting(ix) = {}
  <1> DEFINE created == ToSet(c.created)
  <1>1. /\ c.pending \in Seq(StageNames) /\ Len(c.pending) \in Nat /\ c.putback \in Nat
        /\ DOMAIN c.pending = 1 .. Len(c.pending)
    BY LenProperties DEF Creating, CreationState
  <1>2. created \cup ToSet(c.pending) \subseteq Existing(ix) /\ Existing(ix) \subseteq StageNames
    BY DEF Creating, Existing
  <1>3. \A i \in ToSet(c.pending) : ~Ready(ix, c, i)
    <2>1. ASSUME NEW k \in DOMAIN c.pending
          PROVE  ~Ready(ix, c, c.pending[k])
      <3>1. k > Len(c.pending) - c.putback
        BY <1>1 DEF Settled
      <3>2. QED
        BY <3>1 DEF Creating
    <2>2. QED
      BY <2>1 DEF ToSet
  <1>4. ASSUME NEW i \in created
        PROVE  i \in Importable(ix)
    <2>1. Reachable(ix, i) \subseteq created
      BY CreatedClosed
    <2>2. FreeOfCircles(ix, i)
      BY <2>1, FirstCreated DEF FreeOfCircles
    <2>3. QED
      BY <2>2, <1>2 DEF Importable
  <1>5. ASSUME NEW i \in Importable(ix), i \notin created
        PROVE  FALSE
    <2> DEFINE S == Reachable(ix, i) \ created
    <2>1. i \in Existing(ix) /\ i \in StageNames /\ FreeOfCircles(ix, i)
      BY <1>2, <1>5 DEF Importable
    <2>2. S # {} /\ S \subseteq Reachable(ix, i)
      BY <2>1, <1>5, ReachableClosed
    <2>3. PICK j \in S : ToSet(Bases(ix, j)) \cap S \subseteq {j}
      BY <2>1, <2>2 DEF FreeOfCircles
    <2>4. ToSet(Bases(ix, j)) \cap Existing(ix) \subseteq Reachable(ix, i)
      BY <2>1, <2>3, ReachableClosed DEF Closed
    <2>5. Ready(ix, c, j)
      BY <2>3, <2>4 DEF Ready, TreeBases
    <2>6. j \in Existing(ix)
      <3>1. Closed(ix, Existing(ix))
        BY DEF Closed
      <3>2. Reachable(ix, i) \subseteq Existing(ix)
        BY <2>1, <3>1, <1>2, ReachableClosed
      <3>3. QED
        BY <2>3, <3>2
    <2>7. Reached(ix, c, j)
      BY <2>5 DEF Ready, Reached
    <2>8. j \in ToSet(c.pending)
      BY <2>3, <2>6, <2>7 DEF Creating
    <2>9. QED
      BY <2>5, <2>8, <1>3
  <1>6. created = Importable(ix)
    BY <1>4, <1>5
  <1>7. ASSUME NEW i \in ToSet(c.pending)
        PROVE  i \in KeptWaiting(ix)
    <2>1. ~Ready(ix, c, i) /\ i \in Existing(ix)
      BY <1>2, <1>3
    <2>2. i \notin created
      <3>1. ASSUME i \in created
            PROVE  FALSE
        <4>1. PICK k \in DOMAIN c.created : i = c.created[k]
          BY <3>1 DEF ToSet
        <4>2. Reachable(ix, i) \subseteq created /\ i \in StageNames
          BY <3>1, <1>2, CreatedClosed
        <4>3. ToSet(Bases(ix, i)) \cap Existing(ix) \subseteq created
          BY <4>2, ReachableClosed DEF Closed
        <4>4. QED
          BY <4>3, <2>1 DEF Ready, TreeBases
      <3>2. QED
        BY <3>1
    <2>3. Reached(ix, c, i)
      BY <2>1, <2>2 DEF Creating
    <2>4. TreeBases(ix, i) \cap created # {}
      BY <2>1, <2>3 DEF Reached, Ready
    <2>5. QED
      BY <2>1, <2>2, <2>4, <1>6 DEF KeptWaiting, TreeBases
  <1>8. ASSUME NEW i \in KeptWaiting(ix)
        PROVE  i \in ToSet(c.pending)
    <2>1. i \in Existing(ix) \ created /\ ToSet(Bases(ix, i)) \cap created # {}
      BY <1>6 DEF KeptWaiting
    <2>2. Reached(ix, c, i)
      BY <2>1, <1>2 DEF Reached, TreeBases
    <2>3. QED
      BY <2>1, <2>2 DEF Creating
  <1>9. ToSet(c.pending) = KeptWaiting(ix)
    BY <1>7, <1>8
  <1>10. c.pending = <<>> <=> ToSet(c.pending) = {}
    <2>1. c.pending = <<>> <=> Len(c.pending) = 0
      BY <1>1, EmptySeq
    <2>2. Len(c.pending) = 0 <=> 1 .. Len(c.pending) = {}
      <3>1. Len(c.pending) # 0 => 1 \in 1 .. Len(c.pending)
        BY <1>1
      <3>2. Len(c.pending) = 0 => \A k \in 1 .. Len(c.pending) : FALSE
        OBVIOUS
      <3>3. QED
        BY <3>1, <3>2
    <2>3. ToSet(c.pending) = {} <=> DOMAIN c.pending = {}
      BY DEF ToSet
    <2>4. QED
      BY <1>1, <2>1, <2>2, <2>3
  <1>11. QED
    BY <1>6, <1>9, <1>10

\* Each index is created once, and not before an index which is a base of it.
LEMMA CreatedInOrder ==
  ASSUME NEW ix \in Configs, NEW c, Creating(ix, c),
         NEW j \in DOMAIN c.created, NEW k \in DOMAIN c.created, j < k
  PROVE  c.created[j] # c.created[k] /\ c.created[k] \notin ToSet(Bases(ix, c.created[j]))
  <1>1. /\ Len(c.created) \in Nat /\ DOMAIN c.created = 1 .. Len(c.created)
        /\ ToSet(c.created) \subseteq Existing(ix)
    BY LenProperties DEF Creating, CreationState
  <1>2. j \in Nat /\ k \in Nat /\ j # k
    BY <1>1
  <1>3. c.created[j] # c.created[k]
    BY <1>2 DEF Creating
  <1>4. ASSUME c.created[k] \in ToSet(Bases(ix, c.created[j]))
        PROVE  FALSE
    <2>1. c.created[k] \in TreeBases(ix, c.created[j])
      BY <1>1, <1>3, <1>4 DEF TreeBases, ToSet
    <2>2. c.created[k] \in Before(c, j)
      BY <2>1 DEF Creating
    <2>3. PICK l \in 1 .. j - 1 : c.created[k] = c.created[l]
      BY <2>2 DEF Before
    <2>4. l \in DOMAIN c.created /\ l # k
      BY <1>1, <1>2
    <2>5. QED
      BY <2>3, <2>4 DEF Creating
  <1>5. QED
    BY <1>3, <1>4

-----------------------------------------------------------------------------
(* The configuration of the indexes.                                       *)

LEMMA IXTypeIndex ==
  ASSUME IXTypeOK
  PROVE  index \in Configs
  BY DEF IXTypeOK, Configs

\* A request with one setting changes neither the type nor the shape of a configuration.
LEMMA ChangedSettings ==
  ASSUME IXTypeOK, NEW i \in Existing(index), NEW conf \in Changed(i)
  PROVE  conf \in StageConfig \cup MirrorConfig /\ conf.type = index[i].type
  <1>1. /\ i \in StageNames /\ index[i] # NoConfig
        /\ index[i] \in {NoConfig} \cup StageConfig \cup MirrorConfig
    BY DEF Existing, IXTypeOK
  <1>2. /\ Settings[i].bases \subseteq Seq(StageNames) /\ Settings[i].whitelist \subseteq Whitelists
        /\ Settings[i].inheritance \subseteq {"intersection", "union"}
        /\ Settings[i].volatile \subseteq BOOLEAN
    BY <1>1, IndexesConstants
  <1>3. CASE index[i] \in StageConfig
    <2>1. index[i].type = "stage"
      BY <1>3 DEF StageConfig
    <2>2. \/ \E volatile \in BOOLEAN : conf = [index[i] EXCEPT !.volatile = volatile]
          \/ \E bases \in Seq(StageNames) : conf = [index[i] EXCEPT !.bases = bases]
          \/ \E names \in Whitelists : conf = [index[i] EXCEPT !.mirror_whitelist = names]
          \/ \E how \in {"intersection", "union"} :
                conf = [index[i] EXCEPT !.mirror_whitelist_inheritance = how]
      BY <1>1, <1>2, <2>1 DEF Changed, Privates
    <2>3. QED
      BY <1>3, <2>2 DEF StageConfig
  <1>4. CASE index[i] \in MirrorConfig
    <2>1. index[i].type = "mirror" /\ i \notin Privates(index)
      BY <1>4 DEF MirrorConfig, Privates
    <2>2. \E volatile \in BOOLEAN : conf = [index[i] EXCEPT !.volatile = volatile]
      BY <1>1, <1>2, <2>1 DEF Changed
    <2>3. QED
      BY <1>4, <2>2 DEF MirrorConfig
  <1>5. QED
    BY <1>1, <1>3, <1>4

\* What a new configuration of one index does to the types.
LEMMA ConfigSet ==
  ASSUME NEW ix \in Configs, NEW i \in StageNames,
         NEW conf \in {NoConfig} \cup StageConfig \cup MirrorConfig
  PROVE  LET new == [ix EXCEPT ![i] = conf]
         IN /\ new \in Configs /\ new[i] = conf
            /\ \A j \in StageNames \ {i} : new[j] = ix[j]
  BY DEF Configs

LEMMA IXTypeInit == IXInit => IXTypeOK
  BY DEF IXInit, IXTypeOK, Existing, Mirrors, NoConfig, Answers

\* Indexes are removed, those of u with the user.
LEMMA TypeRemove ==
  ASSUME IXTypeOK, NEW gone \in SUBSET StageNames, RemoveIndexes(gone),
         NEW left \in SUBSET Users, users' = left, userlist' = left,
         \A i \in StageNames \ gone : Owner[i] \in users => Owner[i] \in left
  PROVE  IXTypeOK'
  <1>1. \A i \in StageNames : index'[i] = IF i \in gone THEN NoConfig ELSE index[i]
    BY DEF RemoveIndexes
  <1>2. \A i \in StageNames : hosts'[i] = IF i \in gone THEN "no" ELSE hosts[i]
    BY DEF RemoveIndexes
  <1>3. index' \in [StageNames -> {NoConfig} \cup StageConfig \cup MirrorConfig]
    BY DEF IXTypeOK, RemoveIndexes
  <1>4. hosts' \in [StageNames -> Answers]
    BY DEF IXTypeOK, RemoveIndexes, Answers
  <1>5. ASSUME NEW i \in StageNames
        PROVE  /\ index'[i] # NoConfig => Owner[i] \in users'
               /\ index'[i] = NoConfig => hosts'[i] = "no"
               /\ hosts'[i] = "unknown" => index'[i].type = "mirror"
    BY <1>1, <1>2 DEF IXTypeOK, Existing, Mirrors
  <1>6. QED
    BY <1>3, <1>4, <1>5 DEF IXTypeOK, Existing, Mirrors

\* An index gets a configuration, of the type it has if it exists.
LEMMA TypeConfig ==
  ASSUME IXTypeOK, NEW i \in StageNames, NEW conf \in StageConfig \cup MirrorConfig,
         i \in Existing(index) => conf.type = index[i].type,
         index' = index \/ index' = [index EXCEPT ![i] = conf], hosts' = hosts,
         users' = users \cup {Owner[i]}, userlist' = users'
  PROVE  IXTypeOK'
  <1>1. index \in [StageNames -> {NoConfig} \cup StageConfig \cup MirrorConfig]
        /\ users' \subseteq Users
    BY IndexesConstants DEF IXTypeOK
  <1>2. index' \in [StageNames -> {NoConfig} \cup StageConfig \cup MirrorConfig]
    BY <1>1
  <1>3. ASSUME NEW j \in StageNames
        PROVE  /\ index'[j] # NoConfig => Owner[j] \in users'
               /\ index'[j] = NoConfig => hosts'[j] = "no"
               /\ hosts'[j] = "unknown" => index'[j].type = "mirror"
    <2>1. CASE index'[j] = index[j]
      BY <2>1 DEF IXTypeOK, Existing, Mirrors
    <2>2. CASE index'[j] # index[j]
      <3>1. j = i /\ index'[j] = conf
        BY <2>2, <1>1
      <3>2. conf # NoConfig
        BY DEF StageConfig, MirrorConfig, NoConfig
      <3>3. hosts[i] = "unknown" => i \in Existing(index) /\ index[i].type = "mirror"
        BY DEF IXTypeOK, Existing, Mirrors
      <3>4. QED
        BY <3>1, <3>2, <3>3
    <2>3. QED
      BY <2>1, <2>2
  <1>4. QED
    BY <1>1, <1>2, <1>3 DEF IXTypeOK, Existing, Mirrors

LEMMA IXTypeStep ==
  ASSUME IXTypeOK, [IXNext]_ixvars
  PROVE  IXTypeOK'
  <1>1. ASSUME NEW u \in Users, UserCreate(u)
        PROVE  IXTypeOK'
    <2>1. users' = users \cup {u} /\ userlist' = users' /\ index' = index /\ hosts' = hosts
      BY <1>1 DEF UserCreate, IXTypeOK
    <2>2. QED
      BY <2>1 DEF IXTypeOK, Existing, Mirrors
  <1>2. ASSUME NEW u \in Users, UserDelete(u)
        PROVE  IXTypeOK'
    <2>1. users' = users \ {u} /\ userlist' = users \ {u} /\ users \ {u} \in SUBSET Users
      BY <1>2 DEF UserDelete, IXTypeOK
    <2>2. QED
      BY <1>2, <2>1, TypeRemove DEF UserDelete
  <1>3. ASSUME NEW i \in StageNames, NEW conf \in StageConfig \cup MirrorConfig,
               IndexCreate(i, conf)
        PROVE  IXTypeOK'
    <2>1. users' = users \cup {Owner[i]} /\ userlist' = users' /\ i \notin Existing(index)
      BY <1>3 DEF IndexCreate, IXTypeOK
    <2>2. index' = index \/ index' = [index EXCEPT ![i] = conf]
      BY <1>3 DEF IndexCreate, CreateStage
    <2>3. QED
      BY <1>3, <2>1, <2>2, TypeConfig DEF IndexCreate
  <1>4. ASSUME NEW i \in StageNames, IndexModify(i)
        PROVE  IXTypeOK'
    <2>1. PICK conf \in Changed(i) : index' = [index EXCEPT ![i] = conf]
      BY <1>4 DEF IndexModify
    <2>2. i \in Existing(index) /\ hosts' = hosts /\ users' = users /\ userlist' = userlist
      BY <1>4 DEF IndexModify
    <2>3. conf \in StageConfig \cup MirrorConfig /\ conf.type = index[i].type
      BY <2>1, <2>2, ChangedSettings
    <2>4. Owner[i] \in users /\ userlist = users
      BY <2>2 DEF IXTypeOK
    <2>5. users' = users \cup {Owner[i]} /\ userlist' = users'
      BY <2>2, <2>4
    <2>6. QED
      BY <2>1, <2>2, <2>3, <2>5, TypeConfig
  <1>5. ASSUME NEW i \in StageNames, IndexDelete(i)
        PROVE  IXTypeOK'
    <2>1. users' = users /\ userlist' = users /\ users \in SUBSET Users
      BY <1>5 DEF IndexDelete, IXTypeOK
    <2>2. QED
      BY <1>5, <2>1, TypeRemove DEF IndexDelete
  <1>6. ASSUME NEW i \in StageNames, NEW known \in Answers, Host(i, known)
        PROVE  IXTypeOK'
    <2>1. /\ i \in Existing(index) /\ (i \in Privates(index) => known # "unknown")
          /\ hosts' = [hosts EXCEPT ![i] = known]
          /\ UNCHANGED <<userlist, users, index>>
      BY <1>6 DEF Host
    <2>2. known = "unknown" => i \in Mirrors(index)
      BY <2>1, Kinds, IXTypeIndex
    <2>3. QED
      BY <2>1, <2>2 DEF IXTypeOK, Existing, Mirrors
  <1>7. ASSUME UNCHANGED ixvars
        PROVE  IXTypeOK'
    BY <1>7 DEF IXTypeOK, Existing, Mirrors, ixvars
  <1>8. Mirror(TRUE) \in MirrorConfig
    BY DEF Mirror, MirrorConfig
  <1>9. ASSUME NEW i \in StageNames, NEW bases \in Settings[i].bases
        PROVE  Stage(bases, {}, "intersection", TRUE) \in StageConfig
    BY IndexesConstants DEF Stage, StageConfig, Whitelists
  <1>10. QED
    BY <1>1, <1>2, <1>3, <1>4, <1>5, <1>6, <1>7, <1>8, <1>9 DEF IXNext

\* The types of the variables, in every reachable state.
THEOREM IXTypeInvariance == IXSpec => []IXTypeOK
  BY IXTypeInit, IXTypeStep, PTL DEF IXSpec

\* Where the walk of sro has come to its end, the resolution order is what can be reached.
THEOREM ResolutionOrder == IXSpec => [](LoopsEnd => SroReaches)
  <1>1. IXTypeOK => (LoopsEnd => SroReaches)
    BY IXTypeIndex, SroResolves DEF LoopsEnd, SroReaches
  <1>2. QED
    BY <1>1, IXTypeInvariance, PTL

\* Where the loop of the import creates nothing more, bases were created first and all that
\* can be created has been.
THEOREM BasesFirst == IXSpec => [](LoopsEnd => ImportsBasesFirst)
  <1>1. ASSUME IXTypeOK, LoopsEnd
        PROVE  ImportsBasesFirst
    <2> DEFINE c == Creation(index)[MaxTurns]
    <2>1. index \in Configs /\ MaxTurns \in Nat
      BY <1>1, IXTypeIndex, IndexesConstants
    <2>2. Creating(index, c) /\ Settled(c)
      BY <1>1, <2>1, CreatingTurns DEF LoopsEnd
    <2>3. IterNames(index).ends = (c.pending = <<>> /\ Existing(index) \subseteq ToSet(c.created))
      BY DEF IterNames
    <2> HIDE DEF c
    <2>4. /\ ToSet(c.created) = Importable(index)
          /\ c.pending = <<>> <=> KeptWaiting(index) = {}
      BY <2>1, <2>2, CreationSettled
    <2>5. ASSUME Importable(index) = Existing(index)
          PROVE  IterNames(index).ends
      BY <2>3, <2>4, <2>5 DEF KeptWaiting
    <2>6. \A j, k \in DOMAIN c.created : j < k =>
            /\ c.created[j] # c.created[k]
            /\ c.created[k] \notin ToSet(Bases(index, c.created[j]))
      BY <2>1, <2>2, CreatedInOrder
    <2>7. QED
      BY <2>2, <2>4, <2>5, <2>6 DEF ImportsBasesFirst, c
  <1>2. QED
    BY <1>1, IXTypeInvariance, PTL

-----------------------------------------------------------------------------
(* The loops end.                                                          *)

\* Numbers which descend, the first, the second or the third of them, do so only so often.
LEMMA Descent ==
  ASSUME NEW a \in [Nat -> Nat], NEW b \in [Nat -> Nat], NEW c \in [Nat -> Nat], NEW E,
         \A n \in Nat : n \notin E =>
            \/ a[n + 1] < a[n]
            \/ a[n + 1] = a[n] /\ b[n + 1] < b[n]
            \/ a[n + 1] = a[n] /\ b[n + 1] <= b[n] /\ c[n + 1] < c[n]
  PROVE  \E n \in Nat : n \in E
  <1> SUFFICES ASSUME \A n \in Nat : n \notin E
               PROVE  FALSE
    OBVIOUS
  <1>1. PICK k \in Nat : \A n \in Nat : a[k] <= a[n]
    <2> DEFINE T == {a[n] : n \in Nat}
    <2>1. T \subseteq Nat /\ T # {}
      OBVIOUS
    <2> HIDE DEF T
    <2>2. PICK x \in T : \A y \in T : x <= y
      BY <2>1, Least
    <2>3. QED
      BY <2>2 DEF T
  <1>2. PICK l \in Nat : a[l] = a[k] /\ \A n \in Nat : a[n] = a[k] => b[l] <= b[n]
    <2> DEFINE T == {b[n] : n \in {m \in Nat : a[m] = a[k]}}
    <2>1. T \subseteq Nat /\ T # {}
      OBVIOUS
    <2> HIDE DEF T
    <2>2. PICK x \in T : \A y \in T : x <= y
      BY <2>1, Least
    <2>3. QED
      BY <2>2 DEF T
  <1>3. PICK m \in Nat : /\ a[m] = a[k] /\ b[m] = b[l]
                         /\ \A n \in Nat : a[n] = a[k] /\ b[n] = b[l] => c[m] <= c[n]
    <2> DEFINE T == {c[n] : n \in {j \in Nat : a[j] = a[k] /\ b[j] = b[l]}}
    <2>1. T \subseteq Nat /\ T # {}
      BY <1>2
    <2> HIDE DEF T
    <2>2. PICK x \in T : \A y \in T : x <= y
      BY <2>1, Least
    <2>3. QED
      BY <2>2 DEF T
  <1>4. m + 1 \in Nat
    OBVIOUS
  <1>5. \/ a[m + 1] < a[m]
        \/ a[m + 1] = a[m] /\ b[m + 1] < b[m]
        \/ a[m + 1] = a[m] /\ b[m + 1] <= b[m] /\ c[m + 1] < c[m]
    OBVIOUS
  <1>6. /\ a[m] \in Nat /\ b[m] \in Nat /\ c[m] \in Nat
        /\ a[m + 1] \in Nat /\ b[m + 1] \in Nat /\ c[m + 1] \in Nat
    BY <1>4
  <1>7. a[m + 1] = a[k]
    BY <1>1, <1>3, <1>4, <1>5, <1>6
  <1>8. b[m + 1] = b[l]
    <2>1. b[l] <= b[m + 1] /\ b[m] = b[l] /\ b[l] \in Nat
      BY <1>2, <1>3, <1>4, <1>7
    <2>2. ~(a[m + 1] < a[m])
      BY <1>3, <1>6, <1>7
    <2>3. b[m + 1] <= b[m]
      BY <1>5, <1>6, <2>2
    <2>4. b[m + 1] \in Nat
      BY <1>6
    <2> DEFINE x == b[m + 1]
               y == b[l]
    <2>5. x \in Nat /\ y \in Nat /\ y <= x /\ x <= y
      BY <2>1, <2>3, <2>4
    <2> HIDE DEF x, y
    <2>6. x = y
      BY <2>5
    <2>7. QED
      BY <2>6 DEF x, y
  <1>9. QED
    BY <1>3, <1>4, <1>5, <1>6, <1>7, <1>8

\* The stages which have not been seen, and how many which have been come before the first of
\* them.
Unseen(w) == StageNames \ w.seen
UnseenAt(w) == {k \in 0 .. Len(w.todo) : k = Len(w.todo) \/ w.todo[k + 1] \notin w.seen}
SeenFirst(w) == CHOOSE k \in UnseenAt(w) : \A j \in UnseenAt(w) : k <= j

\* There is such a number, and it is the least.
LEMMA SeenFirstLeast ==
  ASSUME NEW w \in WalkState
  PROVE  /\ SeenFirst(w) \in UnseenAt(w) /\ SeenFirst(w) \in Nat
         /\ \A j \in UnseenAt(w) : SeenFirst(w) <= j
  <1>1. Len(w.todo) \in Nat
    BY LenProperties DEF WalkState
  <1>2. UnseenAt(w) \subseteq Nat /\ Len(w.todo) \in UnseenAt(w)
    BY <1>1 DEF UnseenAt
  <1>3. \E k \in UnseenAt(w) : \A j \in UnseenAt(w) : k <= j
    BY <1>2, Least
  <1>4. QED
    BY <1>2, <1>3 DEF SeenFirst

\* What is left to do gets less: stages nobody has seen, the ones taken once more before the
\* first of these, bases of the stage.
Left(w) == Cardinality(Unseen(w))
Nearer(w, y) ==
  \/ Left(y) < Left(w)
  \/ Left(y) = Left(w) /\ SeenFirst(y) < SeenFirst(w)
  \/ Left(y) = Left(w) /\ SeenFirst(y) <= SeenFirst(w) /\ Len(y.bases) < Len(w.bases)

\* Seeing a stage leaves fewer unseen.
LEMMA SeesMore ==
  ASSUME NEW w \in WalkState, NEW y \in WalkState, NEW s \in StageNames \ w.seen,
         y.seen = w.seen \cup {s}
  PROVE  Left(y) < Left(w)
  <1>1. IsFiniteSet(Unseen(w))
    BY IndexesConstants, FS_Subset DEF Unseen
  <1>2. Unseen(y) = Unseen(w) \ {s} /\ s \in Unseen(w)
    BY DEF Unseen
  <1>3. Cardinality(Unseen(y)) = Cardinality(Unseen(w)) - 1 /\ Cardinality(Unseen(w)) \in Nat
    BY <1>1, <1>2, FS_RemoveElement, FS_CardinalityType
  <1>4. QED
    BY <1>3 DEF Left

\* These are numbers.
LEMMA LeftType ==
  ASSUME NEW w \in WalkState
  PROVE  Left(w) \in Nat /\ SeenFirst(w) \in Nat /\ Len(w.bases) \in Nat
  <1>1. IsFiniteSet(Unseen(w))
    BY IndexesConstants, FS_Subset DEF Unseen
  <1>2. QED
    BY <1>1, FS_CardinalityType, SeenFirstLeast, LenProperties DEF Left, WalkState

\* A turn that takes a base of the stage at hand leaves less to do.
LEMMA BaseNearer ==
  ASSUME NEW ix \in Configs, NEW w \in WalkState, w.bases # <<>>, TakeBase(ix, w) \in WalkState
  PROVE  Nearer(w, TakeBase(ix, w))
  <1> DEFINE b == Head(w.bases)
             rest == [w EXCEPT !.bases = Tail(@)]
             y == TakeBase(ix, w)
  <1>1. /\ b \in StageNames /\ Len(Tail(w.bases)) < Len(w.bases)
        /\ w.todo \in Seq(StageNames) /\ Len(w.todo) \in Nat
    <2>1. w.bases \in Seq(StageNames) /\ w.todo \in Seq(StageNames)
      BY DEF WalkState
    <2>2. Len(w.bases) \in Nat /\ Len(Tail(w.bases)) = Len(w.bases) - 1 /\ b \in StageNames
      BY <2>1, HeadTailProperties, LenProperties
    <2>3. QED
      BY <2>1, <2>2, LenProperties
  <1>2. CASE b \in w.seen \/ b \notin Existing(ix)
    <2>1. y.seen = w.seen /\ y.todo = w.todo /\ y.bases = Tail(w.bases)
      BY <1>2 DEF TakeBase, WalkState
    <2> HIDE DEF y
    <2>2. Left(y) = Left(w) /\ SeenFirst(y) = SeenFirst(w)
      BY <2>1 DEF Left, Unseen, SeenFirst, UnseenAt
    <2>3. SeenFirst(w) \in Nat
      BY LeftType
    <2>4. QED
      BY <2>1, <2>2, <2>3, <1>1 DEF Nearer, y
  <1>3. CASE ~(b \in w.seen \/ b \notin Existing(ix)) /\ b \in Mirrors(ix)
    <2>1. y.seen = w.seen \cup {b}
      BY <1>3 DEF TakeBase, WalkState
    <2> HIDE DEF y
    <2>2. y \in WalkState
      BY DEF y
    <2>3. Left(y) < Left(w)
      BY <2>1, <2>2, <1>1, <1>3, SeesMore
    <2>4. QED
      BY <2>3 DEF Nearer, y
  <1>4. CASE ~(b \in w.seen \/ b \notin Existing(ix)) /\ b \notin Mirrors(ix)
    <2>1. y.seen = w.seen /\ y.todo = Append(w.todo, b) /\ y.bases = Tail(w.bases)
      BY <1>4 DEF TakeBase, WalkState
    <2> HIDE DEF y
    <2>2. y \in WalkState
      BY DEF y
    <2> DEFINE n == Len(w.todo)
               k == SeenFirst(w)
    <2>3. /\ Len(y.todo) = n + 1 /\ y.todo[n + 1] = b
          /\ \A j \in 1 .. n : y.todo[j] = w.todo[j]
      BY <2>1, <1>1, AppendProperties
    <2>4. k \in UnseenAt(w) /\ k \in Nat
      BY SeenFirstLeast
    <2> HIDE DEF b, k
    <2>5. k \in UnseenAt(y)
      <3>1. CASE k = n
        BY <3>1, <2>1, <2>3, <1>1, <1>4 DEF UnseenAt
      <3>2. CASE k # n
        <4>1. k + 1 \in 1 .. n /\ w.todo[k + 1] \notin w.seen
          BY <3>2, <2>4, <1>1 DEF UnseenAt
        <4>2. QED
          BY <4>1, <2>1, <2>3, <2>4, <1>1 DEF UnseenAt
      <3>3. QED
        BY <3>1, <3>2
    <2>6. SeenFirst(y) <= SeenFirst(w)
      BY <2>2, <2>5, SeenFirstLeast DEF k
    <2>7. Left(y) = Left(w)
      BY <2>1 DEF Left, Unseen
    <2>8. QED
      BY <2>1, <2>6, <2>7, <1>1 DEF Nearer, y
  <1>5. QED
    BY <1>2, <1>3, <1>4

\* A turn that takes the next stage leaves less to do.
LEMMA StageNearer ==
  ASSUME NEW ix \in Configs, NEW w \in WalkState, w.todo # <<>>, TakeStage(ix, w) \in WalkState
  PROVE  Nearer(w, TakeStage(ix, w))
  <1> DEFINE s == Head(w.todo)
             y == TakeStage(ix, w)
             n == Len(w.todo)
             k == SeenFirst(w)
  <1>1. /\ s \in StageNames /\ s = w.todo[1] /\ n \in Nat \ {0}
        /\ Len(Tail(w.todo)) = n - 1
        /\ \A j \in 1 .. n - 1 : Tail(w.todo)[j] = w.todo[j + 1]
    <2>1. w.todo \in Seq(StageNames)
      BY DEF WalkState
    <2>2. n \in Nat \ {0}
      BY <2>1, EmptySeq, LenProperties
    <2>3. QED
      BY <2>1, <2>2, HeadTailProperties
  <1>2. y.seen = w.seen \cup {s} /\ y.todo = Tail(w.todo) /\ y \in WalkState
    BY DEF TakeStage, WalkState
  <1> HIDE DEF y
  <1>3. CASE s \notin w.seen
    <2>1. Left(y) < Left(w)
      BY <1>1, <1>2, <1>3, SeesMore
    <2>2. QED
      BY <2>1 DEF Nearer, y
  <1>4. CASE s \in w.seen
    <2>1. y.seen = w.seen
      BY <1>2, <1>4
    <2>2. k \in UnseenAt(w) /\ k \in Nat
      BY SeenFirstLeast
    <2> HIDE DEF k, s
    <2>3. k # 0
      BY <2>2, <1>1, <1>4 DEF UnseenAt
    <2>4. k - 1 \in UnseenAt(y)
      <3>1. k - 1 \in 0 .. n - 1 /\ Len(y.todo) = n - 1
        BY <2>2, <2>3, <1>1, <1>2 DEF UnseenAt
      <3>2. CASE k = n
        BY <3>1, <3>2 DEF UnseenAt
      <3>3. CASE k # n
        <4>1. w.todo[k + 1] \notin w.seen /\ k \in 1 .. n - 1
          BY <3>3, <2>2, <2>3, <1>1 DEF UnseenAt
        <4>2. y.todo[k] \notin y.seen /\ (k - 1) + 1 = k
          BY <4>1, <2>1, <1>1, <1>2
        <4>3. QED
          BY <3>1, <4>2 DEF UnseenAt
      <3>4. QED
        BY <3>2, <3>3
    <2>5. SeenFirst(y) <= k - 1 /\ SeenFirst(y) \in Nat
      BY <2>4, <1>2, SeenFirstLeast
    <2>6. SeenFirst(y) < SeenFirst(w)
      BY <2>2, <2>5 DEF k
    <2>7. Left(y) = Left(w)
      BY <2>1 DEF Left, Unseen
    <2>8. QED
      BY <2>6, <2>7 DEF Nearer, y
  <1>5. QED
    BY <1>3, <1>4

\* The walk of sro ends, whatever cycles and missing bases there are.
LEMMA WalkEnds ==
  ASSUME NEW ix \in Configs, NEW i \in Existing(ix)
  PROVE  \E n \in Nat : Ended(Walk(ix, i)[n])
  <1> DEFINE W(n) == Walk(ix, i)[n]
             a == [n \in Nat |-> Left(W(n))]
             b == [n \in Nat |-> SeenFirst(W(n))]
             c == [n \in Nat |-> Len(W(n).bases)]
             E == {n \in Nat : Ended(W(n))}
  <1>1. i \in StageNames
    BY DEF Existing
  <1>2. \A n \in Nat : Walked(ix, i, W(n)) /\ W(n) \in WalkState
    BY WalkedTurns DEF Walked
  <1>3. \A n \in Nat : W(n + 1) = WalkOn(ix, W(n))
    BY WalkTurns
  <1> HIDE DEF W
  <1>4. a \in [Nat -> Nat] /\ b \in [Nat -> Nat] /\ c \in [Nat -> Nat]
    BY <1>2, LeftType
  <1>5. ASSUME NEW n \in Nat, n \notin E
        PROVE  Nearer(W(n), W(n + 1))
    <2>1. n + 1 \in Nat /\ W(n) \in WalkState /\ W(n + 1) \in WalkState /\ ~Ended(W(n))
      BY <1>2, <1>5
    <2>2. CASE W(n).bases # <<>>
      <3>1. W(n + 1) = TakeBase(ix, W(n))
        BY <2>2, <1>3 DEF WalkOn
      <3>2. QED
        BY <2>1, <2>2, <3>1, BaseNearer
    <2>3. CASE W(n).bases = <<>>
      <3>1. W(n).todo # <<>>
        BY <2>1, <2>3 DEF Ended
      <3>2. W(n + 1) = TakeStage(ix, W(n))
        BY <2>3, <3>1, <1>3 DEF WalkOn
      <3>3. QED
        BY <2>1, <3>1, <3>2, StageNearer
    <2>4. QED
      BY <2>2, <2>3
  <1>6. \A n \in Nat : n \notin E =>
            \/ a[n + 1] < a[n]
            \/ a[n + 1] = a[n] /\ b[n + 1] < b[n]
            \/ a[n + 1] = a[n] /\ b[n + 1] <= b[n] /\ c[n + 1] < c[n]
    BY <1>5 DEF Nearer
  <1> HIDE DEF a, b, c, E
  <1>7. \E n \in Nat : n \in E
    BY <1>4, <1>6, Descent
  <1>8. QED
    BY <1>7 DEF E, W

\* What is left to do of an import gets less until it is settled: indexes which have not been
\* created, pending ones, pending ones which have not been put back.
ToCreate(c) == Cardinality(StageNames \ ToSet(c.created))
Waiting(c) == IF Settled(c) THEN 0 ELSE Len(c.pending) - c.putback
Sooner(c, d) ==
  \/ ToCreate(d) < ToCreate(c)
  \/ ToCreate(d) = ToCreate(c) /\ Len(d.pending) < Len(c.pending)
  \/ ToCreate(d) = ToCreate(c) /\ Len(d.pending) <= Len(c.pending) /\ Waiting(d) < Waiting(c)

\* These are numbers.
LEMMA ToCreateType ==
  ASSUME NEW ix \in Configs, NEW c, Creating(ix, c)
  PROVE  ToCreate(c) \in Nat /\ Len(c.pending) \in Nat /\ Waiting(c) \in Nat
  <1>1. IsFiniteSet(StageNames \ ToSet(c.created))
    BY IndexesConstants, FS_Subset
  <1>2. Len(c.pending) \in Nat /\ c.putback \in Nat
    BY LenProperties DEF Creating, CreationState
  <1>3. QED
    BY <1>1, <1>2, FS_CardinalityType DEF ToCreate, Waiting, Settled

\* A turn of the import leaves less to do.
LEMMA CreationSooner ==
  ASSUME NEW ix \in Configs, NEW c, Creating(ix, c), ~Settled(c)
  PROVE  Sooner(c, CreateOn(ix, c))
  <1> DEFINE i == Head(c.pending)
             tail == Tail(c.pending)
             n == Len(c.pending)
             d == CreateOn(ix, c)
  <1>1. c.pending # <<>>
    <2>1. c.pending = <<>> => Len(c.pending) = 0
      OBVIOUS
    <2>2. c.putback \in Nat
      BY DEF Creating, CreationState
    <2>3. QED
      BY <2>1, <2>2 DEF Settled
  <1>2. /\ c.created \in Seq(StageNames) /\ c.putback \in Nat /\ n \in Nat \ {0}
        /\ tail \in Seq(StageNames) /\ Len(tail) = n - 1 /\ i \in StageNames
    BY <1>1, CreatingParts
  <1>3. c \in CreationState
    BY DEF Creating
  <1>4. ToCreate(c) \in Nat
    BY ToCreateType
  <1>5. CASE ~Ready(ix, c, i)
    <2>1. d = [c EXCEPT !.pending = Append(tail, i), !.putback = c.putback + 1]
      BY <1>1, <1>3, <1>5 DEF CreateOn, CreateNext, Ready, CreationState
    <2>2. d.created = c.created /\ d.pending = Append(tail, i) /\ d.putback = c.putback + 1
      BY <2>1, <1>3 DEF CreationState
    <2> HIDE DEF d, i, tail
    <2>3. Len(d.pending) = n
      BY <2>2, <1>2, AppendProperties
    <2>4. ToCreate(d) = ToCreate(c)
      BY <2>2 DEF ToCreate
    <2>5. Waiting(d) < Waiting(c)
      BY <2>2, <2>3, <1>2 DEF Waiting, Settled
    <2>6. QED
      BY <2>3, <2>4, <2>5, <1>2 DEF Sooner, d
  <1>6. CASE Ready(ix, c, i) /\ i \in ToSet(c.created)
    <2>1. d = [c EXCEPT !.pending = tail, !.putback = 0]
      BY <1>1, <1>3, <1>6 DEF CreateOn, CreateNext, Ready, CreationState
    <2>2. d.created = c.created /\ d.pending = tail
      BY <2>1, <1>3 DEF CreationState
    <2> HIDE DEF d, i, tail
    <2>3. ToCreate(d) = ToCreate(c) /\ Len(d.pending) < Len(c.pending)
      BY <2>2, <1>2 DEF ToCreate
    <2>4. QED
      BY <2>3 DEF Sooner, d
  <1>7. CASE Ready(ix, c, i) /\ i \notin ToSet(c.created)
    <2>1. d.created = Append(c.created, i)
      BY <1>1, <1>7 DEF CreateOn, CreateNext, Ready
    <2> HIDE DEF d, i
    <2>2. ToSet(d.created) = ToSet(c.created) \cup {i}
      BY <2>1, <1>2, ElementsOfSeqs
    <2> DEFINE S == StageNames \ ToSet(c.created)
    <2>3. IsFiniteSet(S) /\ i \in S /\ StageNames \ ToSet(d.created) = S \ {i}
      BY <2>2, <1>2, <1>7, IndexesConstants, FS_Subset
    <2>4. Cardinality(S \ {i}) = Cardinality(S) - 1 /\ Cardinality(S) \in Nat
      BY <2>3, FS_RemoveElement, FS_CardinalityType
    <2>5. ToCreate(c) = Cardinality(S) /\ ToCreate(d) = Cardinality(S \ {i})
      BY <2>3 DEF ToCreate
    <2> HIDE DEF S
    <2>6. ToCreate(d) < ToCreate(c)
      BY <2>4, <2>5
    <2>7. QED
      BY <2>6 DEF Sooner, d
  <1>8. QED
    BY <1>5, <1>6, <1>7

\* The loop of an import settles, whatever the bases are.
LEMMA CreationSettles ==
  ASSUME NEW ix \in Configs
  PROVE  \E n \in Nat : Settled(Creation(ix)[n])
  <1> DEFINE C(n) == Creation(ix)[n]
             a == [n \in Nat |-> ToCreate(C(n))]
             b == [n \in Nat |-> Len(C(n).pending)]
             c == [n \in Nat |-> Waiting(C(n))]
             E == {n \in Nat : Settled(C(n))}
  <1>1. \A n \in Nat : Creating(ix, C(n))
    BY CreatingTurns
  <1>2. \A n \in Nat : C(n + 1) = CreateOn(ix, C(n))
    BY CreationTurns
  <1> HIDE DEF C
  <1>3. a \in [Nat -> Nat] /\ b \in [Nat -> Nat] /\ c \in [Nat -> Nat]
    BY <1>1, ToCreateType
  <1>4. \A n \in Nat : n \notin E => Sooner(C(n), C(n + 1))
    BY <1>1, <1>2, CreationSooner
  <1>5. \A n \in Nat : n \notin E =>
            \/ a[n + 1] < a[n]
            \/ a[n + 1] = a[n] /\ b[n + 1] < b[n]
            \/ a[n + 1] = a[n] /\ b[n + 1] <= b[n] /\ c[n + 1] < c[n]
    BY <1>4 DEF Sooner
  <1> HIDE DEF a, b, c, E
  <1>6. \E n \in Nat : n \in E
    BY <1>3, <1>5, Descent
  <1>7. QED
    BY <1>6 DEF E, C

\* From then on it only puts back, or has ended.
LEMMA SettledOn ==
  ASSUME NEW ix \in Configs, NEW c, Creating(ix, c), Settled(c)
  PROVE  Settled(CreateOn(ix, c))
  <1>1. CASE c.pending = <<>>
    BY <1>1 DEF CreateOn
  <1>2. CASE c.pending # <<>>
    <2> DEFINE i == Head(c.pending)
               tail == Tail(c.pending)
               n == Len(c.pending)
               d == [c EXCEPT !.pending = Append(tail, i), !.putback = c.putback + 1]
    <2>1. /\ c.putback \in Nat /\ n \in Nat \ {0} /\ DOMAIN c.pending = 1 .. n
          /\ i = c.pending[1] /\ i \in StageNames
          /\ tail \in Seq(StageNames) /\ Len(tail) = n - 1
      BY <1>2, CreatingParts
    <2>2. c \in CreationState /\ c.putback >= n
      BY DEF Creating, Settled
    <2>3. ~Ready(ix, c, i)
      <3>1. 1 \in DOMAIN c.pending /\ 1 > n - c.putback
        BY <2>1, <2>2
      <3>2. ~Ready(ix, c, c.pending[1])
        BY <3>1 DEF Creating
      <3>3. QED
        BY <3>2, <2>1
    <2>4. CreateOn(ix, c) = d
      BY <1>2, <2>2, <2>3 DEF CreateOn, CreateNext, Ready, CreationState
    <2>5. d.pending = Append(tail, i) /\ d.putback = c.putback + 1
      BY <2>2 DEF CreationState
    <2> HIDE DEF d, i, tail, n
    <2>6. Len(Append(tail, i)) = n
      BY <2>1, AppendProperties
    <2>7. d.putback >= Len(d.pending)
      BY <2>1, <2>2, <2>5, <2>6
    <2>8. QED
      BY <2>4, <2>7 DEF Settled
  <1>3. QED
    BY <1>1, <1>2

LEMMA SettledForEver ==
  ASSUME NEW ix \in Configs, NEW n \in Nat, Settled(Creation(ix)[n]), NEW m \in Nat, m >= n
  PROVE  Settled(Creation(ix)[m])
  <1> DEFINE S == {k \in Nat : Settled(Creation(ix)[n + k])}
  <1>1. 0 \in S
    <2>1. n + 0 = n
      OBVIOUS
    <2>2. QED
      BY <2>1
  <1>2. ASSUME NEW k \in S
        PROVE  k + 1 \in S
    <2>1. n + k \in Nat /\ (n + k) + 1 = n + (k + 1) /\ k + 1 \in Nat
      OBVIOUS
    <2>2. Creation(ix)[(n + k) + 1] = CreateOn(ix, Creation(ix)[n + k])
      BY <2>1, CreationTurns
    <2>3. Settled(CreateOn(ix, Creation(ix)[n + k]))
      BY <2>1, CreatingTurns, SettledOn
    <2>4. QED
      BY <2>1, <2>2, <2>3
  <1>3. S \in SUBSET Nat
    OBVIOUS
  <1>4. m - n \in Nat /\ n + (m - n) = m
    OBVIOUS
  <1>5. m - n \in S
    <2> HIDE DEF S
    <2>1. S = Nat
      BY <1>1, <1>2, <1>3, Induction
    <2>2. QED
      BY <1>4, <2>1
  <1>6. QED
    BY <1>4, <1>5

\* The walk of each index ends after some number of turns with its resolution order.
ResolvedInTheEnd ==
  \A i \in Existing(index) : \E n \in Nat :
    LET w == Walk(index, i)[n]
    IN Ended(w) /\ Resolves(index, i, w.stages \o w.mirrors)

\* After some number of turns an import has created all the indexes which inherit from no
\* circle.  From then on its loop has ended if no other index has one of these as its base,
\* and never ends if there is one.
CreatedInTheEnd ==
  \E n \in Nat : \A m \in Nat : m >= n =>
    LET c == Creation(index)[m]
    IN /\ ToSet(c.created) = Importable(index)
       /\ c.pending = <<>> <=> KeptWaiting(index) = {}

\* The loop of sro terminates on every configuration of the indexes which can come up, with
\* cycles of bases and bases which have been deleted; the loop of an import terminates on
\* those in which no index is kept waiting by a circle, and on no other.  No bound on turns
\* is assumed.
THEOREM LoopsInTheEnd == IXSpec => [](ResolvedInTheEnd /\ CreatedInTheEnd)
  <1>1. ASSUME IXTypeOK
        PROVE  ResolvedInTheEnd
    <2>1. index \in Configs
      BY <1>1, IXTypeIndex
    <2>2. ASSUME NEW i \in Existing(index)
          PROVE  \E n \in Nat : LET w == Walk(index, i)[n]
                                IN Ended(w) /\ Resolves(index, i, w.stages \o w.mirrors)
      <3>1. PICK n \in Nat : Ended(Walk(index, i)[n])
        BY <2>1, WalkEnds
      <3> DEFINE w == Walk(index, i)[n]
      <3>2. Walked(index, i, w) /\ Ended(w)
        BY <2>1, <3>1, WalkedTurns
      <3> HIDE DEF w
      <3>3. Resolves(index, i, w.stages \o w.mirrors)
        BY <2>1, <3>2, WalkResolves
      <3>4. QED
        BY <3>2, <3>3 DEF w
    <2>3. QED
      BY <2>2 DEF ResolvedInTheEnd
  <1>2. ASSUME IXTypeOK
        PROVE  CreatedInTheEnd
    <2>1. index \in Configs
      BY <1>2, IXTypeIndex
    <2>2. PICK n \in Nat : Settled(Creation(index)[n])
      BY <2>1, CreationSettles
    <2>3. ASSUME NEW m \in Nat, m >= n
          PROVE  LET c == Creation(index)[m]
                 IN /\ ToSet(c.created) = Importable(index)
                    /\ c.pending = <<>> <=> KeptWaiting(index) = {}
      <3>1. Creating(index, Creation(index)[m])
        BY <2>1, CreatingTurns
      <3>2. Settled(Creation(index)[m])
        BY <2>1, <2>2, <2>3, SettledForEver
      <3>3. QED
        BY <2>1, <3>1, <3>2, CreationSettled
    <2>4. QED
      BY <2>3 DEF CreatedInTheEnd
  <1>3. QED
    BY <1>1, <1>2, IXTypeInvariance, PTL

-----------------------------------------------------------------------------
(* The mirror whitelist.                                                   *)

\* The whitelists that have been looked at.
LEMMA WhitelistsSeen ==
  ASSUME IXTypeOK, NEW i \in StageNames, NEW order \in Seq(StageNames), NEW k \in 1 .. Len(order)
  PROVE  /\ \A j \in PrivateUpTo(order, k) : index[order[j]].mirror_whitelist \in Whitelists
         /\ \A j \in PrivateUpTo(order, k) :
                /\ j \in 1 .. Len(order) /\ order[j] \in ToSet(order) \cap Privates(index)
                /\ index[order[j]].mirror_whitelist_inheritance \in {"intersection", "union"}
         /\ \A names \in Whitelists : names # {} => names \cap {"*", "project"} # {}
  <1>1. Len(order) \in Nat /\ DOMAIN order = 1 .. Len(order)
    BY LenProperties
  <1>2. ASSUME NEW j \in PrivateUpTo(order, k)
        PROVE  /\ index[order[j]].mirror_whitelist \in Whitelists
               /\ j \in 1 .. Len(order) /\ order[j] \in ToSet(order) \cap Privates(index)
               /\ index[order[j]].mirror_whitelist_inheritance \in {"intersection", "union"}
    <2>1. j \in 1 .. Len(order) /\ order[j] \in ToSet(order) \cap Privates(index)
      BY <1>1 DEF PrivateUpTo, ToSet
    <2>2. order[j] \in StageNames /\ index[order[j]].type = "stage"
      BY <2>1 DEF Privates
    <2>3. index[order[j]] \in StageConfig
      <3>1. index[order[j]] \in {NoConfig} \cup StageConfig \cup MirrorConfig
        BY <2>2 DEF IXTypeOK
      <3>2. \A conf \in {NoConfig} \cup MirrorConfig : conf.type # "stage"
        BY DEF NoConfig, MirrorConfig
      <3>3. QED
        BY <2>2, <3>1, <3>2
    <2>4. QED
      BY <2>1, <2>3 DEF StageConfig
  <1>3. \A names \in Whitelists : names # {} => names \cap {"*", "project"} # {}
    BY DEF Whitelists
  <1>4. QED
    BY <1>2, <1>3

\* The walk over the whitelists decides what Allowed says of all of them.
LEMMA WhitelistedAllowed ==
  ASSUME IXTypeOK, NEW i \in Existing(index), NEW order \in Seq(StageNames),
         Resolves(index, i, order)
  PROVE  Whitelisted(i, order) <=> Allowed(i, Reachable(index, i))
  <1> DEFINE n == Len(order)
             up(k) == PrivateUpTo(order, k)
             list(j) == index[order[j]].mirror_whitelist
             reachable == Reachable(index, i)
  <1>1. i \in StageNames /\ index \in Configs /\ n \in Nat /\ DOMAIN order = 1 .. n
    BY IXTypeIndex, LenProperties DEF Existing
  <1>2. ToSet(order) = reachable /\ order[1] = i
    BY DEF Resolves
  <1>3. n >= 1
    <2>1. i \in ToSet(order)
      BY <1>1, <1>2, ReachableClosed
    <2>2. QED
      BY <1>1, <2>1 DEF ToSet
  <1>4. \A k : up(k) = {j \in 1 .. k : order[j] \in Privates(index)}
    BY DEF PrivateUpTo
  <1>5. /\ \A k \in 1 .. n : \A j \in up(k) : list(j) \in Whitelists /\ j \in 1 .. n
        /\ \A k \in 1 .. n : \A j \in up(k) : order[j] \in reachable \cap Privates(index)
        /\ \A names \in Whitelists : names # {} => names \cap {"*", "project"} # {}
    BY <1>1, <1>2, <1>3, WhitelistsSeen
  <1>6. Whitelisted(i, order) <=> \E k \in up(n) : Matches(i, order, k)
    BY DEF Whitelisted
  <1>7. Allowed(i, reachable) <=>
            \E j \in reachable \cap Privates(index) :
                /\ index[j].mirror_whitelist # {}
                /\ index[i].mirror_whitelist_inheritance = "intersection" => j = i
    BY DEF Allowed
  <1>8. \A k : Whitelist(i, order, k) =
            IF index[i].mirror_whitelist_inheritance = "union" THEN UNION {list(j) : j \in up(k)}
            ELSE {name \in UNION {list(j) : j \in up(k)} :
                    \A names \in {list(j) : j \in up(k)} : name \in names}
    BY DEF Whitelist
  <1>9. CASE i \notin Privates(index)
    <2>1. Bases(index, i) = <<>>
      BY <1>1, <1>9, Kinds
    <2>2. Closed(index, {i})
      BY <2>1 DEF Closed, ToSet
    <2>3. reachable \subseteq {i}
      BY <1>1, <2>2, ReachableClosed
    <2>4. reachable \cap Privates(index) = {}
      BY <1>9, <2>3
    <2>5. up(n) = {}
      BY <1>1, <1>3, <1>5, <2>4
    <2>6. QED
      BY <2>4, <2>5, <1>6, <1>7
  <1>10. CASE i \in Privates(index)
    <2> HIDE DEF up, list, reachable, n
    <2>1. index[i].mirror_whitelist_inheritance \in {"intersection", "union"}
      <3>1. 1 \in up(1) /\ 1 \in 1 .. n
        BY <1>1, <1>2, <1>3, <1>4, <1>10
      <3>2. QED
        BY <3>1, <1>1, <1>2, WhitelistsSeen DEF up, n
    <2>2. \A j \in reachable \cap Privates(index) :
            \E k \in up(n) : order[k] = j /\ list(k) = index[j].mirror_whitelist
      <3>1. ASSUME NEW j \in reachable \cap Privates(index)
            PROVE  \E k \in up(n) : order[k] = j
        BY <1>1, <1>2, <1>4 DEF ToSet
      <3>2. QED
        BY <3>1 DEF list
    <2>3. \A k \in up(n) : k \in up(k) /\ k \in 1 .. n /\ 1 \in up(k)
      BY <1>1, <1>2, <1>4, <1>10
    <2>4. list(1) = index[i].mirror_whitelist
      BY <1>2 DEF list
    <2>5. CASE index[i].mirror_whitelist_inheritance = "union"
      <3>1. \A k : Whitelist(i, order, k) = UNION {list(j) : j \in up(k)}
        BY <1>8, <2>5
      <3>2. ASSUME NEW k \in up(n), Matches(i, order, k)
            PROVE  Allowed(i, reachable)
        <4>1. PICK j \in up(k) : list(j) # {}
          BY <3>1, <3>2 DEF Matches
        <4>2. order[j] \in reachable \cap Privates(index) /\ list(j) = index[order[j]].mirror_whitelist
          BY <4>1, <1>5, <2>3 DEF list
        <4>3. QED
          BY <4>1, <4>2, <1>7, <2>5
      <3>3. ASSUME Allowed(i, reachable)
            PROVE  \E k \in up(n) : Matches(i, order, k)
        <4>1. PICK j \in reachable \cap Privates(index) : index[j].mirror_whitelist # {}
          BY <3>3, <1>7
        <4>2. PICK k \in up(n) : list(k) # {}
          BY <4>1, <2>2
        <4>3. list(k) \cap {"*", "project"} # {}
          BY <4>2, <2>3, <1>5
        <4>4. QED
          BY <4>3, <3>1, <2>3 DEF Matches
      <3>4. QED
        BY <3>2, <3>3, <1>6 DEF reachable
    <2>6. CASE index[i].mirror_whitelist_inheritance = "intersection"
      <3>1. \A k : Whitelist(i, order, k) =
                {name \in UNION {list(j) : j \in up(k)} :
                    \A names \in {list(j) : j \in up(k)} : name \in names}
        BY <1>8, <2>6
      <3>2. ASSUME NEW k \in up(n), Matches(i, order, k)
            PROVE  Allowed(i, reachable)
        <4>1. list(1) # {}
          BY <3>1, <3>2, <2>3 DEF Matches
        <4>2. i \in reachable
          BY <1>1, ReachableClosed DEF reachable
        <4>3. QED
          BY <4>1, <4>2, <2>4, <1>7, <1>10
      <3>3. ASSUME Allowed(i, reachable)
            PROVE  \E k \in up(n) : Matches(i, order, k)
        <4>1. index[i].mirror_whitelist # {}
          BY <3>3, <1>7, <2>6
        <4>2. up(1) = {1} /\ 1 \in up(n)
          BY <1>1, <1>2, <1>3, <1>4, <1>10
        <4>3. list(1) \cap {"*", "project"} # {}
          BY <4>1, <4>2, <2>3, <2>4, <1>5
        <4>4. Whitelist(i, order, 1) = list(1)
          <5>1. {list(j) : j \in up(1)} = {list(1)}
            BY <4>2
          <5>2. Whitelist(i, order, 1) = {name \in UNION {list(1)} :
                                            \A names \in {list(1)} : name \in names}
            <6>1. Whitelist(i, order, 1) =
                    {name \in UNION {list(j) : j \in up(1)} :
                        \A names \in {list(j) : j \in up(1)} : name \in names}
              BY <3>1
            <6>2. QED
              BY <5>1, <6>1, Zenon
          <5>3. ASSUME NEW X
                PROVE  {name \in UNION {X} : \A names \in {X} : name \in names} = X
            OBVIOUS
          <5>4. QED
            BY <5>2, <5>3
        <4>5. QED
          BY <4>2, <4>3, <4>4 DEF Matches
      <3>4. QED
        BY <3>2, <3>3, <1>6 DEF reachable
    <2>7. QED
      BY <2>1, <2>5, <2>6 DEF reachable
  <1>11. QED
    BY <1>9, <1>10

\* A mirror which is among the sources, and the first mirror that is asked.
LEMMA FirstMirrorExists ==
  ASSUME NEW order \in Seq(StageNames)
  PROVE  /\ FirstMirror(order) \subseteq ToSet(order) \cap Mirrors(index)
         /\ ToSet(order) \cap Mirrors(index) # {} => FirstMirror(order) # {}
  <1>1. Len(order) \in Nat /\ DOMAIN order = 1 .. Len(order)
    BY LenProperties
  <1>2. FirstMirror(order) \subseteq ToSet(order) \cap Mirrors(index)
    BY DEF FirstMirror, ToSet
  <1>3. ASSUME ToSet(order) \cap Mirrors(index) # {}
        PROVE  FirstMirror(order) # {}
    <2> DEFINE T == {j \in DOMAIN order : order[j] \in Mirrors(index)}
    <2>1. T \subseteq Nat /\ T # {}
      BY <1>1, <1>3 DEF ToSet
    <2>2. PICK k \in T : \A j \in T : k <= j
      BY <2>1, Least
    <2>3. \A l \in 1 .. k - 1 : order[l] \notin Mirrors(index)
      BY <1>1, <2>2
    <2>4. order[k] \in FirstMirror(order)
      BY <2>3 DEF FirstMirror
    <2>5. QED
      BY <2>4
  <1>4. QED
    BY <1>2, <1>3

\* The whitelist of one index.
LEMMA MirrorsOfIndex ==
  ASSUME IXTypeOK, NEW i \in Existing(index), NEW order \in Seq(StageNames),
         Resolves(index, i, order)
  PROVE  LET reachable == Reachable(index, i)
             sources == Sources(i, order)
             info == MirrorInfo(i, order)
             hosting == {j \in reachable \cap Privates(index) : hosts[j] = "yes"}
             allowed == Allowed(i, reachable)
         IN /\ hosting \subseteq sources
            /\ \A m \in reachable \cap Mirrors(index) :
                 /\ m \in sources => hosting = {} \/ allowed
                 /\ hosts[m] = "yes" /\ (hosting = {} \/ allowed) => m \in sources
                 /\ hosts[m] = "unknown" /\ hosting = {} => m \in sources
                 /\ hosting # {} => (info.blocked = {} <=> allowed)
            /\ info.blocked # {} => hosting # {} /\ info.blocked \cap sources = {}
            /\ info.has = "yes" => \E m \in sources : m \in Mirrors(index)
  <1> DEFINE reachable == Reachable(index, i)
             sources == Sources(i, order)
             info == MirrorInfo(i, order)
             hosting == {j \in reachable \cap Privates(index) : hosts[j] = "yes"}
             allowed == Allowed(i, reachable)
             first == FirstMirror(order)
             hit == PrivateHit(i, order)
             blocked == hosting # {} /\ ~allowed
  <1>1. ToSet(order) = reachable
    BY DEF Resolves
  <1>2. Privates(index) \cap Mirrors(index) = {} /\ reachable \subseteq StageNames
    BY <1>1, IXTypeIndex, Kinds, ReachableClosed DEF Existing
  <1>3. Len(order) \in Nat /\ DOMAIN order = 1 .. Len(order)
    BY LenProperties
  <1>4. Whitelisted(i, order) <=> allowed
    BY WhitelistedAllowed
  <1>5. first \subseteq reachable \cap Mirrors(index)
        /\ (reachable \cap Mirrors(index) # {} => first # {})
    BY <1>1, FirstMirrorExists
  <1>6. hit => hosting # {}
    <2>1. ASSUME NEW k \in PrivateUpTo(order, Len(order)), hosts[order[k]] = "yes"
          PROVE  order[k] \in hosting
      BY <2>1, <1>1, <1>3 DEF PrivateUpTo, ToSet
    <2>2. QED
      BY <2>1 DEF PrivateHit
  <1>7. ASSUME hosting # {}, ~allowed
        PROVE  hit
    <2>1. PICK j : j \in hosting
      BY <1>7
    <2>2. PICK k \in 1 .. Len(order) : order[k] = j
      BY <2>1, <1>1, <1>3 DEF ToSet
    <2>3. k \in PrivateUpTo(order, Len(order)) /\ hosts[order[k]] = "yes"
      BY <2>1, <2>2 DEF PrivateUpTo
    <2>4. ~Matches(i, order, k)
      BY <2>3, <1>4, <1>7 DEF Whitelisted
    <2>5. QED
      BY <2>3, <2>4 DEF PrivateHit
  <1>8. sources = {j \in reachable :
            /\ j \in Mirrors(index) /\ hit => allowed
            /\ hosts[j] = "yes" \/ (hosts[j] = "unknown" /\ ~hit)}
    BY <1>1, <1>4, Zenon DEF Sources
  <1>9. /\ info.blocked = IF blocked THEN first ELSE {}
        /\ info.has = IF first = {} THEN "no" ELSE IF blocked THEN "unknown"
                      ELSE hosts[CHOOSE m \in first : TRUE]
    <2>1. blocked <=> /\ \E j \in ToSet(order) \cap Privates(index) : hosts[j] = "yes"
                      /\ ~Whitelisted(i, order)
      BY <1>1, <1>4
    <2>2. QED
      BY <2>1 DEF MirrorInfo
  <1> HIDE DEF reachable, sources, info, allowed, first, hit
  <1>10. hosting \subseteq sources
    BY <1>2, <1>8
  <1>11. ASSUME NEW m \in reachable \cap Mirrors(index)
         PROVE  /\ m \in sources => hosting = {} \/ allowed
                /\ hosts[m] = "yes" /\ (hosting = {} \/ allowed) => m \in sources
                /\ hosts[m] = "unknown" /\ hosting = {} => m \in sources
                /\ hosting # {} => (info.blocked = {} <=> allowed)
    <2> HIDE DEF hosting
    <2>1. m \in sources => hosting = {} \/ allowed
      BY <1>7, <1>8
    <2>2. hosts[m] = "yes" /\ (hosting = {} \/ allowed) => m \in sources
      BY <1>6, <1>8
    <2>3. hosts[m] = "unknown" /\ hosting = {} => m \in sources
      BY <1>6, <1>8
    <2>4. hosting # {} => (info.blocked = {} <=> allowed)
      BY <1>5, <1>9
    <2>5. QED
      BY <2>1, <2>2, <2>3, <2>4
  <1>12. info.blocked # {} => hosting # {} /\ info.blocked \cap sources = {}
    BY <1>5, <1>9, <1>11
  <1>13. ASSUME info.has = "yes"
         PROVE  \E m \in sources : m \in Mirrors(index)
    <2> DEFINE asked == CHOOSE m \in first : TRUE
    <2>1. first # {} /\ ~blocked /\ hosts[asked] = "yes"
      BY <1>9, <1>13
    <2>2. asked \in first
      BY <2>1
    <2> HIDE DEF asked
    <2>3. asked \in sources /\ asked \in Mirrors(index)
      BY <1>5, <1>11, <2>1, <2>2
    <2>4. QED
      BY <2>3
  <1>14. QED
    BY <1>10, <1>11, <1>12, <1>13 DEF reachable, sources, info, allowed

\* Which mirrors are asked for a project a private index hosts, for every index where the walk
\* of sro has come to its end.
THEOREM Whitelisting == IXSpec => [](LoopsEnd => MirrorsAsWhitelisted)
  <1>1. ASSUME IXTypeOK, LoopsEnd
        PROVE  MirrorsAsWhitelisted
    <2>1. ASSUME NEW i \in Existing(index)
          PROVE  Resolves(index, i, Sro(index, i)) /\ Sro(index, i) \in Seq(StageNames)
      BY <1>1, IXTypeIndex, SroResolves DEF LoopsEnd
    <2>2. QED
      BY <1>1, <2>1, MirrorsOfIndex DEF MirrorsAsWhitelisted
  <1>2. QED
    BY <1>1, IXTypeInvariance, PTL

-----------------------------------------------------------------------------
(* Export and import.  The loops of an import are folds over a set, which  *)
(* are recursive functions of its subsets.  There is one (FixedPoint):     *)
(* repeating the body of its definition gets no further when all sizes     *)
(* were repeated.  An invariant of the body holds of all its values by     *)
(* induction over finite sets (SetInduction).                              *)

\* What holds of {} and of each set if it holds of the set without one of its elements, holds
\* of all subsets of a finite set.
LEMMA SetInduction ==
  ASSUME NEW S, IsFiniteSet(S), NEW Q, {} \in Q,
         \A s \in SUBSET S : s # {} /\ (\A x \in s : s \ {x} \in Q) => s \in Q
  PROVE  SUBSET S \subseteq Q
  <1> DEFINE N == {n \in Nat : \A s \in SUBSET S : Cardinality(s) <= n => s \in Q}
  <1>1. \A s \in SUBSET S : IsFiniteSet(s) /\ Cardinality(s) \in Nat /\ Cardinality(s) <= Cardinality(S)
    BY FS_Subset, FS_CardinalityType
  <1>2. 0 \in N
    <2>1. ASSUME NEW s \in SUBSET S, Cardinality(s) <= 0
          PROVE  s = {}
      <3>1. Cardinality(s) = 0
        BY <1>1, <2>1
      <3>2. QED
        BY <1>1, <3>1, FS_EmptySet
    <2>2. QED
      BY <2>1
  <1>3. ASSUME NEW n \in N
        PROVE  n + 1 \in N
    <2>1. ASSUME NEW s \in SUBSET S, Cardinality(s) <= n + 1, s # {}
          PROVE  s \in Q
      <3>1. ASSUME NEW x \in s
            PROVE  s \ {x} \in Q
        <4>1. Cardinality(s \ {x}) = Cardinality(s) - 1
          BY <1>1, FS_RemoveElement
        <4>2. Cardinality(s \ {x}) <= n /\ s \ {x} \in SUBSET S
          BY <1>1, <2>1, <4>1
        <4>3. QED
          BY <4>2
      <3>2. QED
        BY <2>1, <3>1
    <2>2. n + 1 \in Nat
      OBVIOUS
    <2>3. QED
      BY <2>1, <2>2
  <1>4. N \in SUBSET Nat
    OBVIOUS
  <1> HIDE DEF N
  <1>5. N = Nat
    BY <1>2, <1>3, <1>4, Induction
  <1>6. Cardinality(S) \in N
    BY <1>1, <1>5
  <1>7. QED
    BY <1>1, <1>6 DEF N

\* The element a fold takes first.
Pick(s) == CHOOSE x \in s : TRUE

\* The metadata of an export, for some of its versions.
MetaOf(x, s) ==
  [known |-> s # {}, versions |-> s,
   verdata |-> [v \in Versions |->
                    [meta |-> IF v \in s THEN x.verdata[v].meta ELSE NoMeta, links |-> {}]],
   simple |-> NoSimple, entries |-> {}]

\* Projects with the same keys are the same.
LEMMA SameProject ==
  ASSUME NEW x \in Project, NEW y \in Project,
         x.known = y.known, x.versions = y.versions, x.simple = y.simple, x.entries = y.entries,
         \A v \in Versions : /\ x.verdata[v].meta = y.verdata[v].meta
                             /\ x.verdata[v].links = y.verdata[v].links
  PROVE  x = y
  <1>1. \A v \in Versions : x.verdata[v] \in Versiondata /\ y.verdata[v] \in Versiondata
    BY DEF Project
  <1>2. \A v \in Versions : x.verdata[v] = y.verdata[v]
    BY <1>1 DEF Versiondata
  <1>3. x.verdata = y.verdata
    BY <1>2 DEF Project
  <1>4. QED
    BY <1>3 DEF Project

LEMMA MetaOfFields ==
  ASSUME NEW x \in Project, NEW s \in SUBSET Versions, \A v \in s : x.verdata[v].meta \in Metas
  PROVE  LET y == MetaOf(x, s) IN
         /\ y \in Project
         /\ y.known = (s # {}) /\ y.versions = s /\ y.simple = NoSimple /\ y.entries = {}
         /\ \A v \in Versions : y.verdata[v].links = {}
         /\ \A v \in s : y.verdata[v].meta = x.verdata[v].meta
         /\ \A v \in Versions \ s : y.verdata[v].meta = NoMeta
  BY DEF MetaOf, Project, Versiondata, NoSimple, SimpleLinks, Entries

LEMMA MetaOfNext ==
  ASSUME NEW x \in Project, NEW s \in SUBSET Versions, NEW v \in s,
         \A w \in s : x.verdata[w].meta \in Metas
  PROVE  SetVersiondata(MetaOf(x, s \ {v}), v, x.verdata[v].meta) = MetaOf(x, s)
  <1> DEFINE m == MetaOf(x, s \ {v})
             y == SetVersiondata(m, v, x.verdata[v].meta)
             z == MetaOf(x, s)
  <1>1. v \in Versions /\ x.verdata[v].meta \in Metas /\ s \ {v} \in SUBSET Versions
    OBVIOUS
  <1>2. /\ m \in Project
        /\ m.versions = s \ {v} /\ m.simple = NoSimple /\ m.entries = {}
        /\ \A w \in Versions : m.verdata[w].links = {}
        /\ \A w \in s \ {v} : m.verdata[w].meta = x.verdata[w].meta
        /\ \A w \in Versions \ s : m.verdata[w].meta = NoMeta
    BY <1>1, MetaOfFields
  <1>3. /\ z \in Project
        /\ z.known = TRUE /\ z.versions = s /\ z.simple = NoSimple /\ z.entries = {}
        /\ \A w \in Versions : z.verdata[w].links = {}
        /\ \A w \in s : z.verdata[w].meta = x.verdata[w].meta
        /\ \A w \in Versions \ s : z.verdata[w].meta = NoMeta
    BY MetaOfFields
  <1> HIDE DEF m, z
  <1>4. /\ y \in Project
        /\ y.known = TRUE /\ y.versions = m.versions \cup {v}
        /\ y.simple = m.simple /\ y.entries = m.entries
        /\ y.verdata[v].meta = x.verdata[v].meta
        /\ \A w \in Versions \ {v} : y.verdata[w].meta = m.verdata[w].meta
        /\ \A w \in Versions : y.verdata[w].links = m.verdata[w].links
    BY <1>1, <1>2, SetVersiondataFields DEF SameLinks, Project
  <1> HIDE DEF y
  <1>5. y = z
    <2>1. y.versions = z.versions /\ y.simple = z.simple /\ y.entries = z.entries
      BY <1>2, <1>3, <1>4
    <2>2. ASSUME NEW w \in Versions
          PROVE  y.verdata[w].meta = z.verdata[w].meta /\ y.verdata[w].links = z.verdata[w].links
      <3>1. y.verdata[w].links = {} /\ z.verdata[w].links = {}
        BY <1>2, <1>3, <1>4
      <3>2. CASE w = v
        BY <3>1, <3>2, <1>3, <1>4
      <3>3. CASE w \in s \ {v}
        <4>1. y.verdata[w].meta = m.verdata[w].meta /\ m.verdata[w].meta = x.verdata[w].meta
          BY <3>3, <1>2, <1>4
        <4>2. z.verdata[w].meta = x.verdata[w].meta
          BY <3>3, <1>3
        <4>3. QED
          BY <3>1, <4>1, <4>2
      <3>4. CASE w \notin s
        <4>1. y.verdata[w].meta = m.verdata[w].meta /\ m.verdata[w].meta = NoMeta
          BY <3>4, <1>1, <1>2, <1>4
        <4>2. z.verdata[w].meta = NoMeta
          BY <3>4, <1>3
        <4>3. QED
          BY <3>1, <4>1, <4>2
      <3>5. QED
        BY <3>2, <3>3, <3>4
    <2>3. y.known = z.known /\ y \in Project /\ z \in Project
      BY <1>3, <1>4
    <2>4. QED
      BY <2>1, <2>2, <2>3, SameProject
  <1>6. QED
    BY <1>5 DEF y, z, m

\* The two loops of an import.
RegisterAll(dump, vs) ==
  FoldSet(LAMBDA v, x : SetVersiondata(x, v, dump[v].meta), Empty, vs)
StoreAll(dump, first, vs) ==
  FoldSet(LAMBDA v, x : ImportFiles(x, v, dump[v].links), first, vs)

\* The first loop of an import: the metadata of all versions.
LEMMA MetaImported ==
  ASSUME NEW x \in Project, NEW S \in SUBSET Versions, IsFiniteSet(S), NEW dump,
         \A v \in S : dump[v].meta = x.verdata[v].meta /\ x.verdata[v].meta \in Metas
  PROVE  RegisterAll(dump, S) = MetaOf(x, S)
  <1> DEFINE body(f) == [s \in SUBSET S |-> IF s = {} THEN Empty
                ELSE SetVersiondata(f[s \ {Pick(s)}], Pick(s), dump[Pick(s)].meta)]
             it == CHOOSE f : f = body(f)
             g == [s \in SUBSET S |-> MetaOf(x, s)]
  <1>1. RegisterAll(dump, S) = it[S]
    BY DEF RegisterAll, FoldSet, MapThenFoldSet, Pick
  <1>2. MetaOf(x, {}) = Empty
    BY DEF MetaOf, Empty, NoVersiondata
  <1>3. ASSUME NEW s \in SUBSET S, s # {}
        PROVE  /\ Pick(s) \in s /\ s \ {Pick(s)} \in SUBSET S
               /\ MetaOf(x, s) =
                    SetVersiondata(MetaOf(x, s \ {Pick(s)}), Pick(s), dump[Pick(s)].meta)
    <2>1. Pick(s) \in s
      BY <1>3 DEF Pick
    <2>2. /\ dump[Pick(s)].meta = x.verdata[Pick(s)].meta
          /\ s \in SUBSET Versions /\ \A w \in s : x.verdata[w].meta \in Metas
      BY <2>1
    <2>3. QED
      BY <2>1, <2>2, MetaOfNext
  <1>4. g = body(g)
    BY <1>2, <1>3
  <1> HIDE DEF body
  <1>5. it = body(it)
    BY <1>4
  <1> DEFINE Q == {s \in SUBSET S : it[s] = MetaOf(x, s)}
  <1> USE DEF body
  <1> HIDE DEF it
  <1>6. {} \in Q
    BY <1>2, <1>5
  <1>7. ASSUME NEW s \in SUBSET S, s # {}, \A v \in s : s \ {v} \in Q
        PROVE  s \in Q
    <2>1. it[s] = SetVersiondata(it[s \ {Pick(s)}], Pick(s), dump[Pick(s)].meta)
      BY <1>5, <1>7
    <2>2. QED
      BY <2>1, <1>3, <1>7
  <1> HIDE DEF Q
  <1>8. S \in Q
    BY <1>6, <1>7, SetInduction
  <1>9. QED
    BY <1>1, <1>8 DEF Q

\* The simple links of some versions.
PagesOf(x, s) ==
  UNION {{[path |-> p, meta |-> x.verdata[v].meta] : p \in Releases(x.verdata[v].links)} : v \in s}

SimpleOf(x, s) ==
  IF PagesOf(x, s) = {} THEN NoSimple ELSE [key |-> TRUE, links |-> PagesOf(x, s)]

\* Every link has a file.
HasFiles(y) == \A v \in Versions : y.verdata[v].links \subseteq Files(y)

\* What has been made of an export when the files of some versions are imported.
Restored(y, x, s) ==
  /\ Tidy(y) /\ HasFiles(y)
  /\ y.known = (x.versions # {}) /\ y.versions = x.versions
  /\ y.simple = SimpleOf(x, s)
  /\ \A v \in Versions : y.verdata[v].meta = x.verdata[v].meta
  /\ \A v \in s : y.verdata[v].links = x.verdata[v].links
  /\ \A v \in Versions \ s : y.verdata[v].links = {}

\* Such a project, where a file has an entry of each version which links it.
FilesOf(x, s) ==
  [known |-> x.versions # {}, versions |-> x.versions,
   verdata |-> [v \in Versions |->
        [meta |-> x.verdata[v].meta, links |-> IF v \in s THEN x.verdata[v].links ELSE {}]],
   simple |-> SimpleOf(x, s),
   entries |-> {e \in [path : Paths, version : Versions] :
                    e.version \in s /\ e.path \in x.verdata[e.version].links}]

LEMMA InPages ==
  ASSUME NEW x, NEW s, NEW v \in s, NEW p \in Releases(x.verdata[v].links)
  PROVE  [path |-> p, meta |-> x.verdata[v].meta] \in PagesOf(x, s)
  <1>1. \A l : l \in PagesOf(x, s) <=> \E w \in s : \E q \in Releases(x.verdata[w].links) :
                    l = [path |-> q, meta |-> x.verdata[w].meta]
    BY DEF PagesOf
  <1>2. QED
    BY <1>1

LEMMA SamePages ==
  ASSUME NEW x, NEW z, NEW t, NEW s \in SUBSET t,
         \A v \in s : /\ z.verdata[v].meta = x.verdata[v].meta
                      /\ Releases(z.verdata[v].links) = Releases(x.verdata[v].links),
         \A v \in t \ s : Releases(z.verdata[v].links) = {}
  PROVE  PagesOf(z, t) = PagesOf(x, s)
  <1>1. \A l : l \in PagesOf(z, t) <=> \E v \in t : \E p \in Releases(z.verdata[v].links) :
                    l = [path |-> p, meta |-> z.verdata[v].meta]
    BY DEF PagesOf
  <1>2. \A l : l \in PagesOf(x, s) <=> \E v \in s : \E p \in Releases(x.verdata[v].links) :
                    l = [path |-> p, meta |-> x.verdata[v].meta]
    BY DEF PagesOf
  <1>3. QED
    BY <1>1, <1>2

\* A new name takes no other away.
LEMMA CreateNew ==
  ASSUME NEW x, Sound(x), NEW v \in Versions, NEW new, Named(x.verdata[v].links, new) = {}
  PROVE  CreateLinkedEntries(x, v, new) = AddLinks(x, v, new)
  <1> DEFINE y == RemoveLinks(x, v, {})
             all == {} \cup Results(x.verdata[v].links, {})
  <1>1. x \in Project /\ all = {}
    BY DEF Results, Sound
  <1>2. /\ y \in Project
        /\ y.known = x.known /\ y.versions = x.versions /\ y.simple = x.simple
        /\ y.entries = {e \in x.entries : e.path \notin all}
        /\ y.verdata[v].links = x.verdata[v].links \ all
        /\ \A w \in Versions \ {v} : y.verdata[w] = x.verdata[w]
        /\ \A w \in Versions : y.verdata[w].meta = x.verdata[w].meta
    BY <1>1, RemoveLinksFields
  <1> HIDE DEF y, all
  <1>3. y.entries = x.entries /\ \A w \in Versions : y.verdata[w].links = x.verdata[w].links
    BY <1>1, <1>2
  <1>4. y = x
    BY <1>1, <1>2, <1>3, SameProject
  <1>5. QED
    BY <1>4 DEF y, CreateLinkedEntries

LEMMA FilesOfRestored ==
  ASSUME NEW x, Sound(x), NEW s \in SUBSET x.versions
  PROVE  FilesOf(x, s) \in Project /\ Restored(FilesOf(x, s), x, s)
  <1> DEFINE y == FilesOf(x, s)
             d(v) == [meta |-> x.verdata[v].meta,
                      links |-> IF v \in s THEN x.verdata[v].links ELSE {}]
             en == {e \in [path : Paths, version : Versions] :
                        e.version \in s /\ e.path \in x.verdata[e.version].links}
  <1>1. x \in Project /\ s \in SUBSET Versions /\ x.versions \in SUBSET Versions
    BY DEF Sound, Project
  <1>2. \A v \in s : x.verdata[v].meta \in Metas /\ Releases(x.verdata[v].links) \subseteq Paths
    BY <1>1 DEF Sound, Project, Versiondata, Releases
  <1>3. PagesOf(x, s) \in SUBSET [path : Paths, meta : Metas]
    BY <1>2 DEF PagesOf
  <1>4. SimpleOf(x, s) \in SimpleLinks
    BY <1>3 DEF SimpleLinks, NoSimple, SimpleOf
  <1>5. \A v \in Versions : d(v) \in Versiondata
    BY <1>1 DEF Project, Versiondata
  <1>6. en \in Entries
    BY DEF Entries
  <1>7. y = [known |-> x.versions # {}, versions |-> x.versions,
             verdata |-> [v \in Versions |-> d(v)], simple |-> SimpleOf(x, s), entries |-> en]
    BY DEF FilesOf
  <1>a. \A v \in s : \A p \in x.verdata[v].links : [path |-> p, version |-> v] \in en
    BY <1>1, LinksFit
  <1>b. \A e \in en : e.version \in s /\ e.path \in x.verdata[e.version].links
    OBVIOUS
  <1> HIDE DEF y, en
  <1>8. y \in Project
    BY <1>1, <1>4, <1>5, <1>6, <1>7 DEF Project
  <1>9. /\ y.known = (x.versions # {}) /\ y.versions = x.versions /\ y.entries = en
        /\ y.simple = SimpleOf(x, s) /\ y.verdata = [v \in Versions |-> d(v)]
    BY <1>7
  <1>10. /\ \A v \in Versions : y.verdata[v].meta = x.verdata[v].meta
         /\ \A v \in s : y.verdata[v].links = x.verdata[v].links
         /\ \A v \in Versions \ s : y.verdata[v].links = {}
    BY <1>1, <1>9
  <1>11. Sound(y)
    BY <1>1, <1>8, <1>9, <1>10 DEF Sound, LinksInOrder
  <1>12. \A v \in Versions : \A p \in y.verdata[v].links : [path |-> p, version |-> v] \in y.entries
    BY <1>9, <1>10, <1>a
  <1>13. \A e \in y.entries : e.path \in y.verdata[e.version].links
    BY <1>9, <1>10, <1>b
  <1>14. HasFiles(y)
    <2>1. ASSUME NEW v \in Versions, NEW p \in y.verdata[v].links
          PROVE  p \in Files(y)
      <3>1. [path |-> p, version |-> v] \in y.entries
        BY <1>12
      <3>2. [path |-> p, version |-> v].path = p
        OBVIOUS
      <3>3. QED
        BY <3>1, <3>2 DEF Files
    <2>2. QED
      BY <2>1 DEF HasFiles
  <1>15. QED
    BY <1>8, <1>9, <1>10, <1>11, <1>12, <1>13, <1>14 DEF Restored, Tidy, Linked, y

\* New links come with their files.
LEMMA AddHasFiles ==
  ASSUME NEW x \in Project, HasFiles(x), NEW v \in Versions, NEW new \in SUBSET Paths
  PROVE  HasFiles(AddLinks(x, v, new))
  <1> DEFINE y == AddLinks(x, v, new)
  <1>1. /\ y.entries = {e \in x.entries : e.path \notin new}
                        \cup {[path |-> p, version |-> v] : p \in new}
        /\ y.verdata[v].links = x.verdata[v].links \cup new
        /\ \A w \in Versions \ {v} : y.verdata[w] = x.verdata[w]
    BY AddLinksFields
  <1> HIDE DEF y
  <1>2. ASSUME NEW w \in Versions, NEW p \in y.verdata[w].links
        PROVE  \E e \in y.entries : e.path = p
    <2>1. CASE p \in new
      <3>1. [path |-> p, version |-> v] \in y.entries
        BY <1>1, <2>1
      <3>2. QED
        BY <3>1
    <2>2. CASE p \notin new
      <3>1. p \in x.verdata[w].links
        BY <1>1, <2>2
      <3>2. PICK e \in x.entries : e.path = p
        BY <3>1 DEF HasFiles, Files
      <3>3. QED
        BY <1>1, <2>2, <3>2
    <2>3. QED
      BY <2>1, <2>2
  <1>3. QED
    BY <1>2 DEF HasFiles, Files, y

\* Of a project with nothing new.
LEMMA AddNew ==
  ASSUME NEW x, Tidy(x), HasFiles(x), NEW v \in Versions, NEW new \in SUBSET Paths,
         v \in x.versions, \A p \in new : Fit(p, v),
         \A p \in new : p.rel = "toxresult" => For(p) \in x.verdata[v].links \cup new
  PROVE  LET y == AddLinks(x, v, new) IN
         /\ Tidy(y) /\ HasFiles(y) /\ y \in Project
         /\ y.known = x.known /\ y.versions = x.versions /\ y.simple = x.simple
         /\ y.verdata[v].links = x.verdata[v].links \cup new
         /\ \A w \in Versions \ {v} : y.verdata[w].links = x.verdata[w].links
         /\ \A w \in Versions : y.verdata[w].meta = x.verdata[w].meta
  <1>1. x \in Project
    BY DEF Tidy, Sound
  <1>2. Tidy(AddLinks(x, v, new)) /\ HasFiles(AddLinks(x, v, new))
    BY <1>1, AddLinksLinked, AddHasFiles
  <1>3. QED
    BY <1>1, <1>2, AddLinksFields

LEMMA RegenPages ==
  ASSUME NEW x, Tidy(x)
  PROVE  LET y == Regen(x) IN
         /\ Tidy(y) /\ y \in Project
         /\ y.known = x.known /\ y.versions = x.versions /\ y.verdata = x.verdata
         /\ y.entries = x.entries
         /\ y.simple = [key |-> TRUE, links |-> PagesOf(x, x.versions)]
  <1>1. Sound(x) /\ x \in Project
    BY DEF Tidy, Sound
  <1>2. Regen(x) = [x EXCEPT !.simple = [key |-> TRUE, links |-> PagesOf(x, x.versions)]]
    BY DEF Regen, PagesOf
  <1>3. Regen(x).simple = [key |-> TRUE, links |-> PagesOf(x, x.versions)]
    BY <1>1, <1>2 DEF Project
  <1>4. QED
    BY <1>1, <1>3, RegenFields, RegenLinked

\* The release files of a version of an import.
WithReleases(y, m, x, s, v) ==
  /\ Tidy(y) /\ HasFiles(y) /\ y \in Project
  /\ y.known = (x.versions # {}) /\ y.versions = x.versions
  /\ y.simple = SimpleOf(x, s)
  /\ y.verdata[v].links = Releases(x.verdata[v].links)
  /\ \A w \in Versions \ {v} : y.verdata[w].links = m.verdata[w].links
  /\ \A w \in Versions : y.verdata[w].meta = x.verdata[w].meta

LEMMA ReleasesImported ==
  ASSUME NEW x, Sound(x), NEW s \in SUBSET x.versions, NEW v \in s,
         NEW m, Restored(m, x, s \ {v})
  PROVE  WithReleases(StoreReleasefiles(m, v, Releases(x.verdata[v].links)), m, x, s, v)
  <1> DEFINE r == s \ {v}
             rel == Releases(x.verdata[v].links)
             y == StoreReleasefiles(m, v, rel)
  <1>0. r = s \ {v}
    OBVIOUS
  <1>1. /\ x \in Project /\ v \in Versions /\ v \in x.versions
        /\ r \in SUBSET x.versions /\ s \in SUBSET Versions /\ x.versions \in SUBSET Versions
    BY DEF Sound, Project
  <1> HIDE DEF r
  <1>2. /\ m.known = (x.versions # {}) /\ m.versions = x.versions
        /\ m.simple = SimpleOf(x, r)
        /\ \A w \in Versions : m.verdata[w].meta = x.verdata[w].meta
        /\ \A w \in r : m.verdata[w].links = x.verdata[w].links
        /\ \A w \in Versions \ r : m.verdata[w].links = {}
    BY <1>0 DEF Restored
  <1>3. Tidy(m) /\ HasFiles(m) /\ Sound(m) /\ m \in Project
    BY DEF Restored, Tidy, Sound
  <1>5. m.verdata[v].links = {}
    BY <1>0, <1>1, <1>2
  <1>6. /\ rel \in SUBSET Paths
        /\ \A p \in rel : p.rel = "releasefile" /\ Fit(p, v) /\ p \in x.verdata[v].links
    BY <1>1, LinksFit DEF Releases
  <1> HIDE DEF y, rel
  <1>7. CASE rel = {}
    <2>1. y = m
      BY <1>7 DEF y, StoreReleasefiles
    <2>2. PagesOf(x, s) = PagesOf(x, r)
      BY <1>7, <1>0, <1>1, SamePages DEF rel
    <2>3. QED
      BY <2>1, <2>2, <1>1, <1>2, <1>3, <1>5, <1>7 DEF y, rel, r, SimpleOf, WithReleases
  <1>8. CASE rel # {}
    <2> DEFINE z == AddLinks(m, v, rel)
    <2>1. Named(m.verdata[v].links, rel) = {}
      BY <1>5 DEF Named
    <2>2. y = Regen(z)
      BY <2>1, <1>1, <1>3, <1>8, CreateNew DEF y, StoreReleasefiles
    <2>3. /\ Tidy(z) /\ HasFiles(z) /\ z \in Project
          /\ z.known = m.known /\ z.versions = m.versions
          /\ z.verdata[v].links = rel
          /\ \A w \in Versions \ {v} : z.verdata[w].links = m.verdata[w].links
          /\ \A w \in Versions : z.verdata[w].meta = m.verdata[w].meta
      <3>1. v \in m.versions /\ \A p \in rel : Fit(p, v) /\ p.rel # "toxresult"
        BY <1>1, <1>2, <1>6
      <3>2. /\ Tidy(z) /\ HasFiles(z) /\ z \in Project
            /\ z.known = m.known /\ z.versions = m.versions
            /\ z.verdata[v].links = m.verdata[v].links \cup rel
            /\ \A w \in Versions \ {v} : z.verdata[w].links = m.verdata[w].links
            /\ \A w \in Versions : z.verdata[w].meta = m.verdata[w].meta
        BY <3>1, <1>1, <1>3, <1>6, AddNew
      <3> HIDE DEF z
      <3>3. QED
        BY <3>2, <1>5
    <2> HIDE DEF z
    <2>4. /\ Tidy(y) /\ HasFiles(y) /\ y \in Project
          /\ y.known = z.known /\ y.versions = z.versions /\ y.verdata = z.verdata
          /\ y.simple = [key |-> TRUE, links |-> PagesOf(z, z.versions)]
      BY <2>2, <2>3, RegenPages DEF HasFiles, Files
    <2>5. PagesOf(z, x.versions) = PagesOf(x, s)
      <3>1. ASSUME NEW w \in s
            PROVE  /\ z.verdata[w].meta = x.verdata[w].meta
                   /\ Releases(z.verdata[w].links) = Releases(x.verdata[w].links)
        <4>1. CASE w = v
          BY <4>1, <2>3, <1>1, <1>2 DEF rel, Releases
        <4>2. CASE w # v
          <5>1. w \in r /\ w \in Versions
            BY <4>2, <1>0, <1>1
          <5>2. z.verdata[w].links = x.verdata[w].links
            BY <5>1, <4>2, <2>3, <1>2
          <5>3. QED
            BY <5>1, <5>2, <2>3, <1>2
        <4>3. QED
          BY <4>1, <4>2
      <3>2. ASSUME NEW w \in x.versions \ s
            PROVE  Releases(z.verdata[w].links) = {}
        <4>1. w \in Versions \ r /\ w # v /\ w \in Versions \ {v}
          BY <1>0, <1>1
        <4>2. z.verdata[w].links = {}
          BY <4>1, <2>3, <1>2
        <4>3. QED
          BY <4>2 DEF Releases
      <3>3. QED
        BY <3>1, <3>2, SamePages
    <2>6. PagesOf(x, s) # {}
      <3>1. PICK p \in rel : TRUE
        BY <1>8
      <3>2. [path |-> p, meta |-> x.verdata[v].meta] \in PagesOf(x, s)
        BY <3>1, InPages DEF rel
      <3>3. QED
        BY <3>2
    <2>7. y.simple = SimpleOf(x, s)
      <3>1. z.versions = x.versions
        BY <2>3, <1>2
      <3>2. y.simple = [key |-> TRUE, links |-> PagesOf(x, s)]
        BY <3>1, <2>4, <2>5
      <3>3. QED
        BY <3>2, <2>6 DEF SimpleOf
    <2>8. QED
      BY <2>3, <2>4, <2>7, <1>2 DEF y, rel, r, WithReleases
  <1>9. QED
    BY <1>7, <1>8

\* One turn of the second loop of an import.
LEMMA FilesOfNext ==
  ASSUME NEW x, Sound(x), NEW s \in SUBSET x.versions, NEW v \in s,
         NEW m, Restored(m, x, s \ {v})
  PROVE  Restored(ImportFiles(m, v, x.verdata[v].links), x, s)
  <1> DEFINE all == x.verdata[v].links
             rel == Releases(all)
             y == StoreReleasefiles(m, v, rel)
             res == Results(all, rel)
             z == AddLinks(y, v, res)
             docs == {l \in all : l.rel = "doczip"}
             w == CreateLinkedEntries(z, v, docs)
  <1>1. /\ x \in Project /\ v \in Versions /\ v \in x.versions
        /\ s \in SUBSET Versions /\ s \ {v} \in SUBSET x.versions /\ all \in SUBSET Paths
    BY DEF Sound, Project, Versiondata
  <1>2. /\ Tidy(y) /\ HasFiles(y) /\ y \in Project
        /\ y.known = (x.versions # {}) /\ y.versions = x.versions
        /\ y.simple = SimpleOf(x, s)
        /\ y.verdata[v].links = rel
        /\ \A u \in Versions \ {v} : y.verdata[u].links = m.verdata[u].links
        /\ \A u \in Versions : y.verdata[u].meta = x.verdata[u].meta
    <2>1. WithReleases(y, m, x, s, v)
      BY ReleasesImported
    <2> HIDE DEF y
    <2>2. QED
      BY <2>1 DEF WithReleases
  <1>3. /\ \A u \in s \ {v} : m.verdata[u].links = x.verdata[u].links
        /\ \A u \in Versions \ (s \ {v}) : m.verdata[u].links = {}
    BY DEF Restored
  <1>6. \A p \in all : p \in Paths /\ Fit(p, v)
    BY <1>1, LinksFit
  <1>7. /\ \A p \in rel : p \in all /\ p.rel = "releasefile"
        /\ \A p \in res : p \in all /\ p.rel = "toxresult" /\ For(p) \in rel
        /\ \A p \in docs : p \in all /\ p.rel = "doczip"
    BY DEF Releases, Results
  <1>8. ImportFiles(m, v, all) = w
    BY <1>2 DEF ImportFiles
  <1>9. all = (rel \cup res) \cup docs
    <2>1. ASSUME NEW p \in all
          PROVE  p \in (rel \cup res) \cup docs
      <3>1. p \in Paths /\ p.rel \in {"releasefile", "doczip", "toxresult"}
        BY <1>6, PathKinds
      <3>2. CASE p.rel = "toxresult"
        <4>1. For(p) \in all
          BY <3>2, <1>1 DEF Sound, LinksInOrder
        <4>2. For(p).rel = "releasefile"
          BY <3>1, <3>2, ForPath
        <4>3. QED
          BY <3>2, <4>1, <4>2 DEF Releases, Results
      <3>3. QED
        BY <3>1, <3>2 DEF Releases
    <2>2. QED
      BY <2>1, <1>7
  <1> HIDE DEF all, rel, y, res, docs
  <1>10. /\ Tidy(z) /\ HasFiles(z) /\ z \in Project
         /\ z.known = y.known /\ z.versions = y.versions /\ z.simple = y.simple
         /\ z.verdata[v].links = y.verdata[v].links \cup res
         /\ \A u \in Versions \ {v} : z.verdata[u].links = y.verdata[u].links
         /\ \A u \in Versions : z.verdata[u].meta = y.verdata[u].meta
    <2>1. /\ v \in y.versions /\ res \in SUBSET Paths
          /\ \A p \in res : Fit(p, v)
          /\ \A p \in res : p.rel = "toxresult" => For(p) \in y.verdata[v].links \cup res
      BY <1>1, <1>2, <1>6, <1>7
    <2>2. QED
      BY <2>1, <1>1, <1>2, AddNew
  <1> HIDE DEF z
  <1>11. Named(z.verdata[v].links, docs) = {}
    <2>1. \A p \in z.verdata[v].links : p.rel # "doczip"
      BY <1>2, <1>7, <1>10
    <2>2. QED
      BY <2>1, <1>7, NamedOf
  <1>12. w = AddLinks(z, v, docs)
    BY <1>1, <1>10, <1>11, CreateNew DEF Tidy
  <1> HIDE DEF w
  <1>13. /\ Tidy(w) /\ HasFiles(w) /\ w \in Project
         /\ w.known = z.known /\ w.versions = z.versions /\ w.simple = z.simple
         /\ w.verdata[v].links = z.verdata[v].links \cup docs
         /\ \A u \in Versions \ {v} : w.verdata[u].links = z.verdata[u].links
         /\ \A u \in Versions : w.verdata[u].meta = z.verdata[u].meta
    <2>1. /\ v \in z.versions /\ docs \in SUBSET Paths
          /\ \A p \in docs : Fit(p, v)
          /\ \A p \in docs : p.rel = "toxresult" => For(p) \in z.verdata[v].links \cup docs
      BY <1>1, <1>2, <1>6, <1>7, <1>10
    <2>2. QED
      BY <2>1, <1>1, <1>10, <1>12, AddNew
  <1>14. \A u \in Versions : w.verdata[u].meta = x.verdata[u].meta
    BY <1>2, <1>10, <1>13
  <1>15. w.verdata[v].links = x.verdata[v].links
    BY <1>2, <1>9, <1>10, <1>13 DEF all
  <1>16. \A u \in Versions \ {v} : w.verdata[u].links = m.verdata[u].links
    BY <1>2, <1>10, <1>13
  <1>17. /\ \A u \in s : w.verdata[u].links = x.verdata[u].links
         /\ \A u \in Versions \ s : w.verdata[u].links = {}
    BY <1>1, <1>3, <1>15, <1>16
  <1>18. w.known = (x.versions # {}) /\ w.versions = x.versions /\ w.simple = SimpleOf(x, s)
    BY <1>2, <1>10, <1>13
  <1>19. Restored(w, x, s)
    BY <1>13, <1>14, <1>17, <1>18 DEF Restored
  <1>20. QED
    BY <1>8, <1>19 DEF all

\* A function of the subsets of a finite set which is the same at a set for functions that are
\* the same at its subsets with one element less has a fixed point.
AreFunctions(W, S, V) == \A f \in W : f \in [SUBSET S -> V]
Local(T, W, S) ==
  \A f, g \in W : \A s \in SUBSET S :
    (\A v \in s : f[s \ {v}] = g[s \ {v}]) => T[f][s] = T[g][s]

LEMMA FixedPoint ==
  ASSUME NEW S, IsFiniteSet(S), NEW V, NEW W, NEW T \in [W -> W], NEW b \in W,
         AreFunctions(W, S, V), Local(T, W, S)
  PROVE  \E f \in W : f = T[f]
  <1>0. Loops(W, b, T) # {}
    BY LoopExists
  <1>1. PICK h \in [Nat -> W] : \A n \in Nat : h[n + 1] = T[h[n]]
    BY <1>0 DEF Loops
  <1>l. ASSUME NEW f \in W, NEW g \in W, NEW s \in SUBSET S,
               \A v \in s : f[s \ {v}] = g[s \ {v}]
        PROVE  T[f][s] = T[g][s]
    BY <1>l DEF Local
  <1> DEFINE N == {n \in Nat : \A s \in SUBSET S : Cardinality(s) <= n => h[n + 1][s] = T[h[n + 1]][s]}
  <1>2. \A s \in SUBSET S : IsFiniteSet(s) /\ Cardinality(s) \in Nat /\ Cardinality(s) <= Cardinality(S)
    BY FS_Subset, FS_CardinalityType
  <1>3. \A n \in Nat : n + 1 \in Nat /\ h[n] \in W /\ h[n + 1] \in W /\ h[n + 1] = T[h[n]]
    BY <1>1
  <1>4. 0 \in N
    <2>1. ASSUME NEW s \in SUBSET S, Cardinality(s) <= 0
          PROVE  h[0 + 1][s] = T[h[0 + 1]][s]
      <3>1. Cardinality(s) = 0
        BY <1>2, <2>1
      <3>2. s = {}
        BY <1>2, <3>1, FS_EmptySet
      <3>3. T[h[0]][s] = T[h[0 + 1]][s]
        <4>1. h[0] \in W /\ h[0 + 1] \in W /\ \A v \in s : h[0][s \ {v}] = h[0 + 1][s \ {v}]
          BY <1>3, <3>2
        <4> DEFINE f == h[0]
                   g == h[0 + 1]
        <4> HIDE DEF f, g
        <4>2. T[f][s] = T[g][s]
          BY <1>l, <4>1 DEF f, g
        <4>3. QED
          BY <4>2 DEF f, g
      <3>4. QED
        BY <1>3, <3>3
    <2>2. QED
      BY <2>1
  <1>5. ASSUME NEW n \in N
        PROVE  n + 1 \in N
    <2> DEFINE k == n + 1
    <2>1. ASSUME NEW s \in SUBSET S, Cardinality(s) <= k
          PROVE  h[k + 1][s] = T[h[k + 1]][s]
      <3>1. ASSUME NEW v \in s
            PROVE  h[k][s \ {v}] = h[k + 1][s \ {v}]
        <4>1. Cardinality(s \ {v}) = Cardinality(s) - 1
          BY <1>2, FS_RemoveElement
        <4>2. Cardinality(s \ {v}) <= n /\ s \ {v} \in SUBSET S
          BY <1>2, <2>1, <4>1
        <4>3. h[k][s \ {v}] = T[h[k]][s \ {v}]
          BY <1>5, <4>2
        <4>4. k \in Nat
          OBVIOUS
        <4> HIDE DEF k
        <4>5. QED
          BY <1>3, <4>3, <4>4
      <3>2. k \in Nat
        OBVIOUS
      <3> HIDE DEF k
      <3>3. T[h[k]][s] = T[h[k + 1]][s]
        <4>1. h[k] \in W /\ h[k + 1] \in W
          BY <1>3, <3>2
        <4> DEFINE f == h[k]
                   g == h[k + 1]
        <4>2. f \in W /\ g \in W /\ \A v \in s : f[s \ {v}] = g[s \ {v}]
          BY <3>1, <4>1
        <4> HIDE DEF f, g
        <4>3. T[f][s] = T[g][s]
          BY <1>l, <4>2
        <4>4. QED
          BY <4>3 DEF f, g
      <3>4. QED
        BY <1>3, <3>2, <3>3
    <2>2. k \in Nat
      OBVIOUS
    <2>3. QED
      BY <2>1, <2>2
  <1>6. N \in SUBSET Nat
    OBVIOUS
  <1> HIDE DEF N
  <1>7. N = Nat
    BY <1>4, <1>5, <1>6, Induction
  <1> DEFINE c == Cardinality(S)
             f == h[c + 1]
  <1>8. c \in N
    BY <1>2, <1>7
  <1>9. \A s \in SUBSET S : f[s] = T[f][s]
    BY <1>2, <1>8 DEF N
  <1>10. f \in W
    BY <1>3, <1>7, <1>8
  <1>11. T[f] \in W
    BY <1>10
  <1> HIDE DEF f
  <1>12. f \in [SUBSET S -> V] /\ T[f] \in [SUBSET S -> V]
    BY <1>10, <1>11 DEF AreFunctions
  <1> DEFINE g == T[f]
  <1> HIDE DEF g
  <1>13. f = g
    <2>1. f \in [SUBSET S -> V] /\ g \in [SUBSET S -> V] /\ \A s \in SUBSET S : f[s] = g[s]
      BY <1>9, <1>12 DEF g
    <2>2. QED
      BY <2>1
  <1>14. QED
    BY <1>10, <1>13 DEF g

\* The second loop of an import: the files of all versions.
LEMMA FilesImported ==
  ASSUME NEW x, Sound(x), IsFiniteSet(x.versions), NEW dump,
         \A v \in x.versions : dump[v].links = x.verdata[v].links
  PROVE  Restored(StoreAll(dump, FilesOf(x, {}), x.versions), x, x.versions)
  <1> DEFINE S == x.versions
             first == FilesOf(x, {})
             body(f) == [s \in SUBSET S |-> IF s = {} THEN first
                ELSE ImportFiles(f[s \ {Pick(s)}], Pick(s), dump[Pick(s)].links)]
             it == CHOOSE f : f = body(f)
             W == {f \in [SUBSET S -> Project] : \A s \in SUBSET S : Restored(f[s], x, s)}
             T == [f \in W |-> body(f)]
             b == [s \in SUBSET S |-> FilesOf(x, s)]
  <1>0. IsFiniteSet(S)
    OBVIOUS
  <1>1. StoreAll(dump, first, S) = it[S]
    BY DEF StoreAll, FoldSet, MapThenFoldSet, Pick
  <1>2. Restored(first, x, {}) /\ first \in Project
    BY FilesOfRestored
  <1>3. b \in W
    BY FilesOfRestored
  <1>4. ASSUME NEW s \in SUBSET S, s # {}
        PROVE  /\ Pick(s) \in s /\ s \ {Pick(s)} \in SUBSET S
               /\ dump[Pick(s)].links = x.verdata[Pick(s)].links
               /\ \A m : Restored(m, x, s \ {Pick(s)}) =>
                    Restored(ImportFiles(m, Pick(s), dump[Pick(s)].links), x, s)
    <2>1. Pick(s) \in s
      BY <1>4 DEF Pick
    <2>2. dump[Pick(s)].links = x.verdata[Pick(s)].links
      BY <2>1
    <2>3. QED
      BY <2>1, <2>2, FilesOfNext
  <1>5. \A m, s : Restored(m, x, s) => m \in Project
    BY DEF Restored, Tidy, Sound
  <1> HIDE DEF first, S
  <1>6. ASSUME NEW f \in W
        PROVE  body(f) \in W
    <2>1. ASSUME NEW s \in SUBSET S
          PROVE  body(f)[s] \in Project /\ Restored(body(f)[s], x, s)
      <3>1. CASE s = {}
        <4>1. body(f)[s] = first
          BY <3>1
        <4>2. QED
          BY <1>2, <3>1, <4>1
      <3>2. CASE s # {}
        <4>1. body(f)[s] = ImportFiles(f[s \ {Pick(s)}], Pick(s), dump[Pick(s)].links)
          BY <3>2
        <4>2. Restored(f[s \ {Pick(s)}], x, s \ {Pick(s)})
          BY <1>4, <3>2
        <4> HIDE DEF body
        <4>3. Restored(body(f)[s], x, s)
          BY <1>4, <3>2, <4>1, <4>2
        <4>4. QED
          BY <1>5, <4>3
      <3>3. QED
        BY <3>1, <3>2
    <2>2. body(f) = [s \in SUBSET S |-> body(f)[s]]
      OBVIOUS
    <2> HIDE DEF body
    <2>3. body(f) \in [SUBSET S -> Project]
      BY <2>1, <2>2
    <2>4. QED
      BY <2>1, <2>3
  <1>7. \A f, g \in W : \A s \in SUBSET S :
            (\A v \in s : f[s \ {v}] = g[s \ {v}]) => body(f)[s] = body(g)[s]
    <2> TAKE f, g \in W
    <2> TAKE s \in SUBSET S
    <2> HAVE \A v \in s : f[s \ {v}] = g[s \ {v}]
    <2>1. CASE s = {}
      BY <2>1
    <2>2. CASE s # {}
      <3>1. f[s \ {Pick(s)}] = g[s \ {Pick(s)}]
        BY <1>4, <2>2
      <3>2. QED
        BY <2>2, <3>1
    <2>3. QED
      BY <2>1, <2>2
  <1>8. \E f : f = body(f)
    <2> HIDE DEF body
    <2>1. T \in [W -> W]
      BY <1>6
    <2>2. \A f \in W : T[f] = body(f)
      OBVIOUS
    <2>3. AreFunctions(W, S, Project)
      BY DEF AreFunctions
    <2>0. b \in W
      BY <1>3
    <2> HIDE DEF T, W, b
    <2>4. Local(T, W, S)
      BY <1>7, <2>2 DEF Local
    <2>5. \E f \in W : f = T[f]
      BY <1>0, <2>0, <2>1, <2>3, <2>4, FixedPoint
    <2>6. QED
      BY <2>2, <2>5
  <1> HIDE DEF body, W, T, b
  <1>9. it = body(it)
    BY <1>8
  <1> DEFINE Q == {s \in SUBSET S : Restored(it[s], x, s)}
  <1> USE DEF body
  <1> HIDE DEF it
  <1>10. {} \in Q
    BY <1>2, <1>9
  <1>11. ASSUME NEW s \in SUBSET S, s # {}, \A v \in s : s \ {v} \in Q
         PROVE  s \in Q
    <2>1. it[s] = ImportFiles(it[s \ {Pick(s)}], Pick(s), dump[Pick(s)].links)
      BY <1>9, <1>11
    <2>2. Restored(it[s \ {Pick(s)}], x, s \ {Pick(s)})
      BY <1>4, <1>11
    <2>3. Restored(it[s], x, s)
      BY <1>4, <1>11, <2>1, <2>2
    <2>4. QED
      BY <2>3
  <1> HIDE DEF Q
  <1>12. S \in Q
    BY <1>0, <1>10, <1>11, SetInduction
  <1>13. QED
    BY <1>1, <1>12 DEF Q, S, first

\* The project an export is of.
LEMMA WithFilesFields ==
  ASSUME NEW x, Tidy(x), Exportable(x)
  PROVE  LET y == WithFiles(x) IN
         /\ Tidy(y)
         /\ y.known = x.known /\ y.versions = x.versions /\ y.entries = x.entries
         /\ \A v \in Versions : /\ y.verdata[v].meta = x.verdata[v].meta
                                /\ y.verdata[v].links = x.verdata[v].links \cap Files(x)
  <1> DEFINE y == WithFiles(x)
             F == Files(x)
             d(v) == [x.verdata[v] EXCEPT !.links = @ \cap F]
  <1>1. Sound(x) /\ Linked(x) /\ x \in Project
    BY DEF Tidy, Sound
  <1>2. y = [x EXCEPT !.verdata = [v \in Versions |-> d(v)]]
    BY DEF WithFiles
  <1> HIDE DEF F
  <1>3. \A v \in Versions : /\ d(v) \in Versiondata /\ d(v).meta = x.verdata[v].meta
                            /\ d(v).links = x.verdata[v].links \cap F
    BY <1>1 DEF Project, Versiondata
  <1> HIDE DEF y, d
  <1>4. /\ y \in Project
        /\ y.known = x.known /\ y.versions = x.versions /\ y.entries = x.entries
        /\ \A v \in Versions : y.verdata[v] = d(v)
    BY <1>1, <1>2, <1>3 DEF Project
  <1>5. \A v \in Versions : /\ y.verdata[v].meta = x.verdata[v].meta
                            /\ y.verdata[v].links = x.verdata[v].links \cap F
    BY <1>3, <1>4
  <1>6. LinksInOrder(y)
    BY <1>1, <1>4, <1>5 DEF Sound, LinksInOrder, Exportable, F
  <1>7. Sound(y)
    BY <1>1, <1>4, <1>5, <1>6 DEF Sound
  <1>8. ASSUME NEW e \in y.entries
        PROVE  e.path \in y.verdata[e.version].links
    <2>1. e \in x.entries /\ e.version \in Versions /\ e.path \in F
      BY <1>1, <1>4, EntryFields DEF F, Files
    <2>2. e.path \in x.verdata[e.version].links
      BY <1>1, <2>1 DEF Linked
    <2>3. QED
      BY <1>5, <2>1, <2>2
  <1>9. Linked(y)
    BY <1>1, <1>4, <1>5, <1>8 DEF Linked
  <1>10. QED
    BY <1>4, <1>5, <1>7, <1>9 DEF Tidy, y, F

\* What a project is after its import.
LEMMA Imported ==
  ASSUME NEW x, Tidy(x), Known(x), Exportable(x), IsFiniteSet(Versions)
  PROVE  LET f == Import(Dump(x))
             y == Regen(WithFiles(x))
         IN
         /\ [f EXCEPT !.simple.key = TRUE, !.entries = {}] = [y EXCEPT !.entries = {}]
         /\ Files(f) = Files(y)
         /\ \A e \in f.entries : e.path \in f.verdata[e.version].links
  <1> DEFINE dump == Dump(x)
             k == WithFiles(x)
             S == k.versions
             f == Import(dump)
             y == Regen(k)
             p == [key |-> TRUE, links |-> PagesOf(k, S)]
  <1>0. /\ Tidy(k)
        /\ k.known = x.known /\ k.versions = x.versions /\ k.entries = x.entries
        /\ \A v \in Versions : /\ k.verdata[v].meta = x.verdata[v].meta
                               /\ k.verdata[v].links = x.verdata[v].links \cap Files(x)
    BY WithFilesFields
  <1>a. dump = [v \in IF x.known THEN x.versions ELSE {} |-> k.verdata[v]]
    BY DEF Dump
  <1> HIDE DEF k, dump
  <1>1. /\ Sound(k) /\ Linked(k) /\ k \in Project /\ S \in SUBSET Versions /\ S \in SUBSET S
    BY <1>0 DEF Tidy, Sound, Project
  <1>2. IsFiniteSet(S)
    BY <1>1, FS_Subset
  <1>3. (IF x.known THEN x.versions ELSE {}) = S
    BY <1>0 DEF Known
  <1>4. DOMAIN dump = S
    BY <1>3, <1>a
  <1>5. \A v \in S : dump[v].meta = k.verdata[v].meta /\ dump[v].links = k.verdata[v].links
    BY <1>3, <1>a
  <1>6. \A v \in S : k.verdata[v].meta \in Metas
    BY <1>1 DEF Sound, Project, Versiondata
  <1>7. RegisterAll(dump, S) = MetaOf(k, S)
    BY <1>1, <1>2, <1>5, <1>6, MetaImported
  <1>8. MetaOf(k, S) = FilesOf(k, {})
    <2> DEFINE m == MetaOf(k, S)
               e == FilesOf(k, {})
    <2>1. /\ m \in Project
          /\ m.known = (S # {}) /\ m.versions = S /\ m.simple = NoSimple /\ m.entries = {}
          /\ \A v \in Versions : m.verdata[v].links = {}
          /\ \A v \in S : m.verdata[v].meta = k.verdata[v].meta
          /\ \A v \in Versions \ S : m.verdata[v].meta = NoMeta
      BY <1>1, <1>6, MetaOfFields
    <2>2. SimpleOf(k, {}) = NoSimple
      BY DEF PagesOf, SimpleOf
    <2>3. {} \in SUBSET k.versions
      OBVIOUS
    <2>4. e \in Project /\ Restored(e, k, {})
      BY <1>1, <2>3, FilesOfRestored
    <2>5. e.entries = {}
      BY DEF FilesOf
    <2> HIDE DEF m, e
    <2>6. /\ e.known = (S # {}) /\ e.versions = S /\ e.simple = NoSimple
          /\ \A v \in Versions : e.verdata[v].links = {}
          /\ \A v \in Versions : e.verdata[v].meta = k.verdata[v].meta
      BY <2>2, <2>4 DEF Restored
    <2>7. \A v \in Versions : v \notin S => k.verdata[v].meta = NoMeta
      BY <1>1 DEF Sound
    <2>8. \A v \in Versions : m.verdata[v].meta = e.verdata[v].meta
      BY <2>1, <2>6, <2>7
    <2>9. m = e
      BY <2>1, <2>4, <2>5, <2>6, <2>8, SameProject
    <2>10. QED
      BY <2>9 DEF m, e
  <1>9. Restored(StoreAll(dump, FilesOf(k, {}), S), k, S)
    BY <1>1, <1>2, <1>5, FilesImported
  <1>10. Restored(f, k, S)
    <2>1. f = StoreAll(dump, RegisterAll(dump, DOMAIN dump), DOMAIN dump)
      BY DEF Import, RegisterAll, StoreAll
    <2>2. QED
      BY <2>1, <1>4, <1>7, <1>8, <1>9
  <1> HIDE DEF f
  <1>11. /\ f \in Project /\ Linked(f) /\ HasFiles(f)
         /\ f.known = (S # {}) /\ f.versions = S
         /\ f.simple = SimpleOf(k, S)
         /\ \A v \in Versions : f.verdata[v].meta = k.verdata[v].meta
         /\ \A v \in S : f.verdata[v].links = k.verdata[v].links
         /\ \A v \in Versions \ S : f.verdata[v].links = {}
    BY <1>10 DEF Restored, Tidy, Sound
  <1>13. /\ y \in Project
         /\ y.known = x.known /\ y.versions = S /\ y.verdata = k.verdata /\ y.simple = p
         /\ y.entries = x.entries
    BY <1>0, RegenPages
  <1> HIDE DEF y, p
  <1>14. \A v \in Versions : f.verdata[v].links = k.verdata[v].links
    <2>1. \A v \in Versions : v \notin S => k.verdata[v].links = {}
      BY <1>1 DEF Sound, LinksInOrder
    <2>2. QED
      BY <2>1, <1>11
  <1>15. Files(f) = Files(y)
    <2>1. ASSUME NEW e \in f.entries
          PROVE  e.path \in Files(y)
      <3>1. e.version \in Versions /\ e.path \in f.verdata[e.version].links
        BY <1>10, <1>11, EntryFields DEF Linked, Restored, Tidy
      <3>2. e.path \in Files(x)
        BY <1>0, <1>14, <3>1
      <3>3. QED
        BY <1>13, <3>2 DEF Files
    <2>2. ASSUME NEW e \in y.entries
          PROVE  e.path \in Files(f)
      <3>1. e \in k.entries
        BY <1>0, <1>13
      <3>2. e.version \in Versions /\ e.path \in k.verdata[e.version].links
        BY <1>1, <3>1, EntryFields DEF Linked
      <3>3. QED
        BY <1>11, <1>14, <3>2 DEF HasFiles
    <2>3. QED
      BY <2>1, <2>2 DEF Files
  <1>16. [f.simple EXCEPT !.key = TRUE] = p
    <2> DEFINE SL == [key : BOOLEAN, links : {PagesOf(k, S)} \cup {{}}]
    <2>1. f.simple \in SL /\ p \in SL
      BY <1>11 DEF p, NoSimple, SimpleOf
    <2>2. p.key = TRUE /\ p.links = PagesOf(k, S)
      BY DEF p
    <2>3. f.simple.links = PagesOf(k, S)
      <3>1. CASE PagesOf(k, S) = {}
        <4>1. f.simple = NoSimple
          BY <3>1, <1>11 DEF SimpleOf
        <4>2. QED
          BY <3>1, <4>1 DEF NoSimple
      <3>2. CASE PagesOf(k, S) # {}
        <4>1. f.simple = p
          BY <3>2, <1>11 DEF SimpleOf, p
        <4>2. QED
          BY <2>2, <4>1
      <3>3. QED
        BY <3>1, <3>2
    <2>4. QED
      BY <2>1, <2>2, <2>3
  <1> DEFINE h == [f EXCEPT !.simple = p, !.entries = {}]
             n == [y EXCEPT !.entries = {}]
  <1>17. [f EXCEPT !.simple.key = TRUE, !.entries = {}] = h
    BY <1>11, <1>16 DEF Project
  <1>18. p \in SimpleLinks /\ {} \in Entries
    BY <1>13 DEF Project, Entries
  <1>19. /\ h \in Project /\ h.known = f.known /\ h.versions = f.versions
         /\ h.verdata = f.verdata /\ h.entries = {} /\ h.simple = p
    BY <1>11, <1>18 DEF Project
  <1>20. /\ n \in Project /\ n.known = y.known /\ n.versions = y.versions
         /\ n.verdata = y.verdata /\ n.entries = {} /\ n.simple = y.simple
    BY <1>13, <1>18 DEF Project
  <1> HIDE DEF h, n
  <1>21. h.known = n.known
    <2>1. h.known \in BOOLEAN /\ n.known \in BOOLEAN
      BY <1>19, <1>20 DEF Project
    <2>2. h.known <=> S # {}
      BY <1>11, <1>19
    <2>3. n.known <=> S # {}
      BY <1>0, <1>13, <1>20 DEF Known
    <2>4. QED
      BY <2>1, <2>2, <2>3
  <1>22. h = n
    <2>1. h.versions = n.versions /\ h.simple = n.simple /\ h.entries = n.entries
      BY <1>11, <1>13, <1>19, <1>20
    <2>2. \A v \in Versions : /\ h.verdata[v].meta = n.verdata[v].meta
                              /\ h.verdata[v].links = n.verdata[v].links
      BY <1>11, <1>13, <1>14, <1>19, <1>20
    <2>3. QED
      BY <1>19, <1>20, <1>21, <2>1, <2>2, SameProject
  <1>23. \A e \in f.entries : e.path \in f.verdata[e.version].links
    BY <1>11 DEF Linked
  <1>24. QED
    BY <1>15, <1>17, <1>22, <1>23 DEF n, dump, y, k, f

\* An import restores what was exported, with any finite number of versions, also when files
\* are shared by versions.
THEOREM Restoring ==
  ASSUME IsFiniteSet(Versions)
  PROVE  Spec => []ImportRestores
  <1>1. Inv => ImportRestores
    BY Imported DEF Inv, Good, ImportRestores
  <1>2. QED
    BY <1>1, Always, PTL
=============================================================================
