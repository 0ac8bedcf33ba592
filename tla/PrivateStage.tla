----------------------------- MODULE PrivateStage -----------------------------
(***************************************************************************)
(* What the database keeps about one project of each private index         *)
(* (PrivateStage, LinkStore, FileStore) and the requests which change it   *)
(* (PyPIView): register, upload of files, documentation and test results,  *)
(* push to another index, and the deletions.                               *)
(*                                                                         *)
(* Every request is one write transaction (KeyFS) and these exclude each   *)
(* other.  A refused request is answered with an HTTP exception, which     *)
(* does not roll the transaction back: what was written before stays.      *)
(***************************************************************************)
EXTENDS Naturals, FiniteSets, FiniteSetsExt

CONSTANTS
    Stages,         \* private indexes
    Versions,       \* versions of the project
    Names,          \* numbers of release files, in the order of their names
    Fits,           \* the versions which are found in the name of each: "pkg-1.0.1.tar.gz" is
                    \* taken for version 1.0 as well as for version 1.0.1
    Contents,       \* contents of files
    Metas,          \* values of requires_python
    MaxResults,     \* bound: test results of one file
    MaxLinks        \* bound: links of all indexes together

\* The metadata of a version without a key.
NoMeta == "no key"

ASSUME PrivateStageConstants ==
    /\ Versions \subseteq Nat /\ Names \subseteq Nat /\ MaxResults \in Nat /\ MaxLinks \in Nat
    /\ Fits \in [Names -> SUBSET Versions]
    /\ NoMeta \notin Metas

VARIABLES
    config,         \* the configuration of each index
    db              \* the keys of the project in each index

vars == <<config, db>>

NoIndex == "none"

\* A file: what it is to its version (Rel), its name, the number of a test result, its
\* content.  The file of a test result is kept beside the file it is about.
Paths ==
    [rel : {"releasefile"}, name : Names, nr : {0}, hash : Contents]
    \cup [rel : {"doczip"}, name : Versions, nr : {0}, hash : Contents]
    \cup [rel : {"toxresult"}, name : Names, nr : 1 .. MaxResults, hash : Contents]

Basename(path) == <<path.rel, path.name, path.nr>>
Releases(paths) == {p \in paths : p.rel = "releasefile"}

\* for_entrypath
For(path) == [path EXCEPT !.rel = "releasefile", !.nr = 0]

\* The results about some files.
Results(links, paths) == {l \in links : l.rel = "toxresult" /\ For(l) \in paths}

\* known: the project is in PROJNAMES.  versions: PROJVERSIONS.  verdata: PROJVERSION, the
\* requires_python and the links of each version.  simple: PROJSIMPLELINKS.  entries:
\* STAGEFILE, together with the files.
NoVersiondata == [meta |-> NoMeta, links |-> {}]
NoSimple == [key |-> FALSE, links |-> {}]
Versiondata == [meta : Metas \cup {NoMeta}, links : SUBSET Paths]
SimpleLinks == [key : BOOLEAN, links : SUBSET [path : Paths, meta : Metas]]
Entries == SUBSET [path : Paths, version : Versions]
Project ==
    [known : BOOLEAN, versions : SUBSET Versions, verdata : [Versions -> Versiondata],
     simple : SimpleLinks, entries : Entries]
Empty == [known |-> FALSE, versions |-> {}, verdata |-> [v \in Versions |-> NoVersiondata],
          simple |-> NoSimple, entries |-> {}]

Init == config = [s \in Stages |-> NoIndex] /\ db = [s \in Stages |-> Empty]

Links(x, vs) == UNION {x.verdata[v].links : v \in vs}

-----------------------------------------------------------------------------
(* The methods of PrivateStage and LinkStore.                              *)

SetVersiondata(x, v, meta) ==
    [x EXCEPT !.known = TRUE, !.versions = @ \cup {v}, !.verdata[v].meta = meta]

\* Mutant: the results stay.
RemoveLinksOnly(x, v, gone) ==
    [x EXCEPT !.verdata[v].links = @ \ gone,
              !.entries = {e \in @ : e.path \notin gone}]

\* Mutant: their files stay.
RemoveLinksKeepFiles(x, v, gone) ==
    [x EXCEPT !.verdata[v].links = @ \ (gone \cup Results(@, gone))]

\* remove_links: some links of a version, the results about them, and their files.
RemoveLinks(x, v, gone) ==
    LET all == gone \cup Results(x.verdata[v].links, gone) IN
    [x EXCEPT !.verdata[v].links = @ \ all,
              !.entries = {e \in @ : e.path \notin all}]

\* _create_file_entry, _add_link_to_file_entry
AddLinks(x, v, new) ==
    [x EXCEPT !.verdata[v].links = @ \cup new,
              !.entries = {e \in @ : e.path \notin new}
                          \cup {[path |-> p, version |-> v] : p \in new}]

Named(links, new) == {l \in links : \E p \in new : Basename(p) = Basename(l)}

\* create_linked_entry, for files of different names: unless the index is volatile there must
\* not be one of the same name yet.
CreateLinkedEntries(x, v, new) ==
    AddLinks(RemoveLinks(x, v, Named(x.verdata[v].links, new)), v, new)

IsLatest(v, vs) == v \in vs /\ \A w \in vs : w <= v

\* Mutant: the links of the latest version only.
RegenLatest(x) ==
    LET latest == {v \in x.versions : IsLatest(v, x.versions)} IN
    [x EXCEPT !.simple = [key |-> TRUE,
        links |-> UNION {{[path |-> p, meta |-> x.verdata[v].meta] :
                                p \in Releases(x.verdata[v].links)} : v \in latest}]]

\* _regen_simplelinks
Regen(x) ==
    [x EXCEPT !.simple = [key |-> TRUE,
        links |-> UNION {{[path |-> p, meta |-> x.verdata[v].meta] :
                                p \in Releases(x.verdata[v].links)} : v \in x.versions}]]

\* store_releasefile, for files of different names.
StoreReleasefiles(x, v, new) ==
    IF new = {} THEN x ELSE Regen(CreateLinkedEntries(x, v, new))

\* del_versiondata without its cleanup, of some versions.
DelVersions(x, vs) ==
    [x EXCEPT !.versions = @ \ vs,
              !.verdata = [v \in Versions |-> IF v \in vs THEN NoVersiondata ELSE @[v]],
              !.entries = {e \in @ : e.path \notin Links(x, vs)}]

\* del_project
DelProject(x) ==
    [DelVersions(x, x.versions) EXCEPT !.known = FALSE, !.simple = NoSimple]

\* Mutant: the project is not deleted with its last version.
DelVersiondataOnly(x, v) == Regen(DelVersions(x, {v}))

\* del_versiondata
DelVersiondata(x, v) ==
    LET y == Regen(DelVersions(x, {v})) IN
    IF y.versions = {} THEN DelProject(y) ELSE y

\* del_entry: a version without links is deleted, but the simple links are stored all the
\* same.
DelEntry(x, e) ==
    LET y == RemoveLinks(x, e.version, Named(x.verdata[e.version].links, {e.path}))
        z == [y EXCEPT !.entries = {f \in @ : f.path # e.path}]
    IN Regen(IF z.verdata[e.version].links = {} THEN DelVersiondata(z, e.version) ELSE z)

-----------------------------------------------------------------------------
(* The requests.                                                           *)

Exists(s) == config[s] # NoIndex
Volatile(s) == config[s] = "volatile"

LinksOf(d) == UNION {{<<s, v>>} \X d[s].verdata[v].links : s \in Stages, v \in Versions}

Write(s, x) ==
    /\ db' = [db EXCEPT ![s] = x]
    /\ Cardinality(LinksOf(db')) <= MaxLinks
    /\ UNCHANGED config

\* submit with action "submit": the metadata is always replaced.
Register(s, v, meta) ==
    /\ Exists(s)
    /\ Write(s, SetVersiondata(db[s], v, meta))

\* submit with action "file_upload".  A file of that name on a non-volatile index is not
\* replaced, but the metadata is.
Upload(s, v, meta, path) ==
    /\ Exists(s) /\ path.rel = "releasefile" /\ v \in Fits[path.name]
    /\ LET x == SetVersiondata(db[s], v, meta) IN
       Write(s, IF ~Volatile(s) /\ Named(x.verdata[v].links, {path}) # {}
                THEN x ELSE StoreReleasefiles(x, v, {path}))

\* submit with action "doc_upload": without a version the documentation is for the latest,
\* otherwise the metadata is replaced as well.  The simple links are not stored again.
UploadDoc(s, v, meta, path) ==
    /\ Exists(s) /\ path.rel = "doczip" /\ path.name = v
    /\ \/ LET x == SetVersiondata(db[s], v, meta) IN
          Write(s, IF ~Volatile(s) /\ Named(x.verdata[v].links, {path}) # {}
                   THEN x ELSE CreateLinkedEntries(x, v, {path}))
       \/ /\ IsLatest(v, db[s].versions)
          /\ Volatile(s) \/ Named(db[s].verdata[v].links, {path}) = {}
          /\ Write(s, CreateLinkedEntries(db[s], v, {path}))

\* post_toxresult, get_link_from_entrypath, new_reflink: for a release file which has an
\* entry, in the version of the entry.  Its name is a new one.
PostToxresult(s, path) ==
    \E e \in db[s].entries :
        /\ Exists(s) /\ path.rel = "toxresult" /\ e.path = For(path)
        /\ e.path \in db[s].verdata[e.version].links
        /\ path \notin db[s].verdata[e.version].links
        /\ Write(s, AddLinks(db[s], e.version, {path}))

\* del_pkg, del_versiondata, del_project: with "force" on a non-volatile index.
Forced(s, force) == Exists(s) /\ force = ~Volatile(s)

DelPkg(s, force) ==
    /\ Forced(s, force)
    /\ \E e \in db[s].entries : Write(s, DelEntry(db[s], e))

DelVersion(s, force) ==
    /\ Forced(s, force)
    /\ \E v \in db[s].versions : Write(s, DelVersiondata(db[s], v))

DelKnownProject(s, force) ==
    /\ Forced(s, force) /\ db[s].known
    /\ Write(s, DelProject(db[s]))

\* "Project not found", after its simple links have been stored.
DelUnknownProject(s, force) ==
    /\ Forced(s, force) /\ ~db[s].known
    /\ Write(s, Regen(DelVersions(db[s], db[s].versions)))

-----------------------------------------------------------------------------
(* Push to another index: the metadata, then the files in the order of     *)
(* their names, each with its results, then the documentation.  The first  *)
(* one the target already has ends it, if the target is not volatile, with *)
(* what was stored before.                                                 *)

\* Mutant: the target is not asked.
PushAll(links, target, volatile) == links

\* The files which are stored.
PushUpTo(links, target, volatile) ==
    LET refused == IF volatile THEN {} ELSE Named(links, target)
        files == {p \in Releases(links) :
                    \A r \in Releases(refused) : p.name < r.name}
        docs == {p \in links : p.rel = "doczip"}
    IN files \cup (IF Releases(refused) = {} THEN docs \ refused ELSE {})

\* _push_internal, _push_links: all files, or without documentation, or documentation only.
Push(s, t, v, docs, files) ==
    /\ Exists(s) /\ Exists(t) /\ s # t
    /\ LET verdata == db[s].verdata[v]
           links == {p \in verdata.links :
                        IF p.rel = "doczip" THEN docs ELSE files}
           x == SetVersiondata(db[t], v, verdata.meta)
           new == PushUpTo(links, x.verdata[v].links, Volatile(t))
           y == StoreReleasefiles(x, v, Releases(new))
           z == CreateLinkedEntries(y, v, new \ Releases(new))
       IN /\ links # {}
          /\ Write(t, AddLinks(z, v, Results(links, new)))

-----------------------------------------------------------------------------
(* Export of an index and its import into an empty server.                 *)

Files(x) == {e.path : e \in x.entries}

\* A project with the links which have a file.
WithFiles(x) ==
    [x EXCEPT !.verdata = [v \in Versions |-> [x.verdata[v] EXCEPT !.links = @ \cap Files(x)]]]

\* dump: the metadata and the links of the versions; a release file without its file is passed
\* over, the export fails at a result without its file or without the file it is about.
Exportable(x) ==
    \A v \in Versions : \A l \in x.verdata[v].links :
        l.rel = "toxresult" => l \in Files(x) /\ For(l) \in Files(x)

Dump(x) == [v \in IF x.known THEN x.versions ELSE {} |-> WithFiles(x).verdata[v]]

\* Mutant: results come before the files they are about.
ImportFilesLast(x, v, links) ==
    LET tested == AddLinks(x, v, Results(links, x.verdata[v].links))
        stored == StoreReleasefiles(tested, v, Releases(links))
    IN CreateLinkedEntries(stored, v, {l \in links : l.rel = "doczip"})

\* import_filedesc, for all files of a version: a result is stored when there is the file
\* it is about.
ImportFiles(x, v, links) ==
    LET stored == StoreReleasefiles(x, v, Releases(links))
        tested == AddLinks(stored, v, Results(links, stored.verdata[v].links))
    IN CreateLinkedEntries(tested, v, {l \in links : l.rel = "doczip"})

\* import_all: the metadata of all versions, then the files.
Import(dump) ==
    LET registered == FoldSet(LAMBDA v, x : SetVersiondata(x, v, dump[v].meta), Empty, DOMAIN dump)
    IN FoldSet(LAMBDA v, x : ImportFiles(x, v, dump[v].links), registered, DOMAIN dump)

-----------------------------------------------------------------------------
(* Indexes.                                                                *)

\* index_create, index_modify
Configure(s, c) ==
    /\ config' = [config EXCEPT ![s] = c]
    /\ UNCHANGED db

\* index_delete, user_delete: all projects of the index, then its configuration.
DeleteIndex(s) ==
    /\ Volatile(s)
    /\ config' = [config EXCEPT ![s] = NoIndex]
    /\ db' = [db EXCEPT ![s] = IF db[s].known THEN DelProject(db[s]) ELSE db[s]]

Deletion(s, force) ==
    DelPkg(s, force) \/ DelVersion(s, force)
    \/ DelKnownProject(s, force) \/ DelUnknownProject(s, force)

Next ==
    \E s \in Stages :
        \/ \E v \in Versions, meta \in Metas :
            \/ Register(s, v, meta)
            \/ \E path \in Paths : Upload(s, v, meta, path) \/ UploadDoc(s, v, meta, path)
        \/ \E path \in Paths : PostToxresult(s, path)
        \/ \E force \in BOOLEAN : Deletion(s, force)
        \/ \E t \in Stages, v \in Versions, only \in {"all", "no_docs", "only_docs"} :
            Push(s, t, v, only # "no_docs", only # "only_docs")
        \/ \E c \in {"volatile", "nonvolatile"} : Configure(s, c)
        \/ DeleteIndex(s)

Spec == Init /\ [][Next]_vars

-----------------------------------------------------------------------------
(* Properties.                                                             *)

\* Types of the variables.
TypeOK ==
    /\ config \in [Stages -> {NoIndex, "volatile", "nonvolatile"}]
    /\ db \in [Stages -> Project]

\* The three keys which say that there is a version tell the same: a project has versions, a
\* version in the set has metadata, and there is none beside it (del_versiondata,
\* del_project, _set_versiondata).
VersionsAgree ==
    \A s \in Stages :
        LET x == db[s] IN
        /\ x.known <=> x.versions # {}
        /\ x.versions = {v \in Versions : x.verdata[v].meta # NoMeta}

\* Every file is linked from the version its entry names, so no request leaves a file which
\* nobody can delete any more (remove_links, create_linked_entry, del_entry); and every link
\* has its file, which is of its version, unless several versions are found in its name: the
\* same file is one entry, which an upload for another version takes over, and which is
\* deleted with the file of either version (version_in_filename, _create_file_entry).
Ambiguous(l) == l.rel # "doczip" /\ \E v, w \in Fits[l.name] : v # w

FilesAreLinked ==
    \A s \in Stages :
        LET x == db[s] IN
        /\ \A e \in x.entries : e.path \in x.verdata[e.version].links
        /\ \A v \in Versions : \A l \in x.verdata[v].links :
                Ambiguous(l) \/ [path |-> l, version |-> v] \in x.entries

\* A test result never outlives the file it is about, nor gets to another content of it.
ResultsHaveFile ==
    \A s \in Stages, v \in Versions :
        \A l \in db[s].verdata[v].links : l.rel = "toxresult" => For(l) \in db[s].verdata[v].links

\* The simple page of a project lists the release files of all its versions, also one which was
\* not stored yet and is empty, or the one of a project which is not there
\* (get_simplelinks_perstage, _regen_simplelinks).
SimpleLinksComplete ==
    \A s \in Stages : {l.path : l \in db[s].simple.links} = Releases(Links(db[s], Versions))

\* Only a deletion with "force" takes a release file or documentation from a non-volatile
\* index, or replaces it.
NonVolatileKeeps ==
    [][\A s \in Stages, v \in Versions :
        \A l \in db[s].verdata[v].links :
            l.rel # "toxresult" /\ ~Volatile(s) =>
                l \in db'[s].verdata[v].links \/ Deletion(s, TRUE)]_vars

\* The import of an export brings back the project with its versions, their metadata, files,
\* test results and documentation, whatever was done to it before: all links which have a
\* file, and their files; which of its versions has a file that several link depends on the
\* order.  The simple page is made from the metadata again (IndexDump, Importer).
ImportRestores ==
    \A s \in Stages : Exists(s) /\ Exportable(db[s]) =>
        LET imported == Import(Dump(db[s]))
            expected == Regen(WithFiles(db[s]))
        IN /\ [imported EXCEPT !.simple.key = TRUE, !.entries = {}] = [expected EXCEPT !.entries = {}]
           /\ Files(imported) = Files(expected)
           /\ \A e \in imported.entries : e.path \in imported.verdata[e.version].links

\* A link is in a version its name fits, which is registered and has the file it is about.
Fit(l, v) == IF l.rel = "doczip" THEN l.name = v ELSE v \in Fits[l.name]

LinksInOrder(x) ==
    \A v \in Versions : \A l \in x.verdata[v].links :
        /\ v \in x.versions /\ Fit(l, v)
        /\ l.rel = "toxresult" => For(l) \in x.verdata[v].links

\* What SimpleLinksComplete says of one project.
SimpleInOrder(x) == {l.path : l \in x.simple.links} = Releases(Links(x, Versions))

\* The inductive invariant.
IInv ==
    /\ TypeOK /\ VersionsAgree
    /\ \A s \in Stages : LinksInOrder(db[s]) /\ SimpleInOrder(db[s])

\* A project which is deleted leaves nothing in the database.
NothingLeft == \A s \in Stages : ~db[s].known => db[s] = Empty

\* The simple page names the Python version of the current metadata.
RequiresPythonCurrent ==
    \A s \in Stages, v \in Versions :
        \A l \in db[s].simple.links :
            l.path \in db[s].verdata[v].links => l.meta = db[s].verdata[v].meta
=============================================================================
