------------------------------ MODULE MirrorFiles ----------------------------
(***************************************************************************)
(* The release files of a project of a mirror on a primary: the links and  *)
(* entries in the database, downloads on behalf of clients                 *)
(* (iter_cache_remote_file), and the deletion of files, versions, the      *)
(* project and the index (MirrorStage).                                    *)
(*                                                                         *)
(* A download begins in the read transaction of a request and ends in a    *)
(* transaction of its own, after the file has been sent to the client.  An *)
(* update of the links reads them, asks the remote index, and stores the   *)
(* answer in a write transaction.  Anything may be deleted in between.     *)
(* How an update is entered, and by whom, is the subject of MirrorLinks:   *)
(* here there is one at a time.                                            *)
(*                                                                         *)
(* MirrorProofs extends both modules: MF marks the names which MirrorLinks *)
(* has as well.                                                            *)
(***************************************************************************)
EXTENDS FiniteSets

CONSTANTS
    Files,          \* files of the project, with the digest in their URL
    Version,        \* the version each belongs to
    Clients,        \* requests for a file
    NoKey, Cleared, \* no links in the database, {} in their place
    Idle

ASSUME MirrorFilesConstants ==
    /\ IsFiniteSet(Files) /\ DOMAIN Version = Files
    /\ NoKey # Cleared
    /\ \A s \in SUBSET Files : s # NoKey /\ s # Cleared /\ [links |-> s] # Idle

VARIABLES
    exists,         \* the index
    known,          \* the project is in PROJNAMES
    links,          \* PROJSIMPLELINKS: the files, Cleared for {}, or NoKey
    entries,        \* STAGEFILE of each file
    files,          \* the files on disk
    download,       \* what each client has found in the entry of the file it waits for
    update,         \* what an update of the links has found
    page,           \* the files on the remote page
    \* history
    strays,         \* files which no deletion will find, for a reason
    removed,        \* files of links whose entry has been deleted, for a reason
    revived         \* the project has come back with a download after its links were deleted

mfvars == <<exists, known, links, entries, files, download, update, page,
            strays, removed, revived>>

history == <<strays, removed, revived>>
processes == <<download, update, page>>

\* _load_cache_links: none when the key is missing or empty.
Linked == IF links \in {NoKey, Cleared} THEN {} ELSE links

\* Entries with URL and project (maplink).
Mapped == {f \in Files : entries[f] \in {"mapped", "stored"}}

MFInit ==
    /\ exists = FALSE /\ known = FALSE /\ links = NoKey
    /\ entries = [f \in Files |-> "none"] /\ files = {}
    /\ download = [c \in Clients |-> Idle] /\ update = Idle
    /\ page \in SUBSET Files
    /\ strays = {} /\ removed = {} /\ revived = FALSE

-----------------------------------------------------------------------------
(* Links.                                                                  *)

\* The remote project gets or loses files.
PageChanges ==
    /\ page' \in SUBSET Files
    /\ UNCHANGED <<exists, known, links, entries, files, download, update>>
    /\ UNCHANGED history

\* get_simplelinks_perstage, up to the request for the remote page.
UpdateBegins ==
    /\ exists /\ update = Idle
    /\ update' = [links |-> Linked]
    /\ UNCHANGED <<exists, known, links, entries, files, download, page>>
    /\ UNCHANGED history

\* maplink, for the files of the page which have not been among the links.
MapLinks(old) ==
    entries' = [f \in Files |->
        IF f \notin page \ old THEN entries[f]
        ELSE IF entries[f] \in {"none", "mapped"} THEN "mapped" ELSE "stored"]

\* _update_simplelinks, _save_cache_links: with the links found before the write
\* transaction has begun.  Nobody looks whether there still is an index.
SaveLinks(old) ==
    /\ MapLinks(old)
    /\ links' = page
    /\ known' = (known \/ links # page)
    /\ removed' = removed \ (page \ old)
    /\ UNCHANGED strays /\ revived' = FALSE

UpdateEnds ==
    /\ update # Idle /\ page # update.links
    /\ SaveLinks(update.links)
    /\ update' = Idle
    /\ UNCHANGED <<exists, files, download, page>>

\* Nothing new on the page, or the request fails.
UpdateChangesNothing ==
    /\ update # Idle
    /\ update' = Idle
    /\ UNCHANGED <<exists, known, links, entries, files, download, page>>
    /\ UNCHANGED history

\* simple_refresh, clear_simplelinks_cache: clears the links and fetches them in one write
\* transaction, unless that fails or another update takes too long.
SimpleRefresh ==
    /\ exists
    /\ \/ update = Idle /\ SaveLinks({})
       \/ links' = Cleared /\ UNCHANGED <<known, entries>> /\ UNCHANGED history
    /\ UNCHANGED <<exists, files, download, update, page>>

-----------------------------------------------------------------------------
(* Downloads.                                                              *)

\* stage_pkgserv, _pkgserv, iter_cache_remote_file up to the first chunk: for an entry with
\* a URL, whose file is missing.
Request(c) ==
    /\ exists /\ download[c] = Idle
    /\ \E f \in Mapped \ files :
        download' = [download EXCEPT ![c] = [file |-> f, entry |-> entries[f]]]
    /\ UNCHANGED <<exists, known, links, entries, files, update, page>>
    /\ UNCHANGED history

Ends(c) ==
    /\ download' = [download EXCEPT ![c] = Idle]
    /\ UNCHANGED <<exists, links, update, page, removed>>

\* The end of iter_cache_remote_file for an entry without metadata of a file: the entry is
\* read again, the project is entered if the entry names one.
Store(c) ==
    /\ download[c] # Idle /\ download[c].entry = "mapped"
    /\ LET f == download[c].file
           mapped == f \in Mapped
       IN /\ mapped => exists
          /\ entries' = [entries EXCEPT ![f] = IF mapped THEN "stored" ELSE "bare"]
          /\ files' = files \cup {f}
          /\ known' = (known \/ mapped)
          /\ strays' = IF mapped THEN strays ELSE strays \cup {f}
          /\ revived' = (revived \/ (mapped /\ links = NoKey))
    /\ Ends(c)

\* For an entry with metadata, whose file was missing: "put it back in place without
\* creating a new serial", whatever has become of the entry.
PutBack(c) ==
    /\ download[c] # Idle /\ download[c].entry = "stored"
    /\ LET f == download[c].file IN
       /\ files' = files \cup {f}
       /\ strays' = IF exists /\ f \in Mapped THEN strays ELSE strays \cup {f}
    /\ Ends(c) /\ UNCHANGED <<known, entries, revived>>

\* The remote server fails, the size or digest is wrong, the client is gone, or there is no
\* index any more.
DownloadFails(c) ==
    /\ download[c] # Idle
    /\ Ends(c) /\ UNCHANGED <<known, entries, files, strays, revived>>

-----------------------------------------------------------------------------
(* Deletions.                                                              *)

\* Mutant: the file stays.
RemoveEntriesKeepFiles(gone) ==
    /\ entries' = [f \in Files |-> IF f \in gone THEN "none" ELSE entries[f]]
    /\ UNCHANGED files

\* delete, delete_file_only
RemoveEntries(gone) ==
    /\ entries' = [f \in Files |-> IF f \in gone THEN "none" ELSE entries[f]]
    /\ files' = files \ gone

\* Mutant: the project stays in the list.
DropLinks == links' = NoKey /\ revived' = FALSE /\ UNCHANGED known

DropProject == known' = FALSE /\ links' = NoKey /\ revived' = FALSE

\* del_pkg, del_entry: the project goes with the last file on disk, if there are links.
DelEntry(f) ==
    /\ exists /\ f \in files \cap Mapped
    /\ RemoveEntries({f})
    /\ IF links \in {NoKey, Cleared} \/ (Linked \ {f}) \cap files # {}
       THEN UNCHANGED <<known, links, revived>> ELSE DropProject
    /\ strays' = strays \ {f}
    /\ removed' = removed \cup {f}
    /\ UNCHANGED exists /\ UNCHANGED processes

\* del_versiondata: "only delete the files and keep the simple links for the possibility to
\* re-download a release".
DelVersion(v) ==
    /\ exists
    /\ files' = files \ {f \in Linked \cap Mapped : Version[f] = v}
    /\ strays' = strays \cap files'
    /\ UNCHANGED <<exists, known, links, entries, removed, revived>> /\ UNCHANGED processes

\* Mutant: the links stay.
DelProjectKeepsLinks ==
    LET gone == Linked \cap files IN
    /\ RemoveEntries(gone)
    /\ known' = FALSE /\ UNCHANGED <<links, revived>>
    /\ removed' = IF update = Idle THEN removed ELSE removed \cup (gone \cap update.links)

\* del_project: with the entries of the files on disk, which an update begun before will not
\* create again.
DelProject ==
    LET gone == Linked \cap files IN
    /\ RemoveEntries(gone)
    /\ DropProject
    /\ removed' = IF update = Idle THEN removed ELSE removed \cup (gone \cap update.links)

DelKnownProject ==
    /\ exists /\ links # NoKey
    /\ DelProject
    /\ strays' = strays \cap files'
    /\ UNCHANGED exists /\ UNCHANGED processes

\* index_delete, delete: an error if the project has no links.  Files which are not linked any
\* more stay.
DeleteIndex ==
    /\ exists /\ exists' = FALSE
    /\ IF known THEN links # NoKey /\ DelProject
       ELSE UNCHANGED <<known, links, entries, files, removed, revived>>
    /\ strays' = (strays \cap files') \cup (files \ Linked)
    /\ UNCHANGED processes

\* index_create
CreateIndex ==
    /\ ~exists /\ exists' = TRUE
    /\ UNCHANGED <<known, links, entries, files>> /\ UNCHANGED processes
    /\ UNCHANGED history

MFNext ==
    \/ PageChanges \/ UpdateBegins \/ UpdateEnds \/ UpdateChangesNothing \/ SimpleRefresh
    \/ \E c \in Clients : Request(c) \/ Store(c) \/ PutBack(c) \/ DownloadFails(c)
    \/ \E f \in Files : DelEntry(f) \/ DelVersion(Version[f])
    \/ DelKnownProject \/ DeleteIndex \/ CreateIndex

MFSpec == MFInit /\ [][MFNext]_mfvars

-----------------------------------------------------------------------------
(* Properties.                                                             *)

MFTypeOK ==
    /\ exists \in BOOLEAN /\ known \in BOOLEAN /\ revived \in BOOLEAN
    /\ links \in (SUBSET Files) \cup {NoKey, Cleared}
    \* mapped: without the file so far; bare: of a file alone
    /\ entries \in [Files -> {"none", "mapped", "stored", "bare"}]
    /\ files \in SUBSET Files
    /\ download \in [Clients -> {Idle} \cup [file : Files, entry : {"mapped", "stored"}]]
    /\ update \in {Idle} \cup [links : SUBSET Files]
    /\ page \in SUBSET Files
    /\ strays \in SUBSET Files /\ removed \in SUBSET Files

\* A file on disk has an entry which its index can delete it by, unless a download has ended
\* after the deletion of the entry, or the index was deleted when the file was no longer
\* linked (del_entry, del_project, delete, iter_cache_remote_file).
FilesCanBeDeleted ==
    \A f \in files \ strays : exists /\ f \in Mapped

\* A file which is linked has an entry, so that it can be downloaded, unless the file was
\* deleted on its own, or its project while an update compared with the links from before
\* (_update_simplelinks, del_project).
LinksHaveEntry ==
    \A f \in Linked : entries[f] # "none" \/ f \in removed

\* A project in the list has links, unless a download has ended after its deletion
\* (add_project_name, _save_cache_links, del_project, del_entry).
KnownHasLinks == known => links # NoKey \/ revived

\* The invariants hold together with the same for the links an update has found, and with:
\* links are stored for projects of the list.
UpdateHasEntries ==
    update # Idle => \A f \in update.links : entries[f] # "none" \/ f \in removed

LinkedIsKnown == Linked # {} => known

MFIInv ==
    /\ MFTypeOK
    /\ FilesCanBeDeleted /\ LinksHaveEntry /\ KnownHasLinks
    /\ UpdateHasEntries /\ LinkedIsKnown

\* "When deleting a mirror, delete all it's data as well": del_project raises KeyError for a
\* project of the list which has no links, and the index cannot be deleted.
CanBeDeleted == known => links # NoKey

=============================================================================
