------------------------------ MODULE Library ------------------------------
(***************************************************************************)
(* The library of App.tsx: React's state and its copy on disk.             *)
(*                                                                         *)
(* React keeps the documents and folders in state.  Handlers change them   *)
(* with setDocs(prev => ...), whose updater also saves the result.  React  *)
(* calls an updater at once only when no update is queued, otherwise when  *)
(* it renders; so after setDocs the index may still be the old one.  When  *)
(* the component has rendered, its effects save what it shows.  Every      *)
(* handler and callback sees the docs of the render that made it.          *)
(*                                                                         *)
(* A folder is its name; Title serves for the names of both.  Ids are      *)
(* taken to be fresh (types.ts makes them from the time).                  *)
(***************************************************************************)
EXTENDS DocStore, FiniteSets

CONSTANTS
    NewDocs,    \* the documents that a scan or an import may make
    Scans,      \* the lists of pages that may be added
    OcrResult,  \* what the OCR queue may write for a document
    MaxPages,   \* bound on the pages that are added to a document
    MaxCalls,   \* bound on handlers that await something
    FramesAfterCommit,  \* animation frames come after queued updates are shown
    Events      \* the events besides the user's that a run allows

ASSUME LibraryAssumption ==
    /\ NewDocs \subseteq Doc
    /\ Scans \subseteq Seq(Page)
    /\ OcrResult \subseteq [ocrStatus : OcrStatus, ocrProgress : OcrProgress,
                            pages : Seq(Page)]
    /\ MaxPages \in Nat
    /\ MaxCalls \in Nat
    /\ FramesAfterCommit \in BOOLEAN
    /\ Events \subseteq {"background", "relaunch"}

VARIABLES
    store,          \* 'docs-index'
    folderStore,    \* 'folders-index'
    docs,           \* the state of the last render, which is what is shown
    folders,
    latestDocs,     \* the state with every queued update applied
    latestFolders,
    dirty,          \* the component has queued updates
    frames,         \* documents with requestAnimationFrame(enqueueDoc) pending
    adding,         \* calls of handleAddPages that await something
    cropping,       \* calls of handleApplyCrop that await something
    usedIds         \* ids given to documents, pages and folders

stored == <<store, folderStore>>
shown == <<docs, folders>>
latest == <<latestDocs, latestFolders, dirty>>
calls == <<adding, cropping>>
libvars == <<folderStore, shown, latest, frames, calls, usedIds>>
vars == <<store, libvars>>

IsFolderIndex(index) ==
    DOMAIN index \subseteq FolderId /\ index \in [DOMAIN index -> Title]

\* A call of handleAddPages: the document it adds to, as it was shown.
Adding == [doc : DocId, base : Doc]

Cropping == [doc : DocId, page : PageId]

PageIds(pages) == {pages[i].id : i \in DOMAIN pages}

-----------------------------------------------------------------------------
\* The indexes that setDocs(prev => { next; saveDocsIndex(next) }) may leave:
\* the updater runs at once or is queued.
Saved(next) == {store} \cup (IF dirty THEN {} ELSE {next})

Changed(next) == latestDocs' = next /\ dirty' = TRUE

SetDocs(next) == store' \in Saved(next) /\ Changed(next)

\* setFolders, in the same way.
SetFolders(next) ==
    /\ folderStore' \in {folderStore} \cup (IF dirty THEN {} ELSE {next})
    /\ latestFolders' = next
    /\ dirty' = TRUE

\* createFromScan after its awaits, and handleImport.
CreateDoc(d, doc) ==
    /\ d \notin usedIds
    /\ PageIds(doc.pages) \cap usedIds = {}
    /\ SetDocs(PutDoc(latestDocs, d, doc))
    /\ usedIds' = usedIds \cup {d} \cup PageIds(doc.pages)
    /\ frames' = frames \cup {d}
    /\ UNCHANGED <<folderStore, shown, latestFolders, calls>>

\* Mutated form: the documents that are shown, without d.
DeleteShownDoc(d) ==
    /\ d \in DOMAIN docs
    /\ SetDocs(RemoveDoc(docs, d))
    /\ UNCHANGED <<folderStore, shown, latestFolders, frames, calls, usedIds>>

\* deleteDoc, for a document that is shown.
DeleteDoc(d) ==
    /\ d \in DOMAIN docs
    /\ SetDocs(RemoveDoc(latestDocs, d))
    /\ UNCHANGED <<folderStore, shown, latestFolders, frames, calls, usedIds>>

\* renameDoc, handleRename.  This updater and those below map over the
\* documents, so for one that is deleted they change nothing.
RenameDoc(d, title) ==
    /\ d \in DOMAIN docs
    /\ SetDocs(UpdateDoc(latestDocs, d, [latestDocs[d] EXCEPT !.title = title]))
    /\ UNCHANGED <<folderStore, shown, latestFolders, frames, calls, usedIds>>

\* Mutated form: the page is emptied, not removed.
PageEmptied(pages, p) ==
    [i \in DOMAIN pages |-> IF pages[i].id = p THEN None ELSE pages[i]]

WithoutPage(pages, p) ==
    IF p \in PageIds(pages)
    THEN DropAt(pages, CHOOSE i \in DOMAIN pages : pages[i].id = p)
    ELSE pages

\* handleDeletePage.
DeletePage(d, p) ==
    /\ d \in DOMAIN docs
    /\ p \in PageIds(docs[d].pages)
    /\ SetDocs(UpdateDoc(latestDocs, d, [latestDocs[d] EXCEPT
                   !.pages = WithoutPage(latestDocs[d].pages, p)]))
    /\ UNCHANGED <<folderStore, shown, latestFolders, frames, calls, usedIds>>

\* handleApplyPageEdits changes how a page looks and calls enqueueDoc(d) in the
\* same step, with an index of Saved(Edited(...)): store' is left to that call.
WithLook(pages, p, look) ==
    [i \in DOMAIN pages |->
        IF pages[i].id = p THEN [pages[i] EXCEPT !.look = look] ELSE pages[i]]

Edited(d, p, look) ==
    UpdateDoc(latestDocs, d, [latestDocs[d] EXCEPT
        !.pages = WithLook(latestDocs[d].pages, p, look)])

EditPageButStore(d, p, look) ==
    /\ d \in DOMAIN docs
    /\ p \in PageIds(docs[d].pages)
    /\ Changed(Edited(d, p, look))
    /\ UNCHANGED <<folderStore, shown, latestFolders, frames, calls, usedIds>>

\* handleApplyCrop up to its await, and the edit it ends with, when the page or
\* the document may be gone.
StartCrop(d, p) ==
    /\ Cardinality(adding) + Cardinality(cropping) < MaxCalls
    /\ d \in DOMAIN docs
    /\ p \in PageIds(docs[d].pages)
    /\ cropping' = cropping \cup {[doc |-> d, page |-> p]}
    /\ UNCHANGED <<stored, shown, latest, frames, adding, usedIds>>

CropButStore(c, look) ==
    /\ c \in cropping
    /\ cropping' = cropping \ {c}
    /\ Changed(Edited(c.doc, c.page, look))
    /\ UNCHANGED <<folderStore, shown, latestFolders, frames, adding, usedIds>>

\* handleAddPages, called in a render that shows the document: it keeps that
\* render's copy of the document while it scans and copies files.
StartAddPages(d) ==
    /\ Cardinality(adding) + Cardinality(cropping) < MaxCalls
    /\ d \in DOMAIN docs
    /\ adding' = adding \cup {[doc |-> d, base |-> docs[d]]}
    /\ UNCHANGED <<stored, shown, latest, frames, cropping, usedIds>>

\* Its end: the copy with the new pages replaces the document.
AddPages(a, pages) ==
    /\ a \in adding
    /\ PageIds(pages) \cap usedIds = {}
    /\ Len(a.base.pages) + Len(pages) <= MaxPages
    /\ SetDocs(UpdateDoc(latestDocs, a.doc,
                         [a.base EXCEPT !.pages = a.base.pages \o pages]))
    /\ adding' = adding \ {a}
    /\ frames' = frames \cup {a.doc}
    /\ usedIds' = usedIds \cup PageIds(pages)
    /\ UNCHANGED <<folderStore, shown, latestFolders, cropping>>

\* Nothing was scanned, or copying a file failed.
GiveUp ==
    /\ \/ \E a \in adding : adding' = adding \ {a} /\ cropping' = cropping
       \/ \E c \in cropping : cropping' = cropping \ {c} /\ adding' = adding
    /\ UNCHANGED <<stored, shown, latest, frames, usedIds>>

-----------------------------------------------------------------------------
\* Mutated form: only storage is changed.
MoveStoredDoc(d, f) ==
    /\ d \in DOMAIN docs
    /\ f \in DOMAIN folders \cup DOMAIN latestFolders \cup {None}
    /\ store' = UpdateDoc(store, d, [store[d] EXCEPT !.folderId = f])
    /\ UNCHANGED <<folderStore, shown, latest, frames, calls, usedIds>>

\* moveDoc: storage first (moveDocToFolder), then the state, whose updater does
\* not save.  The library offers the folders it shows and one just created.
MoveDoc(d, f) ==
    /\ d \in DOMAIN docs
    /\ f \in DOMAIN folders \cup DOMAIN latestFolders \cup {None}
    /\ store' = UpdateDoc(store, d, [store[d] EXCEPT !.folderId = f])
    /\ Changed(UpdateDoc(latestDocs, d, [latestDocs[d] EXCEPT !.folderId = f]))
    /\ UNCHANGED <<folderStore, shown, latestFolders, frames, calls, usedIds>>

CreateFolder(f, name) ==
    /\ f \notin usedIds
    /\ SetFolders([x \in DOMAIN latestFolders \cup {f} |->
                      IF x = f THEN name ELSE latestFolders[x]])
    /\ usedIds' = usedIds \cup {f}
    /\ UNCHANGED <<store, shown, latestDocs, frames, calls>>

RenameFolder(f, name) ==
    /\ f \in DOMAIN folders
    /\ SetFolders(IF f \in DOMAIN latestFolders
                  THEN [latestFolders EXCEPT ![f] = name]
                  ELSE latestFolders)
    /\ UNCHANGED <<store, shown, latestDocs, frames, calls, usedIds>>

\* renameFolder(f, '__DELETE__'): its setDocs finds the update of the folders
\* queued, so it is queued too.
DeleteFolder(f) ==
    /\ f \in DOMAIN folders
    /\ SetFolders([x \in DOMAIN latestFolders \ {f} |-> latestFolders[x]])
    /\ latestDocs' = [d \in DOMAIN latestDocs |->
                         IF latestDocs[d].folderId = f
                         THEN [latestDocs[d] EXCEPT !.folderId = None]
                         ELSE latestDocs[d]]
    /\ UNCHANGED <<store, shown, frames, calls, usedIds>>

-----------------------------------------------------------------------------
\* Mutated form: the effects see the docs of the render before.
CommitSavesOld ==
    /\ dirty
    /\ docs' = latestDocs
    /\ folders' = latestFolders
    /\ store' = docs
    /\ folderStore' = folders
    /\ dirty' = FALSE
    /\ UNCHANGED <<latestDocs, latestFolders, frames, calls, usedIds>>

\* React applies the queued updates and renders, and the effects save what is
\* shown (the effect that is cleaned up has just saved the docs before).
Commit ==
    /\ dirty
    /\ docs' = latestDocs
    /\ folders' = latestFolders
    /\ store' = latestDocs
    /\ folderStore' = latestFolders
    /\ dirty' = FALSE
    /\ UNCHANGED <<latestDocs, latestFolders, frames, calls, usedIds>>

\* The app goes to the background: what is shown is saved.
Background ==
    /\ "background" \in Events
    /\ store' = docs
    /\ folderStore' = folders
    /\ UNCHANGED <<shown, latest, frames, calls, usedIds>>

\* The animation frame that calls enqueueDoc(d).
FrameFires(d) ==
    /\ d \in frames
    /\ FramesAfterCommit => ~dirty
    /\ frames' = frames \ {d}
    /\ UNCHANGED <<folderStore, shown, latest, calls, usedIds>>

\* The process dies and is launched again: the state is read from storage.
Relaunch ==
    /\ "relaunch" \in Events
    /\ docs' = store
    /\ folders' = folderStore
    /\ latestDocs' = store
    /\ latestFolders' = folderStore
    /\ dirty' = FALSE
    /\ frames' = {}
    /\ adding' = {}
    /\ cropping' = {}
    /\ UNCHANGED <<stored, usedIds>>

NoEntries == [x \in {} |-> None]

Init ==
    /\ store = NoEntries /\ folderStore = NoEntries
    /\ docs = NoEntries /\ folders = NoEntries
    /\ latestDocs = NoEntries /\ latestFolders = NoEntries
    /\ dirty = FALSE
    /\ frames = {} /\ adding = {} /\ cropping = {} /\ usedIds = {}

\* The user's steps, except the two that call enqueueDoc.
UserStep ==
    \/ \E d \in DocId, doc \in NewDocs : CreateDoc(d, doc)
    \/ \E d \in DocId : DeleteDoc(d) \/ StartAddPages(d)
    \/ \E d \in DocId, title \in Title : RenameDoc(d, title)
    \/ \E d \in DocId, p \in PageId : DeletePage(d, p) \/ StartCrop(d, p)
    \/ \E a \in adding, pages \in Scans : AddPages(a, pages)
    \/ GiveUp
    \/ \E d \in DocId, f \in FolderId \cup {None} : MoveDoc(d, f)
    \/ \E f \in FolderId, name \in Title : CreateFolder(f, name) \/ RenameFolder(f, name)
    \/ \E f \in FolderId : DeleteFolder(f)

-----------------------------------------------------------------------------
\* The library beside a queue that may write any result at any time.
EditPage(d, p, look) ==
    EditPageButStore(d, p, look) /\ store' \in Saved(Edited(d, p, look))

Crop(c, look) ==
    CropButStore(c, look) /\ store' \in Saved(Edited(c.doc, c.page, look))

Frame(d) == FrameFires(d) /\ store' = store

OcrWrites(d) ==
    /\ \E r \in OcrResult :
          store' = UpdateDoc(store, d, [store[d] EXCEPT
              !.ocrStatus = r.ocrStatus, !.ocrProgress = r.ocrProgress,
              !.pages = r.pages])
    /\ UNCHANGED libvars

Next ==
    \/ UserStep
    \/ \E d \in DocId, p \in PageId, look \in Look : EditPage(d, p, look)
    \/ \E c \in cropping, look \in Look : Crop(c, look)
    \/ Commit
    \/ Background
    \/ \E d \in DocId : Frame(d)
    \/ \E d \in DocId : OcrWrites(d)
    \/ Relaunch

Spec == Init /\ [][Next]_vars

-----------------------------------------------------------------------------
TypeOK ==
    /\ IsIndex(store) /\ IsIndex(docs) /\ IsIndex(latestDocs)
    /\ IsFolderIndex(folderStore)
    /\ IsFolderIndex(folders) /\ IsFolderIndex(latestFolders)
    /\ dirty \in BOOLEAN
    /\ frames \subseteq DocId
    /\ adding \subseteq Adding
    /\ cropping \subseteq Cropping
    /\ usedIds \subseteq DocId \cup PageId \cup FolderId

\* Once every update is shown, storage holds the documents and folders that
\* are shown, with their names, folders and kind, whatever came between: saves
\* of old renders, moves that write storage first, writes of the OCR queue
\* ("Save data whenever it changes to ensure persistence").
SettledMatches ==
    ~dirty =>
        /\ DOMAIN store = DOMAIN docs
        /\ \A d \in DOMAIN docs :
              /\ store[d].title = docs[d].title
              /\ store[d].folderId = docs[d].folderId
              /\ store[d].isPdf = docs[d].isPdf
        /\ folderStore = folders

\* No step, a relaunch included, makes a document vanish that is shown and not
\* deleted, or brings one back whose deletion has been shown, although storage
\* is overwritten from old renders.
Durable ==
    [][/\ DOMAIN docs \cap DOMAIN latestDocs \subseteq DOMAIN docs'
       /\ DOMAIN docs' \subseteq DOMAIN docs \cup DOMAIN latestDocs]_vars
=============================================================================
