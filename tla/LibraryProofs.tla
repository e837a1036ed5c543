--------------------------- MODULE LibraryProofs ---------------------------
(***************************************************************************)
(* Proofs about Library, for every set of documents, pages and folders,    *)
(* whatever the OCR queue writes beside it.                                *)
(***************************************************************************)
EXTENDS Library, DocStoreProofs

USE NoneAssumption, LibraryAssumption

-----------------------------------------------------------------------------
(* What stays the same.                                                    *)

\* A step of Next is one of these; each handler that changes documents does it
\* through SetDocs or Changed.
LEMMA NextSteps ==
    ASSUME Next
    PROVE  \/ \E d \in DocId, doc \in NewDocs : CreateDoc(d, doc)
           \/ \E d \in DocId : DeleteDoc(d)
           \/ \E d \in DocId : StartAddPages(d)
           \/ \E d \in DocId, title \in Title : RenameDoc(d, title)
           \/ \E d \in DocId, p \in PageId : DeletePage(d, p)
           \/ \E d \in DocId, p \in PageId : StartCrop(d, p)
           \/ \E a \in adding, pages \in Scans : AddPages(a, pages)
           \/ GiveUp
           \/ \E d \in DocId, f \in FolderId \cup {None} : MoveDoc(d, f)
           \/ \E f \in FolderId, name \in Title : CreateFolder(f, name)
           \/ \E f \in FolderId, name \in Title : RenameFolder(f, name)
           \/ \E f \in FolderId : DeleteFolder(f)
           \/ \E d \in DocId, p \in PageId, look \in Look : EditPage(d, p, look)
           \/ \E c \in cropping, look \in Look : Crop(c, look)
           \/ Commit
           \/ Background
           \/ \E d \in DocId : Frame(d)
           \/ \E d \in DocId : OcrWrites(d)
           \/ Relaunch
BY DEF Next, UserStep

-----------------------------------------------------------------------------
(* Durability: the documents of storage lie between those that are shown   *)
(* and will stay and those that are shown or will be.                      *)

\* The ids of documents are used, so a new document is never one that is shown.
IdsUsed == DOMAIN docs \cup DOMAIN latestDocs \subseteq usedIds

\* What a relaunch would show.
StoredBetween ==
    /\ DOMAIN docs \cap DOMAIN latestDocs \subseteq DOMAIN store
    /\ DOMAIN store \subseteq DOMAIN docs \cup DOMAIN latestDocs

DurableInv == IdsUsed /\ StoredBetween

\* Durable as a step.
Kept ==
    /\ DOMAIN docs \cap DOMAIN latestDocs \subseteq DOMAIN docs'
    /\ DOMAIN docs' \subseteq DOMAIN docs \cup DOMAIN latestDocs

\* setDocs, when it brings back no document that is shown and removes no other.
LEMMA SetDocsDurable ==
    ASSUME DurableInv, NEW next, SetDocs(next),
           docs' = docs, usedIds \subseteq usedIds', DOMAIN next \subseteq usedIds',
           DOMAIN docs \cap DOMAIN next \subseteq DOMAIN latestDocs,
           DOMAIN latestDocs \subseteq DOMAIN docs \cup DOMAIN next
    PROVE  DurableInv' /\ Kept
<1>1. latestDocs' = next /\ (store' = store \/ store' = next)
  BY DEF SetDocs, Saved, Changed
<1>2. QED
  BY <1>1 DEF DurableInv, IdsUsed, StoredBetween, Kept

\* A step that shows the same documents and leaves every index its documents.
LEMMA SameDocsDurable ==
    ASSUME DurableInv, docs' = docs, DOMAIN store' = DOMAIN store,
           DOMAIN latestDocs' = DOMAIN latestDocs, usedIds \subseteq usedIds'
    PROVE  DurableInv' /\ Kept
BY DEF DurableInv, IdsUsed, StoredBetween, Kept

LEMMA DurableStep == DurableInv /\ [Next]_vars => DurableInv' /\ Kept
<1> SUFFICES ASSUME DurableInv, [Next]_vars
             PROVE  DurableInv' /\ Kept
  OBVIOUS
<1>1. ASSUME NEW d \in DocId, NEW doc \in NewDocs, CreateDoc(d, doc)
      PROVE  DurableInv' /\ Kept
  <2>1. DOMAIN PutDoc(latestDocs, d, doc) = DOMAIN latestDocs \cup {d}
    BY IndexDomains
  <2>2. d \notin DOMAIN docs
    BY <1>1 DEF CreateDoc, DurableInv, IdsUsed
  <2>3. usedIds \subseteq usedIds' /\ d \in usedIds'
    BY <1>1 DEF CreateDoc
  <2>4. QED
    BY <1>1, <2>1, <2>2, <2>3, SetDocsDurable
       DEF CreateDoc, DurableInv, IdsUsed, shown
<1>2. ASSUME NEW d \in DocId, DeleteDoc(d)
      PROVE  DurableInv' /\ Kept
  <2>1. DOMAIN RemoveDoc(latestDocs, d) = DOMAIN latestDocs \ {d}
    BY IndexDomains
  <2>2. QED
    BY <1>2, <2>1, SetDocsDurable DEF DeleteDoc, DurableInv, IdsUsed, shown
<1>3. ASSUME NEW d, NEW doc, SetDocs(UpdateDoc(latestDocs, d, doc)),
             docs' = docs, usedIds \subseteq usedIds'
      PROVE  DurableInv' /\ Kept
  <2>1. DOMAIN UpdateDoc(latestDocs, d, doc) = DOMAIN latestDocs
    BY IndexDomains
  <2>2. QED
    BY <1>3, <2>1, SetDocsDurable DEF DurableInv, IdsUsed
<1>4. ASSUME NEW d \in DocId, NEW title \in Title, RenameDoc(d, title)
      PROVE  DurableInv' /\ Kept
  BY <1>3, <1>4 DEF RenameDoc, shown
<1>5. ASSUME NEW d \in DocId, NEW p \in PageId, DeletePage(d, p)
      PROVE  DurableInv' /\ Kept
  BY <1>3, <1>5 DEF DeletePage, shown
<1>6. ASSUME NEW a \in adding, NEW pages \in Scans, AddPages(a, pages)
      PROVE  DurableInv' /\ Kept
  BY <1>3, <1>6 DEF AddPages, shown
<1>7. ASSUME NEW d \in DocId, NEW p \in PageId, NEW look \in Look,
             EditPage(d, p, look)
      PROVE  DurableInv' /\ Kept
  BY <1>3, <1>7 DEF EditPage, EditPageButStore, Edited, SetDocs, shown
<1>8. ASSUME NEW c \in cropping, NEW look \in Look, Crop(c, look)
      PROVE  DurableInv' /\ Kept
  BY <1>3, <1>8 DEF Crop, CropButStore, Edited, SetDocs, shown
<1>9. ASSUME NEW d \in DocId, NEW f \in FolderId \cup {None}, MoveDoc(d, f)
      PROVE  DurableInv' /\ Kept
  <2>1. /\ \E doc : store' = UpdateDoc(store, d, doc)
        /\ \E doc : latestDocs' = UpdateDoc(latestDocs, d, doc)
    BY <1>9, Zenon DEF MoveDoc, Changed
  <2>2. DOMAIN store' = DOMAIN store /\ DOMAIN latestDocs' = DOMAIN latestDocs
    BY <2>1 DEF UpdateDoc
  <2>3. QED
    BY <1>9, <2>2, SameDocsDurable DEF MoveDoc, shown
<1>10. ASSUME NEW f \in FolderId, DeleteFolder(f)
       PROVE  DurableInv' /\ Kept
  <2>1. DOMAIN latestDocs' = DOMAIN latestDocs
    BY <1>10 DEF DeleteFolder
  <2>2. QED
    BY <1>10, <2>1, SameDocsDurable DEF DeleteFolder, shown
<1>11. ASSUME NEW f \in FolderId, NEW name \in Title,
              CreateFolder(f, name) \/ RenameFolder(f, name)
       PROVE  DurableInv' /\ Kept
  BY <1>11, SameDocsDurable DEF CreateFolder, RenameFolder, shown
<1>12. ASSUME NEW d \in DocId, StartAddPages(d) \/ Frame(d)
       PROVE  DurableInv' /\ Kept
  BY <1>12, SameDocsDurable
     DEF StartAddPages, Frame, FrameFires, stored, shown, latest
<1>13. ASSUME NEW d \in DocId, NEW p \in PageId, StartCrop(d, p)
       PROVE  DurableInv' /\ Kept
  BY <1>13, SameDocsDurable DEF StartCrop, stored, shown, latest
<1>14. ASSUME NEW d \in DocId, OcrWrites(d)
       PROVE  DurableInv' /\ Kept
  <2>1. \E doc : store' = UpdateDoc(store, d, doc)
    BY <1>14, Zenon DEF OcrWrites
  <2>2. DOMAIN store' = DOMAIN store
    BY <2>1 DEF UpdateDoc
  <2>3. QED
    BY <1>14, <2>2, SameDocsDurable DEF OcrWrites, libvars, shown, latest
<1>15. CASE GiveUp
  BY <1>15, SameDocsDurable DEF GiveUp, stored, shown, latest
<1>16. CASE Commit
  BY <1>16 DEF Commit, DurableInv, IdsUsed, StoredBetween, Kept
<1>17. CASE Background
  BY <1>17 DEF Background, DurableInv, IdsUsed, StoredBetween, Kept, shown, latest
<1>18. CASE Relaunch
  BY <1>18 DEF Relaunch, DurableInv, IdsUsed, StoredBetween, Kept, stored
<1>19. CASE UNCHANGED vars
  BY <1>19, SameDocsDurable DEF vars, libvars, shown, latest
<1>20. QED
  BY <1>1, <1>2, <1>4, <1>5, <1>6, <1>7, <1>8, <1>9, <1>10, <1>11, <1>12, <1>13,
     <1>14, <1>15, <1>16, <1>17, <1>18, <1>19, NextSteps

LEMMA DurableInit == Init => DurableInv
BY DEF Init, NoEntries, DurableInv, IdsUsed, StoredBetween

\* No step loses a document that is shown and stays, or brings one back.
THEOREM NothingLost == Spec => Durable
<1>1. DurableInv /\ [Next]_vars => DurableInv' /\ [Kept]_vars
  BY DurableStep
<1>2. Durable <=> [][Kept]_vars
  BY PTL DEF Durable, Kept
<1>3. QED
  BY DurableInit, <1>1, <1>2, PTL DEF Spec

-----------------------------------------------------------------------------
(* Types.                                                                  *)

LEMMA PageIdsType ==
    ASSUME NEW pages \in Seq(Page)
    PROVE  PageIds(pages) \subseteq PageId
<1>1. \A i \in DOMAIN pages : pages[i] \in Page
  OBVIOUS
<1>2. \A i \in DOMAIN pages : pages[i].id \in PageId
  BY <1>1 DEF Page
<1>3. QED
  BY <1>2 DEF PageIds

LEMMA WithoutPageType ==
    ASSUME NEW pages \in Seq(Page), NEW p
    PROVE  WithoutPage(pages, p) \in Seq(Page)
<1>1. CASE p \notin PageIds(pages)
  BY <1>1 DEF WithoutPage
<1>2. CASE p \in PageIds(pages)
  <2> DEFINE at == CHOOSE i \in DOMAIN pages : pages[i].id = p
  <2>1. at \in DOMAIN pages
    BY <1>2 DEF PageIds
  <2>2. WithoutPage(pages, p) = DropAt(pages, at)
    BY <1>2 DEF WithoutPage
  <2> HIDE DEF at
  <2>3. QED
    BY <2>1, <2>2, DropAtType
<1>3. QED
  BY <1>1, <1>2

LEMMA WithLookType ==
    ASSUME NEW pages \in Seq(Page), NEW p, NEW look \in Look
    PROVE  WithLook(pages, p, look) \in Seq(Page)
<1> DEFINE new(q) == IF q.id = p THEN [q EXCEPT !.look = look] ELSE q
<1>1. Len(pages) \in Nat /\ DOMAIN pages = 1 .. Len(pages)
  OBVIOUS
<1>2. \A q \in Page : new(q) \in Page
  BY DEF Page
<1>3. WithLook(pages, p, look) = [i \in DOMAIN pages |-> new(pages[i])]
  BY DEF WithLook
<1> HIDE DEF new
<1>4. WithLook(pages, p, look) \in [1 .. Len(pages) -> Page]
  BY <1>1, <1>2, <1>3
<1>5. QED
  BY <1>1, <1>4

LEMMA ConcatType ==
    ASSUME NEW doc \in Doc, NEW pages \in Scans
    PROVE  [doc EXCEPT !.pages = doc.pages \o pages] \in Doc
<1>1. doc.pages \o pages \in Seq(Page)
  BY DEF Doc
<1>2. QED
  BY <1>1, SetPagesType

LEMMA EditedType ==
    ASSUME TypeOK, NEW d \in DocId, NEW p, NEW look \in Look
    PROVE  IsIndex(Edited(d, p, look))
<1> DEFINE doc == [latestDocs[d] EXCEPT !.pages = WithLook(latestDocs[d].pages, p, look)]
<1>1. ASSUME d \in DOMAIN latestDocs
      PROVE  doc \in Doc
  <2>1. latestDocs[d] \in Doc /\ latestDocs[d].pages \in Seq(Page)
    BY <1>1 DEF TypeOK, IsIndex, Doc
  <2>2. QED
    BY <2>1, WithLookType, SetPagesType
<1>2. Edited(d, p, look) = UpdateDoc(latestDocs, d, doc)
  BY DEF Edited
<1>3. IsIndex(latestDocs)
  BY DEF TypeOK
<1> HIDE DEF doc
<1>4. QED
  BY <1>1, <1>2, <1>3, UpdateDocType

\* A step of setDocs keeps the types when it keeps those of the rest.
LEMMA SetDocsType ==
    ASSUME TypeOK, NEW next, IsIndex(next), SetDocs(next)
    PROVE  IsIndex(store') /\ IsIndex(latestDocs') /\ dirty' \in BOOLEAN
<1>1. (store' = store \/ store' = next) /\ latestDocs' = next /\ dirty' = TRUE
  BY DEF SetDocs, Saved, Changed
<1>2. QED
  BY <1>1 DEF TypeOK

LEMMA SetFoldersType ==
    ASSUME TypeOK, NEW next, IsFolderIndex(next), SetFolders(next)
    PROVE  IsFolderIndex(folderStore') /\ IsFolderIndex(latestFolders')
           /\ dirty' \in BOOLEAN
<1>1. /\ folderStore' = folderStore \/ folderStore' = next
      /\ latestFolders' = next /\ dirty' = TRUE
  BY DEF SetFolders
<1>2. QED
  BY <1>1 DEF TypeOK

\* A step that leaves folders, frames and calls alone.
LEMMA DocsOnlyType ==
    ASSUME TypeOK, IsIndex(store'), IsIndex(latestDocs'), dirty' \in BOOLEAN,
           UNCHANGED <<folderStore, shown, latestFolders, frames, calls, usedIds>>
    PROVE  TypeOK'
BY DEF TypeOK, shown, calls

LEMMA NextTypeOK == TypeOK /\ [Next]_vars => TypeOK'
<1> SUFFICES ASSUME TypeOK, [Next]_vars
             PROVE  TypeOK'
  OBVIOUS
<1> USE DEF shown, latest, stored, calls
<1>1. ASSUME NEW d \in DocId, NEW doc \in NewDocs, CreateDoc(d, doc)
      PROVE  TypeOK'
  <2>1. doc \in Doc /\ IsIndex(latestDocs)
    BY DEF TypeOK
  <2>2. IsIndex(PutDoc(latestDocs, d, doc))
    BY <2>1, PutDocType
  <2>3. SetDocs(PutDoc(latestDocs, d, doc))
    BY <1>1 DEF CreateDoc
  <2>4. IsIndex(store') /\ IsIndex(latestDocs') /\ dirty' \in BOOLEAN
    BY <2>2, <2>3, SetDocsType
  <2>5. PageIds(doc.pages) \subseteq PageId
    BY <2>1, PageIdsType DEF Doc
  <2>6. QED
    BY <1>1, <2>4, <2>5 DEF CreateDoc, TypeOK
<1>2. ASSUME NEW d \in DocId, DeleteDoc(d)
      PROVE  TypeOK'
  <2>1. IsIndex(RemoveDoc(latestDocs, d))
    BY RemoveDocType DEF TypeOK
  <2>2. QED
    BY <1>2, <2>1, SetDocsType, DocsOnlyType DEF DeleteDoc
<1>3. ASSUME NEW d \in DocId, NEW doc, d \in DOMAIN latestDocs => doc \in Doc,
             SetDocs(UpdateDoc(latestDocs, d, doc))
      PROVE  IsIndex(store') /\ IsIndex(latestDocs') /\ dirty' \in BOOLEAN
  <2>1. IsIndex(UpdateDoc(latestDocs, d, doc))
    BY <1>3, UpdateDocType DEF TypeOK
  <2>2. QED
    BY <1>3, <2>1, SetDocsType
<1>4. \A d \in DOMAIN latestDocs : latestDocs[d] \in Doc
  BY DEF TypeOK, IsIndex
<1>5. ASSUME NEW d \in DocId, NEW title \in Title, RenameDoc(d, title)
      PROVE  TypeOK'
  <2> DEFINE doc == [latestDocs[d] EXCEPT !.title = title]
  <2>1. d \in DOMAIN latestDocs => doc \in Doc
    BY <1>4, SetTitleType
  <2>2. SetDocs(UpdateDoc(latestDocs, d, doc))
    BY <1>5 DEF RenameDoc
  <2> HIDE DEF doc
  <2>3. QED
    BY <1>3, <1>5, <2>1, <2>2, DocsOnlyType DEF RenameDoc
<1>6. ASSUME NEW d \in DocId, NEW p \in PageId, DeletePage(d, p)
      PROVE  TypeOK'
  <2> DEFINE doc == [latestDocs[d] EXCEPT !.pages = WithoutPage(latestDocs[d].pages, p)]
  <2>1. ASSUME d \in DOMAIN latestDocs
        PROVE  doc \in Doc
    <3>1. latestDocs[d].pages \in Seq(Page)
      BY <1>4, <2>1 DEF Doc
    <3>2. QED
      BY <1>4, <2>1, <3>1, WithoutPageType, SetPagesType
  <2>2. SetDocs(UpdateDoc(latestDocs, d, doc))
    BY <1>6 DEF DeletePage
  <2> HIDE DEF doc
  <2>3. QED
    BY <1>3, <1>6, <2>1, <2>2, DocsOnlyType DEF DeletePage
<1>7. ASSUME NEW d \in DocId, NEW p \in PageId, NEW look \in Look,
             EditPage(d, p, look)
      PROVE  TypeOK'
  BY <1>7, EditedType, SetDocsType, DocsOnlyType
     DEF EditPage, EditPageButStore, SetDocs
<1>8. ASSUME NEW c \in cropping, NEW look \in Look, Crop(c, look)
      PROVE  TypeOK'
  <2>1. c.doc \in DocId
    BY DEF TypeOK, Cropping
  <2>2. SetDocs(Edited(c.doc, c.page, look))
    BY <1>8 DEF Crop, CropButStore, SetDocs
  <2>3. IsIndex(store') /\ IsIndex(latestDocs') /\ dirty' \in BOOLEAN
    BY <2>1, <2>2, EditedType, SetDocsType
  <2>4. QED
    BY <1>8, <2>3 DEF Crop, CropButStore, TypeOK
<1>9. ASSUME NEW a \in adding, NEW pages \in Scans, AddPages(a, pages)
      PROVE  TypeOK'
  <2> DEFINE doc == [a.base EXCEPT !.pages = a.base.pages \o pages]
  <2>1. a.doc \in DocId /\ a.base \in Doc
    BY DEF TypeOK, Adding
  <2>2. doc \in Doc
    BY <2>1, ConcatType
  <2>3. SetDocs(UpdateDoc(latestDocs, a.doc, doc))
    BY <1>9 DEF AddPages
  <2> HIDE DEF doc
  <2>4. IsIndex(store') /\ IsIndex(latestDocs') /\ dirty' \in BOOLEAN
    BY <1>3, <2>1, <2>2, <2>3
  <2>5. PageIds(pages) \subseteq PageId
    BY PageIdsType
  <2>6. QED
    BY <1>9, <2>1, <2>4, <2>5 DEF AddPages, TypeOK
<1>10. ASSUME NEW d \in DocId, NEW f \in FolderId \cup {None}, MoveDoc(d, f)
       PROVE  TypeOK'
  <2>1. ASSUME NEW s, IsIndex(s)
        PROVE  IsIndex(UpdateDoc(s, d, [s[d] EXCEPT !.folderId = f]))
    <3> DEFINE doc == [s[d] EXCEPT !.folderId = f]
    <3>1. d \in DOMAIN s => doc \in Doc
      BY <2>1, SetFolderType DEF IsIndex
    <3> HIDE DEF doc
    <3>2. IsIndex(UpdateDoc(s, d, doc))
      BY <2>1, <3>1, UpdateDocType
    <3>3. QED
      BY <3>2 DEF doc
  <2>2. IsIndex(UpdateDoc(store, d, [store[d] EXCEPT !.folderId = f]))
    BY <2>1 DEF TypeOK
  <2>3. IsIndex(UpdateDoc(latestDocs, d, [latestDocs[d] EXCEPT !.folderId = f]))
    BY <2>1 DEF TypeOK
  <2>4. IsIndex(store') /\ IsIndex(latestDocs') /\ dirty' \in BOOLEAN
    BY <1>10, <2>2, <2>3 DEF MoveDoc, Changed
  <2>5. QED
    BY <1>10, <2>4, DocsOnlyType DEF MoveDoc
<1>11. ASSUME NEW f \in FolderId, NEW name \in Title, CreateFolder(f, name)
       PROVE  TypeOK'
  <2> DEFINE next == [x \in DOMAIN latestFolders \cup {f} |->
                         IF x = f THEN name ELSE latestFolders[x]]
  <2>1. IsFolderIndex(next)
    BY DEF TypeOK, IsFolderIndex
  <2>2. SetFolders(next)
    BY <1>11 DEF CreateFolder
  <2> HIDE DEF next
  <2>3. QED
    BY <1>11, <2>1, <2>2, SetFoldersType DEF CreateFolder, TypeOK
<1>12. ASSUME NEW f \in FolderId, NEW name \in Title, RenameFolder(f, name)
       PROVE  TypeOK'
  <2> DEFINE next == IF f \in DOMAIN latestFolders
                     THEN [latestFolders EXCEPT ![f] = name]
                     ELSE latestFolders
  <2>1. IsFolderIndex(next)
    BY DEF TypeOK, IsFolderIndex
  <2>2. SetFolders(next)
    BY <1>12 DEF RenameFolder
  <2> HIDE DEF next
  <2>3. QED
    BY <1>12, <2>1, <2>2, SetFoldersType DEF RenameFolder, TypeOK
<1>13. ASSUME NEW f \in FolderId, DeleteFolder(f)
       PROVE  TypeOK'
  <2> DEFINE next == [x \in DOMAIN latestFolders \ {f} |-> latestFolders[x]]
  <2>1. IsFolderIndex(next)
    BY DEF TypeOK, IsFolderIndex
  <2>2. SetFolders(next)
    BY <1>13 DEF DeleteFolder
  <2> HIDE DEF next
  <2> DEFINE new(doc) == IF doc.folderId = f THEN [doc EXCEPT !.folderId = None] ELSE doc
  <2>3. \A doc \in Doc : new(doc) \in Doc
    BY SetFolderType
  <2>4. latestDocs' = [d \in DOMAIN latestDocs |-> new(latestDocs[d])]
    BY <1>13 DEF DeleteFolder
  <2> HIDE DEF new
  <2>5. IsIndex(latestDocs')
    BY <1>4, <2>3, <2>4 DEF TypeOK, IsIndex
  <2>6. QED
    BY <1>13, <2>1, <2>2, <2>5, SetFoldersType DEF DeleteFolder, TypeOK
<1>14. ASSUME NEW d \in DocId, StartAddPages(d)
       PROVE  TypeOK'
  <2>1. docs[d] \in Doc
    BY <1>14 DEF StartAddPages, TypeOK, IsIndex
  <2>2. QED
    BY <1>14, <2>1 DEF StartAddPages, TypeOK, Adding
<1>15. ASSUME NEW d \in DocId, NEW p \in PageId, StartCrop(d, p)
       PROVE  TypeOK'
  BY <1>15 DEF StartCrop, TypeOK, Cropping
<1>16. CASE GiveUp
  BY <1>16 DEF GiveUp, TypeOK
<1>17. CASE Commit
  BY <1>17 DEF Commit, TypeOK
<1>18. CASE Background
  BY <1>18 DEF Background, TypeOK
<1>19. ASSUME NEW d \in DocId, Frame(d)
       PROVE  TypeOK'
  BY <1>19 DEF Frame, FrameFires, TypeOK
<1>20. ASSUME NEW d \in DocId, OcrWrites(d)
       PROVE  TypeOK'
  <2>1. PICK r \in OcrResult :
          store' = UpdateDoc(store, d, [store[d] EXCEPT
              !.ocrStatus = r.ocrStatus, !.ocrProgress = r.ocrProgress,
              !.pages = r.pages])
    BY <1>20 DEF OcrWrites
  <2> DEFINE doc == [store[d] EXCEPT !.ocrStatus = r.ocrStatus,
                                     !.ocrProgress = r.ocrProgress, !.pages = r.pages]
  <2>2. /\ r.ocrStatus \in OcrStatus /\ r.ocrProgress \in OcrProgress
        /\ r.pages \in Seq(Page)
    OBVIOUS
  <2>3. ASSUME d \in DOMAIN store
        PROVE  doc \in Doc
    <3>1. store[d] \in Doc
      BY <2>3 DEF TypeOK, IsIndex
    <3>2. QED
      BY <2>2, <3>1 DEF Doc
  <2>4. store' = UpdateDoc(store, d, doc)
    BY <2>1
  <2> HIDE DEF doc
  <2>5. IsIndex(store')
    BY <2>3, <2>4, UpdateDocType DEF TypeOK
  <2>6. QED
    BY <1>20, <2>5 DEF OcrWrites, libvars, TypeOK
<1>21. CASE Relaunch
  BY <1>21 DEF Relaunch, TypeOK
<1>22. CASE UNCHANGED vars
  BY <1>22 DEF vars, libvars, TypeOK
<1>23. QED
  BY <1>1, <1>2, <1>5, <1>6, <1>7, <1>8, <1>9, <1>10, <1>11, <1>12, <1>13, <1>14,
     <1>15, <1>16, <1>17, <1>18, <1>19, <1>20, <1>21, <1>22, NextSteps

\* Every index and every copy of one keeps its type.
THEOREM LibraryTypes == Spec => []TypeOK
<1>1. Init => TypeOK
  BY DEF Init, NoEntries, TypeOK, IsIndex, IsFolderIndex
<1>2. QED
  BY <1>1, NextTypeOK, PTL DEF Spec

-----------------------------------------------------------------------------
(* What storage holds when every update is shown.                          *)

LEMMA SettledStep == TypeOK /\ SettledMatches /\ [Next]_vars => SettledMatches'
<1> SUFFICES ASSUME TypeOK, SettledMatches, [Next]_vars
             PROVE  SettledMatches'
  OBVIOUS
<1> USE DEF shown, latest, stored
\* An update is queued afterwards, so nothing is claimed.
<1>1. ASSUME dirty' = TRUE
      PROVE  SettledMatches'
  BY <1>1 DEF SettledMatches
<1>2. ASSUME NEW next, SetDocs(next) \/ Changed(next) \/ SetFolders(next)
      PROVE  SettledMatches'
  BY <1>1, <1>2 DEF SetDocs, Changed, SetFolders
<1>3. ASSUME NEW d \in DocId, NEW doc \in NewDocs, CreateDoc(d, doc)
      PROVE  SettledMatches'
  BY <1>2, <1>3 DEF CreateDoc
<1>4. ASSUME NEW d \in DocId, DeleteDoc(d)
      PROVE  SettledMatches'
  BY <1>2, <1>4 DEF DeleteDoc
<1>5. ASSUME NEW d \in DocId, NEW title \in Title, RenameDoc(d, title)
      PROVE  SettledMatches'
  BY <1>2, <1>5, Zenon DEF RenameDoc
<1>6. ASSUME NEW d \in DocId, NEW p \in PageId, DeletePage(d, p)
      PROVE  SettledMatches'
  BY <1>2, <1>6, Zenon DEF DeletePage
<1>7. ASSUME NEW d \in DocId, NEW p \in PageId, NEW look \in Look,
             EditPage(d, p, look)
      PROVE  SettledMatches'
  BY <1>2, <1>7 DEF EditPage, EditPageButStore
<1>8. ASSUME NEW c \in cropping, NEW look \in Look, Crop(c, look)
      PROVE  SettledMatches'
  BY <1>2, <1>8 DEF Crop, CropButStore
<1>9. ASSUME NEW a \in adding, NEW pages \in Scans, AddPages(a, pages)
      PROVE  SettledMatches'
  BY <1>2, <1>9, Zenon DEF AddPages
<1>10. ASSUME NEW d \in DocId, NEW f \in FolderId \cup {None}, MoveDoc(d, f)
       PROVE  SettledMatches'
  BY <1>2, <1>10, Zenon DEF MoveDoc
<1>11. ASSUME NEW f \in FolderId, NEW name \in Title,
              CreateFolder(f, name) \/ RenameFolder(f, name)
       PROVE  SettledMatches'
  BY <1>2, <1>11, Zenon DEF CreateFolder, RenameFolder
<1>12. ASSUME NEW f \in FolderId, DeleteFolder(f)
       PROVE  SettledMatches'
  BY <1>2, <1>12, Zenon DEF DeleteFolder
\* Storage and what is shown stay as they are.
<1>13. ASSUME UNCHANGED <<store, folderStore, docs, folders, dirty>>
       PROVE  SettledMatches'
  BY <1>13 DEF SettledMatches
<1>14. ASSUME NEW d \in DocId, StartAddPages(d) \/ Frame(d)
       PROVE  SettledMatches'
  BY <1>13, <1>14 DEF StartAddPages, Frame, FrameFires
<1>15. ASSUME NEW d \in DocId, NEW p \in PageId, StartCrop(d, p)
       PROVE  SettledMatches'
  BY <1>13, <1>15 DEF StartCrop
<1>16. CASE GiveUp
  BY <1>13, <1>16 DEF GiveUp
<1>17. CASE Commit
  BY <1>17 DEF Commit, SettledMatches
<1>18. CASE Background
  BY <1>18 DEF Background, SettledMatches
\* The queue keeps titles, folders and kinds.
<1>19. ASSUME NEW d \in DocId, OcrWrites(d)
       PROVE  SettledMatches'
  <2>1. PICK r \in OcrResult :
          store' = UpdateDoc(store, d, [store[d] EXCEPT
              !.ocrStatus = r.ocrStatus, !.ocrProgress = r.ocrProgress,
              !.pages = r.pages])
    BY <1>19 DEF OcrWrites
  <2> DEFINE doc == [store[d] EXCEPT !.ocrStatus = r.ocrStatus,
                                     !.ocrProgress = r.ocrProgress, !.pages = r.pages]
  <2>2. store' = UpdateDoc(store, d, doc)
    BY <2>1
  <2>3. ASSUME d \in DOMAIN store
        PROVE  /\ doc.title = store[d].title
               /\ doc.folderId = store[d].folderId
               /\ doc.isPdf = store[d].isPdf
    <3>1. store[d] \in Doc
      BY <2>3 DEF TypeOK, IsIndex
    <3>2. QED
      BY <3>1 DEF Doc
  <2> HIDE DEF doc
  <2>4. /\ DOMAIN store' = DOMAIN store
        /\ \A x \in DOMAIN store :
              /\ store'[x].title = store[x].title
              /\ store'[x].folderId = store[x].folderId
              /\ store'[x].isPdf = store[x].isPdf
    BY <2>2, <2>3 DEF UpdateDoc
  <2>5. UNCHANGED <<folderStore, docs, folders, dirty>>
    BY <1>19 DEF OcrWrites, libvars
  <2>6. QED
    BY <2>4, <2>5 DEF SettledMatches
<1>20. CASE Relaunch
  BY <1>20 DEF Relaunch, SettledMatches
<1>21. CASE UNCHANGED vars
  BY <1>13, <1>21 DEF vars, libvars
<1>22. QED
  BY <1>3, <1>4, <1>5, <1>6, <1>7, <1>8, <1>9, <1>10, <1>11, <1>12, <1>14, <1>15,
     <1>16, <1>17, <1>18, <1>19, <1>20, <1>21, NextSteps

\* Once every update is shown, storage holds what is shown: the same documents
\* under the same names and folders, and the same folders.
THEOREM SavedWhenShown == Spec => []SettledMatches
<1>1. Init => TypeOK /\ SettledMatches
  BY DEF Init, NoEntries, TypeOK, IsIndex, IsFolderIndex, SettledMatches
<1>2. TypeOK /\ SettledMatches /\ [Next]_vars => TypeOK' /\ SettledMatches'
  BY NextTypeOK, SettledStep
<1>3. QED
  BY <1>1, <1>2, PTL DEF Spec
=============================================================================
