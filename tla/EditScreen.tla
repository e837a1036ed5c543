----------------------------- MODULE EditScreen -----------------------------
(***************************************************************************)
(* The edit screen of one document, src/src/screens/EditDocumentScreen.tsx *)
(* and src/src/components/crop/CropModal.tsx: the draft of a rotation that *)
(* an effect sets and resets, the alerts, and the crop dialog with its two *)
(* native calls, which may answer in any order, after the dialog has been  *)
(* cancelled, opened again on another page, or torn down.                  *)
(*                                                                         *)
(* A handler's assignments and the effects of the render they cause are    *)
(* one step: React batches the former and flushes the latter before it     *)
(* handles the user's next event.  A callback carries what its closure     *)
(* captured.  pages is the document's pages in App's state; how they are   *)
(* stored, and the files, are in Library and PageFiles.                    *)
(***************************************************************************)
EXTENDS Integers, Sequences

CONSTANTS
    PageId,
    FirstPages, \* the document's pages when the screen first opens
    Scanned,    \* the pages that "Add Page" appends
    DetectId,   \* slots for detectQuad calls that have not answered
    CropId,     \* slots for crops
    MaxBegun,   \* bound on what the user begins: rotations, deletions, crop dialogs,
                \* added pages and visits, together
    None

Turn == {0, 90, 180, 270}

\* What a page shows: the picture taken, or the result of a crop.
Picture == {"taken"} \cup CropId

Page == [id : PageId, rotation : Turn, picture : Picture]

\* What CropModal's effect depends on: page.uri, page.width, page.height.
Image == PageId \X Picture

\* A crop that Save began: being computed, then being stored.
Crop == [step : {"crop", "store"}, page : PageId, of : Image,
         owner : {"modal", "screen", "left"}]

Distinct(ps) == \A i, j \in DOMAIN ps : ps[i].id = ps[j].id => i = j

\* newPage gives every page an id of its own.
ASSUME EditAssumption ==
    /\ FirstPages \in Seq(Page) /\ Distinct(FirstPages)
    /\ Scanned \in Seq(Page) /\ Distinct(Scanned)
    /\ MaxBegun \in Nat
    /\ None \notin PageId \cup Page \cup Image \cup Crop

VARIABLES
    pages,   \* doc.pages
    adding,  \* doc.pages as "Add Page" captured it, while the pages are copied
    begun,   \* how much the user has begun
    screen,  \* the screen's state; history: the page the draft was reset for, the
             \* presses of Rotate since, whether the pages have changed under it
    alert,   \* the alert that is shown, with what its buttons captured
    modal,   \* CropModal's state, with its detectQuad calls that have not answered;
             \* history: mixed, the last of them was begun while another waited
    crops    \* crops: unused, being computed, being stored

vars == <<pages, adding, begun, screen, alert, modal, crops>>

PageAt(ps, i) == IF i \in DOMAIN ps THEN ps[i] ELSE None
current == PageAt(pages, screen.index)

ImageOf(p) == <<p.id, p.picture>>

\* currentPage.rotation ?? 0
StoredRotation(p) == IF p = None THEN 0 ELSE p.rotation

\* s with its draft reset to the page p.
Reset(s, p) ==
    [s EXCEPT !.rotation = StoredRotation(p), !.dirty = FALSE,
              !.page = IF p = None THEN None ELSE p.id,
              !.turns = 0, !.shifted = FALSE]

\* The screen as it is mounted, at startIndex 0.
Opened ==
    LET blank == [viewMode |-> "single", selected |-> None, index |-> 1,
                  editMode |-> FALSE, rotation |-> 0, dirty |-> FALSE,
                  page |-> None, turns |-> 0, shifted |-> FALSE]
    IN  Reset(blank, PageAt(pages, 1))

\* CropModal as it is mounted; visible is the screen's cropModalVisible.
Mounted(visible) ==
    [visible |-> visible, loading |-> TRUE, quad |-> None, dirty |-> FALSE,
     applying |-> FALSE, calls |-> [s \in DetectId |-> None], mixed |-> FALSE]

Waiting(m) == \E s \in DetectId : m.calls[s] # None
-----------------------------------------------------------------------------
(* A render and its effects.                                               *)

\* Mutated form: the effect depends on the position only.
StaleOnMoveOnly(s) == s.index # screen.index

\* The dependencies of the draft's effect.
Stale(s) == s.index # screen.index \/ s.editMode # screen.editMode

\* Mutated form: the effect depends on visible only.
InitializesOnOpening(m, old, new) == m.visible /\ (old = None \/ ~modal.visible)

\* initialize() runs when the dialog is mounted or made visible, or when its page
\* shows another image.
Initializes(m, old, new) ==
    m.visible /\ \/ old = None \/ ~modal.visible
                 \/ ImageOf(old) # ImageOf(new)

\* The calls of a CropModal that is torn down answer to the screen that is left.
Orphaned(c, to) ==
    IF c # None /\ c.step = "crop" THEN [c EXCEPT !.owner = to] ELSE c

\* A render with the pages ps, the screen's state s and the dialog's m.
Render(ps, s, m, cs) ==
    LET old == current
        new == PageAt(ps, s.index)
    IN  /\ pages' = ps
        /\ screen' = IF Stale(s) THEN Reset(s, new) ELSE s
        /\ \/ /\ new = None \* without a page there is no CropModal
              /\ modal' = Mounted(m.visible)
              /\ crops' = [c \in CropId |->
                    IF old # None THEN Orphaned(cs[c], "screen") ELSE cs[c]]
           \/ /\ new # None /\ Initializes(m, old, new)
              /\ \E k \in DetectId :
                    /\ m.calls[k] = None
                    /\ modal' = [m EXCEPT !.loading = TRUE, !.dirty = FALSE,
                                    !.calls[k] = ImageOf(new), !.mixed = Waiting(m)]
              /\ crops' = cs
           \/ /\ new # None /\ ~Initializes(m, old, new)
              /\ modal' = m /\ crops' = cs

Begin == begun < MaxBegun /\ begun' = begun + 1

Others == <<adding, begun, alert>>

Show(s) == Render(pages, s, modal, crops) /\ UNCHANGED Others

ShowDialog(m) == Render(pages, screen, m, crops) /\ UNCHANGED Others
-----------------------------------------------------------------------------
(* The user has one thing in front: an alert, the crop dialog, the screen. *)

AtScreen == alert = None /\ ~modal.visible
AtDialog == alert = None /\ modal.visible /\ current # None

\* The bar at the top is hidden when a page is zoomed.
AtTopBar == AtScreen /\ screen.viewMode # "zoomed"

Viewing == AtTopBar /\ ~screen.editMode
Editing == AtScreen /\ screen.editMode

\* onIndexChange of the carousel, which the single view shows outside edit mode.
Swipe(i) ==
    /\ Viewing /\ screen.viewMode = "single"
    /\ Show([screen EXCEPT !.index = i])

GridToggle ==
    /\ Viewing
    /\ Show(IF screen.viewMode = "single" THEN [screen EXCEPT !.viewMode = "grid"]
            ELSE [screen EXCEPT !.viewMode = "single", !.index = 1])

PageSelect(i) ==
    /\ AtScreen /\ screen.viewMode = "grid"
    /\ Show([screen EXCEPT !.viewMode = "zoomed", !.selected = i])

\* The zoomed page has a Back button of its own: none if the page is gone.  selected
\* is read in the zoomed view only.
ZoomOut ==
    /\ AtScreen /\ screen.selected \in DOMAIN pages
    /\ Show([screen EXCEPT !.viewMode = "grid", !.selected = None])

HandleEditMode == Viewing /\ Show([screen EXCEPT !.editMode = TRUE])

\* Mutated form: a full turn is not reduced.
RotateWithoutWrap ==
    /\ Editing /\ Begin
    /\ Render(pages, [screen EXCEPT !.rotation = @ + 90, !.dirty = TRUE,
                                    !.turns = @ + 1], modal, crops)
    /\ UNCHANGED <<adding, alert>>

PressRotate ==
    /\ Editing /\ Begin
    /\ Render(pages, [screen EXCEPT !.rotation = (@ + 90) % 360, !.dirty = TRUE,
                                    !.turns = @ + 1], modal, crops)
    /\ UNCHANGED <<adding, alert>>

Finished(s) == [s EXCEPT !.dirty = FALSE, !.editMode = FALSE]

\* handleSave of a render whose page was p and whose draft was r.
Save(p, r) ==
    /\ IF p = None THEN UNCHANGED <<pages, screen, modal, crops>>
       ELSE Render([i \in DOMAIN pages |->
                       IF pages[i].id = p.id THEN [pages[i] EXCEPT !.rotation = r]
                       ELSE pages[i]],
                   Finished(screen), modal, crops)
    /\ UNCHANGED <<adding, begun>>

HandleSave ==
    /\ Editing /\ AtTopBar /\ screen.dirty
    /\ Save(current, screen.rotation)
    /\ UNCHANGED alert

Ask(asks) ==
    /\ alert' = [asks |-> asks, page |-> current, rotation |-> screen.rotation]
    /\ UNCHANGED <<pages, adding, begun, screen, modal, crops>>

\* The screen is left, and the library opens it anew.
Leave ==
    /\ Begin
    /\ screen' = Opened /\ modal' = Mounted(FALSE)
    /\ crops' = [c \in CropId |-> Orphaned(crops[c], "left")]
    /\ UNCHANGED <<pages, adding, alert>>

HandleBack ==
    /\ AtTopBar
    /\ IF ~screen.editMode THEN Leave
       ELSE IF screen.dirty THEN Ask("unsaved")
       ELSE Show([screen EXCEPT !.editMode = FALSE])

\* Android's back button, which the navigator handles: handleBack is not asked.
SystemBack == AtScreen /\ Leave

PressDeletePage == Editing /\ current # None /\ Ask("delete")

Choose(asks) == alert # None /\ alert.asks \in asks /\ alert' = None

AlertCancel ==
    /\ Choose({"unsaved", "delete"})
    /\ UNCHANGED <<pages, adding, begun, screen, modal, crops>>

AlertDiscard ==
    /\ Choose({"unsaved"})
    /\ Render(pages, Finished(screen), modal, crops)
    /\ UNCHANGED <<adding, begun>>

AlertSave == Choose({"unsaved"}) /\ Save(alert.page, alert.rotation)

Under(s) == [s EXCEPT !.shifted = TRUE]

DropAt(ps, i) == [j \in 1 .. Len(ps) - 1 |-> IF j < i THEN ps[j] ELSE ps[j + 1]]

\* The pages but the one with an id, if there is one.
WithoutPage(ps, id) ==
    IF \E i \in DOMAIN ps : ps[i].id = id
    THEN DropAt(ps, CHOOSE i \in DOMAIN ps : ps[i].id = id)
    ELSE ps

\* handleDeletePage: nothing resets the draft.
AlertDelete ==
    /\ Choose({"delete"}) /\ Begin
    /\ Render(WithoutPage(pages, alert.page.id), Under(screen), modal, crops)
    /\ UNCHANGED adding

AddPages ==
    /\ Viewing /\ adding = None /\ Begin
    /\ \A i \in DOMAIN pages, j \in DOMAIN Scanned : pages[i].id # Scanned[j].id
    /\ adding' = pages
    /\ UNCHANGED <<pages, screen, alert, modal, crops>>

\* handleAddPages after its copies: the captured pages with the new ones replace
\* the document's, or nothing does if a copy has failed.
PagesAdded ==
    /\ adding # None /\ adding' = None
    /\ \/ Render(adding \o Scanned, Under(screen), modal, crops)
       \/ UNCHANGED <<pages, screen, modal, crops>>
    /\ UNCHANGED <<begun, alert>>
-----------------------------------------------------------------------------
(* The crop dialog.                                                        *)

PressCrop ==
    /\ Editing /\ current # None /\ Begin
    /\ Render(pages, screen, [modal EXCEPT !.visible = TRUE], crops)
    /\ UNCHANGED <<adding, alert>>

\* detectQuad answers, with a quad or the whole image: whoever called it.
DetectAnswers(k) ==
    /\ modal.calls[k] # None
    /\ ShowDialog([modal EXCEPT !.quad = modal.calls[k], !.loading = FALSE,
                                !.calls[k] = None])

Drag ==
    /\ AtDialog /\ ~modal.loading /\ ~modal.applying /\ modal.quad # None
    /\ ShowDialog([modal EXCEPT !.dirty = TRUE])

\* handleCancel; onRequestClose, Android's back button, leaves dirty alone.
Cancel ==
    /\ AtDialog
    /\ \E d \in {FALSE, modal.dirty} :
          ShowDialog([modal EXCEPT !.visible = FALSE, !.dirty = d])

\* handleApply up to its await.
Apply(c) ==
    /\ AtDialog /\ ~modal.loading /\ ~modal.applying /\ modal.dirty
    /\ crops[c] = None /\ \A i \in DOMAIN pages : pages[i].picture # c
    /\ Render(pages, screen, [modal EXCEPT !.applying = TRUE],
              [crops EXCEPT ![c] = [step |-> "crop", page |-> current.id,
                                    of |-> modal.quad, owner |-> "modal"]])
    /\ UNCHANGED Others

Cropping(c) == crops[c] # None /\ crops[c].step = "crop"
Own(c) == crops[c].owner = "modal"

\* cropPerspective resolves: the result goes to the captured page, and the screen,
\* if it is still there, closes the dialog and leaves edit mode, cancelled or not.
CropAnswers(c) ==
    /\ Cropping(c)
    /\ LET stored == [crops EXCEPT ![c].step = "store"] IN
       \/ /\ crops[c].owner = "left"
          /\ Render(pages, screen, modal, stored)
       \/ /\ crops[c].owner # "left"
          /\ Render(pages, Finished(screen),
                [modal EXCEPT !.visible = FALSE, !.dirty = @ /\ ~Own(c),
                              !.applying = @ /\ ~Own(c)], stored)
    /\ UNCHANGED Others

\* Mutated form: only the success path resets applying.
RejectedStaysApplying(c) ==
    /\ Cropping(c)
    /\ Render(pages, screen, modal, [crops EXCEPT ![c] = None])
    /\ UNCHANGED Others

CropRejected(c) ==
    /\ Cropping(c)
    /\ Render(pages, screen, [modal EXCEPT !.applying = @ /\ ~Own(c)],
              [crops EXCEPT ![c] = None])
    /\ UNCHANGED Others

\* Mutated form: the page is looked up when the crop is stored.
StoredOnCurrent(ps, c) ==
    [i \in DOMAIN ps |-> IF i = screen.index THEN [ps[i] EXCEPT !.picture = c]
                         ELSE ps[i]]

\* The captured page, if it is still there, gets the crop.
WithCrop(ps, c) ==
    [i \in DOMAIN ps |-> IF ps[i].id = crops[c].page THEN [ps[i] EXCEPT !.picture = c]
                         ELSE ps[i]]

\* handleApplyCrop after putPageFile, which may fail.
CropStored(c) ==
    /\ crops[c] # None /\ crops[c].step = "store"
    /\ \E ps \in {pages, WithCrop(pages, c)} :
          Render(ps, screen, modal, [crops EXCEPT ![c] = None])
    /\ UNCHANGED Others
-----------------------------------------------------------------------------
Init ==
    /\ pages = FirstPages /\ screen = Opened
    /\ adding = None /\ begun = 0 /\ alert = None
    /\ modal = Mounted(FALSE) /\ crops = [c \in CropId |-> None]

Next ==
    \/ \E i \in DOMAIN pages : Swipe(i) \/ PageSelect(i)
    \/ GridToggle \/ ZoomOut \/ HandleBack \/ SystemBack
    \/ HandleEditMode \/ PressRotate \/ HandleSave \/ PressDeletePage
    \/ AlertCancel \/ AlertDiscard \/ AlertSave \/ AlertDelete
    \/ AddPages \/ PagesAdded
    \/ PressCrop \/ Drag \/ Cancel
    \/ \E k \in DetectId : DetectAnswers(k)
    \/ \E c \in CropId : Apply(c) \/ CropAnswers(c) \/ CropRejected(c) \/ CropStored(c)

Spec == Init /\ [][Next]_vars
-----------------------------------------------------------------------------
(* Properties.                                                             *)

Screen == [viewMode : {"single", "grid", "zoomed"}, selected : Nat \cup {None},
           index : Nat \ {0}, editMode : BOOLEAN, rotation : Turn, dirty : BOOLEAN,
           page : PageId \cup {None}, turns : 0 .. MaxBegun, shifted : BOOLEAN]

Alert == [asks : {"unsaved", "delete"}, page : Page \cup {None}, rotation : Turn]

Modal == [visible : BOOLEAN, loading : BOOLEAN, quad : Image \cup {None},
          dirty : BOOLEAN, applying : BOOLEAN, mixed : BOOLEAN,
          calls : [DetectId -> Image \cup {None}]]

\* Every variable is of its type: a rotation is one of the four of types.ts.
TypeOK ==
    /\ pages \in Seq(Page) /\ adding \in Seq(Page) \cup {None}
    /\ begun \in 0 .. MaxBegun
    /\ screen \in Screen /\ alert \in Alert \cup {None} /\ modal \in Modal
    /\ crops \in [CropId -> Crop \cup {None}]

\* In edit mode the draft is the stored rotation of the page that is shown, turned
\* as often as the user pressed Rotate on it, and "unsaved" is true: unless a page
\* was deleted, or pages were added, under the edit mode, which leaves the draft of
\* one page to another (the effect at line 99 depends on the position alone).
DraftAsSeen ==
    screen.editMode /\ ~screen.shifted =>
        /\ screen.page = (IF current = None THEN None ELSE current.id)
        /\ screen.rotation = (StoredRotation(current) + 90 * screen.turns) % 360
        /\ (screen.dirty <=> screen.turns > 0)

\* The quad that the crop dialog shows, and its Save applies, was detected on the
\* image that it shows, whatever has changed the page under it: unless an earlier
\* detection had not answered when this one began (initialize() is not cancelled).
QuadOfShown ==
    modal.visible /\ current # None /\ ~modal.loading /\ ~modal.mixed =>
        modal.quad = ImageOf(current)

\* The dialog neither waits for a detection that nobody makes nor refuses Save for
\* a crop that has ended.
NeverStuck ==
    /\ modal.visible /\ current # None /\ modal.loading => Waiting(modal)
    /\ modal.applying <=> \E c \in CropId : Cropping(c) /\ Own(c)

\* A crop is stored on the page whose Save was pressed: also when it answers after
\* Cancel, with another page on the screen, or after pages were deleted or added.
CropsStayOnPage ==
    [][\A c \in CropId, i \in DOMAIN pages, j \in DOMAIN pages' :
          /\ crops[c] # None /\ crops'[c] = None
          /\ pages[i].id = pages'[j].id /\ pages[i] # pages'[j]
          => pages[i].id = crops[c].page]_vars
=============================================================================
