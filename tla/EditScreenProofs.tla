-------------------------- MODULE EditScreenProofs --------------------------
(***************************************************************************)
(* Proofs about EditScreen, for every document, any number of native calls *)
(* that have not answered and any number of crops.                         *)
(***************************************************************************)
EXTENDS EditScreen, SequenceTheorems, TLAPS

USE EditAssumption

-----------------------------------------------------------------------------
(* Lists of pages.                                                         *)

LEMMA FunctionIsList ==
    ASSUME NEW n \in Nat, NEW f \in [1 .. n -> Page]
    PROVE  f \in Seq(Page)
OBVIOUS

\* A list with the same ids in the same places keeps its ids distinct.
LEMMA ChangedPages ==
    ASSUME NEW ps \in Seq(Page), NEW qs, qs = [i \in DOMAIN ps |-> qs[i]],
           \A i \in DOMAIN ps : qs[i] \in Page /\ qs[i].id = ps[i].id
    PROVE  /\ qs \in Seq(Page) /\ DOMAIN qs = DOMAIN ps
           /\ Distinct(ps) => Distinct(qs)
<1>1. Len(ps) \in Nat /\ DOMAIN ps = 1 .. Len(ps)
  BY LenProperties
<1>2. qs \in [1 .. Len(ps) -> Page]
  BY <1>1
<1>3. qs \in Seq(Page) /\ DOMAIN qs = DOMAIN ps
  BY <1>1, <1>2, FunctionIsList
<1>4. Distinct(ps) => Distinct(qs)
  BY <1>3 DEF Distinct
<1>5. QED
  BY <1>3, <1>4

LEMMA DropAtPages ==
    ASSUME NEW ps \in Seq(Page), NEW i \in DOMAIN ps
    PROVE  /\ DropAt(ps, i) \in Seq(Page)
           /\ \A j \in DOMAIN DropAt(ps, i) : \E h \in DOMAIN ps :
                 DropAt(ps, i)[j] = ps[h]
           /\ Distinct(ps) => Distinct(DropAt(ps, i))
<1> DEFINE from(j) == IF j < i THEN j ELSE j + 1
<1>1. Len(ps) \in Nat /\ DOMAIN ps = 1 .. Len(ps)
  BY LenProperties
<1>2. Len(ps) - 1 \in Nat
  BY <1>1
<1>3. \A j \in 1 .. Len(ps) - 1 : from(j) \in DOMAIN ps
  BY <1>1
<1>4. DropAt(ps, i) = [j \in 1 .. Len(ps) - 1 |-> ps[from(j)]]
  BY DEF DropAt
<1>5. \A j, k \in 1 .. Len(ps) - 1 : from(j) = from(k) => j = k
  BY <1>1
<1> HIDE DEF from
<1>6. \A h \in DOMAIN ps : ps[h] \in Page
  BY ElementOfSeq, <1>1
<1>7. DropAt(ps, i) \in [1 .. Len(ps) - 1 -> Page]
  BY <1>3, <1>4, <1>6
<1>8. DropAt(ps, i) \in Seq(Page)
  BY <1>2, <1>7, FunctionIsList
<1>9. Distinct(ps) => Distinct(DropAt(ps, i))
  BY <1>3, <1>4, <1>5 DEF Distinct
<1>10. QED
  BY <1>3, <1>4, <1>8, <1>9

\* What is left after a deletion are pages of the document, with their ids.
LEMMA WithoutPageKeeps ==
    ASSUME NEW ps \in Seq(Page), NEW id
    PROVE  /\ WithoutPage(ps, id) \in Seq(Page)
           /\ \A j \in DOMAIN WithoutPage(ps, id) : \E h \in DOMAIN ps :
                 WithoutPage(ps, id)[j] = ps[h]
           /\ Distinct(ps) => Distinct(WithoutPage(ps, id))
<1>1. CASE \E i \in DOMAIN ps : ps[i].id = id
  <2> DEFINE at == CHOOSE i \in DOMAIN ps : ps[i].id = id
  <2>1. at \in DOMAIN ps
    BY <1>1
  <2>2. WithoutPage(ps, id) = DropAt(ps, at)
    BY <1>1 DEF WithoutPage
  <2> HIDE DEF at
  <2>3. QED
    BY <2>1, <2>2, DropAtPages
<1>2. CASE ~\E i \in DOMAIN ps : ps[i].id = id
  <2>1. WithoutPage(ps, id) = ps
    BY <1>2 DEF WithoutPage
  <2>2. QED
    BY <2>1
<1>3. QED
  BY <1>1, <1>2

\* An addition keeps ids distinct if the added pages are new.
LEMMA AddedPages ==
    ASSUME NEW ps \in Seq(Page), Distinct(ps),
           \A i \in DOMAIN ps, j \in DOMAIN Scanned : ps[i].id # Scanned[j].id
    PROVE  Distinct(ps \o Scanned)
<1> DEFINE n == Len(ps)
           m == Len(Scanned)
<1>1. /\ n \in Nat /\ m \in Nat
      /\ DOMAIN ps = 1 .. n /\ DOMAIN Scanned = 1 .. m
  BY LenProperties
<1>2. DOMAIN (ps \o Scanned) = 1 .. n + m
  BY <1>1, ConcatProperties, LenProperties
<1>3. \A i \in 1 .. n + m : (ps \o Scanned)[i] = IF i <= n THEN ps[i] ELSE Scanned[i - n]
  BY <1>1, ConcatProperties
<1> HIDE DEF n, m
<1>4. \A i \in 1 .. n + m : i > n => i - n \in 1 .. m
  BY <1>1
<1>5. QED
  BY <1>1, <1>2, <1>3, <1>4 DEF Distinct

-----------------------------------------------------------------------------
(* The invariant.                                                          *)

\* DraftAsSeen, of a screen s that shows the page p.
DraftOf(s, p) ==
    s.editMode /\ ~s.shifted =>
        /\ s.page = (IF p = None THEN None ELSE p.id)
        /\ s.rotation = (StoredRotation(p) + 90 * s.turns) % 360
        /\ (s.dirty <=> s.turns > 0)

Owned(cs, c) == cs[c] # None /\ cs[c].step = "crop" /\ cs[c].owner = "modal"

\* The dialog refuses Save exactly while its own crop is computed, of which there
\* is one, and there is none without a page.  It offers Save only with a quad.
CropOf(m, cs, p) ==
    /\ m.applying <=> \E c \in CropId : Owned(cs, c)
    /\ \A c, e \in CropId : Owned(cs, c) /\ Owned(cs, e) => c = e
    /\ p = None => ~m.applying
    /\ m.dirty => m.quad # None

\* What a dialog that shows the page p waits for: while detections are not mixed,
\* nothing that is not the page's image can still answer.
QuadOf(m, p) ==
    m.visible /\ p # None =>
        /\ m.loading => Waiting(m)
        /\ ~m.mixed =>
              /\ \A k \in DetectId : m.calls[k] \in {None, ImageOf(p)}
              /\ m.loading \/ m.quad = ImageOf(p)

PagesInv ==
    /\ Distinct(pages)
    /\ adding # None => Distinct(adding \o Scanned)

EditInv ==
    /\ TypeOK
    /\ PagesInv
    /\ screen.turns <= begun
    /\ DraftOf(screen, current)
    /\ CropOf(modal, crops, current)
    /\ QuadOf(modal, current)

LEMMA InvImplies == EditInv => DraftAsSeen /\ QuadOfShown /\ NeverStuck
BY DEF EditInv, DraftOf, DraftAsSeen, QuadOf, QuadOfShown, CropOf, NeverStuck,
       Owned, Cropping, Own

\* A page of a list, or none.
LEMMA PageAtType ==
    ASSUME NEW ps \in Seq(Page), NEW i
    PROVE  PageAt(ps, i) # None => i \in DOMAIN ps /\ PageAt(ps, i) \in Page
BY ElementOfSeq, LenProperties DEF PageAt

LEMMA ResetKeeps ==
    ASSUME NEW s \in Screen, NEW p, p # None => p \in Page
    PROVE  /\ Reset(s, p) \in Screen /\ Reset(s, p).index = s.index
           /\ Reset(s, p).turns = 0
           /\ DraftOf(Reset(s, p), p)
<1> DEFINE turned == StoredRotation(p)
           id == IF p = None THEN None ELSE p.id
           reset == Reset(s, p)
<1>1. turned \in Turn /\ id \in PageId \cup {None} /\ 0 \in 0 .. MaxBegun
  BY DEF StoredRotation, Page, Turn
<1>2. reset = [s EXCEPT !.rotation = turned, !.dirty = FALSE, !.page = id,
                        !.turns = 0, !.shifted = FALSE]
  BY DEF Reset
<1> HIDE DEF turned, id, reset
<1>3. reset \in Screen
  BY <1>1, <1>2 DEF Screen
<1>4. /\ reset.index = s.index /\ reset.turns = 0 /\ reset.dirty = FALSE
      /\ reset.rotation = turned /\ reset.page = id
  BY <1>2 DEF Screen
<1>5. (turned + 90 * 0) % 360 = turned
  BY <1>1 DEF Turn
<1>6. reset.dirty <=> reset.turns > 0
  BY <1>4
<1>7. DraftOf(reset, p)
  BY <1>4, <1>5, <1>6 DEF DraftOf, turned, id
<1>8. QED
  BY <1>3, <1>4, <1>7 DEF reset

LEMMA MountedType ==
    ASSUME NEW visible \in BOOLEAN
    PROVE  Mounted(visible) \in Modal
BY DEF Mounted, Modal

\* The crops of a dialog that is torn down belong to no dialog.
LEMMA OrphanedKeeps ==
    ASSUME NEW cs \in [CropId -> Crop \cup {None}], NEW to \in {"screen", "left"}
    PROVE  /\ [c \in CropId |-> Orphaned(cs[c], to)] \in [CropId -> Crop \cup {None}]
           /\ \A c \in CropId :
                 /\ ~Owned([e \in CropId |-> Orphaned(cs[e], to)], c)
                 /\ Orphaned(cs[c], to) = None => cs[c] = None
<1>1. ASSUME NEW c \in CropId
      PROVE  /\ Orphaned(cs[c], to) \in Crop \cup {None}
             /\ Orphaned(cs[c], to) # None /\ Orphaned(cs[c], to).step = "crop"
                   => Orphaned(cs[c], to).owner # "modal"
             /\ Orphaned(cs[c], to) = None => cs[c] = None
  <2>1. CASE cs[c] # None /\ cs[c].step = "crop"
    <3>1. cs[c] \in Crop
      BY <2>1
    <3>2. Orphaned(cs[c], to) = [cs[c] EXCEPT !.owner = to]
      BY <2>1 DEF Orphaned
    <3>3. [cs[c] EXCEPT !.owner = to] \in Crop
      BY <3>1 DEF Crop
    <3>4. [cs[c] EXCEPT !.owner = to].owner = to
      BY <3>1 DEF Crop
    <3>5. QED
      BY <3>2, <3>3, <3>4
  <2>2. CASE ~(cs[c] # None /\ cs[c].step = "crop")
    BY <2>2 DEF Orphaned
  <2>3. QED
    BY <2>1, <2>2
<1>2. QED
  BY <1>1 DEF Owned

-----------------------------------------------------------------------------
(* A render.                                                               *)

\* A dialog that was in order for the page that was shown is in order for the one
\* that is rendered: the effect starts a detection when the image is another one.
LEMMA RenderDialog ==
    ASSUME NEW ps \in Seq(Page), NEW s \in Screen, NEW m \in Modal,
           NEW cs \in [CropId -> Crop \cup {None}],
           CropOf(m, cs, current), modal.visible => QuadOf(m, current),
           Render(ps, s, m, cs)
    PROVE  LET new == PageAt(ps, s.index)
           IN  /\ modal' \in Modal /\ crops' \in [CropId -> Crop \cup {None}]
               /\ CropOf(modal', crops', new) /\ QuadOf(modal', new)
               /\ \A c \in CropId : crops'[c] = None => cs[c] = None
<1> DEFINE old == current
           new == PageAt(ps, s.index)
<1> HIDE DEF old, new
<1>0. new # None => ImageOf(new) \in Image
  <2>1. new # None => new \in Page
    BY PageAtType DEF new
  <2>2. QED
    BY <2>1 DEF ImageOf, Image, Page
<1>1. CASE new = None
  <2>1. /\ modal' = Mounted(m.visible)
        /\ crops' = [c \in CropId |->
              IF old # None THEN Orphaned(cs[c], "screen") ELSE cs[c]]
    BY <1>1 DEF Render, old, new
  <2>2. modal' \in Modal /\ ~modal'.applying /\ ~modal'.dirty
    BY <2>1, MountedType DEF Modal, Mounted
  <2>3. CASE old # None
    <3>1. crops' = [c \in CropId |-> Orphaned(cs[c], "screen")]
      BY <2>1, <2>3
    <3>2. /\ crops' \in [CropId -> Crop \cup {None}]
          /\ \A c \in CropId : ~Owned(crops', c) /\ (crops'[c] = None => cs[c] = None)
      BY <3>1, OrphanedKeeps
    <3>3. QED
      BY <1>1, <2>2, <3>2 DEF CropOf, QuadOf, new
  <2>4. CASE old = None
    <3>1. crops' = cs
      BY <2>1, <2>4
    <3>2. \A c \in CropId : ~Owned(crops', c)
      BY <2>4, <3>1 DEF CropOf, old
    <3>3. QED
      BY <1>1, <2>2, <3>1, <3>2 DEF CropOf, QuadOf, new
  <2>5. QED
    BY <2>3, <2>4
<1>2. CASE new # None /\ Initializes(m, old, new)
  <2>1. crops' = cs
    BY <1>2 DEF Render, old, new
  <2>2. PICK k \in DetectId :
          /\ m.calls[k] = None
          /\ modal' = [m EXCEPT !.loading = TRUE, !.dirty = FALSE,
                          !.calls[k] = ImageOf(new), !.mixed = Waiting(m)]
    BY <1>2 DEF Render, old, new
  <2>3. Waiting(m) \in BOOLEAN
    BY DEF Waiting
  <2>4. /\ modal' \in Modal
        /\ modal'.loading /\ modal'.applying = m.applying /\ ~modal'.dirty
        /\ modal'.mixed = Waiting(m)
        /\ \A x \in DetectId :
              modal'.calls[x] = IF x = k THEN ImageOf(new) ELSE m.calls[x]
    BY <1>0, <1>2, <2>2, <2>3 DEF Modal
  <2>5. Waiting(modal')
    BY <1>0, <1>2, <2>4 DEF Waiting
  <2>6. ~modal'.mixed => \A x \in DetectId : modal'.calls[x] \in {None, ImageOf(new)}
    BY <2>4 DEF Waiting
  <2>7. QuadOf(modal', new)
    BY <2>4, <2>5, <2>6 DEF QuadOf
  <2>8. CropOf(modal', crops', new)
    BY <1>2, <2>1, <2>4 DEF CropOf
  <2>9. QED
    BY <2>1, <2>4, <2>7, <2>8 DEF new
<1>3. CASE new # None /\ ~Initializes(m, old, new)
  <2>1. modal' = m /\ crops' = cs
    BY <1>3 DEF Render, old, new
  <2>2. m.visible => old # None /\ modal.visible /\ ImageOf(old) = ImageOf(new)
    BY <1>3 DEF Initializes
  <2>3. QuadOf(modal', new)
    BY <2>1, <2>2 DEF QuadOf, old
  <2>4. CropOf(modal', crops', new)
    BY <1>3, <2>1 DEF CropOf
  <2>5. QED
    BY <2>1, <2>3, <2>4 DEF new
<1>4. QED
  BY <1>1, <1>2, <1>3

\* The draft is reset when the effect finds it stale; otherwise it must be in order
\* for the page that is rendered.
LEMMA RenderScreen ==
    ASSUME NEW ps \in Seq(Page), NEW s \in Screen, NEW m, NEW cs,
           Stale(s) \/ DraftOf(s, PageAt(ps, s.index)),
           Render(ps, s, m, cs)
    PROVE  /\ pages' = ps
           /\ screen' \in Screen /\ screen'.index = s.index
           /\ screen'.turns \in {0, s.turns}
           /\ DraftOf(screen', PageAt(ps, s.index))
<1>1. /\ pages' = ps
      /\ screen' = IF Stale(s) THEN Reset(s, PageAt(ps, s.index)) ELSE s
  BY DEF Render
<1>2. QED
  BY <1>1, PageAtType, ResetKeeps

\* The rest of a step that renders.
LEMMA RenderKeeps ==
    ASSUME EditInv,
           NEW ps \in Seq(Page), Distinct(ps),
           NEW s \in Screen, s.turns <= begun',
           Stale(s) \/ DraftOf(s, PageAt(ps, s.index)),
           NEW m \in Modal, modal.visible => QuadOf(m, current),
           NEW cs \in [CropId -> Crop \cup {None}], CropOf(m, cs, current),
           Render(ps, s, m, cs),
           begun' \in 0 .. MaxBegun, alert' \in Alert \cup {None},
           adding' \in Seq(Page) \cup {None},
           adding' # None => Distinct(adding' \o Scanned)
    PROVE  EditInv'
<1>1. /\ pages' = ps
      /\ screen' \in Screen /\ screen'.index = s.index
      /\ screen'.turns \in {0, s.turns}
      /\ DraftOf(screen', PageAt(ps, s.index))
  BY RenderScreen
<1>2. /\ modal' \in Modal /\ crops' \in [CropId -> Crop \cup {None}]
      /\ CropOf(modal', crops', PageAt(ps, s.index))
      /\ QuadOf(modal', PageAt(ps, s.index))
  BY RenderDialog
<1>3. current' = PageAt(ps, s.index)
  BY <1>1 DEF current
<1>4. TypeOK'
  BY <1>1, <1>2 DEF TypeOK
<1>5. screen'.turns <= begun'
  BY <1>1
<1>6. QED
  BY <1>1, <1>2, <1>3, <1>4, <1>5 DEF EditInv, PagesInv

-----------------------------------------------------------------------------
(* The steps of the screen.                                                *)

LEMMA InvTypes ==
    ASSUME EditInv
    PROVE  /\ pages \in Seq(Page) /\ Distinct(pages)
           /\ adding \in Seq(Page) \cup {None}
           /\ adding # None => Distinct(adding \o Scanned)
           /\ begun \in 0 .. MaxBegun
           /\ screen \in Screen /\ screen.turns <= begun
           /\ alert \in Alert \cup {None} /\ modal \in Modal
           /\ crops \in [CropId -> Crop \cup {None}]
           /\ current = PageAt(pages, screen.index)
           /\ current # None => current \in Page
           /\ DraftOf(screen, current)
           /\ CropOf(modal, crops, current) /\ QuadOf(modal, current)
<1>1. pages \in Seq(Page) /\ current = PageAt(pages, screen.index)
  BY DEF EditInv, TypeOK, current
<1>2. current # None => current \in Page
  BY <1>1, PageAtType
<1>3. QED
  BY <1>1, <1>2 DEF EditInv, TypeOK, PagesInv

\* A step that renders the same pages, with another state of the screen.
LEMMA ScreenKeeps ==
    ASSUME EditInv, NEW s \in Screen, s.turns <= begun',
           Stale(s) \/ DraftOf(s, PageAt(pages, s.index)),
           Render(pages, s, modal, crops),
           begun' \in 0 .. MaxBegun, alert' \in Alert \cup {None}, adding' = adding
    PROVE  EditInv'
BY InvTypes, RenderKeeps

LEMMA ShowKeeps ==
    ASSUME EditInv, NEW s \in Screen, s.turns = screen.turns,
           Stale(s) \/ DraftOf(s, PageAt(pages, s.index)), Show(s)
    PROVE  EditInv'
BY InvTypes, ScreenKeeps DEF Show, Others

LEMMA SwipeKeeps ==
    ASSUME EditInv, NEW i \in DOMAIN pages, Swipe(i)
    PROVE  EditInv'
<1> DEFINE s == [screen EXCEPT !.index = i]
<1>1. ~screen.editMode /\ Show(s)
  BY DEF Swipe, Viewing
<1>2. i \in Nat \ {0}
  BY InvTypes, LenProperties
<1>3. s \in Screen /\ s.turns = screen.turns /\ s.editMode = screen.editMode
  BY <1>2, InvTypes DEF Screen
<1> HIDE DEF s
<1>4. QED
  BY <1>1, <1>3, ShowKeeps DEF DraftOf

LEMMA MovedType ==
    ASSUME NEW s \in Screen, NEW mode \in {"single", "grid", "zoomed"},
           NEW i \in Nat \ {0}
    PROVE  LET moved == [s EXCEPT !.viewMode = mode, !.index = i]
           IN  moved \in Screen /\ moved.turns = s.turns /\ moved.editMode = s.editMode
BY DEF Screen

LEMMA GridToggleKeeps ==
    ASSUME EditInv, GridToggle
    PROVE  EditInv'
<1>1. ~screen.editMode
  BY DEF GridToggle, Viewing
<1>2. CASE screen.viewMode = "single"
  <2> DEFINE s == [screen EXCEPT !.viewMode = "grid"]
  <2>1. Show(s)
    BY <1>2 DEF GridToggle
  <2>2. s \in Screen /\ s.turns = screen.turns /\ s.editMode = screen.editMode
    BY InvTypes DEF Screen
  <2> HIDE DEF s
  <2>3. QED
    BY <1>1, <2>1, <2>2, ShowKeeps DEF DraftOf
<1>3. CASE screen.viewMode # "single"
  <2> DEFINE s == [screen EXCEPT !.viewMode = "single", !.index = 1]
  <2>1. Show(s)
    BY <1>3 DEF GridToggle
  <2>2. s \in Screen /\ s.turns = screen.turns /\ s.editMode = screen.editMode
    <3>1. screen \in Screen /\ 1 \in Nat \ {0}
      BY InvTypes
    <3>2. QED
      BY <3>1, MovedType, Zenon
  <2> HIDE DEF s
  <2>3. QED
    BY <1>1, <2>1, <2>2, ShowKeeps DEF DraftOf
<1>4. QED
  BY <1>2, <1>3

\* Changing the view leaves the draft and its page alone.
LEMMA ViewKeeps ==
    ASSUME EditInv, NEW mode \in {"grid", "zoomed"}, NEW i \in Nat \cup {None},
           Show([screen EXCEPT !.viewMode = mode, !.selected = i])
    PROVE  EditInv'
<1> DEFINE s == [screen EXCEPT !.viewMode = mode, !.selected = i]
<1>1. /\ s \in Screen /\ s.turns = screen.turns /\ s.editMode = screen.editMode
      /\ s.index = screen.index /\ s.page = screen.page /\ s.rotation = screen.rotation
      /\ s.dirty = screen.dirty /\ s.shifted = screen.shifted
  BY InvTypes DEF Screen
<1>2. Show(s)
  OBVIOUS
<1> HIDE DEF s
<1>3. DraftOf(s, PageAt(pages, s.index))
  BY <1>1, InvTypes DEF DraftOf
<1>4. QED
  BY <1>1, <1>2, <1>3, ShowKeeps

LEMMA ViewStepsKeep ==
    ASSUME EditInv, ZoomOut \/ \E i \in DOMAIN pages : PageSelect(i)
    PROVE  EditInv'
<1>1. \A i \in DOMAIN pages : i \in Nat
  BY InvTypes, LenProperties
<1>2. QED
  BY <1>1, ViewKeeps DEF ZoomOut, PageSelect

LEMMA EditModeKeeps ==
    ASSUME EditInv, HandleEditMode
    PROVE  EditInv'
<1> DEFINE s == [screen EXCEPT !.editMode = TRUE]
<1>1. Show(s) /\ ~screen.editMode
  BY DEF HandleEditMode, Viewing
<1>2. s \in Screen /\ s.turns = screen.turns /\ s.editMode
  BY InvTypes DEF Screen
<1> HIDE DEF s
<1>3. Stale(s)
  BY <1>1, <1>2 DEF Stale
<1>4. QED
  BY <1>1, <1>2, <1>3, ShowKeeps

\* Pressing Rotate once more is a quarter turn more.
LEMMA QuarterTurn ==
    ASSUME NEW stored \in Turn, NEW turns \in Nat
    PROVE  (stored + 90 * (turns + 1)) % 360
                = (((stored + 90 * turns) % 360) + 90) % 360
<1> DEFINE n == stored + 90 * turns
<1>1. n \in Nat /\ stored + 90 * (turns + 1) = n + 90
  BY DEF Turn
<1> HIDE DEF n
<1>2. (n + 90) % 360 = ((n % 360) + 90) % 360
  BY <1>1
<1>3. QED
  BY <1>1, <1>2 DEF n

LEMMA PressRotateKeeps ==
    ASSUME EditInv, PressRotate
    PROVE  EditInv'
<1> DEFINE turned == (screen.rotation + 90) % 360
           s == [screen EXCEPT !.rotation = turned, !.dirty = TRUE, !.turns = @ + 1]
<1>1. /\ Render(pages, s, modal, crops)
      /\ begun < MaxBegun /\ begun' = begun + 1 /\ alert' = alert /\ adding' = adding
  BY DEF PressRotate, Begin
<1>2. screen.turns \in Nat /\ screen.turns + 1 \in 0 .. MaxBegun
  BY <1>1, InvTypes DEF Screen
<1>3. turned \in Turn
  BY InvTypes DEF Screen, Turn
<1> HIDE DEF turned
<1>4. /\ s \in Screen /\ s.turns = screen.turns + 1 /\ s.editMode = screen.editMode
      /\ s.index = screen.index /\ s.page = screen.page /\ s.rotation = turned
      /\ s.dirty /\ s.shifted = screen.shifted
  BY <1>2, <1>3, InvTypes DEF Screen
<1> HIDE DEF s
<1>5. StoredRotation(current) \in Turn
  BY InvTypes DEF StoredRotation, Page, Turn
<1>6. DraftOf(screen, current)
  BY InvTypes
<1>7. screen.editMode /\ ~screen.shifted =>
          turned = (StoredRotation(current) + 90 * s.turns) % 360
  BY <1>2, <1>4, <1>5, <1>6, QuarterTurn DEF DraftOf, turned
<1>8. s.turns > 0
  BY <1>2, <1>4
<1>9. DraftOf(s, current)
  BY <1>4, <1>6, <1>7, <1>8 DEF DraftOf
<1>10. QED
  BY <1>1, <1>2, <1>4, <1>9, InvTypes, ScreenKeeps

LEMMA FinishedKeeps ==
    ASSUME NEW s \in Screen, NEW p
    PROVE  /\ Finished(s) \in Screen /\ Finished(s).turns = s.turns
           /\ DraftOf(Finished(s), p)
<1>1. /\ Finished(s) \in Screen /\ Finished(s).turns = s.turns
      /\ Finished(s).editMode = FALSE
  BY DEF Finished, Screen
<1>2. QED
  BY <1>1 DEF DraftOf

\* The pages with one of them turned.
Turned(p, r) ==
    [i \in DOMAIN pages |->
        IF pages[i].id = p.id THEN [pages[i] EXCEPT !.rotation = r] ELSE pages[i]]

LEMMA TurnedPages ==
    ASSUME EditInv, NEW p, NEW r \in Turn
    PROVE  Turned(p, r) \in Seq(Page) /\ Distinct(Turned(p, r))
<1> DEFINE ps == Turned(p, r)
<1>1. \A i \in DOMAIN pages : pages[i] \in Page
  BY InvTypes, ElementOfSeq, LenProperties
<1>2. ps = [i \in DOMAIN pages |-> ps[i]]
  BY DEF Turned
<1>3. \A i \in DOMAIN pages : ps[i] \in Page /\ ps[i].id = pages[i].id
  BY <1>1 DEF Turned, Page
<1> HIDE DEF ps
<1>4. ps \in Seq(Page) /\ Distinct(ps)
  BY <1>2, <1>3, InvTypes, ChangedPages
<1>5. QED
  BY <1>4 DEF ps

\* A step that leaves the pages, the screen and the dialog alone.
LEMMA RestKeeps ==
    ASSUME EditInv, UNCHANGED <<pages, screen, modal, crops>>,
           begun' \in 0 .. MaxBegun, begun <= begun', alert' \in Alert \cup {None},
           adding' \in Seq(Page) \cup {None},
           adding' # None => Distinct(adding' \o Scanned)
    PROVE  EditInv'
<1>1. TypeOK' /\ PagesInv' /\ current' = current
  BY DEF EditInv, TypeOK, PagesInv, current
<1>2. screen.turns \in Nat /\ begun \in Nat
  BY InvTypes DEF Screen
<1>3. screen'.turns <= begun'
  BY <1>2 DEF EditInv
<1>4. /\ DraftOf(screen', current')
      /\ CropOf(modal', crops', current') /\ QuadOf(modal', current')
  BY <1>1 DEF EditInv
<1>5. QED
  BY <1>1, <1>3, <1>4 DEF EditInv

LEMMA SaveKeeps ==
    ASSUME EditInv, NEW p, NEW r \in Turn, Save(p, r), alert' \in Alert \cup {None}
    PROVE  EditInv'
<1>1. CASE p = None
  <2>1. UNCHANGED <<pages, screen, modal, crops, adding, begun>> /\ begun <= begun
    BY <1>1, InvTypes DEF Save
  <2>2. QED
    BY <2>1, InvTypes, RestKeeps
<1>2. CASE p # None
  <2>1. /\ Render(Turned(p, r), Finished(screen), modal, crops)
        /\ adding' = adding /\ begun' = begun
    BY <1>2 DEF Save, Turned
  <2>2. Turned(p, r) \in Seq(Page) /\ Distinct(Turned(p, r))
    BY TurnedPages
  <2>3. QED
    BY <2>1, <2>2, InvTypes, FinishedKeeps, RenderKeeps
<1>3. QED
  BY <1>1, <1>2

LEMMA HandleSaveKeeps ==
    ASSUME EditInv, HandleSave
    PROVE  EditInv'
BY InvTypes, SaveKeeps DEF HandleSave, Screen

LEMMA AskKeeps ==
    ASSUME EditInv, NEW asks \in {"unsaved", "delete"}, Ask(asks)
    PROVE  EditInv'
<1>1. [asks |-> asks, page |-> current, rotation |-> screen.rotation] \in Alert
  BY InvTypes DEF Alert, Screen
<1>2. begun <= begun
  BY InvTypes
<1>3. QED
  BY <1>1, <1>2, InvTypes, RestKeeps DEF Ask

\* The screen is opened anew, and the crops of the one that is left are nobody's.
LEMMA LeaveKeeps ==
    ASSUME EditInv, Leave
    PROVE  EditInv'
<1> DEFINE p == PageAt(pages, 1)
           blank == [viewMode |-> "single", selected |-> None, index |-> 1,
                     editMode |-> FALSE, rotation |-> 0, dirty |-> FALSE,
                     page |-> None, turns |-> 0, shifted |-> FALSE]
<1>1. /\ begun < MaxBegun /\ begun' = begun + 1
      /\ screen' = Opened /\ modal' = Mounted(FALSE)
      /\ crops' = [c \in CropId |-> Orphaned(crops[c], "left")]
      /\ UNCHANGED <<pages, adding, alert>>
  BY DEF Leave, Begin
<1>2. Opened = Reset(blank, p)
  BY DEF Opened
<1>3. blank \in Screen
  BY DEF Screen, Turn
<1>4. p # None => p \in Page
  BY InvTypes, PageAtType
<1>5. blank.index = 1
  OBVIOUS
<1> HIDE DEF blank, p
<1>6. screen' \in Screen /\ screen'.index = 1 /\ screen'.turns = 0 /\ DraftOf(screen', p)
  BY <1>1, <1>2, <1>3, <1>4, <1>5, ResetKeeps
<1>7. modal' \in Modal /\ ~modal'.visible /\ ~modal'.applying /\ ~modal'.dirty
  BY <1>1, MountedType DEF Mounted
<1>8. /\ crops' \in [CropId -> Crop \cup {None}]
      /\ \A c \in CropId : ~Owned(crops', c)
  BY <1>1, InvTypes, OrphanedKeeps
<1>9. current' = p
  BY <1>1, <1>6 DEF current, p
<1>10. TypeOK' /\ PagesInv' /\ screen'.turns <= begun'
  <2>1. begun' \in 0 .. MaxBegun
    BY <1>1, InvTypes
  <2>2. TypeOK'
    BY <1>1, <1>6, <1>7, <1>8, <2>1, InvTypes DEF TypeOK
  <2>3. PagesInv'
    BY <1>1 DEF EditInv, PagesInv
  <2>4. QED
    BY <1>6, <2>1, <2>2, <2>3
<1>11. CropOf(modal', crops', p) /\ QuadOf(modal', p)
  BY <1>7, <1>8 DEF CropOf, QuadOf
<1>12. QED
  BY <1>6, <1>9, <1>10, <1>11 DEF EditInv

LEMMA BackKeeps ==
    ASSUME EditInv, HandleBack \/ SystemBack
    PROVE  EditInv'
<1> DEFINE s == [screen EXCEPT !.editMode = FALSE]
<1>1. s \in Screen /\ s.turns = screen.turns /\ ~s.editMode
  BY InvTypes DEF Screen
<1>2. Leave \/ Ask("unsaved") \/ Show(s)
  BY DEF HandleBack, SystemBack
<1> HIDE DEF s
<1>3. QED
  BY <1>1, <1>2, LeaveKeeps, AskKeeps, ShowKeeps DEF DraftOf

LEMMA AlertStepsKeep ==
    ASSUME EditInv, AlertCancel \/ AlertDiscard \/ AlertSave
    PROVE  EditInv'
<1>1. alert' = None /\ begun <= begun
  BY InvTypes DEF AlertCancel, AlertDiscard, AlertSave, Choose
<1>2. CASE AlertCancel
  BY <1>1, <1>2, InvTypes, RestKeeps DEF AlertCancel
<1>3. CASE AlertDiscard
  BY <1>1, <1>3, InvTypes, FinishedKeeps, ScreenKeeps DEF AlertDiscard
<1>4. CASE AlertSave
  <2>1. Save(alert.page, alert.rotation) /\ alert \in Alert
    BY <1>4, InvTypes DEF AlertSave, Choose
  <2>2. alert.rotation \in Turn
    BY <2>1 DEF Alert
  <2>3. QED
    BY <1>1, <2>1, <2>2, SaveKeeps
<1>5. QED
  BY <1>2, <1>3, <1>4

\* The pages may change under the screen: its draft is then the next page's.
LEMMA UnderKeeps ==
    ASSUME NEW s \in Screen, NEW p
    PROVE  Under(s) \in Screen /\ Under(s).turns = s.turns /\ DraftOf(Under(s), p)
<1>1. Under(s) \in Screen /\ Under(s).turns = s.turns /\ Under(s).shifted = TRUE
  BY DEF Under, Screen
<1>2. QED
  BY <1>1 DEF DraftOf

LEMMA AlertDeleteKeeps ==
    ASSUME EditInv, AlertDelete
    PROVE  EditInv'
<1> DEFINE ps == WithoutPage(pages, alert.page.id)
<1>1. /\ Render(ps, Under(screen), modal, crops)
      /\ alert' = None /\ begun < MaxBegun /\ begun' = begun + 1 /\ adding' = adding
  BY DEF AlertDelete, Choose, Begin
<1>2. ps \in Seq(Page) /\ Distinct(ps)
  BY InvTypes, WithoutPageKeeps
<1>3. screen.turns <= begun' /\ begun' \in 0 .. MaxBegun
  BY <1>1, InvTypes DEF Screen
<1> HIDE DEF ps
<1>4. QED
  BY <1>1, <1>2, <1>3, InvTypes, UnderKeeps, RenderKeeps

LEMMA AddPagesKeeps ==
    ASSUME EditInv, AddPages
    PROVE  EditInv'
<1>1. /\ adding' = pages /\ begun < MaxBegun /\ begun' = begun + 1
      /\ UNCHANGED <<pages, screen, alert, modal, crops>>
      /\ \A i \in DOMAIN pages, j \in DOMAIN Scanned : pages[i].id # Scanned[j].id
  BY DEF AddPages, Begin
<1>2. Distinct(pages \o Scanned)
  BY <1>1, InvTypes, AddedPages
<1>3. begun' \in 0 .. MaxBegun /\ begun <= begun'
  BY <1>1, InvTypes
<1>4. QED
  BY <1>1, <1>2, <1>3, InvTypes, RestKeeps

LEMMA PagesAddedKeeps ==
    ASSUME EditInv, PagesAdded
    PROVE  EditInv'
<1>1. adding \in Seq(Page) /\ adding' = None /\ begun' = begun /\ alert' = alert
  BY InvTypes DEF PagesAdded
<1>2. begun <= begun
  BY InvTypes
<1>3. CASE Render(adding \o Scanned, Under(screen), modal, crops)
  <2>1. adding \o Scanned \in Seq(Page)
    BY <1>1, ConcatProperties
  <2>2. Distinct(adding \o Scanned)
    BY InvTypes DEF PagesAdded
  <2>3. QED
    BY <1>1, <1>3, <2>1, <2>2, InvTypes, UnderKeeps, RenderKeeps
<1>4. CASE UNCHANGED <<pages, screen, modal, crops>>
  BY <1>1, <1>2, <1>4, InvTypes, RestKeeps
<1>5. QED
  BY <1>3, <1>4 DEF PagesAdded

-----------------------------------------------------------------------------
(* The steps of the crop dialog.                                           *)

\* A step that renders the same pages and the same screen.
LEMMA DialogKeeps ==
    ASSUME EditInv, NEW m \in Modal, modal.visible => QuadOf(m, current),
           NEW cs \in [CropId -> Crop \cup {None}], CropOf(m, cs, current),
           Render(pages, screen, m, cs), UNCHANGED Others
    PROVE  EditInv'
BY InvTypes, RenderKeeps DEF Others

LEMMA PressCropKeeps ==
    ASSUME EditInv, PressCrop
    PROVE  EditInv'
<1> DEFINE m == [modal EXCEPT !.visible = TRUE]
<1>1. /\ Render(pages, screen, m, crops) /\ ~modal.visible
      /\ begun < MaxBegun /\ begun' = begun + 1 /\ alert' = alert /\ adding' = adding
  BY DEF PressCrop, Editing, AtScreen, Begin
<1>2. /\ m \in Modal /\ m.applying = modal.applying
      /\ m.dirty = modal.dirty /\ m.quad = modal.quad
  BY InvTypes DEF Modal
<1> HIDE DEF m
<1>3. CropOf(m, crops, current)
  BY <1>2, InvTypes DEF CropOf
<1>4. screen.turns <= begun' /\ begun' \in 0 .. MaxBegun
  BY <1>1, InvTypes DEF Screen
<1>5. QED
  BY <1>1, <1>2, <1>3, <1>4, InvTypes, RenderKeeps

\* The answer becomes the quad: of the image that is shown, if detections are not mixed.
LEMMA DetectAnswersKeeps ==
    ASSUME EditInv, NEW k \in DetectId, DetectAnswers(k)
    PROVE  EditInv'
<1> DEFINE m == [modal EXCEPT !.quad = modal.calls[k], !.loading = FALSE,
                              !.calls[k] = None]
<1>1. modal.calls[k] # None /\ ShowDialog(m)
  BY DEF DetectAnswers
<1>2. modal \in Modal /\ modal.calls[k] \in Image
  BY <1>1, InvTypes DEF Modal
<1>3. /\ m \in Modal /\ m.visible = modal.visible /\ m.applying = modal.applying
      /\ m.quad = modal.calls[k] /\ m.mixed = modal.mixed /\ m.loading = FALSE
      /\ \A x \in DetectId : m.calls[x] = IF x = k THEN None ELSE modal.calls[x]
  BY <1>2 DEF Modal
<1> HIDE DEF m
<1>4. CropOf(m, crops, current)
  BY <1>1, <1>3, InvTypes DEF CropOf
<1>5. QuadOf(m, current)
  BY <1>1, <1>3, InvTypes DEF QuadOf
<1>6. QED
  BY <1>1, <1>3, <1>4, <1>5, InvTypes, DialogKeeps DEF ShowDialog

LEMMA DragKeeps ==
    ASSUME EditInv, Drag
    PROVE  EditInv'
<1> DEFINE m == [modal EXCEPT !.dirty = TRUE]
<1>1. modal.quad # None /\ ShowDialog(m)
  BY DEF Drag
<1>2. /\ m \in Modal /\ m.visible = modal.visible /\ m.applying = modal.applying
      /\ m.quad = modal.quad /\ m.mixed = modal.mixed /\ m.loading = modal.loading
      /\ m.calls = modal.calls
  BY InvTypes DEF Modal
<1> HIDE DEF m
<1>3. CropOf(m, crops, current) /\ QuadOf(m, current)
  BY <1>1, <1>2, InvTypes DEF CropOf, QuadOf, Waiting
<1>4. QED
  BY <1>1, <1>2, <1>3, InvTypes, DialogKeeps DEF ShowDialog

LEMMA CancelKeeps ==
    ASSUME EditInv, Cancel
    PROVE  EditInv'
<1>1. PICK d \in {FALSE, modal.dirty} :
        ShowDialog([modal EXCEPT !.visible = FALSE, !.dirty = d])
  BY DEF Cancel
<1> DEFINE m == [modal EXCEPT !.visible = FALSE, !.dirty = d]
<1>2. modal \in Modal /\ d \in BOOLEAN
  BY InvTypes DEF Modal
<1>3. /\ m \in Modal /\ ~m.visible /\ m.applying = modal.applying
      /\ m.quad = modal.quad /\ (m.dirty => modal.dirty)
  BY <1>2 DEF Modal
<1>4. ShowDialog(m)
  BY <1>1
<1> HIDE DEF m
<1>5. CropOf(m, crops, current) /\ QuadOf(m, current)
  BY <1>3, InvTypes DEF CropOf, QuadOf
<1>6. QED
  BY <1>3, <1>4, <1>5, InvTypes, DialogKeeps DEF ShowDialog

\* Save is pressed on a quad, and begins the only crop that is the dialog's own.
LEMMA ApplyKeeps ==
    ASSUME EditInv, NEW c \in CropId, Apply(c)
    PROVE  EditInv'
<1> DEFINE m == [modal EXCEPT !.applying = TRUE]
           crop == [step |-> "crop", page |-> current.id, of |-> modal.quad,
                    owner |-> "modal"]
           cs == [crops EXCEPT ![c] = crop]
<1>1. /\ Render(pages, screen, m, cs) /\ UNCHANGED Others
      /\ ~modal.applying /\ modal.dirty /\ current # None
  BY DEF Apply, AtDialog
<1>2. modal \in Modal /\ modal.quad \in Image
  BY <1>1, InvTypes DEF CropOf, Modal
<1>3. current.id \in PageId
  BY <1>1, InvTypes DEF Page
<1>4. crop \in Crop
  BY <1>2, <1>3 DEF Crop
<1>5. crop # None /\ crop.step = "crop" /\ crop.owner = "modal"
  BY <1>4
<1> HIDE DEF crop
<1>6. /\ cs \in [CropId -> Crop \cup {None}]
      /\ \A e \in CropId : cs[e] = IF e = c THEN crop ELSE crops[e]
  BY <1>4, InvTypes
<1>7. /\ m \in Modal /\ m.applying = TRUE /\ m.visible = modal.visible
      /\ m.dirty = modal.dirty /\ m.quad = modal.quad /\ m.mixed = modal.mixed
      /\ m.loading = modal.loading /\ m.calls = modal.calls
  BY <1>2 DEF Modal
<1> HIDE DEF m, cs
<1>8. \A e \in CropId : Owned(cs, e) <=> e = c
  BY <1>1, <1>5, <1>6, InvTypes DEF CropOf, Owned
<1>9. CropOf(m, cs, current)
  BY <1>1, <1>2, <1>7, <1>8, InvTypes DEF CropOf
<1>10. QuadOf(m, current)
  BY <1>7, InvTypes DEF QuadOf, Waiting
<1>11. QED
  BY <1>1, <1>6, <1>7, <1>9, <1>10, DialogKeeps

\* A crop whose computation has ended is no longer the dialog's.
LEMMA EndedCrop ==
    ASSUME EditInv, NEW c \in CropId, Cropping(c), NEW cs,
           \A e \in CropId \ {c} : cs[e] = crops[e], ~Owned(cs, c)
    PROVE  /\ \A e \in CropId : Owned(cs, e) => Owned(crops, e)
           /\ Own(c) => \A e \in CropId : ~Owned(cs, e)
           /\ ~Own(c) => \A e \in CropId : Owned(cs, e) <=> Owned(crops, e)
<1>1. Owned(crops, c) <=> Own(c)
  BY DEF Cropping, Owned, Own
<1>2. \A e \in CropId \ {c} : Owned(cs, e) <=> Owned(crops, e)
  BY DEF Owned
<1>3. Own(c) => \A e \in CropId \ {c} : ~Owned(crops, e)
  BY <1>1, InvTypes DEF CropOf
<1>4. QED
  BY <1>1, <1>2, <1>3

LEMMA CropAnswersKeeps ==
    ASSUME EditInv, NEW c \in CropId, CropAnswers(c)
    PROVE  EditInv'
<1> DEFINE cs == [crops EXCEPT ![c].step = "store"]
<1>1. Cropping(c) /\ UNCHANGED Others
  BY DEF CropAnswers
<1>2. crops[c] \in Crop
  BY <1>1, InvTypes DEF Cropping
<1>3. [crops[c] EXCEPT !.step = "store"] \in Crop
  BY <1>2 DEF Crop
<1>4. /\ cs \in [CropId -> Crop \cup {None}]
      /\ cs[c].step = "store" /\ \A e \in CropId \ {c} : cs[e] = crops[e]
  BY <1>2, <1>3, InvTypes DEF Crop
<1>5. /\ (crops[c].owner = "left" /\ Render(pages, screen, modal, cs))
         \/ Render(pages, Finished(screen),
                [modal EXCEPT !.visible = FALSE, !.dirty = @ /\ ~Own(c),
                              !.applying = @ /\ ~Own(c)], cs)
  BY DEF CropAnswers
<1> HIDE DEF cs
<1>6. /\ \A e \in CropId : Owned(cs, e) => Owned(crops, e)
      /\ Own(c) => \A e \in CropId : ~Owned(cs, e)
      /\ ~Own(c) => \A e \in CropId : Owned(cs, e) <=> Owned(crops, e)
  BY <1>1, <1>4, EndedCrop DEF Owned
<1>7. CASE crops[c].owner = "left" /\ Render(pages, screen, modal, cs)
  <2>1. CropOf(modal, cs, current)
    BY <1>6, <1>7, InvTypes DEF CropOf, Own
  <2>2. QED
    BY <1>1, <1>4, <1>7, <2>1, InvTypes, DialogKeeps
<1>8. CASE Render(pages, Finished(screen),
                  [modal EXCEPT !.visible = FALSE, !.dirty = @ /\ ~Own(c),
                                !.applying = @ /\ ~Own(c)], cs)
  <2> DEFINE m == [modal EXCEPT !.visible = FALSE, !.dirty = @ /\ ~Own(c),
                                !.applying = @ /\ ~Own(c)]
  <2>1. modal \in Modal /\ Own(c) \in BOOLEAN
    BY InvTypes DEF Own
  <2>2. /\ m \in Modal /\ m.visible = FALSE /\ m.quad = modal.quad
        /\ m.dirty = (modal.dirty /\ ~Own(c))
        /\ m.applying = (modal.applying /\ ~Own(c))
    BY <2>1 DEF Modal
  <2>3. Render(pages, Finished(screen), m, cs)
    BY <1>8
  <2> HIDE DEF m
  <2>4. CropOf(m, cs, current) /\ QuadOf(m, current)
    BY <1>6, <2>2, InvTypes DEF CropOf, QuadOf
  <2>5. QED
    BY <1>1, <1>4, <2>2, <2>3, <2>4, InvTypes, FinishedKeeps, RenderKeeps DEF Others
<1>9. QED
  BY <1>5, <1>7, <1>8

LEMMA CropRejectedKeeps ==
    ASSUME EditInv, NEW c \in CropId, CropRejected(c)
    PROVE  EditInv'
<1> DEFINE cs == [crops EXCEPT ![c] = None]
           m == [modal EXCEPT !.applying = @ /\ ~Own(c)]
<1>1. Cropping(c) /\ Render(pages, screen, m, cs) /\ UNCHANGED Others
  BY DEF CropRejected
<1>2. /\ cs \in [CropId -> Crop \cup {None}]
      /\ cs[c] = None /\ \A e \in CropId \ {c} : cs[e] = crops[e]
  BY InvTypes
<1>3. modal \in Modal /\ Own(c) \in BOOLEAN
  BY InvTypes DEF Own
<1>4. /\ m \in Modal /\ m.visible = modal.visible /\ m.quad = modal.quad
      /\ m.dirty = modal.dirty /\ m.mixed = modal.mixed
      /\ m.loading = modal.loading /\ m.calls = modal.calls
      /\ m.applying = (modal.applying /\ ~Own(c))
  BY <1>3 DEF Modal
<1> HIDE DEF cs, m
<1>5. /\ \A e \in CropId : Owned(cs, e) => Owned(crops, e)
      /\ Own(c) => \A e \in CropId : ~Owned(cs, e)
      /\ ~Own(c) => \A e \in CropId : Owned(cs, e) <=> Owned(crops, e)
  BY <1>1, <1>2, EndedCrop DEF Owned
<1>6. CropOf(m, cs, current)
  BY <1>4, <1>5, InvTypes DEF CropOf
<1>7. QuadOf(m, current)
  BY <1>4, InvTypes DEF QuadOf, Waiting
<1>8. QED
  BY <1>1, <1>2, <1>4, <1>6, <1>7, DialogKeeps

\* A crop is another picture of the same page.
LEMMA CroppedPages ==
    ASSUME EditInv, NEW c \in CropId
    PROVE  LET ps == WithCrop(pages, c)
           IN  /\ ps \in Seq(Page) /\ DOMAIN ps = DOMAIN pages /\ Distinct(ps)
               /\ \A i \in DOMAIN pages :
                     /\ ps[i] \in Page /\ ps[i].id = pages[i].id
                     /\ ps[i].rotation = pages[i].rotation
                     /\ pages[i].id # crops[c].page => ps[i] = pages[i]
<1> DEFINE ps == WithCrop(pages, c)
<1>1. \A i \in DOMAIN pages : pages[i] \in Page
  BY InvTypes, ElementOfSeq, LenProperties
<1>2. ps = [i \in DOMAIN pages |-> ps[i]]
  BY DEF WithCrop
<1>3. c \in Picture
  BY DEF Picture
<1>4. \A i \in DOMAIN pages :
          /\ ps[i] \in Page /\ ps[i].id = pages[i].id
          /\ ps[i].rotation = pages[i].rotation
          /\ pages[i].id # crops[c].page => ps[i] = pages[i]
  BY <1>1, <1>3 DEF WithCrop, Page
<1> HIDE DEF ps
<1>5. ps \in Seq(Page) /\ DOMAIN ps = DOMAIN pages /\ Distinct(ps)
  BY <1>2, <1>4, InvTypes, ChangedPages
<1>6. QED
  BY <1>4, <1>5 DEF ps

LEMMA CropStoredKeeps ==
    ASSUME EditInv, NEW c \in CropId, CropStored(c)
    PROVE  EditInv'
<1> DEFINE cs == [crops EXCEPT ![c] = None]
<1>1. PICK ps \in {pages, WithCrop(pages, c)} : Render(ps, screen, modal, cs)
  BY DEF CropStored
<1>2. UNCHANGED Others /\ crops[c].step = "store"
  BY DEF CropStored
<1>3. /\ cs \in [CropId -> Crop \cup {None}]
      /\ cs[c] = None /\ \A e \in CropId \ {c} : cs[e] = crops[e]
  BY InvTypes
<1> HIDE DEF cs
<1>4. \A e \in CropId : Owned(cs, e) <=> Owned(crops, e)
  BY <1>2, <1>3 DEF Owned
<1>5. CropOf(modal, cs, current)
  BY <1>4, InvTypes DEF CropOf
<1>6. CASE ps = pages
  BY <1>1, <1>2, <1>3, <1>5, <1>6, InvTypes, DialogKeeps
<1>7. CASE ps = WithCrop(pages, c)
  <2>1. /\ ps \in Seq(Page) /\ DOMAIN ps = DOMAIN pages /\ Distinct(ps)
        /\ \A i \in DOMAIN pages : /\ ps[i] \in Page /\ ps[i].id = pages[i].id
                                   /\ ps[i].rotation = pages[i].rotation
    BY <1>7, CroppedPages
  <2> DEFINE new == PageAt(ps, screen.index)
  <2>2. \/ /\ new # None /\ current # None
           /\ new.id = current.id /\ new.rotation = current.rotation
        \/ new = None /\ current = None
    BY <2>1, InvTypes, ElementOfSeq, LenProperties DEF PageAt
  <2>3. StoredRotation(new) = StoredRotation(current)
    BY <2>2 DEF StoredRotation
  <2>4. DraftOf(screen, new)
    <3>1. DraftOf(screen, current)
      BY InvTypes
    <3>2. (IF new = None THEN None ELSE new.id)
            = (IF current = None THEN None ELSE current.id)
      BY <2>2
    <3> HIDE DEF new
    <3>3. QED
      BY <2>3, <3>1, <3>2 DEF DraftOf
  <2>5. QED
    BY <1>1, <1>2, <1>3, <1>5, <2>1, <2>4, InvTypes, RenderKeeps DEF Others
<1>8. QED
  BY <1>6, <1>7

-----------------------------------------------------------------------------
(* The theorems.                                                           *)

LEMMA EditInit == Init => EditInv
<1> SUFFICES ASSUME Init PROVE EditInv
  OBVIOUS
<1> DEFINE p == PageAt(pages, 1)
           blank == [viewMode |-> "single", selected |-> None, index |-> 1,
                     editMode |-> FALSE, rotation |-> 0, dirty |-> FALSE,
                     page |-> None, turns |-> 0, shifted |-> FALSE]
<1>1. /\ pages = FirstPages /\ screen = Reset(blank, p)
      /\ adding = None /\ begun = 0 /\ alert = None
      /\ modal = Mounted(FALSE) /\ crops = [c \in CropId |-> None]
  BY DEF Init, Opened
<1>2. blank \in Screen /\ blank.index = 1
  BY DEF Screen, Turn
<1>3. p # None => p \in Page
  BY <1>1, PageAtType
<1> HIDE DEF blank, p
<1>4. screen \in Screen /\ screen.index = 1 /\ screen.turns = 0 /\ DraftOf(screen, p)
  BY <1>1, <1>2, <1>3, ResetKeeps
<1>5. current = p
  BY <1>4 DEF current, p
<1>6. modal \in Modal /\ ~modal.visible /\ ~modal.applying /\ ~modal.dirty
  BY <1>1, MountedType DEF Mounted
<1>7. CropOf(modal, crops, p) /\ QuadOf(modal, p)
  BY <1>1, <1>6 DEF CropOf, QuadOf, Owned
<1>8. TypeOK /\ PagesInv /\ screen.turns <= begun
  <2>1. begun \in 0 .. MaxBegun /\ screen.turns <= begun
    BY <1>1, <1>4
  <2>2. crops \in [CropId -> Crop \cup {None}]
    BY <1>1
  <2>3. TypeOK
    BY <1>1, <1>4, <1>6, <2>1, <2>2 DEF TypeOK
  <2>4. PagesInv
    BY <1>1 DEF PagesInv
  <2>5. QED
    BY <2>1, <2>3, <2>4
<1>9. QED
  BY <1>4, <1>5, <1>7, <1>8 DEF EditInv

LEMMA EditStep == EditInv /\ [Next]_vars => EditInv'
<1> SUFFICES ASSUME EditInv, [Next]_vars PROVE EditInv'
  OBVIOUS
<1>1. ASSUME NEW i \in DOMAIN pages, Swipe(i) \/ PageSelect(i)
      PROVE  EditInv'
  BY <1>1, SwipeKeeps, ViewStepsKeep
<1>2. CASE GridToggle \/ ZoomOut \/ HandleBack \/ SystemBack \/ HandleEditMode
  BY <1>2, GridToggleKeeps, ViewStepsKeep, BackKeeps, EditModeKeeps
<1>3. CASE PressRotate \/ HandleSave
  BY <1>3, PressRotateKeeps, HandleSaveKeeps
<1>4. CASE PressDeletePage
  BY <1>4, AskKeeps DEF PressDeletePage
<1>5. CASE AlertCancel \/ AlertDiscard \/ AlertSave \/ AlertDelete
  BY <1>5, AlertStepsKeep, AlertDeleteKeeps
<1>6. CASE AddPages \/ PagesAdded
  BY <1>6, AddPagesKeeps, PagesAddedKeeps
<1>7. CASE PressCrop \/ Drag \/ Cancel
  BY <1>7, PressCropKeeps, DragKeeps, CancelKeeps
<1>8. ASSUME NEW k \in DetectId, DetectAnswers(k)
      PROVE  EditInv'
  BY <1>8, DetectAnswersKeeps
<1>9. ASSUME NEW c \in CropId,
             Apply(c) \/ CropAnswers(c) \/ CropRejected(c) \/ CropStored(c)
      PROVE  EditInv'
  BY <1>9, ApplyKeeps, CropAnswersKeeps, CropRejectedKeeps, CropStoredKeeps
<1>10. CASE UNCHANGED vars
  <2>1. begun <= begun
    BY InvTypes
  <2>2. QED
    BY <1>10, <2>1, InvTypes, RestKeeps DEF vars
<1>11. QED
  BY <1>1, <1>2, <1>3, <1>4, <1>5, <1>6, <1>7, <1>8, <1>9, <1>10 DEF Next

LEMMA EditInvariant == Spec => []EditInv
BY EditInit, EditStep, PTL DEF Spec

\* Every variable keeps its type, however handlers and answers interleave.
THEOREM ScreenTypes == Spec => []TypeOK
<1>1. EditInv => TypeOK
  BY DEF EditInv
<1>2. QED
  BY <1>1, EditInvariant, PTL

\* The draft is the stored rotation of the page that is shown, turned as often as the
\* user turned it, unless pages came or went under the edit mode.
THEOREM DraftsBelong == Spec => []DraftAsSeen
BY InvImplies, EditInvariant, PTL

\* The quad on the screen was detected on the image on the screen, unless an older
\* detection had not answered.
THEOREM QuadsBelong == Spec => []QuadOfShown
BY InvImplies, EditInvariant, PTL

\* The dialog waits only for a detection or a crop that is under way.
THEOREM DialogNeverStuck == Spec => []NeverStuck
BY InvImplies, EditInvariant, PTL

\* CropsStayOnPage as a step.
CropsStay ==
    \A c \in CropId, i \in DOMAIN pages, j \in DOMAIN pages' :
        /\ crops[c] # None /\ crops'[c] = None
        /\ pages[i].id = pages'[j].id /\ pages[i] # pages'[j]
        => pages[i].id = crops[c].page

LEMMA SamePagesStay ==
    ASSUME EditInv, pages' = pages
    PROVE  CropsStay
BY InvTypes DEF CropsStay, Distinct

\* What the user does to the pages ends no crop.
LEMMA OtherChangesStay ==
    ASSUME EditInv, NEW ps \in Seq(Page), NEW s \in Screen,
           Render(ps, s, modal, crops)
    PROVE  CropsStay
<1>1. \A c \in CropId : crops'[c] = None => crops[c] = None
  BY InvTypes, RenderDialog
<1>2. QED
  BY <1>1 DEF CropsStay

LEMMA StoredStays ==
    ASSUME EditInv, NEW c \in CropId, CropStored(c)
    PROVE  CropsStay
<1> DEFINE cs == [crops EXCEPT ![c] = None]
<1>1. PICK ps \in {pages, WithCrop(pages, c)} : Render(ps, screen, modal, cs)
  BY DEF CropStored
<1>2. pages' = ps
  BY <1>1 DEF Render
<1>3. CASE ps = pages
  BY <1>2, <1>3, SamePagesStay
<1>4. CASE ps = WithCrop(pages, c)
  <2>1. crops[c].step = "store" /\ crops[c] # None
    BY DEF CropStored
  <2>2. /\ cs \in [CropId -> Crop \cup {None}]
        /\ cs[c] = None /\ \A e \in CropId \ {c} : cs[e] = crops[e]
    BY InvTypes
  <2> HIDE DEF cs
  <2>3. \A e \in CropId : Owned(cs, e) <=> Owned(crops, e)
    BY <2>1, <2>2 DEF Owned
  <2>4. CropOf(modal, cs, current)
    BY <2>3, InvTypes DEF CropOf
  <2>5. /\ ps \in Seq(Page) /\ DOMAIN ps = DOMAIN pages
        /\ \A i \in DOMAIN pages :
              /\ ps[i].id = pages[i].id
              /\ pages[i].id # crops[c].page => ps[i] = pages[i]
    BY <1>4, CroppedPages
  <2>6. \A e \in CropId : crops'[e] = None => cs[e] = None
    BY <1>1, <2>2, <2>4, <2>5, InvTypes, RenderDialog
  <2>7. \A e \in CropId \ {c} : crops'[e] = None => crops[e] = None
    BY <2>2, <2>6
  <2>8. \A i, j \in DOMAIN pages : pages[i].id = ps[j].id => i = j
    BY <2>5, InvTypes DEF Distinct
  <2>9. QED
    BY <1>2, <2>5, <2>7, <2>8 DEF CropsStay
<1>5. QED
  BY <1>3, <1>4

LEMMA CropsStayStep == EditInv /\ [Next]_vars => CropsStay
<1> SUFFICES ASSUME EditInv, [Next]_vars PROVE CropsStay
  OBVIOUS
<1>1. ASSUME NEW p, NEW r \in Turn, Save(p, r)
      PROVE  CropsStay
  <2>1. \/ pages' = pages
        \/ Render(Turned(p, r), Finished(screen), modal, crops)
    BY <1>1 DEF Save, Turned
  <2>2. Turned(p, r) \in Seq(Page) /\ Finished(screen) \in Screen
    BY InvTypes, TurnedPages, FinishedKeeps
  <2>3. QED
    BY <2>1, <2>2, SamePagesStay, OtherChangesStay
<1>2. CASE HandleSave
  BY <1>1, <1>2, InvTypes DEF HandleSave, Screen
<1>3. CASE AlertSave
  <2>1. Save(alert.page, alert.rotation) /\ alert \in Alert
    BY <1>3, InvTypes DEF AlertSave, Choose
  <2>2. alert.rotation \in Turn
    BY <2>1 DEF Alert
  <2>3. QED
    BY <1>1, <2>1, <2>2
<1>4. CASE AlertDelete
  <2>1. Render(WithoutPage(pages, alert.page.id), Under(screen), modal, crops)
    BY <1>4 DEF AlertDelete
  <2>2. WithoutPage(pages, alert.page.id) \in Seq(Page) /\ Under(screen) \in Screen
    BY InvTypes, WithoutPageKeeps, UnderKeeps
  <2>3. QED
    BY <2>1, <2>2, OtherChangesStay
<1>5. CASE PagesAdded
  <2>1. \/ pages' = pages
        \/ Render(adding \o Scanned, Under(screen), modal, crops)
    BY <1>5 DEF PagesAdded
  <2>2. adding \o Scanned \in Seq(Page) /\ Under(screen) \in Screen
    BY <1>5, InvTypes, UnderKeeps, ConcatProperties DEF PagesAdded
  <2>3. QED
    BY <2>1, <2>2, SamePagesStay, OtherChangesStay
<1>6. ASSUME NEW c \in CropId, CropStored(c)
      PROVE  CropsStay
  BY <1>6, StoredStays
<1>7. CASE \/ \E i \in DOMAIN pages : Swipe(i) \/ PageSelect(i)
           \/ GridToggle \/ ZoomOut \/ HandleBack \/ SystemBack
           \/ HandleEditMode \/ PressRotate \/ PressDeletePage
           \/ AlertCancel \/ AlertDiscard \/ AddPages
  <2>1. pages' = pages
    BY <1>7 DEF Swipe, PageSelect, GridToggle, ZoomOut, HandleBack, SystemBack,
       HandleEditMode, PressRotate, PressDeletePage, AlertCancel, AlertDiscard,
       AddPages, Show, Leave, Ask, Render
  <2>2. QED
    BY <2>1, SamePagesStay
<1>8. CASE \/ PressCrop \/ Drag \/ Cancel \/ UNCHANGED vars
           \/ \E k \in DetectId : DetectAnswers(k)
           \/ \E c \in CropId : Apply(c) \/ CropAnswers(c) \/ CropRejected(c)
  <2>1. pages' = pages
    BY <1>8 DEF PressCrop, Drag, Cancel, vars, DetectAnswers, Apply, CropAnswers,
       CropRejected, ShowDialog, Render
  <2>2. QED
    BY <2>1, SamePagesStay
<1>9. QED
  BY <1>2, <1>3, <1>4, <1>5, <1>6, <1>7, <1>8 DEF Next

\* A crop changes no page but the one whose Save was pressed, whenever it answers.
THEOREM CropsStayWhereTheyBelong == Spec => CropsStayOnPage
<1>1. EditInv /\ [Next]_vars => [CropsStay]_vars
  BY CropsStayStep
<1>2. CropsStayOnPage <=> [][CropsStay]_vars
  BY PTL DEF CropsStayOnPage, CropsStay
<1>3. QED
  BY <1>1, <1>2, EditInit, EditStep, PTL DEF Spec
=============================================================================
