----------------------------- MODULE PageFiles -----------------------------
(***************************************************************************)
(* The files of a document: putPageFile, putOriginalPdf and removeDocFiles *)
(* of src/src/storage.ts with everything that calls them (scans, imports,  *)
(* added pages, crops, the filters of the OCR queue, deletion), and the    *)
(* choice that src/src/pdf.ts makes among the files on export.             *)
(*                                                                         *)
(* A page's file is named after the position of the page when the file is  *)
(* written: "page-003.jpg" is <<3, "jpg">>.  Copying to a name that exists *)
(* overwrites it on Android and fails on iOS (react-native-fs); imports    *)
(* and deletions are offered by iOS action sheets only.  What a file holds *)
(* is the page it was taken of, cropped or not, turned or not; resizing    *)
(* and re-encoding do not change that.                                     *)
(*                                                                         *)
(* The screens show docs, React's documents.  The OCR queue reads and      *)
(* writes the index, and so does an export; every change of docs is saved  *)
(* over the whole index with it, and at other times again (Save).  That an *)
(* old render may be saved for the length of a frame is left to Library.   *)
(***************************************************************************)
EXTENDS Naturals, Sequences, Functions

CONSTANTS
    DocId, PageId,
    Png,        \* pages whose picked image is a .png; all others are .jpg
    Picks,      \* the documents that may be scanned or made from photos
    Batches,    \* the lists of files that may be picked together
    Additions,  \* the lists of pages that may be added
    Editable,   \* the pages that the user rotates and crops
    Turns,      \* how many ways a page can be turned: 4 in the code
    OpId,       \* slots for the handlers that await something
    MaxPages,   \* bound on the pages of a document
    MaxBegun,   \* bound on the handlers that are begun
    None

Item == [doc : DocId, isPdf : BOOLEAN, named : BOOLEAN, pages : Seq(PageId)]

VARIABLES
    overwrites, \* the platform's copy overwrites: it is Android
    filters,    \* the native module ImageFilters is there, which turns images
    docs,       \* React's documents, with their pages
    index,      \* the documents of the index
    files,      \* the directory of each document: names to contents
    ops,        \* the handlers that await a file operation
    begun,      \* how many have been begun
    removing,   \* documents whose removeDocFiles is to come
    used,       \* ids of documents and pages that have been given
    cropped,    \* history: pages of a document whose crop has been applied
    past        \* history: what else happened to a document

platform == <<overwrites, filters>>

vars ==
    <<platform, docs, index, files, ops, begun, removing, used, cropped, past>>

\* "mixed": a page was deleted, two handlers wrote files at once, or the app died
\* in the middle of a crop, so that names no longer say whose a file is.
\* "added": pages were added.  "skipped": the rasteriser left out a page.
\* "turned": a page was rotated.  "reverted": the app was launched with pages of
\* the index that were not those shown.
\* "left": what was making it failed.  "cut": the app died while it was made or
\* before its files were removed.  "late": it was deleted under a handler.
Event == {"mixed", "added", "skipped", "turned", "reverted", "left", "cut", "late"}

Rotation == 0 .. Turns - 1

Image == [page : PageId, cropped : BOOLEAN, turned : Rotation]

Taken(p) == [page |-> p, cropped |-> FALSE, turned |-> 0]

\* An image as it looks when it is rotated.
Look(image, rotation) == [image EXCEPT !.turned = (@ + rotation) % Turns]

Ext(p) == IF p \in Png THEN "png" ELSE "jpg"

FileName == (Nat \ {0}) \X {"jpg", "png"}

PageIds(d) ==
    IF d \in DOMAIN docs THEN {docs[d].pages[i].id : i \in DOMAIN docs[d].pages}
    ELSE {}

\* The name of the imported PDF: the one file that is not a page's.
Original == <<0, "pdf">>

Page == [id : PageId, file : FileName, processed : FileName \cup {None},
         rotation : Rotation]

\* What enqueueDoc looks at: "idle" stands for a document without status, too.
Status == {"idle", "running", "done"}

Doc == [isPdf : BOOLEAN, pages : Seq(Page), status : Status]

Imported == [doc : DocId, isPdf : BOOLEAN, pages : Seq(Page)]

\* What a handler captured and what it has done: it copies pages (base are those that
\* are there, got those it has copied), imports files (rest are to be opened, ready
\* is what importedDocs holds, opened says that the loop has reached its declaration
\* of pages before), stores a crop of an image, or runs OCR: base is its copy of
\* the pages, next the page it reads, 0 while it filters their images.
CopyOp == [kind : {"scan", "photos", "add"}, doc : DocId, isPdf : BOOLEAN,
           base : Seq(Page), todo : Seq(PageId), got : Seq(Page)]

FilesOp == [kind : {"files"}, doc : DocId \cup {None}, isPdf : BOOLEAN,
            base : {<<>>}, todo : Seq(PageId), got : Seq(Page),
            rest : Seq(Item), ready : Seq(Imported), opened : BOOLEAN]

CropOp == [kind : {"crop"}, doc : DocId, at : Nat \ {0}, image : Image,
           copied : BOOLEAN]

RunOp == [kind : {"run"}, doc : DocId, base : Seq(Page), images : Seq(Image),
          left : SUBSET (Nat \ {0}), done : SUBSET (Nat \ {0}), next : Nat]

Op == CopyOp \cup FilesOp \cup CropOp \cup RunOp

ASSUME FilesAssumption ==
    /\ Png \subseteq PageId
    /\ Picks \subseteq Item
    /\ Batches \subseteq Seq(Item)
    /\ \A batch \in Batches : \A i \in DOMAIN batch :  \* PDFRasterizer makes .jpg
          batch[i].isPdf => Range(batch[i].pages) \cap Png = {}
    /\ Additions \subseteq Seq(PageId)
    /\ Editable \subseteq PageId
    /\ Turns \in Nat \ {0}
    /\ MaxPages \in Nat /\ MaxBegun \in Nat
    /\ None \notin DocId \cup Op

\* Ids are given once (types.ts newDoc, newPage): those of pages have a random part,
\* and a file is copied between the documents of one import.
ASSUME FreshAssumption ==
    /\ \A item \in Picks : IsInjective(item.pages)
    /\ \A pages \in Additions : IsInjective(pages)
    /\ \A batch \in Batches : \A i, j \in DOMAIN batch :
          /\ IsInjective(batch[i].pages)
          /\ i # j => /\ batch[i].doc # batch[j].doc
                     /\ Range(batch[i].pages) \cap Range(batch[j].pages) = {}

newPage(p, name) == [id |-> p, file |-> name, processed |-> None, rotation |-> 0]

Marked(d, event) == [past EXCEPT ![d] = @ \cup {event}]

MarkedAll(ds, event) ==
    [d \in DocId |-> IF d \in ds THEN past[d] \cup {event} ELSE past[d]]

Running == {o \in OpId : ops[o] # None}

Busy(d) == \E o \in Running : ops[o].doc = d

\* A handler that is still to write files: not a run that reads.
Writes(op) == op.kind = "run" => op.next = 0

Writing(d) == \E o \in Running : ops[o].doc = d /\ Writes(ops[o])

OnIOS == ~overwrites

\* A handler begins.
Starts(o) == ops[o] = None /\ begun < MaxBegun /\ begun' = begun + 1

\* A handler begins that writes files of a document that is shown.
Overlaps(d) == past' = IF Writing(d) THEN Marked(d, "mixed") ELSE past

\* React's documents change: every updater saves what it returns.
SetDocs(next) == docs' = next /\ index' = next

\* A directory or index with one entry written.
Put(f, x, value) == [y \in DOMAIN f \cup {x} |-> IF y = x THEN value ELSE f[y]]

\* The documents that an import of files has made so far.
ReadyDocs(op) == {op.ready[i].doc : i \in DOMAIN op.ready}

\* The documents a handler was making, those imported but not handed over included.
Making(op) ==
    CASE op.kind \in {"scan", "photos"} -> {op.doc}
      [] op.kind = "files" -> {op.doc} \cup ReadyDocs(op)
      [] OTHER -> {}

\* storage.ts putPageFile, up to the copy.  It makes the directory if need be.
PutPageFile(d, name, image) ==
    /\ overwrites \/ name \notin DOMAIN files[d]
    /\ files' = [files EXCEPT ![d] = Put(@, name, image)]

NoFiles == [name \in {} |-> None]

-----------------------------------------------------------------------------
\* Scans, imports and added pages copy one page after the other.
Copying == {"scan", "photos", "files", "add"}

\* Mutated form: the pages that are there are not counted.
NameFromOne(op) == <<Len(op.got) + 1, Ext(Head(op.todo))>>

\* The name of the next copy: doc.pages.length + i, pages.length or i.
NextName(op) == <<Len(op.base) + Len(op.got) + 1, Ext(Head(op.todo))>>

\* The ids that become used when a list of documents is made.
BatchIds(batch) ==
    {batch[i].doc : i \in DOMAIN batch}
    \cup UNION {Range(batch[i].pages) : i \in DOMAIN batch}

\* The scanner makes .jpg files.
FromScanner(pages) == Range(pages) \cap Png = {}

\* createFromScan and importFromPhotos.
BeginScan(o, kind, item) ==
    /\ Starts(o)
    /\ kind = "photos" => OnIOS
    /\ BatchIds(<<item>>) \cap used = {}
    /\ kind = "scan" => FromScanner(item.pages)
    /\ ops' = [ops EXCEPT ![o] =
                  [kind |-> kind, doc |-> item.doc, isPdf |-> FALSE, base |-> <<>>,
                   todo |-> item.pages, got |-> <<>>]]
    /\ used' = used \cup BatchIds(<<item>>)
    /\ UNCHANGED <<platform, docs, index, files, removing, cropped, past>>

\* handleAddPages, with the document its render showed.
BeginAdd(o, d, pages) ==
    /\ Starts(o)
    /\ d \in DOMAIN docs
    /\ FromScanner(pages) /\ Range(pages) \cap used = {}
    /\ Len(docs[d].pages) + Len(pages) <= MaxPages
    /\ ops' = [ops EXCEPT ![o] =
                  [kind |-> "add", doc |-> d, isPdf |-> docs[d].isPdf,
                   base |-> docs[d].pages, todo |-> pages, got |-> <<>>]]
    /\ used' = used \cup Range(pages)
    /\ Overlaps(d)
    /\ UNCHANGED <<platform, docs, index, files, removing, cropped>>

CopyPage(o) ==
    /\ o \in Running
    /\ LET op == ops[o]
       IN  /\ op.kind \in Copying /\ op.doc # None /\ op.todo # <<>>
           /\ PutPageFile(op.doc, NextName(op), Taken(Head(op.todo)))
           /\ ops' = [ops EXCEPT
                  ![o].todo = Tail(@),
                  ![o].got = Append(@, newPage(Head(op.todo), NextName(op)))]
    /\ UNCHANGED <<platform, begun, docs, index, removing, used, cropped, past>>

\* Mutated form: one file that fails ends the import.
CopyFailsAll(o) ==
    /\ o \in Running
    /\ ops[o].kind \in Copying /\ ops[o].doc # None /\ ops[o].todo # <<>>
    /\ ops' = [ops EXCEPT ![o] = None]
    /\ past' = MarkedAll(Making(ops[o]), "left")
    /\ UNCHANGED <<platform, begun, docs, index, files, removing, used, cropped>>

\* A copy fails.  A photo is skipped; a picked file is dropped and the next one
\* is opened; a scan and an addition end.  Files already copied stay.
CopyFails(o) ==
    /\ o \in Running
    /\ ops[o].kind \in Copying /\ ops[o].doc # None /\ ops[o].todo # <<>>
    /\ LET op == ops[o]
       IN  CASE op.kind = "photos" ->
                  ops' = [ops EXCEPT ![o].todo = Tail(@)] /\ past' = past
             [] op.kind = "files" ->
                  /\ ops' = [ops EXCEPT ![o].doc = None]
                  /\ past' = Marked(op.doc, "left")
             [] op.kind = "scan" ->
                  ops' = [ops EXCEPT ![o] = None] /\ past' = Marked(op.doc, "left")
             [] op.kind = "add" ->
                  ops' = [ops EXCEPT ![o] = None] /\ past' = past
    /\ UNCHANGED <<platform, begun, docs, index, files, removing, used, cropped>>

NewDoc(isPdf, pages) == [isPdf |-> isPdf, pages |-> pages, status |-> "idle"]

\* The documents with one made, or with all pages of one replaced.
Made(op) ==
    IF op.kind # "add" THEN Put(docs, op.doc, NewDoc(FALSE, op.got))
    ELSE [docs EXCEPT ![op.doc].pages = op.base \o op.got]

\* All pages are copied.  Photos of which none could be copied make no document;
\* an addition to a document that is gone changes nothing.
Finish(o) ==
    /\ o \in Running
    /\ ops[o].kind \in Copying \ {"files"} /\ ops[o].todo = <<>>
    /\ LET op == ops[o]
           given == IF op.kind = "add" THEN op.doc \in DOMAIN docs
                    ELSE op.got # <<>>
       IN  /\ IF given THEN SetDocs(Made(op)) ELSE UNCHANGED <<docs, index>>
           /\ past' = IF op.kind = "add" THEN Marked(op.doc, "added") ELSE past
    /\ ops' = [ops EXCEPT ![o] = None]
    /\ UNCHANGED <<platform, begun, files, removing, used, cropped>>

-----------------------------------------------------------------------------
\* importFromFiles.
BeginFiles(o, batch) ==
    /\ Starts(o) /\ OnIOS
    /\ BatchIds(batch) \cap used = {}
    /\ ops' = [ops EXCEPT ![o] =
                  [kind |-> "files", doc |-> None, isPdf |-> FALSE, base |-> <<>>,
                   todo |-> <<>>, got |-> <<>>, rest |-> batch, ready |-> <<>>,
                   opened |-> FALSE]]
    /\ used' = used \cup BatchIds(batch)
    /\ UNCHANGED <<platform, docs, index, files, removing, cropped, past>>

Opening(o) == o \in Running /\ ops[o].kind = "files" /\ ops[o].doc = None

\* A list without some of its elements: those at the places that are kept.
Sublists(s) ==
    {[i \in DOMAIN at |-> s[at[i]]] :
        at \in UNION {{at \in [1 .. n -> DOMAIN s] :
                          \A i, j \in 1 .. n : i < j => at[i] < at[j]} :
                      n \in 0 .. Len(s)}}

\* A file is opened: a PDF is copied whole and rasterised, which may leave out
\* pages.  For a file without a name, line 118 reads a variable declared below.
OpenFile(o) ==
    /\ Opening(o) /\ ops[o].rest # <<>>
    /\ LET item == Head(ops[o].rest)
       IN  /\ item.named \/ ops[o].opened
           /\ \E pages \in Sublists(item.pages) :
                 /\ item.isPdf \/ pages = item.pages
                 /\ ops' = [ops EXCEPT
                        ![o].doc = item.doc, ![o].isPdf = item.isPdf,
                        ![o].todo = pages, ![o].got = <<>>,
                        ![o].rest = Tail(@), ![o].opened = TRUE]
                 /\ past' = IF pages = item.pages THEN past
                            ELSE Marked(item.doc, "skipped")
           /\ files' = IF item.isPdf
                       THEN [files EXCEPT ![item.doc] = Put(@, Original, item.pages)]
                       ELSE files
    /\ UNCHANGED <<platform, begun, docs, index, removing, used, cropped>>

\* There is no readable file.
SkipFile(o) ==
    /\ Opening(o) /\ ops[o].rest # <<>>
    /\ ops' = [ops EXCEPT ![o].rest = Tail(@)]
    /\ UNCHANGED <<platform, begun, docs, index, files, removing, used, cropped, past>>

\* There is no rasteriser, or the PDF cannot be read, before or after it is copied.
SkipPdf(o) ==
    /\ Opening(o) /\ ops[o].rest # <<>>
    /\ LET item == Head(ops[o].rest)
       IN  /\ item.isPdf /\ (item.named \/ ops[o].opened)
           /\ \/ UNCHANGED <<files, past>>
              \/ /\ files' = [files EXCEPT ![item.doc] = Put(@, Original, item.pages)]
                 /\ past' = Marked(item.doc, "left")
    /\ ops' = [ops EXCEPT ![o].rest = Tail(@), ![o].opened = TRUE]
    /\ UNCHANGED <<platform, begun, docs, index, removing, used, cropped>>

CloseFile(o) ==
    /\ o \in Running /\ ops[o].kind = "files"
    /\ ops[o].doc # None /\ ops[o].todo = <<>>
    /\ ops' = [ops EXCEPT ![o].doc = None,
                  ![o].ready = Append(@, [doc |-> ops[o].doc, isPdf |-> ops[o].isPdf,
                                          pages |-> ops[o].got])]
    /\ UNCHANGED <<platform, begun, docs, index, files, removing, used, cropped, past>>

\* Line 118 throws for a file without a name: the whole import is given up.
NamelessFile(o) ==
    /\ Opening(o) /\ ops[o].rest # <<>> /\ ~Head(ops[o].rest).named
    /\ ops' = [ops EXCEPT ![o] = None]
    /\ past' = MarkedAll(ReadyDocs(ops[o]), "left")
    /\ UNCHANGED <<platform, begun, docs, index, files, removing, used, cropped>>

\* The library takes the documents that were imported.
HandOver(o) ==
    /\ Opening(o) /\ ops[o].rest = <<>>
    /\ LET ready == ops[o].ready
           made(d) == ready[CHOOSE i \in DOMAIN ready : ready[i].doc = d]
       IN  SetDocs([d \in DOMAIN docs \cup ReadyDocs(ops[o]) |->
                       IF d \in ReadyDocs(ops[o])
                       THEN NewDoc(made(d).isPdf, made(d).pages)
                       ELSE docs[d]])
    /\ ops' = [ops EXCEPT ![o] = None]
    /\ UNCHANGED <<platform, begun, files, removing, used, cropped, past>>

-----------------------------------------------------------------------------
\* handleApplyCrop: the position is that of the page in the render in which the
\* crop was begun; then the file is copied, then the page is changed.
BeginCrop(o, d, i) ==
    /\ Starts(o)
    /\ d \in DOMAIN docs /\ i \in DOMAIN docs[d].pages
    /\ docs[d].pages[i].id \in Editable
    /\ ops' = [ops EXCEPT ![o] = [kind |-> "crop", doc |-> d, at |-> i,
                  image |-> [page |-> docs[d].pages[i].id, cropped |-> TRUE,
                             turned |-> files[d][docs[d].pages[i].file].turned],
                  copied |-> FALSE]]
    /\ Overlaps(d)
    /\ UNCHANGED <<platform, docs, index, files, removing, used, cropped>>


CropName(op) == <<op.at, "jpg">>

CropCopies(o) ==
    /\ o \in Running /\ ops[o].kind = "crop" /\ ~ops[o].copied
    /\ PutPageFile(ops[o].doc, CropName(ops[o]), ops[o].image)
    /\ ops' = [ops EXCEPT ![o].copied = TRUE]
    /\ UNCHANGED <<platform, begun, docs, index, removing, used, cropped, past>>

\* handleApplyPageEdits: the page, if it is still there, gets the new file.
CropApplies(o) ==
    /\ o \in Running /\ ops[o].kind = "crop" /\ ops[o].copied
    /\ LET op == ops[o]
           p == op.image.page
       IN  /\ SetDocs([d \in DOMAIN docs |-> IF d # op.doc THEN docs[d] ELSE
                  [docs[d] EXCEPT !.pages = [i \in DOMAIN @ |->
                      IF @[i].id = p THEN [@[i] EXCEPT !.file = CropName(op)]
                      ELSE @[i]]]])
           /\ cropped' = IF p \in PageIds(op.doc) THEN cropped \cup {p} ELSE cropped
    /\ ops' = [ops EXCEPT ![o] = None]
    /\ UNCHANGED <<platform, begun, files, removing, used, past>>

\* "Crop failed".
CropFails(o) ==
    /\ o \in Running /\ ops[o].kind = "crop" /\ ~ops[o].copied
    /\ ops' = [ops EXCEPT ![o] = None]
    /\ UNCHANGED <<platform, begun, docs, index, files, removing, used, cropped, past>>

-----------------------------------------------------------------------------
\* processDocument begins, one run at a time, with a document that enqueueDoc let
\* in: it takes its pages from the index.  Those of a document that is no PDF are
\* filtered first, all at once, but for those that have a processed image.
BeginRun(o, d) ==
    /\ Starts(o)
    /\ \A x \in Running : ops[x].kind # "run"
    /\ d \in DOMAIN index /\ index[d].status = "idle" /\ index[d].pages # <<>>
    /\ LET pages == index[d].pages
           left == {i \in DOMAIN pages : pages[i].processed = None}
           run == [kind |-> "run", doc |-> d, base |-> pages, images |-> <<>>,
                   left |-> {}, done |-> {}, next |-> 1]
           images == [i \in DOMAIN pages |-> files[d][pages[i].file]]
       IN  IF index[d].isPdf
           THEN ops' = [ops EXCEPT ![o] = run] /\ past' = past
           ELSE /\ ops' = [ops EXCEPT ![o] = [run EXCEPT !.images = images,
                                                 !.left = left, !.next = 0]]
                /\ Overlaps(d)
    /\ index' = [index EXCEPT ![d].status = "running"]
    /\ UNCHANGED <<platform, docs, files, removing, used, cropped>>

\* Mutated form: the first page is page 0.
ProcessedNameFromZero(i) == <<i - 1, "jpg">>

ProcessedName(i) == <<i, "jpg">>

\* ImageFilters.process, if there is such a module.
Filtered(image, page) == IF filters THEN Look(image, page.rotation) ELSE image

\* applyFinalFilterToPage stores what it made of the image it read.
FilterPage(o, i) ==
    /\ o \in Running /\ ops[o].kind = "run" /\ i \in ops[o].left
    /\ PutPageFile(ops[o].doc, ProcessedName(i),
                   Filtered(ops[o].images[i], ops[o].base[i]))
    /\ ops' = [ops EXCEPT ![o].left = @ \ {i}, ![o].done = @ \cup {i}]
    /\ UNCHANGED <<platform, begun, docs, index, removing, used, cropped, past>>

FilterFails(o, i) ==
    /\ o \in Running /\ ops[o].kind = "run" /\ i \in ops[o].left
    /\ ops' = [ops EXCEPT ![o].left = @ \ {i}]
    /\ UNCHANGED <<platform, begun, docs, index, files, removing, used, cropped, past>>

\* updateDocumentOcrState: a run writes its copy of the pages over those of the
\* index, if the document is still there, and in the end that it is done.
WritePages(op, pages, ends) ==
    index' = [d \in DOMAIN index |-> IF d # op.doc THEN index[d] ELSE
                [index[d] EXCEPT !.pages = pages,
                                 !.status = IF ends THEN "done" ELSE @]]

FiltersEnd(o) ==
    /\ o \in Running /\ ops[o].kind = "run" /\ ops[o].next = 0 /\ ops[o].left = {}
    /\ LET op == ops[o]
           pages == [i \in DOMAIN op.base |->
                        IF i \in op.done
                        THEN [op.base[i] EXCEPT !.processed = ProcessedName(i)]
                        ELSE op.base[i]]
       IN  /\ WritePages(op, pages, FALSE)
           /\ ops' = [ops EXCEPT ![o] = [op EXCEPT !.base = pages, !.images = <<>>,
                                            !.done = {}, !.next = 1]]
    /\ UNCHANGED <<platform, begun, docs, files, removing, used, cropped, past>>

\* A page is read, or cannot be; the last one ends the run.
PageRead(o) ==
    /\ o \in Running /\ ops[o].kind = "run" /\ ops[o].next > 0
    /\ LET op == ops[o]
           ends == op.next = Len(op.base)
       IN  /\ WritePages(op, op.base, ends)
           /\ ops' = [ops EXCEPT ![o] = IF ends THEN None
                                        ELSE [op EXCEPT !.next = @ + 1]]
    /\ UNCHANGED <<platform, begun, docs, files, removing, used, cropped, past>>

-----------------------------------------------------------------------------
\* React's documents are saved over the index: by the effect after a render, which
\* any change of the library causes, and when the app goes to the background.
Save ==
    /\ index # docs
    /\ index' = docs
    /\ UNCHANGED <<platform, begun, docs, files, ops, removing, used, cropped, past>>

\* handleApplyPageEdits with a rotation.
Rotate(d, i, rotation) ==
    /\ d \in DOMAIN docs /\ i \in DOMAIN docs[d].pages
    /\ docs[d].pages[i].id \in Editable
    /\ docs[d].pages[i].rotation # rotation
    /\ SetDocs([docs EXCEPT ![d].pages[i].rotation = rotation])
    /\ past' = Marked(d, "turned")
    /\ UNCHANGED <<platform, begun, files, ops, removing, used, cropped>>

\* The document's pages but the one at i, the only one with its id.
PagesBut(d, i) ==
    LET pages == docs[d].pages
    IN  [j \in 1 .. Len(pages) - 1 |-> IF j < i THEN pages[j] ELSE pages[j + 1]]

\* Mutated form: the file goes with the page.
DeletePageAndFile(d, i) ==
    /\ d \in DOMAIN docs /\ i \in DOMAIN docs[d].pages
    /\ SetDocs([docs EXCEPT ![d].pages = PagesBut(d, i)])
    /\ files' = [files EXCEPT ![d] = [name \in DOMAIN @ \ {docs[d].pages[i].file} |->
                                         @[name]]]
    /\ past' = Marked(d, "mixed")
    /\ UNCHANGED <<platform, begun, ops, removing, used, cropped>>

\* handleDeletePage: the file stays.
DeletePage(d, i) ==
    /\ d \in DOMAIN docs /\ i \in DOMAIN docs[d].pages
    /\ SetDocs([docs EXCEPT ![d].pages = PagesBut(d, i)])
    /\ past' = Marked(d, "mixed")
    /\ UNCHANGED <<platform, begun, files, ops, removing, used, cropped>>

\* deleteDoc, and the removeDocFiles it ends with.
DeleteDoc(d) ==
    /\ OnIOS
    /\ d \in DOMAIN docs
    /\ SetDocs([x \in DOMAIN docs \ {d} |-> docs[x]])
    /\ removing' = removing \cup {d}
    /\ past' = [past EXCEPT ![d] = IF Writing(d) THEN {"late"} ELSE {}]
    /\ cropped' = cropped \ PageIds(d)
    /\ UNCHANGED <<platform, begun, files, ops, used>>

\* Mutated form: only the pages' own files are removed.
RemovePageFiles(d) ==
    /\ d \in removing
    /\ files' = [files EXCEPT ![d] = [name \in DOMAIN @ \cap {Original} |-> @[name]]]
    /\ removing' = removing \ {d}
    /\ UNCHANGED <<platform, begun, docs, index, ops, used, cropped, past>>

RemoveDocFiles(d) ==
    /\ d \in removing
    /\ files' = [files EXCEPT ![d] = NoFiles]
    /\ removing' = removing \ {d}
    /\ UNCHANGED <<platform, begun, docs, index, ops, used, cropped, past>>

\* What is stored of a document is what is shown of it, processed images apart.
Plain(pages) == [i \in DOMAIN pages |-> [pages[i] EXCEPT !.processed = None]]

Stored(d) == Plain(index[d].pages) = Plain(docs[d].pages)

\* The process dies and is launched again: handlers are gone, files stay, and the
\* documents are those of the index.
Relaunch ==
    /\ Running # {} \/ removing # {} \/ docs # index
    /\ docs' = index
    /\ ops' = [o \in OpId |-> None]
    /\ removing' = {}
    /\ past' = [d \in DocId |-> past[d]
          \cup (IF d \in removing \/ \E o \in Running : d \in Making(ops[o])
                THEN {"cut"} ELSE {})
          \cup (IF \E o \in Running : ops[o].kind = "crop" /\ ops[o].doc = d
                                      /\ ops[o].copied
                THEN {"mixed"} ELSE {})
          \cup (IF d \in DOMAIN docs /\ ~Stored(d) THEN {"reverted"} ELSE {})]
    /\ UNCHANGED <<platform, begun, index, files, used, cropped>>

-----------------------------------------------------------------------------
Init ==
    /\ overwrites \in BOOLEAN /\ filters \in BOOLEAN
    /\ docs = NoFiles /\ index = NoFiles
    /\ files = [d \in DocId |-> NoFiles]
    /\ ops = [o \in OpId |-> None]
    /\ begun = 0 /\ removing = {} /\ used = {} /\ cropped = {}
    /\ past = [d \in DocId |-> {}]

Next ==
    \/ \E o \in OpId :
          \/ \E kind \in {"scan", "photos"}, item \in Picks : BeginScan(o, kind, item)
          \/ \E d \in DocId, pages \in Additions : BeginAdd(o, d, pages)
          \/ \E batch \in Batches : BeginFiles(o, batch)
          \/ \E d \in DocId, i \in 1 .. MaxPages : BeginCrop(o, d, i)
          \/ \E d \in DocId : BeginRun(o, d)
          \/ CopyPage(o) \/ CopyFails(o) \/ Finish(o)
          \/ OpenFile(o) \/ SkipFile(o) \/ SkipPdf(o) \/ CloseFile(o) \/ NamelessFile(o)
          \/ HandOver(o)
          \/ CropCopies(o) \/ CropApplies(o) \/ CropFails(o)
          \/ \E i \in 1 .. MaxPages : FilterPage(o, i) \/ FilterFails(o, i)
          \/ FiltersEnd(o) \/ PageRead(o)
    \/ \E d \in DocId :
          \/ DeleteDoc(d) \/ RemoveDocFiles(d)
          \/ \E i \in 1 .. MaxPages :
                DeletePage(d, i) \/ \E rotation \in Rotation : Rotate(d, i, rotation)
    \/ Save \/ Relaunch

Spec == Init /\ [][Next]_vars

-----------------------------------------------------------------------------
\* handleExport takes the document from the index; pdf.ts hasVisualEdits.
HasVisualEdits(d) == \E i \in DOMAIN index[d].pages : index[d].pages[i].rotation # 0

\* The image of a page that is exported: the processed one, if there is one, or what
\* the filters make of the page's.
ExportImage(d, page) ==
    IF page.processed # None THEN files[d][page.processed]
    ELSE Filtered(files[d][page.file], page)

\* buildPdfFromImages: the images of the PDF that an export would give now.
Exported(d) ==
    IF index[d].isPdf /\ ~HasVisualEdits(d) /\ Original \in DOMAIN files[d]
    THEN [i \in DOMAIN files[d][Original] |-> Taken(files[d][Original][i])]
    ELSE [i \in DOMAIN index[d].pages |-> ExportImage(d, index[d].pages[i])]

\* What the user sees of a document: its files, turned by the screen.
Shown(d) ==
    [i \in DOMAIN docs[d].pages |->
        Look(files[d][docs[d].pages[i].file], docs[d].pages[i].rotation)]

-----------------------------------------------------------------------------
TypeOK ==
    /\ overwrites \in BOOLEAN /\ filters \in BOOLEAN
    /\ DOMAIN docs \subseteq DocId /\ \A d \in DOMAIN docs : docs[d] \in Doc
    /\ DOMAIN index = DOMAIN docs /\ \A d \in DOMAIN index : index[d] \in Doc
    /\ DOMAIN files = DocId
    /\ \A d \in DocId : \A name \in DOMAIN files[d] :
          \/ name \in FileName /\ files[d][name] \in Image
          \/ name = Original /\ files[d][name] \in Seq(PageId)
    /\ ops \in [OpId -> Op \cup {None}]
    /\ begun \in 0 .. MaxBegun
    /\ removing \subseteq DocId
    /\ used \subseteq DocId \cup PageId /\ cropped \subseteq PageId
    /\ past \in [DocId -> SUBSET Event]

\* Documents whose page names still say which page they belong to, and of which
\* nothing is being written.
Undisturbed(d) == "mixed" \notin past[d] /\ ~Writing(d)

\* Every page that is shown or stored has its file, and its processed image if it
\* says so, although documents are deleted while handlers write them, an addition
\* puts back pages that were deleted meanwhile, and a run stores old pages again.
PagesHaveFiles ==
    \A d \in DOMAIN docs : \A pages \in {docs[d].pages, index[d].pages} :
        \A i \in DOMAIN pages :
            /\ pages[i].file \in DOMAIN files[d]
            /\ pages[i].processed # None => pages[i].processed \in DOMAIN files[d]

\* Names come from positions, and crops, filters and additions choose them
\* without looking: still every page that is shown has its own image, as it was
\* last cropped, as long as no page was deleted, no two handlers overlapped and
\* no launch took back a crop that a run of the queue had overwritten.
OwnImages ==
    \A d \in DOMAIN docs : Undisturbed(d) =>
        \A i \in DOMAIN docs[d].pages :
            LET page == docs[d].pages[i]
                image == files[d][page.file]
            IN  /\ image.page = page.id
                /\ "reverted" \notin past[d] =>
                      (image.cropped <=> page.id \in cropped)

\* What a rotation can do to an export: there may be no module to turn images, and
\* an image that was processed before is exported as it is (pdf.ts:44).
RotationsHarmless(d) ==
    /\ HasVisualEdits(d) => filters
    /\ "turned" \in past[d] =>
          \A i \in DOMAIN index[d].pages : index[d].pages[i].processed = None


\* "Save data whenever it changes to ensure persistence": once no handler and no
\* run has a document in hand, its pages are stored as they are shown.
ShownIsStored == \A d \in DOMAIN docs : Busy(d) \/ Stored(d)

\* Files are of a document, of a handler that makes one or of a deletion that
\* has not come to them; left behind are only those of a document whose making
\* or removal was cut short, and those written after the deletion.
FilesBelong ==
    \A d \in DocId : files[d] # NoFiles =>
        \/ d \in DOMAIN docs \cup removing
        \/ \E o \in Running : d \in Making(ops[o]) \cup {ops[o].doc}
        \/ past[d] \cap {"left", "cut", "late"} # {}

\* When an import of several files ends, every file that was read is a document,
\* whichever of the others failed, unless a file had no name or the app died.
FinishedFilesKept ==
    [][\A o \in Running :
          /\ ops[o].kind = "files" /\ ops'[o] = None
          /\ ops[o].rest = <<>> \/ Head(ops[o].rest).named
          => \A d \in ReadyDocs(ops[o]) :
                d \in DOMAIN docs' \/ "cut" \in past'[d]]_vars
=============================================================================
