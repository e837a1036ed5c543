------------------------------ MODULE DocStore ------------------------------
(***************************************************************************)
(* The documents index: src/src/types.ts and the index operations of       *)
(* src/src/storage.ts.  The index is one JSON array under the key          *)
(* 'docs-index'; every writer reads the whole array, changes it and saves  *)
(* it again without awaiting anything, so one operator below is one atomic *)
(* step.  The array's order is left out (no property is about it): the     *)
(* index is a partial function from document ids to documents.             *)
(*                                                                         *)
(* A Look is a version of what a page looks like (its image file, rotation *)
(* and filter together).  Recognised text is identified with the look it   *)
(* was read from, and a processed image with the look it was made from, so *)
(* that "the text matches the page" is an equality.                        *)
(***************************************************************************)
EXTENDS Naturals, Sequences

CONSTANTS
    DocId,      \* identifiers of documents
    PageId,     \* identifiers of pages
    Look,       \* versions of a page image
    Title,      \* document titles
    FolderId,   \* identifiers of folders
    None,       \* an absent optional field
    Blank       \* the text of a page on which nothing was recognised

ASSUME NoneAssumption ==
    /\ None \notin DocId
    /\ None \notin PageId
    /\ None \notin Look
    /\ None \notin FolderId
    /\ None # Blank

\* types.ts OcrStatus; "unset" is a document whose ocrStatus field is missing.
OcrStatus == {"unset", "idle", "running", "done", "error"}

\* types.ts OcrProgress; a missing field is 0 of 0, which no run ever writes.
OcrProgress == [processed : Nat, total : Nat]
NoProgress == [processed |-> 0, total |-> 0]

\* types.ts Page: ocrText/ocrBoxes are "text", processedUri is "processed".
Page == [id : PageId, look : Look, processed : Look \cup {None},
         text : Look \cup {None, Blank}]

\* types.ts Doc.  isPdf says that originalPdfPath is set.  The derived fields
\* ocr and ocrExcerpt are functions of the page texts that no code reads.
Doc == [title : Title, folderId : FolderId \cup {None}, isPdf : BOOLEAN,
        ocrStatus : OcrStatus, ocrProgress : OcrProgress, pages : Seq(Page)]

IsIndex(index) == DOMAIN index \subseteq DocId /\ index \in [DOMAIN index -> Doc]

-----------------------------------------------------------------------------
\* types.ts newPage: no text, no processed image.
newPage(id, look) ==
    [id |-> id, look |-> look, processed |-> None, text |-> None]

\* types.ts newDoc with its pages, as createFromScan and the importers build it.
newDoc(title, isPdf, pages) ==
    [title |-> title, folderId |-> None, isPdf |-> isPdf,
     ocrStatus |-> "unset", ocrProgress |-> NoProgress, pages |-> pages]

\* The index with d's entry written, whether or not d was there.
PutDoc(index, d, doc) ==
    [x \in DOMAIN index \cup {d} |-> IF x = d THEN doc ELSE index[x]]

RemoveDoc(index, d) == [x \in DOMAIN index \ {d} |-> index[x]]

\* Replace d's entry when there is one: queue.ts updateDocumentOcrState and
\* storage.ts moveDocToFolder give up on a document that is gone.
UpdateDoc(index, d, doc) ==
    IF d \in DOMAIN index THEN [index EXCEPT ![d] = doc] ELSE index

\* The sequence without its element at a position.
DropAt(q, at) ==
    [i \in 1 .. Len(q) - 1 |-> q[IF i < at THEN i ELSE i + 1]]

Status(index, d) == index[d].ocrStatus
=============================================================================
