----------------------------- MODULE MCOcrQueue -----------------------------
(***************************************************************************)
(* Model checking of OcrQueue: documents of up to MaxPages pages, scanned  *)
(* or imported, as the app holds them (types.ts newDoc).                   *)
(***************************************************************************)
EXTENDS OcrQueue, TLC

CONSTANTS Pg1, Pg2

MCPage(p) == newPage(p, CHOOSE look \in Look : TRUE)

\* No page, one page, two pages; a scan or an imported PDF.
MCDocs ==
    {newDoc(CHOOSE t \in Title : TRUE, isPdf, pages) :
        isPdf \in BOOLEAN,
        pages \in {<<>>, <<MCPage(Pg1)>>, <<MCPage(Pg1), MCPage(Pg2)>>}}

\* A scan of one page and an imported PDF of two, for the larger runs.
MCSmallDocs ==
    {newDoc(CHOOSE t \in Title : TRUE, FALSE, <<MCPage(Pg1)>>),
     newDoc(CHOOSE t \in Title : TRUE, TRUE, <<MCPage(Pg1), MCPage(Pg2)>>)}

\* A scan of one page.
MCOneDoc == {newDoc(CHOOSE t \in Title : TRUE, FALSE, <<MCPage(Pg1)>>)}

\* Documents and run slots are interchangeable (safety runs only).
MCSymmetry == Permutations(DocId) \cup Permutations(RunId)
=============================================================================
