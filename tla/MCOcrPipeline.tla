--------------------------- MODULE MCOcrPipeline ---------------------------
(***************************************************************************)
(* Model checking of OcrPipeline: a scan of one page and an imported PDF   *)
(* of two.                                                                 *)
(***************************************************************************)
EXTENDS OcrPipeline

CONSTANTS Pg1, Pg2

MCPage(p) == newPage(p, CHOOSE look \in Look : TRUE)

MCSmallDocs ==
    {newDoc(CHOOSE t \in Title : TRUE, FALSE, <<MCPage(Pg1)>>),
     newDoc(CHOOSE t \in Title : TRUE, TRUE, <<MCPage(Pg1), MCPage(Pg2)>>)}
=============================================================================
