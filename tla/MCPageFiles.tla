---------------------------- MODULE MCPageFiles ----------------------------
(***************************************************************************)
(* Model checking of PageFiles.                                            *)
(***************************************************************************)
EXTENDS PageFiles, TLC

CONSTANTS D1, D2, P1, P2, P3, P4, P5

\* Two pages, scanned or picked, of which the first may be a .png.
MCPicks ==
    {[doc |-> D1, isPdf |-> FALSE, named |-> TRUE, pages |-> pages] :
        pages \in {<<P2, P1>>, <<P4, P1>>}}

MCAdditions == {<<P3>>}

MCPdf == [doc |-> D1, isPdf |-> TRUE, named |-> TRUE, pages |-> <<P4, P1>>]

MCImage == [doc |-> D2, isPdf |-> FALSE, named |-> TRUE, pages |-> <<P5>>]

\* An image and a PDF, and a PDF and an image without a name: each file may also
\* fail or be skipped, so that the other is alone.
MCBatches == {<<MCImage, MCPdf>>, <<MCPdf, [MCImage EXCEPT !.named = FALSE]>>}

MCSymmetry == Permutations(OpId)
=============================================================================
