----------------------------- MODULE MCDocScan -----------------------------
(***************************************************************************)
(* Model checking of DocScan.                                              *)
(***************************************************************************)
EXTENDS DocScan, TLC

CONSTANTS Title1, Look1, Pg1, Pg2

\* A scan of one page.
MCScan == {newDoc(Title1, FALSE, <<newPage(Pg1, Look1)>>)}

\* A scan of one page and an imported PDF of one page.
MCTwoDocs == MCScan \cup {newDoc(Title1, TRUE, <<newPage(Pg2, Look1)>>)}

MCScans == {<<newPage(Pg2, Look1)>>}

MCSymmetry == Permutations(DocId)
=============================================================================
