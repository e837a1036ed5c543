----------------------------- MODULE MCLibrary -----------------------------
(***************************************************************************)
(* Model checking of Library.                                              *)
(***************************************************************************)
EXTENDS Library

CONSTANTS Title1, Pg1, Pg2

MCPage(p) == newPage(p, CHOOSE look \in Look : TRUE)

\* A scan of one page.
MCNewDocs == {newDoc(Title1, FALSE, <<MCPage(Pg1)>>)}

MCScans == {<<MCPage(Pg2)>>}

\* The queue marks a document as running and writes back a page that the user
\* may have deleted or edited meanwhile.
MCResults ==
    {[ocrStatus |-> "running", ocrProgress |-> [processed |-> 0, total |-> 1],
      pages |-> <<MCPage(Pg1)>>]}
=============================================================================
