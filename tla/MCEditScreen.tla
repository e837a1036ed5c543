---------------------------- MODULE MCEditScreen ----------------------------
(***************************************************************************)
(* Model checking of EditScreen.                                           *)
(***************************************************************************)
EXTENDS EditScreen, TLC

CONSTANTS P1, P2, P3

MCPage(p, r) == [id |-> p, rotation |-> r, picture |-> "taken"]

\* One upright page, and one that a single press turns back to 0.
MCFirst == <<MCPage(P1, 0), MCPage(P2, 270)>>

MCScanned == <<MCPage(P3, 0)>>

MCSymmetry == Permutations(DetectId) \cup Permutations(CropId)
=============================================================================
