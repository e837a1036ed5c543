--------------------------- MODULE DocStoreProofs ---------------------------
(***************************************************************************)
(* Lemmas about the index operations of DocStore: what they do to the type *)
(* and to the set of documents of an index.                                *)
(***************************************************************************)
EXTENDS DocStore, TLAPS

LEMMA UpdateDocType ==
    ASSUME NEW s, IsIndex(s), NEW d \in DocId, NEW doc,
           d \in DOMAIN s => doc \in Doc
    PROVE  IsIndex(UpdateDoc(s, d, doc))
BY DEF IsIndex, UpdateDoc

LEMMA PutDocType ==
    ASSUME NEW s, IsIndex(s), NEW d \in DocId, NEW doc \in Doc
    PROVE  IsIndex(PutDoc(s, d, doc))
BY DEF IsIndex, PutDoc

LEMMA RemoveDocType ==
    ASSUME NEW s, IsIndex(s), NEW d
    PROVE  IsIndex(RemoveDoc(s, d))
BY DEF IsIndex, RemoveDoc

LEMMA SetTitleType ==
    ASSUME NEW doc \in Doc, NEW title \in Title
    PROVE  [doc EXCEPT !.title = title] \in Doc
BY DEF Doc

LEMMA SetFolderType ==
    ASSUME NEW doc \in Doc, NEW f \in FolderId \cup {None}
    PROVE  [doc EXCEPT !.folderId = f] \in Doc
BY DEF Doc

LEMMA SetStatusType ==
    ASSUME NEW doc \in Doc, NEW status \in OcrStatus
    PROVE  [doc EXCEPT !.ocrStatus = status] \in Doc
BY DEF Doc

LEMMA SetProgressType ==
    ASSUME NEW doc \in Doc, NEW progress \in OcrProgress
    PROVE  [doc EXCEPT !.ocrProgress = progress] \in Doc
BY DEF Doc

LEMMA SetPagesType ==
    ASSUME NEW doc \in Doc, NEW pages \in Seq(Page)
    PROVE  [doc EXCEPT !.pages = pages] \in Doc
BY DEF Doc

LEMMA IndexDomains ==
    ASSUME NEW s, NEW d, NEW doc
    PROVE  /\ DOMAIN PutDoc(s, d, doc) = DOMAIN s \cup {d}
           /\ DOMAIN RemoveDoc(s, d) = DOMAIN s \ {d}
           /\ DOMAIN UpdateDoc(s, d, doc) = DOMAIN s
BY DEF PutDoc, RemoveDoc, UpdateDoc

\* Dropping an element leaves a sequence of the same kind.
LEMMA DropAtType ==
    ASSUME NEW S, NEW q \in Seq(S), NEW at \in DOMAIN q
    PROVE  DropAt(q, at) \in Seq(S)
<1>1. Len(q) \in Nat /\ DOMAIN q = 1 .. Len(q) /\ Len(q) - 1 \in Nat
  OBVIOUS
<1>2. \A i \in 1 .. Len(q) - 1 :
         (IF i < at THEN i ELSE i + 1) \in 1 .. Len(q)
  BY <1>1
<1>3. DropAt(q, at) \in [1 .. Len(q) - 1 -> S]
  BY <1>1, <1>2 DEF DropAt
<1>4. QED
  BY <1>1, <1>3
=============================================================================
