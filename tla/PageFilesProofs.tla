--------------------------- MODULE PageFilesProofs ---------------------------
(***************************************************************************)
(* Proofs about PageFiles, for every number of documents, pages, picked    *)
(* files and handlers in flight, on both platforms.                        *)
(***************************************************************************)
EXTENDS PageFiles, SequenceTheorems, TLAPS

USE FilesAssumption

-----------------------------------------------------------------------------
(* What is written and whose it is.                                        *)

\* The files of a page are in a directory.
Has(page, dir) ==
    /\ page.file \in DOMAIN dir
    /\ page.processed # None => page.processed \in DOMAIN dir

AllHave(pages, dir) == \A i \in DOMAIN pages : Has(pages[i], dir)

\* The documents that only this handler knows of.
OwnedBy(op) ==
    CASE op.kind \in {"scan", "photos"} -> {op.doc}
      [] op.kind = "files" -> ({op.doc} \ {None}) \cup ReadyDocs(op)
                              \cup {op.rest[i].doc : i \in DOMAIN op.rest}
      [] OTHER -> {}

DocsOf(op) == OwnedBy(op) \cup ({op.doc} \ {None})

\* What a handler will hand over is written, as long as its document is shown or
\* not known to anybody else.
OpWritten(op, shown, fs) ==
    /\ op.kind \in Copying /\ op.doc \in shown \cup OwnedBy(op) =>
          AllHave(op.base, fs[op.doc]) /\ AllHave(op.got, fs[op.doc])
    /\ op.kind = "files" =>
          \A i \in DOMAIN op.ready : AllHave(op.ready[i].pages, fs[op.ready[i].doc])
    /\ op.kind = "crop" /\ op.doc \in shown =>
          (op.copied => CropName(op) \in DOMAIN fs[op.doc])
    /\ op.kind = "run" => op.left \subseteq DOMAIN op.images \cap DOMAIN op.base
    /\ op.kind = "run" /\ op.left # {} => op.next = 0
    /\ op.kind = "run" /\ op.doc \in shown =>
          /\ AllHave(op.base, fs[op.doc])
          /\ \A i \in op.done : ProcessedName(i) \in DOMAIN fs[op.doc]

Have(documents, fs) == \A d \in DOMAIN documents : AllHave(documents[d].pages, fs[d])

\* A document is shown, is being removed, or is owned by one handler; ids are not
\* given twice.
Apart ==
    /\ removing \cap DOMAIN docs = {}
    /\ DOMAIN docs \cup removing \subseteq used
    /\ \A o \in Running :
          /\ OwnedBy(ops[o]) \cap (DOMAIN docs \cup removing) = {}
          /\ DocsOf(ops[o]) \subseteq used
          /\ \A x \in Running \ {o} : OwnedBy(ops[o]) \cap DocsOf(ops[x]) = {}

FilesInv ==
    /\ TypeOK
    /\ Apart
    /\ Have(docs, files) /\ Have(index, files)
    /\ \A o \in Running : OpWritten(ops[o], DOMAIN docs, files)

LEMMA InvTypes ==
    ASSUME FilesInv
    PROVE  /\ overwrites \in BOOLEAN /\ filters \in BOOLEAN
           /\ DOMAIN docs \subseteq DocId /\ \A d \in DOMAIN docs : docs[d] \in Doc
           /\ DOMAIN index = DOMAIN docs /\ \A d \in DOMAIN index : index[d] \in Doc
           /\ DOMAIN files = DocId
           /\ ops \in [OpId -> Op \cup {None}]
           /\ \A o \in Running : o \in OpId /\ ops[o] \in Op
           /\ begun \in 0 .. MaxBegun
           /\ removing \subseteq DocId
           /\ used \subseteq DocId \cup PageId /\ cropped \subseteq PageId
           /\ past \in [DocId -> SUBSET Event]
BY DEF FilesInv, TypeOK, Running

LEMMA InvPagesHaveFiles == FilesInv => PagesHaveFiles
<1>1. ASSUME FilesInv, NEW d \in DOMAIN docs,
             NEW pages \in {docs[d].pages, index[d].pages}
      PROVE  AllHave(pages, files[d])
  BY <1>1, InvTypes DEF FilesInv, Have
<1>2. QED
  BY <1>1 DEF PagesHaveFiles, AllHave, Has

\* The kinds of handlers.
LEMMA Kinds ==
    ASSUME NEW op \in Op
    PROVE  /\ op.kind \in {"scan", "photos", "add"} => op \in CopyOp /\ op.doc \in DocId
           /\ op.kind = "files" => op \in FilesOp /\ op.doc \in DocId \cup {None}
           /\ op.kind = "crop" => op \in CropOp /\ op.doc \in DocId
           /\ op.kind = "run" => op \in RunOp /\ op.doc \in DocId
           /\ op.kind \in {"scan", "photos", "add", "files", "crop", "run"}
BY DEF Op, CopyOp, FilesOp, CropOp, RunOp

LEMMA OwnedKinds ==
    ASSUME NEW op
    PROVE  /\ op.kind \in {"scan", "photos"} => OwnedBy(op) = {op.doc}
           /\ op.kind = "files" =>
                OwnedBy(op) = ({op.doc} \ {None}) \cup ReadyDocs(op)
                              \cup {op.rest[i].doc : i \in DOMAIN op.rest}
           /\ op.kind \in {"add", "crop", "run"} => OwnedBy(op) = {}
BY DEF OwnedBy

LEMMA OwnedDocs ==
    ASSUME NEW op \in Op
    PROVE  OwnedBy(op) \subseteq DocId /\ DocsOf(op) \subseteq DocId
<1>1. CASE op.kind = "files"
  <2>1. op \in FilesOp
    BY <1>1, Kinds
  <2>2. /\ \A i \in DOMAIN op.ready : op.ready[i] \in Imported
        /\ \A i \in DOMAIN op.rest : op.rest[i] \in Item
        /\ op.doc \in DocId \cup {None}
    BY <2>1 DEF FilesOp
  <2>3. /\ \A i \in DOMAIN op.ready : op.ready[i].doc \in DocId
        /\ \A i \in DOMAIN op.rest : op.rest[i].doc \in DocId
    BY <2>2 DEF Imported, Item
  <2>4. QED
    BY <1>1, <2>2, <2>3, OwnedKinds DEF ReadyDocs, DocsOf
<1>2. CASE op.kind # "files"
  BY <1>2, Kinds, OwnedKinds DEF DocsOf
<1>3. QED
  BY <1>1, <1>2

\* What is written stays written while no file of it is removed and no document of
\* others becomes the handler's.
LEMMA WrittenStays ==
    ASSUME NEW op \in Op, NEW shown, NEW shown2 \in SUBSET DocId, NEW fs, NEW fs2,
           OpWritten(op, shown, fs),
           shown2 \cap DocsOf(op) \subseteq shown \cup OwnedBy(op),
           \A d \in (shown2 \cap DocsOf(op)) \cup OwnedBy(op) :
               DOMAIN fs[d] \subseteq DOMAIN fs2[d]
    PROVE  OpWritten(op, shown2, fs2)
<1>1. ASSUME op.kind \in Copying, op.doc \in shown2 \cup OwnedBy(op)
      PROVE  AllHave(op.base, fs2[op.doc]) /\ AllHave(op.got, fs2[op.doc])
  <2>1. op.doc \in DocsOf(op)
    BY <1>1, OwnedDocs DEF DocsOf
  <2>2. op.doc \in shown \cup OwnedBy(op) /\ DOMAIN fs[op.doc] \subseteq DOMAIN fs2[op.doc]
    BY <1>1, <2>1
  <2>3. QED
    BY <1>1, <2>2 DEF OpWritten, AllHave, Has
<1>2. ASSUME op.kind = "files", NEW i \in DOMAIN op.ready
      PROVE  AllHave(op.ready[i].pages, fs2[op.ready[i].doc])
  <2>1. op.ready[i].doc \in OwnedBy(op)
    BY <1>2, OwnedKinds DEF ReadyDocs
  <2>2. QED
    BY <1>2, <2>1 DEF OpWritten, AllHave, Has
<1>3. ASSUME op.kind \in {"crop", "run"}, op.doc \in shown2
      PROVE  op.doc \in shown /\ DOMAIN fs[op.doc] \subseteq DOMAIN fs2[op.doc]
  BY <1>3, Kinds, OwnedKinds DEF DocsOf
<1>4. QED
  BY <1>1, <1>2, <1>3 DEF OpWritten, AllHave, Has

-----------------------------------------------------------------------------
(* Kinds of steps.                                                         *)

\* A handler begins: what it owns is new, and what it captured is written.
LEMMA BeginKeeps ==
    ASSUME FilesInv, TypeOK', NEW o \in OpId, NEW op \in Op, ops[o] = None,
           ops' = [ops EXCEPT ![o] = op], used \subseteq used',
           UNCHANGED <<docs, files, removing>>, index' = index \/ Have(index', files),
           OwnedBy(op) \cap used = {}, DocsOf(op) \subseteq used',
           \A x \in Running : OwnedBy(ops[x]) \cap DocsOf(op) = {},
           OpWritten(op, DOMAIN docs, files)
    PROVE  FilesInv'
<1>1. \A x \in Running' : \/ (x = o /\ ops'[x] = op)
                           \/ (x \in Running /\ x # o /\ ops'[x] = ops[x])
  BY InvTypes DEF Running
<1>2. Apart'
  BY <1>1, InvTypes DEF FilesInv, Apart
<1>3. \A x \in Running' : OpWritten(ops'[x], DOMAIN docs', files')
  BY <1>1 DEF FilesInv
<1>4. Have(docs', files') /\ Have(index', files')
  BY DEF FilesInv
<1>5. QED
  BY <1>2, <1>3, <1>4 DEF FilesInv

\* Documents keep the files they have.
LEMMA HaveMore ==
    ASSUME NEW documents, DOMAIN documents \subseteq DocId, NEW fs, NEW fs2,
           Have(documents, fs), \A d \in DocId : DOMAIN fs[d] \subseteq DOMAIN fs2[d]
    PROVE  Have(documents, fs2)
BY DEF Have, AllHave, Has

\* A handler goes on: it owns nothing new, and files are written.
LEMMA GoOnKeeps ==
    ASSUME FilesInv, TypeOK', NEW o \in Running, NEW op \in Op,
           ops' = [ops EXCEPT ![o] = op], UNCHANGED <<docs, removing, used>>,
           index' = index \/ Have(index', files'),
           OwnedBy(op) \subseteq OwnedBy(ops[o]), DocsOf(op) \subseteq DocsOf(ops[o]),
           \A d \in DocId : DOMAIN files[d] \subseteq DOMAIN files'[d],
           OpWritten(op, DOMAIN docs, files')
    PROVE  FilesInv'
<1>1. \A x \in Running' : \/ (x = o /\ ops'[x] = op)
                           \/ (x \in Running /\ x # o /\ ops'[x] = ops[x])
  BY InvTypes DEF Running
<1>2. Apart'
  BY <1>1 DEF FilesInv, Apart
<1>3. \A x \in Running : OpWritten(ops[x], DOMAIN docs, files')
  BY InvTypes, WrittenStays, OwnedDocs DEF FilesInv
<1>4. \A x \in Running' : OpWritten(ops'[x], DOMAIN docs', files')
  BY <1>1, <1>3
<1>5. Have(docs', files') /\ Have(index', files')
  BY InvTypes, HaveMore DEF FilesInv
<1>6. QED
  BY <1>2, <1>4, <1>5 DEF FilesInv

\* A handler ends, and shows what it owned or nothing new.
LEMMA EndKeeps ==
    ASSUME FilesInv, TypeOK', NEW o \in Running, ops' = [ops EXCEPT ![o] = None],
           UNCHANGED <<files, removing, used>>,
           DOMAIN docs' \subseteq DOMAIN docs \cup OwnedBy(ops[o]),
           Have(docs', files), Have(index', files)
    PROVE  FilesInv'
<1>1. \A x \in Running' : x \in Running /\ x # o /\ ops'[x] = ops[x]
  BY InvTypes DEF Running
<1>2. OwnedBy(ops[o]) \subseteq DocsOf(ops[o])
  BY DEF DocsOf
<1>3. Apart'
  BY <1>1, <1>2 DEF FilesInv, Apart
<1>4. \A x \in Running' : DOMAIN docs' \cap DocsOf(ops[x]) \subseteq DOMAIN docs
  BY <1>1 DEF FilesInv, Apart
<1>5. DOMAIN docs' \subseteq DocId
  BY DEF TypeOK
<1>6. \A x \in Running' : OpWritten(ops'[x], DOMAIN docs', files')
  BY <1>1, <1>4, <1>5, InvTypes, WrittenStays DEF FilesInv
<1>7. QED
  BY <1>3, <1>6 DEF FilesInv

\* Documents are changed or deleted, whatever the handlers do.
LEMMA DocsKeep ==
    ASSUME FilesInv, TypeOK', UNCHANGED <<ops, files, used>>,
           DOMAIN docs' \subseteq DOMAIN docs,
           removing \subseteq removing',
           removing' \subseteq removing \cup (DOMAIN docs \ DOMAIN docs'),
           Have(docs', files), Have(index', files)
    PROVE  FilesInv'
<1>1. Running' = Running /\ DOMAIN docs' \subseteq DocId
  BY DEF Running, TypeOK
<1>2. Apart'
  BY <1>1 DEF FilesInv, Apart
<1>3. \A x \in Running' : OpWritten(ops'[x], DOMAIN docs', files')
  BY <1>1, InvTypes, WrittenStays DEF FilesInv
<1>4. QED
  BY <1>2, <1>3 DEF FilesInv

\* A file is written.
LEMMA PutFile ==
    ASSUME FilesInv, NEW d \in DocId, NEW name, NEW content,
           files' = [files EXCEPT ![d] = Put(@, name, content)]
    PROVE  /\ DOMAIN files' = DocId
           /\ \A x \in DocId : DOMAIN files[x] \subseteq DOMAIN files'[x]
           /\ name \in DOMAIN files'[d]
           /\ \A x \in DocId : \A n \in DOMAIN files'[x] :
                 \/ n \in DOMAIN files[x] /\ files'[x][n] = files[x][n]
                 \/ n = name /\ files'[x][n] = content
BY InvTypes DEF Put

LEMMA WrittenType ==
    ASSUME FilesInv, NEW d \in DocId, NEW name, NEW content,
           files' = [files EXCEPT ![d] = Put(@, name, content)],
           \/ name \in FileName /\ content \in Image
           \/ name = Original /\ content \in Seq(PageId)
    PROVE  \A x \in DocId : \A n \in DOMAIN files'[x] :
               \/ n \in FileName /\ files'[x][n] \in Image
               \/ n = Original /\ files'[x][n] \in Seq(PageId)
<1>1. \A x \in DocId : \A n \in DOMAIN files[x] :
          \/ n \in FileName /\ files[x][n] \in Image
          \/ n = Original /\ files[x][n] \in Seq(PageId)
  BY DEF FilesInv, TypeOK
<1>2. ASSUME NEW x \in DocId, NEW n \in DOMAIN files'[x]
      PROVE  \/ n \in DOMAIN files[x] /\ files'[x][n] = files[x][n]
             \/ n = name /\ files'[x][n] = content
  BY InvTypes DEF Put
<1>3. QED
  BY <1>1, <1>2

\* What a step keeps of the types: all that is not about handlers, documents and
\* files.
LEMMA TypesKept ==
    ASSUME FilesInv, NEW o \in OpId, NEW op \in Op \cup {None},
           ops' = [ops EXCEPT ![o] = op],
           platform' = platform, removing' = removing,
           begun' \in 0 .. MaxBegun, used' \subseteq DocId \cup PageId,
           cropped' \subseteq PageId, past' \in [DocId -> SUBSET Event],
           DOMAIN docs' \subseteq DocId, \A d \in DOMAIN docs' : docs'[d] \in Doc,
           DOMAIN index' = DOMAIN docs', \A d \in DOMAIN index' : index'[d] \in Doc,
           DOMAIN files' = DocId,
           \A x \in DocId : \A n \in DOMAIN files'[x] :
               \/ n \in FileName /\ files'[x][n] \in Image
               \/ n = Original /\ files'[x][n] \in Seq(PageId)
    PROVE  TypeOK'
<1>1. ops' \in [OpId -> Op \cup {None}]
  BY InvTypes
<1>2. overwrites' \in BOOLEAN /\ filters' \in BOOLEAN
  BY InvTypes DEF platform
<1>3. QED
  BY <1>1, <1>2, InvTypes DEF TypeOK

\* The same of a step that changes no document but in the index, and no file.
LEMMA HandlerTypes ==
    ASSUME FilesInv, NEW o \in OpId, NEW op \in Op \cup {None},
           ops' = [ops EXCEPT ![o] = op],
           UNCHANGED <<platform, docs, files, removing>>,
           DOMAIN index' = DOMAIN docs, \A d \in DOMAIN index' : index'[d] \in Doc,
           begun' \in 0 .. MaxBegun, used' \subseteq DocId \cup PageId,
           cropped' \subseteq PageId, past' \in [DocId -> SUBSET Event]
    PROVE  TypeOK'
<1>1. /\ DOMAIN files' = DocId
      /\ \A x \in DocId : \A n \in DOMAIN files'[x] :
             \/ n \in FileName /\ files'[x][n] \in Image
             \/ n = Original /\ files'[x][n] \in Seq(PageId)
  BY DEF FilesInv, TypeOK
<1>2. QED
  BY <1>1, InvTypes, TypesKept

LEMMA PastKept ==
    ASSUME FilesInv, NEW d \in DocId
    PROVE  /\ \A event \in Event : Marked(d, event) \in [DocId -> SUBSET Event]
           /\ Overlaps(d) => past' \in [DocId -> SUBSET Event]
BY InvTypes DEF Marked, Overlaps, Event

LEMMA StartTypes ==
    ASSUME FilesInv, NEW o, Starts(o)
    PROVE  begun' \in 0 .. MaxBegun
BY InvTypes DEF Starts

-----------------------------------------------------------------------------
(* Handlers begin.                                                         *)

LEMMA BeginScanKeeps ==
    ASSUME FilesInv, NEW o \in OpId, NEW kind \in {"scan", "photos"},
           NEW item \in Picks, BeginScan(o, kind, item)
    PROVE  FilesInv'
<1> DEFINE op == [kind |-> kind, doc |-> item.doc, isPdf |-> FALSE, base |-> <<>>,
                  todo |-> item.pages, got |-> <<>>]
<1>1. item.doc \in DocId /\ item.pages \in Seq(PageId)
  BY DEF Item
<1>2. item.doc \in BatchIds(<<item>>)
  BY DEF BatchIds
<1>3. BatchIds(<<item>>) \subseteq DocId \cup PageId
  BY <1>1 DEF BatchIds, Range
<1>4. op \in Op /\ OwnedBy(op) = {item.doc} /\ DocsOf(op) = {item.doc}
  <2>1. op \in CopyOp
    BY <1>1 DEF CopyOp
  <2>2. op.kind \in {"scan", "photos"} /\ op.doc = item.doc
    OBVIOUS
  <2>3. op \in Op
    BY <2>1 DEF Op
  <2>4. QED
    BY <2>2, <2>3, <1>1, OwnedKinds DEF DocsOf
<1>5. OpWritten(op, DOMAIN docs, files)
  BY DEF OpWritten, AllHave
<1>6. /\ ops[o] = None /\ ops' = [ops EXCEPT ![o] = op]
      /\ used' = used \cup BatchIds(<<item>>) /\ BatchIds(<<item>>) \cap used = {}
      /\ Starts(o)
      /\ UNCHANGED <<platform, docs, index, files, removing, cropped, past>>
  BY DEF BeginScan, Starts
<1> HIDE DEF op
<1>7. TypeOK'
  BY <1>3, <1>4, <1>6, StartTypes, HandlerTypes, InvTypes
<1>8. \A x \in Running : OwnedBy(ops[x]) \cap DocsOf(op) = {}
  BY <1>2, <1>4, <1>6 DEF FilesInv, Apart, DocsOf
<1>9. QED
  BY <1>2, <1>4, <1>5, <1>6, <1>7, <1>8, BeginKeeps

\* A document that is shown is nobody's.
LEMMA ShownIsNobodys ==
    ASSUME FilesInv, NEW d \in DOMAIN docs, NEW x \in Running
    PROVE  d \notin OwnedBy(ops[x])
BY DEF FilesInv, Apart

\* The pages of a document that is shown, and of one that is stored.
LEMMA ShownPages ==
    ASSUME FilesInv, NEW d \in DOMAIN docs
    PROVE  /\ docs[d] \in Doc /\ docs[d].pages \in Seq(Page)
           /\ \A i \in DOMAIN docs[d].pages :
                 docs[d].pages[i] \in Page /\ Has(docs[d].pages[i], files[d])
<1>1. docs[d] \in Doc
  BY InvTypes
<1>2. docs[d].pages \in Seq(Page)
  BY <1>1 DEF Doc
<1>3. QED
  BY <1>1, <1>2 DEF FilesInv, Have, AllHave

LEMMA StoredPages ==
    ASSUME FilesInv, NEW d \in DOMAIN docs
    PROVE  /\ index[d] \in Doc /\ index[d].pages \in Seq(Page)
           /\ \A i \in DOMAIN index[d].pages :
                 index[d].pages[i] \in Page /\ Has(index[d].pages[i], files[d])
<1>1. d \in DOMAIN index /\ index[d] \in Doc
  BY InvTypes
<1>2. index[d].pages \in Seq(Page)
  BY <1>1 DEF Doc
<1>3. QED
  BY <1>1, <1>2 DEF FilesInv, Have, AllHave

LEMMA BeginAddKeeps ==
    ASSUME FilesInv, NEW o \in OpId, NEW d \in DocId, NEW pages \in Additions,
           BeginAdd(o, d, pages)
    PROVE  FilesInv'
<1> DEFINE op == [kind |-> "add", doc |-> d, isPdf |-> docs[d].isPdf,
                  base |-> docs[d].pages, todo |-> pages, got |-> <<>>]
<1>1. /\ ops[o] = None /\ ops' = [ops EXCEPT ![o] = op]
      /\ used' = used \cup Range(pages) /\ d \in DOMAIN docs
      /\ Starts(o) /\ Overlaps(d)
      /\ UNCHANGED <<platform, docs, index, files, removing, cropped>>
  BY DEF BeginAdd, Starts
<1>2. pages \in Seq(PageId) /\ Range(pages) \subseteq PageId
  BY DEF Range
<1>3. docs[d] \in Doc
  BY <1>1, InvTypes
<1>4. op \in CopyOp
  BY <1>2, <1>3 DEF CopyOp, Doc
<1>5. op \in Op /\ OwnedBy(op) = {} /\ DocsOf(op) = {d}
  BY <1>4, OwnedKinds DEF Op, DocsOf
<1>6. OpWritten(op, DOMAIN docs, files)
  <2>1. AllHave(op.base, files[d]) /\ AllHave(op.got, files[d])
    BY <1>1, ShownPages DEF AllHave
  <2>2. QED
    BY <2>1 DEF OpWritten
<1> HIDE DEF op
<1>7. TypeOK'
  BY <1>1, <1>2, <1>5, StartTypes, HandlerTypes, InvTypes, PastKept
<1>8. \A x \in Running : OwnedBy(ops[x]) \cap DocsOf(op) = {}
  BY <1>1, <1>5, ShownIsNobodys
<1>9. d \in used
  BY <1>1 DEF FilesInv, Apart
<1>10. QED
  BY <1>1, <1>5, <1>6, <1>7, <1>8, <1>9, BeginKeeps

LEMMA BeginFilesKeeps ==
    ASSUME FilesInv, NEW o \in OpId, NEW batch \in Batches, BeginFiles(o, batch)
    PROVE  FilesInv'
<1> DEFINE op == [kind |-> "files", doc |-> None, isPdf |-> FALSE, base |-> <<>>,
                  todo |-> <<>>, got |-> <<>>, rest |-> batch, ready |-> <<>>,
                  opened |-> FALSE]
<1>1. batch \in Seq(Item) /\ \A i \in DOMAIN batch : batch[i] \in Item
  OBVIOUS
<1>2. \A i \in DOMAIN batch : batch[i].doc \in DocId /\ batch[i].pages \in Seq(PageId)
  BY <1>1 DEF Item
<1>3. BatchIds(batch) \subseteq DocId \cup PageId
  BY <1>2 DEF BatchIds, Range
<1>4. op \in Op
  <2>1. <<>> \in Seq(Page) /\ <<>> \in Seq(PageId) /\ <<>> \in Seq(Imported)
    OBVIOUS
  <2>2. op \in FilesOp
    BY <1>1, <2>1 DEF FilesOp
  <2>3. QED
    BY <2>2 DEF Op
<1>5. OwnedBy(op) \subseteq BatchIds(batch) /\ DocsOf(op) \subseteq BatchIds(batch)
  <2>1. op.kind = "files" /\ op.doc = None /\ op.rest = batch /\ ReadyDocs(op) = {}
    BY DEF ReadyDocs
  <2>2. OwnedBy(op) = (({op.doc} \ {None}) \cup ReadyDocs(op))
                      \cup {op.rest[i].doc : i \in DOMAIN op.rest}
    BY <2>1, OwnedKinds
  <2>3. OwnedBy(op) = {batch[i].doc : i \in DOMAIN batch}
    BY <2>1, <2>2
  <2>4. QED
    BY <2>1, <2>3 DEF DocsOf, BatchIds
<1>6. OpWritten(op, DOMAIN docs, files)
  BY DEF OpWritten, AllHave
<1>7. /\ ops[o] = None /\ ops' = [ops EXCEPT ![o] = op]
      /\ used' = used \cup BatchIds(batch) /\ BatchIds(batch) \cap used = {}
      /\ Starts(o)
      /\ UNCHANGED <<platform, docs, index, files, removing, cropped, past>>
  BY DEF BeginFiles, Starts
<1> HIDE DEF op
<1>8. TypeOK'
  BY <1>3, <1>4, <1>7, StartTypes, HandlerTypes, InvTypes
<1>9. \A x \in Running : OwnedBy(ops[x]) \cap DocsOf(op) = {}
  BY <1>5, <1>7 DEF FilesInv, Apart, DocsOf
<1>10. QED
  BY <1>4, <1>5, <1>6, <1>7, <1>8, <1>9, BeginKeeps

\* What is read of a page's file is an image: only the imported PDF is not.
LEMMA PageFileIsImage ==
    ASSUME FilesInv, NEW d \in DocId, NEW name \in FileName, name \in DOMAIN files[d]
    PROVE  files[d][name] \in Image
<1>1. name # Original
  BY DEF FileName, Original
<1>2. QED
  BY <1>1 DEF FilesInv, TypeOK

LEMMA PageImages ==
    ASSUME FilesInv, NEW d \in DOMAIN docs
    PROVE  /\ \A i \in DOMAIN docs[d].pages : files[d][docs[d].pages[i].file] \in Image
           /\ \A i \in DOMAIN index[d].pages : files[d][index[d].pages[i].file] \in Image
<1>1. ASSUME NEW pages \in Seq(Page), AllHave(pages, files[d]), NEW i \in DOMAIN pages
      PROVE  files[d][pages[i].file] \in Image
  <2>1. pages[i] \in Page
    BY <1>1
  <2>2. pages[i].file \in FileName /\ pages[i].file \in DOMAIN files[d]
    BY <1>1, <2>1 DEF Page, AllHave, Has
  <2>3. QED
    BY <2>2, InvTypes, PageFileIsImage
<1>2. QED
  BY <1>1, ShownPages, StoredPages DEF AllHave

LEMMA BeginCropKeeps ==
    ASSUME FilesInv, NEW o \in OpId, NEW d \in DocId, NEW i \in 1 .. MaxPages,
           BeginCrop(o, d, i)
    PROVE  FilesInv'
<1> DEFINE image == [page |-> docs[d].pages[i].id, cropped |-> TRUE,
                     turned |-> files[d][docs[d].pages[i].file].turned]
           op == [kind |-> "crop", doc |-> d, at |-> i, image |-> image,
                  copied |-> FALSE]
<1>1. /\ ops[o] = None /\ ops' = [ops EXCEPT ![o] = op] /\ used' = used
      /\ d \in DOMAIN docs /\ i \in DOMAIN docs[d].pages
      /\ docs[d].pages[i].id \in PageId
      /\ Starts(o) /\ Overlaps(d)
      /\ UNCHANGED <<platform, docs, index, files, removing, cropped>>
  BY DEF BeginCrop, Starts
<1>2. image \in Image
  <2>1. files[d][docs[d].pages[i].file].turned \in Rotation
    BY <1>1, PageImages DEF Image
  <2>2. QED
    BY <1>1, <2>1 DEF Image
<1> HIDE DEF image
<1>3. op \in CropOp
  BY <1>2 DEF CropOp
<1>4. op \in Op /\ OwnedBy(op) = {} /\ DocsOf(op) = {d}
  BY <1>3, OwnedKinds DEF Op, DocsOf
<1>5. OpWritten(op, DOMAIN docs, files)
  BY DEF OpWritten, Copying
<1> HIDE DEF op
<1>6. TypeOK'
  BY <1>1, <1>4, StartTypes, HandlerTypes, InvTypes, PastKept
<1>7. \A x \in Running : OwnedBy(ops[x]) \cap DocsOf(op) = {}
  BY <1>1, <1>4, ShownIsNobodys
<1>8. d \in used
  BY <1>1 DEF FilesInv, Apart
<1>9. QED
  BY <1>1, <1>4, <1>5, <1>6, <1>7, <1>8, BeginKeeps

\* The run that BeginRun begins.
NewRun(d) ==
    LET pages == index[d].pages
        run == [kind |-> "run", doc |-> d, base |-> pages, images |-> <<>>,
                left |-> {}, done |-> {}, next |-> 1]
    IN  IF index[d].isPdf THEN run
        ELSE [run EXCEPT !.images = [i \in DOMAIN pages |-> files[d][pages[i].file]],
                         !.left = {i \in DOMAIN pages : pages[i].processed = None},
                         !.next = 0]

LEMMA NewRunOf ==
    ASSUME FilesInv, NEW d \in DOMAIN docs
    PROVE  /\ NewRun(d) \in RunOp /\ NewRun(d).kind = "run" /\ NewRun(d).doc = d
           /\ NewRun(d).base = index[d].pages /\ NewRun(d).done = {}
           /\ NewRun(d).left \subseteq DOMAIN NewRun(d).images \cap DOMAIN index[d].pages
           /\ NewRun(d).left # {} => NewRun(d).next = 0
<1> DEFINE pages == index[d].pages
           images == [i \in DOMAIN pages |-> files[d][pages[i].file]]
           left == {i \in DOMAIN pages : pages[i].processed = None}
<1>1. d \in DocId /\ pages \in Seq(Page)
  BY InvTypes, StoredPages
<1>2. \A i \in DOMAIN pages : images[i] \in Image
  BY PageImages
<1>3. NewRun(d) =
          IF index[d].isPdf
          THEN [kind |-> "run", doc |-> d, base |-> pages, images |-> <<>>,
                left |-> {}, done |-> {}, next |-> 1]
          ELSE [kind |-> "run", doc |-> d, base |-> pages, images |-> images,
                left |-> left, done |-> {}, next |-> 0]
  <2> DEFINE run == [kind |-> "run", doc |-> d, base |-> pages, images |-> <<>>,
                     left |-> {}, done |-> {}, next |-> 1]
  <2>1. NewRun(d) = IF index[d].isPdf THEN run
                    ELSE [run EXCEPT !.images = images, !.left = left, !.next = 0]
    BY DEF NewRun
  <2> HIDE DEF images, left, pages
  <2>2. [run EXCEPT !.images = images, !.left = left, !.next = 0]
        = [kind |-> "run", doc |-> d, base |-> pages, images |-> images,
           left |-> left, done |-> {}, next |-> 0]
    <3> DEFINE kind == "run"
               none == {}
               empty == <<>>
               zero == 0
               one == 1
    <3>1. run = [kind |-> kind, doc |-> d, base |-> pages, images |-> empty,
                 left |-> none, done |-> none, next |-> one]
      OBVIOUS
    <3> HIDE DEF run, kind, none, empty, zero, one
    <3> DEFINE run1 == [run EXCEPT !.images = images]
               run2 == [run1 EXCEPT !.left = left]
               run3 == [run2 EXCEPT !.next = zero]
    <3>2. run1 = [kind |-> kind, doc |-> d, base |-> pages, images |-> images,
                  left |-> none, done |-> none, next |-> one]
      BY <3>1
    <3>3. [run EXCEPT !.images = images, !.left = left, !.next = zero] = run3
      BY Zenon
    <3> HIDE DEF run1
    <3>4. run2 = [kind |-> kind, doc |-> d, base |-> pages, images |-> images,
                  left |-> left, done |-> none, next |-> one]
      BY <3>2
    <3> HIDE DEF run2
    <3>5. run3 = [kind |-> kind, doc |-> d, base |-> pages, images |-> images,
                  left |-> left, done |-> none, next |-> zero]
      BY <3>4
    <3>6. QED
      BY <3>3, <3>5, Zenon DEF kind, none, zero
  <2>3. QED
    BY <2>1, <2>2
<1> HIDE DEF pages
<1>4. images \in Seq(Image) /\ DOMAIN images = DOMAIN pages /\ <<>> \in Seq(Image)
  BY <1>1, <1>2
<1>5. left \subseteq DOMAIN pages /\ DOMAIN pages \subseteq Nat \ {0}
  BY <1>1
<1> HIDE DEF images, left
<1>6. CASE index[d].isPdf
  <2>1. NewRun(d) = [kind |-> "run", doc |-> d, base |-> pages, images |-> <<>>,
                     left |-> {}, done |-> {}, next |-> 1]
    BY <1>3, <1>6
  <2>2. QED
    BY <1>1, <1>4, <2>1 DEF RunOp, pages
<1>7. CASE ~index[d].isPdf
  <2>1. NewRun(d) = [kind |-> "run", doc |-> d, base |-> pages, images |-> images,
                     left |-> left, done |-> {}, next |-> 0]
    BY <1>3, <1>7
  <2>2. QED
    BY <1>1, <1>4, <1>5, <2>1 DEF RunOp, pages
<1>8. QED
  BY <1>6, <1>7

LEMMA RunBegins ==
    ASSUME FilesInv, NEW o \in OpId, NEW d \in DocId, BeginRun(o, d)
    PROVE  /\ ops[o] = None /\ ops' = [ops EXCEPT ![o] = NewRun(d)] /\ Starts(o)
           /\ d \in DOMAIN docs
           /\ (past' = past \/ Overlaps(d))
           /\ index' = [index EXCEPT ![d].status = "running"]
           /\ UNCHANGED <<platform, docs, files, removing, used, cropped>>
<1>1. /\ ops[o] = None /\ Starts(o) /\ d \in DOMAIN docs
      /\ (past' = past \/ Overlaps(d))
      /\ index' = [index EXCEPT ![d].status = "running"]
      /\ UNCHANGED <<platform, docs, files, removing, used, cropped>>
  BY InvTypes DEF BeginRun, Starts
<1>2. ops' = [ops EXCEPT ![o] = NewRun(d)]
  BY DEF BeginRun, NewRun
<1>3. QED
  BY <1>1, <1>2

LEMMA BeginRunKeeps ==
    ASSUME FilesInv, NEW o \in OpId, NEW d \in DocId, BeginRun(o, d)
    PROVE  FilesInv' /\ ops'[o] \in Op
<1> DEFINE op == NewRun(d)
<1>1. /\ ops[o] = None /\ ops' = [ops EXCEPT ![o] = op] /\ Starts(o)
      /\ d \in DOMAIN docs /\ (past' = past \/ Overlaps(d))
      /\ index' = [index EXCEPT ![d].status = "running"]
      /\ UNCHANGED <<platform, docs, files, removing, used, cropped>>
  BY RunBegins
<1>2. /\ op \in RunOp /\ op.kind = "run" /\ op.doc = d /\ op.base = index[d].pages
      /\ op.done = {} /\ op.left \subseteq DOMAIN op.images \cap DOMAIN index[d].pages
      /\ op.left # {} => op.next = 0
  BY <1>1, NewRunOf
<1> HIDE DEF op
<1>3. op \in Op /\ OwnedBy(op) = {} /\ DocsOf(op) = {d}
  <2>1. op \in Op /\ OwnedBy(op) = {}
    BY <1>2, OwnedKinds DEF Op
  <2>2. QED
    BY <1>2, <2>1 DEF DocsOf
<1>4. AllHave(index[d].pages, files[d])
  BY <1>1, StoredPages DEF AllHave
<1>5. OpWritten(op, DOMAIN docs, files)
  BY <1>2, <1>4 DEF OpWritten, Copying
<1>6. /\ DOMAIN index' = DOMAIN docs
      /\ \A x \in DOMAIN index' : /\ index'[x] \in Doc
                                  /\ index'[x].pages = index[x].pages
  <2>1. /\ DOMAIN index' = DOMAIN docs
        /\ \A x \in DOMAIN docs \ {d} : index'[x] = index[x]
        /\ index'[d] = [index[d] EXCEPT !.status = "running"]
    BY <1>1, InvTypes
  <2>2. index'[d] \in Doc /\ index'[d].pages = index[d].pages
    BY <1>1, <2>1, StoredPages DEF Doc, Status
  <2>3. QED
    BY <2>1, <2>2, InvTypes
<1>7. Have(index', files)
  BY <1>6, InvTypes DEF FilesInv, Have
<1>8. TypeOK'
  <2>1. past' \in [DocId -> SUBSET Event]
    BY <1>1, InvTypes, PastKept
  <2>2. QED
    BY <1>1, <1>3, <1>6, <2>1, StartTypes, HandlerTypes, InvTypes
<1>9. \A x \in Running : OwnedBy(ops[x]) \cap DocsOf(op) = {}
  BY <1>1, <1>3, ShownIsNobodys
<1>10. d \in used
  BY <1>1 DEF FilesInv, Apart
<1>11. ops'[o] = op
  BY <1>1, InvTypes
<1>12. QED
  BY <1>1, <1>3, <1>5, <1>7, <1>8, <1>9, <1>10, <1>11, BeginKeeps

-----------------------------------------------------------------------------
(* Handlers go on.                                                         *)

\* A handler that writes a file.
LEMMA WriteKeeps ==
    ASSUME FilesInv, NEW o \in Running, NEW op \in Op, ops' = [ops EXCEPT ![o] = op],
           NEW d \in DocId, NEW name, NEW content,
           files' = [files EXCEPT ![d] = Put(@, name, content)],
           \/ name \in FileName /\ content \in Image
           \/ name = Original /\ content \in Seq(PageId),
           UNCHANGED <<platform, begun, docs, index, removing, used, cropped>>,
           past' \in [DocId -> SUBSET Event],
           OwnedBy(op) \subseteq OwnedBy(ops[o]), DocsOf(op) \subseteq DocsOf(ops[o]),
           OpWritten(op, DOMAIN docs, files')
    PROVE  FilesInv'
<1>1. /\ DOMAIN files' = DocId
      /\ \A x \in DocId : DOMAIN files[x] \subseteq DOMAIN files'[x]
  BY PutFile
<1>2. \A x \in DocId : \A n \in DOMAIN files'[x] :
          \/ n \in FileName /\ files'[x][n] \in Image
          \/ n = Original /\ files'[x][n] \in Seq(PageId)
  BY WrittenType
<1>3. TypeOK'
  BY <1>1, <1>2, InvTypes, TypesKept
<1>4. QED
  BY <1>1, <1>3, GoOnKeeps

\* A handler that writes none.
LEMMA WaitKeeps ==
    ASSUME FilesInv, NEW o \in Running, NEW op \in Op, ops' = [ops EXCEPT ![o] = op],
           UNCHANGED <<platform, begun, docs, index, files, removing, used, cropped>>,
           past' \in [DocId -> SUBSET Event],
           OwnedBy(op) \subseteq OwnedBy(ops[o]), DocsOf(op) \subseteq DocsOf(ops[o]),
           OpWritten(op, DOMAIN docs, files)
    PROVE  FilesInv'
<1>1. TypeOK'
  BY InvTypes, HandlerTypes
<1>2. QED
  BY <1>1, GoOnKeeps

\* Files that are written take nothing from what a handler relies on.
LEMMA StillWritten ==
    ASSUME FilesInv, NEW o \in Running,
           \A d \in DocId : DOMAIN files[d] \subseteq DOMAIN files'[d]
    PROVE  OpWritten(ops[o], DOMAIN docs, files')
<1>1. ops[o] \in Op /\ DOMAIN docs \subseteq DocId
  BY InvTypes
<1>2. OwnedBy(ops[o]) \subseteq DocId /\ DocsOf(ops[o]) \subseteq DocId
  BY <1>1, OwnedDocs
<1>3. QED
  BY <1>1, <1>2, WrittenStays DEF FilesInv

LEMMA SameOwner ==
    ASSUME NEW op \in Op, NEW op2 \in Op, op2.kind = op.kind, op2.doc = op.doc,
           op.kind = "files" => op2.ready = op.ready /\ op2.rest = op.rest
    PROVE  OwnedBy(op2) = OwnedBy(op) /\ DocsOf(op2) = DocsOf(op)
<1>1. OwnedBy(op2) = OwnedBy(op)
  <2>1. CASE op.kind = "files"
    <3>1. ReadyDocs(op2) = ReadyDocs(op)
      BY <2>1 DEF ReadyDocs
    <3>2. OwnedBy(op) = (({op.doc} \ {None}) \cup ReadyDocs(op))
                        \cup {op.rest[i].doc : i \in DOMAIN op.rest}
      BY <2>1, OwnedKinds
    <3>3. OwnedBy(op2) = (({op2.doc} \ {None}) \cup ReadyDocs(op2))
                         \cup {op2.rest[i].doc : i \in DOMAIN op2.rest}
      BY <2>1, OwnedKinds
    <3>4. QED
      BY <2>1, <3>1, <3>2, <3>3
  <2>2. CASE op.kind # "files"
    BY <2>2, Kinds, OwnedKinds
  <2>3. QED
    BY <2>1, <2>2
<1>2. QED
  BY <1>1 DEF DocsOf

LEMMA AllHaveMore ==
    ASSUME NEW pages \in Seq(Page), NEW page \in Page, NEW dir, AllHave(pages, dir),
           Has(page, dir)
    PROVE  AllHave(Append(pages, page), dir)
<1>1. SUFFICES ASSUME NEW i \in DOMAIN Append(pages, page)
               PROVE  Has(Append(pages, page)[i], dir)
  BY DEF AllHave
<1>2. CASE i = Len(pages) + 1
  BY <1>2
<1>3. CASE i # Len(pages) + 1
  <2>1. i \in DOMAIN pages /\ Append(pages, page)[i] = pages[i]
    BY <1>1, <1>3
  <2>2. QED
    BY <2>1 DEF AllHave
<1>4. QED
  BY <1>2, <1>3

LEMMA NotTurned == 0 \in Rotation
BY DEF Rotation

\* A handler that copies pages, and what it copies next.
LEMMA CopiedNext ==
    ASSUME NEW op \in Op, op.kind \in Copying, op.doc # None, op.todo # <<>>
    PROVE  /\ op.doc \in DocId
           /\ Head(op.todo) \in PageId /\ Tail(op.todo) \in Seq(PageId)
           /\ NextName(op) \in FileName
           /\ newPage(Head(op.todo), NextName(op)) \in Page
<1>1. /\ op \in CopyOp \cup FilesOp /\ op.doc \in DocId
      /\ op.base \in Seq(Page) /\ op.got \in Seq(Page) /\ op.todo \in Seq(PageId)
  <2>1. op \in CopyOp \cup FilesOp /\ op.doc \in DocId
    BY Kinds DEF Copying
  <2>2. CASE op \in CopyOp
    BY <2>1, <2>2 DEF CopyOp
  <2>3. CASE op \in FilesOp
    <3>1. op.base = <<>> /\ <<>> \in Seq(Page)
      BY <2>3 DEF FilesOp
    <3>2. QED
      BY <2>1, <2>3, <3>1 DEF FilesOp
  <2>4. QED
    BY <2>1, <2>2, <2>3
<1>2. Head(op.todo) \in PageId /\ Tail(op.todo) \in Seq(PageId)
  BY <1>1
<1>3. Ext(Head(op.todo)) \in {"jpg", "png"}
  BY DEF Ext
<1>4. Len(op.base) + Len(op.got) + 1 \in Nat \ {0}
  <2>1. \A m, n \in Nat : m + n + 1 \in Nat \ {0}
    OBVIOUS
  <2>2. Len(op.base) \in Nat /\ Len(op.got) \in Nat
    BY <1>1
  <2>3. QED
    BY <2>1, <2>2
<1>5. NextName(op) \in FileName
  BY <1>3, <1>4 DEF NextName, FileName
<1>6. QED
  BY <1>1, <1>2, <1>5, NotTurned DEF newPage, Page

LEMMA CopyPageKeeps ==
    ASSUME FilesInv, NEW o \in OpId, CopyPage(o)
    PROVE  /\ FilesInv'
           /\ ops'[o] \in Op /\ ops'[o].got # <<>>
           /\ ops'[o].kind = ops[o].kind /\ ops'[o].doc = ops[o].doc
           /\ ops[o].kind = "files" => ops'[o].ready = ops[o].ready
<1> DEFINE op == ops[o]
           name == NextName(op)
           page == newPage(Head(op.todo), name)
           op2 == [op EXCEPT !.todo = Tail(@), !.got = Append(@, page)]
<1>1. /\ o \in Running /\ op \in Op
      /\ op.kind \in Copying /\ op.doc # None /\ op.todo # <<>>
      /\ files' = [files EXCEPT ![op.doc] = Put(@, name, Taken(Head(op.todo)))]
      /\ UNCHANGED <<platform, begun, docs, index, removing, used, cropped, past>>
  BY InvTypes DEF CopyPage, PutPageFile
<1>2. ops' = [ops EXCEPT ![o] = op2]
  BY InvTypes DEF CopyPage
<1>3. /\ op.doc \in DocId /\ Head(op.todo) \in PageId /\ Tail(op.todo) \in Seq(PageId)
      /\ name \in FileName /\ page \in Page
  BY <1>1, CopiedNext
<1>4. page.file = name /\ page.processed = None
  BY DEF newPage
<1>5. Taken(Head(op.todo)) \in Image
  BY <1>3, NotTurned DEF Taken, Image
<1> HIDE DEF page, name
<1>6. op \in CopyOp \cup FilesOp
  BY <1>1, Kinds DEF Copying
<1>7. op2 \in Op
  <2>1. CASE op \in CopyOp
    <3>1. Append(op.got, page) \in Seq(Page)
      BY <1>3, <2>1 DEF CopyOp
    <3>2. op2 \in CopyOp
      BY <1>3, <2>1, <3>1 DEF CopyOp
    <3>3. QED
      BY <3>2 DEF Op
  <2>2. CASE op \in FilesOp
    <3>1. Append(op.got, page) \in Seq(Page)
      BY <1>3, <2>2 DEF FilesOp
    <3>2. op2 \in FilesOp
      BY <1>3, <2>2, <3>1 DEF FilesOp
    <3>3. QED
      BY <3>2 DEF Op
  <2>3. QED
    BY <1>6, <2>1, <2>2
<1>8. /\ op2.kind = op.kind /\ op2.doc = op.doc /\ op2.base = op.base
      /\ op2.got = Append(op.got, page)
      /\ op.kind = "files" => op2.ready = op.ready /\ op2.rest = op.rest
      /\ op.got \in Seq(Page)
  BY <1>6 DEF CopyOp, FilesOp
<1>9. OwnedBy(op2) = OwnedBy(op) /\ DocsOf(op2) = DocsOf(op)
  BY <1>1, <1>7, <1>8, SameOwner
<1>10. /\ name \in DOMAIN files'[op.doc]
       /\ \A d \in DocId : DOMAIN files[d] \subseteq DOMAIN files'[d]
  BY <1>1, <1>3, InvTypes DEF Put
<1>11. OpWritten(op, DOMAIN docs, files')
  BY <1>1, <1>10, StillWritten
<1>12. Has(page, files'[op.doc])
  BY <1>4, <1>10 DEF Has
<1>13. OpWritten(op2, DOMAIN docs, files')
  <2>1. AllHave(op.got, files'[op.doc]) => AllHave(op2.got, files'[op.doc])
    BY <1>3, <1>8, <1>12, AllHaveMore
  <2>2. op.kind \notin {"crop", "run"}
    BY <1>1 DEF Copying
  <2>3. QED
    BY <1>8, <1>9, <1>11, <2>1, <2>2 DEF OpWritten
<1>14. op2.got # <<>>
  <2>1. Append(op.got, page) # <<>>
    BY <1>3, <1>8, AppendProperties
  <2>2. QED
    BY <1>8, <2>1, Zenon
<1>15. ops'[o] = op2
  BY <1>2, InvTypes
<1> HIDE DEF op, op2
<1>16. FilesInv'
  BY <1>1, <1>2, <1>3, <1>5, <1>7, <1>9, <1>13, InvTypes, WriteKeeps DEF op
<1>17. QED
  BY <1>7, <1>8, <1>14, <1>15, <1>16 DEF op

\* A handler that ends, and what is said of the documents it was making.
LEMMA GiveUpKeeps ==
    ASSUME FilesInv, NEW o \in Running, ops' = [ops EXCEPT ![o] = None],
           UNCHANGED <<platform, begun, docs, index, files, removing, used, cropped>>,
           past' \in [DocId -> SUBSET Event]
    PROVE  FilesInv'
<1>1. TypeOK'
  BY InvTypes, HandlerTypes
<1>2. QED
  BY <1>1, EndKeeps DEF FilesInv

\* The handler of an import of files, without the file it was at.
LEMMA WithoutFile ==
    ASSUME NEW op \in FilesOp, NEW shown, NEW fs, OpWritten(op, shown, fs),
           NEW op2, op2 = [op EXCEPT !.doc = None]
    PROVE  /\ op2 \in Op
           /\ OwnedBy(op2) \subseteq OwnedBy(op) /\ DocsOf(op2) \subseteq DocsOf(op)
           /\ shown \subseteq DocId => OpWritten(op2, shown, fs)
<1>1. op2 \in FilesOp /\ op2.kind = "files" /\ op.kind = "files" /\ op2.doc = None
  <2>1. op2 \in FilesOp
    BY DEF FilesOp
  <2>2. op2.kind = "files" /\ op.kind = "files"
    BY <2>1 DEF FilesOp
  <2>3. op2.doc = None
    BY DEF FilesOp
  <2>4. QED
    BY <2>1, <2>2, <2>3
<1>2. op2.ready = op.ready /\ op2.rest = op.rest
  BY DEF FilesOp
<1>3. ReadyDocs(op2) = ReadyDocs(op)
  BY <1>2 DEF ReadyDocs
<1>4. OwnedBy(op2) \subseteq OwnedBy(op)
  <2>1. OwnedBy(op2) = (({op2.doc} \ {None}) \cup ReadyDocs(op2))
                       \cup {op2.rest[i].doc : i \in DOMAIN op2.rest}
    BY ONLY <1>1, OwnedKinds
  <2>2. OwnedBy(op2) = ReadyDocs(op) \cup {op.rest[i].doc : i \in DOMAIN op.rest}
    BY <1>1, <1>2, <1>3, <2>1
  <2>3. OwnedBy(op) = (({op.doc} \ {None}) \cup ReadyDocs(op))
                      \cup {op.rest[i].doc : i \in DOMAIN op.rest}
    BY <1>1, OwnedKinds
  <2>4. QED
    BY <2>2, <2>3
<1>5. op2 \in Op
  BY <1>1 DEF Op
<1>6. op2.doc \notin OwnedBy(op2)
  BY <1>1, <1>5, OwnedDocs
<1>7. shown \subseteq DocId => OpWritten(op2, shown, fs)
  BY <1>1, <1>2, <1>6 DEF OpWritten
<1>8. QED
  BY <1>1, <1>4, <1>5, <1>7 DEF DocsOf

LEMMA CopyFailsKeeps ==
    ASSUME FilesInv, NEW o \in OpId, CopyFails(o)
    PROVE  /\ FilesInv'
           /\ ops[o].kind = "photos" =>
                 /\ ops'[o] \in Op /\ ops'[o].kind = "photos"
                 /\ ops'[o].doc = ops[o].doc /\ ops'[o].got = ops[o].got
           /\ ops[o].kind = "files" =>
                 /\ ops'[o] \in Op /\ ops'[o].kind = "files" /\ ops'[o].doc = None
                 /\ ops'[o].ready = ops[o].ready
<1> DEFINE op == ops[o]
<1>1. /\ o \in Running /\ op \in Op
      /\ op.kind \in Copying /\ op.doc # None /\ op.todo # <<>>
      /\ UNCHANGED <<platform, begun, docs, index, files, removing, used, cropped>>
  BY InvTypes DEF CopyFails
<1>2. op.doc \in DocId /\ Tail(op.todo) \in Seq(PageId)
  BY <1>1, CopiedNext
<1>3. Marked(op.doc, "left") \in [DocId -> SUBSET Event]
  BY <1>2, PastKept DEF Event
<1>4. CASE op.kind = "photos"
  <2> DEFINE op2 == [op EXCEPT !.todo = Tail(@)]
  <2>1. ops' = [ops EXCEPT ![o] = op2] /\ past' = past
    BY <1>4, InvTypes DEF CopyFails
  <2>2. op \in CopyOp
    BY <1>1, <1>4, Kinds
  <2>3. op2 \in CopyOp
    BY <1>2, <2>2 DEF CopyOp
  <2>4. op2 \in Op
    BY <2>3 DEF Op
  <2>5. op2.kind = op.kind /\ op2.doc = op.doc /\ op2.base = op.base /\ op2.got = op.got
    BY <2>2 DEF CopyOp
  <2>6. OwnedBy(op2) = OwnedBy(op) /\ DocsOf(op2) = DocsOf(op)
    BY <1>1, <1>4, <2>4, <2>5, SameOwner
  <2>7. OpWritten(op2, DOMAIN docs, files)
    BY <1>1, <1>4, <2>5, <2>6 DEF OpWritten, FilesInv
  <2>8. ops'[o] = op2
    BY <2>1, InvTypes
  <2> HIDE DEF op2
  <2>9. FilesInv'
    BY <1>1, <2>1, <2>4, <2>6, <2>7, InvTypes, WaitKeeps
  <2>10. QED
    BY <1>4, <2>4, <2>5, <2>8, <2>9
<1>5. CASE op.kind = "files"
  <2> DEFINE op2 == [op EXCEPT !.doc = None]
  <2>1. ops' = [ops EXCEPT ![o] = op2] /\ past' = Marked(op.doc, "left")
    BY <1>5, InvTypes DEF CopyFails
  <2>2. op \in FilesOp /\ OpWritten(op, DOMAIN docs, files) /\ DOMAIN docs \subseteq DocId
    BY <1>1, <1>5, Kinds, InvTypes DEF FilesInv
  <2>3. /\ op2 \in Op /\ OpWritten(op2, DOMAIN docs, files)
        /\ OwnedBy(op2) \subseteq OwnedBy(op) /\ DocsOf(op2) \subseteq DocsOf(op)
    BY <2>2, WithoutFile
  <2>4. ops'[o] = op2
    BY <2>1, InvTypes
  <2>5. op2.kind = "files" /\ op2.doc = None /\ op2.ready = op.ready
    BY <2>2 DEF FilesOp
  <2> HIDE DEF op2
  <2>6. FilesInv'
    BY <1>1, <1>3, <2>1, <2>3, WaitKeeps
  <2>7. QED
    BY <1>5, <2>3, <2>4, <2>5, <2>6
<1>6. CASE op.kind = "scan"
  <2>1. ops' = [ops EXCEPT ![o] = None] /\ past' = Marked(op.doc, "left")
    BY <1>6 DEF CopyFails
  <2>2. QED
    BY <1>1, <1>3, <1>6, <2>1, GiveUpKeeps
<1>7. CASE op.kind = "add"
  <2>1. ops' = [ops EXCEPT ![o] = None] /\ past' = past
    BY <1>7 DEF CopyFails
  <2>2. QED
    BY <1>1, <1>7, <2>1, InvTypes, GiveUpKeeps
<1>8. QED
  BY <1>1, <1>4, <1>5, <1>6, <1>7 DEF Copying

LEMMA NamelessFileKeeps ==
    ASSUME FilesInv, NEW o \in OpId, NamelessFile(o)
    PROVE  FilesInv'
<1>1. /\ o \in Running /\ ops' = [ops EXCEPT ![o] = None]
      /\ past' = MarkedAll(ReadyDocs(ops[o]), "left")
      /\ UNCHANGED <<platform, begun, docs, index, files, removing, used, cropped>>
  BY DEF NamelessFile, Opening
<1>2. past' \in [DocId -> SUBSET Event]
  BY <1>1, InvTypes DEF MarkedAll, Event
<1>3. QED
  BY <1>1, <1>2, GiveUpKeeps

LEMMA CropFailsKeeps ==
    ASSUME FilesInv, NEW o \in OpId, CropFails(o)
    PROVE  FilesInv'
BY InvTypes, GiveUpKeeps DEF CropFails

\* The next file of an import, and what is left of it when some pages are skipped.
LEMMA NextFile ==
    ASSUME FilesInv, NEW o \in OpId, Opening(o), ops[o].rest # <<>>
    PROVE  /\ o \in Running /\ ops[o] \in FilesOp /\ ops[o] \in Op
           /\ ops[o].kind = "files" /\ ops[o].doc = None
           /\ Head(ops[o].rest) \in Item /\ Tail(ops[o].rest) \in Seq(Item)
           /\ Head(ops[o].rest).doc \in DocId
           /\ Head(ops[o].rest).pages \in Seq(PageId)
           /\ Head(ops[o].rest).isPdf \in BOOLEAN
<1>1. /\ o \in Running /\ ops[o] \in Op /\ ops[o].kind = "files" /\ ops[o].doc = None
      /\ ops[o] \in FilesOp
  BY InvTypes, Kinds DEF Opening
<1>2. ops[o].rest \in Seq(Item)
  BY <1>1 DEF FilesOp
<1>3. Head(ops[o].rest) \in Item /\ Tail(ops[o].rest) \in Seq(Item)
  BY <1>2
<1>4. QED
  BY <1>1, <1>3 DEF Item

LEMMA SublistsType ==
    ASSUME NEW s \in Seq(PageId), NEW t \in Sublists(s)
    PROVE  t \in Seq(PageId)
<1>1. PICK n \in 0 .. Len(s) : \E at \in [1 .. n -> DOMAIN s] :
          t = [i \in DOMAIN at |-> s[at[i]]]
  BY DEF Sublists
<1>2. PICK at \in [1 .. n -> DOMAIN s] : t = [i \in DOMAIN at |-> s[at[i]]]
  BY <1>1
<1>3. n \in Nat /\ DOMAIN at = 1 .. n /\ \A i \in 1 .. n : s[at[i]] \in PageId
  BY <1>2
<1>4. QED
  BY <1>2, <1>3, IsASeq

\* Taking the next file of an import, whatever becomes of it.
LEMMA RestOwned ==
    ASSUME NEW op \in FilesOp, op.rest # <<>>, NEW op2 \in Op, op2.kind = "files",
           op2.ready = op.ready, op2.rest = Tail(op.rest),
           op2.doc \in {op.doc, Head(op.rest).doc}
    PROVE  /\ OwnedBy(op2) \subseteq OwnedBy(op) /\ DocsOf(op2) \subseteq DocsOf(op)
           /\ Head(op.rest).doc \in OwnedBy(op)
<1>1. /\ op.kind = "files" /\ op.rest \in Seq(Item)
  BY DEF FilesOp
<1>2. ReadyDocs(op2) = ReadyDocs(op)
  BY DEF ReadyDocs
<1>3. OwnedBy(op) = (({op.doc} \ {None}) \cup ReadyDocs(op))
                    \cup {op.rest[i].doc : i \in DOMAIN op.rest}
  BY ONLY <1>1, OwnedKinds
<1>4. OwnedBy(op2) = (({op2.doc} \ {None}) \cup ReadyDocs(op2))
                     \cup {op2.rest[i].doc : i \in DOMAIN op2.rest}
  BY OwnedKinds
<1>5. 1 \in DOMAIN op.rest /\ Head(op.rest) = op.rest[1]
  BY <1>1
<1>6. \A i \in DOMAIN op2.rest : i + 1 \in DOMAIN op.rest /\ op2.rest[i] = op.rest[i + 1]
  BY <1>1
<1>7. OwnedBy(op2) \subseteq OwnedBy(op) /\ Head(op.rest).doc \in OwnedBy(op)
  BY <1>2, <1>3, <1>4, <1>5, <1>6
<1>8. QED
  BY <1>3, <1>5, <1>7 DEF DocsOf

\* An import that goes on with the next file without opening one.
LEMMA FileSkipped ==
    ASSUME FilesInv, NEW o \in OpId, Opening(o), ops[o].rest # <<>>,
           NEW flag \in BOOLEAN, NEW op2,
           op2 = [ops[o] EXCEPT !.rest = Tail(@), !.opened = flag]
    PROVE  /\ op2 \in Op /\ op2.kind = "files" /\ op2.doc = None
           /\ op2.ready = ops[o].ready
           /\ OwnedBy(op2) \subseteq OwnedBy(ops[o])
           /\ DocsOf(op2) \subseteq DocsOf(ops[o])
           /\ \A fs : OpWritten(ops[o], DOMAIN docs, fs) => OpWritten(op2, DOMAIN docs, fs)
<1> DEFINE op == ops[o]
<1>1. /\ op \in FilesOp /\ op \in Op /\ op.kind = "files" /\ op.doc = None
      /\ Tail(op.rest) \in Seq(Item)
  BY NextFile
<1>2. op2 \in FilesOp
  BY <1>1 DEF FilesOp
<1>3. op2 \in Op
  BY <1>2 DEF Op
<1>4. /\ op2.kind = "files" /\ op2.doc = None /\ op2.ready = op.ready
      /\ op2.rest = Tail(op.rest)
  BY <1>1 DEF FilesOp
<1>5. OwnedBy(op2) \subseteq OwnedBy(op) /\ DocsOf(op2) \subseteq DocsOf(op)
  BY <1>1, <1>3, <1>4, RestOwned
<1>6. None \notin OwnedBy(op2) /\ None \notin DOMAIN docs
  BY <1>3, OwnedDocs, InvTypes
<1> HIDE DEF op
<1>7. \A fs : OpWritten(op, DOMAIN docs, fs) => OpWritten(op2, DOMAIN docs, fs)
  BY <1>1, <1>4, <1>6 DEF OpWritten
<1>8. QED
  BY <1>3, <1>4, <1>5, <1>7 DEF op

LEMMA SkipFileKeeps ==
    ASSUME FilesInv, NEW o \in OpId, SkipFile(o)
    PROVE  /\ FilesInv'
           /\ ops'[o] \in Op /\ ops'[o].kind = "files" /\ ops'[o].doc = None
           /\ ops'[o].ready = ops[o].ready
<1> DEFINE op == ops[o]
           op2 == [op EXCEPT !.rest = Tail(@), !.opened = op.opened]
<1>1. /\ Opening(o) /\ op.rest # <<>>
      /\ UNCHANGED <<platform, begun, docs, index, files, removing, used, cropped, past>>
  BY DEF SkipFile
<1>2. o \in Running /\ op \in FilesOp /\ OpWritten(op, DOMAIN docs, files)
  BY <1>1, NextFile DEF FilesInv
<1>3. op2 = [op EXCEPT !.rest = Tail(@)] /\ op.opened \in BOOLEAN
  BY <1>2 DEF FilesOp
<1>4. ops' = [ops EXCEPT ![o] = op2] /\ ops'[o] = op2
  BY <1>3, InvTypes DEF SkipFile
<1>eq. op2 = [ops[o] EXCEPT !.rest = Tail(@), !.opened = op.opened]
  OBVIOUS
<1> HIDE DEF op2
<1>5. /\ op2 \in Op /\ op2.kind = "files" /\ op2.doc = None /\ op2.ready = op.ready
      /\ OwnedBy(op2) \subseteq OwnedBy(op) /\ DocsOf(op2) \subseteq DocsOf(op)
      /\ OpWritten(op2, DOMAIN docs, files)
  BY <1>1, <1>2, <1>3, <1>eq, FileSkipped
<1>6. FilesInv'
  BY <1>1, <1>2, <1>4, <1>5, InvTypes, WaitKeeps
<1>7. QED
  BY <1>4, <1>5, <1>6

LEMMA SkipPdfKeeps ==
    ASSUME FilesInv, NEW o \in OpId, SkipPdf(o)
    PROVE  /\ FilesInv'
           /\ ops'[o] \in Op /\ ops'[o].kind = "files" /\ ops'[o].doc = None
           /\ ops'[o].ready = ops[o].ready
<1> DEFINE op == ops[o]
           item == Head(op.rest)
           op2 == [op EXCEPT !.rest = Tail(@), !.opened = TRUE]
<1>1. /\ Opening(o) /\ op.rest # <<>>
      /\ UNCHANGED <<platform, begun, docs, index, removing, used, cropped>>
  BY DEF SkipPdf
<1>2. /\ o \in Running /\ item.doc \in DocId /\ item.pages \in Seq(PageId)
      /\ OpWritten(op, DOMAIN docs, files)
  BY <1>1, NextFile DEF FilesInv
<1>3. ops' = [ops EXCEPT ![o] = op2] /\ ops'[o] = op2
  BY InvTypes DEF SkipPdf
<1> HIDE DEF op2
<1>4. /\ op2 \in Op /\ op2.kind = "files" /\ op2.doc = None /\ op2.ready = op.ready
      /\ OwnedBy(op2) \subseteq OwnedBy(op) /\ DocsOf(op2) \subseteq DocsOf(op)
      /\ \A fs : OpWritten(op, DOMAIN docs, fs) => OpWritten(op2, DOMAIN docs, fs)
  BY <1>1, FileSkipped DEF op2
<1>5. CASE UNCHANGED <<files, past>>
  <2>1. FilesInv'
    BY <1>1, <1>2, <1>3, <1>4, <1>5, InvTypes, WaitKeeps
  <2>2. QED
    BY <1>3, <1>4, <2>1
<1>6. CASE /\ files' = [files EXCEPT ![item.doc] = Put(@, Original, item.pages)]
           /\ past' = Marked(item.doc, "left")
  <2>1. past' \in [DocId -> SUBSET Event]
    BY <1>2, <1>6, PastKept DEF Event
  <2>2. \A d \in DocId : DOMAIN files[d] \subseteq DOMAIN files'[d]
    BY <1>2, <1>6, InvTypes DEF Put
  <2>3. OpWritten(op, DOMAIN docs, files')
    BY <1>2, <2>2, StillWritten
  <2>4. FilesInv'
    BY <1>1, <1>2, <1>3, <1>4, <1>6, <2>1, <2>3, WriteKeeps
  <2>5. QED
    BY <1>3, <1>4, <2>4
<1>7. QED
  BY <1>5, <1>6 DEF SkipPdf

LEMMA OpenFileKeeps ==
    ASSUME FilesInv, NEW o \in OpId, OpenFile(o)
    PROVE  /\ FilesInv'
           /\ ops'[o] \in Op /\ ops'[o].kind = "files"
           /\ ops'[o].doc = Head(ops[o].rest).doc /\ ops'[o].ready = ops[o].ready
<1> DEFINE op == ops[o]
           item == Head(op.rest)
<1>1. /\ Opening(o) /\ op.rest # <<>>
      /\ UNCHANGED <<platform, begun, docs, index, removing, used, cropped>>
      /\ files' = IF item.isPdf
                  THEN [files EXCEPT ![item.doc] = Put(@, Original, item.pages)]
                  ELSE files
  BY DEF OpenFile
<1>2. /\ o \in Running /\ op \in FilesOp /\ op \in Op /\ op.kind = "files"
      /\ item.doc \in DocId /\ item.pages \in Seq(PageId) /\ item.isPdf \in BOOLEAN
      /\ Tail(op.rest) \in Seq(Item)
  BY <1>1, NextFile
<1>3. PICK pages \in Sublists(item.pages) :
          /\ ops' = [ops EXCEPT
                 ![o].doc = item.doc, ![o].isPdf = item.isPdf,
                 ![o].todo = pages, ![o].got = <<>>,
                 ![o].rest = Tail(@), ![o].opened = TRUE]
          /\ past' = IF pages = item.pages THEN past ELSE Marked(item.doc, "skipped")
  BY DEF OpenFile
<1> DEFINE op2 == [op EXCEPT !.doc = item.doc, !.isPdf = item.isPdf, !.todo = pages,
                             !.got = <<>>, !.rest = Tail(@), !.opened = TRUE]
<1>4. pages \in Seq(PageId)
  BY <1>2, SublistsType
<1>5. ops' = [ops EXCEPT ![o] = op2]
  BY <1>3, InvTypes
<1>6. past' \in [DocId -> SUBSET Event]
  BY <1>2, <1>3, InvTypes, PastKept DEF Event
<1>7. <<>> \in Seq(Page)
  OBVIOUS
<1>8. op2 \in FilesOp
  BY <1>2, <1>4, <1>7 DEF FilesOp
<1>9. op2 \in Op
  BY <1>8 DEF Op
<1>10. /\ op2.kind = "files" /\ op2.doc = item.doc /\ op2.ready = op.ready
       /\ op2.rest = Tail(op.rest) /\ op2.base = op.base /\ op2.got = <<>>
  BY <1>2 DEF FilesOp
<1>11. OwnedBy(op2) \subseteq OwnedBy(op) /\ DocsOf(op2) \subseteq DocsOf(op)
  BY <1>1, <1>2, <1>9, <1>10, RestOwned
<1>op. ops'[o] = op2
  BY <1>2, <1>5, InvTypes
<1> HIDE DEF op2
<1>12. \A d \in DocId : DOMAIN files[d] \subseteq DOMAIN files'[d]
  BY <1>1, <1>2, InvTypes DEF Put
<1>13. OpWritten(op, DOMAIN docs, files')
  BY <1>2, <1>12, StillWritten
<1>14. op2.base = <<>>
  BY <1>8 DEF FilesOp
<1>15. OpWritten(op2, DOMAIN docs, files')
  BY <1>2, <1>10, <1>13, <1>14 DEF OpWritten, AllHave
<1>16. ASSUME item.isPdf PROVE FilesInv'
  BY <1>1, <1>2, <1>5, <1>6, <1>9, <1>11, <1>15, <1>16, WriteKeeps
<1>17. ASSUME ~item.isPdf PROVE FilesInv'
  <2>1. files' = files
    BY <1>1, <1>17
  <2>2. QED
    BY <1>1, <1>2, <1>5, <1>6, <1>9, <1>11, <1>15, <2>1, WaitKeeps
<1>18. FilesInv'
  BY <1>2, <1>16, <1>17
<1>19. QED
  BY <1>op, <1>9, <1>10, <1>18

LEMMA CloseFileKeeps ==
    ASSUME FilesInv, NEW o \in OpId, CloseFile(o)
    PROVE  /\ FilesInv'
           /\ ops'[o] \in Op /\ ops'[o].kind = "files" /\ ops'[o].doc = None
           /\ ReadyDocs(ops'[o]) = ReadyDocs(ops[o]) \cup {ops[o].doc}
<1> DEFINE op == ops[o]
           made == [doc |-> op.doc, isPdf |-> op.isPdf, pages |-> op.got]
           op2 == [op EXCEPT !.doc = None, !.ready = Append(@, made)]
<1>1. /\ o \in Running /\ op \in Op /\ op.kind = "files" /\ op.doc # None
      /\ UNCHANGED <<platform, begun, docs, index, files, removing, used, cropped, past>>
  BY InvTypes DEF CloseFile
<1>2. ops' = [ops EXCEPT ![o] = op2]
  BY InvTypes DEF CloseFile
<1>3. op \in FilesOp /\ op.doc \in DocId
  BY <1>1, Kinds
<1>4. made \in Imported /\ op.ready \in Seq(Imported)
  BY <1>3 DEF FilesOp, Imported
<1>5. made.doc = op.doc /\ made.pages = op.got
  OBVIOUS
<1> HIDE DEF made
<1>6. Append(op.ready, made) \in Seq(Imported)
  BY <1>4
<1>7. op2 \in FilesOp
  BY <1>3, <1>6 DEF FilesOp
<1>8. op2 \in Op
  BY <1>7 DEF Op
<1>9. /\ op2.kind = "files" /\ op2.doc = None /\ op2.rest = op.rest
      /\ op2.ready = Append(op.ready, made)
  BY <1>3 DEF FilesOp
<1>op. ops'[o] = op2
  BY <1>1, <1>2, InvTypes
<1> HIDE DEF op2
<1>10. /\ \A i \in DOMAIN op2.ready :
              \/ (i \in DOMAIN op.ready /\ op2.ready[i] = op.ready[i])
              \/ op2.ready[i] = made
       /\ \A i \in DOMAIN op.ready :
              i \in DOMAIN op2.ready /\ op2.ready[i] = op.ready[i]
       /\ \E i \in DOMAIN op2.ready : op2.ready[i] = made
  <2>1. /\ Len(op.ready) + 1 \in DOMAIN op2.ready
        /\ op2.ready[Len(op.ready) + 1] = made
    BY <1>4, <1>9
  <2>2. QED
    BY <1>4, <1>9, <2>1
<1>11. OwnedBy(op) = (({op.doc} \ {None}) \cup ReadyDocs(op))
                     \cup {op.rest[i].doc : i \in DOMAIN op.rest}
  BY <1>1, OwnedKinds
<1>12. OwnedBy(op2) = (({op2.doc} \ {None}) \cup ReadyDocs(op2))
                      \cup {op2.rest[i].doc : i \in DOMAIN op2.rest}
  BY <1>9, OwnedKinds
<1>13. ReadyDocs(op2) = ReadyDocs(op) \cup {op.doc}
  <2>1. ReadyDocs(op2) \subseteq ReadyDocs(op) \cup {op.doc}
    BY <1>5, <1>10 DEF ReadyDocs
  <2>2. ReadyDocs(op) \subseteq ReadyDocs(op2)
    BY <1>10 DEF ReadyDocs
  <2>3. op.doc \in ReadyDocs(op2)
    BY <1>5, <1>10 DEF ReadyDocs
  <2>4. QED
    BY <2>1, <2>2, <2>3
<1>14. OwnedBy(op2) \subseteq OwnedBy(op) /\ op.doc \in OwnedBy(op)
  BY <1>1, <1>9, <1>11, <1>12, <1>13
<1>15. DocsOf(op2) \subseteq DocsOf(op)
  BY <1>9, <1>14 DEF DocsOf
<1>16. OpWritten(op2, DOMAIN docs, files)
  <2>1. OpWritten(op, DOMAIN docs, files)
    BY <1>1 DEF FilesInv
  <2>2. AllHave(made.pages, files[made.doc])
    BY <1>1, <1>5, <1>14, <2>1 DEF OpWritten, Copying
  <2>3. \A i \in DOMAIN op2.ready : AllHave(op2.ready[i].pages, files[op2.ready[i].doc])
    BY <1>1, <1>10, <2>1, <2>2 DEF OpWritten
  <2>4. None \notin DOMAIN docs \cup OwnedBy(op2)
    BY <1>8, OwnedDocs, InvTypes
  <2>5. QED
    BY <1>9, <2>3, <2>4 DEF OpWritten
<1>17. FilesInv'
  BY <1>1, <1>2, <1>8, <1>14, <1>15, <1>16, InvTypes, WaitKeeps
<1>18. QED
  BY <1>op, <1>8, <1>9, <1>13, <1>17

LEMMA CropCopiesKeeps ==
    ASSUME FilesInv, NEW o \in OpId, CropCopies(o)
    PROVE  /\ FilesInv'
           /\ ops'[o] \in Op /\ ops'[o].kind = "crop" /\ ops'[o].doc = ops[o].doc
<1> DEFINE op == ops[o]
           name == CropName(op)
           image == op.image
           op2 == [op EXCEPT !.copied = TRUE]
<1>1. /\ o \in Running /\ op \in Op /\ op.kind = "crop"
      /\ files' = [files EXCEPT ![op.doc] = Put(@, name, image)]
      /\ UNCHANGED <<platform, begun, docs, index, removing, used, cropped, past>>
  BY InvTypes DEF CropCopies, PutPageFile
<1>2. ops' = [ops EXCEPT ![o] = op2]
  BY InvTypes DEF CropCopies
<1>3. op \in CropOp /\ op.doc \in DocId
  BY <1>1, Kinds
<1>4. name \in FileName /\ image \in Image
  BY <1>3 DEF CropOp, CropName, FileName, Image
<1>5. op2 \in CropOp
  BY <1>3 DEF CropOp
<1>6. op2 \in Op
  BY <1>5 DEF Op
<1>7. op2.kind = "crop" /\ op2.doc = op.doc /\ op2.at = op.at
  BY <1>3 DEF CropOp
<1>8. OwnedBy(op2) = OwnedBy(op) /\ DocsOf(op2) = DocsOf(op)
  BY <1>1, <1>6, <1>7, SameOwner
<1>9. CropName(op2) \in DOMAIN files'[op.doc]
  BY <1>1, <1>3, <1>7, InvTypes DEF Put, CropName
<1>op. ops'[o] = op2
  BY <1>2, InvTypes
<1> HIDE DEF op2, name, image
<1>10. OpWritten(op2, DOMAIN docs, files')
  BY <1>7, <1>9 DEF OpWritten, Copying
<1>11. FilesInv'
  BY <1>1, <1>2, <1>3, <1>4, <1>6, <1>8, <1>10, InvTypes, WriteKeeps
<1>12. QED
  BY <1>op, <1>6, <1>7, <1>11

\* An image that is turned is one of the page still.
LEMMA LookType ==
    ASSUME NEW image \in Image, NEW rotation \in Rotation
    PROVE  Look(image, rotation) \in Image
<1>1. \A m, n \in Rotation : (m + n) % Turns \in Rotation
  BY DEF Rotation
<1>2. image.turned \in Rotation
  BY DEF Image
<1>3. (image.turned + rotation) % Turns \in Rotation
  BY <1>1, <1>2
<1>4. QED
  BY <1>3 DEF Look, Image

LEMMA FilteredType ==
    ASSUME NEW image \in Image, NEW page \in Page
    PROVE  Filtered(image, page) \in Image
<1>1. page.rotation \in Rotation
  BY DEF Page
<1>2. QED
  BY <1>1, LookType DEF Filtered

\* The pages that are being filtered.
LEMMA Filtering ==
    ASSUME FilesInv, NEW o \in Running, ops[o].kind = "run",
           NEW i \in ops[o].left
    PROVE  /\ ops[o] \in RunOp /\ ops[o] \in Op /\ ops[o].doc \in DocId
           /\ i \in Nat \ {0} /\ ProcessedName(i) \in FileName
           /\ Filtered(ops[o].images[i], ops[o].base[i]) \in Image
<1>1. ops[o] \in RunOp /\ ops[o] \in Op /\ ops[o].doc \in DocId
  BY InvTypes, Kinds
<1>2. /\ ops[o].left \subseteq Nat \ {0} /\ ops[o].images \in Seq(Image)
      /\ ops[o].base \in Seq(Page)
  BY <1>1 DEF RunOp
<1>3. ops[o].left \subseteq DOMAIN ops[o].images \cap DOMAIN ops[o].base
  BY DEF FilesInv, OpWritten
<1>4. ops[o].images[i] \in Image /\ ops[o].base[i] \in Page
  BY <1>2, <1>3
<1>5. QED
  BY <1>1, <1>2, <1>4, FilteredType DEF ProcessedName, FileName

LEMMA FilterPageKeeps ==
    ASSUME FilesInv, NEW o \in OpId, NEW i, FilterPage(o, i)
    PROVE  /\ FilesInv'
           /\ ops'[o] \in Op /\ ops'[o].kind = "run" /\ ops'[o].doc = ops[o].doc
<1> DEFINE op == ops[o]
           image == Filtered(op.images[i], op.base[i])
           op2 == [op EXCEPT !.left = @ \ {i}, !.done = @ \cup {i}]
<1>1. /\ o \in Running /\ op.kind = "run" /\ i \in op.left
      /\ files' = [files EXCEPT ![op.doc] = Put(@, ProcessedName(i), image)]
      /\ UNCHANGED <<platform, begun, docs, index, removing, used, cropped, past>>
  BY DEF FilterPage, PutPageFile
<1>2. ops' = [ops EXCEPT ![o] = op2]
  BY InvTypes DEF FilterPage
<1>3. /\ op \in RunOp /\ op \in Op /\ op.doc \in DocId /\ i \in Nat \ {0}
      /\ ProcessedName(i) \in FileName /\ image \in Image
  BY <1>1, Filtering
<1>4. op2 \in RunOp
  BY <1>3 DEF RunOp
<1>5. op2 \in Op
  BY <1>4 DEF Op
<1>6. /\ op2.kind = "run" /\ op2.doc = op.doc /\ op2.base = op.base
      /\ op2.images = op.images /\ op2.left = op.left \ {i}
      /\ op2.done = op.done \cup {i} /\ op2.next = op.next
  BY <1>3 DEF RunOp
<1>7. OwnedBy(op2) = OwnedBy(op) /\ DocsOf(op2) = DocsOf(op)
  BY <1>1, <1>3, <1>5, <1>6, SameOwner
<1>op. ops'[o] = op2
  BY <1>2, InvTypes
<1> HIDE DEF op2, image
<1>8. /\ ProcessedName(i) \in DOMAIN files'[op.doc]
      /\ \A d \in DocId : DOMAIN files[d] \subseteq DOMAIN files'[d]
  BY <1>1, <1>3, InvTypes DEF Put
<1>9. OpWritten(op, DOMAIN docs, files')
  BY <1>1, <1>8, StillWritten
<1>10. OpWritten(op2, DOMAIN docs, files')
  BY <1>1, <1>6, <1>8, <1>9 DEF OpWritten, Copying
<1>11. FilesInv'
  BY <1>1, <1>2, <1>3, <1>5, <1>7, <1>10, InvTypes, WriteKeeps
<1>12. QED
  BY <1>op, <1>5, <1>6, <1>11

LEMMA FilterFailsKeeps ==
    ASSUME FilesInv, NEW o \in OpId, NEW i, FilterFails(o, i)
    PROVE  /\ FilesInv'
           /\ ops'[o] \in Op /\ ops'[o].kind = "run" /\ ops'[o].doc = ops[o].doc
<1> DEFINE op == ops[o]
           op2 == [op EXCEPT !.left = @ \ {i}]
<1>1. /\ o \in Running /\ op.kind = "run" /\ i \in op.left
      /\ UNCHANGED <<platform, begun, docs, index, files, removing, used, cropped, past>>
  BY DEF FilterFails
<1>2. ops' = [ops EXCEPT ![o] = op2]
  BY InvTypes DEF FilterFails
<1>3. op \in RunOp /\ op \in Op /\ op.doc \in DocId
  BY <1>1, Filtering
<1>4. op2 \in RunOp
  BY <1>3 DEF RunOp
<1>5. op2 \in Op
  BY <1>4 DEF Op
<1>6. /\ op2.kind = "run" /\ op2.doc = op.doc /\ op2.base = op.base
      /\ op2.images = op.images /\ op2.left = op.left \ {i} /\ op2.done = op.done
      /\ op2.next = op.next
  BY <1>3 DEF RunOp
<1>7. OwnedBy(op2) = OwnedBy(op) /\ DocsOf(op2) = DocsOf(op)
  BY <1>1, <1>3, <1>5, <1>6, SameOwner
<1>op. ops'[o] = op2
  BY <1>2, InvTypes
<1> HIDE DEF op2
<1>8. OpWritten(op2, DOMAIN docs, files)
  BY <1>1, <1>6 DEF OpWritten, Copying, FilesInv
<1>9. FilesInv'
  BY <1>1, <1>2, <1>5, <1>7, <1>8, InvTypes, WaitKeeps
<1>10. QED
  BY <1>op, <1>5, <1>6, <1>9

-----------------------------------------------------------------------------
(* Handlers end.                                                           *)

\* A handler ends that has changed documents.
LEMMA DoneKeeps ==
    ASSUME FilesInv, NEW o \in Running, ops' = [ops EXCEPT ![o] = None],
           UNCHANGED <<platform, begun, files, removing, used>>,
           cropped' \subseteq PageId, past' \in [DocId -> SUBSET Event],
           DOMAIN docs' \subseteq DOMAIN docs \cup OwnedBy(ops[o]),
           \A d \in DOMAIN docs' : docs'[d] \in Doc,
           Have(docs', files),
           DOMAIN index' = DOMAIN docs', \A d \in DOMAIN index' : index'[d] \in Doc,
           Have(index', files)
    PROVE  FilesInv'
<1>1. DOMAIN docs' \subseteq DocId
  BY InvTypes, OwnedDocs
<1>2. /\ DOMAIN files' = DocId
      /\ \A x \in DocId : \A n \in DOMAIN files'[x] :
             \/ n \in FileName /\ files'[x][n] \in Image
             \/ n = Original /\ files'[x][n] \in Seq(PageId)
  BY DEF FilesInv, TypeOK
<1>3. TypeOK'
  BY <1>1, <1>2, InvTypes, TypesKept
<1>4. QED
  BY <1>3, EndKeeps

LEMMA AllHaveBoth ==
    ASSUME NEW s \in Seq(Page), NEW t \in Seq(Page), NEW dir, AllHave(s, dir),
           AllHave(t, dir)
    PROVE  s \o t \in Seq(Page) /\ AllHave(s \o t, dir)
<1>1. s \o t \in Seq(Page)
  OBVIOUS
<1>2. ASSUME NEW i \in DOMAIN (s \o t)
      PROVE  Has((s \o t)[i], dir)
  <2>1. CASE i <= Len(s)
    <3>1. i \in DOMAIN s /\ (s \o t)[i] = s[i]
      BY <1>2, <2>1
    <3>2. QED
      BY <3>1 DEF AllHave
  <2>2. CASE ~(i <= Len(s))
    <3>1. i - Len(s) \in DOMAIN t /\ (s \o t)[i] = t[i - Len(s)]
      BY <1>2, <2>2
    <3>2. QED
      BY <3>1 DEF AllHave
  <2>3. QED
    BY <2>1, <2>2
<1>3. QED
  BY <1>1, <1>2 DEF AllHave

LEMMA SameLength ==
    ASSUME NEW s \in Seq(Page), NEW t, t = [i \in DOMAIN s |-> t[i]],
           \A i \in DOMAIN s : t[i] \in Page
    PROVE  t \in Seq(Page)
<1>1. DOMAIN s = 1 .. Len(s) /\ Len(s) \in Nat
  OBVIOUS
<1>2. t \in [1 .. Len(s) -> Page]
  BY <1>1
<1>3. QED
  BY <1>1, <1>2

LEMMA PagesChanged ==
    ASSUME NEW s \in Seq(Page), NEW t, NEW dir, t = [i \in DOMAIN s |-> t[i]],
           \A i \in DOMAIN s : t[i] \in Page /\ Has(t[i], dir)
    PROVE  t \in Seq(Page) /\ AllHave(t, dir)
<1>1. DOMAIN s = 1 .. Len(s) /\ Len(s) \in Nat
  OBVIOUS
<1>2. t \in [1 .. Len(s) -> Page]
  BY <1>1
<1>3. t \in Seq(Page) /\ DOMAIN t = DOMAIN s
  BY <1>1, <1>2
<1>4. QED
  BY <1>3 DEF AllHave

\* A document whose pages are replaced by others that have their files.
LEMMA PagesReplaced ==
    ASSUME FilesInv, NEW d \in DOMAIN docs, NEW pages \in Seq(Page),
           AllHave(pages, files[d]), docs' = [docs EXCEPT ![d].pages = pages]
    PROVE  /\ DOMAIN docs' = DOMAIN docs
           /\ \A x \in DOMAIN docs' : docs'[x] \in Doc
           /\ Have(docs', files)
<1>1. DOMAIN docs' = DOMAIN docs /\ docs' = [docs EXCEPT ![d] = [@ EXCEPT !.pages = pages]]
  OBVIOUS
<1>2. docs[d] \in Doc
  BY ShownPages
<1>3. docs'[d] \in Doc /\ docs'[d].pages = pages
  BY <1>1, <1>2 DEF Doc
<1>4. \A x \in DOMAIN docs : x # d => docs'[x] = docs[x]
  BY <1>1
<1>5. QED
  BY <1>1, <1>3, <1>4, InvTypes DEF FilesInv, Have

\* A document that is shown or made, with pages that have their files.
LEMMA DocWritten ==
    ASSUME FilesInv, NEW d \in DocId, NEW doc \in Doc, AllHave(doc.pages, files[d]),
           docs' = Put(docs, d, doc)
    PROVE  /\ DOMAIN docs' = DOMAIN docs \cup {d}
           /\ \A x \in DOMAIN docs' : docs'[x] \in Doc
           /\ Have(docs', files)
<1>1. /\ DOMAIN docs' = DOMAIN docs \cup {d} /\ docs'[d] = doc
      /\ \A x \in DOMAIN docs \ {d} : docs'[x] = docs[x]
  BY DEF Put
<1>2. \A x \in DOMAIN docs' : docs'[x] \in Doc /\ AllHave(docs'[x].pages, files[x])
  BY <1>1, InvTypes DEF FilesInv, Have
<1>3. QED
  BY <1>1, <1>2 DEF Have

LEMMA FinishKeeps ==
    ASSUME FilesInv, NEW o \in OpId, Finish(o)
    PROVE  FilesInv'
<1> DEFINE op == ops[o]
           given == IF op.kind = "add" THEN op.doc \in DOMAIN docs ELSE op.got # <<>>
<1>1. /\ o \in Running /\ op \in Op /\ op.kind \in {"scan", "photos", "add"}
      /\ ops' = [ops EXCEPT ![o] = None]
      /\ given => docs' = Made(op) /\ index' = Made(op)
      /\ ~given => docs' = docs /\ index' = index
      /\ past' = IF op.kind = "add" THEN Marked(op.doc, "added") ELSE past
      /\ UNCHANGED <<platform, begun, files, removing, used, cropped>>
  BY InvTypes DEF Finish, Copying, SetDocs
<1>2. op \in CopyOp /\ op.doc \in DocId
  BY <1>1, Kinds
<1>3. op.base \in Seq(Page) /\ op.got \in Seq(Page)
  BY <1>2 DEF CopyOp
<1>4. past' \in [DocId -> SUBSET Event]
  BY <1>1, <1>2, InvTypes, PastKept DEF Event
<1>5. CASE given
  <2>1. op.doc \in DOMAIN docs \cup OwnedBy(op)
    BY <1>1, <1>5, OwnedKinds
  <2>2. AllHave(op.base, files[op.doc]) /\ AllHave(op.got, files[op.doc])
    BY <1>1, <2>1 DEF FilesInv, OpWritten, Copying
  <2>3. docs' = index' /\ docs' = Made(op)
    BY <1>1, <1>5
  <2>4. /\ DOMAIN docs' = DOMAIN docs \cup {op.doc}
        /\ \A d \in DOMAIN docs' : docs'[d] \in Doc
        /\ Have(docs', files)
    <3>1. CASE op.kind # "add"
      <4> DEFINE doc == NewDoc(FALSE, op.got)
      <4>1. docs' = Put(docs, op.doc, doc)
        BY <2>3, <3>1 DEF Made
      <4>2. doc \in Doc /\ doc.pages = op.got
        BY <1>3 DEF NewDoc, Doc, Status
      <4> HIDE DEF doc
      <4>3. /\ Have(docs, files) /\ DOMAIN docs \subseteq DocId
            /\ \A d \in DOMAIN docs : docs[d] \in Doc
        BY InvTypes DEF FilesInv
      <4>4. AllHave(doc.pages, files[op.doc])
        BY <2>2, <4>2
      <4>5. QED
        BY <1>2, <4>1, <4>2, <4>3, <4>4, DocWritten
    <3>2. CASE op.kind = "add"
      <4> DEFINE pages == op.base \o op.got
      <4>1. pages \in Seq(Page) /\ AllHave(pages, files[op.doc])
        BY <1>3, <2>2, AllHaveBoth
      <4>2. op.doc \in DOMAIN docs /\ docs' = [docs EXCEPT ![op.doc].pages = pages]
        BY <1>5, <2>3, <3>2 DEF Made
      <4> HIDE DEF pages
      <4>3. QED
        BY <4>1, <4>2, PagesReplaced
    <3>3. QED
      BY <3>1, <3>2
  <2>5. DOMAIN docs' \subseteq DOMAIN docs \cup OwnedBy(op)
    BY <2>1, <2>4
  <2>6. /\ DOMAIN index' = DOMAIN docs' /\ Have(index', files)
        /\ \A d \in DOMAIN index' : index'[d] \in Doc
    BY <2>3, <2>4
  <2>7. QED
    BY <1>1, <1>4, <2>4, <2>5, <2>6, InvTypes, DoneKeeps
<1>6. CASE ~given
  <2>1. docs' = docs /\ index' = index
    BY <1>1, <1>6
  <2>2. QED
    BY <1>1, <1>4, <2>1, GiveUpKeeps
<1>7. QED
  BY <1>5, <1>6

LEMMA HandOverKeeps ==
    ASSUME FilesInv, NEW o \in OpId, HandOver(o)
    PROVE  FilesInv'
<1> DEFINE op == ops[o]
           made(d) == op.ready[CHOOSE i \in DOMAIN op.ready : op.ready[i].doc = d]
<1>1. /\ o \in Running /\ op \in Op /\ op.kind = "files"
      /\ ops' = [ops EXCEPT ![o] = None]
      /\ docs' = [d \in DOMAIN docs \cup ReadyDocs(op) |->
                     IF d \in ReadyDocs(op)
                     THEN NewDoc(made(d).isPdf, made(d).pages)
                     ELSE docs[d]]
      /\ index' = docs'
      /\ UNCHANGED <<platform, begun, files, removing, used, cropped, past>>
  BY InvTypes DEF HandOver, Opening, SetDocs
<1>2. op \in FilesOp
  BY <1>1, Kinds
<1>3. OwnedBy(op) = (({op.doc} \ {None}) \cup ReadyDocs(op))
                    \cup {op.rest[i].doc : i \in DOMAIN op.rest}
  BY <1>1, OwnedKinds
<1>4. \A d \in ReadyDocs(op) :
          made(d) \in Imported /\ made(d).doc = d /\ AllHave(made(d).pages, files[d])
  <2>1. TAKE d \in ReadyDocs(op)
  <2>2. PICK i \in DOMAIN op.ready :
            /\ op.ready[i].doc = d
            /\ i = CHOOSE j \in DOMAIN op.ready : op.ready[j].doc = d
    BY DEF ReadyDocs
  <2>3. made(d) = op.ready[i]
    BY <2>2
  <2>4. op.ready[i] \in Imported
    BY <1>2 DEF FilesOp
  <2>5. AllHave(op.ready[i].pages, files[op.ready[i].doc])
    BY <1>1 DEF FilesInv, OpWritten
  <2>6. QED
    BY <2>2, <2>3, <2>4, <2>5
<1> HIDE DEF made
<1>5. DOMAIN docs' \subseteq DOMAIN docs \cup OwnedBy(op)
  BY <1>1, <1>3
<1>6. \A d \in DOMAIN docs' : docs'[d] \in Doc
  BY <1>1, <1>4, InvTypes DEF NewDoc, Doc, Imported, Status
<1>7. \A d \in DOMAIN docs' : AllHave(docs'[d].pages, files[d])
  <2>1. TAKE d \in DOMAIN docs'
  <2>2. CASE d \in ReadyDocs(op)
    <3>1. docs'[d].pages = made(d).pages
      BY <1>1, <2>2 DEF NewDoc
    <3>2. QED
      BY <1>4, <2>2, <3>1
  <2>3. CASE d \notin ReadyDocs(op)
    <3>1. d \in DOMAIN docs /\ docs'[d] = docs[d]
      BY <1>1, <2>1, <2>3
    <3>2. QED
      BY <3>1 DEF FilesInv, Have
  <2>4. QED
    BY <2>2, <2>3
<1>8. /\ Have(docs', files) /\ Have(index', files) /\ DOMAIN index' = DOMAIN docs'
      /\ \A d \in DOMAIN index' : index'[d] \in Doc
  BY <1>1, <1>6, <1>7 DEF Have
<1>9. QED
  BY <1>1, <1>5, <1>6, <1>8, InvTypes, DoneKeeps

LEMMA CropAppliesKeeps ==
    ASSUME FilesInv, NEW o \in OpId, CropApplies(o)
    PROVE  FilesInv'
<1> DEFINE op == ops[o]
           p == op.image.page
           old == docs[op.doc].pages
           name == CropName(op)
           pages == [i \in DOMAIN old |->
                        IF old[i].id = p THEN [old[i] EXCEPT !.file = name] ELSE old[i]]
<1>1. /\ o \in Running /\ op \in Op /\ op.kind = "crop" /\ op.copied
      /\ ops' = [ops EXCEPT ![o] = None]
      /\ docs' = [d \in DOMAIN docs |-> IF d # op.doc THEN docs[d] ELSE
                     [docs[d] EXCEPT !.pages = [i \in DOMAIN @ |->
                         IF @[i].id = p THEN [@[i] EXCEPT !.file = name] ELSE @[i]]]]
      /\ index' = docs'
      /\ UNCHANGED <<platform, begun, files, removing, used, past>>
  BY InvTypes DEF CropApplies, SetDocs
<1>2. op \in CropOp /\ p \in PageId /\ op.at \in Nat \ {0}
  BY <1>1, Kinds DEF CropOp, Image
<1>3. name \in FileName
  BY <1>2 DEF CropName, FileName
<1>4. cropped' \subseteq PageId
  BY <1>2, InvTypes DEF CropApplies
<1>5. /\ DOMAIN docs' = DOMAIN docs
      /\ \A x \in DOMAIN docs' : docs'[x] \in Doc
      /\ Have(docs', files)
  <2>1. CASE op.doc \in DOMAIN docs
    <3>1. /\ old \in Seq(Page)
          /\ \A i \in DOMAIN old : old[i] \in Page /\ Has(old[i], files[op.doc])
      BY <2>1, ShownPages
    <3>2. name \in DOMAIN files[op.doc]
      BY <1>1, <2>1 DEF FilesInv, OpWritten
    <3>3. docs' = [docs EXCEPT ![op.doc].pages = pages]
      BY <1>1, <2>1
    <3> HIDE DEF old, name, p
    <3>4. \A i \in DOMAIN old : pages[i] \in Page /\ Has(pages[i], files[op.doc])
      <4>1. TAKE i \in DOMAIN old
      <4>2. old[i] \in Page /\ Has(old[i], files[op.doc])
        BY <3>1
      <4>3. CASE old[i].id = p
        <5>1. pages[i] = [old[i] EXCEPT !.file = name]
          BY <4>3
        <5>2. pages[i] \in Page
          BY <1>3, <4>2, <5>1 DEF Page
        <5>3. pages[i].file = name /\ pages[i].processed = old[i].processed
          BY <4>2, <5>1 DEF Page
        <5>4. QED
          BY <3>2, <4>2, <5>2, <5>3 DEF Has
      <4>4. CASE old[i].id # p
        BY <4>2, <4>4
      <4>5. QED
        BY <4>3, <4>4
    <3>5. pages = [i \in DOMAIN old |-> pages[i]]
      OBVIOUS
    <3> HIDE DEF pages
    <3>6. pages \in Seq(Page) /\ AllHave(pages, files[op.doc])
      BY <3>1, <3>4, <3>5, PagesChanged
    <3>7. QED
      BY <2>1, <3>3, <3>6, PagesReplaced
  <2>2. CASE op.doc \notin DOMAIN docs
    <3>1. DOMAIN docs' = DOMAIN docs /\ \A d \in DOMAIN docs : docs'[d] = docs[d]
      BY <1>1, <2>2
    <3>2. QED
      BY <3>1, InvTypes DEF FilesInv, Have
  <2>3. QED
    BY <2>1, <2>2
<1>6. /\ DOMAIN index' = DOMAIN docs' /\ Have(index', files)
      /\ \A d \in DOMAIN index' : index'[d] \in Doc
  BY <1>1, <1>5
<1>7. QED
  BY <1>1, <1>4, <1>5, <1>6, InvTypes, DoneKeeps

\* A run writes pages that have their files, if the document is still there.
LEMMA PagesStored ==
    ASSUME FilesInv, NEW op, NEW pages \in Seq(Page), NEW ends \in BOOLEAN,
           op.doc \in DOMAIN docs => AllHave(pages, files[op.doc]),
           WritePages(op, pages, ends)
    PROVE  /\ DOMAIN index' = DOMAIN docs
           /\ \A x \in DOMAIN index' : index'[x] \in Doc
           /\ Have(index', files)
<1>1. DOMAIN index' = DOMAIN docs
  BY InvTypes DEF WritePages
<1>2. ASSUME NEW x \in DOMAIN index'
      PROVE  index'[x] \in Doc /\ AllHave(index'[x].pages, files[x])
  <2>1. CASE x # op.doc
    <3>1. index'[x] = index[x]
      BY <1>1, <1>2, <2>1, InvTypes DEF WritePages
    <3>2. QED
      BY <1>1, <1>2, <3>1, StoredPages DEF AllHave
  <2>2. CASE x = op.doc
    <3>1. index'[x] = [index[x] EXCEPT !.pages = pages,
                                       !.status = IF ends THEN "done" ELSE @]
      BY <1>1, <1>2, <2>2, InvTypes DEF WritePages
    <3>2. index[x] \in Doc
      BY <1>1, <1>2, StoredPages
    <3>3. index'[x] \in Doc /\ index'[x].pages = pages
      BY <3>1, <3>2 DEF Doc, Status
    <3>4. QED
      BY <1>1, <1>2, <2>2, <3>3
  <2>3. QED
    BY <2>1, <2>2
<1>3. QED
  BY <1>1, <1>2 DEF Have

\* What a run has filtered is in the pages it stores.
LEMMA FilteredPages ==
    ASSUME FilesInv, NEW o \in Running, ops[o].kind = "run",
           NEW pages,
           pages = [i \in DOMAIN ops[o].base |->
                       IF i \in ops[o].done
                       THEN [ops[o].base[i] EXCEPT !.processed = ProcessedName(i)]
                       ELSE ops[o].base[i]]
    PROVE  /\ pages \in Seq(Page)
           /\ ops[o].doc \in DOMAIN docs => AllHave(pages, files[ops[o].doc])
<1> DEFINE op == ops[o]
           base == op.base
<1>1. op \in RunOp
  BY InvTypes, Kinds
<1>2. base \in Seq(Page) /\ op.done \subseteq Nat \ {0} /\ DOMAIN pages = DOMAIN base
  BY <1>1 DEF RunOp
<1> HIDE DEF base
<1>3. ASSUME NEW i \in DOMAIN base
      PROVE  /\ pages[i] \in Page /\ pages[i].file = base[i].file
             /\ pages[i].processed \in {base[i].processed, ProcessedName(i)}
             /\ i \notin op.done => pages[i].processed = base[i].processed
  <2>1. base[i] \in Page
    BY <1>2
  <2>2. CASE i \in op.done
    <3>1. pages[i] = [base[i] EXCEPT !.processed = ProcessedName(i)]
      BY <2>2 DEF base
    <3>2. ProcessedName(i) \in FileName
      BY <1>2, <2>2 DEF ProcessedName, FileName
    <3>3. QED
      BY <2>1, <2>2, <3>1, <3>2 DEF Page
  <2>3. CASE i \notin op.done
    BY <2>1, <2>3 DEF base
  <2>4. QED
    BY <2>2, <2>3
<1>5. pages = [i \in DOMAIN base |-> pages[i]]
  BY DEF base
<1>7. pages \in Seq(Page)
  BY <1>2, <1>3, <1>5, SameLength
<1>8. ASSUME op.doc \in DOMAIN docs PROVE AllHave(pages, files[op.doc])
  <2>1. /\ AllHave(base, files[op.doc])
        /\ \A i \in op.done : ProcessedName(i) \in DOMAIN files[op.doc]
    BY <1>8 DEF FilesInv, OpWritten, base
  <2>2. \A i \in DOMAIN base : Has(pages[i], files[op.doc])
    BY <1>3, <2>1 DEF AllHave, Has
  <2>3. QED
    BY <1>2, <2>2 DEF AllHave
<1>9. QED
  BY <1>7, <1>8

\* A run that goes on with the pages it has stored.
LEMMA RunGoesOn ==
    ASSUME FilesInv, NEW o \in Running, ops[o].kind = "run", NEW op2 \in RunOp,
           op2.doc = ops[o].doc,
           op2.left = {}, op2.done = {},
           op2.doc \in DOMAIN docs => AllHave(op2.base, files[op2.doc]),
           WritePages(ops[o], op2.base, FALSE), ops' = [ops EXCEPT ![o] = op2],
           UNCHANGED <<platform, begun, docs, files, removing, used, cropped, past>>
    PROVE  /\ FilesInv'
           /\ ops'[o] \in Op /\ ops'[o].kind = "run" /\ ops'[o].doc = ops[o].doc
<1>1. /\ op2 \in Op /\ op2.kind = "run" /\ op2.base \in Seq(Page)
      /\ ops[o] \in Op /\ o \in OpId
  BY InvTypes DEF Op, RunOp
<1>2. OwnedBy(op2) = OwnedBy(ops[o]) /\ DocsOf(op2) = DocsOf(ops[o])
  BY <1>1, SameOwner
<1>3. /\ DOMAIN index' = DOMAIN docs
      /\ \A x \in DOMAIN index' : index'[x] \in Doc
      /\ Have(index', files)
  BY <1>1, PagesStored
<1>4. OpWritten(op2, DOMAIN docs, files')
  BY <1>1 DEF OpWritten, Copying
<1>5. TypeOK'
  BY <1>1, <1>3, InvTypes, HandlerTypes
<1>6. FilesInv'
  BY <1>1, <1>2, <1>3, <1>4, <1>5, GoOnKeeps
<1>7. QED
  BY <1>1, <1>6, InvTypes

LEMMA FiltersEndKeeps ==
    ASSUME FilesInv, NEW o \in OpId, FiltersEnd(o)
    PROVE  /\ FilesInv'
           /\ ops'[o] \in Op /\ ops'[o].kind = "run" /\ ops'[o].doc = ops[o].doc
           /\ ops'[o].next # 0
<1> DEFINE op == ops[o]
           pages == [i \in DOMAIN op.base |->
                        IF i \in op.done
                        THEN [op.base[i] EXCEPT !.processed = ProcessedName(i)]
                        ELSE op.base[i]]
           op2 == [op EXCEPT !.base = pages, !.images = <<>>, !.done = {}, !.next = 1]
<1>1. /\ o \in Running /\ op \in RunOp /\ op.kind = "run" /\ op.left = {}
      /\ WritePages(op, pages, FALSE) /\ ops' = [ops EXCEPT ![o] = op2]
      /\ UNCHANGED <<platform, begun, docs, files, removing, used, cropped, past>>
  BY InvTypes, Kinds DEF FiltersEnd
<1>2. /\ pages \in Seq(Page)
      /\ op.doc \in DOMAIN docs => AllHave(pages, files[op.doc])
  BY <1>1, FilteredPages
<1> HIDE DEF pages
<1>3. <<>> \in Seq(Image)
  OBVIOUS
<1>4. /\ op2 \in RunOp /\ op2.doc = op.doc /\ op2.base = pages /\ op2.done = {}
      /\ op2.left = {} /\ op2.next = 1
  BY <1>1, <1>2, <1>3 DEF RunOp
<1> HIDE DEF op2
<1>5. ops'[o] = op2 /\ ops'[o].next # 0
  BY <1>1, <1>4, InvTypes
<1>6. /\ op2.doc \in DOMAIN docs => AllHave(op2.base, files[op2.doc])
      /\ WritePages(op, op2.base, FALSE)
  BY <1>1, <1>2, <1>4
<1>7. /\ FilesInv'
      /\ ops'[o] \in Op /\ ops'[o].kind = "run" /\ ops'[o].doc = ops[o].doc
  BY <1>1, <1>4, <1>6, RunGoesOn
<1>8. QED
  BY <1>5, <1>7

LEMMA PageReadKeeps ==
    ASSUME FilesInv, NEW o \in OpId, PageRead(o)
    PROVE  /\ FilesInv'
           /\ \/ ops' = [ops EXCEPT ![o] = None]
              \/ /\ ops'[o] \in Op /\ ops'[o].kind = "run" /\ ops'[o].doc = ops[o].doc
                 /\ ops'[o].next # 0
<1> DEFINE op == ops[o]
           ends == op.next = Len(op.base)
           op2 == [op EXCEPT !.next = @ + 1]
<1>1. /\ o \in Running /\ op \in RunOp /\ op.kind = "run" /\ op.next > 0
      /\ WritePages(op, op.base, ends)
      /\ ends => ops' = [ops EXCEPT ![o] = None]
      /\ ~ends => ops' = [ops EXCEPT ![o] = op2]
      /\ UNCHANGED <<platform, begun, docs, files, removing, used, cropped, past>>
  BY InvTypes, Kinds DEF PageRead
<1>2. /\ op.base \in Seq(Page) /\ op.next \in Nat
      /\ op.doc \in DOMAIN docs => AllHave(op.base, files[op.doc])
      /\ op.left = {}
      /\ op.doc \in DOMAIN docs =>
            \A i \in op.done : ProcessedName(i) \in DOMAIN files[op.doc]
  BY <1>1 DEF RunOp, FilesInv, OpWritten
<1>3. /\ DOMAIN index' = DOMAIN docs
      /\ \A x \in DOMAIN index' : index'[x] \in Doc
      /\ Have(index', files)
  <2>1. ends \in BOOLEAN
    OBVIOUS
  <2> HIDE DEF ends
  <2>2. QED
    BY <1>1, <1>2, <2>1, PagesStored
<1>4. CASE ends
  <2>1. Have(docs', files) /\ ops' = [ops EXCEPT ![o] = None]
    BY <1>1, <1>4 DEF FilesInv
  <2>2. FilesInv'
    BY <1>1, <1>3, <2>1, InvTypes, DoneKeeps
  <2>3. QED
    BY <2>1, <2>2
<1>5. CASE ~ends
  <2>1. op2 \in RunOp
    BY <1>1, <1>2 DEF RunOp
  <2>2. /\ op2 \in Op /\ op2.kind = "run" /\ op2.doc = op.doc /\ op2.base = op.base
        /\ op2.left = op.left /\ op2.done = op.done /\ op2.images = op.images
        /\ op2.next = op.next + 1
    BY <1>1, <2>1 DEF Op, RunOp
  <2>n. op2.next # 0
    BY <1>2, <2>2
  <2>3. ops' = [ops EXCEPT ![o] = op2] /\ ops'[o] = op2 /\ op \in Op
    BY <1>1, <1>5, InvTypes
  <2> HIDE DEF op2
  <2>4. OwnedBy(op2) = OwnedBy(op) /\ DocsOf(op2) = DocsOf(op)
    BY <1>1, <2>2, <2>3, SameOwner
  <2>5. OpWritten(op2, DOMAIN docs, files')
    BY <1>1, <1>2, <2>2 DEF OpWritten, Copying
  <2>6. TypeOK'
    BY <1>1, <1>3, <2>2, <2>3, InvTypes, HandlerTypes
  <2>7. FilesInv'
    BY <1>1, <1>3, <2>2, <2>3, <2>4, <2>5, <2>6, GoOnKeeps
  <2>8. QED
    BY <2>2, <2>3, <2>7, <2>n
<1>6. QED
  BY <1>4, <1>5

-----------------------------------------------------------------------------
(* Documents are changed and deleted.                                      *)

\* The documents are changed, and those of the index.
LEMMA ChangeKeeps ==
    ASSUME FilesInv, UNCHANGED <<platform, begun, files, ops, used>>,
           DOMAIN docs' \subseteq DOMAIN docs,
           \A d \in DOMAIN docs' : docs'[d] \in Doc,
           Have(docs', files), index' = docs',
           removing \subseteq removing',
           removing' \subseteq removing \cup (DOMAIN docs \ DOMAIN docs'),
           cropped' \subseteq PageId, past' \in [DocId -> SUBSET Event]
    PROVE  FilesInv'
<1>1. DOMAIN docs' \subseteq DocId /\ removing' \subseteq DocId
  BY InvTypes
<1>2. overwrites' \in BOOLEAN /\ filters' \in BOOLEAN
  BY InvTypes DEF platform
<1>3. TypeOK'
  BY <1>1, <1>2 DEF FilesInv, TypeOK
<1>4. QED
  BY <1>3, DocsKeep

LEMMA SaveKeeps ==
    ASSUME FilesInv, Save
    PROVE  FilesInv'
<1>1. /\ index' = docs
      /\ UNCHANGED <<platform, begun, docs, files, ops, removing, used, cropped, past>>
  BY DEF Save
<1>2. QED
  BY <1>1, InvTypes, ChangeKeeps DEF FilesInv

LEMMA RotateKeeps ==
    ASSUME FilesInv, NEW d \in DocId, NEW i \in 1 .. MaxPages,
           NEW rotation \in Rotation, Rotate(d, i, rotation)
    PROVE  FilesInv'
<1> DEFINE old == docs[d].pages
           pages == [j \in DOMAIN old |->
                        IF j = i THEN [old[j] EXCEPT !.rotation = rotation] ELSE old[j]]
<1>1. /\ d \in DOMAIN docs /\ i \in DOMAIN old
      /\ docs' = [docs EXCEPT ![d].pages[i].rotation = rotation] /\ index' = docs'
      /\ past' = Marked(d, "turned")
      /\ UNCHANGED <<platform, begun, files, ops, removing, used, cropped>>
  BY DEF Rotate, SetDocs
<1>2. /\ old \in Seq(Page)
      /\ \A j \in DOMAIN old : old[j] \in Page /\ Has(old[j], files[d])
  BY <1>1, ShownPages
<1>3. [old EXCEPT ![i].rotation = rotation] = pages
  BY <1>1, <1>2
<1>4. docs' = [docs EXCEPT ![d].pages = pages]
  BY <1>1, <1>3
<1> HIDE DEF old
<1>5. \A j \in DOMAIN old : pages[j] \in Page /\ Has(pages[j], files[d])
  <2>1. TAKE j \in DOMAIN old
  <2>2. old[j] \in Page /\ Has(old[j], files[d])
    BY <1>2
  <2>3. CASE j = i
    <3>1. pages[j] = [old[j] EXCEPT !.rotation = rotation]
      BY <2>3
    <3>2. /\ pages[j] \in Page /\ pages[j].file = old[j].file
          /\ pages[j].processed = old[j].processed
      BY <2>2, <3>1 DEF Page
    <3>3. QED
      BY <2>2, <3>2 DEF Has
  <2>4. CASE j # i
    BY <2>2, <2>4
  <2>5. QED
    BY <2>3, <2>4
<1>6. pages = [j \in DOMAIN old |-> pages[j]]
  OBVIOUS
<1> HIDE DEF pages
<1>7. pages \in Seq(Page) /\ AllHave(pages, files[d])
  BY <1>2, <1>5, <1>6, PagesChanged
<1>8. past' \in [DocId -> SUBSET Event]
  BY <1>1, PastKept DEF Event
<1>9. /\ DOMAIN docs' = DOMAIN docs
      /\ \A x \in DOMAIN docs' : docs'[x] \in Doc
      /\ Have(docs', files)
  BY <1>1, <1>4, <1>7, PagesReplaced
<1>10. QED
  BY <1>1, <1>8, <1>9, InvTypes, ChangeKeeps

LEMMA DeletePageKeeps ==
    ASSUME FilesInv, NEW d \in DocId, NEW i \in 1 .. MaxPages, DeletePage(d, i)
    PROVE  FilesInv'
<1> DEFINE old == docs[d].pages
           pages == PagesBut(d, i)
<1>1. /\ d \in DOMAIN docs /\ i \in DOMAIN old
      /\ docs' = [docs EXCEPT ![d].pages = pages] /\ index' = docs'
      /\ past' = Marked(d, "mixed")
      /\ UNCHANGED <<platform, begun, files, ops, removing, used, cropped>>
  BY DEF DeletePage, SetDocs
<1>2. /\ old \in Seq(Page)
      /\ \A j \in DOMAIN old : old[j] \in Page /\ Has(old[j], files[d])
  BY <1>1, ShownPages
<1>3. pages = [j \in 1 .. Len(old) - 1 |-> IF j < i THEN old[j] ELSE old[j + 1]]
  BY DEF PagesBut
<1> HIDE DEF old, pages
<1>4. Len(old) - 1 \in Nat /\ DOMAIN old = 1 .. Len(old)
  BY <1>1, <1>2
<1>5. \A j \in 1 .. Len(old) - 1 : pages[j] \in Page /\ Has(pages[j], files[d])
  BY <1>2, <1>3, <1>4
<1>6. pages \in [1 .. Len(old) - 1 -> Page]
  BY <1>3, <1>5
<1>7. pages \in Seq(Page) /\ DOMAIN pages = 1 .. Len(old) - 1
  BY <1>4, <1>6
<1>8. AllHave(pages, files[d])
  BY <1>5, <1>7 DEF AllHave
<1>9. past' \in [DocId -> SUBSET Event]
  BY <1>1, PastKept DEF Event
<1>10. /\ DOMAIN docs' = DOMAIN docs
       /\ \A x \in DOMAIN docs' : docs'[x] \in Doc
       /\ Have(docs', files)
  BY <1>1, <1>7, <1>8, PagesReplaced
<1>11. QED
  BY <1>1, <1>9, <1>10, InvTypes, ChangeKeeps

LEMMA DeleteDocKeeps ==
    ASSUME FilesInv, NEW d \in DocId, DeleteDoc(d)
    PROVE  FilesInv'
<1>1. /\ d \in DOMAIN docs /\ docs' = [x \in DOMAIN docs \ {d} |-> docs[x]]
      /\ removing' = removing \cup {d} /\ cropped' = cropped \ PageIds(d)
      /\ past' = [past EXCEPT ![d] = IF Writing(d) THEN {"late"} ELSE {}]
      /\ index' = docs'
      /\ UNCHANGED <<platform, begun, files, ops, used>>
  BY DEF DeleteDoc, SetDocs
<1>2. past' \in [DocId -> SUBSET Event]
  BY <1>1, InvTypes DEF Event
<1>3. /\ DOMAIN docs' = DOMAIN docs \ {d}
      /\ \A x \in DOMAIN docs' : docs'[x] = docs[x]
  BY <1>1
<1>4. (\A x \in DOMAIN docs' : docs'[x] \in Doc) /\ Have(docs', files)
  BY <1>3, InvTypes DEF FilesInv, Have
<1>5. QED
  BY <1>1, <1>2, <1>3, <1>4, InvTypes, ChangeKeeps

\* The files of a deleted document are nobody's any more: no handler owns it, and
\* what a handler that edits it relies on is only promised of documents shown.
LEMMA RemoveDocFilesKeeps ==
    ASSUME FilesInv, NEW d \in DocId, RemoveDocFiles(d)
    PROVE  FilesInv'
<1>1. /\ d \in removing /\ files' = [files EXCEPT ![d] = NoFiles]
      /\ removing' = removing \ {d}
      /\ UNCHANGED <<platform, begun, docs, index, ops, used, cropped, past>>
  BY DEF RemoveDocFiles
<1>2. Running' = Running
  BY <1>1 DEF Running
<1>3. d \notin DOMAIN docs /\ \A o \in Running : d \notin OwnedBy(ops[o])
  BY <1>1 DEF FilesInv, Apart
<1>4. DOMAIN files' = DocId /\ DOMAIN files'[d] = {}
      /\ \A x \in DocId \ {d} : files'[x] = files[x]
  BY <1>1, InvTypes DEF NoFiles
<1>5. TypeOK'
  <2>1. \A x \in DocId : \A n \in DOMAIN files'[x] :
            \/ n \in FileName /\ files'[x][n] \in Image
            \/ n = Original /\ files'[x][n] \in Seq(PageId)
    BY <1>4 DEF FilesInv, TypeOK
  <2>2. QED
    BY <1>1, <1>4, <2>1 DEF FilesInv, TypeOK, platform
<1>6. Apart'
  BY <1>1, <1>2 DEF FilesInv, Apart
<1>7. Have(docs', files') /\ Have(index', files')
  BY <1>1, <1>3, <1>4, InvTypes DEF FilesInv, Have
<1>8. \A o \in Running' : OpWritten(ops'[o], DOMAIN docs', files')
  <2>1. TAKE o \in Running'
  <2>2. o \in Running /\ ops[o] \in Op /\ OpWritten(ops[o], DOMAIN docs, files)
    BY <1>2, InvTypes DEF FilesInv
  <2>3. OwnedBy(ops[o]) \subseteq DocId /\ DOMAIN docs \subseteq DocId
    BY <2>2, OwnedDocs, InvTypes
  <2>4. \A x \in (DOMAIN docs \cap DocsOf(ops[o])) \cup OwnedBy(ops[o]) :
            DOMAIN files[x] \subseteq DOMAIN files'[x]
    BY <1>3, <1>4, <2>2, <2>3
  <2>5. OpWritten(ops[o], DOMAIN docs, files')
    BY <2>2, <2>3, <2>4, WrittenStays
  <2>6. QED
    BY <1>1, <2>5
<1>9. QED
  BY <1>5, <1>6, <1>7, <1>8 DEF FilesInv

LEMMA RelaunchKeeps ==
    ASSUME FilesInv, Relaunch
    PROVE  FilesInv'
<1>1. /\ ops' = [o \in OpId |-> None] /\ removing' = {} /\ docs' = index
      /\ UNCHANGED <<platform, begun, index, files, used, cropped>>
  BY DEF Relaunch
<1>2. past' \in [DocId -> SUBSET Event]
  BY InvTypes DEF Relaunch, Event
<1>3. Running' = {}
  BY <1>1 DEF Running
<1>4. TypeOK'
  BY <1>1, <1>2 DEF FilesInv, TypeOK, platform
<1>5. Apart'
  BY <1>1, <1>3, InvTypes DEF FilesInv, Apart
<1>6. QED
  BY <1>1, <1>3, <1>4, <1>5 DEF FilesInv

-----------------------------------------------------------------------------
(* The invariant.                                                          *)

LEMMA InitHolds == Init => FilesInv
<1> SUFFICES ASSUME Init PROVE FilesInv
  OBVIOUS
<1>1. /\ DOMAIN docs = {} /\ DOMAIN index = {} /\ Running = {}
      /\ \A d \in DocId : DOMAIN files[d] = {}
  BY DEF Init, NoFiles, Running
<1>2. TypeOK
  BY <1>1 DEF Init, TypeOK
<1>3. QED
  BY <1>1, <1>2 DEF Init, FilesInv, Apart, Have

LEMMA StutterKeeps ==
    ASSUME FilesInv, UNCHANGED vars
    PROVE  FilesInv'
<1>1. UNCHANGED <<platform, docs, index, files, ops, begun, removing, used, cropped, past>>
  BY DEF vars
<1>2. TypeOK'
  BY <1>1 DEF FilesInv, TypeOK, platform
<1>3. Apart' /\ Running' = Running
  BY <1>1 DEF FilesInv, Apart, Running
<1>4. QED
  BY <1>1, <1>2, <1>3 DEF FilesInv

LEMMA StepKeeps == FilesInv /\ [Next]_vars => FilesInv'
<1> SUFFICES ASSUME FilesInv, [Next]_vars PROVE FilesInv'
  OBVIOUS
<1>1. ASSUME NEW o \in OpId, NEW kind \in {"scan", "photos"}, NEW item \in Picks,
             BeginScan(o, kind, item)
      PROVE  FilesInv'
  BY <1>1, BeginScanKeeps
<1>2. ASSUME NEW o \in OpId, NEW d \in DocId, NEW pages \in Additions,
             BeginAdd(o, d, pages)
      PROVE  FilesInv'
  BY <1>2, BeginAddKeeps
<1>3. ASSUME NEW o \in OpId, NEW batch \in Batches, BeginFiles(o, batch)
      PROVE  FilesInv'
  BY <1>3, BeginFilesKeeps
<1>4. ASSUME NEW o \in OpId, NEW d \in DocId, NEW i \in 1 .. MaxPages,
             BeginCrop(o, d, i)
      PROVE  FilesInv'
  BY <1>4, BeginCropKeeps
<1>5. ASSUME NEW o \in OpId, NEW d \in DocId, BeginRun(o, d)
      PROVE  FilesInv'
  BY <1>5, BeginRunKeeps
<1>6. ASSUME NEW o \in OpId, CopyPage(o) \/ CopyFails(o) \/ Finish(o)
      PROVE  FilesInv'
  BY <1>6, CopyPageKeeps, CopyFailsKeeps, FinishKeeps
<1>7. ASSUME NEW o \in OpId,
             \/ OpenFile(o) \/ SkipFile(o) \/ SkipPdf(o) \/ CloseFile(o)
             \/ NamelessFile(o) \/ HandOver(o)
      PROVE  FilesInv'
  BY <1>7, OpenFileKeeps, SkipFileKeeps, SkipPdfKeeps, CloseFileKeeps,
     NamelessFileKeeps, HandOverKeeps
<1>8. ASSUME NEW o \in OpId, CropCopies(o) \/ CropApplies(o) \/ CropFails(o)
      PROVE  FilesInv'
  BY <1>8, CropCopiesKeeps, CropAppliesKeeps, CropFailsKeeps
<1>9. ASSUME NEW o \in OpId, NEW i \in 1 .. MaxPages, FilterPage(o, i) \/ FilterFails(o, i)
      PROVE  FilesInv'
  BY <1>9, FilterPageKeeps, FilterFailsKeeps
<1>10. ASSUME NEW o \in OpId, FiltersEnd(o) \/ PageRead(o)
       PROVE  FilesInv'
  BY <1>10, FiltersEndKeeps, PageReadKeeps
<1>11. ASSUME NEW d \in DocId, DeleteDoc(d) \/ RemoveDocFiles(d)
       PROVE  FilesInv'
  BY <1>11, DeleteDocKeeps, RemoveDocFilesKeeps
<1>12. ASSUME NEW d \in DocId, NEW i \in 1 .. MaxPages,
              DeletePage(d, i) \/ \E rotation \in Rotation : Rotate(d, i, rotation)
       PROVE  FilesInv'
  BY <1>12, RotateKeeps, DeletePageKeeps
<1>13. CASE Save \/ Relaunch
  BY <1>13, SaveKeeps, RelaunchKeeps
<1>14. CASE UNCHANGED vars
  BY <1>14, StutterKeeps
<1>15. QED
  BY <1>1, <1>2, <1>3, <1>4, <1>5, <1>6, <1>7, <1>8, <1>9, <1>10, <1>11, <1>12,
     <1>13, <1>14 DEF Next

LEMMA Invariant == Spec => []FilesInv
<1>1. Init => FilesInv
  BY InitHolds
<1>2. FilesInv /\ [Next]_vars => FilesInv'
  BY StepKeeps
<1>3. QED
  BY <1>1, <1>2, PTL DEF Spec

\* The index, the directories and every handler that awaits something have their
\* types: no handler is left half begun or with a document it was not given.
THEOREM FileTypes == Spec => []TypeOK
<1>1. FilesInv => TypeOK
  BY DEF FilesInv
<1>2. QED
  BY <1>1, Invariant, PTL

\* Every page that is shown has its file, and its processed image if it names one,
\* whatever copies, crops, filters, deletions and relaunches interleave.
THEOREM PagesKeepTheirFiles == Spec => []PagesHaveFiles
<1>1. FilesInv => PagesHaveFiles
  BY InvPagesHaveFiles
<1>2. QED
  BY <1>1, Invariant, PTL

-----------------------------------------------------------------------------
(* No file is forgotten.                                                   *)

\* A handler that writes to a document has it from those that are shown or stored;
\* if it is gone, that is known.
EditorsKnown ==
    \A o \in Running : Writes(ops[o]) /\ ops[o].kind \in {"add", "crop", "run"} =>
        ops[o].doc \in DOMAIN docs \/ "late" \in past[ops[o].doc]

UnusedEmpty == \A d \in DocId : files[d] # NoFiles => d \in used

\* A scan that has copied no page leaves nothing when it ends.
EmptyHanded ==
    \A o \in Running : ops[o].kind \in {"scan", "photos"} /\ ops[o].got = <<>> =>
        files[ops[o].doc] = NoFiles

\* The documents whose files may be there on a handler's account: none of a run
\* that only reads.
Holds(op) == IF Writes(op) THEN Making(op) \cup {op.doc} ELSE {}

LEMMA HoldsKinds ==
    ASSUME NEW op
    PROVE  /\ op.kind = "files" => Holds(op) = {op.doc} \cup ReadyDocs(op)
           /\ op.kind \in {"scan", "photos", "add", "crop"} => Holds(op) = {op.doc}
           /\ op.kind = "run" => Holds(op) = IF op.next = 0 THEN {op.doc} ELSE {}
BY DEF Holds, Making, Writes

\* Why a document may have files.
Accounted(d) ==
    \/ d \in DOMAIN docs \cup removing
    \/ \E o \in Running : d \in Holds(ops[o])
    \/ past[d] \cap {"left", "cut", "late"} # {}

FilesAccounted == \A d \in DocId : files[d] # NoFiles => Accounted(d)

BelongInv == FilesAccounted /\ EditorsKnown /\ UnusedEmpty /\ EmptyHanded

LEMMA AccountedBelong == FilesAccounted => FilesBelong
BY DEF FilesAccounted, Accounted, Holds, FilesBelong

\* A step of one handler: it must account for what it held and what it writes, and
\* it writes only to documents that are not another scan's.
LEMMA HandlerBelongs ==
    ASSUME FilesInv, BelongInv, FilesInv', NEW o \in OpId,
           \A x \in OpId \ {o} : ops'[x] = ops[x],
           removing' = removing, used \subseteq used', DOMAIN docs \subseteq DOMAIN docs',
           \A d \in DocId : past[d] \subseteq past'[d],
           NEW w \in SUBSET DocId, w \subseteq used,
           \A d \in DocId \ w : files'[d] = files[d],
           \A x \in Running \ {o} : w \cap OwnedBy(ops[x]) = {},
           \A d \in DocId : d \in w \/ (o \in Running /\ d \in Holds(ops[o])) =>
               (files'[d] # NoFiles => Accounted(d)'),
           o \in Running' => /\ Writes(ops'[o]) /\ ops'[o].kind \in {"add", "crop", "run"} =>
                                   \/ ops'[o].doc \in DOMAIN docs'
                                   \/ "late" \in past'[ops'[o].doc]
                             /\ ops'[o].kind \in {"scan", "photos"} /\ ops'[o].got = <<>> =>
                                   files'[ops'[o].doc] = NoFiles
    PROVE  BelongInv'
<1>1. \A x \in OpId \ {o} : x \in Running <=> x \in Running'
  BY DEF Running
<1>2. \A x \in Running : x \in OpId /\ ops[x] \in Op /\ DocsOf(ops[x]) \subseteq DocId
  BY InvTypes, OwnedDocs
<1>3. FilesAccounted'
  <2>1. ASSUME NEW d \in DocId, files'[d] # NoFiles PROVE Accounted(d)'
    <3>1. CASE d \in w \/ (o \in Running /\ d \in Holds(ops[o]))
      BY <2>1, <3>1
    <3>2. CASE ~(d \in w \/ (o \in Running /\ d \in Holds(ops[o])))
      <4>1. files[d] # NoFiles
        BY <2>1, <3>2
      <4>2. Accounted(d)
        BY <4>1 DEF BelongInv, FilesAccounted
      <4>3. CASE d \in DOMAIN docs \cup removing
        BY <4>3 DEF Accounted
      <4>4. CASE past[d] \cap {"left", "cut", "late"} # {}
        BY <4>4 DEF Accounted
      <4>5. CASE \E x \in Running : d \in Holds(ops[x])
        <5>1. PICK x \in Running : d \in Holds(ops[x])
          BY <4>5
        <5>2. x # o /\ x \in OpId
          BY <1>2, <3>2, <5>1
        <5>3. x \in Running' /\ ops'[x] = ops[x]
          BY <1>1, <5>2
        <5>4. QED
          BY <5>1, <5>3 DEF Accounted
      <4>6. QED
        BY <4>2, <4>3, <4>4, <4>5 DEF Accounted
    <3>3. QED
      BY <3>1, <3>2
  <2>2. QED
    BY <2>1 DEF FilesAccounted
<1>4. EditorsKnown'
  <2>1. ASSUME NEW x \in Running', Writes(ops'[x]), ops'[x].kind \in {"add", "crop", "run"}
        PROVE  ops'[x].doc \in DOMAIN docs' \/ "late" \in past'[ops'[x].doc]
    <3>1. CASE x = o
      BY <2>1, <3>1
    <3>2. CASE x # o
      <4>1. x \in Running /\ ops'[x] = ops[x]
        BY <1>1, <2>1, <3>2 DEF Running
      <4>2. ops[x].doc \in DocId
        BY <1>2, <2>1, <4>1, Kinds
      <4>3. QED
        BY <2>1, <4>1, <4>2 DEF BelongInv, EditorsKnown
    <3>3. QED
      BY <3>1, <3>2
  <2>2. QED
    BY <2>1 DEF EditorsKnown
<1>5. UnusedEmpty'
  BY DEF BelongInv, UnusedEmpty
<1>6. EmptyHanded'
  <2>1. ASSUME NEW x \in Running', ops'[x].kind \in {"scan", "photos"}, ops'[x].got = <<>>
        PROVE  files'[ops'[x].doc] = NoFiles
    <3>1. CASE x = o
      BY <2>1, <3>1
    <3>2. CASE x # o
      <4>1. x \in Running /\ ops'[x] = ops[x]
        BY <1>1, <2>1, <3>2 DEF Running
      <4>2. ops[x].doc \in DocId /\ ops[x].doc \in OwnedBy(ops[x])
        BY <1>2, <2>1, <4>1, Kinds, OwnedKinds
      <4>3. ops[x].doc \notin w
        BY <3>2, <4>1, <4>2
      <4>4. QED
        BY <2>1, <4>1, <4>2, <4>3 DEF BelongInv, EmptyHanded
    <3>3. QED
      BY <3>1, <3>2
  <2>2. QED
    BY <2>1 DEF EmptyHanded
<1>7. QED
  BY <1>3, <1>4, <1>5, <1>6 DEF BelongInv

\* A handler begins.
LEMMA BeginBelongs ==
    ASSUME FilesInv, BelongInv, FilesInv', NEW o \in OpId, NEW op, ops[o] = None,
           ops' = [ops EXCEPT ![o] = op], UNCHANGED <<docs, files, removing>>,
           used \subseteq used', \A d \in DocId : past[d] \subseteq past'[d],
           op.kind \in {"add", "crop", "run"} => op.doc \in DOMAIN docs,
           op.kind \in {"scan", "photos"} => op.doc \in DocId \ used
    PROVE  BelongInv'
<1>1. o \notin Running /\ ops'[o] = op /\ \A x \in OpId \ {o} : ops'[x] = ops[x]
  BY InvTypes DEF Running
<1>2. op.kind \in {"scan", "photos"} => files'[op.doc] = NoFiles
  BY DEF BelongInv, UnusedEmpty
<1> DEFINE w == {}
<1>3. w \in SUBSET DocId /\ w \subseteq used /\ \A d \in DocId : d \notin w
  OBVIOUS
<1> HIDE DEF w
<1>4. \A x \in Running \ {o} : w \cap OwnedBy(ops[x]) = {}
  BY <1>3
<1>5. \A d \in DocId \ w : files'[d] = files[d]
  OBVIOUS
<1>6. QED
  BY <1>1, <1>2, <1>3, <1>4, <1>5, HandlerBelongs

LEMMA OverlapsGrows ==
    ASSUME FilesInv, NEW d \in DocId
    PROVE  /\ \A event : \A x \in DocId : past[x] \subseteq Marked(d, event)[x]
           /\ \A event : event \in Marked(d, event)[d]
           /\ Overlaps(d) => \A x \in DocId : past[x] \subseteq past'[x]
BY InvTypes DEF Overlaps, Marked

LEMMA BeginsBelong ==
    ASSUME FilesInv, BelongInv, FilesInv', NEW o \in OpId
    PROVE  /\ \A kind \in {"scan", "photos"}, item \in Picks :
                 BeginScan(o, kind, item) => BelongInv'
           /\ \A d \in DocId, pages \in Additions : BeginAdd(o, d, pages) => BelongInv'
           /\ \A batch \in Batches : BeginFiles(o, batch) => BelongInv'
           /\ \A d \in DocId, i \in 1 .. MaxPages : BeginCrop(o, d, i) => BelongInv'
           /\ \A d \in DocId : BeginRun(o, d) => BelongInv'
<1>1. ASSUME NEW kind \in {"scan", "photos"}, NEW item \in Picks,
             BeginScan(o, kind, item)
      PROVE  BelongInv'
  <2> DEFINE op == [kind |-> kind, doc |-> item.doc, isPdf |-> FALSE, base |-> <<>>,
                    todo |-> item.pages, got |-> <<>>]
  <2>1. /\ ops[o] = None /\ ops' = [ops EXCEPT ![o] = op]
        /\ used' = used \cup BatchIds(<<item>>) /\ BatchIds(<<item>>) \cap used = {}
        /\ UNCHANGED <<docs, files, removing, past>>
    BY <1>1 DEF BeginScan, Starts
  <2>2. op.kind \in {"scan", "photos"} /\ op.doc = item.doc /\ item.doc \in DocId
    BY DEF Item
  <2>3. item.doc \in BatchIds(<<item>>)
    BY DEF BatchIds
  <2> HIDE DEF op
  <2>4. QED
    BY <2>1, <2>2, <2>3, BeginBelongs
<1>2. ASSUME NEW d \in DocId, NEW pages \in Additions, BeginAdd(o, d, pages)
      PROVE  BelongInv'
  <2> DEFINE op == [kind |-> "add", doc |-> d, isPdf |-> docs[d].isPdf,
                    base |-> docs[d].pages, todo |-> pages, got |-> <<>>]
  <2>1. /\ ops[o] = None /\ ops' = [ops EXCEPT ![o] = op] /\ d \in DOMAIN docs
        /\ used' = used \cup Range(pages) /\ Overlaps(d)
        /\ UNCHANGED <<docs, files, removing>>
    BY <1>2 DEF BeginAdd, Starts
  <2>2. op.kind = "add" /\ op.doc = d
    OBVIOUS
  <2> HIDE DEF op
  <2>3. QED
    BY <2>1, <2>2, BeginBelongs, OverlapsGrows
<1>3. ASSUME NEW batch \in Batches, BeginFiles(o, batch)
      PROVE  BelongInv'
  <2> DEFINE op == [kind |-> "files", doc |-> None, isPdf |-> FALSE, base |-> <<>>,
                    todo |-> <<>>, got |-> <<>>, rest |-> batch, ready |-> <<>>,
                    opened |-> FALSE]
  <2>1. /\ ops[o] = None /\ ops' = [ops EXCEPT ![o] = op] /\ used \subseteq used'
        /\ UNCHANGED <<docs, files, removing, past>>
    BY <1>3 DEF BeginFiles, Starts
  <2>2. op.kind = "files"
    OBVIOUS
  <2> HIDE DEF op
  <2>3. QED
    BY <2>1, <2>2, BeginBelongs
<1>4. ASSUME NEW d \in DocId, NEW i \in 1 .. MaxPages, BeginCrop(o, d, i)
      PROVE  BelongInv'
  <2> DEFINE op == [kind |-> "crop", doc |-> d, at |-> i,
                    image |-> [page |-> docs[d].pages[i].id, cropped |-> TRUE,
                               turned |-> files[d][docs[d].pages[i].file].turned],
                    copied |-> FALSE]
  <2>1. /\ ops[o] = None /\ ops' = [ops EXCEPT ![o] = op] /\ d \in DOMAIN docs
        /\ Overlaps(d) /\ UNCHANGED <<docs, files, removing, used>>
    BY <1>4 DEF BeginCrop, Starts
  <2>2. op.kind = "crop" /\ op.doc = d
    OBVIOUS
  <2> HIDE DEF op
  <2>3. QED
    BY <2>1, <2>2, BeginBelongs, OverlapsGrows
<1>5. ASSUME NEW d \in DocId, BeginRun(o, d)
      PROVE  BelongInv'
  <2>1. /\ ops[o] = None /\ ops' = [ops EXCEPT ![o] = NewRun(d)] /\ d \in DOMAIN docs
        /\ (past' = past \/ Overlaps(d)) /\ UNCHANGED <<docs, files, removing, used>>
    BY <1>5, RunBegins
  <2>2. NewRun(d).kind = "run" /\ NewRun(d).doc = d
    BY <2>1, NewRunOf
  <2>3. \A x \in DocId : past[x] \subseteq past'[x]
    BY <2>1, OverlapsGrows
  <2>4. QED
    BY <2>1, <2>2, <2>3, BeginBelongs
<1>6. QED
  BY <1>1, <1>2, <1>3, <1>4, <1>5

\* All handlers but runs write until they end.
LEMMA OthersWrite ==
    ASSUME NEW op, op.kind # "run"
    PROVE  Writes(op)
BY DEF Writes

\* A handler goes on with the documents it holds, and writes to one of them or to
\* one that it owns.
LEMMA GoOnBelongs ==
    ASSUME FilesInv, BelongInv, FilesInv', NEW o \in Running, ops'[o] \in Op,
           \A x \in OpId \ {o} : ops'[x] = ops[x],
           UNCHANGED <<docs, removing, used>>,
           \A d \in DocId : past[d] \subseteq past'[d],
           NEW w \in SUBSET DocId, w \subseteq DocsOf(ops[o]),
           \A d \in DocId \ w : files'[d] = files[d],
           ops'[o].kind = ops[o].kind,
           \A d \in w \cup (Holds(ops[o]) \ {None}) :
               \/ d \in Holds(ops'[o]) \cup DOMAIN docs
               \/ past'[d] \cap {"left", "late"} # {},
           ops[o].kind # "files" => ops'[o].doc = ops[o].doc,
           ops[o].kind = "run" /\ Writes(ops'[o]) => Writes(ops[o]),
           ops[o].kind \in {"scan", "photos"} =>
               ops'[o].got # <<>> \/ (ops'[o].got = ops[o].got /\ w = {})
    PROVE  BelongInv'
<1>1. o \in OpId /\ ops[o] \in Op /\ DocsOf(ops[o]) \subseteq used
  BY InvTypes DEF FilesInv, Apart
<1>2. o \in Running'
  BY <1>1, FilesAssumption DEF Running
<1>3. \A x \in Running \ {o} : w \cap OwnedBy(ops[x]) = {}
  BY DEF FilesInv, Apart
<1>4. \A d \in DocId : d \in w \/ (o \in Running /\ d \in Holds(ops[o])) => Accounted(d)'
  BY <1>2 DEF Accounted
<1>w. ops[o].kind # "run" => Writes(ops[o])
  BY OthersWrite
<1>5. Writes(ops'[o]) /\ ops'[o].kind \in {"add", "crop", "run"} =>
          ops'[o].doc \in DOMAIN docs' \/ "late" \in past'[ops'[o].doc]
  BY <1>1, <1>w, Kinds DEF BelongInv, EditorsKnown
<1>6. ops'[o].kind \in {"scan", "photos"} /\ ops'[o].got = <<>> =>
          files'[ops'[o].doc] = NoFiles
  BY <1>1, Kinds DEF BelongInv, EmptyHanded
<1>7. QED
  BY <1>1, <1>3, <1>4, <1>5, <1>6, HandlerBelongs

\* A handler ends: what it held is shown, said to be left, or never written.
LEMMA EndBelongs ==
    ASSUME FilesInv, BelongInv, FilesInv', NEW o \in Running,
           ops' = [ops EXCEPT ![o] = None], UNCHANGED <<files, removing, used>>,
           DOMAIN docs \subseteq DOMAIN docs',
           \A d \in DocId : past[d] \subseteq past'[d],
           \A d \in Holds(ops[o]) \ {None} : files[d] # NoFiles =>
               d \in DOMAIN docs' \/ past'[d] \cap {"left", "late"} # {}
    PROVE  BelongInv'
<1>1. o \in OpId /\ o \notin Running' /\ \A x \in OpId \ {o} : ops'[x] = ops[x]
  BY InvTypes DEF Running
<1> DEFINE w == {}
<1>2. w \in SUBSET DocId /\ w \subseteq used /\ \A d \in DocId : d \notin w
  OBVIOUS
<1> HIDE DEF w
<1>3. \A x \in Running \ {o} : w \cap OwnedBy(ops[x]) = {}
  BY <1>2
<1>4. \A d \in DocId : d \in w \/ (o \in Running /\ d \in Holds(ops[o])) =>
          (files'[d] # NoFiles => Accounted(d)')
  BY <1>2 DEF Accounted
<1>5. \A d \in DocId \ w : files'[d] = files[d]
  OBVIOUS
<1>6. QED
  BY <1>1, <1>2, <1>3, <1>4, <1>5, HandlerBelongs

\* The document at hand is among those the handler knows.
LEMMA AtHand ==
    ASSUME NEW op \in Op, op.doc # None
    PROVE  op.doc \in DocId /\ {op.doc} \subseteq DocsOf(op)
BY Kinds DEF DocsOf

LEMMA CopyPageBelongs ==
    ASSUME FilesInv, BelongInv, NEW o \in OpId, CopyPage(o)
    PROVE  BelongInv'
<1> DEFINE op == ops[o]
           op2 == ops'[o]
<1>1. /\ o \in Running /\ op \in Op /\ op.kind \in Copying /\ op.doc # None
      /\ UNCHANGED <<docs, removing, used, past>>
      /\ \A x \in OpId \ {o} : ops'[x] = ops[x]
      /\ \A d \in DocId \ {op.doc} : files'[d] = files[d]
  BY InvTypes DEF CopyPage, PutPageFile
<1>2. /\ FilesInv' /\ op2 \in Op /\ op2.got # <<>> /\ op2.kind = op.kind
      /\ op2.doc = op.doc
      /\ op.kind = "files" => op2.ready = op.ready
  BY CopyPageKeeps
<1>3. op.doc \in DocId /\ {op.doc} \subseteq DocsOf(op)
  BY <1>1, AtHand
<1>4. Holds(op2) = Holds(op) /\ op.doc \in Holds(op)
  <2>1. CASE op.kind = "files"
    <3>1. ReadyDocs(op2) = ReadyDocs(op)
      BY <1>2, <2>1 DEF ReadyDocs
    <3>2. QED
      BY <1>2, <2>1, <3>1, HoldsKinds
  <2>2. CASE op.kind # "files"
    BY <1>1, <1>2, <2>2, HoldsKinds DEF Copying
  <2>3. QED
    BY <2>1, <2>2
<1>5. /\ {op.doc} \in SUBSET DocId
      /\ \A d \in {op.doc} \cup (Holds(op) \ {None}) : d \in Holds(op2)
      /\ \A d \in DocId \ {op.doc} : files'[d] = files[d]
      /\ \A d \in DocId : past[d] \subseteq past'[d]
      /\ op.kind # "run"
  BY <1>1, <1>3, <1>4 DEF Copying
<1> HIDE DEF op, op2
<1>6. QED
  BY <1>1, <1>2, <1>3, <1>5, GoOnBelongs DEF op, op2

LEMMA CopyFailsBelongs ==
    ASSUME FilesInv, BelongInv, NEW o \in OpId, CopyFails(o)
    PROVE  BelongInv'
<1> DEFINE op == ops[o]
           op2 == ops'[o]
           w == {}
<1>1. /\ o \in Running /\ op \in Op /\ op.doc # None
      /\ op.kind \in {"photos", "files", "scan", "add"}
      /\ UNCHANGED <<docs, files, removing, used>>
  BY InvTypes DEF CopyFails, Copying
<1>2. FilesInv' /\ op.doc \in DocId
  BY <1>1, CopyFailsKeeps, AtHand
<1>3. w \in SUBSET DocId /\ w \subseteq DocsOf(op)
  OBVIOUS
<1>4. CASE op.kind = "photos"
  <2>1. past' = past /\ \A x \in OpId \ {o} : ops'[x] = ops[x]
    BY <1>4, InvTypes DEF CopyFails
  <2>2. op2 \in Op /\ op2.kind = "photos" /\ op2.doc = op.doc /\ op2.got = op.got
    BY <1>4, CopyFailsKeeps
  <2>3. Holds(op2) = Holds(op)
    BY <1>4, <2>2, HoldsKinds
  <2> HIDE DEF op2
  <2>4. QED
    BY <1>1, <1>2, <1>3, <1>4, <2>1, <2>2, <2>3, GoOnBelongs DEF op2
<1>5. CASE op.kind = "files"
  <2>1. past' = Marked(op.doc, "left") /\ \A x \in OpId \ {o} : ops'[x] = ops[x]
    BY <1>5, InvTypes DEF CopyFails
  <2>2. /\ op2 \in Op /\ op2.kind = "files" /\ op2.doc = None /\ op2.ready = op.ready
    BY <1>5, CopyFailsKeeps
  <2>3. Holds(op2) = {None} \cup ReadyDocs(op) /\ Holds(op) = {op.doc} \cup ReadyDocs(op)
    BY <1>5, <2>2, HoldsKinds DEF ReadyDocs
  <2>4. /\ \A d \in DocId : past[d] \subseteq past'[d]
        /\ "left" \in past'[op.doc]
    BY <1>2, <2>1, OverlapsGrows
  <2> HIDE DEF op2
  <2>5. QED
    BY <1>1, <1>2, <1>3, <1>5, <2>1, <2>2, <2>3, <2>4, GoOnBelongs DEF op2
<1>6. CASE op.kind = "scan"
  <2>1. past' = Marked(op.doc, "left") /\ ops' = [ops EXCEPT ![o] = None]
    BY <1>6 DEF CopyFails
  <2>2. Holds(op) = {op.doc}
    BY <1>6, HoldsKinds
  <2>3. /\ \A d \in DocId : past[d] \subseteq past'[d]
        /\ "left" \in past'[op.doc]
    BY <1>2, <2>1, OverlapsGrows
  <2>4. QED
    BY <1>1, <1>2, <2>1, <2>2, <2>3, EndBelongs
<1>7. CASE op.kind = "add"
  <2>1. past' = past /\ ops' = [ops EXCEPT ![o] = None]
    BY <1>7 DEF CopyFails
  <2>2. Holds(op) = {op.doc}
    BY <1>7, HoldsKinds
  <2>3. op.doc \in DOMAIN docs \/ "late" \in past[op.doc]
    BY <1>1, <1>7, OthersWrite DEF BelongInv, EditorsKnown
  <2>4. QED
    BY <1>1, <1>2, <2>1, <2>2, <2>3, EndBelongs
<1>8. QED
  BY <1>1, <1>4, <1>5, <1>6, <1>7

LEMMA FinishBelongs ==
    ASSUME FilesInv, BelongInv, NEW o \in OpId, Finish(o)
    PROVE  BelongInv'
<1> DEFINE op == ops[o]
           given == IF op.kind = "add" THEN op.doc \in DOMAIN docs ELSE op.got # <<>>
<1>1. /\ o \in Running /\ op \in Op /\ op.kind \in {"scan", "photos", "add"}
      /\ ops' = [ops EXCEPT ![o] = None]
      /\ docs' = IF given THEN Made(op) ELSE docs
      /\ past' = IF op.kind = "add" THEN Marked(op.doc, "added") ELSE past
      /\ UNCHANGED <<files, removing, used>>
  BY InvTypes DEF Finish, Copying, SetDocs
<1>2. FilesInv' /\ op.doc \in DocId
  BY <1>1, FinishKeeps, Kinds
<1>3. \A d \in DocId : past[d] \subseteq past'[d]
  BY <1>1, <1>2, OverlapsGrows
<1>4. DOMAIN docs \subseteq DOMAIN docs' /\ (given => op.doc \in DOMAIN docs')
  BY <1>1 DEF Made, Put
<1>5. Holds(op) = {op.doc} /\ Writes(op)
  BY <1>1, HoldsKinds, OthersWrite
<1>6. ~given => files[op.doc] = NoFiles \/ "late" \in past[op.doc]
  BY <1>1, <1>5 DEF BelongInv, EditorsKnown, EmptyHanded
<1> HIDE DEF given
<1>7. QED
  BY <1>1, <1>2, <1>3, <1>4, <1>5, <1>6, EndBelongs

\* The next file of an import belongs to it already.
LEMMA NextFileOwned ==
    ASSUME FilesInv, NEW o \in OpId, Opening(o), ops[o].rest # <<>>
    PROVE  {Head(ops[o].rest).doc} \subseteq DocsOf(ops[o])
<1>1. /\ ops[o].kind = "files" /\ ops[o].rest \in Seq(Item)
  BY NextFile DEF FilesOp
<1>2. OwnedBy(ops[o]) = (({ops[o].doc} \ {None}) \cup ReadyDocs(ops[o]))
                        \cup {ops[o].rest[i].doc : i \in DOMAIN ops[o].rest}
  BY ONLY <1>1, OwnedKinds
<1>3. 1 \in DOMAIN ops[o].rest /\ Head(ops[o].rest) = ops[o].rest[1]
  BY <1>1
<1>4. QED
  BY <1>2, <1>3 DEF DocsOf

LEMMA OpenFileBelongs ==
    ASSUME FilesInv, BelongInv, NEW o \in OpId, OpenFile(o)
    PROVE  BelongInv'
<1> DEFINE op == ops[o]
           op2 == ops'[o]
           item == Head(op.rest)
<1>1. /\ Opening(o) /\ op.rest # <<>>
      /\ UNCHANGED <<docs, removing, used>>
      /\ files' = IF item.isPdf
                  THEN [files EXCEPT ![item.doc] = Put(@, Original, item.pages)]
                  ELSE files
  BY DEF OpenFile
<1>2. /\ o \in Running /\ op \in Op /\ op.kind = "files" /\ op.doc = None
      /\ item.doc \in DocId
  BY <1>1, NextFile
<1>3. /\ \A d \in DocId : past[d] \subseteq past'[d]
      /\ \A x \in OpId \ {o} : ops'[x] = ops[x]
  <2>1. past' = past \/ past' = Marked(item.doc, "skipped")
    BY DEF OpenFile
  <2>2. \A x \in OpId \ {o} : ops'[x] = ops[x]
    BY InvTypes DEF OpenFile
  <2>3. QED
    BY <1>2, <2>1, <2>2, OverlapsGrows
<1>4. /\ FilesInv' /\ op2 \in Op /\ op2.kind = "files" /\ op2.doc = item.doc
      /\ op2.ready = op.ready
  BY OpenFileKeeps
<1>5. /\ Holds(op) = {None} \cup ReadyDocs(op)
      /\ Holds(op2) = {item.doc} \cup ReadyDocs(op)
  BY <1>2, <1>4, HoldsKinds DEF ReadyDocs
<1>6. {item.doc} \subseteq DocsOf(op) /\ {item.doc} \in SUBSET DocId
  BY <1>1, <1>2, NextFileOwned
<1>7. \A d \in DocId \ {item.doc} : files'[d] = files[d]
  BY <1>1, <1>2, InvTypes
<1>8. \A d \in {item.doc} \cup (Holds(op) \ {None}) : d \in Holds(op2)
  BY <1>5
<1> HIDE DEF op, op2, item
<1>9. QED
  BY <1>1, <1>2, <1>3, <1>4, <1>6, <1>7, <1>8, GoOnBelongs DEF op, op2

LEMMA SkipFileBelongs ==
    ASSUME FilesInv, BelongInv, NEW o \in OpId, SkipFile(o) \/ SkipPdf(o)
    PROVE  BelongInv'
<1> DEFINE op == ops[o]
           op2 == ops'[o]
           item == Head(op.rest)
<1>1. /\ Opening(o) /\ op.rest # <<>>
      /\ UNCHANGED <<docs, removing, used>>
      /\ \A x \in OpId \ {o} : ops'[x] = ops[x]
  BY InvTypes DEF SkipFile, SkipPdf
<1>2. /\ o \in Running /\ op \in Op /\ op.kind = "files" /\ op.doc = None
      /\ item.doc \in DocId
  BY <1>1, NextFile
<1>3. /\ FilesInv' /\ op2 \in Op /\ op2.kind = "files" /\ op2.doc = None
      /\ op2.ready = op.ready
  BY SkipFileKeeps, SkipPdfKeeps
<1>4. Holds(op2) = Holds(op)
  <2>1. ReadyDocs(op2) = ReadyDocs(op)
    BY <1>3 DEF ReadyDocs
  <2>2. QED
    BY <1>2, <1>3, <2>1, HoldsKinds
<1>5. CASE UNCHANGED <<files, past>>
  <2> DEFINE w == {}
  <2>1. /\ w \in SUBSET DocId /\ w \subseteq DocsOf(op)
        /\ \A d \in w \cup (Holds(op) \ {None}) : d \in Holds(op2)
    BY <1>4
  <2> HIDE DEF op, op2, w
  <2>2. QED
    BY <1>1, <1>2, <1>3, <1>5, <2>1, GoOnBelongs DEF op, op2
<1>6. CASE /\ files' = [files EXCEPT ![item.doc] = Put(@, Original, item.pages)]
           /\ past' = Marked(item.doc, "left")
  <2>1. /\ \A d \in DocId : past[d] \subseteq past'[d]
        /\ "left" \in past'[item.doc]
    BY <1>2, <1>6, OverlapsGrows
  <2>2. {item.doc} \subseteq DocsOf(op) /\ {item.doc} \in SUBSET DocId
    BY <1>1, <1>2, NextFileOwned
  <2>3. \A d \in DocId \ {item.doc} : files'[d] = files[d]
    BY <1>2, <1>6, InvTypes
  <2>4. \A d \in {item.doc} \cup (Holds(op) \ {None}) :
            d \in Holds(op2) \/ "left" \in past'[d]
    BY <1>4, <2>1
  <2> HIDE DEF op, op2, item
  <2>5. QED
    BY <1>1, <1>2, <1>3, <2>1, <2>2, <2>3, <2>4, GoOnBelongs DEF op, op2
<1>7. QED
  BY <1>5, <1>6 DEF SkipFile, SkipPdf

LEMMA CloseFileBelongs ==
    ASSUME FilesInv, BelongInv, NEW o \in OpId, CloseFile(o)
    PROVE  BelongInv'
<1> DEFINE op == ops[o]
           op2 == ops'[o]
           w == {}
<1>1. /\ o \in Running /\ op.kind = "files" /\ op.doc # None
      /\ UNCHANGED <<docs, files, removing, used, past>>
      /\ \A x \in OpId \ {o} : ops'[x] = ops[x]
  BY InvTypes DEF CloseFile
<1>2. /\ FilesInv' /\ op2 \in Op /\ op2.kind = "files"
      /\ ReadyDocs(op2) = ReadyDocs(op) \cup {op.doc}
  BY CloseFileKeeps
<1>3. /\ w \in SUBSET DocId /\ w \subseteq DocsOf(op)
      /\ \A d \in w \cup (Holds(op) \ {None}) : d \in Holds(op2)
  BY <1>1, <1>2, HoldsKinds
<1> HIDE DEF op, op2, w
<1>4. QED
  BY <1>1, <1>2, <1>3, GoOnBelongs DEF op, op2

LEMMA NamelessFileBelongs ==
    ASSUME FilesInv, BelongInv, NEW o \in OpId, NamelessFile(o)
    PROVE  BelongInv'
<1>1. /\ o \in Running /\ ops[o].kind = "files" /\ ops[o].doc = None
      /\ ops' = [ops EXCEPT ![o] = None]
      /\ past' = MarkedAll(ReadyDocs(ops[o]), "left")
      /\ UNCHANGED <<docs, files, removing, used>>
  BY DEF NamelessFile, Opening
<1>2. Holds(ops[o]) = {None} \cup ReadyDocs(ops[o]) /\ ReadyDocs(ops[o]) \subseteq DocId
  <2>1. ReadyDocs(ops[o]) \subseteq OwnedBy(ops[o])
    BY <1>1, OwnedKinds
  <2>2. QED
    BY <1>1, <2>1, HoldsKinds, InvTypes, OwnedDocs
<1>3. \A d \in DocId :
          past[d] \subseteq past'[d] /\ (d \in ReadyDocs(ops[o]) => "left" \in past'[d])
  BY <1>1 DEF MarkedAll
<1>4. FilesInv'
  BY NamelessFileKeeps
<1>5. QED
  BY <1>1, <1>2, <1>3, <1>4, EndBelongs

LEMMA HandOverBelongs ==
    ASSUME FilesInv, BelongInv, NEW o \in OpId, HandOver(o)
    PROVE  BelongInv'
<1>1. /\ o \in Running /\ ops[o].kind = "files" /\ ops[o].doc = None
      /\ ops' = [ops EXCEPT ![o] = None]
      /\ DOMAIN docs' = DOMAIN docs \cup ReadyDocs(ops[o])
      /\ UNCHANGED <<files, removing, used, past>>
  BY DEF HandOver, Opening, SetDocs
<1>2. Holds(ops[o]) = {None} \cup ReadyDocs(ops[o])
  BY <1>1, HoldsKinds
<1>3. FilesInv'
  BY HandOverKeeps
<1>4. QED
  BY <1>1, <1>2, <1>3, EndBelongs

\* A crop or a run goes on with its document, to which it writes if it holds it.
LEMMA EditBelongs ==
    ASSUME FilesInv, BelongInv, FilesInv', NEW o \in Running,
           ops[o].kind \in {"crop", "run"}, ops'[o] \in Op,
           ops'[o].kind = ops[o].kind, ops'[o].doc = ops[o].doc,
           Holds(ops'[o]) = Holds(ops[o]), Writes(ops'[o]) <=> Writes(ops[o]),
           \A x \in OpId \ {o} : ops'[x] = ops[x],
           UNCHANGED <<docs, removing, used, past>>,
           \A d \in DocId \ Holds(ops[o]) : files'[d] = files[d]
    PROVE  BelongInv'
<1>1. ops[o] \in Op /\ ops[o].doc \in DocId /\ ops[o].doc # None
  BY InvTypes, Kinds
<1>2. Holds(ops[o]) \in SUBSET DocId /\ Holds(ops[o]) \subseteq DocsOf(ops[o])
  <2>1. Holds(ops[o]) \subseteq {ops[o].doc}
    BY HoldsKinds
  <2>2. QED
    BY <1>1, <2>1, AtHand
<1> DEFINE w == Holds(ops[o])
<1>3. /\ w \in SUBSET DocId /\ w \subseteq DocsOf(ops[o])
      /\ \A d \in DocId \ w : files'[d] = files[d]
      /\ \A d \in w \cup (Holds(ops[o]) \ {None}) : d \in Holds(ops'[o])
  BY <1>2
<1> HIDE DEF w
<1>4. QED
  BY <1>1, <1>3, GoOnBelongs

\* A crop or a run ends: its document is shown or known to be gone.
LEMMA EditEndBelongs ==
    ASSUME FilesInv, BelongInv, FilesInv', NEW o \in Running,
           ops[o].kind \in {"crop", "run"}, ops' = [ops EXCEPT ![o] = None],
           UNCHANGED <<files, removing, used, past>>, DOMAIN docs \subseteq DOMAIN docs'
    PROVE  BelongInv'
<1>1. Holds(ops[o]) \subseteq {ops[o].doc} /\ (~Writes(ops[o]) => Holds(ops[o]) = {})
  BY HoldsKinds DEF Holds
<1>2. Writes(ops[o]) => ops[o].doc \in DOMAIN docs \/ "late" \in past[ops[o].doc]
  BY DEF BelongInv, EditorsKnown
<1>3. QED
  BY <1>1, <1>2, EndBelongs

LEMMA CropsBelong ==
    ASSUME FilesInv, BelongInv, NEW o \in OpId,
           CropCopies(o) \/ CropApplies(o) \/ CropFails(o)
    PROVE  BelongInv'
<1>1. ASSUME CropCopies(o) PROVE BelongInv'
  <2>1. /\ o \in Running /\ ops[o].kind = "crop"
        /\ UNCHANGED <<docs, removing, used, past>>
        /\ \A x \in OpId \ {o} : ops'[x] = ops[x]
        /\ \A d \in DocId \ {ops[o].doc} : files'[d] = files[d]
    BY <1>1, InvTypes DEF CropCopies, PutPageFile
  <2>2. /\ FilesInv' /\ ops'[o] \in Op /\ ops'[o].kind = "crop"
        /\ ops'[o].doc = ops[o].doc
    BY <1>1, CropCopiesKeeps
  <2>3. Holds(ops[o]) = {ops[o].doc} /\ Holds(ops'[o]) = {ops[o].doc}
    BY <2>1, <2>2, HoldsKinds
  <2>4. Writes(ops[o]) /\ Writes(ops'[o])
    BY <2>1, <2>2, OthersWrite
  <2>5. QED
    BY <2>1, <2>2, <2>3, <2>4, EditBelongs
<1>2. ASSUME CropApplies(o) PROVE BelongInv'
  <2>1. /\ o \in Running /\ ops[o].kind = "crop" /\ ops' = [ops EXCEPT ![o] = None]
        /\ UNCHANGED <<files, removing, used, past>> /\ DOMAIN docs' = DOMAIN docs
    BY <1>2 DEF CropApplies, SetDocs
  <2>2. QED
    BY <1>2, <2>1, CropAppliesKeeps, EditEndBelongs
<1>3. ASSUME CropFails(o) PROVE BelongInv'
  <2>1. /\ o \in Running /\ ops[o].kind = "crop" /\ ops' = [ops EXCEPT ![o] = None]
        /\ UNCHANGED <<files, removing, used, past>> /\ DOMAIN docs' = DOMAIN docs
    BY <1>3 DEF CropFails
  <2>2. QED
    BY <1>3, <2>1, CropFailsKeeps, EditEndBelongs
<1>4. QED
  BY <1>1, <1>2, <1>3

LEMMA RunsBelong ==
    ASSUME FilesInv, BelongInv, NEW o \in OpId
    PROVE  /\ \A i : FilterPage(o, i) \/ FilterFails(o, i) => BelongInv'
           /\ FiltersEnd(o) \/ PageRead(o) => BelongInv'
<1>1. ASSUME NEW i, FilterPage(o, i) PROVE BelongInv'
  <2>1. /\ o \in Running /\ ops[o].kind = "run" /\ ops[o] \in RunOp
        /\ UNCHANGED <<docs, removing, used, past>>
        /\ \A x \in OpId \ {o} : ops'[x] = ops[x]
        /\ \A d \in DocId \ {ops[o].doc} : files'[d] = files[d]
        /\ i \in ops[o].left
    BY <1>1, InvTypes, Kinds DEF FilterPage, PutPageFile
  <2>2. /\ FilesInv' /\ ops'[o] \in Op /\ ops'[o].kind = "run"
        /\ ops'[o].doc = ops[o].doc
    BY <1>1, FilterPageKeeps
  <2>3. ops'[o].next = ops[o].next
    BY <1>1, <2>1, InvTypes DEF FilterPage, RunOp
  <2>4. ops[o].next = 0
    BY <2>1 DEF FilesInv, OpWritten
  <2>5. /\ Holds(ops[o]) = {ops[o].doc} /\ Holds(ops'[o]) = {ops[o].doc}
        /\ Writes(ops[o]) /\ Writes(ops'[o])
    BY <2>1, <2>2, <2>3, <2>4, HoldsKinds DEF Writes
  <2>6. QED
    BY <2>1, <2>2, <2>5, EditBelongs
<1>2. ASSUME NEW i, FilterFails(o, i) PROVE BelongInv'
  <2>1. /\ o \in Running /\ ops[o].kind = "run" /\ ops[o] \in RunOp
        /\ UNCHANGED <<docs, removing, used, past, files>>
        /\ \A x \in OpId \ {o} : ops'[x] = ops[x]
    BY <1>2, InvTypes, Kinds DEF FilterFails
  <2>2. /\ FilesInv' /\ ops'[o] \in Op /\ ops'[o].kind = "run"
        /\ ops'[o].doc = ops[o].doc
    BY <1>2, FilterFailsKeeps
  <2>3. ops'[o].next = ops[o].next
    BY <1>2, <2>1, InvTypes DEF FilterFails, RunOp
  <2>4. Holds(ops'[o]) = Holds(ops[o]) /\ (Writes(ops'[o]) <=> Writes(ops[o]))
    BY <2>1, <2>2, <2>3, HoldsKinds DEF Writes
  <2>5. QED
    BY <2>1, <2>2, <2>4, EditBelongs
<1>3. ASSUME FiltersEnd(o) PROVE BelongInv'
  <2> DEFINE w == {}
  <2>1. /\ o \in Running /\ ops[o].kind = "run" /\ ops[o].next = 0 /\ ops[o] \in Op
        /\ UNCHANGED <<docs, removing, used, past, files>>
        /\ \A x \in OpId \ {o} : ops'[x] = ops[x]
        /\ ops[o].doc \in DocId
    BY <1>3, InvTypes, Kinds DEF FiltersEnd
  <2>2. /\ FilesInv' /\ ops'[o] \in Op /\ ops'[o].kind = "run"
        /\ ops'[o].doc = ops[o].doc
    BY <1>3, FiltersEndKeeps
  <2>3. Writes(ops[o]) /\ Holds(ops[o]) = {ops[o].doc}
    BY <2>1, HoldsKinds DEF Writes
  <2>4. ops[o].doc \in DOMAIN docs \/ "late" \in past[ops[o].doc]
    BY <2>1, <2>3 DEF BelongInv, EditorsKnown
  <2>5. /\ w \in SUBSET DocId /\ w \subseteq DocsOf(ops[o])
        /\ \A d \in DocId \ w : files'[d] = files[d]
        /\ \A d \in w \cup (Holds(ops[o]) \ {None}) :
               \/ past'[d] \cap {"left", "late"} # {}
               \/ d \in DOMAIN docs
    BY <2>1, <2>3, <2>4
  <2> HIDE DEF w
  <2>6. QED
    BY <2>1, <2>2, <2>3, <2>5, GoOnBelongs
<1>4. ASSUME PageRead(o) PROVE BelongInv'
  <2>0. /\ o \in Running /\ ops[o].kind = "run" /\ ops[o].next > 0
        /\ ops[o] \in RunOp
        /\ UNCHANGED <<docs, removing, used, past, files>>
    BY <1>4, InvTypes, Kinds DEF PageRead
  <2>6. FilesInv'
    BY <1>4, PageReadKeeps
  <2>7. \A x \in OpId \ {o} : ops'[x] = ops[x]
    BY <1>4, InvTypes DEF PageRead
  <2>8. ops[o].next # 0
    BY <2>0 DEF RunOp
  <2>1. /\ o \in Running /\ ops[o].kind = "run" /\ ops[o].next # 0
        /\ FilesInv'
        /\ UNCHANGED <<docs, removing, used, past, files>>
        /\ \A x \in OpId \ {o} : ops'[x] = ops[x]
    BY <2>0, <2>6, <2>7, <2>8
  <2>2. ~Writes(ops[o]) /\ Holds(ops[o]) = {}
    BY <2>1, HoldsKinds DEF Writes
  <2>3. CASE ops' = [ops EXCEPT ![o] = None]
    BY <2>1, <2>3, EditEndBelongs
  <2>4. CASE /\ ops'[o] \in Op /\ ops'[o].kind = "run" /\ ops'[o].doc = ops[o].doc
             /\ ops'[o].next # 0
    <3>1. ~Writes(ops'[o]) /\ Holds(ops'[o]) = {}
      BY <2>4, HoldsKinds DEF Writes
    <3>2. QED
      BY <2>1, <2>2, <2>4, <3>1, EditBelongs
  <2>5. QED
    BY <1>4, <2>3, <2>4, PageReadKeeps
<1>5. QED
  BY <1>1, <1>2, <1>3, <1>4

\* A document is changed: the handlers and the files are what they were.
LEMMA ChangeBelongs ==
    ASSUME FilesInv, BelongInv, UNCHANGED <<ops, files, removing, used>>,
           DOMAIN docs' = DOMAIN docs, \A d \in DocId : past[d] \subseteq past'[d]
    PROVE  BelongInv'
<1>1. /\ Running' = Running
      /\ \A o \in Running : ops[o] \in Op /\ ops'[o] = ops[o]
  BY InvTypes DEF Running
<1>2. FilesAccounted'
  <2>1. ASSUME NEW d \in DocId, files'[d] # NoFiles
        PROVE  Accounted(d)'
    BY <1>1, <2>1 DEF BelongInv, FilesAccounted, Accounted
  <2>2. QED
    BY <2>1 DEF FilesAccounted
<1>3. EditorsKnown'
  BY <1>1, Kinds DEF BelongInv, EditorsKnown
<1>4. UnusedEmpty' /\ EmptyHanded'
  BY <1>1 DEF BelongInv, UnusedEmpty, EmptyHanded
<1>5. QED
  BY <1>2, <1>3, <1>4 DEF BelongInv

LEMMA ChangesBelong ==
    ASSUME FilesInv, BelongInv
    PROVE  /\ \A d, i, rotation : Rotate(d, i, rotation) /\ d \in DocId => BelongInv'
           /\ \A d, i : DeletePage(d, i) /\ d \in DocId => BelongInv'
           /\ Save => BelongInv'
<1>1. ASSUME NEW d \in DocId, NEW i, NEW rotation, Rotate(d, i, rotation)
      PROVE  BelongInv'
  <2>1. /\ DOMAIN docs' = DOMAIN docs /\ past' = Marked(d, "turned")
        /\ UNCHANGED <<ops, files, removing, used>>
    BY <1>1 DEF Rotate, SetDocs
  <2>2. QED
    BY <2>1, ChangeBelongs, OverlapsGrows
<1>2. ASSUME NEW d \in DocId, NEW i, DeletePage(d, i)
      PROVE  BelongInv'
  <2>1. /\ DOMAIN docs' = DOMAIN docs /\ past' = Marked(d, "mixed")
        /\ UNCHANGED <<ops, files, removing, used>>
    BY <1>2 DEF DeletePage, SetDocs
  <2>2. QED
    BY <2>1, ChangeBelongs, OverlapsGrows
<1>3. Save => BelongInv'
  BY ChangeBelongs DEF Save
<1>4. QED
  BY <1>1, <1>2, <1>3

\* The files of a deleted document wait for their removal; the handlers that write
\* to it are noted, those that make others are not concerned.
LEMMA DeleteDocBelongs ==
    ASSUME FilesInv, BelongInv, NEW d \in DocId, DeleteDoc(d)
    PROVE  BelongInv'
<1>1. /\ DOMAIN docs' = DOMAIN docs \ {d} /\ removing' = removing \cup {d}
      /\ past' = [past EXCEPT ![d] = IF Writing(d) THEN {"late"} ELSE {}]
      /\ UNCHANGED <<ops, files, used>>
  BY DEF DeleteDoc, SetDocs
<1>2. /\ Running' = Running
      /\ \A o \in Running : ops[o] \in Op /\ ops'[o] = ops[o]
  BY <1>1, InvTypes DEF Running
<1>3. /\ \A x \in DocId \ {d} : past'[x] = past[x]
      /\ Writing(d) => "late" \in past'[d]
  BY <1>1, InvTypes
<1>4. FilesAccounted'
  <2>1. ASSUME NEW x \in DocId, files'[x] # NoFiles
        PROVE  Accounted(x)'
    BY <1>1, <1>2, <1>3, <2>1 DEF BelongInv, FilesAccounted, Accounted
  <2>2. QED
    BY <2>1 DEF FilesAccounted
<1>5. EditorsKnown'
  <2>1. ASSUME NEW o \in Running', Writes(ops'[o]), ops'[o].kind \in {"add", "crop", "run"}
        PROVE  ops'[o].doc \in DOMAIN docs' \/ "late" \in past'[ops'[o].doc]
    <3>1. o \in Running /\ ops'[o] = ops[o] /\ ops[o].doc \in DocId
      BY <1>2, <2>1, Kinds
    <3>2. CASE ops[o].doc = d
      BY <1>3, <2>1, <3>1, <3>2 DEF Writing
    <3>3. CASE ops[o].doc # d
      BY <1>1, <1>3, <2>1, <3>1, <3>3 DEF BelongInv, EditorsKnown
    <3>4. QED
      BY <3>2, <3>3
  <2>2. QED
    BY <2>1 DEF EditorsKnown
<1>6. UnusedEmpty' /\ EmptyHanded'
  BY <1>1, <1>2 DEF BelongInv, UnusedEmpty, EmptyHanded
<1>7. QED
  BY <1>4, <1>5, <1>6 DEF BelongInv

LEMMA RemoveDocFilesBelongs ==
    ASSUME FilesInv, BelongInv, NEW d \in DocId, RemoveDocFiles(d)
    PROVE  BelongInv'
<1>1. /\ files' = [files EXCEPT ![d] = NoFiles] /\ removing' = removing \ {d}
      /\ UNCHANGED <<docs, ops, used, past>>
  BY DEF RemoveDocFiles
<1>2. /\ Running' = Running
      /\ \A o \in Running : ops[o] \in Op /\ ops'[o] = ops[o]
  BY <1>1, InvTypes DEF Running
<1>3. files'[d] = NoFiles /\ \A x \in DocId \ {d} : files'[x] = files[x]
  BY <1>1, InvTypes
<1>4. FilesAccounted'
  <2>1. ASSUME NEW x \in DocId, files'[x] # NoFiles
        PROVE  Accounted(x)'
    BY <1>1, <1>2, <1>3, <2>1 DEF BelongInv, FilesAccounted, Accounted
  <2>2. QED
    BY <2>1 DEF FilesAccounted
<1>5. EditorsKnown'
  BY <1>1, <1>2 DEF BelongInv, EditorsKnown
<1>6. UnusedEmpty'
  BY <1>1, <1>3 DEF BelongInv, UnusedEmpty
<1>7. EmptyHanded'
  BY <1>2, <1>3, Kinds DEF BelongInv, EmptyHanded
<1>8. QED
  BY <1>4, <1>5, <1>6, <1>7 DEF BelongInv

LEMMA RelaunchBelongs ==
    ASSUME FilesInv, BelongInv, Relaunch
    PROVE  BelongInv'
<1>1. /\ ops' = [o \in OpId |-> None] /\ DOMAIN docs' = DOMAIN docs
      /\ UNCHANGED <<files, used>>
  BY InvTypes DEF Relaunch
<1>2. Running' = {}
  BY <1>1 DEF Running
<1>3. \A d \in DocId :
          /\ past[d] \subseteq past'[d]
          /\ d \in removing \/ (\E o \in Running : d \in Making(ops[o])) =>
                "cut" \in past'[d]
  BY DEF Relaunch
<1>4. FilesAccounted'
  <2>1. ASSUME NEW d \in DocId, files'[d] # NoFiles
        PROVE  d \in DOMAIN docs' \/ past'[d] \cap {"left", "cut", "late"} # {}
    <3>1. CASE \E o \in Running : d \in Holds(ops[o])
      <4>1. PICK o \in Running : d \in Holds(ops[o])
        BY <3>1
      <4>2. ops[o] \in Op /\ Writes(ops[o]) /\ d \in Making(ops[o]) \cup {ops[o].doc}
        BY <4>1, InvTypes DEF Holds
      <4>3. CASE ops[o].kind \in {"scan", "photos", "files"}
        <5>1. d \in Making(ops[o])
          BY <4>2, <4>3 DEF Making
        <5>2. QED
          BY <1>3, <5>1
      <4>4. CASE ops[o].kind \in {"add", "crop", "run"}
        <5>1. d = ops[o].doc
          BY <4>2, <4>4 DEF Making
        <5>2. QED
          BY <1>1, <1>3, <4>2, <4>4, <5>1 DEF BelongInv, EditorsKnown
      <4>5. QED
        BY <4>2, <4>3, <4>4, Kinds
    <3>2. CASE ~ \E o \in Running : d \in Holds(ops[o])
      BY <1>1, <1>3, <2>1, <3>2 DEF BelongInv, FilesAccounted, Accounted
    <3>3. QED
      BY <3>1, <3>2
  <2>2. QED
    BY <2>1 DEF FilesAccounted, Accounted
<1>5. QED
  BY <1>1, <1>2, <1>4 DEF BelongInv, EditorsKnown, UnusedEmpty, EmptyHanded

LEMMA InitBelongs == Init => BelongInv
<1> SUFFICES ASSUME Init PROVE BelongInv
  OBVIOUS
<1>1. Running = {} /\ \A d \in DocId : files[d] = NoFiles
  BY DEF Init, Running
<1>2. QED
  BY <1>1 DEF BelongInv, FilesAccounted, EditorsKnown, UnusedEmpty, EmptyHanded

LEMMA StepBelongs == FilesInv /\ BelongInv /\ [Next]_vars => BelongInv'
<1> SUFFICES ASSUME FilesInv, BelongInv, [Next]_vars PROVE BelongInv'
  OBVIOUS
<1>1. FilesInv'
  BY StepKeeps
<1>2. ASSUME NEW o \in OpId,
             \/ \E kind \in {"scan", "photos"}, item \in Picks : BeginScan(o, kind, item)
             \/ \E d \in DocId, pages \in Additions : BeginAdd(o, d, pages)
             \/ \E batch \in Batches : BeginFiles(o, batch)
             \/ \E d \in DocId, i \in 1 .. MaxPages : BeginCrop(o, d, i)
             \/ \E d \in DocId : BeginRun(o, d)
      PROVE  BelongInv'
  BY <1>1, <1>2, BeginsBelong
<1>3. ASSUME NEW o \in OpId,
             \/ CopyPage(o) \/ CopyFails(o) \/ Finish(o)
             \/ OpenFile(o) \/ SkipFile(o) \/ SkipPdf(o) \/ CloseFile(o)
             \/ NamelessFile(o) \/ HandOver(o)
      PROVE  BelongInv'
  BY <1>3, CopyPageBelongs, CopyFailsBelongs, FinishBelongs, OpenFileBelongs,
     SkipFileBelongs, CloseFileBelongs, NamelessFileBelongs, HandOverBelongs
<1>4. ASSUME NEW o \in OpId,
             \/ CropCopies(o) \/ CropApplies(o) \/ CropFails(o)
             \/ \E i \in 1 .. MaxPages : FilterPage(o, i) \/ FilterFails(o, i)
             \/ FiltersEnd(o) \/ PageRead(o)
      PROVE  BelongInv'
  BY <1>4, CropsBelong, RunsBelong
<1>5. ASSUME NEW d \in DocId,
             \/ DeleteDoc(d) \/ RemoveDocFiles(d)
             \/ \E i \in 1 .. MaxPages :
                   DeletePage(d, i) \/ \E rotation \in Rotation : Rotate(d, i, rotation)
      PROVE  BelongInv'
  BY <1>5, ChangesBelong, DeleteDocBelongs, RemoveDocFilesBelongs
<1>6. CASE Save \/ Relaunch
  BY <1>6, ChangesBelong, RelaunchBelongs
<1>7. CASE UNCHANGED vars
  BY <1>7, ChangeBelongs DEF vars
<1>8. QED
  BY <1>2, <1>3, <1>4, <1>5, <1>6, <1>7 DEF Next

\* No file is left behind in silence: a document that has files is in the index,
\* waits for its removal or is in the hands of a handler - or its making failed or
\* was cut short, or it was deleted while a handler wrote to it.
THEOREM NoFileForgotten == Spec => []FilesBelong
<1>1. Init => FilesInv /\ BelongInv
  BY InitHolds, InitBelongs
<1>2. FilesInv /\ BelongInv /\ [Next]_vars => FilesInv' /\ BelongInv'
  BY StepKeeps, StepBelongs
<1>3. BelongInv => FilesBelong
  BY AccountedBelong DEF BelongInv
<1>4. QED
  BY <1>1, <1>2, <1>3, PTL DEF Spec

-----------------------------------------------------------------------------
(* What was imported is kept.                                              *)

\* What FinishedFilesKept says of a step.
Kept ==
    \A o \in Running :
        /\ ops[o].kind = "files" /\ ops'[o] = None
        /\ ops[o].rest = <<>> \/ Head(ops[o].rest).named
        => \A d \in ReadyDocs(ops[o]) : d \in DOMAIN docs' \/ "cut" \in past'[d]

\* A step that ends no import of files.
LEMMA ImportsGoOn ==
    ASSUME FilesInv, NEW x \in OpId, \A o \in OpId \ {x} : ops'[o] = ops[o],
           x \in Running /\ ops[x].kind = "files" => ops'[x] # None
    PROVE  Kept
BY DEF Kept, Running

LEMMA StepKept == FilesInv /\ [Next]_vars => Kept
<1> SUFFICES ASSUME FilesInv, [Next]_vars PROVE Kept
  OBVIOUS
<1> USE InvTypes
<1>1. ASSUME NEW o \in OpId,
             \/ \E kind \in {"scan", "photos"}, item \in Picks : BeginScan(o, kind, item)
             \/ \E d \in DocId, pages \in Additions : BeginAdd(o, d, pages)
             \/ \E batch \in Batches : BeginFiles(o, batch)
             \/ \E d \in DocId, i \in 1 .. MaxPages : BeginCrop(o, d, i)
             \/ \E d \in DocId : BeginRun(o, d)
      PROVE  Kept
  <2>1. o \notin Running
    BY <1>1 DEF BeginScan, BeginAdd, BeginFiles, BeginCrop, BeginRun, Starts, Running
  <2>2. \A x \in OpId \ {o} : ops'[x] = ops[x]
    BY <1>1 DEF BeginScan, BeginAdd, BeginFiles, BeginCrop, BeginRun
  <2>3. QED
    BY <2>1, <2>2, ImportsGoOn
<1>2. ASSUME NEW o \in OpId,
             \/ CopyPage(o) \/ OpenFile(o) \/ SkipFile(o) \/ SkipPdf(o) \/ CloseFile(o)
      PROVE  Kept
  <2>1. ops'[o] # None
    BY <1>2, CopyPageKeeps, OpenFileKeeps, SkipFileKeeps, SkipPdfKeeps, CloseFileKeeps
  <2>2. \A x \in OpId \ {o} : ops'[x] = ops[x]
    BY <1>2 DEF CopyPage, OpenFile, SkipFile, SkipPdf, CloseFile
  <2>3. QED
    BY <2>1, <2>2, ImportsGoOn
<1>3. ASSUME NEW o \in OpId, CopyFails(o) PROVE Kept
  <2>1. ops[o].kind = "files" => ops'[o] # None
    BY <1>3, CopyFailsKeeps
  <2>2. \A x \in OpId \ {o} : ops'[x] = ops[x]
    BY <1>3 DEF CopyFails, Copying
  <2>3. QED
    BY <2>1, <2>2, ImportsGoOn
<1>4. ASSUME NEW o \in OpId,
             \/ Finish(o)
             \/ CropCopies(o) \/ CropApplies(o) \/ CropFails(o)
             \/ \E i \in 1 .. MaxPages : FilterPage(o, i) \/ FilterFails(o, i)
             \/ FiltersEnd(o) \/ PageRead(o)
      PROVE  Kept
  <2>1. ops[o].kind # "files"
    BY <1>4 DEF Finish, CropCopies, CropApplies, CropFails, FilterPage, FilterFails,
                FiltersEnd, PageRead
  <2>2. \A x \in OpId \ {o} : ops'[x] = ops[x]
    BY <1>4 DEF Finish, CropCopies, CropApplies, CropFails, FilterPage, FilterFails,
                FiltersEnd, PageRead
  <2>3. QED
    BY <2>1, <2>2, ImportsGoOn
<1>5. ASSUME NEW o \in OpId, NamelessFile(o) PROVE Kept
  <2>1. /\ ops' = [ops EXCEPT ![o] = None]
        /\ ops[o].rest # <<>> /\ ~Head(ops[o].rest).named
    BY <1>5 DEF NamelessFile
  <2>2. QED
    BY <2>1 DEF Kept, Running
<1>6. ASSUME NEW o \in OpId, HandOver(o) PROVE Kept
  <2>1. /\ ops' = [ops EXCEPT ![o] = None]
        /\ DOMAIN docs' = DOMAIN docs \cup ReadyDocs(ops[o])
    BY <1>6 DEF HandOver, SetDocs
  <2>2. QED
    BY <2>1 DEF Kept, Running
<1>7. ASSUME NEW d \in DocId,
             \/ DeleteDoc(d) \/ RemoveDocFiles(d)
             \/ \E i \in 1 .. MaxPages :
                   DeletePage(d, i) \/ \E rotation \in Rotation : Rotate(d, i, rotation)
      PROVE  Kept
  <2>1. ops' = ops
    BY <1>7 DEF DeleteDoc, RemoveDocFiles, Rotate, DeletePage
  <2>2. QED
    BY <2>1 DEF Kept, Running
<1>8. CASE Relaunch
  <2>1. \A d \in DocId :
            (\E o \in Running : d \in Making(ops[o])) => "cut" \in past'[d]
    BY <1>8 DEF Relaunch
  <2>2. \A o \in Running : ops[o].kind = "files" =>
            ReadyDocs(ops[o]) \subseteq Making(ops[o]) /\ ReadyDocs(ops[o]) \subseteq DocId
    <3>1. TAKE o \in Running
    <3>2. HAVE ops[o].kind = "files"
    <3>3. ReadyDocs(ops[o]) \subseteq OwnedBy(ops[o])
      BY <3>2, OwnedKinds
    <3>4. QED
      BY <3>2, <3>3, OwnedDocs DEF Making
  <2>3. QED
    BY <2>1, <2>2 DEF Kept
<1>9. CASE Save \/ UNCHANGED vars
  BY <1>9 DEF Save, vars, Kept, Running
<1>10. QED
  BY <1>1, <1>2, <1>3, <1>4, <1>5, <1>6, <1>7, <1>8, <1>9 DEF Next

\* Every file that was read becomes a document when its import ends, whichever of
\* the others could not be opened or copied: an import that ends otherwise met a
\* file without a name, or the app died and its documents are marked.
THEOREM ImportKeepsFinishedFiles == Spec => FinishedFilesKept
<1>1. FilesInv /\ [Next]_vars => Kept
  BY StepKept
<1>2. QED
  BY <1>1, Invariant, PTL DEF Spec, FinishedFilesKept, Kept
=============================================================================
