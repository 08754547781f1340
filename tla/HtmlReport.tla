----------------------------- MODULE HtmlReport -----------------------------
(***************************************************************************)
(* The HTML report writer of the GUI (src/gui/htmlreportgenerator.h).      *)
(* Report items (ReportItemTable, ReportImages) hold their content and    *)
(* render it with toHTMLString(); HTMLReportGenerator                     *)
(* opens the file and writes the header in its constructor, keeps         *)
(* shared_ptrs to the items added, renders all of them on every doWrite(), *)
(* and writes the tail in its destructor.                                  *)
(*                                                                         *)
(* A string is a member of Cells, or Empty for a default-constructed      *)
(* StringType().  A vector of strings is [cells, size]: its size and the  *)
(* strings it starts with, every later element being Empty.  Titles,       *)
(* widths, alignment, borders and padding are formatting and left out.    *)
(***************************************************************************)
EXTENDS Integers, SequencesExt, FiniteSets

CONSTANTS
    Cells,          \* the strings a cell, a path or a caption can hold
    Empty,          \* StringType()
    Tables, Images, \* the report items, by kind
    Normals,
    ColsArgs,       \* the cols a caller may pass to ReportItemTable
    Widths,         \* the widths and heights addImage may be given, -1 unset
    MaxLen,         \* the longest header or row a caller passes
    MaxRows,        \* bound on the rows of a table
    MaxImages,      \* bound on the addImage() calls of a ReportImages
    MaxElements,    \* bound on addReportElement() calls
    MaxWrites       \* bound on doWrite() calls

Items == Tables \cup Images \cup Normals

ASSUME /\ Empty \notin Cells /\ -1 \in Widths
       /\ ColsArgs \subseteq Nat /\ MaxLen \in Nat /\ MaxRows \in Nat

\* cols = 256 is where the narrowest-row search of the constructor starts.
NoRowsCols == 256

Lines == BoundedSeq(Cells, MaxLen)
MinOf(a, b) == IF a < b THEN a ELSE b
MaxOf(a, b) == IF a < b THEN b ELSE a

\* Element c of a vector of strings.
CellAt(v, c) == IF c <= Len(v.cells) THEN v.cells[c] ELSE Empty
NoCells == [cells |-> <<>>, size |-> 0]

VARIABLES
    table,      \* per table: header, content, cols, interlaceColor
    images,     \* per ReportImages: imagePaths, imageCaptions, imageScales
    normal,     \* per ReportItemNormal: its content
    gen,        \* the generator: its file state and contentElements
    file,       \* the report file: header, per doWrite the elements rendered, tail
    given       \* history: the header and the rows each table was given

vars == <<table, images, normal, gen, file, given>>

(***************************************************************************)
(* Report items.                                                           *)
(***************************************************************************)

\* Mutant: the copy loop stops one element short.
CopyCompleteShort(src, target, n) ==
    LET k == MinOf(n, Len(src)) - 1
    IN  [cells |-> [c \in 1..MinOf(n, MaxOf(k, Len(target.cells))) |->
                       IF c <= k THEN src[c] ELSE target.cells[c]],
         size  |-> IF Len(src) < n THEN 2 * n - Len(src) ELSE n]

\* copyStringVectorAndComplete: targetVec.resize(n) keeps the first n
\* elements of the target, the loop overwrites the first min(n, |src|) of
\* them, and a short source gets n - |src| more empty elements appended.
CopyStringVectorAndComplete(src, target, n) ==
    LET k == MinOf(n, Len(src))
    IN  [cells |-> [c \in 1..MinOf(n, MaxOf(k, Len(target.cells))) |->
                       IF c <= k THEN src[c] ELSE target.cells[c]],
         size  |-> IF Len(src) < n THEN 2 * n - Len(src) ELSE n]

\* The constructor with cols = -1 takes the size of the narrowest row,
\* starting from 256.
DefaultCols(content) ==
    IF content = <<>> THEN NoRowsCols
    ELSE MinOf(NoRowsCols, FoldSeq(LAMBDA r, acc : MinOf(Len(r), acc), NoRowsCols, content))

\* Mutant: the constructor without the cols == -1 branch.
NewTableNoDefault(header, content, cols) ==
    [header  |-> CopyStringVectorAndComplete(header, NoCells, cols),
     content |-> [r \in DOMAIN content |-> CopyStringVectorAndComplete(content[r], NoCells, cols)],
     cols    |-> cols, interlace |-> TRUE]

\* ReportItemTable(title, header, content, cols): setHeader, then addRow
\* for each row.  ReportItemTable(cols) leaves header and content empty.
NewTable(header, content, cols) ==
    LET n == IF cols = -1 THEN DefaultCols(content) ELSE cols
    IN  [header  |-> CopyStringVectorAndComplete(header, NoCells, n),
         content |-> [r \in DOMAIN content |-> CopyStringVectorAndComplete(content[r], NoCells, n)],
         cols    |-> n, interlace |-> TRUE]
NewTableCols(cols) == [header |-> NoCells, content |-> <<>>, cols |-> cols, interlace |-> TRUE]

\* isValid(): the header and every row have at least cols elements.
IsValid(t) == t.header.size >= t.cols /\ \A r \in DOMAIN t.content : t.content[r].size >= t.cols

\* toHTMLString() of a table: empty if not valid, else cols header cells,
\* shaded if interlaceColor, and cols cells of every row, rows 2, 4, ...
\* shaded whatever interlaceColor is.
TableHTML(t) ==
    IF ~IsValid(t) THEN Empty
    ELSE [head   |-> [c \in 1..t.cols |-> CellAt(t.header, c)],
          shaded |-> t.interlace,
          rows   |-> [r \in DOMAIN t.content |->
                        [cells  |-> [c \in 1..t.cols |-> CellAt(t.content[r], c)],
                         shaded |-> r % 2 = 0]]]

\* The scale string of addImage: "width=w " and "height=h", each only if
\* not -1.
Scale(w, h) == (IF w = -1 THEN {} ELSE {<<"width", w>>}) \cup (IF h = -1 THEN {} ELSE {<<"height", h>>})

\* toHTMLString() of ReportImages: empty if paths and captions differ in
\* number, else image i with path i, caption i and scale i.
ImagesHTML(im) ==
    IF Len(im.paths) # Len(im.captions) THEN Empty
    ELSE [i \in DOMAIN im.paths |->
            [path |-> im.paths[i], caption |-> im.captions[i], scale |-> im.scales[i]]]

\* The constructor calls: ReportItemTable(title, header, content, cols)
\* with cols given or left -1, and ReportItemTable(cols).
CtorCalls ==
    [kind : {"full"}, header : Lines, content : BoundedSeq(Lines, MaxRows), cols : ColsArgs \cup {-1}]
        \cup [kind : {"cols"}, header : {<<>>}, content : {<<>>}, cols : ColsArgs]
Construct(call) ==
    IF call.kind = "full" THEN NewTable(call.header, call.content, call.cols)
    ELSE NewTableCols(call.cols)

Init ==
    /\ \E call \in [Tables -> CtorCalls] :
           /\ table = [t \in Tables |-> Construct(call[t])]
           /\ given = [tab |-> [t \in Tables |-> [header |-> call[t].header, rows |-> call[t].content]],
                       img |-> [i \in Images |-> <<>>]]
    /\ images = [i \in Images |-> [paths |-> <<>>, captions |-> <<>>, scales |-> <<>>]]
    \* ReportItemNormal() leaves content empty; ReportItemNormal(title,
    \* content) copies content.
    /\ normal \in [Normals -> {Empty} \cup Cells]
    \* The generator's constructor: file.open(reportPath) may fail; if it
    \* does not, writeHeader().
    /\ \E ok \in BOOLEAN :
           /\ gen = [st |-> IF ok THEN "open" ELSE "failed", elements |-> <<>>, writes |-> 0]
           /\ file = IF ok THEN <<[part |-> "header"]>> ELSE <<>>

\* setHeader(): copyStringVectorAndComplete into the existing header.
SetHeader(t, h) ==
    /\ table' = [table EXCEPT ![t].header = CopyStringVectorAndComplete(h, @, table[t].cols)]
    /\ given' = [given EXCEPT !.tab[t].header = h]
    /\ UNCHANGED <<normal, images, gen, file>>

\* addRow(): content.emplace_back(), then copy into that new empty row.
AddRow(t, r) ==
    /\ Len(table[t].content) < MaxRows
    /\ table' = [table EXCEPT ![t].content =
                     Append(@, CopyStringVectorAndComplete(r, NoCells, table[t].cols))]
    /\ given' = [given EXCEPT !.tab[t].rows = Append(@, r)]
    /\ UNCHANGED <<normal, images, gen, file>>

SetInterlaceColor(t, b) ==
    /\ table' = [table EXCEPT ![t].interlace = b]
    /\ UNCHANGED <<normal, images, gen, file, given>>

\* addImage(): push_back of the path, the caption and the scale string.
AddImage(i, p, c, w, h) ==
    /\ Len(images[i].scales) < MaxImages
    /\ images' = [images EXCEPT ![i] = [paths    |-> Append(@.paths, p),
                                         captions |-> Append(@.captions, c),
                                         scales   |-> Append(@.scales, Scale(w, h))]]
    /\ given' = [given EXCEPT !.img[i] = Append(@, Scale(w, h))]
    /\ UNCHANGED <<normal, table, gen, file>>

\* clearImage(): clears imagePaths and imageCaptions.
ClearImage(i) ==
    /\ images' = [images EXCEPT ![i].paths = <<>>, ![i].captions = <<>>]
    /\ given' = [given EXCEPT !.img[i] = <<>>]
    /\ UNCHANGED <<normal, table, gen, file>>

\* setContent(): content = newContent.
SetContent(n, c) ==
    /\ normal' = [normal EXCEPT ![n] = c]
    /\ UNCHANGED <<table, images, gen, file, given>>

(***************************************************************************)
(* The generator.                                                          *)
(***************************************************************************)

\* addReportElement(): contentElements.push_back(elment), a shared_ptr, so
\* a later change of the item shows in a later doWrite().
AddReportElement(x) ==
    /\ gen.st # "closed"
    /\ Len(gen.elements) < MaxElements
    /\ gen' = [gen EXCEPT !.elements = Append(@, x)]
    /\ UNCHANGED <<normal, table, images, file, given>>

\* doWrite(): false on a file that did not open, else writeContent(): the
\* title, then every element's toHTMLString() as it is now, in order, and
\* true.  The file records which elements a write put out; what each
\* renders is the item at that step.  A stream insertion may fail (disk
\* full): the stream's badbit stays set, the elements after it are not
\* written, and doWrite() returns true all the same.
DoWrite ==
    /\ gen.st # "closed"
    /\ gen.writes < MaxWrites
    /\ gen' = [gen EXCEPT !.writes = @ + 1]
    /\ \/ /\ gen.st = "open"
          /\ file' = Append(file, [part |-> "content", elems |-> gen.elements, complete |-> TRUE])
       \/ /\ gen.st = "failed"
          /\ UNCHANGED file
    /\ UNCHANGED <<normal, table, images, given>>

\* writeContent() with the k-th insertion failing, k in 0..|elements|:
\* the first k elements reach the file and the stream goes bad.
DoWriteFails ==
    /\ gen.st = "open"
    /\ gen.writes < MaxWrites
    /\ \E k \in 0..Len(gen.elements) :
           file' = Append(file, [part |-> "content", elems |-> SubSeq(gen.elements, 1, k), complete |-> FALSE])
    /\ gen' = [gen EXCEPT !.writes = @ + 1, !.st = "failed"]
    /\ UNCHANGED <<normal, table, images, given>>

\* Mutant: the destructor without the if (!file) check.
DestroyUnchecked ==
    /\ gen.st # "closed"
    /\ gen' = [gen EXCEPT !.st = "closed"]
    /\ file' = Append(file, [part |-> "tail"])
    /\ UNCHANGED <<normal, table, images, given>>

\* The destructor: writetail() and close() if the file is open.
Destroy ==
    /\ gen.st # "closed"
    /\ gen' = [gen EXCEPT !.st = "closed"]
    /\ file' = IF gen.st = "open" THEN Append(file, [part |-> "tail"]) ELSE file
    /\ UNCHANGED <<normal, table, images, given>>

Next ==
    \/ \E t \in Tables :
           \/ \E h \in Lines : SetHeader(t, h)
           \/ \E r \in Lines : AddRow(t, r)
           \/ \E b \in BOOLEAN : SetInterlaceColor(t, b)
    \/ \E i \in Images :
           \/ \E p, c \in Cells, w, h \in Widths : AddImage(i, p, c, w, h)
           \/ ClearImage(i)
    \/ \E n \in Normals, c \in Cells : SetContent(n, c)
    \/ \E x \in Items : AddReportElement(x)
    \/ DoWrite
    \/ DoWriteFails
    \/ Destroy

Spec == Init /\ [][Next]_vars

-----------------------------------------------------------------------------
TypeOK ==
    /\ \A t \in Tables : table[t].cols \in Nat /\ table[t].header.size \in Nat
    /\ normal \in [Normals -> {Empty} \cup Cells]
    /\ gen.st \in {"open", "failed", "closed"}
    /\ gen.elements \in Seq(Items) /\ gen.writes \in 0..MaxWrites

\* A row as the caller gave it, cut or padded with empty cells to n.
AsGiven(line, n) == [c \in 1..n |-> IF c <= Len(line) THEN line[c] ELSE Empty]

(***************************************************************************)
(* Every row a table renders is the row the constructor or addRow() was    *)
(* given, cut to cols or padded with empty cells: copyStringVectorAndComplete *)
(* copies every cell it keeps and rows never share storage.                *)
(***************************************************************************)
RowsAsGiven ==
    \A t \in Tables :
        IsValid(table[t]) =>
            \A r \in DOMAIN table[t].content :
                TableHTML(table[t]).rows[r].cells = AsGiven(given.tab[t].rows[r], table[t].cols)

(***************************************************************************)
(* What is rendered is what was last set: a table's header cells are the  *)
(* header last given to the constructor or setHeader(), cut or padded, and *)
(* every image is shown with the scale addImage() was given with it.       *)
(***************************************************************************)
RenderedAsGiven ==
    /\ \A t \in Tables :
           IsValid(table[t]) => TableHTML(table[t]).head = AsGiven(given.tab[t].header, table[t].cols)
    /\ \A i \in Images :
           ImagesHTML(images[i]) # Empty =>
               \A k \in DOMAIN images[i].paths : ImagesHTML(images[i])[k].scale = given.img[i][k]

(***************************************************************************)
(* A report file that ends with the closing tags is a whole report: the    *)
(* destructor writes writetail() only while the stream is good, so a file  *)
(* whose header failed to open or whose writeContent() lost elements to a  *)
(* failed insertion never gets the tail, and every content block of a      *)
(* file with the tail holds all the elements of its doWrite().             *)
(***************************************************************************)
TailOnlyOnWholeReport ==
    (file # <<>> /\ Last(file).part = "tail") =>
        /\ file[1].part = "header"
        /\ \A w \in 2..Len(file) - 1 : file[w].complete
====
