---------------------------- MODULE ReceiptScan -----------------------------
(***************************************************************************)
(* The panel that turns one photo of several receipts into actuals         *)
(* (ReceiptScanPanel.tsx, with the commands of src-tauri/src/receipts.rs): *)
(* boxes around the receipts, a row to review per box, the rows added as   *)
(* actuals with their evidence, and undo.                                  *)
(*                                                                         *)
(* Scans, adds and undos wait for the host between any two steps, go on    *)
(* from the rows or ids they saw when they were started, and all reset the *)
(* one busy flag when they end.  Undo is offered while others run.         *)
(***************************************************************************)
EXTENDS Integers, Sequences, FiniteSets, TLC

Ext == INSTANCE SequencesExt

CONSTANTS
  Photo,       \* photos: width, height and blobs, the light regions in them
  MinSide,     \* the smallest side a box is dragged to (20)
  Drags,       \* how far a corner is dragged in one go
  Task,        \* scans, adds and undos that may run at a time
  None,
  MaxPicks, MaxBoxes, MaxEdits, MaxScans, MaxActuals   \* bounds

Blob(p) == [x0 : 0 .. p.w - 1, x1 : 0 .. p.w - 1, y0 : 0 .. p.h - 1, y1 : 0 .. p.h - 1, area : Nat]

ASSUME PhotoAssumption ==
  \A p \in Photo : p.w \in Nat \ {0} /\ p.h \in Nat \ {0} /\ p.blobs \in Seq(Blob(p))
ASSUME BoundAssumption == MinSide \in Nat /\ Drags \subseteq Int /\ MaxActuals \in Nat
ASSUME NoneAssumption == None \notin Nat

VARIABLES
  composite,   \* the photo shown, or None
  reading,     \* the photos being read from their files: how often
  segmenting,  \* the photos being segmented: how often
  dims,        \* the photo the boxes were made for
  boxes,
  step,        \* "pick", "boxes" or "review"
  rows,        \* the rows under review
  busy,
  addedIds,    \* what undo is to take back
  task,        \* what is running, or Idle
  books,       \* actuals this panel recorded, with the row each is of
  evidence,    \* actuals with an attachment; one left behind by an actual is not looked at
  edits, scans, issued,   \* counters
  overlapped   \* history: adds or undos ran at the same time, or a removal failed

panel == <<composite, reading, segmenting, dims, boxes, step>>
vars == <<panel, rows, busy, addedIds, task, books, evidence, edits, scans, issued, overlapped>>

----------------------------------------------------------------------------
Smaller(a, b) == IF a < b THEN a ELSE b
Larger(a, b) == IF a > b THEN a ELSE b

\* A blob's box with a little padding, inside the frame.
Padded(blob, p) ==
  LET bw == blob.x1 - blob.x0 + 1
      bh == blob.y1 - blob.y0 + 1
      nx == Larger(0, blob.x0 - bw \div 20)
      ny == Larger(0, blob.y0 - bh \div 20)
  IN  [x |-> nx, y |-> ny, w |-> Smaller(bw + 2 * (bw \div 20), p.w - nx),
       h |-> Smaller(bh + 2 * (bh \div 20), p.h - ny)]

\* Blobs as large as a receipt, but not the whole frame.
LooksLikeReceipt(blob, p) ==
  /\ blob.area >= Larger((p.w * p.h) \div 40, 1)
  /\ (blob.x1 - blob.x0 + 1) * (blob.y1 - blob.y0 + 1) =< (p.w * p.h * 9) \div 10

\* Reading order.
ReadBefore(p, a, b) ==
  LET band(box) == box.y \div Larger(p.h \div 8, 1)
  IN  band(a) < band(b) \/ (band(a) = band(b) /\ a.x < b.x)

\* segment: the blobs are kept by label in a hash map, so that boxes which are
\* equal in reading order come in any order.
Segmentations(p) ==
  LET found == {i \in DOMAIN p.blobs : LooksLikeReceipt(p.blobs[i], p)}
  IN  {bs \in {[i \in DOMAIN list |-> Padded(p.blobs[list[i]], p)] : list \in Ext!SetToSeqs(found)} :
        \A i, j \in DOMAIN bs : i < j => ~ ReadBefore(p, bs[j], bs[i])}

\* centeredBox, Math.round being towards the larger on a half.
CenteredBox(p) ==
  LET Tenths(n, of) == (2 * n * of + 10) \div 20
  IN  [x |-> Tenths(3, p.w), y |-> Tenths(3, p.h), w |-> Tenths(4, p.w), h |-> Tenths(4, p.h)]

\* Faulty variant: the box is taken as it is.
CropUnclamped(box, p) == box

\* crop_png: what is cut out of the photo, at least a pixel of it.
Crop(box, p) ==
  LET x == Smaller(box.x, p.w - 1)
      y == Smaller(box.y, p.h - 1)
  IN  [x |-> x, y |-> y, w |-> Larger(Smaller(box.w, p.w - x), 1),
       h |-> Larger(Smaller(box.h, p.h - y), 1)]

----------------------------------------------------------------------------
Idle == [kind |-> "idle"]

Init ==
  /\ composite = None /\ dims = None /\ boxes = <<>> /\ step = "pick"
  /\ reading = [p \in Photo |-> 0] /\ segmenting = [p \in Photo |-> 0]
  /\ rows = <<>> /\ busy = FALSE /\ addedIds = {}
  /\ task = [t \in Task |-> Idle]
  /\ books = <<>> /\ evidence = {}
  /\ edits = 0 /\ scans = 0 /\ issued = 0
  /\ overlapped = FALSE

Review == UNCHANGED <<rows, addedIds, task, books, evidence, scans, issued, overlapped>>

\* onFile: a photo is chosen, and read from its file.
ChoosePhoto(p) ==
  /\ step = "pick" /\ reading[p] + segmenting[p] < MaxPicks
  /\ reading' = [reading EXCEPT ![p] = @ + 1]
  /\ UNCHANGED <<composite, segmenting, dims, boxes, step, busy, edits>> /\ Review

\* reader.onload, at whatever step the panel is by then: the photo is shown at
\* once, its boxes come when they are found.
PhotoRead(p) ==
  /\ reading[p] > 0
  /\ reading' = [reading EXCEPT ![p] = @ - 1]
  /\ composite' = p
  /\ segmenting' = [segmenting EXCEPT ![p] = @ + 1]
  /\ busy' = TRUE
  /\ UNCHANGED <<dims, boxes, step, edits>> /\ Review

Segmented(p, found) ==
  /\ segmenting[p] > 0
  /\ segmenting' = [segmenting EXCEPT ![p] = @ - 1]
  /\ dims' = p
  /\ boxes' = IF found = <<>> THEN <<CenteredBox(p)>> ELSE found
  /\ step' = "boxes"
  /\ busy' = FALSE
  /\ UNCHANGED <<composite, reading, edits>> /\ Review

SegmentFails(p) ==
  /\ segmenting[p] > 0
  /\ segmenting' = [segmenting EXCEPT ![p] = @ - 1]
  /\ busy' = FALSE
  /\ UNCHANGED <<composite, reading, dims, boxes, step, edits>> /\ Review

EditBoxes(bs) ==
  /\ step = "boxes" /\ edits < MaxEdits
  /\ edits' = edits + 1
  /\ boxes' = bs
  /\ UNCHANGED <<composite, reading, segmenting, dims, step, busy>> /\ Review

AddBox == Len(boxes) < MaxBoxes /\ EditBoxes(Append(boxes, CenteredBox(dims)))
RemoveBox(i) == EditBoxes(Ext!RemoveAt(boxes, i))

\* onPointerMove: a box stays in the frame, its sides do not get too short.
MoveBox(i, dx, dy) ==
  EditBoxes([boxes EXCEPT ![i] =
    [x |-> Larger(0, Smaller(dims.w - @.w, @.x + dx)),
     y |-> Larger(0, Smaller(dims.h - @.h, @.y + dy)), w |-> @.w, h |-> @.h]])
ResizeBox(i, dx, dy) ==
  EditBoxes([boxes EXCEPT ![i] =
    [x |-> @.x, y |-> @.y, w |-> Larger(MinSide, Smaller(dims.w - @.x, @.w + dx)),
     h |-> Larger(MinSide, Smaller(dims.h - @.y, @.h + dy))]])

BackToBoxes ==
  /\ step = "review"
  /\ step' = "boxes"
  /\ UNCHANGED <<composite, reading, segmenting, dims, boxes, busy, edits>> /\ Review

----------------------------------------------------------------------------
\* A ScanRow: the i-th of the n-th scan, and what became of it.  A box that is
\* scanned again is another row.
Row(n, i, read) ==
  [of |-> <<n, i>>, selected |-> read, addedId |-> None, error |-> ~ read]

Running(kind) == {t \in Task : task[t].kind = kind}
Start(t, what) == task[t] = Idle /\ task' = [task EXCEPT ![t] = what] /\ busy' = TRUE
Ends(t) == task' = [task EXCEPT ![t] = Idle]

\* scan: every box of the photo as they are now.
StartScan(t) ==
  /\ step = "boxes" /\ ~ busy /\ boxes # <<>> /\ scans < MaxScans
  /\ Start(t, [kind |-> "scan", n |-> scans + 1, boxes |-> Len(boxes)])
  /\ scans' = scans + 1
  /\ UNCHANGED <<panel, rows, addedIds, books, evidence, edits, issued, overlapped>>

\* Each receipt is read, or its row is in error.
FinishScan(t, read) ==
  /\ t \in Running("scan")
  /\ DOMAIN read = 1 .. task[t].boxes
  /\ rows' = [i \in DOMAIN read |-> Row(task[t].n, i, read[i])]
  /\ step' = "review"
  /\ busy' = FALSE
  /\ Ends(t)
  /\ UNCHANGED <<composite, reading, segmenting, dims, boxes, addedIds, books, evidence, edits,
                 scans, issued, overlapped>>

\* The actuals cannot be loaded: busy is never reset.
ScanThrows(t) ==
  /\ t \in Running("scan")
  /\ Ends(t)
  /\ UNCHANGED <<panel, rows, busy, addedIds, books, evidence, edits, scans, issued, overlapped>>

\* A row is ticked or not.  Its fields may be edited at any time, too: whether
\* they can be an actual's is left open.
SelectRow(i, selected) ==
  /\ step = "review" /\ ~ rows[i].error /\ rows[i].addedId = None /\ edits < MaxEdits
  /\ edits' = edits + 1
  /\ rows' = [rows EXCEPT ![i].selected = selected]
  /\ UNCHANGED <<panel, busy, addedIds, task, books, evidence, scans, issued, overlapped>>

----------------------------------------------------------------------------
\* Faulty variant: rows in error are tried again.
ToAddAgain(rs) == {i \in DOMAIN rs : rs[i].selected /\ rs[i].addedId = None}

\* The rows addSelected goes through, from the first to the last.
ToAdd(rs) == {i \in DOMAIN rs : rs[i].selected /\ rs[i].addedId = None /\ ~ rs[i].error}

\* setRow: no row has the key if there are fewer now.
SetRow(i, field, value) ==
  rows' = IF i \in DOMAIN rows THEN [rows EXCEPT ![i][field] = value] ELSE rows

\* addSelected, on the rows as they are now.
StartAdd(t) ==
  /\ step = "review" /\ ~ busy
  /\ Start(t, [kind |-> "add", rows |-> rows, todo |-> ToAdd(rows), id |-> None, ids |-> {}])
  /\ overlapped' = (overlapped \/ Running("add") \union Running("undo") # {})
  /\ UNCHANGED <<panel, rows, addedIds, books, evidence, edits, scans, issued>>

Adding(t) == t \in Running("add") /\ task[t].todo # {}
Adds(t) == Ext!Min(task[t].todo)

\* On to the next row.
Proceeds(t, ids) ==
  task' = [task EXCEPT ![t].todo = @ \ {Adds(t)}, ![t].id = None, ![t].ids = @ \union ids]

\* An invalid row is flagged, and so is one whose actual is refused.
RowFails(t) ==
  /\ Adding(t) /\ task[t].id = None
  /\ SetRow(Adds(t), "error", TRUE)
  /\ Proceeds(t, {})
  /\ UNCHANGED <<panel, busy, addedIds, books, evidence, edits, scans, issued, overlapped>>

RecordActual(t) ==
  /\ Adding(t) /\ task[t].id = None /\ issued < MaxActuals
  /\ issued' = issued + 1
  /\ books' = [x \in DOMAIN books \union {issued + 1} |->
                IF x = issued + 1 THEN task[t].rows[Adds(t)].of ELSE books[x]]
  /\ task' = [task EXCEPT ![t].id = issued + 1]
  /\ UNCHANGED <<panel, rows, busy, addedIds, evidence, edits, scans, overlapped>>

\* The photo and the crop are kept with the actual, and the row is added.
SaveAttachment(t) ==
  /\ Adding(t) /\ task[t].id # None
  /\ evidence' = evidence \union {task[t].id}
  /\ SetRow(Adds(t), "addedId", task[t].id)
  /\ Proceeds(t, {task[t].id})
  /\ UNCHANGED <<panel, busy, addedIds, books, edits, scans, issued, overlapped>>

\* They cannot be kept: the row is in error, the actual stays.
AttachmentFails(t) ==
  /\ Adding(t) /\ task[t].id # None
  /\ SetRow(Adds(t), "error", TRUE)
  /\ Proceeds(t, {})
  /\ UNCHANGED <<panel, busy, addedIds, books, evidence, edits, scans, issued, overlapped>>

\* Faulty variant: undo is only told of the last ones.
FinishAddForgets(t) ==
  /\ t \in Running("add") /\ task[t].todo = {}
  /\ addedIds' = task[t].ids
  /\ task' = [task EXCEPT ![t] = [kind |-> "refresh"]]
  /\ UNCHANGED <<panel, rows, busy, books, evidence, edits, scans, issued, overlapped>>

FinishAdd(t) ==
  /\ t \in Running("add") /\ task[t].todo = {}
  /\ addedIds' = addedIds \union task[t].ids
  /\ task' = [task EXCEPT ![t] = [kind |-> "refresh"]]
  /\ UNCHANGED <<panel, rows, busy, books, evidence, edits, scans, issued, overlapped>>

----------------------------------------------------------------------------
\* undo, offered for as long as a row is marked as added: all ids known now, in
\* whatever order.
StartUndo(t) ==
  /\ step = "review" /\ \E i \in DOMAIN rows : rows[i].addedId # None
  /\ Start(t, [kind |-> "undo", todo |-> addedIds, gone |-> {}])
  /\ overlapped' = (overlapped \/ Running("add") \union Running("undo") # {})
  /\ UNCHANGED <<panel, rows, addedIds, books, evidence, edits, scans, issued>>

\* An actual and its evidence are taken back; a failure of either is ignored.
UndoOne(t, id, removed, detached) ==
  /\ t \in Running("undo") /\ id \in task[t].todo
  /\ books' = IF removed THEN [x \in DOMAIN books \ {id} |-> books[x]] ELSE books
  /\ evidence' = IF removed \/ detached THEN evidence \ {id} ELSE evidence
  /\ task' = [task EXCEPT ![t].todo = @ \ {id}, ![t].gone = @ \union {id}]
  /\ overlapped' = (overlapped \/ ~ removed)
  /\ UNCHANGED <<panel, rows, busy, addedIds, edits, scans, issued>>

FinishUndo(t) ==
  /\ t \in Running("undo") /\ task[t].todo = {}
  /\ rows' = [i \in DOMAIN rows |-> [rows[i] EXCEPT !.addedId = None]]
  /\ addedIds' = {}
  /\ task' = [task EXCEPT ![t] = [kind |-> "refresh"]]
  /\ UNCHANGED <<panel, busy, books, evidence, edits, scans, issued, overlapped>>

\* Adds and undos end with a refresh; if it throws, busy is never reset.
Refreshed(t) ==
  /\ t \in Running("refresh")
  /\ Ends(t)
  /\ busy' = FALSE
  /\ UNCHANGED <<panel, rows, addedIds, books, evidence, edits, scans, issued, overlapped>>
RefreshThrows(t) ==
  /\ t \in Running("refresh")
  /\ Ends(t)
  /\ UNCHANGED <<panel, rows, busy, addedIds, books, evidence, edits, scans, issued, overlapped>>

Next ==
  \/ \E p \in Photo :
       \/ ChoosePhoto(p) \/ PhotoRead(p) \/ SegmentFails(p)
       \/ \E found \in Segmentations(p) : Segmented(p, found)
  \/ AddBox \/ BackToBoxes
  \/ \E i \in DOMAIN boxes :
       \/ RemoveBox(i)
       \/ \E dx, dy \in Drags : MoveBox(i, dx, dy) \/ ResizeBox(i, dx, dy)
  \/ \E i \in DOMAIN rows, b \in BOOLEAN : SelectRow(i, b)
  \/ \E t \in Task :
       \/ StartScan(t) \/ ScanThrows(t)
       \/ \E n \in 1 .. MaxBoxes : \E read \in [1 .. n -> BOOLEAN] :
            FinishScan(t, read)
       \/ StartAdd(t) \/ RowFails(t) \/ RecordActual(t) \/ SaveAttachment(t)
       \/ AttachmentFails(t) \/ FinishAdd(t)
       \/ StartUndo(t) \/ FinishUndo(t)
       \/ \E id \in addedIds \union DOMAIN books, removed, detached \in BOOLEAN :
            UndoOne(t, id, removed, detached)
       \/ Refreshed(t) \/ RefreshThrows(t)

Spec == Init /\ [][Next]_vars

----------------------------------------------------------------------------
InFrame(crop, p) ==
  /\ crop.x >= 0 /\ crop.y >= 0 /\ crop.w >= 1 /\ crop.h >= 1
  /\ crop.x + crop.w =< p.w /\ crop.y + crop.h =< p.h

\* What a scan would cut out is in the photo, though the box may be one of
\* another photo, or reach over the edge (receipts.rs:217, "clamped to bounds").
TypeOK ==
  /\ step \in {"pick", "boxes", "review"}
  /\ {busy, overlapped} \subseteq BOOLEAN
  /\ issued \in 0 .. MaxActuals
  /\ DOMAIN books \subseteq 1 .. issued
  /\ addedIds \subseteq 1 .. issued /\ evidence \subseteq 1 .. issued
  /\ composite # None => \A i \in DOMAIN boxes : InFrame(Crop(boxes[i], composite), composite)
  /\ \A i \in DOMAIN rows : rows[i].addedId \in {None} \union (1 .. issued)

\* A row that is marked as added can be undone and has its actual and its
\* evidence, unless an undo that is running has been there; however adds, undos
\* and scans overlap (addSelected and undo, ReceiptScanPanel.tsx:257-297).
AddedRowsCanBeUndone ==
  \A i \in DOMAIN rows :
    LET id == rows[i].addedId
    IN  id # None =>
          /\ id \in addedIds \union UNION {task[t].ids : t \in Running("add")}
          /\ \/ id \in DOMAIN books /\ id \in evidence
             \/ \E t \in Running("undo") : id \in task[t].gone

\* No row of a scan is recorded twice in the books, however often rows are
\* added, their evidence fails and adds are undone, as long as no add or undo
\* overlapped another and every removal went through (ReceiptScanPanel.tsx:255).
\* The same box scanned again is another row, and may be recorded again: the
\* panel only warns (ReceiptScanPanel.tsx:200).
RecordedOnce ==
  ~ overlapped => \A x, y \in DOMAIN books : books[x] = books[y] => x = y
=============================================================================
