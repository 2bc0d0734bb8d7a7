------------------------------ MODULE RichMenu ------------------------------
(* One rich menu: the template row administrators edit, the image files       *)
(* behind it, and the menus, the default and the alias on LINE.               *)
(* A request is one call of the back office; between two of its awaited calls *)
(* any other request may run. A section under withTemplateLock is one action, *)
(* because the lock is a row lock of the transaction that writes the row.     *)
EXTENDS Naturals, FiniteSets, Sequences

CONSTANTS
    Requests,    \* requests that may run at the same time
    Sizes,       \* canvas sizes LINE accepts
    Grids,       \* cell layouts, each the number of its cells
    MaxOps,      \* bound: operations begun
    MaxFaults,   \* bound: calls that fail or are not acknowledged
    MaxRounds    \* RECOMPOSITE_ATTEMPTS

ASSUME BoundsAssumption ==
    /\ Sizes \subseteq Nat \ {0} /\ \E s \in Sizes : \A z \in Sizes : z <= s
    /\ Grids \subseteq Nat \ {0} /\ 1 \in Grids
    /\ MaxOps \in Nat /\ MaxFaults \in Nat /\ MaxRounds \in Nat \ {0}

VARIABLES
    row,         \* the row of richMenuTemplate
    file,        \* stored files, oldest first: what each shows
    menu,        \* menus created on LINE, oldest first: what each shows
    default,     \* LINE's default menu, 0 for none
    alias,       \* the menu the template's alias points at
    linked,      \* the menu linked to a customer
    req,         \* request -> program counter and locals
    ops, faults,
    takenDown,   \* history: menus an administrator deleted on LINE
    broken       \* history: an edit lost its rebuild or its acknowledgement

line == <<menu, default, alias, linked>>
vars == <<row, file, line, req, ops, faults, takenDown, broken>>

None == 0
Gone == [kind |-> "gone"]
Cells == UNION {1 .. g : g \in Grids}
NoCells == [i \in Cells |-> None]

Full(s) == [kind |-> "full", size |-> s]
CellArt(r) == [kind |-> "cell", size |-> r.size, grid |-> r.grid]
Composite(r) ==
    [kind |-> "composite", size |-> r.size, grid |-> r.grid, cells |-> r.cells]
\* What a menu made from a row shows: its areas and its image.
Shown(r) == [size |-> r.size, grid |-> r.grid, image |-> r.image]

Idle == [pc |-> "idle", op |-> "none", arg |-> None, snap |-> None, new |-> None,
         clear |-> FALSE, round |-> 1]

\* A template has one cell at first; when a run begins it may have a full image
\* or one composed cell, and may be on LINE.
Init ==
    \E image \in {"none", "full", "cell"}, live \in BOOLEAN, def \in BOOLEAN :
      LET s == CHOOSE s \in Sizes : \A z \in Sizes : z <= s
          drawn == [exists |-> TRUE, size |-> s, grid |-> 1,
                    cells |-> [NoCells EXCEPT ![1] = IF image = "cell" THEN 1 ELSE None],
                    image |-> IF image = "none" THEN None ELSE 2,
                    lineId |-> IF live THEN 1 ELSE None,
                    isDefault |-> live /\ def, needsRepublish |-> FALSE]
      IN  /\ image = "none" => ~live
          /\ row = drawn
          /\ file = << IF image = "cell" THEN CellArt(drawn) ELSE Gone,
                       CASE image = "none" -> Gone
                         [] image = "full" -> Full(s)
                         [] OTHER -> Composite(drawn) >>
          /\ menu = IF live THEN << Shown(drawn) >> ELSE << >>
          /\ default = IF live /\ def THEN 1 ELSE None
          /\ alias = IF live THEN 1 ELSE None
          /\ linked = None
          /\ req = [r \in Requests |-> Idle]
          /\ ops = 0 /\ faults = 0 /\ takenDown = {} /\ broken = FALSE

Begin(r, op, arg) ==
    /\ req[r].pc = "idle" /\ ops < MaxOps
    /\ ops' = ops + 1
    /\ req' = [req EXCEPT ![r] = [Idle EXCEPT !.pc = "begin", !.op = op, !.arg = arg]]
    /\ UNCHANGED <<row, file, line, faults, takenDown, broken>>

\* The operations of the controller, with what distinguishes their arguments.
BeginAny(r) ==
    \/ \E op \in {"upload", "publish", "publishDefault", "setDefault", "clearDefault",
                  "remove", "link", "unlink"} : Begin(r, op, None)
    \/ \E g \in Grids : Begin(r, "layout", g)
    \/ \E s \in Sizes : Begin(r, "size", s)
    \/ \E i \in Cells : Begin(r, "cell", i) \/ Begin(r, "uncell", i)
    \/ \E m \in 1 .. Len(menu) : Begin(r, "orphan", m)

At(r, pc) == req[r].pc = pc
Go(r, pc) == req' = [req EXCEPT ![r].pc = pc]
Done(r) == req' = [req EXCEPT ![r] = Idle]
Fault == faults < MaxFaults /\ faults' = faults + 1
NoFault == UNCHANGED faults
Live(m) == m \in 1 .. Len(menu) /\ menu[m] # Gone
Stored(f) == f # None /\ file[f] # Gone
Delete(fs) == file' = [f \in 1 .. Len(file) |-> IF f \in fs THEN Gone ELSE file[f]]
CellFiles(r) == {r.cells[i] : i \in Cells} \ {None}
\* needsRepublish of an edit: set once the template is on LINE.
Edited(r) == [r EXCEPT !.needsRepublish = @ \/ (r.lineId # None)]

-----------------------------------------------------------------------------
(* Editing                                                                    *)

\* findOrThrow: the row is gone.
NotFound(r) ==
    /\ At(r, "begin") /\ req[r].op \notin {"clearDefault", "unlink", "orphan"}
    /\ ~row.exists
    /\ Done(r)
    /\ UNCHANGED <<row, file, line, ops, faults, takenDown, broken>>

\* uploadImage and uploadCellImage store the file before they take the lock.
StoreUpload(r) ==
    /\ At(r, "begin") /\ row.exists /\ req[r].op \in {"upload", "cell"}
    /\ req[r].op = "cell" => req[r].arg <= row.grid
    /\ file' = Append(file, IF req[r].op = "upload" THEN Full(row.size) ELSE CellArt(row))
    /\ req' = [req EXCEPT ![r].pc = "save", ![r].new = Len(file) + 1]
    /\ UNCHANGED <<row, line, ops, faults, takenDown, broken>>

\* The upload is refused: no such cell, or the storage fails.
UploadRefused(r) ==
    /\ At(r, "begin") /\ row.exists /\ req[r].op \in {"upload", "cell"}
    /\ IF req[r].op = "cell" /\ req[r].arg > row.grid THEN NoFault ELSE Fault
    /\ Done(r)
    /\ UNCHANGED <<row, file, line, ops, takenDown, broken>>

\* Under the lock the upload still has the size of the menu or of its cell.
Fits(r) ==
    IF req[r].op = "upload" THEN file[req[r].new] = Full(row.size)
    ELSE req[r].arg <= row.grid /\ file[req[r].new] = CellArt(row)

\* saveImageLocked, saveCellImageLocked, removeCellImageLocked, updateLocked:
\* the row they save. The areas of an update fit its size.
ImageSaved(r) == [row EXCEPT !.image = req[r].new, !.cells = NoCells]
CellSaved(r) == [row EXCEPT !.cells[req[r].arg] = req[r].new]
CellRemoved(r) == [row EXCEPT !.cells[req[r].arg] = None]
Resized(r) == [row EXCEPT !.size = req[r].arg]

\* applyLayoutLocked: a smaller grid drops the cells beyond it.
LaidOut(r) ==
    [row EXCEPT !.grid = req[r].arg,
                !.cells = [i \in Cells |-> IF i <= req[r].arg THEN row.cells[i] ELSE None]]

SavedRow(r) ==
    CASE req[r].op = "upload" -> ImageSaved(r)
      [] req[r].op = "cell"   -> CellSaved(r)
      [] req[r].op = "uncell" -> CellRemoved(r)
      [] req[r].op = "size"   -> Resized(r)
      [] req[r].op = "layout" -> LaidOut(r)

\* The transaction of an edit: the replaced files are deleted after the commit, by which
\* time no row names them. Then everything but a full image is recomposed.
SaveEdit(r) ==
    /\ \/ At(r, "save") /\ Fits(r)
       \/ At(r, "begin") /\ req[r].op \in {"size", "layout"}
       \/ At(r, "begin") /\ req[r].op = "uncell" /\ row.cells[req[r].arg] # None
    /\ row.exists
    /\ row' = Edited(SavedRow(r))
    /\ Delete((CellFiles(row) \ CellFiles(row'))
              \cup IF req[r].op = "upload" THEN {row.image} ELSE {})
    /\ IF req[r].op = "upload" THEN Done(r)
       ELSE req' = [req EXCEPT ![r].pc = "snapshot", ![r].new = None,
                      ![r].clear = \/ req[r].op = "uncell"
                                   \/ req[r].op = "layout" /\ CellFiles(row) # {}]
    /\ UNCHANGED <<line, ops, faults, takenDown, broken>>

\* The edit is refused under the lock, or its transaction fails: the stored
\* upload is deleted again.
SaveRefused(r) ==
    /\ \/ At(r, "save") /\ (~row.exists \/ ~Fits(r)) /\ NoFault
       \/ At(r, "begin") /\ row.exists /\ req[r].op = "uncell"
          /\ row.cells[req[r].arg] = None /\ NoFault
       \/ At(r, "save") /\ Fault
    /\ Delete({req[r].new})
    /\ Done(r)
    /\ UNCHANGED <<row, line, ops, takenDown, broken>>

\* The transaction commits but the caller sees an error, and deletes the file
\* that the row now names.
SaveUnacknowledged(r) ==
    /\ At(r, "save") /\ row.exists /\ Fits(r) /\ Fault
    /\ row' = Edited(SavedRow(r))
    /\ Delete({req[r].new})
    /\ broken' = TRUE
    /\ Done(r)
    /\ UNCHANGED <<line, ops, takenDown>>

NothingToCompose(r) == CellFiles(row) = {} /\ (~req[r].clear \/ row.image = None)

\* recomposite: read the row, flatten its cells, store the result. A request
\* that removed the last cell stores nothing and clears the image.
Snapshot(r) ==
    /\ At(r, "snapshot") /\ row.exists /\ ~NothingToCompose(r)
    /\ req' = [req EXCEPT ![r].pc = "compose", ![r].snap = row]
    /\ UNCHANGED <<row, file, line, ops, faults, takenDown, broken>>

Compose(r) ==
    LET cells == CellFiles(req[r].snap) IN
    /\ At(r, "compose") /\ \A f \in cells : Stored(f)
    /\ file' = IF cells = {} THEN file ELSE Append(file, Composite(req[r].snap))
    /\ req' = [req EXCEPT ![r].pc = "swap",
                          ![r].new = IF cells = {} THEN None ELSE Len(file) + 1]
    /\ UNCHANGED <<row, line, ops, faults, takenDown, broken>>

\* The rebuild ends without an image: nothing to compose, the row is gone, or a
\* cell of the snapshot was replaced and its file deleted meanwhile.
RebuildEnds(r) ==
    /\ \/ At(r, "snapshot") /\ (~row.exists \/ NothingToCompose(r))
       \/ At(r, "compose") /\ \E f \in CellFiles(req[r].snap) : ~Stored(f)
    /\ Done(r)
    /\ UNCHANGED <<row, file, line, ops, faults, takenDown, broken>>

\* Storage fails, the image cannot be squeezed under the limit, or the process
\* dies: the edit stays without its rebuild.
RebuildFails(r) ==
    /\ At(r, "compose") /\ Fault
    /\ broken' = TRUE
    /\ Done(r)
    /\ UNCHANGED <<row, file, line, ops, takenDown>>

\* (Mutant) Only the canvas is compared, not the cells.
ComposesOnSameCanvas(a, b) == a.size = b.size /\ a.grid = b.grid

ComposesSameAs(a, b) == Composite(a) = Composite(b)

Swappable(r) == row.exists /\ ComposesSameAs(row, req[r].snap) /\ row.image = req[r].snap.image

\* (Mutant) The discard of an unused image also runs after a swap.
SwapAndDiscard(r) ==
    /\ At(r, "swap") /\ Swappable(r)
    /\ row' = [row EXCEPT !.image = req[r].new]
    /\ Delete({row.image, req[r].new})
    /\ Done(r)
    /\ UNCHANGED <<line, ops, faults, takenDown, broken>>

\* swapCompositeLocked.
Swap(r) ==
    /\ At(r, "swap") /\ Swappable(r)
    /\ row' = [row EXCEPT !.image = req[r].new]
    /\ Delete({row.image})
    /\ Done(r)
    /\ UNCHANGED <<line, ops, faults, takenDown, broken>>

\* The cells changed: start over, at most MaxRounds times. With the same cells
\* but another image, another request has stored the image of these cells.
SwapRefused(r) ==
    /\ At(r, "swap") /\ ~Swappable(r)
    /\ Delete({req[r].new})
    /\ IF row.exists /\ ~ComposesSameAs(row, req[r].snap) /\ req[r].round < MaxRounds
       THEN req' = [req EXCEPT ![r].pc = "snapshot", ![r].snap = None, ![r].new = None,
                               ![r].round = @ + 1]
       ELSE Done(r)
    /\ UNCHANGED <<row, line, ops, faults, takenDown, broken>>

\* The transaction fails, with or without having committed.
SwapFails(r) ==
    /\ At(r, "swap") /\ Swappable(r) /\ Fault
    /\ row' \in {row, [row EXCEPT !.image = req[r].new]}
    /\ Delete({req[r].new})
    /\ broken' = TRUE
    /\ Done(r)
    /\ UNCHANGED <<line, ops, takenDown>>

-----------------------------------------------------------------------------
(* LINE                                                                       *)

Publishing(r) == req[r].op \in {"publish", "publishDefault"}
SetsDefault(r) == req[r].op = "publishDefault" \/ req[r].snap.isDefault

\* publish: the row, its image and LINE's validator come first.
ReadForPublish(r) ==
    /\ At(r, "begin") /\ Publishing(r) /\ row.exists
    /\ IF row.image = None THEN Done(r)
       ELSE req' = [req EXCEPT ![r].pc = "create", ![r].snap = row]
    /\ UNCHANGED <<row, file, line, ops, faults, takenDown, broken>>

\* The file is gone, or LINE refuses the draft or an image of another size.
PublishRefused(r) ==
    /\ At(r, "create")
    /\ IF Stored(req[r].snap.image) THEN Fault ELSE NoFault
    /\ Done(r)
    /\ UNCHANGED <<row, file, line, ops, takenDown, broken>>

\* LINE has the menu; a caller that gets no answer does not know its id.
CreateMenu(r) ==
    /\ At(r, "create") /\ Stored(req[r].snap.image)
    /\ menu' = Append(menu, Shown(req[r].snap))
    /\ \/ req' = [req EXCEPT ![r].pc = "alias", ![r].new = Len(menu) + 1] /\ NoFault
       \/ Done(r) /\ Fault
    /\ UNCHANGED <<row, file, default, alias, linked, ops, takenDown, broken>>

\* The image goes up and the alias is created, or moved if it exists.
PointAlias(r) ==
    /\ At(r, "alias") /\ Live(req[r].new)
    /\ alias' = req[r].new
    /\ Go(r, IF SetsDefault(r) THEN "default" ELSE "commit")
    /\ UNCHANGED <<row, file, menu, default, linked, ops, faults, takenDown, broken>>

PointDefault(r) ==
    /\ At(r, "default") /\ Live(req[r].new)
    /\ default' = req[r].new
    /\ Go(r, "commit")
    /\ UNCHANGED <<row, file, menu, alias, linked, ops, faults, takenDown, broken>>

\* A call to LINE fails, before or after it took effect, or finds the menu
\* deleted: publish removes the menu it created, as far as LINE answers.
PublishFails(r) ==
    /\ At(r, "alias") \/ At(r, "default")
    /\ IF Live(req[r].new) THEN Fault ELSE NoFault
    /\ alias' \in {alias} \cup IF At(r, "alias") /\ Live(req[r].new) THEN {req[r].new} ELSE {}
    /\ default' \in {default} \cup IF At(r, "default") /\ Live(req[r].new) THEN {req[r].new} ELSE {}
    /\ menu' \in {menu, [menu EXCEPT ![req[r].new] = Gone]}
    /\ Done(r)
    /\ UNCHANGED <<row, file, linked, ops, takenDown, broken>>

Published(r) ==
    [row EXCEPT !.lineId = req[r].new, !.isDefault = SetsDefault(r), !.needsRepublish = FALSE]

\* The transaction after LINE. It fails when the row is gone; a failure leaves
\* the new menu on LINE without a template.
CommitPublish(r) ==
    /\ At(r, "commit")
    /\ \/ row.exists /\ row' = Published(r) /\ Go(r, "retire") /\ NoFault
       \/ ~row.exists /\ UNCHANGED row /\ Done(r) /\ NoFault
       \/ row.exists /\ row' \in {row, Published(r)} /\ Done(r) /\ Fault
    /\ UNCHANGED <<file, line, ops, takenDown, broken>>

\* (Mutant) The revision to retire is read after the transaction.
RetireNamed(r) ==
    /\ At(r, "retire")
    /\ IF Live(row.lineId) THEN menu' = [menu EXCEPT ![row.lineId] = Gone] ELSE UNCHANGED menu
    /\ Done(r)
    /\ UNCHANGED <<row, file, default, alias, linked, ops, faults, takenDown, broken>>

\* The previous revision is removed, or stays behind when LINE fails.
Retire(r) ==
    /\ At(r, "retire")
    /\ IF Live(req[r].snap.lineId) THEN menu' = [menu EXCEPT ![req[r].snap.lineId] = Gone]
       ELSE UNCHANGED menu
    /\ Done(r)
    /\ UNCHANGED <<row, file, default, alias, linked, ops, faults, takenDown, broken>>

RetireFails(r) ==
    /\ At(r, "retire") /\ Fault
    /\ Done(r)
    /\ UNCHANGED <<row, file, line, ops, takenDown, broken>>

\* setDefault and linkUsers need a published template and call LINE with its id.
ReadPublished(r) ==
    /\ At(r, "begin") /\ req[r].op \in {"setDefault", "link"} /\ row.exists
    /\ IF row.lineId = None THEN Done(r)
       ELSE req' = [req EXCEPT ![r].pc = "call", ![r].new = row.lineId]
    /\ UNCHANGED <<row, file, line, ops, faults, takenDown, broken>>

\* LINE answers 404 when the menu was retired meanwhile.
CallRefused(r) ==
    /\ At(r, "call") /\ (IF Live(req[r].new) THEN Fault ELSE NoFault)
    /\ Done(r)
    /\ UNCHANGED <<row, file, line, ops, takenDown, broken>>

SetDefault(r) ==
    /\ At(r, "call") /\ req[r].op = "setDefault" /\ Live(req[r].new)
    /\ default' = req[r].new
    /\ \/ Go(r, "mark") /\ NoFault
       \/ Done(r) /\ Fault
    /\ UNCHANGED <<row, file, menu, alias, linked, ops, takenDown, broken>>

LinkUser(r) ==
    /\ At(r, "call") /\ req[r].op = "link" /\ Live(req[r].new)
    /\ linked' = req[r].new
    /\ Done(r)
    /\ UNCHANGED <<row, file, menu, default, alias, ops, faults, takenDown, broken>>

UnlinkUser(r) ==
    /\ At(r, "begin") /\ req[r].op = "unlink"
    /\ linked' = None
    /\ Done(r)
    /\ UNCHANGED <<row, file, menu, default, alias, ops, faults, takenDown, broken>>

ClearDefault(r) ==
    /\ At(r, "begin") /\ req[r].op = "clearDefault"
    /\ default' = None
    /\ \/ Go(r, "mark") /\ NoFault
       \/ Done(r) /\ Fault
    /\ UNCHANGED <<row, file, menu, alias, linked, ops, takenDown, broken>>

\* isDefault follows LINE in a transaction of its own.
MarkDefault(r) ==
    /\ At(r, "mark")
    /\ row' = [row EXCEPT !.isDefault = row.exists /\ req[r].op = "setDefault"]
    /\ Done(r)
    /\ UNCHANGED <<file, line, ops, faults, takenDown, broken>>

\* removeOrphanOnLine: no row names the menu; then it is deleted.
CheckOrphan(r) ==
    /\ At(r, "begin") /\ req[r].op = "orphan"
    /\ IF row.exists /\ row.lineId = req[r].arg THEN Done(r) ELSE Go(r, "takeDown")
    /\ UNCHANGED <<row, file, line, ops, faults, takenDown, broken>>

\* remove: LINE's menu first, then the alias, the row and the files.
ReadForRemoval(r) ==
    /\ At(r, "begin") /\ req[r].op = "remove" /\ row.exists
    /\ req' = [req EXCEPT ![r].pc = IF row.lineId = None THEN "unalias" ELSE "takeDown",
                          ![r].arg = row.lineId, ![r].snap = row]
    /\ UNCHANGED <<row, file, line, ops, faults, takenDown, broken>>

TakeDown(r) ==
    /\ At(r, "takeDown")
    /\ IF Live(req[r].arg) THEN menu' = [menu EXCEPT ![req[r].arg] = Gone] ELSE UNCHANGED menu
    /\ takenDown' = takenDown \cup {req[r].arg}
    /\ IF req[r].op = "remove" THEN Go(r, "unalias") ELSE Done(r)
    /\ UNCHANGED <<row, file, default, alias, linked, ops, faults, broken>>

\* A menu that LINE does not delete does not block the removal of the row.
TakeDownFails(r) ==
    /\ At(r, "takeDown") /\ Fault
    /\ IF req[r].op = "remove" THEN Go(r, "unalias") ELSE Done(r)
    /\ UNCHANGED <<row, file, line, ops, takenDown, broken>>

RemoveAlias(r) ==
    /\ At(r, "unalias")
    /\ alias' = None
    /\ Go(r, "delete")
    /\ UNCHANGED <<row, file, menu, default, linked, ops, faults, takenDown, broken>>

DeleteRow(r) ==
    /\ At(r, "delete")
    /\ row' = [row EXCEPT !.exists = FALSE]
    /\ IF row.exists THEN Delete({req[r].snap.image} \cup CellFiles(req[r].snap))
       ELSE UNCHANGED file
    /\ Done(r)
    /\ UNCHANGED <<line, ops, faults, takenDown, broken>>

Step(r) ==
    \/ BeginAny(r) \/ NotFound(r)
    \/ StoreUpload(r) \/ UploadRefused(r)
    \/ SaveEdit(r) \/ SaveRefused(r) \/ SaveUnacknowledged(r)
    \/ Snapshot(r) \/ Compose(r) \/ RebuildEnds(r) \/ RebuildFails(r)
    \/ Swap(r) \/ SwapRefused(r) \/ SwapFails(r)
    \/ ReadForPublish(r) \/ PublishRefused(r) \/ CreateMenu(r)
    \/ PointAlias(r) \/ PointDefault(r) \/ PublishFails(r)
    \/ CommitPublish(r) \/ Retire(r) \/ RetireFails(r)
    \/ ReadPublished(r) \/ CallRefused(r) \/ SetDefault(r) \/ LinkUser(r)
    \/ UnlinkUser(r) \/ ClearDefault(r) \/ MarkDefault(r)
    \/ CheckOrphan(r) \/ ReadForRemoval(r) \/ TakeDown(r) \/ TakeDownFails(r)
    \/ RemoveAlias(r) \/ DeleteRow(r)

Next == \E r \in Requests : Step(r)
Spec == Init /\ [][Next]_vars

-----------------------------------------------------------------------------
(* Properties                                                                 *)

Files == 1 .. Len(file)
Menus == 1 .. Len(menu)

\* The row, the calls in flight and LINE keep their shape.
TypeOK ==
    /\ row.image \in Files \cup {None} /\ row.cells \in [Cells -> Files \cup {None}]
    /\ row.size \in Sizes /\ row.grid \in Grids /\ row.lineId \in Menus \cup {None}
    /\ {default, alias, linked} \subseteq Menus \cup {None}
    /\ takenDown \subseteq Menus \cup {None}
    /\ \A r \in Requests : req[r].round \in 1 .. MaxRounds
    /\ \A i \in Cells : i > row.grid => row.cells[i] = None

Rebuilding == \E r \in Requests : req[r].pc \in {"snapshot", "compose", "swap"}

\* However the edits of several administrators interleave, once no rebuild is
\* under way the menu image shows exactly the cells of the row, on its grid and
\* its size (recomposite, swapCompositeLocked). Only a rebuild that failed may
\* leave another image.
ImageShowsCells ==
    (row.exists /\ CellFiles(row) # {} /\ ~Rebuilding /\ ~broken)
      => row.image # None /\ file[row.image] = Composite(row)

\* No clean-up after an edit, a lost race or a failed call deletes a file that
\* the row names (saveImageLocked, swapCompositeLocked and the catch clauses of
\* their callers), unless a commit went unacknowledged.
NamedFilesAreStored ==
    (row.exists /\ ~broken) => \A f \in CellFiles(row) \cup ({row.image} \ {None}) : Stored(f)

\* Two publications, a retirement and the clean-up of a failed publication
\* never take down the menu the template names: only an administrator's removal
\* does (publish, remove, removeOrphanOnLine).
NamedMenuIsLive ==
    (row.exists /\ row.lineId # None) => Live(row.lineId) \/ row.lineId \in takenDown

=============================================================================
