--------------------------- MODULE RichMenu_proofs ---------------------------
(* Machine-checked facts about RichMenu, for any requests, sizes, grids,       *)
(* numbers of operations and faults.                                           *)
EXTENDS RichMenu, SequenceTheorems, TLAPS

PCs == {"idle", "begin", "save", "snapshot", "compose", "swap", "create", "alias", "default",
        "commit", "retire", "call", "mark", "takeDown", "unalias", "delete"}
Ops == {"none", "upload", "cell", "uncell", "size", "layout", "publish", "publishDefault",
        "setDefault", "clearDefault", "remove", "link", "unlink", "orphan"}
Row == [exists: BOOLEAN, size: Sizes, grid: Grids, cells: [Cells -> Nat], image: Nat,
        lineId: Nat, isDefault: BOOLEAN, needsRepublish: BOOLEAN]
Request == [pc: PCs, op: Ops, arg: Nat, snap: Row \cup {None}, new: Nat, clear: BOOLEAN,
            round: 1 .. MaxRounds]
FileRow == {Gone} \cup [kind: {"full"}, size: Sizes]
             \cup [kind: {"cell"}, size: Sizes, grid: Grids]
             \cup [kind: {"composite"}, size: Sizes, grid: Grids, cells: [Cells -> Nat]]
MenuRow == {Gone} \cup [size: Sizes, grid: Grids, image: Nat]

-----------------------------------------------------------------------------
(* The inductive invariant.                                                    *)

\* A row, or a copy of it, names files and a menu that were made: of f files, m menus.
InRange(s, f, m) ==
    /\ s \in Row
    /\ s.image \in 0 .. f /\ s.lineId \in 0 .. m
    /\ \A i \in Cells : s.cells[i] \in 0 .. f
    /\ \A i \in Cells : i > s.grid => s.cells[i] = None

\* A rebuild, a publication and a removal work on the row as they read it.
HasRead(x) ==
    \/ x.pc \in {"compose", "swap", "create", "alias", "default", "commit", "retire",
                 "unalias", "delete"}
    \/ x.pc = "takeDown" /\ x.op = "remove"

\* What a request was given, and what it holds at each of its awaited calls.
Holds(x, f, m) ==
    /\ x \in Request
    /\ HasRead(x) => InRange(x.snap, f, m)
    /\ x.op \in {"cell", "uncell"} => x.arg \in Cells
    /\ x.op = "size" => x.arg \in Sizes
    /\ x.op = "layout" => x.arg \in Grids
    /\ x.op = "orphan" \/ x.pc = "takeDown" => x.arg \in 0 .. m
    /\ x.pc = "begin" => x.new = None
    /\ x.pc = "takeDown" => x.op \in {"remove", "orphan"}
    /\ x.pc = "unalias" => x.op = "remove"
    /\ x.pc = "save" => x.op \in {"upload", "cell"} /\ x.new \in 1 .. f
    /\ x.pc = "swap" => x.new \in 0 .. f /\ (x.new = None <=> CellFiles(x.snap) = {})
    /\ x.pc \in {"alias", "default", "commit", "call"} => x.new \in 1 .. m

TypedStores ==
    /\ file \in Seq(FileRow) /\ menu \in Seq(MenuRow)
    /\ InRange(row, Len(file), Len(menu)) /\ broken \in BOOLEAN
    /\ {default, alias, linked} \cup takenDown \subseteq 0 .. Len(menu)

Typed ==
    /\ TypedStores
    /\ req \in [Requests -> Request]
    /\ \A r \in Requests : Holds(req[r], Len(file), Len(menu))

\* A request has stored a file that no row names yet.
Uploaded(r) == req[r].pc \in {"save", "swap"} /\ req[r].new # None

\* It is the only one to know the file, so that nobody's clean-up deletes it.
FilesAreOwn ==
    \A r \in Requests : Uploaded(r) =>
      /\ req[r].new \notin CellFiles(row) /\ req[r].new # row.image
      /\ \A q \in Requests \ {r} : Uploaded(q) => req[q].new # req[r].new
      /\ row.exists /\ At(r, "swap") => file[req[r].new] = Composite(req[r].snap)

\* The cells of the row are images of cells and its image is none: what replaces the
\* one never deletes the other.
NamedKinds ==
    row.exists /\ ~broken =>
      /\ \A f \in CellFiles(row) : file[f].kind = "cell"
      /\ row.image # None => file[row.image].kind \in {"full", "composite"}

\* A rebuild that has yet to read the row, or that read it as it is and will swap.
WillShow(r) ==
    \/ At(r, "snapshot")
    \/ /\ At(r, "compose") \/ At(r, "swap")
       /\ ComposesSameAs(row, req[r].snap) /\ row.image = req[r].snap.image

\* An image that does not show the cells is about to be replaced by one that does.
RebuildsCome ==
    row.exists /\ CellFiles(row) # {} /\ ~broken =>
      \/ row.image # None /\ file[row.image] = Composite(row)
      \/ \E r \in Requests : WillShow(r)

\* A publication has made a menu that no row names yet.
Created(r) == req[r].pc \in {"alias", "default", "commit"}
Stands(m) == Live(m) \/ m \in takenDown

\* No row ever named that menu, so that no request retires it, and it is there when it is
\* committed. What a publication retires the row no longer names.
MenusAreOwn ==
    \A r \in Requests :
      /\ Created(r) =>
           /\ req[r].new # row.lineId
           /\ \A q \in Requests : HasRead(req[q]) => req[q].snap.lineId # req[r].new
           /\ \A q \in Requests \ {r} : Created(q) => req[q].new # req[r].new
           /\ ~At(r, "alias") => Stands(req[r].new)
      /\ At(r, "retire") => req[r].snap.lineId \in {None} \/ req[r].snap.lineId # row.lineId

IInv ==
    /\ Typed
    /\ FilesAreOwn /\ NamedKinds /\ RebuildsCome
    /\ MenusAreOwn /\ NamedMenuIsLive
-----------------------------------------------------------------------------
(* Files, menus and requests: what an update leaves.                           *)

LEMMA SetsTypes ==
  /\ Sizes \subseteq Nat /\ Grids \subseteq Nat /\ Cells \subseteq Nat \ {0} /\ 1 \in Cells
  /\ \A g \in Grids : 1 .. g \subseteq Cells
<1>1. Sizes \subseteq Nat /\ Grids \subseteq Nat /\ 1 \in Grids
  BY BoundsAssumption
<1>2. \A i \in Cells : \E g \in Grids : i \in 1 .. g
  BY DEF Cells
<1>3. \A g \in Grids : 1 .. g \subseteq Cells
  BY DEF Cells
<1> QED
  BY <1>1, <1>2, <1>3

LEMMA FilesDeleted ==
  ASSUME file \in Seq(FileRow), NEW fs, Delete(fs)
  PROVE  /\ file' \in Seq(FileRow) /\ Len(file') = Len(file)
         /\ \A f \in 1 .. Len(file) : file'[f] = IF f \in fs THEN Gone ELSE file[f]
<1>1. Len(file) \in Nat /\ \A f \in 1 .. Len(file) : file[f] \in FileRow
  BY ElementOfSeq, LenProperties
<1>2. file' = [f \in 1 .. Len(file) |-> IF f \in fs THEN Gone ELSE file[f]]
  BY DEF Delete
<1>3. Gone \in FileRow
  BY DEF FileRow
<1>4. file' \in [1 .. Len(file) -> FileRow]
  BY <1>1, <1>2, <1>3
<1>5. file' \in Seq(FileRow)
  BY <1>1, <1>4, SeqDef
<1>6. Len(file') = Len(file)
  <2>1. DOMAIN file' = 1 .. Len(file') /\ Len(file') \in Nat
    BY <1>5, LenProperties
  <2>2. DOMAIN file' = 1 .. Len(file)
    BY <1>2
  <2> QED
    BY <1>1, <2>1, <2>2
<1> QED
  BY <1>2, <1>5, <1>6

LEMMA FileStored ==
  ASSUME file \in Seq(FileRow), NEW x \in FileRow, file' = Append(file, x)
  PROVE  /\ file' \in Seq(FileRow) /\ Len(file') = Len(file) + 1
         /\ \A f \in 1 .. Len(file) : file'[f] = file[f]
         /\ file'[Len(file) + 1] = x
BY AppendProperties

LEMMA ArtTypes ==
  ASSUME NEW x \in Row
  PROVE  /\ CellArt(x) \in FileRow /\ CellArt(x).kind = "cell"
         /\ Composite(x) \in FileRow /\ Composite(x).kind = "composite"
         /\ Full(x.size) \in FileRow /\ Full(x.size).kind = "full"
         /\ Shown(x) \in MenuRow /\ Shown(x) # Gone /\ Gone.kind = "gone"
<1>1. CellArt(x) \in FileRow /\ CellArt(x).kind = "cell"
  BY DEF Row, CellArt, FileRow
<1>2. Composite(x) \in FileRow /\ Composite(x).kind = "composite"
  BY DEF Row, Composite, FileRow
<1>3. Full(x.size) \in FileRow /\ Full(x.size).kind = "full"
  BY DEF Row, Full, FileRow
<1>4. Shown(x) \in MenuRow
  BY DEF Row, Shown, MenuRow
<1>5. Shown(x) # Gone
  <2>1. "kind" \in DOMAIN Gone /\ "kind" \notin DOMAIN Shown(x)
    BY DEF Gone, Shown
  <2> QED
    BY <2>1
<1> QED
  BY <1>1, <1>2, <1>3, <1>4, <1>5 DEF Gone

LEMMA Grows ==
  ASSUME NEW f \in Nat, NEW g \in Nat, f <= g, NEW m \in Nat, NEW n \in Nat, m <= n, NEW x
  PROVE  /\ InRange(x, f, m) => InRange(x, g, n)
         /\ Holds(x, f, m) => Holds(x, g, n)
<1>1. \A y : InRange(y, f, m) => InRange(y, g, n)
  BY DEF InRange
<1>2. Holds(x, f, m) => Holds(x, g, n)
  BY <1>1 DEF Holds
<1> QED
  BY <1>1, <1>2

\* What a step of request r does to the requests.
Becomes(r, pc, snap, new) ==
    /\ req' \in [Requests -> Request]
    /\ \A q \in Requests \ {r} : req'[q] = req[q]
    /\ req'[r].pc = pc /\ req'[r].snap = snap /\ req'[r].new = new

LEMMA Finished ==
  ASSUME Typed, NEW r \in Requests, Done(r)
  PROVE  Becomes(r, "idle", None, None) /\ req'[r] = Idle
<1>1. Idle \in Request
  BY BoundsAssumption DEF Idle, Request, PCs, Ops, None
<1>2. req' = [req EXCEPT ![r] = Idle]
  BY DEF Done
<1>3. Idle.pc = "idle" /\ Idle.snap = None /\ Idle.new = None
  BY DEF Idle
<1> HIDE DEF Idle
<1> QED
  BY <1>1, <1>2, <1>3 DEF Typed, Becomes

LEMMA Moved ==
  ASSUME Typed, NEW r \in Requests, NEW pc \in PCs, Go(r, pc)
  PROVE  /\ Becomes(r, pc, req[r].snap, req[r].new)
         /\ req'[r].op = req[r].op /\ req'[r].arg = req[r].arg
BY DEF Typed, Go, Becomes, Request
-----------------------------------------------------------------------------
(* Types.                                                                      *)

LEMMA Lengths ==
  ASSUME TypedStores
  PROVE  /\ Len(file) \in Nat /\ Len(menu) \in Nat
         /\ \A f \in 1 .. Len(file) : file[f] \in FileRow
         /\ \A m \in 1 .. Len(menu) : menu[m] \in MenuRow
BY ElementOfSeq, LenProperties DEF TypedStores

LEMMA IdleHolds ==
  ASSUME NEW f, NEW m
  PROVE  Holds(Idle, f, m)
<1>1. Idle \in Request
  BY BoundsAssumption DEF Idle, Request, PCs, Ops, None
<1> QED
  BY <1>1 DEF Holds, HasRead, Idle

\* Files and menus are only added.
Grown ==
    /\ TypedStores'
    /\ Len(file) <= Len(file') /\ Len(menu) <= Len(menu')

LEMMA TypedAfter ==
  ASSUME Typed, Grown, NEW r \in Requests,
         req' \in [Requests -> Request], \A q \in Requests \ {r} : req'[q] = req[q],
         Holds(req'[r], Len(file'), Len(menu'))
  PROVE  Typed'
<1>1. Len(file) \in Nat /\ Len(menu) \in Nat /\ Len(file') \in Nat /\ Len(menu') \in Nat
  BY LenProperties DEF Typed, TypedStores, Grown
<1>2. ASSUME NEW q \in Requests \ {r}
      PROVE  Holds(req'[q], Len(file'), Len(menu'))
  BY <1>1, <1>2, Grows DEF Typed, Grown
<1> QED
  BY <1>2 DEF Typed, Grown

LEMMA TypedWhenDone ==
  ASSUME Typed, Grown, NEW r \in Requests, Done(r)
  PROVE  Typed'
BY Finished, IdleHolds, TypedAfter DEF Becomes

Stores == <<row, file, line, takenDown, broken>>

LEMMA StoresKept ==
  ASSUME Typed, UNCHANGED Stores
  PROVE  Grown
<1>1. Len(file) \in Nat /\ Len(menu) \in Nat
  BY Lengths DEF Typed
<1> QED
  BY <1>1 DEF Typed, Grown, TypedStores, Stores, line

\* The calls that begin or end a request, or read for it.
LEMMA BeginTyped ==
  ASSUME Typed, NEW r \in Requests, BeginAny(r)
  PROVE  Typed'
<1>1. Len(file) \in Nat /\ Len(menu) \in Nat /\ Grown
  BY Lengths, StoresKept DEF Typed, BeginAny, Begin, Stores
<1>2. ASSUME NEW op \in Ops, NEW arg \in Nat, Begin(r, op, arg),
             op \in {"cell", "uncell"} => arg \in Cells,
             op = "size" => arg \in Sizes, op = "layout" => arg \in Grids,
             op = "orphan" => arg \in 1 .. Len(menu)
      PROVE  Typed'
  <2> DEFINE x == [Idle EXCEPT !.pc = "begin", !.op = op, !.arg = arg]
  <2>0. Idle \in Request
    BY IdleHolds DEF Holds
  <2>1. x \in Request /\ x.pc = "begin" /\ x.op = op /\ x.arg = arg /\ x.new = Idle.new
    BY <2>0 DEF Request, PCs
  <2>5. Idle.new = None
    BY DEF Idle
  <2>2. req' = [req EXCEPT ![r] = x] /\ UNCHANGED <<file, menu>>
    BY <1>2 DEF Begin, line
  <2> HIDE DEF x
  <2>3. req' \in [Requests -> Request] /\ req'[r] = x /\ \A q \in Requests \ {r} : req'[q] = req[q]
    BY <2>1, <2>2 DEF Typed
  <2>4. Holds(x, Len(file'), Len(menu'))
    BY <1>1, <1>2, <2>1, <2>2, <2>5 DEF Holds, HasRead
  <2> QED
    BY <1>1, <2>3, <2>4, TypedAfter
<1>3. CASE \E op \in {"upload", "publish", "publishDefault", "setDefault", "clearDefault",
                      "remove", "link", "unlink"} : Begin(r, op, None)
  BY <1>2, <1>3 DEF None, Ops
<1>4. CASE \E g \in Grids : Begin(r, "layout", g)
  BY <1>2, <1>4, SetsTypes DEF Ops
<1>5. CASE \E s \in Sizes : Begin(r, "size", s)
  BY <1>2, <1>5, SetsTypes DEF Ops
<1>6. CASE \E i \in Cells : Begin(r, "cell", i) \/ Begin(r, "uncell", i)
  BY <1>2, <1>6, SetsTypes DEF Ops
<1>7. CASE \E m \in 1 .. Len(menu) : Begin(r, "orphan", m)
  BY <1>1, <1>2, <1>7 DEF Ops
<1> QED
  BY <1>3, <1>4, <1>5, <1>6, <1>7 DEF BeginAny

\* The request reads the row, and keeps everything else that it holds.
LEMMA ReadTyped ==
  ASSUME Typed, NEW r \in Requests, Grown, UNCHANGED <<file, menu>>,
         req' \in [Requests -> Request], \A q \in Requests \ {r} : req'[q] = req[q],
         req'[r].pc \in {"compose", "create", "unalias", "takeDown"}, req'[r].op = req[r].op,
         req'[r].snap = row,
         req'[r].arg = req[r].arg \/ (req[r].op = "remove" /\ req'[r].arg = row.lineId),
         req'[r].pc = "unalias" => req[r].op = "remove",
         req'[r].pc = "takeDown" => req[r].op = "remove" /\ req'[r].arg = row.lineId
  PROVE  Typed'
<1>1. InRange(row, Len(file), Len(menu)) /\ row.lineId \in 0 .. Len(menu)
  BY DEF Typed, TypedStores, InRange
<1>2. Holds(req[r], Len(file), Len(menu))
  BY DEF Typed
<1>3. Holds(req'[r], Len(file'), Len(menu'))
  BY <1>1, <1>2 DEF Holds, HasRead
<1> QED
  BY <1>3, TypedAfter

\* The rows that an edit, a rebuild, a publication and a removal save.
LEMMA SavedTypes ==
  ASSUME Typed, NEW r \in Requests,
         \/ At(r, "save") /\ Fits(r)
         \/ At(r, "begin") /\ req[r].op \in {"size", "layout", "uncell"}
  PROVE  LET saved == Edited(SavedRow(r)) IN
         /\ InRange(saved, Len(file), Len(menu))
         /\ saved.exists = row.exists /\ saved.lineId = row.lineId
         /\ At(r, "save") /\ req[r].op = "upload" =>
              saved.image = req[r].new /\ saved.cells = NoCells
         /\ ~(At(r, "save") /\ req[r].op = "upload") => saved.image = row.image
         /\ ~At(r, "save") => \A i \in Cells : saved.cells[i] \in {row.cells[i], None}
         /\ At(r, "save") /\ req[r].op = "cell" =>
              saved.cells = [row.cells EXCEPT ![req[r].arg] = req[r].new]
<1> DEFINE x == req[r]
           saved == Edited(SavedRow(r))
           edited(y) == y.needsRepublish \/ y.lineId # None
<1>1. row \in Row /\ InRange(row, Len(file), Len(menu)) /\ Holds(x, Len(file), Len(menu))
  BY DEF Typed, TypedStores, InRange
<1>2. x \in Request /\ x.new \in Nat /\ Len(file) \in Nat /\ Len(menu) \in Nat
  BY <1>1, Lengths DEF Holds, Request, Typed
<1>3. NoCells \in [Cells -> Nat] /\ \A i \in Cells : NoCells[i] = None
  BY DEF NoCells, None
<1>4. ASSUME NEW y \in Row
      PROVE  /\ Edited(y) \in Row /\ Edited(y).exists = y.exists /\ Edited(y).lineId = y.lineId
             /\ Edited(y).image = y.image /\ Edited(y).cells = y.cells /\ Edited(y).grid = y.grid
  BY <1>4 DEF Edited, Row
<1>5. CASE At(r, "save") /\ x.op = "upload"
  <2> DEFINE y == SavedRow(r)
  <2>1. x.new \in 1 .. Len(file) /\ y = [row EXCEPT !.image = x.new, !.cells = NoCells]
    BY <1>1, <1>5 DEF At, Holds, SavedRow, ImageSaved
  <2>2. /\ y \in Row /\ y.exists = row.exists /\ y.lineId = row.lineId
        /\ y.image = x.new /\ y.cells = NoCells
    BY <1>1, <1>2, <1>3, <2>1 DEF Row
  <2> HIDE DEF y
  <2>3. /\ saved \in Row /\ saved.exists = row.exists /\ saved.lineId = row.lineId
        /\ saved.image = x.new /\ saved.cells = NoCells
    BY <1>4, <2>2 DEF y
  <2> HIDE DEF saved
  <2>4. InRange(saved, Len(file), Len(menu))
    BY <1>1, <1>2, <1>3, <2>1, <2>3 DEF InRange, None
  <2> QED
    BY <1>5, <2>3, <2>4 DEF At, saved
<1>6. CASE At(r, "save") /\ x.op = "cell"
  <2> DEFINE y == SavedRow(r)
             cells == [row.cells EXCEPT ![x.arg] = x.new]
  <2>1. /\ x.new \in 1 .. Len(file) /\ x.arg \in Cells /\ x.arg <= row.grid
        /\ y = [row EXCEPT !.cells = cells]
    BY <1>1, <1>6 DEF At, Fits, Holds, SavedRow, CellSaved
  <2>2. /\ cells \in [Cells -> Nat]
        /\ \A i \in Cells : cells[i] = IF i = x.arg THEN x.new ELSE row.cells[i]
    BY <1>1, <1>2, <2>1 DEF Row
  <2> HIDE DEF cells
  <2>3. y \in Row /\ y.exists = row.exists /\ y.lineId = row.lineId
        /\ y.image = row.image /\ y.grid = row.grid /\ y.cells = cells
    BY <1>1, <2>1, <2>2 DEF Row
  <2> HIDE DEF y
  <2>4. saved \in Row /\ saved.exists = row.exists /\ saved.lineId = row.lineId
        /\ saved.image = row.image /\ saved.grid = row.grid /\ saved.cells = cells
    BY <1>4, <2>3 DEF y
  <2> HIDE DEF saved
  <2>5. row.grid \in Nat /\ x.arg \in Nat
    BY <1>1, <2>1, SetsTypes DEF Row
  <2>6. InRange(saved, Len(file), Len(menu))
    BY <1>1, <1>2, <2>1, <2>2, <2>4, <2>5 DEF InRange
  <2> QED
    BY <1>6, <2>4, <2>6 DEF At, saved, cells
<1>7. CASE At(r, "begin") /\ x.op \in {"size", "layout", "uncell"}
  <2> DEFINE y == SavedRow(r)
  <2>1. CASE x.op = "size"
    <3>1. x.arg \in Sizes /\ y = [row EXCEPT !.size = x.arg]
      BY <1>1, <2>1 DEF Holds, SavedRow, Resized
    <3>2. y \in Row /\ y.exists = row.exists /\ y.lineId = row.lineId /\ y.image = row.image
          /\ y.grid = row.grid /\ y.cells = row.cells
      BY <1>1, <3>1 DEF Row
    <3> QED
      BY <1>1, <1>4, <1>7, <3>2 DEF InRange, At
  <2>2. CASE x.op = "layout"
    <3> DEFINE cells == [i \in Cells |-> IF i <= x.arg THEN row.cells[i] ELSE None]
    <3>1. x.arg \in Grids /\ y = [row EXCEPT !.grid = x.arg, !.cells = cells]
      BY <1>1, <2>2 DEF Holds, SavedRow, LaidOut
    <3>2. cells \in [Cells -> Nat] /\ \A i \in Cells : cells[i] \in {row.cells[i], None}
      BY <1>1 DEF Row, None
    <3>3. \A i \in Cells : i > x.arg => cells[i] = None
      BY <3>1, SetsTypes
    <3> HIDE DEF cells
    <3>4. y \in Row /\ y.exists = row.exists /\ y.lineId = row.lineId /\ y.image = row.image
          /\ y.grid = x.arg /\ y.cells = cells
      BY <1>1, <3>1, <3>2 DEF Row
    <3>5. \A i \in Cells : cells[i] \in 0 .. Len(file)
      BY <1>1, <1>2, <3>2 DEF InRange, None
    <3> QED
      BY <1>1, <1>4, <1>7, <3>2, <3>3, <3>4, <3>5 DEF InRange, At
  <2>3. CASE x.op = "uncell"
    <3> DEFINE cells == [row.cells EXCEPT ![x.arg] = None]
    <3>1. x.arg \in Cells /\ y = [row EXCEPT !.cells = cells]
      BY <1>1, <2>3 DEF Holds, SavedRow, CellRemoved
    <3>2. cells \in [Cells -> Nat] /\ \A i \in Cells : cells[i] \in {row.cells[i], None}
      BY <1>1 DEF Row, None
    <3> HIDE DEF cells
    <3>3. y \in Row /\ y.exists = row.exists /\ y.lineId = row.lineId /\ y.image = row.image
          /\ y.grid = row.grid /\ y.cells = cells
      BY <1>1, <3>1, <3>2 DEF Row
    <3>4. \A i \in Cells : cells[i] \in 0 .. Len(file)
      BY <1>1, <1>2, <3>2 DEF InRange, None
    <3> QED
      BY <1>1, <1>4, <1>7, <3>2, <3>3, <3>4 DEF InRange, At, None
  <2> QED
    BY <1>7, <2>1, <2>2, <2>3
<1> QED
  BY <1>1, <1>5, <1>6, <1>7 DEF Holds, At

\* Files change and LINE does not.
LEMMA FilesGrow ==
  ASSUME Typed, UNCHANGED <<line, takenDown>>, broken' \in BOOLEAN,
         file' \in Seq(FileRow), Len(file') \in {Len(file), Len(file) + 1},
         InRange(row', Len(file'), Len(menu))
  PROVE  Grown
<1>1. Len(file) \in Nat /\ Len(menu) \in Nat
  BY Lengths DEF Typed
<1> QED
  BY <1>1 DEF Typed, TypedStores, Grown, line

LEMMA FilesShrink ==
  ASSUME Typed, NEW fs, Delete(fs), UNCHANGED <<line, takenDown>>, broken' \in BOOLEAN,
         InRange(row', Len(file), Len(menu))
  PROVE  Grown
BY FilesDeleted, FilesGrow DEF Typed, TypedStores

LEMMA SwappedTypes ==
  ASSUME Typed, NEW r \in Requests, At(r, "swap")
  PROVE  LET swapped == [row EXCEPT !.image = req[r].new] IN
         /\ InRange(swapped, Len(file), Len(menu))
         /\ swapped.exists = row.exists /\ swapped.cells = row.cells
         /\ swapped.lineId = row.lineId /\ swapped.image = req[r].new
         /\ Composite(swapped) = Composite(row)
<1>1. InRange(row, Len(file), Len(menu)) /\ row \in Row /\ req[r].new \in 0 .. Len(file)
      /\ Len(file) \in Nat
  BY Lengths DEF Typed, TypedStores, InRange, Holds, At
<1> DEFINE swapped == [row EXCEPT !.image = req[r].new]
<1>2. /\ swapped \in Row /\ swapped.exists = row.exists /\ swapped.cells = row.cells
      /\ swapped.lineId = row.lineId /\ swapped.image = req[r].new /\ swapped.grid = row.grid
      /\ swapped.size = row.size
  BY <1>1 DEF Row
<1> HIDE DEF swapped
<1>3. InRange(swapped, Len(file), Len(menu)) /\ Composite(swapped) = Composite(row)
  BY <1>1, <1>2 DEF InRange, Composite
<1> QED
  BY <1>2, <1>3 DEF swapped

LEMMA EditTyped ==
  ASSUME Typed, NEW r \in Requests,
         \/ StoreUpload(r) \/ SaveEdit(r) \/ SaveRefused(r) \/ SaveUnacknowledged(r)
  PROVE  Typed'
<1> DEFINE x == req[r]
<1>1. /\ Holds(x, Len(file), Len(menu)) /\ x \in Request /\ InRange(row, Len(file), Len(menu))
      /\ row \in Row /\ Len(file) \in Nat /\ Len(menu) \in Nat /\ broken \in BOOLEAN
      /\ file \in Seq(FileRow) /\ req \in [Requests -> Request]
  BY Lengths DEF Typed, TypedStores, InRange, Holds
<1>2. CASE StoreUpload(r)
  <2> DEFINE stored == IF x.op = "upload" THEN Full(row.size) ELSE CellArt(row)
  <2>1. stored \in FileRow /\ file' = Append(file, stored)
    BY <1>1, <1>2, ArtTypes DEF StoreUpload
  <2> HIDE DEF stored
  <2>2. file' \in Seq(FileRow) /\ Len(file') = Len(file) + 1
    BY <1>1, <2>1, FileStored
  <2>3. Grown
    BY <1>1, <1>2, <2>2, Grows, FilesGrow DEF StoreUpload
  <2>4. /\ req' \in [Requests -> Request] /\ \A q \in Requests \ {r} : req'[q] = req[q]
        /\ req'[r].pc = "save" /\ req'[r].new = Len(file) + 1
        /\ req'[r].op = x.op /\ req'[r].arg = x.arg
        /\ x.op \in {"upload", "cell"}
    <3> DEFINE new == Len(file) + 1
               y == [x EXCEPT !.pc = "save", !.new = new]
    <3>1. req' = [req EXCEPT ![r] = y] /\ x.op \in {"upload", "cell"}
      BY <1>2 DEF StoreUpload
    <3>2. new \in Nat
      BY <1>1
    <3> HIDE DEF new
    <3>3. y \in Request /\ y.pc = "save" /\ y.new = new /\ y.op = x.op /\ y.arg = x.arg
      BY <1>1, <3>2 DEF Request, PCs
    <3> HIDE DEF y
    <3> QED
      BY <1>1, <3>1, <3>3 DEF new
  <2>5. Holds(req'[r], Len(file'), Len(menu'))
    BY <1>1, <1>2, <2>2, <2>4 DEF Holds, HasRead
  <2> QED
    BY <2>3, <2>4, <2>5, TypedAfter
<1>3. CASE SaveEdit(r)
  <2>1. /\ InRange(row', Len(file), Len(menu)) /\ UNCHANGED <<line, takenDown, broken>>
        /\ \E fs : Delete(fs)
    BY <1>3, SavedTypes DEF SaveEdit
  <2>2. Grown
    BY <1>1, <2>1, FilesShrink
  <2>3. CASE Done(r)
    BY <2>2, <2>3, TypedWhenDone
  <2>4. CASE ~Done(r)
    <3>1. /\ req' \in [Requests -> Request] /\ \A q \in Requests \ {r} : req'[q] = req[q]
          /\ req'[r].pc = "snapshot" /\ req'[r].op = x.op /\ req'[r].arg = x.arg
      <4> DEFINE clear == \/ x.op = "uncell"
                          \/ x.op = "layout" /\ CellFiles(row) # {}
                 y == [x EXCEPT !.pc = "snapshot", !.new = None, !.clear = clear]
      <4>1. req' = [req EXCEPT ![r] = y] /\ clear \in BOOLEAN
        BY <1>3, <2>4 DEF SaveEdit
      <4> HIDE DEF clear
      <4>2. y \in Request /\ y.pc = "snapshot" /\ y.op = x.op /\ y.arg = x.arg
        BY <1>1, <4>1 DEF Request, PCs, None
      <4> HIDE DEF y
      <4> QED
        BY <1>1, <4>1, <4>2
    <3>2. Len(menu') = Len(menu)
      BY <2>1 DEF line
    <3>3. Holds(req'[r], Len(file'), Len(menu'))
      BY <1>1, <3>1, <3>2 DEF Holds, HasRead
    <3> QED
      BY <2>2, <3>1, <3>3, TypedAfter
  <2> QED
    BY <2>3, <2>4
<1>4. CASE SaveRefused(r)
  <2>1. UNCHANGED <<row, line, takenDown, broken>> /\ Done(r) /\ Delete({req[r].new})
    BY <1>4 DEF SaveRefused
  <2> QED
    BY <1>1, <2>1, FilesShrink, TypedWhenDone
<1>5. CASE SaveUnacknowledged(r)
  <2>1. /\ InRange(row', Len(file), Len(menu)) /\ UNCHANGED <<line, takenDown>> /\ broken' = TRUE
        /\ Delete({req[r].new}) /\ Done(r)
    BY <1>5, SavedTypes DEF SaveUnacknowledged
  <2> QED
    BY <2>1, FilesShrink, TypedWhenDone
<1> QED
  BY <1>2, <1>3, <1>4, <1>5

LEMMA RebuildTyped ==
  ASSUME Typed, NEW r \in Requests,
         \/ Snapshot(r) \/ Compose(r) \/ RebuildEnds(r) \/ RebuildFails(r)
         \/ Swap(r) \/ SwapRefused(r) \/ SwapFails(r)
  PROVE  Typed'
<1> DEFINE x == req[r]
<1>1. /\ Holds(x, Len(file), Len(menu)) /\ x \in Request /\ InRange(row, Len(file), Len(menu))
      /\ row \in Row /\ Len(file) \in Nat /\ Len(menu) \in Nat /\ broken \in BOOLEAN
      /\ file \in Seq(FileRow) /\ req \in [Requests -> Request]
  BY Lengths DEF Typed, TypedStores, InRange, Holds
<1>2. CASE Snapshot(r)
  <2>1. UNCHANGED Stores
    BY <1>2 DEF Snapshot, Stores
  <2>2. /\ req' \in [Requests -> Request] /\ \A q \in Requests \ {r} : req'[q] = req[q]
        /\ req'[r].pc = "compose" /\ req'[r].op = x.op /\ req'[r].arg = x.arg
        /\ req'[r].snap = row
    BY <1>1, <1>2 DEF Snapshot, Request, PCs
  <2> QED
    BY <2>1, <2>2, StoresKept, ReadTyped DEF Stores, line
<1>3. CASE Compose(r)
  <2> DEFINE none == CellFiles(x.snap) = {}
  <2>1. InRange(x.snap, Len(file), Len(menu)) /\ x.snap \in Row /\ At(r, "compose")
    BY <1>1, <1>3 DEF Compose, At, Holds, HasRead, InRange
  <2>2. file' = IF none THEN file ELSE Append(file, Composite(x.snap))
    BY <1>3 DEF Compose
  <2>3. /\ file' \in Seq(FileRow)
        /\ Len(file') = IF none THEN Len(file) ELSE Len(file) + 1
    BY <1>1, <2>1, <2>2, ArtTypes, FileStored
  <2>4. Grown
    <3>1. UNCHANGED <<row, line, takenDown, broken>>
      BY <1>3 DEF Compose
    <3>2. InRange(row, Len(file'), Len(menu)) /\ Len(file') \in {Len(file), Len(file) + 1}
      BY <1>1, <2>3, Grows
    <3> QED
      BY <1>1, <2>3, <3>1, <3>2, FilesGrow
  <2>5. /\ req' \in [Requests -> Request] /\ \A q \in Requests \ {r} : req'[q] = req[q]
        /\ req'[r].pc = "swap" /\ req'[r].op = x.op /\ req'[r].arg = x.arg
        /\ req'[r].snap = x.snap /\ req'[r].new = IF none THEN None ELSE Len(file) + 1
    <3> DEFINE new == IF none THEN None ELSE Len(file) + 1
               y == [x EXCEPT !.pc = "swap", !.new = new]
    <3>1. req' = [req EXCEPT ![r] = y]
      BY <1>3 DEF Compose
    <3>2. new \in Nat
      BY <1>1 DEF None
    <3> HIDE DEF new
    <3>3. /\ y \in Request /\ y.pc = "swap" /\ y.new = new /\ y.op = x.op /\ y.arg = x.arg
          /\ y.snap = x.snap
      BY <1>1, <3>2 DEF Request, PCs
    <3> HIDE DEF y
    <3> QED
      BY <1>1, <3>1, <3>3 DEF new
  <2>6. Len(menu') = Len(menu) /\ InRange(x.snap, Len(file'), Len(menu'))
    <3>1. menu' = menu
      BY <1>3 DEF Compose, line
    <3>2. Len(file') \in Nat /\ Len(file) <= Len(file') /\ Len(menu') = Len(menu)
      BY <1>1, <2>3, <3>1
    <3> QED
      BY <1>1, <2>1, <3>2, Grows
  <2>7. Holds(req'[r], Len(file'), Len(menu'))
    BY <1>1, <2>3, <2>5, <2>6 DEF Holds, HasRead, None
  <2> QED
    BY <2>4, <2>5, <2>7, TypedAfter
<1>4. CASE RebuildEnds(r)
  BY <1>4, StoresKept, TypedWhenDone DEF RebuildEnds, Stores
<1>5. CASE RebuildFails(r)
  <2>1. UNCHANGED <<row, file, line, takenDown>> /\ broken' = TRUE /\ Done(r)
    BY <1>5 DEF RebuildFails
  <2> QED
    BY <1>1, <2>1, FilesGrow, TypedWhenDone
<1>6. CASE Swap(r)
  <2>1. /\ row' = [row EXCEPT !.image = req[r].new] /\ Delete({row.image}) /\ Done(r)
        /\ UNCHANGED <<line, takenDown, broken>> /\ At(r, "swap")
    BY <1>6 DEF Swap
  <2> QED
    BY <1>1, <2>1, SwappedTypes, FilesShrink, TypedWhenDone
<1>7. CASE SwapRefused(r)
  <2>1. Delete({req[r].new}) /\ UNCHANGED <<row, line, takenDown, broken>> /\ At(r, "swap")
    BY <1>7 DEF SwapRefused
  <2>2. Grown
    BY <1>1, <2>1, FilesShrink
  <2>3. CASE Done(r)
    BY <2>2, <2>3, TypedWhenDone
  <2>4. CASE ~Done(r)
    <3>1. /\ req' \in [Requests -> Request] /\ \A q \in Requests \ {r} : req'[q] = req[q]
          /\ req'[r].pc = "snapshot" /\ req'[r].op = x.op /\ req'[r].arg = x.arg
      <4> DEFINE y == [x EXCEPT !.pc = "snapshot", !.snap = None, !.new = None, !.round = @ + 1]
      <4>1. req' = [req EXCEPT ![r] = y] /\ x.round < MaxRounds
        BY <1>7, <2>4 DEF SwapRefused
      <4>2. x.round + 1 \in 1 .. MaxRounds
        BY <1>1, <4>1, BoundsAssumption DEF Request
      <4>3. y \in Request /\ y.pc = "snapshot" /\ y.op = x.op /\ y.arg = x.arg
        BY <1>1, <4>2 DEF Request, PCs, None
      <4> HIDE DEF y
      <4> QED
        BY <1>1, <4>1, <4>3
    <3>2. Len(menu') = Len(menu)
      BY <2>1 DEF line
    <3>3. Holds(req'[r], Len(file'), Len(menu'))
      BY <1>1, <3>1, <3>2 DEF Holds, HasRead
    <3> QED
      BY <2>2, <3>1, <3>3, TypedAfter
  <2> QED
    BY <2>3, <2>4
<1>8. CASE SwapFails(r)
  <2>1. /\ row' \in {row, [row EXCEPT !.image = req[r].new]} /\ Delete({req[r].new}) /\ Done(r)
        /\ UNCHANGED <<line, takenDown>> /\ broken' = TRUE /\ At(r, "swap")
    BY <1>8 DEF SwapFails
  <2> QED
    BY <1>1, <2>1, SwappedTypes, FilesShrink, TypedWhenDone
<1> QED
  BY <1>2, <1>3, <1>4, <1>5, <1>6, <1>7, <1>8

LEMMA MenuDeleted ==
  ASSUME menu \in Seq(MenuRow), NEW m \in 1 .. Len(menu), menu' = [menu EXCEPT ![m] = Gone]
  PROVE  /\ menu' \in Seq(MenuRow) /\ Len(menu') = Len(menu)
         /\ \A n \in 1 .. Len(menu) : menu'[n] = IF n = m THEN Gone ELSE menu[n]
<1>1. Gone \in MenuRow
  BY DEF MenuRow
<1> QED
  BY <1>1, ExceptSeq

\* LINE changes and the files do not.
LEMMA LineGrows ==
  ASSUME Typed, UNCHANGED <<file, broken>>,
         menu' \in Seq(MenuRow), Len(menu') \in {Len(menu), Len(menu) + 1},
         InRange(row', Len(file), Len(menu')),
         {default', alias', linked'} \cup takenDown' \subseteq 0 .. Len(menu')
  PROVE  Grown
<1>1. Len(file) \in Nat /\ Len(menu) \in Nat
  BY Lengths DEF Typed
<1> QED
  BY <1>1 DEF Typed, TypedStores, Grown

LEMMA LineKept ==
  ASSUME Typed, UNCHANGED <<row, file, broken>>,
         menu' \in Seq(MenuRow), Len(menu') = Len(menu),
         {default', alias', linked'} \cup takenDown' \subseteq 0 .. Len(menu)
  PROVE  Grown
<1>1. Len(file) \in Nat /\ Len(menu) \in Nat
  BY Lengths DEF Typed
<1> QED
  BY <1>1 DEF Typed, TypedStores, Grown

\* A request goes on to its next call with what it holds.
LEMMA MovedTyped ==
  ASSUME Typed, Grown, NEW r \in Requests, NEW pc \in PCs, Go(r, pc),
         \/ pc \in {"default", "commit"} /\ req[r].pc \in {"alias", "default"}
         \/ pc = "retire" /\ req[r].pc = "commit"
         \/ pc = "mark"
         \/ pc = "unalias" /\ At(r, "takeDown") /\ req[r].op = "remove"
         \/ pc = "delete" /\ At(r, "unalias")
         \/ pc = "takeDown" /\ req[r].op = "orphan"
  PROVE  Typed'
<1>1. /\ Becomes(r, pc, req[r].snap, req[r].new)
      /\ req'[r].op = req[r].op /\ req'[r].arg = req[r].arg
  BY Moved
<1>2. Len(file) \in Nat /\ Len(menu) \in Nat /\ Len(file') \in Nat /\ Len(menu') \in Nat
  BY LenProperties DEF Typed, TypedStores, Grown
<1>3. Holds(req[r], Len(file'), Len(menu'))
  BY <1>2, Grows DEF Typed, Grown
<1>4. Holds(req'[r], Len(file'), Len(menu'))
  BY <1>1, <1>3 DEF Holds, HasRead, Becomes, At
<1> QED
  BY <1>1, <1>4, TypedAfter DEF Becomes

LEMMA PublishTyped ==
  ASSUME Typed, NEW r \in Requests,
         \/ ReadForPublish(r) \/ PublishRefused(r) \/ CreateMenu(r) \/ PointAlias(r)
         \/ PointDefault(r) \/ PublishFails(r)
  PROVE  Typed'
<1> DEFINE x == req[r]
<1>1. /\ Holds(x, Len(file), Len(menu)) /\ x \in Request /\ InRange(row, Len(file), Len(menu))
      /\ row \in Row /\ Len(file) \in Nat /\ Len(menu) \in Nat
      /\ menu \in Seq(MenuRow) /\ req \in [Requests -> Request]
      /\ {default, alias, linked} \cup takenDown \subseteq 0 .. Len(menu)
  BY Lengths DEF Typed, TypedStores, InRange, Holds
<1>2. CASE ReadForPublish(r)
  <2>1. UNCHANGED Stores
    BY <1>2 DEF ReadForPublish, Stores
  <2>2. CASE Done(r)
    BY <2>1, <2>2, StoresKept, TypedWhenDone
  <2>3. CASE ~Done(r)
    <3>1. /\ req' \in [Requests -> Request] /\ \A q \in Requests \ {r} : req'[q] = req[q]
          /\ req'[r].pc = "create" /\ req'[r].op = x.op /\ req'[r].arg = x.arg
          /\ req'[r].snap = row
      <4> DEFINE y == [x EXCEPT !.pc = "create", !.snap = row]
      <4>1. req' = [req EXCEPT ![r] = y]
        BY <1>2, <2>3 DEF ReadForPublish
      <4>2. y \in Request /\ y.pc = "create" /\ y.op = x.op /\ y.arg = x.arg /\ y.snap = row
        BY <1>1 DEF Request, PCs
      <4> HIDE DEF y
      <4> QED
        BY <1>1, <4>1, <4>2
    <3> QED
      BY <2>1, <3>1, StoresKept, ReadTyped DEF Stores, line
  <2> QED
    BY <2>2, <2>3
<1>3. CASE PublishRefused(r)
  BY <1>3, StoresKept, TypedWhenDone DEF PublishRefused, Stores
<1>4. CASE CreateMenu(r)
  <2>1. InRange(x.snap, Len(file), Len(menu)) /\ x.snap \in Row
    BY <1>1, <1>4 DEF CreateMenu, At, Holds, HasRead, InRange
  <2>2. /\ menu' = Append(menu, Shown(x.snap)) /\ Shown(x.snap) \in MenuRow
        /\ UNCHANGED <<row, file, default, alias, linked, takenDown, broken>>
    BY <1>4, <2>1, ArtTypes DEF CreateMenu
  <2>3. menu' \in Seq(MenuRow) /\ Len(menu') = Len(menu) + 1
    BY <1>1, <2>2, AppendProperties
  <2>4. Grown
    <3>1. InRange(row, Len(file), Len(menu'))
      BY <1>1, <2>3, Grows
    <3>2. {default', alias', linked'} \cup takenDown' \subseteq 0 .. Len(menu')
      BY <1>1, <2>2, <2>3
    <3> QED
      BY <2>2, <2>3, <3>1, <3>2, LineGrows
  <2>5. CASE Done(r)
    BY <2>4, <2>5, TypedWhenDone
  <2>6. CASE ~Done(r)
    <3>1. /\ req' \in [Requests -> Request] /\ \A q \in Requests \ {r} : req'[q] = req[q]
          /\ req'[r].pc = "alias" /\ req'[r].op = x.op /\ req'[r].arg = x.arg
          /\ req'[r].snap = x.snap /\ req'[r].new = Len(menu) + 1
      <4> DEFINE new == Len(menu) + 1
                 y == [x EXCEPT !.pc = "alias", !.new = new]
      <4>1. req' = [req EXCEPT ![r] = y]
        BY <1>4, <2>6 DEF CreateMenu
      <4>2. new \in Nat
        BY <1>1
      <4> HIDE DEF new
      <4>3. /\ y \in Request /\ y.pc = "alias" /\ y.new = new /\ y.op = x.op /\ y.arg = x.arg
            /\ y.snap = x.snap
        BY <1>1, <4>2 DEF Request, PCs
      <4> HIDE DEF y
      <4> QED
        BY <1>1, <4>1, <4>3 DEF new
    <3>2. InRange(x.snap, Len(file'), Len(menu'))
      BY <1>1, <2>1, <2>2, <2>3, Grows
    <3>3. /\ x.op \in {"cell", "uncell"} => x.arg \in Cells
          /\ x.op = "size" => x.arg \in Sizes
          /\ x.op = "layout" => x.arg \in Grids
          /\ x.op = "orphan" => x.arg \in 0 .. Len(menu')
      BY <1>1, <2>3 DEF Holds
    <3>4. Holds(req'[r], Len(file'), Len(menu'))
      BY <1>1, <2>3, <3>1, <3>2, <3>3 DEF Holds, HasRead
    <3> QED
      BY <2>4, <3>1, <3>4, TypedAfter
  <2> QED
    BY <2>5, <2>6
<1>5. CASE PointAlias(r)
  <2>1. x.new \in 1 .. Len(menu)
    BY <1>1, <1>5 DEF PointAlias, At, Holds
  <2>2. /\ UNCHANGED <<row, file, broken, menu>>
        /\ {default', alias', linked'} \cup takenDown' \subseteq 0 .. Len(menu)
    BY <1>1, <1>5, <2>1 DEF PointAlias
  <2>3. Grown
    BY <1>1, <2>2, LineKept
  <2> QED
    BY <1>5, <2>3, MovedTyped DEF PointAlias, At, PCs
<1>6. CASE PointDefault(r)
  <2>1. x.new \in 1 .. Len(menu)
    BY <1>1, <1>6 DEF PointDefault, At, Holds
  <2>2. /\ UNCHANGED <<row, file, broken, menu>>
        /\ {default', alias', linked'} \cup takenDown' \subseteq 0 .. Len(menu)
    BY <1>1, <1>6, <2>1 DEF PointDefault
  <2>3. Grown
    BY <1>1, <2>2, LineKept
  <2> QED
    BY <1>6, <2>3, MovedTyped DEF PointDefault, At, PCs
<1>7. CASE PublishFails(r)
  <2>1. x.new \in 1 .. Len(menu)
    BY <1>1, <1>7 DEF PublishFails, At, Holds
  <2>2. menu' \in Seq(MenuRow) /\ Len(menu') = Len(menu)
    BY <1>1, <1>7, <2>1, MenuDeleted DEF PublishFails
  <2>3. /\ UNCHANGED <<row, file, broken>> /\ Done(r)
        /\ {default', alias', linked'} \cup takenDown' \subseteq 0 .. Len(menu)
    BY <1>1, <1>7, <2>1 DEF PublishFails
  <2> QED
    BY <2>2, <2>3, LineKept, TypedWhenDone
<1> QED
  BY <1>2, <1>3, <1>4, <1>5, <1>6, <1>7

LEMMA PublishedTypes ==
  ASSUME Typed, NEW r \in Requests, At(r, "commit")
  PROVE  /\ InRange(Published(r), Len(file), Len(menu))
         /\ Published(r).lineId = req[r].new /\ Published(r).exists = row.exists
         /\ Published(r).image = row.image /\ Published(r).cells = row.cells
         /\ Composite(Published(r)) = Composite(row)
<1> DEFINE saved == Published(r)
<1>1. /\ InRange(row, Len(file), Len(menu)) /\ row \in Row /\ req[r].new \in 1 .. Len(menu)
      /\ req[r].snap \in Row /\ Len(menu) \in Nat
  BY Lengths DEF Typed, TypedStores, InRange, Holds, HasRead, At
<1>2. /\ saved \in Row /\ saved.lineId = req[r].new /\ saved.exists = row.exists
      /\ saved.image = row.image /\ saved.cells = row.cells /\ saved.grid = row.grid
      /\ saved.size = row.size
  <2> DEFINE on == SetsDefault(r)
             new == req[r].new
  <2>1. on \in BOOLEAN
    BY <1>1 DEF SetsDefault, Row
  <2>2. saved = [row EXCEPT !.lineId = new, !.isDefault = on, !.needsRepublish = FALSE]
    BY DEF Published
  <2>3. new \in Nat
    BY <1>1
  <2> HIDE DEF on, new
  <2> QED
    BY <1>1, <2>1, <2>2, <2>3 DEF Row, new
<1> HIDE DEF saved
<1>3. InRange(saved, Len(file), Len(menu)) /\ Composite(saved) = Composite(row)
  BY <1>1, <1>2 DEF InRange, Composite
<1> QED
  BY <1>2, <1>3 DEF saved

\* The row is marked as the default or not, or it is deleted.
LEMMA MarkedTypes ==
  ASSUME Typed, NEW on \in BOOLEAN
  PROVE  /\ InRange([row EXCEPT !.isDefault = on], Len(file), Len(menu))
         /\ [row EXCEPT !.isDefault = on].exists = row.exists
         /\ [row EXCEPT !.isDefault = on].lineId = row.lineId
         /\ [row EXCEPT !.isDefault = on].image = row.image
         /\ [row EXCEPT !.isDefault = on].cells = row.cells
         /\ Composite([row EXCEPT !.isDefault = on]) = Composite(row)
         /\ InRange([row EXCEPT !.exists = on], Len(file), Len(menu))
         /\ [row EXCEPT !.exists = on].exists = on
         /\ [row EXCEPT !.exists = on].image = row.image
         /\ [row EXCEPT !.exists = on].cells = row.cells
         /\ [row EXCEPT !.exists = on].lineId = row.lineId
<1> DEFINE marked == [row EXCEPT !.isDefault = on]
           left == [row EXCEPT !.exists = on]
<1>1. InRange(row, Len(file), Len(menu)) /\ row \in Row
  BY DEF Typed, TypedStores, InRange
<1>2. /\ marked \in Row /\ marked.lineId = row.lineId /\ marked.exists = row.exists
      /\ marked.image = row.image /\ marked.cells = row.cells /\ marked.grid = row.grid
      /\ marked.size = row.size
  BY <1>1 DEF Row
<1>3. /\ left \in Row /\ left.lineId = row.lineId /\ left.exists = on
      /\ left.image = row.image /\ left.cells = row.cells /\ left.grid = row.grid
  BY <1>1 DEF Row
<1> HIDE DEF marked, left
<1>4. InRange(marked, Len(file), Len(menu)) /\ Composite(marked) = Composite(row)
  BY <1>1, <1>2 DEF InRange, Composite
<1>5. InRange(left, Len(file), Len(menu))
  BY <1>1, <1>3 DEF InRange
<1> QED
  BY <1>2, <1>3, <1>4, <1>5 DEF marked, left

LEMMA CommitTyped ==
  ASSUME Typed, NEW r \in Requests,
         \/ NotFound(r) \/ UploadRefused(r) \/ CommitPublish(r) \/ Retire(r) \/ RetireFails(r)
         \/ ReadPublished(r) \/ CallRefused(r)
  PROVE  Typed'
<1> DEFINE x == req[r]
<1>1. /\ Holds(x, Len(file), Len(menu)) /\ x \in Request /\ InRange(row, Len(file), Len(menu))
      /\ row \in Row /\ Len(file) \in Nat /\ Len(menu) \in Nat
      /\ menu \in Seq(MenuRow) /\ req \in [Requests -> Request]
      /\ {default, alias, linked} \cup takenDown \subseteq 0 .. Len(menu)
  BY Lengths DEF Typed, TypedStores, InRange, Holds
<1>2. CASE NotFound(r) \/ UploadRefused(r) \/ RetireFails(r) \/ CallRefused(r)
  BY <1>2, StoresKept, TypedWhenDone
     DEF NotFound, UploadRefused, RetireFails, CallRefused, Stores
<1>3. CASE CommitPublish(r)
  <2>1. InRange(row', Len(file), Len(menu)) /\ At(r, "commit")
    BY <1>1, <1>3, PublishedTypes DEF CommitPublish
  <2>2. UNCHANGED <<file, line, takenDown, broken>> /\ (Done(r) \/ Go(r, "retire"))
    BY <1>3 DEF CommitPublish
  <2>3. Grown
    <3>1. /\ menu' \in Seq(MenuRow) /\ Len(menu') = Len(menu)
          /\ {default', alias', linked'} \cup takenDown' \subseteq 0 .. Len(menu')
      BY <1>1, <2>2 DEF line
    <3> QED
      BY <2>1, <2>2, <3>1, LineGrows
  <2> QED
    BY <2>1, <2>2, <2>3, TypedWhenDone, MovedTyped DEF At, PCs
<1>4. CASE Retire(r)
  <2>1. menu' \in Seq(MenuRow) /\ Len(menu') = Len(menu)
    BY <1>1, <1>4, MenuDeleted DEF Retire, Live
  <2>2. /\ UNCHANGED <<row, file, broken>> /\ Done(r)
        /\ {default', alias', linked'} \cup takenDown' \subseteq 0 .. Len(menu)
    BY <1>1, <1>4 DEF Retire
  <2> QED
    BY <2>1, <2>2, LineKept, TypedWhenDone
<1>5. CASE ReadPublished(r)
  <2>1. UNCHANGED Stores
    BY <1>5 DEF ReadPublished, Stores
  <2>2. CASE Done(r)
    BY <2>1, <2>2, StoresKept, TypedWhenDone
  <2>3. CASE ~Done(r)
    <3> DEFINE y == [x EXCEPT !.pc = "call", !.new = row.lineId]
    <3>1. req' = [req EXCEPT ![r] = y] /\ row.lineId # None /\ At(r, "begin")
      BY <1>5, <2>3 DEF ReadPublished
    <3>2. y \in Request /\ y.pc = "call" /\ y.op = x.op /\ y.arg = x.arg /\ y.new = row.lineId
      BY <1>1 DEF Request, Row, PCs
    <3>3. row.lineId \in 1 .. Len(menu)
      BY <1>1, <3>1 DEF InRange, None
    <3> HIDE DEF y
    <3>4. UNCHANGED <<file, menu>>
      BY <2>1 DEF Stores, line
    <3>5. Holds(y, Len(file), Len(menu))
      BY <1>1, <3>2, <3>3 DEF Holds, HasRead
    <3> QED
      BY <1>1, <2>1, <3>1, <3>2, <3>4, <3>5, StoresKept, TypedAfter
  <2> QED
    BY <2>2, <2>3
<1> QED
  BY <1>2, <1>3, <1>4, <1>5

LEMMA DefaultTyped ==
  ASSUME Typed, NEW r \in Requests,
         \/ SetDefault(r) \/ LinkUser(r) \/ UnlinkUser(r) \/ ClearDefault(r) \/ MarkDefault(r)
  PROVE  Typed'
<1> DEFINE x == req[r]
<1>1. /\ Holds(x, Len(file), Len(menu)) /\ row \in Row /\ x \in Request
      /\ menu \in Seq(MenuRow) /\ Len(menu) \in Nat
      /\ {default, alias, linked} \cup takenDown \subseteq 0 .. Len(menu)
  BY Lengths DEF Typed, TypedStores, InRange, Holds
<1>2. CASE SetDefault(r) \/ LinkUser(r)
  <2>1. x.new \in 1 .. Len(menu)
    BY <1>1, <1>2 DEF SetDefault, LinkUser, At, Holds
  <2>2. /\ UNCHANGED <<row, file, broken, menu>> /\ (Done(r) \/ Go(r, "mark"))
        /\ {default', alias', linked'} \cup takenDown' \subseteq 0 .. Len(menu)
    BY <1>1, <1>2, <2>1 DEF SetDefault, LinkUser
  <2>3. Grown
    BY <1>1, <2>2, LineKept
  <2> QED
    BY <2>2, <2>3, TypedWhenDone, MovedTyped DEF PCs
<1>3. CASE UnlinkUser(r) \/ ClearDefault(r)
  <2>1. /\ UNCHANGED <<row, file, broken, menu>> /\ (Done(r) \/ Go(r, "mark"))
        /\ {default', alias', linked'} \cup takenDown' \subseteq 0 .. Len(menu)
    BY <1>1, <1>3 DEF UnlinkUser, ClearDefault, None
  <2>2. Grown
    BY <1>1, <2>1, LineKept
  <2> QED
    BY <2>1, <2>2, TypedWhenDone, MovedTyped DEF PCs
<1>4. CASE MarkDefault(r)
  <2>1. /\ row' = [row EXCEPT !.isDefault = row.exists /\ req[r].op = "setDefault"]
        /\ Done(r) /\ UNCHANGED <<file, line, takenDown, broken>>
    BY <1>4 DEF MarkDefault
  <2>2. (row.exists /\ req[r].op = "setDefault") \in BOOLEAN
    OBVIOUS
  <2>3. InRange(row', Len(file), Len(menu))
    BY <2>1, <2>2, MarkedTypes
  <2>4. /\ menu' \in Seq(MenuRow) /\ Len(menu') = Len(menu) /\ UNCHANGED <<file, broken>>
        /\ {default', alias', linked'} \cup takenDown' \subseteq 0 .. Len(menu')
    BY <1>1, <2>1 DEF line
  <2> QED
    BY <2>1, <2>3, <2>4, LineGrows, TypedWhenDone
<1> QED
  BY <1>2, <1>3, <1>4

LEMMA RemovalTyped ==
  ASSUME Typed, NEW r \in Requests,
         \/ CheckOrphan(r) \/ ReadForRemoval(r) \/ TakeDown(r) \/ TakeDownFails(r)
         \/ RemoveAlias(r) \/ DeleteRow(r)
  PROVE  Typed'
<1> DEFINE x == req[r]
<1>1. /\ Holds(x, Len(file), Len(menu)) /\ x \in Request /\ InRange(row, Len(file), Len(menu))
      /\ row \in Row /\ Len(file) \in Nat /\ Len(menu) \in Nat /\ broken \in BOOLEAN
      /\ menu \in Seq(MenuRow) /\ req \in [Requests -> Request]
      /\ {default, alias, linked} \cup takenDown \subseteq 0 .. Len(menu)
  BY Lengths DEF Typed, TypedStores, InRange, Holds
<1>2. CASE CheckOrphan(r)
  <2>1. UNCHANGED Stores /\ x.op = "orphan" /\ (Done(r) \/ Go(r, "takeDown"))
    BY <1>2 DEF CheckOrphan, Stores
  <2> QED
    BY <2>1, StoresKept, TypedWhenDone, MovedTyped DEF PCs
<1>3. CASE ReadForRemoval(r)
  <2>1. UNCHANGED Stores /\ x.op = "remove"
    BY <1>3 DEF ReadForRemoval, Stores
  <2> DEFINE pc == IF row.lineId = None THEN "unalias" ELSE "takeDown"
             y == [x EXCEPT !.pc = pc, !.arg = row.lineId, !.snap = row]
  <2>2. req' = [req EXCEPT ![r] = y] /\ pc \in {"unalias", "takeDown"}
    BY <1>3 DEF ReadForRemoval
  <2> HIDE DEF pc
  <2>3. /\ y \in Request /\ y.pc = pc /\ y.op = x.op /\ y.arg = row.lineId /\ y.snap = row
    BY <1>1, <2>2 DEF Request, Row, PCs
  <2> HIDE DEF y
  <2> QED
    BY <1>1, <2>1, <2>2, <2>3, StoresKept, ReadTyped DEF Stores, line
<1>4. CASE TakeDown(r)
  <2>1. x.arg \in 0 .. Len(menu) /\ x.op \in {"remove", "orphan"} /\ At(r, "takeDown")
    BY <1>1, <1>4 DEF TakeDown, At, Holds
  <2>2. menu' \in Seq(MenuRow) /\ Len(menu') = Len(menu)
    BY <1>1, <1>4, MenuDeleted DEF TakeDown, Live
  <2>3. /\ UNCHANGED <<row, file, broken>>
        /\ IF req[r].op = "remove" THEN Go(r, "unalias") ELSE Done(r)
        /\ {default', alias', linked'} \cup takenDown' \subseteq 0 .. Len(menu)
    BY <1>1, <1>4, <2>1 DEF TakeDown
  <2>4. Grown
    BY <2>2, <2>3, LineKept
  <2> QED
    BY <2>1, <2>3, <2>4, TypedWhenDone, MovedTyped DEF PCs
<1>5. CASE TakeDownFails(r)
  <2>1. /\ UNCHANGED Stores /\ At(r, "takeDown")
        /\ IF req[r].op = "remove" THEN Go(r, "unalias") ELSE Done(r)
    BY <1>5 DEF TakeDownFails, Stores
  <2> QED
    BY <2>1, StoresKept, TypedWhenDone, MovedTyped DEF PCs
<1>6. CASE RemoveAlias(r)
  <2>1. /\ UNCHANGED <<row, file, broken, menu>> /\ Go(r, "delete") /\ At(r, "unalias")
        /\ {default', alias', linked'} \cup takenDown' \subseteq 0 .. Len(menu)
    BY <1>1, <1>6 DEF RemoveAlias, None
  <2>2. Grown
    BY <1>1, <2>1, LineKept
  <2> QED
    BY <2>1, <2>2, MovedTyped DEF PCs
<1>7. CASE DeleteRow(r)
  <2>1. /\ row' = [row EXCEPT !.exists = FALSE] /\ Done(r)
        /\ UNCHANGED <<line, takenDown, broken>>
        /\ IF row.exists THEN Delete({req[r].snap.image} \cup CellFiles(req[r].snap))
           ELSE UNCHANGED file
    BY <1>7 DEF DeleteRow
  <2>2. InRange(row', Len(file), Len(menu))
    BY <2>1, MarkedTypes
  <2>3. file' \in Seq(FileRow) /\ Len(file') = Len(file)
    BY <2>1, FilesDeleted DEF Typed, TypedStores
  <2> QED
    BY <1>1, <2>1, <2>2, <2>3, FilesGrow, TypedWhenDone
<1> QED
  BY <1>2, <1>3, <1>4, <1>5, <1>6, <1>7

LEMMA StepTyped ==
  ASSUME Typed, NEW r \in Requests, Step(r)
  PROVE  Typed'
BY BeginTyped, EditTyped, RebuildTyped, PublishTyped, CommitTyped, DefaultTyped, RemovalTyped
   DEF Step

-----------------------------------------------------------------------------
(* Files.                                                                      *)

\* The row names what it named, or what request r stored.
Names(r) ==
    \A f \in CellFiles(row') \cup {row'.image} :
      f \in CellFiles(row) \cup {row.image, None} \/ (Uploaded(r) /\ f = req[r].new)

LEMMA FilesStayOwn ==
  ASSUME Typed, FilesAreOwn, NEW r \in Requests,
         \A q \in Requests \ {r} : req'[q] = req[q],
         Names(r), row'.exists => row.exists,
         \A q \in Requests \ {r} :
           row'.exists /\ Uploaded(q) => file'[req[q].new] = file[req[q].new],
         Uploaded(r)' =>
           /\ req'[r].new \notin CellFiles(row') /\ req'[r].new # row'.image
           /\ \A q \in Requests \ {r} : Uploaded(q) => req[q].new # req'[r].new
           /\ row'.exists /\ req'[r].pc = "swap" =>
                file'[req'[r].new] = Composite(req'[r].snap)
  PROVE  FilesAreOwn'
<1> SUFFICES ASSUME NEW q \in Requests, Uploaded(q)'
             PROVE  /\ req'[q].new \notin CellFiles(row') /\ req'[q].new # row'.image
                    /\ \A p \in Requests \ {q} : Uploaded(p)' => req'[p].new # req'[q].new
                    /\ row'.exists /\ req'[q].pc = "swap" =>
                         file'[req'[q].new] = Composite(req'[q].snap)
  BY DEF FilesAreOwn, At
<1>1. CASE q = r
  BY <1>1 DEF Uploaded
<1>2. CASE q # r
  <2>1. req'[q] = req[q] /\ Uploaded(q) /\ req[q].new # None
    BY <1>2 DEF Uploaded
  <2>2. /\ req[q].new \notin CellFiles(row) /\ req[q].new # row.image
        /\ \A p \in Requests \ {q} : Uploaded(p) => req[p].new # req[q].new
        /\ row.exists /\ req[q].pc = "swap" => file[req[q].new] = Composite(req[q].snap)
    BY <2>1 DEF FilesAreOwn, At
  <2>3. req[q].new \notin CellFiles(row') \cup {row'.image}
    BY <1>2, <2>1, <2>2 DEF Names
  <2>4. \A p \in Requests \ {q} : Uploaded(p)' => req'[p].new # req'[q].new
    BY <1>2, <2>1, <2>2 DEF Uploaded
  <2> QED
    BY <1>2, <2>1, <2>2, <2>3, <2>4
<1> QED
  BY <1>1, <1>2

\* What the properties of the files look at, and the requests that store files.
Picture(s) == <<s.image, s.cells, Composite(s)>>
Storing == {"save", "snapshot", "compose", "swap"}

QuietFiles(r) ==
    /\ file' = file /\ Picture(row') = Picture(row) /\ row'.exists = row.exists
    /\ broken => broken'
    /\ \A q \in Requests \ {r} : req'[q] = req[q]
    /\ req[r].pc \notin Storing /\ req'[r].pc \notin Storing

LEMMA QuietKeepsFiles ==
  ASSUME Typed, FilesAreOwn, NamedKinds, RebuildsCome, NEW r \in Requests, QuietFiles(r),
         broken' \in BOOLEAN
  PROVE  FilesAreOwn' /\ NamedKinds' /\ RebuildsCome'
<1>1. /\ row'.image = row.image /\ row'.cells = row.cells /\ Composite(row') = Composite(row)
      /\ CellFiles(row') = CellFiles(row)
  BY DEF QuietFiles, Picture, CellFiles
<1>2. FilesAreOwn'
  BY <1>1, FilesStayOwn DEF QuietFiles, Names, Uploaded, Storing
<1>3. NamedKinds'
  BY <1>1 DEF NamedKinds, QuietFiles
<1>4. RebuildsCome'
  <2> SUFFICES ASSUME row'.exists, CellFiles(row') # {}, ~broken'
               PROVE  \/ row'.image # None /\ file'[row'.image] = Composite(row')
                      \/ \E q \in Requests : WillShow(q)'
    BY DEF RebuildsCome
  <2>1. CASE row.image # None /\ file[row.image] = Composite(row)
    BY <1>1, <2>1 DEF QuietFiles
  <2>2. ASSUME NEW q \in Requests, WillShow(q)
        PROVE  WillShow(q)'
    <3>1. q # r
      BY <2>2 DEF WillShow, QuietFiles, Storing, At
    <3> QED
      BY <1>1, <2>2, <3>1 DEF WillShow, QuietFiles, At, ComposesSameAs
  <2> QED
    BY <1>1, <2>1, <2>2 DEF RebuildsCome, QuietFiles
<1> QED
  BY <1>2, <1>3, <1>4

FilesRight == FilesAreOwn /\ NamedKinds /\ RebuildsCome

\* The files the row names are among those that were made.
LEMMA NamedFiles ==
  ASSUME Typed
  PROVE  /\ CellFiles(row) \subseteq 1 .. Len(file) /\ row.image \in 0 .. Len(file)
         /\ Len(file) \in Nat /\ None \notin CellFiles(row) /\ row \in Row
         /\ \A q \in Requests : Uploaded(q) => req[q].new \in 1 .. Len(file)
<1>1. InRange(row, Len(file), Len(menu)) /\ Len(file) \in Nat
  BY Lengths DEF Typed, TypedStores
<1>2. CellFiles(row) \subseteq 1 .. Len(file) /\ None \notin CellFiles(row)
  BY <1>1 DEF InRange, CellFiles, None
<1>3. ASSUME NEW q \in Requests, Uploaded(q)
      PROVE  req[q].new \in 1 .. Len(file)
  BY <1>1, <1>3 DEF Typed, Holds, Uploaded, None
<1> QED
  BY <1>1, <1>2, <1>3 DEF InRange

\* A file is stored: by an upload, or by a rebuild.
LEMMA StoringKeepsFiles ==
  ASSUME Typed, FilesRight, NEW r \in Requests, UNCHANGED <<row, broken>>,
         req[r].pc \notin {"save", "snapshot", "swap"}, NEW pc \in {"save", "swap"},
         NEW snap, NEW new,
         Becomes(r, pc, snap, new),
         \/ file' = file /\ new = None
         \/ /\ Len(file') = Len(file) + 1 /\ \A f \in 1 .. Len(file) : file'[f] = file[f]
            /\ new = Len(file) + 1 /\ (pc = "swap" => file'[new] = Composite(snap)),
         At(r, "compose") => pc = "swap" /\ snap = req[r].snap
  PROVE  FilesRight'
<1>1. /\ CellFiles(row) \subseteq 1 .. Len(file) /\ row.image \in 0 .. Len(file)
      /\ Len(file) \in Nat /\ None \notin CellFiles(row)
      /\ \A q \in Requests : Uploaded(q) => req[q].new \in 1 .. Len(file)
  BY NamedFiles
<1>2. \A f \in 1 .. Len(file) : file'[f] = file[f]
  OBVIOUS
<1>3. FilesAreOwn'
  <2>1. \A q \in Requests \ {r} : Uploaded(q) => file'[req[q].new] = file[req[q].new]
    BY <1>1, <1>2
  <2>2. Uploaded(r)' => new # None /\ new = Len(file) + 1
    BY DEF Becomes, Uploaded
  <2>3. Uploaded(r)' =>
           /\ req'[r].new \notin CellFiles(row') /\ req'[r].new # row'.image
           /\ \A q \in Requests \ {r} : Uploaded(q) => req[q].new # req'[r].new
           /\ row'.exists /\ req'[r].pc = "swap" =>
                file'[req'[r].new] = Composite(req'[r].snap)
    BY <1>1, <2>2 DEF Becomes
  <2> QED
    BY <2>1, <2>3, FilesStayOwn DEF FilesRight, Becomes, Names
<1>4. NamedKinds'
  BY <1>1, <1>2 DEF FilesRight, NamedKinds, None
<1>5. RebuildsCome'
  <2> SUFFICES ASSUME row.exists, CellFiles(row) # {}, ~broken
               PROVE  \/ row.image # None /\ file'[row.image] = Composite(row)
                      \/ \E q \in Requests : WillShow(q)'
    BY DEF RebuildsCome
  <2>1. CASE row.image # None /\ file[row.image] = Composite(row)
    BY <1>1, <1>2, <2>1 DEF None
  <2>2. ASSUME NEW q \in Requests, WillShow(q)
        PROVE  WillShow(q)'
    <3>1. CASE q # r
      BY <2>2, <3>1 DEF WillShow, Becomes, At, ComposesSameAs
    <3>2. CASE q = r
      BY <2>2, <3>2 DEF WillShow, Becomes, At, ComposesSameAs
    <3> QED
      BY <3>1, <3>2
  <2> QED
    BY <2>1, <2>2 DEF FilesRight, RebuildsCome
<1> QED
  BY <1>3, <1>4, <1>5 DEF FilesRight

\* What an edit writes: the cells it keeps, its own upload, and the image of a full upload.
LEMMA SavedNames ==
  ASSUME Typed, NEW r \in Requests,
         \/ At(r, "save") /\ Fits(r)
         \/ At(r, "begin") /\ req[r].op \in {"size", "layout", "uncell"}
  PROVE  LET saved == Edited(SavedRow(r)) IN
         /\ saved.exists = row.exists
         /\ \A f \in CellFiles(saved) :
              \/ f \in CellFiles(row)
              \/ At(r, "save") /\ req[r].op = "cell" /\ f = req[r].new
         /\ IF At(r, "save") /\ req[r].op = "upload"
            THEN saved.image = req[r].new /\ CellFiles(saved) = {}
            ELSE saved.image = row.image
<1> DEFINE saved == Edited(SavedRow(r))
<1>1. /\ saved.exists = row.exists
      /\ At(r, "save") /\ req[r].op = "upload" =>
           saved.image = req[r].new /\ saved.cells = NoCells
      /\ ~(At(r, "save") /\ req[r].op = "upload") => saved.image = row.image
      /\ ~At(r, "save") => \A i \in Cells : saved.cells[i] \in {row.cells[i], None}
      /\ At(r, "save") /\ req[r].op = "cell" =>
           saved.cells = [row.cells EXCEPT ![req[r].arg] = req[r].new]
  BY SavedTypes
<1> HIDE DEF saved
<1>2. row.cells \in [Cells -> Nat]
  BY NamedFiles DEF Row
<1>3. At(r, "save") => req[r].op \in {"upload", "cell"}
  BY DEF Typed, Holds, At
<1>4. \A s, f : f \in CellFiles(s) <=> f # None /\ \E i \in Cells : f = s.cells[i]
  BY DEF CellFiles
<1>5. At(r, "save") /\ req[r].op = "upload" => CellFiles(saved) = {}
  BY <1>1, <1>4 DEF NoCells
<1>6. ASSUME NEW f \in CellFiles(saved)
      PROVE  \/ f \in CellFiles(row)
             \/ At(r, "save") /\ req[r].op = "cell" /\ f = req[r].new
  <2>1. PICK i \in Cells : f = saved.cells[i] /\ f # None
    BY <1>4
  <2>2. CASE At(r, "save")
    <3>1. saved.cells = [row.cells EXCEPT ![req[r].arg] = req[r].new] /\ req[r].op = "cell"
      BY <1>1, <1>3, <1>5, <2>2
    <3>2. f \in {row.cells[i], req[r].new}
      BY <1>2, <2>1, <3>1
    <3> QED
      BY <1>4, <2>1, <2>2, <3>1, <3>2
  <2>3. CASE ~At(r, "save")
    BY <1>1, <1>4, <2>1, <2>3
  <2> QED
    BY <2>2, <2>3
<1> QED
  BY <1>1, <1>5, <1>6 DEF saved

LEMMA EditKeepsFiles ==
  ASSUME Typed, Typed', FilesRight, NEW r \in Requests, SaveEdit(r)
  PROVE  FilesRight'
<1> DEFINE x == req[r]
           full == At(r, "save") /\ x.op = "upload"
           gone == (CellFiles(row) \ CellFiles(row'))
                     \cup IF x.op = "upload" THEN {row.image} ELSE {}
<1>1. /\ CellFiles(row) \subseteq 1 .. Len(file) /\ row.image \in 0 .. Len(file)
      /\ Len(file) \in Nat /\ None \notin CellFiles(row) /\ row \in Row
      /\ \A q \in Requests : Uploaded(q) => req[q].new \in 1 .. Len(file)
  BY NamedFiles
<1>2. /\ row'.exists = row.exists /\ row.exists
      /\ \A f \in CellFiles(row') :
           f \in CellFiles(row) \/ (At(r, "save") /\ x.op = "cell" /\ f = x.new)
      /\ IF full THEN row'.image = x.new /\ CellFiles(row') = {} ELSE row'.image = row.image
  BY SavedNames DEF SaveEdit
<1>3. \A f \in 1 .. Len(file) : file'[f] = IF f \in gone THEN Gone ELSE file[f]
  <2>1. Delete(gone)
    BY DEF SaveEdit
  <2> QED
    BY <2>1, FilesDeleted DEF Typed, TypedStores
<1>4. /\ At(r, "save") => x.op \in {"upload", "cell"} /\ x.new \in 1 .. Len(file) /\ Uploaded(r)
      /\ x.op = "upload" => full
  BY <1>1 DEF SaveEdit, Typed, Holds, At, Uploaded, None
<1>5. At(r, "save") => /\ x.new \notin CellFiles(row) /\ x.new # row.image
                       /\ file[x.new] = IF full THEN Full(row.size) ELSE CellArt(row)
  BY <1>4 DEF FilesRight, FilesAreOwn, SaveEdit, Fits, At
<1>6. /\ \A q \in Requests \ {r} : req'[q] = req[q]
      /\ IF full THEN req'[r].pc = "idle" ELSE req'[r].pc = "snapshot"
  BY <1>4, Finished DEF SaveEdit, Becomes, Typed, Request
<1>7. broken' = broken
  BY DEF SaveEdit
<1> HIDE DEF full, gone
<1>8. FilesAreOwn'
  <2>1. Names(r)
    BY <1>2, <1>4 DEF Names, full
  <2>2. ASSUME NEW q \in Requests \ {r}, Uploaded(q)
        PROVE  file'[req[q].new] = file[req[q].new]
    BY <1>1, <1>3, <2>2 DEF FilesRight, FilesAreOwn, gone
  <2>3. ~Uploaded(r)'
    BY <1>6 DEF Uploaded
  <2> QED
    BY <1>2, <1>6, <2>1, <2>2, <2>3, FilesStayOwn DEF FilesRight
<1>9. NamedKinds'
  <2> SUFFICES ASSUME ~broken
               PROVE  /\ \A f \in CellFiles(row') : file'[f].kind = "cell"
                      /\ row'.image # None => file'[row'.image].kind \in {"full", "composite"}
    BY <1>7 DEF NamedKinds
  <2>1. /\ \A f \in CellFiles(row) : file[f].kind = "cell"
        /\ row.image # None => file[row.image].kind \in {"full", "composite"}
    BY <1>2 DEF FilesRight, NamedKinds
  <2>2. Full(row.size).kind = "full" /\ CellArt(row).kind = "cell"
    BY <1>1, ArtTypes
  <2>3. ASSUME NEW f \in CellFiles(row')
        PROVE  file'[f].kind = "cell"
    <3>1. CASE f \in CellFiles(row)
      <4>1. f \notin gone
        BY <1>2, <1>4, <2>1, <2>3, <3>1 DEF gone
      <4> QED
        BY <1>1, <1>3, <2>1, <3>1, <4>1
    <3>2. CASE At(r, "save") /\ x.op = "cell" /\ f = x.new
      <4>1. f \notin gone /\ f \in 1 .. Len(file) /\ ~full
        BY <1>2, <1>4, <1>5, <2>3, <3>2 DEF gone, full
      <4> QED
        BY <1>3, <1>5, <2>2, <3>2, <4>1
    <3> QED
      BY <1>2, <3>1, <3>2
  <2>4. ASSUME row'.image # None
        PROVE  file'[row'.image].kind \in {"full", "composite"}
    <3>1. CASE full
      <4>1. row'.image = x.new /\ x.new \notin gone /\ x.new \in 1 .. Len(file)
        BY <1>2, <1>4, <1>5, <3>1 DEF gone, full
      <4> QED
        BY <1>3, <1>5, <2>2, <3>1, <4>1 DEF full
    <3>2. CASE ~full
      <4>1. row.image \notin gone /\ row'.image = row.image /\ row.image \in 1 .. Len(file)
        BY <1>1, <1>2, <1>4, <2>1, <2>4, <3>2 DEF gone, None
      <4> QED
        BY <1>3, <2>1, <2>4, <4>1
    <3> QED
      BY <3>1, <3>2
  <2> QED
    BY <2>3, <2>4
<1>10. RebuildsCome'
  BY <1>2, <1>6 DEF RebuildsCome, WillShow, At
<1> QED
  BY <1>8, <1>9, <1>10 DEF FilesRight

\* A request ends, or starts over, and deletes what it stored; when its commit was not
\* acknowledged, the row may name that file by now.
LEMMA DiscardKeepsFiles ==
  ASSUME Typed, FilesRight, NEW r \in Requests, Delete({req[r].new}),
         Uploaded(r) \/ req[r].new = None,
         Names(r), row'.exists = row.exists, row' = row \/ broken', broken => broken',
         \A q \in Requests \ {r} : req'[q] = req[q],
         req'[r].pc \in {"idle", "snapshot"},
         row.exists /\ WillShow(r) => req'[r].pc = "snapshot" \/ broken'
  PROVE  FilesRight'
<1> DEFINE new == req[r].new
<1>1. /\ CellFiles(row) \subseteq 1 .. Len(file) /\ row.image \in 0 .. Len(file)
      /\ Len(file) \in Nat /\ None \notin CellFiles(row)
      /\ \A q \in Requests : Uploaded(q) => req[q].new \in 1 .. Len(file)
  BY NamedFiles
<1>2. \A f \in 1 .. Len(file) : file'[f] = IF f = new THEN Gone ELSE file[f]
  BY FilesDeleted DEF Typed, TypedStores
<1>3. FilesAreOwn'
  <2>1. ~Uploaded(r)'
    BY DEF Uploaded
  <2>2. ASSUME NEW q \in Requests \ {r}, Uploaded(q)
        PROVE  file'[req[q].new] = file[req[q].new]
    <3>1. req[q].new # new
      <4>1. CASE Uploaded(r)
        BY <2>2, <4>1 DEF FilesRight, FilesAreOwn
      <4>2. CASE new = None
        BY <1>1, <2>2, <4>2 DEF None
      <4> QED
        BY <4>1, <4>2
    <3> QED
      BY <1>1, <1>2, <2>2, <3>1
  <2> QED
    BY <2>1, <2>2, FilesStayOwn DEF FilesRight
<1>4. CASE broken'
  BY <1>3, <1>4 DEF FilesRight, NamedKinds, RebuildsCome
<1>5. CASE ~broken'
  <2>1. row' = row /\ ~broken
    BY <1>5
  <2>2. new \notin CellFiles(row) /\ (row.image # None => new # row.image)
    BY <1>1 DEF FilesRight, FilesAreOwn
  <2>3. \A f \in CellFiles(row) : file'[f] = file[f]
    BY <1>1, <1>2, <2>2
  <2>4. row.image # None => file'[row.image] = file[row.image]
    BY <1>1, <1>2, <2>2 DEF None
  <2>5. NamedKinds'
    BY <2>1, <2>3, <2>4 DEF FilesRight, NamedKinds
  <2>6. ASSUME row.exists, NEW q \in Requests, WillShow(q)
        PROVE  WillShow(q)'
    BY <1>5, <2>1, <2>6 DEF WillShow, At, ComposesSameAs
  <2>7. RebuildsCome'
    BY <2>1, <2>4, <2>6 DEF FilesRight, RebuildsCome
  <2> QED
    BY <1>3, <2>5, <2>7 DEF FilesRight
<1> QED
  BY <1>4, <1>5

LEMMA RefusalKeepsFiles ==
  ASSUME Typed, FilesRight, NEW r \in Requests,
         SaveRefused(r) \/ SaveUnacknowledged(r) \/ SwapRefused(r) \/ SwapFails(r)
  PROVE  FilesRight'
<1> DEFINE x == req[r]
<1>1. Holds(x, Len(file), Len(menu)) /\ x \in Request /\ broken \in BOOLEAN /\ Len(file) \in Nat
  BY Lengths DEF Typed, TypedStores, Holds
<1>2. /\ Delete({req[r].new})
      /\ (broken => broken')
      /\ \A q \in Requests \ {r} : req'[q] = req[q]
      /\ req'[r].pc \in {"idle", "snapshot"}
  <2>1. CASE Done(r)
    BY <2>1, Finished DEF Becomes, SaveRefused, SaveUnacknowledged, SwapRefused, SwapFails
  <2>2. CASE ~Done(r)
    BY <1>1, <2>2 DEF SaveRefused, SaveUnacknowledged, SwapRefused, SwapFails, Typed, Request
  <2> QED
    BY <2>1, <2>2
<1>3. CASE SaveRefused(r)
  <2>1. row' = row /\ x.pc \in {"save", "begin"} /\ ~WillShow(r)
    BY <1>3 DEF SaveRefused, At, WillShow
  <2>2. Uploaded(r) \/ req[r].new = None
    BY <1>1, <2>1 DEF Uploaded, Holds
  <2>3. Names(r)
    BY <2>1 DEF Names
  <2> HIDE DEF x
  <2> QED
    BY <1>2, <2>1, <2>2, <2>3, DiscardKeepsFiles
<1>4. CASE SaveUnacknowledged(r)
  <2>1. /\ row'.exists = row.exists /\ broken' /\ At(r, "save") /\ ~WillShow(r)
        /\ \A f \in CellFiles(row') : f \in CellFiles(row) \/ f = x.new
        /\ row'.image \in {row.image, x.new}
    BY <1>4, SavedNames DEF SaveUnacknowledged, At, WillShow
  <2>2. Uploaded(r)
    BY <1>1, <2>1 DEF Uploaded, Holds, At, None
  <2>3. Names(r)
    BY <2>1, <2>2 DEF Names
  <2> HIDE DEF x
  <2> QED
    BY <1>2, <2>1, <2>2, <2>3, DiscardKeepsFiles
<1>5. CASE SwapRefused(r)
  <2>1. row' = row /\ At(r, "swap") /\ (Uploaded(r) \/ req[r].new = None)
    BY <1>5 DEF SwapRefused, At, Uploaded
  <2>2. row.exists => ~WillShow(r)
    BY <1>5 DEF SwapRefused, Swappable, WillShow, At
  <2>3. Names(r)
    BY <2>1 DEF Names
  <2> HIDE DEF x
  <2> QED
    BY <1>2, <2>1, <2>2, <2>3, DiscardKeepsFiles
<1>6. CASE SwapFails(r)
  <2>1. /\ row' \in {row, [row EXCEPT !.image = req[r].new]} /\ broken' /\ At(r, "swap")
        /\ (Uploaded(r) \/ req[r].new = None)
    BY <1>6 DEF SwapFails, At, Uploaded
  <2>2. /\ row'.exists = row.exists /\ row'.cells = row.cells
        /\ row'.image \in {row.image, x.new}
    <3>1. row \in Row
      BY NamedFiles
    <3> QED
      BY <2>1, <3>1 DEF Row
  <2>3. Names(r)
    BY <2>1, <2>2 DEF Names, CellFiles
  <2> HIDE DEF x
  <2> QED
    BY <1>2, <2>1, <2>2, <2>3, DiscardKeepsFiles
<1> QED
  BY <1>3, <1>4, <1>5, <1>6
\* A file is stored, and a rebuild reads the row.
LEMMA StoredKeepsFiles ==
  ASSUME Typed, FilesRight, NEW r \in Requests, StoreUpload(r) \/ Compose(r)
  PROVE  FilesRight'
<1> DEFINE x == req[r]
<1>1. /\ Holds(x, Len(file), Len(menu)) /\ x \in Request /\ Len(file) \in Nat /\ row \in Row
      /\ file \in Seq(FileRow) /\ req \in [Requests -> Request]
  BY Lengths DEF Typed, TypedStores, InRange, Holds
<1>2. CASE StoreUpload(r)
  <2> DEFINE stored == IF x.op = "upload" THEN Full(row.size) ELSE CellArt(row)
             new == Len(file) + 1
             y == [x EXCEPT !.pc = "save", !.new = new]
  <2>1. stored \in FileRow /\ file' = Append(file, stored)
    BY <1>1, <1>2, ArtTypes DEF StoreUpload
  <2> HIDE DEF stored
  <2>2. Len(file') = new /\ \A f \in 1 .. Len(file) : file'[f] = file[f]
    BY <1>1, <2>1, FileStored
  <2>3. req' = [req EXCEPT ![r] = y] /\ At(r, "begin") /\ UNCHANGED <<row, broken>>
    BY <1>2 DEF StoreUpload
  <2>4. new \in Nat /\ new = Len(file) + 1
    BY <1>1
  <2> HIDE DEF new
  <2>5. y \in Request /\ y.pc = "save" /\ y.snap = x.snap /\ y.new = new
    BY <1>1, <2>4 DEF Request, PCs
  <2> HIDE DEF y
  <2>6. Becomes(r, "save", x.snap, new)
    BY <1>1, <2>3, <2>5 DEF Becomes
  <2> QED
    BY <2>2, <2>3, <2>4, <2>6, StoringKeepsFiles DEF At
<1>3. CASE Compose(r)
  <2> DEFINE none == CellFiles(x.snap) = {}
             new == IF none THEN None ELSE Len(file) + 1
             y == [x EXCEPT !.pc = "swap", !.new = new]
  <2>1. Composite(x.snap) \in FileRow /\ At(r, "compose")
    BY <1>1, <1>3, ArtTypes DEF Compose, At, Holds, HasRead, InRange
  <2>2. file' = IF none THEN file ELSE Append(file, Composite(x.snap))
    BY <1>3 DEF Compose
  <2>3. \/ file' = file /\ new = None
        \/ /\ Len(file') = Len(file) + 1 /\ \A f \in 1 .. Len(file) : file'[f] = file[f]
           /\ new = Len(file) + 1 /\ file'[new] = Composite(x.snap)
    BY <1>1, <2>1, <2>2, FileStored
  <2>4. req' = [req EXCEPT ![r] = y] /\ UNCHANGED <<row, broken>>
    BY <1>3 DEF Compose
  <2>5. new \in Nat
    BY <1>1 DEF None
  <2> HIDE DEF new
  <2>6. y \in Request /\ y.pc = "swap" /\ y.snap = x.snap /\ y.new = new
    BY <1>1, <2>5 DEF Request, PCs
  <2> HIDE DEF y
  <2>7. Becomes(r, "swap", x.snap, new)
    BY <1>1, <2>4, <2>6 DEF Becomes
  <2> QED
    BY <2>1, <2>3, <2>4, <2>7, StoringKeepsFiles DEF At
<1> QED
  BY <1>2, <1>3

\* The request of a step that stores no file and leaves those of the others.
LEMMA RebuildKeepsFiles ==
  ASSUME Typed, FilesRight, NEW r \in Requests,
         Snapshot(r) \/ RebuildEnds(r) \/ RebuildFails(r) \/ DeleteRow(r)
  PROVE  FilesRight'
<1> DEFINE x == req[r]
<1>1. /\ \A q \in Requests \ {r} : req'[q] = req[q]
      /\ req'[r].pc \in {"idle", "compose"}
  <2>1. CASE Done(r)
    BY <2>1, Finished DEF Becomes
  <2>2. CASE ~Done(r)
    BY <2>2 DEF Snapshot, RebuildEnds, RebuildFails, DeleteRow, Typed, Request
  <2> QED
    BY <2>1, <2>2
<1>2. /\ CellFiles(row') = CellFiles(row) /\ row'.image = row.image
      /\ row'.exists => (row.exists /\ row' = row /\ file' = file)
  <2>1. CASE DeleteRow(r)
    BY <2>1, MarkedTypes DEF DeleteRow, CellFiles
  <2> QED
    BY <2>1 DEF Snapshot, RebuildEnds, RebuildFails
<1>3. FilesAreOwn'
  <2>1. Names(r) /\ ~Uploaded(r)'
    BY <1>1, <1>2 DEF Names, Uploaded
  <2> QED
    BY <1>1, <1>2, <2>1, FilesStayOwn DEF FilesRight
<1>4. CASE broken' \/ ~row'.exists
  BY <1>3, <1>4 DEF FilesRight, NamedKinds, RebuildsCome
<1>5. CASE ~broken' /\ row'.exists
  <2>1. UNCHANGED <<row, file, broken>> /\ row.exists /\ (Snapshot(r) \/ RebuildEnds(r))
    BY <1>2, <1>5, MarkedTypes
       DEF Snapshot, RebuildEnds, RebuildFails, DeleteRow
  <2>2. NamedKinds'
    BY <2>1 DEF FilesRight, NamedKinds
  <2>3. ASSUME NEW q \in Requests \ {r}, WillShow(q)
        PROVE  WillShow(q)'
    BY <1>1, <2>1, <2>3 DEF WillShow, At, ComposesSameAs
  <2>4. CASE Snapshot(r)
    <3>1. WillShow(r)'
      <4>1. req'[r].pc = "compose" /\ req'[r].snap = row
        BY <2>4 DEF Snapshot, Typed, Request
      <4> QED
        BY <2>1, <4>1 DEF WillShow, At, ComposesSameAs
    <3> QED
      BY <1>3, <2>2, <3>1 DEF FilesRight, RebuildsCome
  <2>5. CASE RebuildEnds(r)
    <3>1. CellFiles(row) # {} => ~WillShow(r)
      <4> SUFFICES ASSUME CellFiles(row) # {}, WillShow(r)
                   PROVE  FALSE
        OBVIOUS
      <4>1. CASE At(r, "snapshot")
        BY <2>1, <2>5, <4>1 DEF RebuildEnds, At, NothingToCompose
      <4>2. CASE ~At(r, "snapshot")
        <5>1. PICK f \in CellFiles(x.snap) : ~Stored(f)
          BY <2>5, <4>2 DEF RebuildEnds
        <5>2. row.cells = x.snap.cells
          BY <4>2 DEF WillShow, ComposesSameAs, Composite
        <5>3. f \in CellFiles(row) /\ f # None
          BY <5>1, <5>2 DEF CellFiles
        <5>4. file[f].kind = "cell"
          BY <1>5, <2>1, <5>3 DEF FilesRight, NamedKinds
        <5> QED
          BY <5>1, <5>3, <5>4 DEF Stored, Gone
      <4> QED
        BY <4>1, <4>2
    <3> QED
      BY <1>3, <1>5, <2>1, <2>2, <2>3, <3>1 DEF FilesRight, RebuildsCome
  <2> QED
    BY <2>1, <2>4, <2>5
<1> QED
  BY <1>4, <1>5
\* The image of a rebuild replaces the one it read, and that one is deleted.
LEMMA SwapKeepsFiles ==
  ASSUME Typed, FilesRight, NEW r \in Requests, Swap(r)
  PROVE  FilesRight'
<1> DEFINE new == req[r].new
           snap == req[r].snap
           swapped == [row EXCEPT !.image = new]
<1>1. /\ At(r, "swap") /\ row.exists /\ Composite(row) = Composite(snap)
      /\ row' = swapped /\ Delete({row.image}) /\ Done(r) /\ broken' = broken
  BY DEF Swap, Swappable, ComposesSameAs
<1>2. /\ CellFiles(row) \subseteq 1 .. Len(file) /\ row.image \in 0 .. Len(file)
      /\ Len(file) \in Nat /\ None \notin CellFiles(row) /\ row \in Row
      /\ \A q \in Requests : Uploaded(q) => req[q].new \in 1 .. Len(file)
  BY NamedFiles
<1>3. /\ row'.exists /\ row'.image = new /\ row'.cells = row.cells
      /\ Composite(row') = Composite(row)
  BY <1>1, SwappedTypes
<1>4. CellFiles(row') = CellFiles(row) /\ CellFiles(snap) = CellFiles(row)
  BY <1>1, <1>3 DEF CellFiles, Composite
<1>5. /\ new \in 0 .. Len(file) /\ (new = None <=> CellFiles(row) = {})
      /\ Uploaded(r) <=> new # None
  BY <1>1, <1>4 DEF Typed, Holds, At, Uploaded
<1>6. new # None => file[new] = Composite(row) /\ new # row.image /\ new \notin CellFiles(row)
  BY <1>1, <1>5 DEF FilesRight, FilesAreOwn
<1> HIDE DEF new, snap, swapped
<1>7. \A f \in 1 .. Len(file) : file'[f] = IF f = row.image THEN Gone ELSE file[f]
  BY <1>1, FilesDeleted DEF Typed, TypedStores
<1>8. req'[r].pc = "idle" /\ \A q \in Requests \ {r} : req'[q] = req[q]
  BY <1>1, Finished DEF Becomes
<1>9. FilesAreOwn'
  <2>1. Names(r)
    BY <1>3, <1>4, <1>5 DEF Names, new
  <2>2. ASSUME NEW q \in Requests \ {r}, Uploaded(q)
        PROVE  file'[req[q].new] = file[req[q].new]
    BY <1>2, <1>7, <2>2 DEF FilesRight, FilesAreOwn
  <2>3. ~Uploaded(r)'
    BY <1>8 DEF Uploaded
  <2> QED
    BY <1>1, <1>8, <2>1, <2>2, <2>3, FilesStayOwn DEF FilesRight
<1>10. new # None => file'[new] = Composite(row')
  BY <1>3, <1>5, <1>6, <1>7 DEF None
<1>11. NamedKinds'
  <2> SUFFICES ASSUME ~broken
               PROVE  /\ \A f \in CellFiles(row) : file'[f].kind = "cell"
                      /\ new # None => file'[new].kind \in {"full", "composite"}
    BY <1>1, <1>3, <1>4 DEF NamedKinds
  <2>1. /\ \A f \in CellFiles(row) : file[f].kind = "cell"
        /\ row.image # None => file[row.image].kind \in {"full", "composite"}
    BY <1>1 DEF FilesRight, NamedKinds
  <2>2. \A f \in CellFiles(row) : f # row.image
    BY <1>2, <2>1
  <2>3. Composite(row).kind = "composite"
    BY <1>2, ArtTypes
  <2> QED
    BY <1>2, <1>3, <1>7, <1>10, <2>1, <2>2, <2>3
<1>12. RebuildsCome'
  BY <1>3, <1>4, <1>5, <1>10 DEF RebuildsCome
<1> QED
  BY <1>9, <1>11, <1>12 DEF FilesRight

\* Every other step leaves the files alone.
LEMMA QuietSteps ==
  ASSUME Typed, NEW r \in Requests,
         \/ BeginAny(r) \/ NotFound(r) \/ UploadRefused(r)
         \/ ReadForPublish(r) \/ PublishRefused(r) \/ CreateMenu(r)
         \/ PointAlias(r) \/ PointDefault(r) \/ PublishFails(r)
         \/ CommitPublish(r) \/ Retire(r) \/ RetireFails(r)
         \/ ReadPublished(r) \/ CallRefused(r) \/ SetDefault(r) \/ LinkUser(r)
         \/ UnlinkUser(r) \/ ClearDefault(r) \/ MarkDefault(r)
         \/ CheckOrphan(r) \/ ReadForRemoval(r) \/ TakeDown(r) \/ TakeDownFails(r)
         \/ RemoveAlias(r)
  PROVE  QuietFiles(r)
<1> DEFINE Ends == req'[r].pc \notin Storing /\ \A q \in Requests \ {r} : req'[q] = req[q]
<1>1. Done(r) => Ends
  BY Finished DEF Becomes, Storing
<1>2. ASSUME NEW pc \in {"default", "commit", "retire", "mark", "takeDown", "unalias", "delete"},
             Go(r, pc)
      PROVE  Ends
  BY <1>2, Moved DEF Becomes, Storing, PCs
<1>3. ASSUME UNCHANGED <<row, file, broken>>, req[r].pc \notin Storing, Ends
      PROVE  QuietFiles(r)
  BY <1>3 DEF QuietFiles
<1>4. /\ req \in [Requests -> Request] /\ req[r] \in Request
      /\ req[r].op \in Ops
  BY DEF Typed, Request
<1>5. CASE BeginAny(r)
  <2>1. UNCHANGED <<row, file, broken>> /\ req[r].pc = "idle"
    BY <1>5 DEF BeginAny, Begin
  <2>2. PICK op, arg : Begin(r, op, arg)
    BY <1>5 DEF BeginAny
  <2> DEFINE y == [Idle EXCEPT !.pc = "begin", !.op = op, !.arg = arg]
  <2>3. req' = [req EXCEPT ![r] = y]
    BY <2>2 DEF Begin
  <2>4. y.pc = "begin"
    BY DEF Idle
  <2> HIDE DEF y
  <2>5. Ends
    BY <1>4, <2>3, <2>4 DEF Storing
  <2> QED
    BY <1>3, <2>1, <2>5 DEF Storing
<1>6. CASE \/ NotFound(r) \/ UploadRefused(r) \/ PublishRefused(r) \/ PointAlias(r)
           \/ PointDefault(r) \/ PublishFails(r) \/ Retire(r) \/ RetireFails(r) \/ CallRefused(r)
           \/ SetDefault(r) \/ LinkUser(r) \/ UnlinkUser(r) \/ ClearDefault(r) \/ CheckOrphan(r)
           \/ TakeDown(r) \/ TakeDownFails(r) \/ RemoveAlias(r)
  <2>1. UNCHANGED <<row, file, broken>> /\ req[r].pc \notin Storing
    BY <1>6 DEF NotFound, UploadRefused, PublishRefused, PointAlias, PointDefault, PublishFails,
         Retire, RetireFails, CallRefused, SetDefault, LinkUser, UnlinkUser, ClearDefault,
         CheckOrphan, TakeDown, TakeDownFails, RemoveAlias, At, Storing
  <2>2. \/ Done(r)
        \/ \E pc \in {"default", "commit", "retire", "mark", "takeDown", "unalias", "delete"} :
             Go(r, pc)
    BY <1>6 DEF NotFound, UploadRefused, PublishRefused, PointAlias, PointDefault, PublishFails,
         Retire, RetireFails, CallRefused, SetDefault, LinkUser, UnlinkUser, ClearDefault,
         CheckOrphan, TakeDown, TakeDownFails, RemoveAlias
  <2> QED
    BY <1>1, <1>2, <1>3, <2>1, <2>2
<1>7. CASE ReadForPublish(r) \/ CreateMenu(r) \/ ReadPublished(r) \/ ReadForRemoval(r)
  <2>1. UNCHANGED <<row, file, broken>> /\ req[r].pc \notin Storing
    BY <1>7 DEF ReadForPublish, CreateMenu, ReadPublished, ReadForRemoval, At, Storing
  <2>2. CASE Done(r)
    BY <1>1, <1>3, <2>1, <2>2
  <2>3. CASE ~Done(r)
    <3>1. Ends
      BY <1>4, <1>7, <2>3
         DEF ReadForPublish, CreateMenu, ReadPublished, ReadForRemoval, Request, Storing
    <3> QED
      BY <1>3, <2>1, <3>1
  <2> QED
    BY <2>2, <2>3
<1>8. CASE CommitPublish(r)
  <2>1. /\ UNCHANGED <<file, broken>> /\ At(r, "commit") /\ row' \in {row, Published(r)}
        /\ Done(r) \/ Go(r, "retire")
    BY <1>8 DEF CommitPublish
  <2>2. Picture(row') = Picture(row) /\ row'.exists = row.exists
    BY <2>1, PublishedTypes DEF Picture
  <2> QED
    BY <1>1, <1>2, <2>1, <2>2 DEF QuietFiles, At, Storing
<1>9. CASE MarkDefault(r)
  <2>1. /\ UNCHANGED <<file, broken>> /\ At(r, "mark") /\ Done(r)
        /\ \E on \in BOOLEAN : row' = [row EXCEPT !.isDefault = on]
    BY <1>9 DEF MarkDefault
  <2>2. Picture(row') = Picture(row) /\ row'.exists = row.exists
    BY <2>1, MarkedTypes DEF Picture
  <2> QED
    BY <1>1, <2>1, <2>2 DEF QuietFiles, At, Storing
<1> QED
  BY <1>5, <1>6, <1>7, <1>8, <1>9

LEMMA StepKeepsFiles ==
  ASSUME Typed, FilesRight, NEW r \in Requests, Step(r)
  PROVE  FilesRight'
<1>1. Typed'
  BY StepTyped
<1>2. CASE QuietFiles(r)
  <2>1. broken' \in BOOLEAN
    BY <1>1 DEF Typed, TypedStores
  <2> QED
    BY <1>2, <2>1, QuietKeepsFiles DEF FilesRight
<1>3. CASE \/ StoreUpload(r) \/ SaveEdit(r) \/ SaveRefused(r) \/ SaveUnacknowledged(r)
           \/ Snapshot(r) \/ Compose(r) \/ RebuildEnds(r) \/ RebuildFails(r)
           \/ Swap(r) \/ SwapRefused(r) \/ SwapFails(r) \/ DeleteRow(r)
  BY <1>1, <1>3, EditKeepsFiles, RefusalKeepsFiles, StoredKeepsFiles, RebuildKeepsFiles,
     SwapKeepsFiles
<1> QED
  BY <1>2, <1>3, QuietSteps DEF Step
-----------------------------------------------------------------------------
(* Menus.                                                                      *)

\* A menu that goes is neither the one the row names nor one another request created.
LosesNone(r) ==
    \A m : Stands(m) =>
      \/ Stands(m)'
      \/ m # row'.lineId /\ \A q \in Requests \ {r} : Created(q) => req[q].new # m

\* The row names what it named, or what request r created.
NamesMenu(r) ==
    /\ row'.exists => row.exists
    /\ \/ row'.lineId = row.lineId
       \/ Created(r) /\ row'.lineId = req[r].new /\ Stands(row.lineId)'

\* Request r holds the menu that it held or a new one, and the row it had read or the row.
HoldsMenu(r) ==
    /\ Created(r)' =>
         \/ /\ Created(r) /\ req'[r].new = req[r].new /\ row'.lineId = row.lineId
            /\ ~(req'[r].pc = "alias") => Stands(req[r].new)'
         \/ req'[r].pc = "alias" /\ req'[r].new = Len(menu) + 1 /\ row'.lineId = row.lineId
    /\ HasRead(req'[r]) =>
         \/ req'[r].snap.lineId = row.lineId /\ ~Created(r)'
         \/ HasRead(req[r]) /\ req'[r].snap = req[r].snap
    /\ req'[r].pc = "retire" =>
         req'[r].snap.lineId \in {None} \/ req'[r].snap.lineId # row'.lineId

MenusRight == MenusAreOwn /\ NamedMenuIsLive

LEMMA MadeMenus ==
  ASSUME Typed, NEW q \in Requests
  PROVE  /\ Len(menu) \in Nat /\ row.lineId \in 0 .. Len(menu)
         /\ Created(q) => req[q].new \in 1 .. Len(menu)
         /\ HasRead(req[q]) => req[q].snap.lineId \in 0 .. Len(menu)
<1>1. Len(menu) \in Nat /\ InRange(row, Len(file), Len(menu)) /\ Holds(req[q], Len(file), Len(menu))
  BY Lengths DEF Typed, TypedStores
<1> QED
  BY <1>1 DEF InRange, Holds, Created

LEMMA MenusStay ==
  ASSUME Typed, MenusRight, NEW r \in Requests, \A q \in Requests \ {r} : req'[q] = req[q],
         LosesNone(r), NamesMenu(r), HoldsMenu(r)
  PROVE  MenusRight'
<1>1. NamedMenuIsLive'
  <2> SUFFICES ASSUME row'.exists, row'.lineId # None
               PROVE  Stands(row.lineId)'
    BY DEF NamedMenuIsLive, Stands, Live
  <2>1. CASE row'.lineId = row.lineId
    <3>1. Stands(row.lineId)
      BY <2>1 DEF MenusRight, NamedMenuIsLive, NamesMenu, Stands
    <3> QED
      BY <2>1, <3>1 DEF LosesNone, Stands, Live
  <2> QED
    BY <2>1 DEF NamesMenu, Stands, Live
<1>2. Len(menu) \in Nat /\ row.lineId \in 0 .. Len(menu)
  BY MadeMenus
<1>3. ASSUME NEW q \in Requests, Created(q)'
      PROVE  /\ req'[q].new # row'.lineId
             /\ \A p \in Requests : HasRead(req'[p]) => req'[p].snap.lineId # req'[q].new
             /\ \A p \in Requests \ {q} : Created(p)' => req'[p].new # req'[q].new
             /\ ~(req'[q].pc = "alias") => Stands(req[q].new)'
  <2>1. CASE q # r
    <3>1. req'[q] = req[q] /\ Created(q)
      BY <1>3, <2>1 DEF Created
    <3>2. /\ req[q].new # row.lineId
          /\ \A p \in Requests : HasRead(req[p]) => req[p].snap.lineId # req[q].new
          /\ \A p \in Requests \ {q} : Created(p) => req[p].new # req[q].new
          /\ ~(req[q].pc = "alias") => Stands(req[q].new)
          /\ req[q].new \in 1 .. Len(menu)
      BY <3>1, MadeMenus DEF MenusRight, MenusAreOwn, At
    <3>3. req'[q].new # row'.lineId
      BY <2>1, <3>1, <3>2 DEF NamesMenu
    <3>4. \A p \in Requests : HasRead(req'[p]) => req'[p].snap.lineId # req'[q].new
      BY <3>1, <3>2 DEF HoldsMenu
    <3>5. \A p \in Requests \ {q} : Created(p)' => req'[p].new # req'[q].new
      <4>1. ASSUME NEW p \in Requests \ {q}, Created(p)', p # r
            PROVE  req'[p].new # req'[q].new
        BY <3>1, <3>2, <4>1 DEF Created
      <4>2. Created(r)' => req'[r].new # req'[q].new
        BY <1>2, <2>1, <3>1, <3>2 DEF HoldsMenu
      <4> QED
        BY <4>1, <4>2
    <3>6. ~(req'[q].pc = "alias") => Stands(req[q].new)'
      BY <2>1, <3>1, <3>2 DEF LosesNone, Stands, Live
    <3> QED
      BY <3>3, <3>4, <3>5, <3>6
  <2>2. CASE q = r /\ Created(r) /\ req'[r].new = req[r].new /\ row'.lineId = row.lineId
             /\ (~(req'[r].pc = "alias") => Stands(req[r].new)')
    <3>1. /\ req[r].new # row.lineId
          /\ \A p \in Requests : HasRead(req[p]) => req[p].snap.lineId # req[r].new
          /\ \A p \in Requests \ {r} : Created(p) => req[p].new # req[r].new
      BY <2>2 DEF MenusRight, MenusAreOwn
    <3>2. \A p \in Requests : HasRead(req'[p]) => req'[p].snap.lineId # req[r].new
      BY <3>1 DEF HoldsMenu
    <3>3. \A p \in Requests \ {r} : Created(p)' => req'[p].new # req[r].new
      BY <3>1 DEF Created
    <3> QED
      BY <2>2, <3>1, <3>2, <3>3
  <2>3. CASE /\ q = r /\ req'[r].pc = "alias" /\ req'[r].new = Len(menu) + 1
             /\ row'.lineId = row.lineId
    <3>1. \A p \in Requests : HasRead(req'[p]) => req'[p].snap.lineId \in 0 .. Len(menu)
      BY <1>2, MadeMenus DEF HoldsMenu
    <3>2. \A p \in Requests \ {r} : Created(p)' => req'[p].new \in 1 .. Len(menu)
      BY MadeMenus DEF Created
    <3> QED
      BY <1>2, <2>3, <3>1, <3>2
  <2> QED
    BY <1>3, <2>1, <2>2, <2>3 DEF HoldsMenu
<1>4. ASSUME NEW q \in Requests, req'[q].pc = "retire"
      PROVE  req'[q].snap.lineId \in {None} \/ req'[q].snap.lineId # row'.lineId
  <2>1. CASE q = r
    BY <1>4, <2>1 DEF HoldsMenu
  <2>2. CASE q # r
    <3>1. req'[q] = req[q] /\ HasRead(req[q])
      BY <1>4, <2>2 DEF HasRead
    <3>2. req[q].snap.lineId \in {None} \/ req[q].snap.lineId # row.lineId
      BY <1>4, <3>1 DEF MenusRight, MenusAreOwn, At
    <3> QED
      BY <3>1, <3>2 DEF NamesMenu, MenusRight, MenusAreOwn
  <2> QED
    BY <2>1, <2>2
<1>5. MenusAreOwn'
  BY <1>3, <1>4 DEF MenusAreOwn, At, Created, HasRead, Stands, Live
<1> QED
  BY <1>1, <1>5 DEF MenusRight
\* The steps that leave the menus as they are, and the menu that the row names.
LEMMA QuietKeepsMenus ==
  ASSUME Typed, MenusRight, NEW r \in Requests, UNCHANGED <<menu, takenDown>>,
         row'.lineId = row.lineId, row'.exists => row.exists,
         \A q \in Requests \ {r} : req'[q] = req[q],
         req'[r].pc \notin {"alias", "default", "commit", "retire"},
         HasRead(req'[r]) =>
           \/ req'[r].snap = row
           \/ HasRead(req[r]) /\ req'[r].snap = req[r].snap
  PROVE  MenusRight'
<1>1. LosesNone(r)
  BY DEF LosesNone, Stands, Live
<1>2. NamesMenu(r)
  BY DEF NamesMenu
<1>3. HoldsMenu(r)
  BY DEF HoldsMenu, Created
<1> QED
  BY <1>1, <1>2, <1>3, MenusStay

LEMMA DoneKeepsMenus ==
  ASSUME Typed, MenusRight, NEW r \in Requests, UNCHANGED <<menu, takenDown>>,
         row'.lineId = row.lineId, row'.exists => row.exists, Done(r)
  PROVE  MenusRight'
<1>1. req'[r].pc = "idle" /\ \A q \in Requests \ {r} : req'[q] = req[q]
  BY Finished DEF Becomes
<1>2. ~HasRead(req'[r])
  BY <1>1 DEF HasRead
<1> QED
  BY <1>1, <1>2, QuietKeepsMenus

\* Editing and rebuilding the image has nothing to do with the menus.
LEMMA EditKeepsMenus ==
  ASSUME Typed, MenusRight, NEW r \in Requests,
         \/ StoreUpload(r) \/ SaveEdit(r) \/ SaveRefused(r) \/ SaveUnacknowledged(r)
         \/ Snapshot(r) \/ Compose(r) \/ RebuildEnds(r) \/ RebuildFails(r)
         \/ Swap(r) \/ SwapRefused(r) \/ SwapFails(r)
  PROVE  MenusRight'
<1>1. UNCHANGED <<menu, takenDown>>
  BY DEF StoreUpload, SaveEdit, SaveRefused, SaveUnacknowledged, Snapshot, Compose, RebuildEnds,
    RebuildFails, Swap, SwapRefused, SwapFails, line
<1>2. row'.lineId = row.lineId /\ row'.exists = row.exists
  <2>1. CASE SaveEdit(r) \/ SaveUnacknowledged(r)
    <3>1. /\ row' = Edited(SavedRow(r))
          /\ \/ At(r, "save") /\ Fits(r)
             \/ At(r, "begin") /\ req[r].op \in {"size", "layout", "uncell"}
      BY <2>1 DEF SaveEdit, SaveUnacknowledged
    <3> QED
      BY <3>1, SavedTypes
  <2>2. CASE Swap(r) \/ SwapFails(r)
    BY <2>2, SwappedTypes DEF Swap, SwapFails
  <2>3. CASE \/ StoreUpload(r) \/ SaveRefused(r) \/ Snapshot(r) \/ Compose(r) \/ RebuildEnds(r)
             \/ RebuildFails(r) \/ SwapRefused(r)
    BY <2>3 DEF StoreUpload, SaveRefused, Snapshot, Compose, RebuildEnds, RebuildFails,
      SwapRefused
  <2> QED
    BY <2>1, <2>2, <2>3
<1>3. CASE Done(r)
  BY <1>1, <1>2, <1>3, DoneKeepsMenus
<1>4. CASE ~Done(r)
  <2>1. req \in [Requests -> Request] /\ req[r] \in Request
    BY DEF Typed
  <2>2. CASE StoreUpload(r) \/ SaveEdit(r) \/ SwapRefused(r)
    <3>1. \A q \in Requests \ {r} : req'[q] = req[q]
      BY <1>4, <2>1, <2>2 DEF StoreUpload, SaveEdit, SwapRefused
    <3>2. req'[r].pc \in {"save", "snapshot"}
      BY <1>4, <2>1, <2>2 DEF StoreUpload, SaveEdit, SwapRefused, Request
    <3>3. ~HasRead(req'[r])
      BY <3>2 DEF HasRead
    <3> QED
      BY <1>1, <1>2, <3>1, <3>2, <3>3, QuietKeepsMenus
  <2>3. CASE Snapshot(r) \/ Compose(r)
    <3>1. \A q \in Requests \ {r} : req'[q] = req[q]
      BY <2>1, <2>3 DEF Snapshot, Compose
    <3>2. /\ req'[r].pc \in {"compose", "swap"}
          /\ req'[r].snap = row \/ (At(r, "compose") /\ req'[r].snap = req[r].snap)
      BY <2>1, <2>3 DEF Snapshot, Compose, Request
    <3>3. HasRead(req'[r]) =>
            req'[r].snap = row \/ (HasRead(req[r]) /\ req'[r].snap = req[r].snap)
      BY <3>2 DEF HasRead, At
    <3> QED
      BY <1>1, <1>2, <3>1, <3>2, <3>3, QuietKeepsMenus
  <2> QED
    BY <1>4, <2>2, <2>3
       DEF SaveRefused, SaveUnacknowledged, RebuildEnds, RebuildFails, Swap, SwapFails
<1> QED
  BY <1>3, <1>4

\* Calls that end, and calls that read the row or change what LINE points at.
LEMMA CallKeepsMenus ==
  ASSUME Typed, MenusRight, NEW r \in Requests,
         \/ BeginAny(r) \/ NotFound(r) \/ UploadRefused(r) \/ ReadForPublish(r)
         \/ PublishRefused(r) \/ RetireFails(r) \/ ReadPublished(r) \/ CallRefused(r)
         \/ SetDefault(r) \/ LinkUser(r) \/ UnlinkUser(r) \/ ClearDefault(r) \/ MarkDefault(r)
         \/ CheckOrphan(r) \/ ReadForRemoval(r) \/ TakeDownFails(r) \/ RemoveAlias(r)
         \/ DeleteRow(r)
  PROVE  MenusRight'
<1>1. UNCHANGED <<menu, takenDown>>
  BY DEF BeginAny, Begin, NotFound, UploadRefused, ReadForPublish, PublishRefused, RetireFails,
    ReadPublished, CallRefused, SetDefault, LinkUser, UnlinkUser, ClearDefault, MarkDefault,
    CheckOrphan, ReadForRemoval, TakeDownFails, RemoveAlias, DeleteRow, line
<1>2. row'.lineId = row.lineId /\ (row'.exists => row.exists)
  <2>1. CASE MarkDefault(r) \/ DeleteRow(r)
    BY <2>1, MarkedTypes DEF MarkDefault, DeleteRow
  <2> QED
    BY <2>1 DEF BeginAny, Begin, NotFound, UploadRefused, ReadForPublish, PublishRefused,
      RetireFails, ReadPublished, CallRefused, SetDefault, LinkUser, UnlinkUser, ClearDefault,
      CheckOrphan, ReadForRemoval, TakeDownFails, RemoveAlias
<1>3. CASE Done(r)
  BY <1>1, <1>2, <1>3, DoneKeepsMenus
<1>4. CASE ~Done(r)
  <2>1. req \in [Requests -> Request] /\ req[r] \in Request
    BY DEF Typed
  <2>2. CASE BeginAny(r)
    <3>1. PICK op, arg : Begin(r, op, arg)
      BY <2>2 DEF BeginAny
    <3> DEFINE y == [Idle EXCEPT !.pc = "begin", !.op = op, !.arg = arg]
    <3>2. req' = [req EXCEPT ![r] = y] /\ y.pc = "begin"
      BY <3>1 DEF Begin, Idle
    <3> HIDE DEF y
    <3>3. req'[r].pc = "begin" /\ \A q \in Requests \ {r} : req'[q] = req[q]
      BY <2>1, <3>2
    <3>4. ~HasRead(req'[r])
      BY <3>3 DEF HasRead
    <3> QED
      BY <1>1, <1>2, <3>3, <3>4, QuietKeepsMenus
  <2>3. CASE ReadForPublish(r) \/ ReadForRemoval(r)
    <3>1. \A q \in Requests \ {r} : req'[q] = req[q]
      BY <1>4, <2>1, <2>3 DEF ReadForPublish, ReadForRemoval
    <3>2. req'[r].pc \in {"create", "takeDown", "unalias"} /\ req'[r].snap = row
      BY <1>4, <2>1, <2>3 DEF ReadForPublish, ReadForRemoval, Request
    <3> QED
      BY <1>1, <1>2, <3>1, <3>2, QuietKeepsMenus
  <2>4. CASE ReadPublished(r)
    <3>1. \A q \in Requests \ {r} : req'[q] = req[q]
      BY <1>4, <2>1, <2>4 DEF ReadPublished
    <3>2. req'[r].pc = "call"
      BY <1>4, <2>1, <2>4 DEF ReadPublished, Request
    <3>3. ~HasRead(req'[r])
      BY <3>2 DEF HasRead
    <3> QED
      BY <1>1, <1>2, <3>1, <3>2, <3>3, QuietKeepsMenus
  <2>5. CASE SetDefault(r) \/ ClearDefault(r) \/ CheckOrphan(r)
    <3>1. \/ Go(r, "mark")
          \/ Go(r, "takeDown") /\ req[r].op = "orphan"
      BY <1>4, <2>5 DEF SetDefault, ClearDefault, CheckOrphan
    <3>2. /\ \A q \in Requests \ {r} : req'[q] = req[q]
          /\ req'[r].pc \in {"mark", "takeDown"}
          /\ req'[r].pc = "takeDown" => req'[r].op = "orphan"
      BY <3>1, Moved DEF Becomes, PCs
    <3>3. ~HasRead(req'[r])
      BY <3>2 DEF HasRead
    <3> QED
      BY <1>1, <1>2, <3>2, <3>3, QuietKeepsMenus
  <2>6. CASE TakeDownFails(r) \/ RemoveAlias(r)
    <3>1. /\ Go(r, "unalias") \/ Go(r, "delete")
          /\ HasRead(req[r])
      BY <1>4, <2>6 DEF TakeDownFails, RemoveAlias, HasRead, At
    <3>2. /\ \A q \in Requests \ {r} : req'[q] = req[q]
          /\ req'[r].pc \in {"unalias", "delete"} /\ req'[r].snap = req[r].snap
      BY <3>1, Moved DEF Becomes, PCs
    <3> QED
      BY <1>1, <1>2, <3>1, <3>2, QuietKeepsMenus
  <2> QED
    BY <1>4, <2>2, <2>3, <2>4, <2>5, <2>6
       DEF NotFound, UploadRefused, PublishRefused, RetireFails, CallRefused, LinkUser,
         UnlinkUser, MarkDefault, DeleteRow
<1> QED
  BY <1>3, <1>4
LEMMA PublishKeepsMenus ==
  ASSUME Typed, MenusRight, NEW r \in Requests,
         \/ CreateMenu(r) \/ PointAlias(r) \/ PointDefault(r) \/ PublishFails(r)
         \/ CommitPublish(r)
  PROVE  MenusRight'
<1>1. /\ Len(menu) \in Nat /\ menu \in Seq(MenuRow) /\ req \in [Requests -> Request]
      /\ req[r] \in Request /\ Holds(req[r], Len(file), Len(menu))
  BY Lengths DEF Typed, TypedStores
<1>2. CASE CreateMenu(r)
  <2>1. /\ menu' = Append(menu, Shown(req[r].snap)) /\ UNCHANGED <<row, takenDown>>
        /\ At(r, "create") /\ HasRead(req[r])
    BY <1>2 DEF CreateMenu, At, HasRead
  <2>2. Shown(req[r].snap) \in MenuRow
    BY <1>1, <2>1, ArtTypes DEF Holds, InRange
  <2>3. Len(menu') = Len(menu) + 1 /\ \A m \in 1 .. Len(menu) : menu'[m] = menu[m]
    BY <1>1, <2>1, <2>2, AppendProperties
  <2>4. LosesNone(r)
    BY <1>1, <2>1, <2>3 DEF LosesNone, Stands, Live
  <2>5. NamesMenu(r)
    BY <2>1 DEF NamesMenu
  <2>6. CASE Done(r)
    <3>1. req'[r].pc = "idle" /\ \A q \in Requests \ {r} : req'[q] = req[q]
      BY <2>6, Finished DEF Becomes
    <3>2. HoldsMenu(r)
      BY <3>1 DEF HoldsMenu, Created, HasRead
    <3> QED
      BY <2>4, <2>5, <3>1, <3>2, MenusStay
  <2>7. CASE ~Done(r)
    <3> DEFINE new == Len(menu) + 1
               y == [req[r] EXCEPT !.pc = "alias", !.new = new]
    <3>1. req' = [req EXCEPT ![r] = y]
      BY <1>2, <2>7 DEF CreateMenu
    <3>2. y.pc = "alias" /\ y.new = new /\ y.snap = req[r].snap
      BY <1>1 DEF Request
    <3> HIDE DEF y
    <3>3. /\ \A q \in Requests \ {r} : req'[q] = req[q]
          /\ req'[r].pc = "alias" /\ req'[r].new = new /\ req'[r].snap = req[r].snap
      BY <1>1, <3>1, <3>2
    <3>4. HoldsMenu(r)
      BY <2>1, <3>3 DEF HoldsMenu, Created
    <3> QED
      BY <2>4, <2>5, <3>3, <3>4, MenusStay
  <2> QED
    BY <2>6, <2>7
<1>3. CASE PointAlias(r) \/ PointDefault(r)
  <2>1. UNCHANGED <<row, menu, takenDown>> /\ Live(req[r].new) /\ Created(r) /\ HasRead(req[r])
    BY <1>3 DEF PointAlias, PointDefault, At, Created, HasRead
  <2>2. Go(r, "default") \/ Go(r, "commit")
    BY <1>3 DEF PointAlias, PointDefault
  <2>3. /\ \A q \in Requests \ {r} : req'[q] = req[q]
        /\ req'[r].pc \in {"default", "commit"}
        /\ req'[r].new = req[r].new /\ req'[r].snap = req[r].snap
    BY <2>2, Moved DEF Becomes, PCs
  <2>4. LosesNone(r)
    BY <2>1 DEF LosesNone, Stands, Live
  <2>5. NamesMenu(r)
    BY <2>1 DEF NamesMenu
  <2>6. Stands(req[r].new)'
    BY <2>1, <2>3 DEF Stands, Live
  <2>7. HoldsMenu(r)
    BY <2>1, <2>3, <2>6 DEF HoldsMenu
  <2> QED
    BY <2>3, <2>4, <2>5, <2>7, MenusStay
<1>4. CASE PublishFails(r)
  <2>1. /\ UNCHANGED <<row, takenDown>> /\ Created(r) /\ Done(r)
        /\ menu' \in {menu, [menu EXCEPT ![req[r].new] = Gone]}
    BY <1>4 DEF PublishFails, At, Created
  <2>2. req'[r].pc = "idle" /\ \A q \in Requests \ {r} : req'[q] = req[q]
    BY <2>1, Finished DEF Becomes
  <2>3. req[r].new \in 1 .. Len(menu)
    BY <2>1, MadeMenus
  <2>4. /\ req[r].new # row.lineId
        /\ \A q \in Requests \ {r} : Created(q) => req[q].new # req[r].new
    BY <2>1 DEF MenusRight, MenusAreOwn
  <2>5. Len(menu') = Len(menu) /\ \A m \in 1 .. Len(menu) : m # req[r].new => menu'[m] = menu[m]
    BY <1>1, <2>1, <2>3, MenuDeleted
  <2>6. LosesNone(r)
    BY <2>1, <2>4, <2>5 DEF LosesNone, Stands, Live
  <2>7. NamesMenu(r) /\ HoldsMenu(r)
    BY <2>1, <2>2 DEF NamesMenu, HoldsMenu, Created, HasRead
  <2> QED
    BY <2>2, <2>6, <2>7, MenusStay
<1>5. CASE CommitPublish(r)
  <2>1. /\ UNCHANGED <<menu, takenDown>> /\ At(r, "commit") /\ Created(r) /\ HasRead(req[r])
        /\ row' \in {row, Published(r)}
        /\ Done(r) \/ (Go(r, "retire") /\ row' = Published(r))
    BY <1>5 DEF CommitPublish, line, At, Created, HasRead
  <2>2. /\ Stands(req[r].new) /\ req[r].snap.lineId # req[r].new
    BY <2>1 DEF MenusRight, MenusAreOwn, At
  <2>3. row'.lineId \in {row.lineId, req[r].new} /\ row'.exists = row.exists
        /\ (row' = Published(r) => row'.lineId = req[r].new)
    BY <2>1, PublishedTypes
  <2>4. LosesNone(r)
    BY <2>1 DEF LosesNone, Stands, Live
  <2>5. NamesMenu(r)
    BY <2>1, <2>2, <2>3 DEF NamesMenu, Stands, Live
  <2>6. /\ \A q \in Requests \ {r} : req'[q] = req[q]
        /\ \/ req'[r].pc = "idle"
           \/ /\ req'[r].pc = "retire" /\ req'[r].snap = req[r].snap
              /\ row'.lineId = req[r].new
    BY <2>1, <2>3, Finished, Moved DEF Becomes, PCs
  <2>7. HoldsMenu(r)
    BY <2>1, <2>2, <2>6 DEF HoldsMenu, Created, HasRead
  <2> QED
    BY <2>4, <2>5, <2>6, <2>7, MenusStay
<1> QED
  BY <1>2, <1>3, <1>4, <1>5

\* What is retired no row names any more; what an administrator removes is taken down.
LEMMA RetireKeepsMenus ==
  ASSUME Typed, MenusRight, NEW r \in Requests, Retire(r) \/ TakeDown(r)
  PROVE  MenusRight'
<1>1. /\ Len(menu) \in Nat /\ menu \in Seq(MenuRow) /\ req \in [Requests -> Request]
      /\ req[r] \in Request /\ Holds(req[r], Len(file), Len(menu)) /\ UNCHANGED row
  BY Lengths DEF Typed, TypedStores, Retire, TakeDown
<1>2. CASE Retire(r)
  <2> DEFINE old == req[r].snap.lineId
  <2>1. /\ UNCHANGED takenDown /\ At(r, "retire") /\ HasRead(req[r]) /\ Done(r)
        /\ IF Live(old) THEN menu' = [menu EXCEPT ![old] = Gone] ELSE menu' = menu
    BY <1>2 DEF Retire, At, HasRead
  <2>2. req'[r].pc = "idle" /\ \A q \in Requests \ {r} : req'[q] = req[q]
    BY <2>1, Finished DEF Becomes
  <2>3. /\ old = None \/ old # row.lineId
        /\ \A q \in Requests \ {r} : Created(q) => req[q].new # old
    BY <2>1 DEF MenusRight, MenusAreOwn
  <2>4. Len(menu') = Len(menu) /\ \A m \in 1 .. Len(menu) : m # old => menu'[m] = menu[m]
    BY <1>1, <2>1, MenuDeleted DEF Live
  <2>5. LosesNone(r)
    <3>1. CASE Live(old)
      <4>1. old # row.lineId
        BY <2>3, <3>1 DEF Live, None
      <4> HIDE DEF old
      <4> QED
        BY <1>1, <2>1, <2>3, <2>4, <4>1 DEF LosesNone, Stands, Live
    <3>2. CASE ~Live(old)
      BY <2>1, <3>2 DEF LosesNone, Stands, Live
    <3> QED
      BY <3>1, <3>2
  <2>6. NamesMenu(r) /\ HoldsMenu(r)
    BY <1>1, <2>2 DEF NamesMenu, HoldsMenu, Created, HasRead
  <2> QED
    BY <2>2, <2>5, <2>6, MenusStay
<1>3. CASE TakeDown(r)
  <2> DEFINE old == req[r].arg
  <2>1. /\ takenDown' = takenDown \cup {old} /\ At(r, "takeDown")
        /\ IF Live(old) THEN menu' = [menu EXCEPT ![old] = Gone] ELSE menu' = menu
        /\ Done(r) \/ (Go(r, "unalias") /\ req[r].op = "remove")
    BY <1>3 DEF TakeDown
  <2>2. Len(menu') = Len(menu) /\ \A m \in 1 .. Len(menu) : m # old => menu'[m] = menu[m]
    BY <1>1, <2>1, MenuDeleted DEF Live
  <2>3. LosesNone(r)
    BY <2>1, <2>2 DEF LosesNone, Stands, Live
  <2>4. /\ \A q \in Requests \ {r} : req'[q] = req[q]
        /\ \/ req'[r].pc = "idle"
           \/ req'[r].pc = "unalias" /\ req'[r].snap = req[r].snap /\ HasRead(req[r])
    BY <2>1, Finished, Moved DEF Becomes, PCs, HasRead, At
  <2>5. NamesMenu(r) /\ HoldsMenu(r)
    BY <1>1, <2>4 DEF NamesMenu, HoldsMenu, Created, HasRead
  <2> QED
    BY <2>3, <2>4, <2>5, MenusStay
<1> QED
  BY <1>2, <1>3

LEMMA StepKeepsMenus ==
  ASSUME Typed, MenusRight, NEW r \in Requests, Step(r)
  PROVE  MenusRight'
BY EditKeepsMenus, CallKeepsMenus, PublishKeepsMenus, RetireKeepsMenus DEF Step

-----------------------------------------------------------------------------
(* The theorems.                                                               *)

\* The first states of the model: no request runs, and the image is as the row has it.
LEMMA Initially == Init => IInv
<1> SUFFICES ASSUME Init
             PROVE  IInv
  OBVIOUS
<1> DEFINE s == CHOOSE s \in Sizes : \A z \in Sizes : z <= s
<1>1. PICK image \in {"none", "full", "cell"}, live \in BOOLEAN, def \in BOOLEAN :
        LET drawn == [exists |-> TRUE, size |-> s, grid |-> 1,
                      cells |-> [NoCells EXCEPT ![1] = IF image = "cell" THEN 1 ELSE None],
                      image |-> IF image = "none" THEN None ELSE 2,
                      lineId |-> IF live THEN 1 ELSE None,
                      isDefault |-> live /\ def, needsRepublish |-> FALSE]
        IN  /\ image = "none" => ~live
            /\ row = drawn
            /\ file = << IF image = "cell" THEN CellArt(drawn) ELSE Gone,
                         CASE image = "none" -> Gone
                           [] image = "full" -> Full(s)
                           [] OTHER -> Composite(drawn) >>
            /\ menu = IF live THEN << Shown(drawn) >> ELSE << >>
            /\ default = IF live /\ def THEN 1 ELSE None
            /\ alias = IF live THEN 1 ELSE None
            /\ linked = None
            /\ req = [r \in Requests |-> Idle]
            /\ ops = 0 /\ faults = 0 /\ takenDown = {} /\ broken = FALSE
  BY Zenon DEF Init
<1>2. s \in Sizes /\ s \in Nat
  BY BoundsAssumption
<1> DEFINE on == live /\ def
           cells == [NoCells EXCEPT ![1] = IF image = "cell" THEN 1 ELSE None]
<1>3. cells \in [Cells -> Nat] /\ 1 \in Cells /\ 1 \in Grids
      /\ \A i \in Cells : cells[i] = IF i = 1 /\ image = "cell" THEN 1 ELSE None
  BY SetsTypes, BoundsAssumption DEF NoCells, None
<1>4. on \in BOOLEAN
  OBVIOUS
<1>5. /\ row \in Row /\ row.exists /\ row.size = s /\ row.grid = 1 /\ row.cells = cells
      /\ row.image = (IF image = "none" THEN None ELSE 2)
      /\ row.lineId = (IF live THEN 1 ELSE None)
  <2>1. row = [exists |-> TRUE, size |-> s, grid |-> 1, cells |-> cells,
               image |-> IF image = "none" THEN None ELSE 2,
               lineId |-> IF live THEN 1 ELSE None,
               isDefault |-> on, needsRepublish |-> FALSE]
    BY <1>1
  <2> HIDE DEF s, on, cells
  <2> QED
    BY <1>2, <1>3, <1>4, <2>1 DEF Row, None
<1>6. /\ file = << IF image = "cell" THEN CellArt(row) ELSE Gone,
                   CASE image = "none" -> Gone
                     [] image = "full" -> Full(s)
                     [] OTHER -> Composite(row) >>
      /\ menu = IF live THEN << Shown(row) >> ELSE << >>
  BY <1>1
<1> HIDE DEF s, on, cells
<1>7. /\ CellArt(row) \in FileRow /\ CellArt(row).kind = "cell"
      /\ Composite(row) \in FileRow /\ Composite(row).kind = "composite"
      /\ Full(s) \in FileRow /\ Full(s).kind = "full"
      /\ Shown(row) \in MenuRow /\ Shown(row) # Gone /\ Gone \in FileRow
  BY <1>5, ArtTypes DEF FileRow
<1>8. file \in Seq(FileRow) /\ Len(file) = 2
  BY <1>6, <1>7
<1>9. /\ file[1] = IF image = "cell" THEN CellArt(row) ELSE Gone
      /\ image = "full" => file[2] = Full(s)
      /\ image = "cell" => file[2] = Composite(row)
  BY <1>6
<1>10. /\ menu \in Seq(MenuRow) /\ Len(menu) = (IF live THEN 1 ELSE 0)
       /\ live => menu[1] = Shown(row)
  BY <1>6, <1>7
<1>11. CellFiles(row) = IF image = "cell" THEN {1} ELSE {}
  BY <1>3, <1>5 DEF CellFiles, None
<1>12. Typed
  <2>1. InRange(row, Len(file), Len(menu))
    BY <1>3, <1>5, <1>8, <1>10 DEF InRange, None
  <2>2. {default, alias, linked} \cup takenDown \subseteq 0 .. Len(menu)
    BY <1>1, <1>10 DEF None
  <2>3. req \in [Requests -> Request] /\ \A r \in Requests : Holds(req[r], Len(file), Len(menu))
    <3>1. Holds(Idle, Len(file), Len(menu)) /\ Idle \in Request
      BY IdleHolds DEF Holds
    <3> QED
      BY <1>1, <3>1
  <2> QED
    BY <1>1, <1>8, <1>10, <2>1, <2>2, <2>3 DEF Typed, TypedStores
<1>13. \A r \in Requests : req[r].pc = "idle"
  BY <1>1 DEF Idle
<1>14. FilesAreOwn /\ MenusAreOwn
  BY <1>13 DEF FilesAreOwn, Uploaded, MenusAreOwn, Created, At
<1>15. NamedKinds /\ RebuildsCome
  BY <1>5, <1>7, <1>9, <1>11 DEF NamedKinds, RebuildsCome, None
<1>16. NamedMenuIsLive
  BY <1>5, <1>7, <1>10 DEF NamedMenuIsLive, Live, None
<1> QED
  BY <1>12, <1>14, <1>15, <1>16 DEF IInv

LEMMA Inductive == IInv /\ [Next]_vars => IInv'
<1> SUFFICES ASSUME IInv, [Next]_vars
             PROVE  IInv'
  OBVIOUS
<1>1. Typed /\ FilesRight /\ MenusRight
  BY DEF IInv, FilesRight, MenusRight
<1>2. ASSUME NEW r \in Requests, Step(r)
      PROVE  IInv'
  BY <1>1, <1>2, StepTyped, StepKeepsFiles, StepKeepsMenus DEF IInv, FilesRight, MenusRight
<1>3. CASE UNCHANGED vars
  <2>1. UNCHANGED <<row, file, menu, default, alias, linked, req, takenDown, broken>>
    BY <1>3 DEF vars, line
  <2>2. Typed'
    BY <1>1, <2>1 DEF Typed, TypedStores
  <2>3. FilesAreOwn' /\ NamedKinds' /\ RebuildsCome'
    BY <1>1, <2>1 DEF FilesRight, FilesAreOwn, Uploaded, At, NamedKinds, RebuildsCome, WillShow
  <2>4. MenusAreOwn' /\ NamedMenuIsLive'
    BY <1>1, <2>1
       DEF MenusRight, MenusAreOwn, Created, Stands, Live, At, NamedMenuIsLive
  <2> QED
    BY <2>2, <2>3, <2>4 DEF IInv
<1> QED
  BY <1>2, <1>3 DEF Next

\* However the calls of the administrators interleave and fail, files and menus have one owner
\* until the row names them, and a row whose image is outdated has a rebuild under way (the
\* locked transactions of rich-menu.service.ts and the calls between them).
THEOREM Invariant == Spec => []IInv
<1> QED
  BY Initially, Inductive, PTL DEF Spec

\* The row, the calls in flight and LINE keep their shape.
THEOREM TypeCorrect == Spec => []TypeOK
<1>1. IInv => TypeOK
  <2> SUFFICES ASSUME IInv
               PROVE  TypeOK
    OBVIOUS
  <2>1. TypedStores /\ \A r \in Requests : req[r] \in Request
    BY DEF IInv, Typed
  <2>2. /\ InRange(row, Len(file), Len(menu)) /\ Len(file) \in Nat /\ Len(menu) \in Nat
        /\ {default, alias, linked} \cup takenDown \subseteq 0 .. Len(menu)
    BY <2>1, Lengths DEF TypedStores
  <2>3. row.image \in Files \cup {None} /\ row.lineId \in Menus \cup {None}
        /\ row.size \in Sizes /\ row.grid \in Grids
    BY <2>2 DEF InRange, Row, Files, Menus, None
  <2>4. row.cells \in [Cells -> Files \cup {None}]
    BY <2>2 DEF InRange, Row, Files, None
  <2>5. {default, alias, linked} \cup takenDown \subseteq Menus \cup {None}
    BY <2>2 DEF Menus, None
  <2>6. \A r \in Requests : req[r].round \in 1 .. MaxRounds
    BY <2>1 DEF Request
  <2> QED
    BY <2>2, <2>3, <2>4, <2>5, <2>6 DEF TypeOK, InRange
<1> QED
  BY <1>1, Invariant, PTL

\* No clean-up of an edit, of a lost race or of a failed call deletes a file that the row
\* names (saveImageLocked, saveCellImageLocked, swapCompositeLocked and the catch clauses of
\* their callers), for any number of administrators, unless a commit went unacknowledged.
THEOREM NamedFilesStand == Spec => []NamedFilesAreStored
<1>1. IInv => NamedFilesAreStored
  <2> SUFFICES ASSUME IInv, row.exists, ~broken,
                      NEW f \in CellFiles(row) \cup ({row.image} \ {None})
               PROVE  Stored(f)
    BY DEF NamedFilesAreStored
  <2>1. file[f].kind \in {"cell", "full", "composite"} /\ f # None
    BY DEF IInv, NamedKinds, CellFiles
  <2> QED
    BY <2>1 DEF Stored, Gone
<1> QED
  BY <1>1, Invariant, PTL

\* Once no rebuild is under way, the image of the menu shows exactly the cells of the row, on
\* its grid and its size (recomposite, swapCompositeLocked), unless a rebuild failed or a
\* commit went unacknowledged.
THEOREM ImageFollowsCells == Spec => []ImageShowsCells
<1>1. IInv => ImageShowsCells
  BY DEF IInv, RebuildsCome, WillShow, At, ImageShowsCells, Rebuilding
<1> QED
  BY <1>1, Invariant, PTL

\* No publication, retirement or clean-up takes down the menu that the template names; only
\* an administrator's removal does (publish, remove, removeOrphanOnLine).
THEOREM NamedMenuStands == Spec => []NamedMenuIsLive
<1>1. IInv => NamedMenuIsLive
  BY DEF IInv
<1> QED
  BY <1>1, Invariant, PTL

=============================================================================
