------------------------------- MODULE Boards -------------------------------
(* The two reference harnesses' logic: the whiteboard's tools over its      *)
(* shapes (whiteboard-logic), the planning board's over its cards           *)
(* (planner-logic), and the outline handed from one to the other.           *)
(*                                                                          *)
(* A tool works on a copy of the document and saves it at its end; one that *)
(* fails saves nothing. Shapes lie on one axis (the other is the same       *)
(* code), and a place on it is a number of parts of a whole unit: the code's *)
(* are f64, which hold such binary fractions exactly. Text is "" or some,    *)
(* titles and labels are left out. An id is what                             *)
(* the code builds it from: how many things there were and the clock, or    *)
(* the id it was copied from and which copy it is.                          *)
EXTENDS Integers, Sequences, SequencesExt, FiniteSets, FiniteSetsExt, Folds

CONSTANTS Boards0,   \* the shapes the board may start with
          Clock,      \* readings of now_ms() % 100_000
          Unit,       \* the parts of a whole unit
          Places,     \* positions a tool is asked for, in parts
          MaxTools    \* bound of the instance

VARIABLES shapes,     \* the whiteboard: Seq of shapes, in the order made
          frames,     \* how many frames it has
          selection,  \* the ids selected
          outline,    \* what export_outline wrote: Seq of texts
          columns,    \* the planning board: Seq of [name, wip]
          cards,      \* Seq of [id, text, column]
          did,        \* the last tool: [tool, ok, ids]
          tools       \* how many have run

boardVars == <<shapes, frames, selection, outline, columns, cards, did, tools>>

ShapeIds == {shapes[i].id : i \in DOMAIN shapes}
IndexOf(list, id) == CHOOSE i \in DOMAIN list :
                        list[i].id = id /\ \A j \in 1..(i - 1) : list[j].id # id
Has(list, id) == \E i \in DOMAIN list : list[i].id = id

Boxed(sh) == sh.kind # "arrow"
NextId(ms) == <<Len(shapes) + frames + 1, ms>>
NextZ(list) == IF list = <<>> THEN 1 ELSE Max({list[i].z : i \in DOMAIN list}) + 1

\* What every tool leaves behind: its result, and the board it saved.
Ran(tool, ok, ids) ==
    /\ tools < MaxTools
    /\ tools' = tools + 1
    /\ did' = [tool |-> tool, ok |-> ok, ids |-> ids]

Saves(list) == shapes' = list

Abs(n) == IF n < 0 THEN 0 - n ELSE n

-----------------------------------------------------------------------------
(* The whiteboard's tools.                                                  *)

Shape(id, kind, x, text) ==
    [id |-> id, kind |-> kind, x |-> x, w |-> IF kind = "arrow" THEN 0 ELSE 2 * Unit,
     z |-> NextZ(shapes), locked |-> FALSE, text |-> text, from |-> {}]

\* canvas.add_shape, canvas.add_sticky, canvas.add_text
AddShape(ms, x, text) ==
    /\ Ran("add", TRUE, <<>>)
    /\ Saves(Append(shapes, Shape(NextId(ms), "sticky", x, text)))
    /\ UNCHANGED <<frames, selection, outline, columns, cards>>

\* canvas.connect: both ends are there when the arrow is drawn.
Connect(ms, a, b) ==
    /\ Ran("connect", Has(shapes, a) /\ Has(shapes, b), <<>>)
    /\ Saves(IF did'.ok THEN Append(shapes, [Shape(NextId(ms), "arrow", 0, "") EXCEPT !.from = {a, b}])
             ELSE shapes)
    /\ UNCHANGED <<frames, selection, outline, columns, cards>>

AddFrame ==
    /\ Ran("frame", TRUE, <<>>)
    /\ frames' = frames + 1
    /\ UNCHANGED <<shapes, selection, outline, columns, cards>>

\* canvas.move, canvas.resize: refused for a shape that is locked.
Free(id) == Has(shapes, id) /\ ~shapes[IndexOf(shapes, id)].locked

Move(id, x) ==
    /\ Ran("move", Free(id), <<id>>)
    /\ Saves(IF did'.ok THEN [shapes EXCEPT ![IndexOf(shapes, id)].x = x] ELSE shapes)
    /\ UNCHANGED <<frames, selection, outline, columns, cards>>

Resize(id, w) ==
    /\ Ran("resize", Free(id), <<id>>)
    /\ Saves(IF did'.ok THEN [shapes EXCEPT ![IndexOf(shapes, id)].w = Max({w, Unit})] ELSE shapes)
    /\ UNCHANGED <<frames, selection, outline, columns, cards>>

\* canvas.set_text and canvas.set_fill: of any shape, locked or not.
SetText(id, text) ==
    /\ Ran("text", Has(shapes, id), <<id>>)
    /\ Saves(IF did'.ok THEN [shapes EXCEPT ![IndexOf(shapes, id)].text = text] ELSE shapes)
    /\ UNCHANGED <<frames, selection, outline, columns, cards>>

\* canvas.delete: the arrows to it and the selection keep its id.
Delete(id) ==
    /\ Ran("delete", Free(id), <<id>>)
    /\ Saves(IF did'.ok THEN RemoveAt(shapes, IndexOf(shapes, id)) ELSE shapes)
    /\ UNCHANGED <<frames, selection, outline, columns, cards>>

Select(ids) ==
    /\ Ran("select", \A i \in DOMAIN ids : Has(shapes, ids[i]), ids)
    /\ selection' = IF did'.ok THEN ids ELSE selection
    /\ UNCHANGED <<shapes, frames, outline, columns, cards>>

\* canvas.duplicate: copies of all but the arrows, numbered by how many were
\* made before, unlocked, on top, and selected.
Copied(made, id) ==
    LET sh == made.list[IndexOf(made.list, id)]
        new == Append(id, Len(made.ids) + 1)
    IN  IF ~made.ok \/ ~Has(made.list, id) THEN [made EXCEPT !.ok = FALSE]
        ELSE IF ~Boxed(sh) THEN made
        ELSE [ok |-> TRUE, ids |-> Append(made.ids, new),
              list |-> Append(made.list,
                         [sh EXCEPT !.id = new, !.x = @ + Unit, !.locked = FALSE,
                                    !.z = NextZ(made.list) + Len(made.ids)])]

Duplicate(ids) ==
    LET made == FoldLeft(Copied, [ok |-> TRUE, ids |-> <<>>, list |-> shapes], ids)
    IN  /\ Ran("duplicate", made.ok /\ made.ids # <<>>, ids)
        /\ Saves(IF did'.ok THEN made.list ELSE shapes)
        /\ selection' = IF did'.ok THEN made.ids ELSE selection
        /\ UNCHANGED <<frames, outline, columns, cards>>

\* edit_each: every named shape in turn, one named twice edited twice, or
\* nothing at all when one is not there or is locked.
Editable(ids) == \A i \in DOMAIN ids : Free(ids[i])

EditEach(Edited(_), ids) ==
    LET One(list, id) == [list EXCEPT ![IndexOf(list, id)] = Edited(@)]
    IN  FoldLeft(One, shapes, ids)

\* canvas.order
Order(ids, to) ==
    LET bottom == Min({shapes[i].z : i \in DOMAIN shapes})
        top == NextZ(shapes)
        Put(sh) == [sh EXCEPT !.z = CASE to = "front" -> top
                                      [] to = "back" -> bottom - 1
                                      [] to = "forward" -> @ + 1
                                      [] OTHER -> @ - 1]
    IN  /\ Ran("order", ids # <<>> /\ Editable(ids), ids)
        /\ Saves(IF did'.ok THEN EditEach(Put, ids) ELSE shapes)
        /\ UNCHANGED <<frames, selection, outline, columns, cards>>

\* canvas.lock: all of them, the locked ones too.
Lock(ids, want) ==
    LET Put(sh) == [sh EXCEPT !.locked = want]
    IN  /\ Ran("lock", ids # <<>> /\ \A i \in DOMAIN ids : Has(shapes, ids[i]), ids)
        /\ Saves(IF did'.ok THEN EditEach(Put, ids) ELSE shapes)
        /\ UNCHANGED <<frames, selection, outline, columns, cards>>

\* The shapes of `ids` that are there and have a box, in that order.
BoxesOf(ids) ==
    LET there == SelectSeq(ids, LAMBDA id : Has(shapes, id))
        named == [i \in DOMAIN there |-> shapes[IndexOf(shapes, there[i])]]
    IN  SelectSeq(named, Boxed)

\* canvas.align; the centre is halved exactly, and the other axis is another call
Align(ids, edge) ==
    LET boxes == ToSet(BoxesOf(ids))
        left == Min({b.x : b \in boxes})
        right == Max({b.x + b.w : b \in boxes})
        Put(sh) == IF ~Boxed(sh) THEN sh
                   ELSE [sh EXCEPT !.x = CASE edge = "left" -> left
                                           [] edge = "right" -> right - sh.w
                                           [] edge = "centre" -> (left + right - sh.w) \div 2
                                           [] OTHER -> @]
    IN  /\ Ran("align", Len(ids) >= 2 /\ Len(BoxesOf(ids)) >= 2 /\ Editable(ids), ids)
        /\ Saves(IF did'.ok THEN EditEach(Put, ids) ELSE shapes)
        /\ UNCHANGED <<frames, selection, outline, columns, cards>>

\* f64::round of num / den: the nearest whole unit, and of two as near the one
\* away from zero; when the number is not held exactly, either of the two.
Rounded(num, den, exact) ==
    LET whole == den * Unit
        below == num \div whole
        twice == 2 * (num - below * whole)
        away == IF num >= 0 THEN below + 1 ELSE below
    IN  {Unit * n : n \in IF twice < whole THEN {below}
                          ELSE IF twice > whole THEN {below + 1}
                          ELSE IF exact THEN {away} ELSE {below, below + 1}}

\* By place, those at one place in the order named.
ByPlace(boxes) ==
    LET order == SetToSortSeq(DOMAIN boxes,
                    LAMBDA a, b : boxes[a].x < boxes[b].x \/ (boxes[a].x = boxes[b].x /\ a < b))
    IN  [k \in DOMAIN order |-> boxes[order[k]]]

WidthBefore(row, k) == FoldLeft(LAMBDA sum, sh : sum + sh.w, 0, SubSeq(row, 1, k - 1))

\* What is left between the shapes of a row, over all its gaps.
Spare(row) == Last(row).x + Last(row).w - Head(row).x - WidthBefore(row, Len(row) + 1)

\* Where the k-th of a row goes: the first's place, the widths before it and
\* k - 1 even gaps, to the next whole unit. A gap is held exactly when it is a
\* binary fraction.
SpacedAt(row, k) ==
    LET gaps == Len(row) - 1
    IN  Rounded((Head(row).x + WidthBefore(row, k)) * gaps + (k - 1) * Spare(row), gaps,
                \E fine \in {1, 2, 4, 8} : (fine * Spare(row)) % gaps = 0)

\* The boards that spacing a row may leave: every shape of it that Moves is put at
\* its place, one named twice at the later of its two, and the rest stay.
SpacedBy(list, row, Moves(_)) ==
    LET turns == [i \in DOMAIN list |-> {k \in DOMAIN row : IndexOf(list, row[k].id) = i}]
        put == {i \in DOMAIN list : turns[i] # {} /\ Moves(list[i])}
        ways == {at \in [put -> UNION {SpacedAt(row, k) : k \in DOMAIN row}] :
                   \A i \in put : at[i] \in SpacedAt(row, Max(turns[i]))}
    IN  {[i \in DOMAIN list |-> IF i \in put THEN [list[i] EXCEPT !.x = at[i]] ELSE list[i]] :
           at \in ways}

\* A plausible slip: the locked ones are spaced too.
SpacedAll(list, row) == SpacedBy(list, row, LAMBDA sh : TRUE)

\* canvas.distribute: by place, with even gaps from the first to the last. A
\* locked shape keeps its place and its turn.
Spaced(list, row) == SpacedBy(list, row, LAMBDA sh : ~sh.locked)

Distribute(ids) ==
    LET row == ByPlace(BoxesOf(ids))
    IN  /\ Ran("distribute", /\ \A i \in DOMAIN ids : Has(shapes, ids[i])
                             /\ Len(ids) >= 3 /\ Len(row) >= 3, ids)
        /\ \E list \in IF did'.ok THEN Spaced(shapes, row) ELSE {shapes} : Saves(list)
        /\ UNCHANGED <<frames, selection, outline, columns, cards>>

\* event: the surface's own edits arrive as the whole document, and its
\* settings view clears the selection.
SurfaceSaves(list) ==
    /\ Ran("surface", TRUE, <<>>)
    /\ Saves(list)
    /\ selection' = <<>>
    /\ UNCHANGED <<frames, outline, columns, cards>>

-----------------------------------------------------------------------------
(* The handoff: the outline is written into the board, and the planning     *)
(* board makes a card of every item of it.                                  *)

WithText == SelectSeq(shapes, LAMBDA sh : Boxed(sh) /\ sh.text # "")

ExportOutline ==
    /\ Ran("export", WithText # <<>>, <<>>)
    /\ outline' = IF did'.ok THEN [i \in DOMAIN WithText |-> WithText[i].text] ELSE outline
    /\ UNCHANGED <<shapes, frames, selection, columns, cards>>

ColumnNames == {columns[i].name : i \in DOMAIN columns}

Card(list, text, column) == [id |-> Len(list) + 1, text |-> text, column |-> column]

\* A plausible slip: the column is not looked up.
ImportAnywhere(column) ==
    /\ Ran("import", outline # <<>>, <<>>)
    /\ cards' = IF ~did'.ok THEN cards
                ELSE FoldLeft(LAMBDA list, text : Append(list, Card(list, text, column)),
                              cards, outline)
    /\ UNCHANGED <<shapes, frames, selection, outline, columns>>

\* board.import_outline; with no column named, the first.
ImportOutline(column) ==
    /\ Ran("import", outline # <<>> /\ column \in ColumnNames, <<>>)
    /\ cards' = IF ~did'.ok THEN cards
                ELSE FoldLeft(LAMBDA list, text : Append(list, Card(list, text, column)),
                              cards, outline)
    /\ UNCHANGED <<shapes, frames, selection, outline, columns>>

-----------------------------------------------------------------------------
(* The planning board's tools.                                              *)

AddCard(text, column) ==
    /\ Ran("card", text # "" /\ column \in ColumnNames, <<>>)
    /\ cards' = IF did'.ok THEN Append(cards, Card(cards, text, column)) ELSE cards
    /\ UNCHANGED <<shapes, frames, selection, outline, columns>>

MoveCard(id, column) ==
    /\ Ran("carry", column \in ColumnNames /\ Has(cards, id), <<>>)
    /\ cards' = IF did'.ok THEN [cards EXCEPT ![IndexOf(cards, id)].column = column] ELSE cards
    /\ UNCHANGED <<shapes, frames, selection, outline, columns>>

\* board.set_text, board.assign
RewriteCard(id, text) ==
    /\ Ran("rewrite", Has(cards, id), <<>>)
    /\ cards' = IF did'.ok THEN [cards EXCEPT ![IndexOf(cards, id)].text = text] ELSE cards
    /\ UNCHANGED <<shapes, frames, selection, outline, columns>>

DeleteCard(id) ==
    /\ Ran("discard", Has(cards, id), <<>>)
    /\ cards' = IF did'.ok THEN RemoveAt(cards, IndexOf(cards, id)) ELSE cards
    /\ UNCHANGED <<shapes, frames, selection, outline, columns>>

AddColumn(name, wip) ==
    /\ Ran("column", name \notin ColumnNames, <<>>)
    /\ columns' = IF did'.ok THEN Append(columns, [name |-> name, wip |-> wip]) ELSE columns
    /\ UNCHANGED <<shapes, frames, selection, outline, cards>>

SetWip(name, wip) ==
    /\ Ran("wip", name \in ColumnNames, <<>>)
    /\ columns' = [i \in DOMAIN columns |->
                     IF columns[i].name = name THEN [columns[i] EXCEPT !.wip = wip]
                     ELSE columns[i]]
    /\ UNCHANGED <<shapes, frames, selection, outline, cards>>

\* over_limit: what the context block and the view warn of.
CountIn(column) == Cardinality({i \in DOMAIN cards : cards[i].column = column})
OverLimit == {i \in DOMAIN columns :
                 columns[i].wip > 0 /\ CountIn(columns[i].name) > columns[i].wip}

-----------------------------------------------------------------------------
\* load: a document that lacks its parts is given them.
BoardInit ==
    /\ shapes \in Boards0
    /\ frames = 0 /\ selection = <<>> /\ outline = <<>>
    /\ columns = <<[name |-> "Backlog", wip |-> 0], [name |-> "In progress", wip |-> 3],
                   [name |-> "Done", wip |-> 0]>>
    /\ cards = <<>>
    /\ did = [tool |-> "none", ok |-> TRUE, ids |-> <<>>] /\ tools = 0

Nobody == <<0, 0>>
Names == ShapeIds \cup {Nobody}
\* The lists of ids a call names: one shape, the oldest named again before
\* another, or all of them in either order.
Lists == {<<id>> : id \in Names} \cup {<<Head(shapes).id, Head(shapes).id, id>> : id \in ShapeIds}
            \cup {[i \in DOMAIN shapes |-> shapes[i].id],
                  Reverse([i \in DOMAIN shapes |-> shapes[i].id]), <<>>}

BoardNext ==
    \/ \E ms \in Clock, x \in Places, text \in {"", "some"} : AddShape(ms, x, text)
    \/ \E ms \in Clock, a, b \in Names : Connect(ms, a, b)
    \/ AddFrame
    \/ \E id \in Names, x \in Places : Move(id, x)
    \/ \E id \in Names, w \in Places : Resize(id, w)
    \/ \E id \in Names, text \in {"", "some"} : SetText(id, text)
    \/ \E id \in Names : Delete(id)
    \/ \E ids \in Lists : Select(ids)
    \/ \E ids \in Lists : Duplicate(ids)
    \/ \E ids \in Lists, to \in {"front", "back", "forward", "backward"} : Order(ids, to)
    \/ \E ids \in Lists, want \in BOOLEAN : Lock(ids, want)
    \/ \E ids \in Lists, edge \in {"left", "right", "centre", "top"} : Align(ids, edge)
    \/ \E ids \in Lists : Distribute(ids)
    \/ \E list \in {<<>>, shapes} : SurfaceSaves(list)
    \/ ExportOutline
    \/ \E column \in {"Backlog", "Done", "Later"} : ImportOutline(column)
    \/ \E text \in {"", "some"}, column \in {"Backlog", "Later"} : AddCard(text, column)
    \/ \E id \in 1..3, column \in {"In progress", "Later"} : MoveCard(id, column)
    \/ \E id \in 1..3 : RewriteCard(id, "other")
    \/ \E id \in 1..3 : DeleteCard(id)
    \/ \E name \in {"Done", "Later"} : AddColumn(name, 1)
    \/ \E name \in {"Done", "Later"} : SetWip(name, 2)

BoardSpec == BoardInit /\ [][BoardNext]_boardVars

-----------------------------------------------------------------------------
(* What is not to be moved stays: until it is unlocked, no tool moves,      *)
(* resizes, reorders or removes a locked shape, alone or as one of many.    *)
(* And spacing shapes out, each named once, moves the two outermost to their *)
(* nearest whole places only, which leaves one that is at a whole place      *)
(* where it is, and makes the gaps even: between two neighbours that may     *)
(* move, each is the even share to within a unit (whiteboard-logic edit_each *)
(* and distribute). The surface's own edits are the person's.                *)
Held(list) ==
    LET kept == SelectSeq(list, LAMBDA sh : sh.locked)
    IN  [i \in DOMAIN kept |-> [id |-> kept[i].id, x |-> kept[i].x, w |-> kept[i].w,
                                z |-> kept[i].z]]

NamedOnce(ids) == Cardinality(ToSet(ids)) = Len(ids)

SpacedOut ==
    LET row == ByPlace(BoxesOf(did'.ids))
        gaps == Len(row) - 1
        Now(k) == shapes'[IndexOf(shapes', row[k].id)].x
        Gap(k) == Now(k + 1) - Now(k) - row[k].w
    IN  /\ \A k \in {1, Len(row)} : 2 * Abs(Now(k) - row[k].x) <= Unit
        /\ \A k \in 1..gaps : ~row[k].locked /\ ~row[k + 1].locked =>
              Abs(Gap(k) * gaps - Spare(row)) <= gaps * Unit

HeldStays ==
    [][/\ did'.tool \notin {"lock", "surface"} => Held(shapes') = Held(shapes)
       /\ did'.tool = "distribute" /\ did'.ok /\ NamedOnce(did'.ids) => SpacedOut]_boardVars

(* Every card is in a column the board has, whatever was added, moved or    *)
(* imported (planner-logic add_card, move_card, import_outline), so no card *)
(* is missing from the board's view, which lists cards by column.           *)
CardsHaveColumns == \A i \in DOMAIN cards : cards[i].column \in ColumnNames
============================================================================
