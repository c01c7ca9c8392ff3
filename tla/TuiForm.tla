-------------------------------- MODULE TuiForm --------------------------------
(***************************************************************************)
(* The editor of the form in which jobs and schedules are created.          *)
(*                                                                         *)
(* A field holds rows, a row its cells: a text has one row of one cell, a   *)
(* list a row for each value, pairs rows of two cells, a checkbox none.     *)
(* Lists and pairs show a blank row after the last, which exists once       *)
(* something is typed into it.                                             *)
(*                                                                         *)
(* Every method of Form is an operator from the form before to the form     *)
(* after.  Unlike the code's, items and cells are counted from one; the     *)
(* caret, cursor, is a number of characters.  There are two characters, a   *)
(* letter and a space, which stands for all that is no part of a word.      *)
(***************************************************************************)
EXTENDS Naturals, Sequences, SequencesExt, FiniteSets

CONSTANTS
  FieldKinds,  \* the fields: a sequence of "text", "list", "pairs" and "bool"
  MaxChars     \* bound: the characters in the form

ASSUME FieldsAssumption ==
  /\ FieldKinds \in Seq({"text", "list", "pairs", "bool"}) /\ Len(FieldKinds) > 1
  /\ MaxChars \in Nat

VARIABLE editor  \* the Form

Chars == {"a", " "}

Cells(kind) == IF kind = "pairs" THEN 2 ELSE 1
HasRows(kind) == kind \in {"list", "pairs"}

Kind(f) == FieldKinds[f.selected]
RowsOf(f) == f.fields[f.selected]
Exists(f) == f.item <= Len(RowsOf(f))
Row(f) == RowsOf(f)[f.item]

\* active_text, empty where there is none
Active(f) == IF Exists(f) THEN Row(f)[f.cell] ELSE <<>>

Empty(row) == \A k \in DOMAIN row : row[k] = <<>>
Blank(row) == \A k \in DOMAIN row : "a" \notin Range(row[k])

Size(f) == FoldSeq(LAMBDA rows, n :
             n + FoldSeq(LAMBDA row, m : m + Len(FlattenSeq(row)), 0, rows), 0, f.fields)

ToEnd(f) == [f EXCEPT !.cursor = Len(Active(f))]

-----------------------------------------------------------------------------
(* Moving between rows *)

RowsIn(f, i) == IF HasRows(FieldKinds[i]) THEN Len(f.fields[i]) + 1 ELSE 1

\* Vec::retain
WithoutBlank(rows) ==
  LET kept[i \in 0..Len(rows)] == IF i = 0 THEN <<>>
                                  ELSE IF Blank(rows[i]) THEN kept[i - 1]
                                  ELSE Append(kept[i - 1], rows[i])
  IN  kept[Len(rows)]

LeaveField(f) ==
  IF HasRows(Kind(f)) THEN [f EXCEPT !.fields[f.selected] = WithoutBlank(@)] ELSE f

SelectNext(f) ==
  ToEnd(IF f.item < RowsIn(f, f.selected)
        THEN [f EXCEPT !.item = @ + 1, !.cell = 1]
        ELSE [LeaveField(f) EXCEPT
                !.selected = (f.selected % Len(FieldKinds)) + 1, !.item = 1, !.cell = 1])

SelectPrevious(f) ==
  LET g == LeaveField(f)
      i == IF f.selected = 1 THEN Len(FieldKinds) ELSE f.selected - 1
  IN  ToEnd(IF f.item > 1
            THEN [f EXCEPT !.item = @ - 1, !.cell = 1]
            ELSE [g EXCEPT !.selected = i, !.item = RowsIn(g, i), !.cell = 1])

SelectNextCell(f) ==
  IF Kind(f) = "pairs" /\ f.cell = 1 THEN ToEnd([f EXCEPT !.cell = 2]) ELSE SelectNext(f)

SelectPreviousCell(f) ==
  LET g == SelectPrevious(f)
  IN  IF f.cell = 2 THEN ToEnd([f EXCEPT !.cell = 1])
      ELSE IF Kind(g) = "pairs" THEN ToEnd([g EXCEPT !.cell = 2])
      ELSE g

\* cycle: the caret moves, into the other cell at the end of one.
Left(f) ==
  IF f.cell = 2 /\ f.cursor = 0 THEN ToEnd([f EXCEPT !.cell = 1])
  ELSE [f EXCEPT !.cursor = IF @ = 0 THEN 0 ELSE @ - 1]

Right(f) ==
  IF Kind(f) = "pairs" /\ f.cell = 1 /\ f.cursor >= Len(Active(f))
  THEN [f EXCEPT !.cell = 2, !.cursor = 0]
  ELSE [f EXCEPT !.cursor = IF @ < Len(Active(f)) THEN @ + 1 ELSE @]

WordStart(text, cursor) ==
  LET InWord(n) == n \in 1..Len(text) /\ text[n] = "a"
      Starts == {n \in 0..(cursor - 1) : InWord(n + 1) /\ ~InWord(n)}
  IN  IF Starts = {} THEN 0 ELSE CHOOSE n \in Starts : \A m \in Starts : m <= n

WordEnd(text, cursor) ==
  LET InWord(n) == n \in 1..Len(text) /\ text[n] = "a"
      Ends == {n \in (cursor + 1)..Len(text) : InWord(n) /\ ~InWord(n + 1)}
  IN  IF Ends = {} THEN Len(text) ELSE CHOOSE n \in Ends : \A m \in Ends : n <= m

MoveWord(f, forward) ==
  IF ~Exists(f) THEN f
  ELSE [f EXCEPT !.cursor = IF forward THEN WordEnd(Active(f), @) ELSE WordStart(Active(f), @)]

-----------------------------------------------------------------------------
(* Typing *)

\* The row that is typed into exists from its first character on.
WithRow(f) ==
  IF Exists(f) THEN f
  ELSE [f EXCEPT !.fields[f.selected] = Append(@, [k \in 1..Cells(Kind(f)) |-> <<>>])]

PushChar(f, c) ==
  LET g == WithRow(f)
  IN  IF Kind(f) = "bool" THEN f
      ELSE [g EXCEPT !.fields[f.selected][f.item][f.cell] = InsertAt(@, f.cursor + 1, c),
                     !.cursor = @ + 1]

\* A comma finishes a row of a list or of pairs, if there is one.
PushComma(f) ==
  IF ~HasRows(Kind(f)) THEN PushChar(f, " ")
  ELSE IF Exists(f) THEN ToEnd([f EXCEPT !.item = @ + 1, !.cell = 1])
  ELSE f

\* = ends a key.
PushEquals(f) ==
  IF Kind(f) = "pairs" /\ f.cell = 1 THEN ToEnd([f EXCEPT !.cell = 2]) ELSE PushChar(f, " ")

-----------------------------------------------------------------------------
(* Deleting *)

RemoveChar(f, at) == [f EXCEPT !.fields[f.selected][f.item][f.cell] = RemoveAt(@, at)]

\* Mutant: a pair is dropped with its key.
DropEmpty_key(f) ==
  IF HasRows(Kind(f)) /\ Row(f)[1] = <<>>
  THEN [f EXCEPT !.fields[f.selected] = RemoveAt(@, f.item), !.cell = 1, !.cursor = 0]
  ELSE f

\* A row without a character is no row; the caret is then in the one after it.
DropEmpty(f) ==
  IF HasRows(Kind(f)) /\ Empty(Row(f))
  THEN [f EXCEPT !.fields[f.selected] = RemoveAt(@, f.item), !.cell = 1, !.cursor = 0]
  ELSE f

DeleteChar(f) ==
  IF ~Exists(f) THEN f
  ELSE DropEmpty(IF f.cursor < Len(Active(f)) THEN RemoveChar(f, f.cursor + 1) ELSE f)

PopChar(f) ==
  IF HasRows(Kind(f)) /\ ~Exists(f)
  THEN IF f.item > 1 THEN ToEnd([f EXCEPT !.item = @ - 1, !.cell = Cells(Kind(f))]) ELSE f
  ELSE IF f.cursor = 0
  THEN IF f.cell = 2 THEN ToEnd([f EXCEPT !.cell = 1]) ELSE f
  ELSE DropEmpty([RemoveChar(f, f.cursor) EXCEPT !.cursor = @ - 1])

\* Delete back to the start of the word, a character at a time.
PopWord(f) ==
  LET target == IF Exists(f) THEN WordStart(Active(f), f.cursor) ELSE f.cursor
      Pops[n \in 0..(f.cursor - target)] == IF n = 0 THEN f ELSE PopChar(Pops[n - 1])
  IN  IF target = f.cursor THEN PopChar(f) ELSE Pops[f.cursor - target]

-----------------------------------------------------------------------------

FormInit ==
  editor = [fields |-> [i \in DOMAIN FieldKinds |->
                          IF FieldKinds[i] = "text" THEN <<<<<<>>>>>> ELSE <<>>],
            selected |-> 1, item |-> 1, cell |-> 1, cursor |-> 0]

Move ==
  \/ editor' \in {SelectNext(editor), SelectPrevious(editor), SelectNextCell(editor),
                  SelectPreviousCell(editor), Left(editor), Right(editor)}
  \/ \E forward \in BOOLEAN : editor' = MoveWord(editor, forward)

TypeText ==
  /\ Size(editor) < MaxChars
  /\ editor' \in {PushChar(editor, c) : c \in Chars} \cup {PushComma(editor), PushEquals(editor)}

Delete == editor' \in {DeleteChar(editor), PopChar(editor)}

DeleteWord == editor' = PopWord(editor)

FormNext == Move \/ TypeText \/ Delete \/ DeleteWord

FormSpec == FormInit /\ [][FormNext]_editor

-----------------------------------------------------------------------------
(* Properties *)

\* The types, and: the caret is in the text that is edited, wherever rows appear and
\* vanish around it.
CaretInText ==
  /\ editor.selected \in DOMAIN FieldKinds
  /\ editor.item \in 1..RowsIn(editor, editor.selected)
  /\ editor.cell \in 1..Cells(Kind(editor))
  /\ editor.cursor \in 0..Len(Active(editor))
  /\ \A i \in DOMAIN FieldKinds : \A j \in DOMAIN editor.fields[i] :
       Len(editor.fields[i][j]) = Cells(FieldKinds[i])

\* No row of a list or of pairs is empty, and none is blank once its field is left.
NoBlankRows ==
  \A i \in DOMAIN FieldKinds : HasRows(FieldKinds[i]) =>
    \A j \in DOMAIN editor.fields[i] :
      /\ ~Empty(editor.fields[i][j])
      /\ i # editor.selected => ~Blank(editor.fields[i][j])

\* Of the rows before, those that are not blank are there after, in their order.
BlanksDropped(before, after) ==
  LET full == {j \in DOMAIN before : ~Blank(before[j])}
  IN  \E from \in [DOMAIN after -> full] :
        /\ Range(from) = full
        /\ \A k \in DOMAIN after : /\ after[k] = before[from[k]]
                                  /\ \A l \in 1..(k - 1) : from[l] < from[k]

\* What is typed or deleted is in the row of the caret: the other rows of its field
\* and the other fields stay, but for blank rows of a field that is left.
EditsLocally ==
  \A i \in DOMAIN FieldKinds :
    LET before == editor.fields[i]
        after == editor'.fields[i]
    IN  CASE i # editor.selected -> after = before
          [] i = editor.selected /\ editor'.selected # i ->
               after = before \/ BlanksDropped(before, after)
          [] i = editor.selected /\ editor'.selected = i ->
               /\ Len(after) >= editor.item - 1
               /\ SubSeq(after, 1, editor.item - 1) = SubSeq(before, 1, editor.item - 1)
               /\ \E last \in {editor.item - 1, editor.item} :
                    SubSeq(after, last + 1, Len(after))
                      = SubSeq(before, editor.item + 1, Len(before))

\* As a property of every key.
EditsAreLocal == [][EditsLocally]_editor

\* Deleting a word removes the characters between its start and the caret, and no
\* others, although it is done a character at a time and a row may vanish on the way.
DeletesWholeWord ==
  DeleteWord /\ Exists(editor) /\ editor.cursor > 0 =>
    LET text == Active(editor)
        start == WordStart(text, editor.cursor)
        left == SubSeq(text, 1, start) \o SubSeq(text, editor.cursor + 1, Len(text))
        row == [Row(editor) EXCEPT ![editor.cell] = left]
        gone == HasRows(Kind(editor)) /\ Empty(row)
    IN  RowsOf(editor') = IF gone THEN RemoveAt(RowsOf(editor), editor.item)
                        ELSE [RowsOf(editor) EXCEPT ![editor.item] = row]

\* As a property of every key.
WordsAreDeletedWhole == [][DeletesWholeWord]_editor

\* Keys edit the text under the caret and nothing else.
EditsAreRight == [](CaretInText /\ NoBlankRows) /\ EditsAreLocal /\ WordsAreDeletedWhole
=============================================================================
