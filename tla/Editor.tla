-------------------------------- MODULE Editor --------------------------------
(***************************************************************************)
(* The editor of src/app/term/vim.c.  The text is kept in one buffer, with *)
(* a table of where its rows begin; the cursor is a place on the screen,   *)
(* and a key works on the buffer at the place that the table gives for it. *)
(* Offsets count from 0, as in the code.  A key is a character, and the    *)
(* arrows are characters too: the reader process sends "g", "l", "i" and   *)
(* "j" for up, down, left and right (tty.h:30).  Of several keys in one    *)
(* turn of main's loop only the last one counts; the others are lost, as   *)
(* if they had not been typed.                                             *)
(***************************************************************************)
EXTENDS Integers, Sequences, FiniteSets, SequencesExt

CONSTANTS
    ScreenRows, ScreenCols, \* of the terminal; the last row is for commands
    EditTexts,  \* the files edited
    Letters,    \* what is typed, line ends included
    MaxEdits,   \* changes of the text
    MaxCommand  \* the length of a command

VARIABLE editor
\* text, file: the buffer and the file; starts: line_start_table up to the
\* entry max_line; first: first_line; x, y: the cursor; cmd: command_buf.

Break == "\n"
EditorRest == editor = [at |-> "closed"]

RowTable_Slip(text) == <<0>> \o SelectSeq([i \in DOMAIN text |-> i], LAMBDA i : text[i] = Break /\ i < Len(text)) \o <<Len(text) + 2>>   \* Mutant: the row after a line end at the end is forgotten.
\* vim_calcu_line_table: the first character is not looked at, a full row is
\* one longer than the screen is wide, the last entry is behind the NUL.
RowTable(text) ==
    LET Look(t, i) ==
            IF (i < Len(text) /\ text[i + 1] = Break) \/ t.count = ScreenCols THEN [starts |-> Append(t.starts, i + 1), count |-> 0]
            ELSE [t EXCEPT !.count = @ + 1]
    IN  FoldLeft(Look, [starts |-> <<0>>, count |-> 0], [i \in DOMAIN text |-> i]).starts \o <<Len(text) + 2>>

LastRow(e) == Len(e.starts) - 1
\* vim_get_line_length
LineLength(e, row) == IF row \in 0 .. LastRow(e) - 1 THEN e.starts[row + 2] - e.starts[row + 1] ELSE -1
\* The last row counts the NUL and one more.
Usable(e, row) == IF row + 1 = LastRow(e) THEN LineLength(e, row) - 1 ELSE LineLength(e, row)
\* Where the cursor points to, if there is such a row.
RowStart(e, row) == IF row \in 0 .. LastRow(e) THEN e.starts[row + 1] ELSE Len(e.text) + 2
Pointer(e) == RowStart(e, e.first + e.y - 1) + e.x - 1

Within(e, width) == [e EXCEPT !.x = IF @ > width THEN width ELSE @]
CursorTo(e, y, width) == Within([e EXCEPT !.y = y], width)

----------------------------------------------------------------------------
(* Keys                                                                    *)

\* A key that changes bytes where there is no text, a NULL row or past the
\* end, is not followed further.
OffText(e) == [e EXCEPT !.at = "lost"]
Changed(e, text) == [e EXCEPT !.text = text, !.starts = RowTable(text), !.edits = @ + 1]

InsertChar(e, c) ==
    LET p == Pointer(e)
        new == Changed(e, SubSeq(e.text, 1, p) \o <<c>> \o SubSeq(e.text, p + 1, Len(e.text)))
    IN  IF p \notin 0 .. Len(e.text) THEN OffText(e)
        ELSE IF c = Break THEN [new EXCEPT !.y = @ + 1, !.x = 1] ELSE [new EXCEPT !.x = @ + 1]

DeleteChar_Slip(e) ==   \* Mutant: the length of the row above is taken after the change.
    LET p == Pointer(e)
        new == Changed(e, RemoveAt(e.text, p))
    IN  IF e.first = 0 /\ e.x = 1 /\ e.y = 1 THEN e
        ELSE IF p \notin 1 .. Len(e.text) THEN OffText(e)
        ELSE IF e.x = 1 /\ e.y > 1 THEN [new EXCEPT !.y = @ - 1, !.x = LineLength(new, e.first + e.y - 2)]
        ELSE IF e.x > 1 THEN [new EXCEPT !.x = @ - 1] ELSE new
\* Backspace; at the start of a row the cursor goes to the end of the one
\* above, whose length is taken before the change.
DeleteChar(e) ==
    LET p == Pointer(e)
        above == LineLength(e, e.first + e.y - 2)
        new == Changed(e, RemoveAt(e.text, p))
    IN  IF e.first = 0 /\ e.x = 1 /\ e.y = 1 THEN e
        ELSE IF p \notin 1 .. Len(e.text) THEN OffText(e)
        ELSE IF e.x = 1 /\ e.y > 1 THEN [new EXCEPT !.y = @ - 1, !.x = IF above > 0 THEN above ELSE above + 1]
        ELSE IF e.x > 1 THEN [new EXCEPT !.x = @ - 1] ELSE new

InsertUp(e) ==
    IF e.y < 4 /\ e.first > 0 THEN [e EXCEPT !.first = @ - 1]
    ELSE LET y == IF e.y > 1 THEN e.y - 1 ELSE e.y IN CursorTo(e, y, LineLength(e, e.first + y - 1))
InsertDown(e) ==
    LET below == LastRow(e) - e.first
        down == [e EXCEPT !.first = @ + 1]
        y == IF e.y < ScreenRows - 1 THEN e.y + 1 ELSE e.y
    IN  CASE below < ScreenRows - 1 /\ e.y < below -> CursorTo(e, e.y + 1, Usable(e, e.first + e.y))
          [] below < ScreenRows - 1 /\ e.y >= below -> e
          [] below > ScreenRows - 1 /\ e.y > ScreenRows - 4 -> Within(down, LineLength(down, down.first + e.y - 1))
          [] OTHER -> CursorTo(e, y, Usable(e, e.first + y - 1))
StepRight(e, width) == IF e.x < width THEN [e EXCEPT !.x = @ + 1] ELSE e
StepLeft(e) == IF e.x > 1 THEN [e EXCEPT !.x = @ - 1] ELSE e
InsertKey(e, k) ==
    CASE k = "g" -> InsertUp(e)
      [] k = "l" -> InsertDown(e)
      [] k = "j" -> StepRight(e, Usable(e, e.first + e.y - 1))
      [] k = "i" -> StepLeft(e)
      [] k = "delete" -> DeleteChar(e)
      [] k = "escape" -> [e EXCEPT !.mode = "normal"]
      [] OTHER -> InsertChar(e, k)

\* input_mode: a character is written over the one at the cursor, in the row
\* that the screen would show if it were not scrolled; the table stays.
ReplaceChar(e, c) ==
    LET p == RowStart(e, e.y - 1) + e.x - 1
    IN  IF p \notin 0 .. Len(e.text) - 1 THEN OffText(e) ELSE [e EXCEPT !.text[p + 1] = c, !.edits = @ + 1]
ReplaceKey(e, k) ==
    LET up == IF e.y > 1 THEN e.y - 1 ELSE e.y
        limit == IF LastRow(e) - e.first < ScreenRows - 1 THEN LastRow(e) - e.first ELSE ScreenRows - 1
        down == IF e.y < limit THEN e.y + 1 ELSE e.y
    IN  CASE k = "g" -> CursorTo(e, up, LineLength(e, up - 1))
          [] k = "l" -> CursorTo(e, down, LineLength(e, down - 1))
          [] k = "j" -> StepRight(e, LineLength(e, e.y - 1))
          [] k = "i" -> StepLeft(e)
          [] k = "escape" -> [e EXCEPT !.mode = "normal"]
          [] OTHER -> ReplaceChar(e, k)

\* A command that is not "w" stays in the buffer, in front of the next one.
CommandKey(e, k) ==
    CASE k \in {"g", "l", "i", "j"} -> e
      [] k = Break -> IF e.cmd = <<"w">> THEN [e EXCEPT !.file = e.text, !.cmd = <<>>, !.mode = "normal"] ELSE [e EXCEPT !.mode = "normal"]
      [] OTHER -> [e EXCEPT !.cmd = Append(@, k)]

NormalKey(e, k) ==
    CASE k \in {"w", "g"} -> IF e.first > 0 THEN [e EXCEPT !.first = @ - 1] ELSE e
      [] k \in {"s", "l"} -> IF e.first < LastRow(e) - 6 THEN [e EXCEPT !.first = @ + 1] ELSE e
      [] k = "i" -> [e EXCEPT !.mode = "insert"]
      [] k = ":" -> [e EXCEPT !.mode = "command"]
      [] k = "c" -> [e EXCEPT !.mode = "replace"]
      [] OTHER -> e

----------------------------------------------------------------------------
(* The program                                                             *)

EditorOpens ==
    \E text \in EditTexts :
        editor = [at |-> "open", text |-> text, file |-> text, starts |-> RowTable(text), first |-> 0, x |-> 1, y |-> 1, mode |-> "normal",
                  cmd |-> <<>>, edits |-> 0, raw |-> TRUE, reader |-> TRUE]

\* What may be typed in a mode.
KeysOf(mode) ==
    {"g", "l", "i", "j", "escape"}
      \cup CASE mode = "normal" -> {"w", "s", ":", "c"}
             [] mode = "command" -> {"w", "c", Break}
             [] mode = "insert" -> Letters \cup {"delete"}
             [] mode = "replace" -> Letters
TypeKey ==
    /\ editor.at = "open"
    /\ \E k \in KeysOf(editor.mode) :
          LET new == CASE editor.mode = "insert" -> InsertKey(editor, k) [] editor.mode = "replace" -> ReplaceKey(editor, k)
                       [] editor.mode = "command" -> CommandKey(editor, k) [] OTHER -> NormalKey(editor, k)
          IN  new.edits <= MaxEdits /\ Len(new.cmd) <= MaxCommand /\ editor' = new

\* "q", in every mode, and two bytes at once: the reader has left before.
\* exit_handler restores the terminal.
QuitEditor == editor.at = "open" /\ editor' = [editor EXCEPT !.at = "quit", !.raw = FALSE, !.reader = FALSE]
\* Ctrl-C comes to the editor alone, for the reader has its own session.
InterruptEditor == editor.at = "open" /\ editor' = [editor EXCEPT !.at = "quit", !.raw = FALSE]

EditorNext == TypeKey \/ QuitEditor \/ InterruptEditor

----------------------------------------------------------------------------
(* Properties                                                              *)

\* What the screen shows: the text from the first row on, a row for each
\* line as long as none is too long for the screen.
FirstShown(e) == RowStart(e, e.first)
LineEnds(e, o) == {k \in FirstShown(e) + 1 .. o : e.text[k] = Break}
SeenAt(e, o) ==
    LET ends == LineEnds(e, o)
        start == IF ends = {} THEN FirstShown(e) ELSE CHOOSE k \in ends : \A j \in ends : j <= k
    IN  <<1 + Cardinality(ends), o - start + 1>>
UnderCursor(e) == {o \in FirstShown(e) .. Len(e.text) : SeenAt(e, o) = <<e.y, e.x>>}
Fits(e) == \A i \in DOMAIN e.text, j \in DOMAIN e.text : j - i + 1 >= ScreenCols => \E k \in i .. j : e.text[k] = Break
\* Where the editor is right: no line wraps, the text does not begin with an
\* empty line, and no line end was written over.
Tame(e) == e.at = "open" /\ Fits(e) /\ (e.text # <<>> => e.text[1] # Break) /\ e.starts = RowTable(e.text)

\* A character goes in before the one that the cursor is seen on, Backspace
\* removes the one before it, and the cursor is then seen where the text was
\* parted (not below the screen's edge, nor in the first row of a scrolled
\* screen, where it stays).  An arrow leaves the cursor on the text as long as
\* it does not scroll.  One character is written over in an unscrolled text.
\* No other key changes the text, and the file becomes the text only by a
\* command; the terminal is given back.
EditStep ==
    LET e == editor
        new == editor'
        Parted(o, p) == new.y < ScreenRows => p \in UnderCursor(new)
    IN  /\ e.mode \in {"normal", "command"} => new.text = e.text
        /\ new.file = e.file \/ (e.mode = "command" /\ new.file = e.text)
        /\ new.at = "quit" => ~new.raw
        /\ Tame(e) /\ e.mode = "insert" => \A o \in UnderCursor(e) :
              /\ new.at # "lost"
              /\ Tame(new) /\ Len(new.text) > Len(e.text) =>
                    /\ \E c \in Letters : new.text = SubSeq(e.text, 1, o) \o <<c>> \o SubSeq(e.text, o + 1, Len(e.text))
                    /\ Parted(o, o + 1)
              /\ Tame(new) /\ Len(new.text) < Len(e.text) => new.text = RemoveAt(e.text, o) /\ (<<e.y, e.x>> # <<1, 1>> => Parted(o, o - 1))
              /\ Len(new.text) = Len(e.text) => new.text = e.text /\ (new.first = e.first => UnderCursor(new) # {})
        /\ Tame(e) /\ e.mode = "replace" /\ e.first = 0 => \A o \in UnderCursor(e) :
              \A k \in DOMAIN e.text : k # o + 1 => new.text[k] = e.text[k]
EditorSound == [][editor.at = "open" => EditStep]_editor
=============================================================================
