------------------------------ MODULE Console ------------------------------
(***************************************************************************)
(* The framebuffer text console of src/src/framebuffer.rs: a cursor and a  *)
(* screen of character cells that wraps and scrolls, switched on by init   *)
(* when the firmware left a linear framebuffer.  Beside it, the text       *)
(* written so far is kept as a list of lines, the thing the screen is      *)
(* meant to show the end of.                                               *)
(***************************************************************************)
EXTENDS Integers, Sequences

CONSTANTS Chars,         \* printable bytes
          Blank,         \* a cell in the background colour
          Newline, Return,
          cols, rows,    \* cells in a row and rows on the screen
          MAX_LINES      \* bound on the lines written

ASSUME ConsoleAssumption ==
  /\ cols \in Nat \ {0} /\ rows \in Nat \ {0} /\ MAX_LINES \in Nat
  /\ Newline \notin Chars /\ Return \notin Chars /\ Newline # Return

VARIABLES info,          \* what find_gop recorded
          ACTIVE,
          screen, col, row,
          lines          \* every line written, the current one last

vars == <<info, ACTIVE, screen, col, row, lines>>

Line == [0 .. cols - 1 -> Chars \cup {Blank}]
BlankLine == [c \in 0 .. cols - 1 |-> Blank]
BlankScreen == [r \in 0 .. rows - 1 |-> BlankLine]
Cursor == [screen : [0 .. rows - 1 -> Line], col : Nat, row : Nat]

Init ==
  /\ info \in {"None", "BltOnly", "Linear"}
  /\ ACTIVE = FALSE
  /\ screen = BlankScreen /\ col = 0 /\ row = 0
  /\ lines = <<BlankLine>>

\* init clears the screen and takes over, if there is a screen to draw on.
init ==
  /\ ~ACTIVE /\ info = "Linear"
  /\ ACTIVE' = TRUE
  /\ screen' = BlankScreen /\ col' = 0 /\ row' = 0
  /\ UNCHANGED <<info, lines>>

-----------------------------------------------------------------------------

(***************************************************************************)
(* write_byte, as a change of the cursor and the screen t.                 *)
(***************************************************************************)

\* Mutated forms of scroll: the last row is not cleared; the row stays.
ScrollKeepsLastRow(t) ==
  IF t.row < rows THEN t
  ELSE [screen |-> [r \in 0 .. rows - 1 |->
                      IF r < rows - 1 THEN t.screen[r + 1] ELSE t.screen[r]],
        col |-> t.col, row |-> rows - 1]

ScrollKeepsRow(t) ==
  IF t.row < rows THEN t
  ELSE [screen |-> [r \in 0 .. rows - 1 |->
                      IF r < rows - 1 THEN t.screen[r + 1] ELSE BlankLine],
        col |-> t.col, row |-> t.row]

\* A cursor below the last row moves the text up by one row.
scroll(t) ==
  IF t.row < rows THEN t
  ELSE [screen |-> [r \in 0 .. rows - 1 |->
                      IF r < rows - 1 THEN t.screen[r + 1] ELSE BlankLine],
        col |-> t.col, row |-> rows - 1]

NewRow(t) == [screen |-> t.screen, col |-> 0, row |-> t.row + 1]

\* A full row is left only when another character comes.
Wrap(t) == IF t.col < cols THEN t ELSE NewRow(t)

draw_glyph(t, b) ==
  [screen |-> [t.screen EXCEPT ![t.row] = [@ EXCEPT ![t.col] = b]],
   col    |-> t.col + 1,
   row    |-> t.row]

Written(t, b) ==
  IF b = Newline THEN scroll(NewRow(t))
  ELSE IF b = Return THEN scroll([screen |-> t.screen, col |-> 0, row |-> t.row])
  ELSE scroll(draw_glyph(scroll(Wrap(t)), b))

\* The same byte in the list of lines.
Logged(b) ==
  LET n == Len(lines)
  IN  IF b = Newline THEN Append(lines, BlankLine)
      ELSE IF b = Return THEN lines
      ELSE IF col < cols THEN [lines EXCEPT ![n] = [@ EXCEPT ![col] = b]]
      ELSE Append(lines, [BlankLine EXCEPT ![0] = b])

Now == [screen |-> screen, col |-> col, row |-> row]

write_byte(b) ==
  /\ ACTIVE
  /\ Len(lines) < MAX_LINES
  /\ LET t == Written(Now, b)
     IN  screen' = t.screen /\ col' = t.col /\ row' = t.row
  /\ lines' = Logged(b)
  /\ UNCHANGED <<info, ACTIVE>>

Next == init \/ \E b \in Chars \cup {Newline, Return} : write_byte(b)

Spec == Init /\ [][Next]_vars

-----------------------------------------------------------------------------

(***************************************************************************)
(* Properties.                                                             *)
(***************************************************************************)

\* Between two bytes the cursor is on the screen, or just past the end of a
\* row on it, so write_byte never draws a cell outside the framebuffer.
TypeOK ==
  /\ info \in {"None", "BltOnly", "Linear"} /\ ACTIVE \in BOOLEAN
  /\ screen \in [0 .. rows - 1 -> Line]
  /\ col \in 0 .. cols /\ row \in 0 .. rows - 1
  /\ lines \in Seq(Line) /\ lines # <<>>

\* The cursor's row is the line's own number until the screen is full and the
\* last row from then on: scrolling happens exactly when it has to.
CursorFollowsLog ==
  row = IF Len(lines) <= rows THEN Len(lines) - 1 ELSE rows - 1

\* The screen shows the end of what was written, line for line, and nothing
\* below it: wrapping, newlines, carriage returns and scrolling lose no line
\* and leave no stale text.
ShowsLogTail ==
  /\ \A r \in 0 .. row : screen[r] = lines[Len(lines) - row + r]
  /\ \A r \in row + 1 .. rows - 1 : screen[r] = BlankLine

\* Until init has taken over nothing has been written: write_byte returns at
\* once, and a firmware without a linear framebuffer never gets there.
UntouchedUntilActive ==
  /\ ACTIVE => info = "Linear"
  /\ ~ACTIVE => lines = <<BlankLine>> /\ screen = BlankScreen /\ col = 0 /\ row = 0

\* The conjunction is inductive (see ConsoleProofs).
IInv == TypeOK /\ CursorFollowsLog /\ ShowsLogTail /\ UntouchedUntilActive
=============================================================================
