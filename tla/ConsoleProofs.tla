--------------------------- MODULE ConsoleProofs ---------------------------
(***************************************************************************)
(* The console shows the end of what was written, for every screen size    *)
(* and every text.                                                         *)
(***************************************************************************)
EXTENDS Console, SequenceTheorems, TLAPS

\* The blank screen and line have their types.
LEMMA BlankTypes == BlankLine \in Line /\ BlankScreen \in [0 .. rows - 1 -> Line]
BY DEF BlankLine, BlankScreen, Line

\* A fresh console has everything the invariant asks for.
LEMMA FreshInv ==
  ASSUME info \in {"None", "BltOnly", "Linear"}, ACTIVE \in BOOLEAN,
         ACTIVE => info = "Linear",
         screen = BlankScreen, col = 0, row = 0, lines = <<BlankLine>>
  PROVE  IInv
<1>1. TypeOK
  BY BlankTypes, ConsoleAssumption DEF TypeOK
<1>2. CursorFollowsLog
  BY ConsoleAssumption DEF CursorFollowsLog
<1>3. ShowsLogTail
  BY ConsoleAssumption DEF ShowsLogTail, BlankScreen
<1> QED
  BY <1>1, <1>2, <1>3 DEF IInv, UntouchedUntilActive

\* A row deeper in the text than the screen shows: what scroll does to a
\* screen whose cursor has just gone below the last row.
LEMMA ScrollDown ==
  ASSUME NEW t \in Cursor, t.row = rows
  PROVE  /\ scroll(t).row = rows - 1
         /\ scroll(t).col = t.col
         /\ scroll(t).screen \in [0 .. rows - 1 -> Line]
         /\ \A r \in 0 .. rows - 2 : scroll(t).screen[r] = t.screen[r + 1]
         /\ scroll(t).screen[rows - 1] = BlankLine
<1>1. t.row \notin 0 .. rows - 1 /\ ~(t.row < rows)
  BY ConsoleAssumption
<1>2. scroll(t) = [screen |-> [r \in 0 .. rows - 1 |->
                      IF r < rows - 1 THEN t.screen[r + 1] ELSE BlankLine],
                   col |-> t.col, row |-> rows - 1]
  BY <1>1 DEF scroll
<1>3. \A r \in 0 .. rows - 1 : r < rows - 1 => t.screen[r + 1] \in Line
  BY ConsoleAssumption DEF Cursor
<1> QED
  BY <1>2, <1>3, BlankTypes, ConsoleAssumption

\* A cursor on the screen is left alone.
LEMMA ScrollNot ==
  ASSUME NEW t, t.row \in 0 .. rows - 1
  PROVE  scroll(t) = t
BY ConsoleAssumption DEF scroll

\* What CursorFollowsLog and ShowsLogTail say, of any cursor and any lines.
Shows(t, L) ==
  /\ t.row = IF Len(L) <= rows THEN Len(L) - 1 ELSE rows - 1
  /\ \A r \in 0 .. t.row : t.screen[r] = L[Len(L) - t.row + r]
  /\ \A r \in t.row + 1 .. rows - 1 : t.screen[r] = BlankLine

OnScreen(t) == t.row \in 0 .. rows - 1 /\ t.col \in 0 .. cols

\* Going to the next row, with or without scrolling, shows one blank line
\* more.
LEMMA NextRow ==
  ASSUME NEW t \in Cursor, OnScreen(t), NEW L \in Seq(Line), L # <<>>, Shows(t, L),
         NEW u, u = scroll(NewRow(t))
  PROVE  u \in Cursor /\ OnScreen(u) /\ u.col = 0 /\ Shows(u, Append(L, BlankLine))
<1> DEFINE v == NewRow(t)
           M == Append(L, BlankLine)
<1>1. /\ v.screen = t.screen /\ v.col = 0 /\ v.row = t.row + 1
      /\ v \in Cursor /\ v = [screen |-> t.screen, col |-> 0, row |-> t.row + 1]
  BY DEF Cursor, OnScreen, NewRow
<1>2. /\ M \in Seq(Line) /\ Len(M) = Len(L) + 1 /\ Len(L) \in Nat \ {0}
      /\ M[Len(L) + 1] = BlankLine /\ \A k \in 1 .. Len(L) : M[k] = L[k]
  BY BlankTypes
<1>3. /\ t.screen \in [0 .. rows - 1 -> Line] /\ t.row \in 0 .. rows - 1
      /\ rows \in Nat \ {0} /\ cols \in Nat \ {0}
  BY ConsoleAssumption DEF Cursor, OnScreen
<1> HIDE DEF v, M
<1>4. CASE t.row + 1 < rows
  <2>1. u = v
    BY <1>1, <1>4, <1>3, ScrollNot, ConsoleAssumption DEF v
  <2>2. Len(L) <= rows /\ t.row = Len(L) - 1 /\ Len(M) <= rows
    BY <1>4, <1>2, ConsoleAssumption DEF Shows
  <2>3. \A r \in 0 .. v.row : v.screen[r] = M[Len(M) - v.row + r]
    <3>1. SUFFICES ASSUME NEW r \in 0 .. t.row + 1
                   PROVE  t.screen[r] = M[1 + r]
      BY <1>1, <1>2, <2>2, <1>3
    <3>2. CASE r <= t.row
      BY <3>2, <1>2, <2>2, <1>3 DEF Shows
    <3>3. CASE r = t.row + 1
      BY <3>3, <1>2, <2>2, <1>3, <1>4, ConsoleAssumption DEF Shows
    <3> QED
      BY <3>2, <3>3, <1>3
  <2>4. \A r \in v.row + 1 .. rows - 1 : v.screen[r] = BlankLine
    BY <1>1, <1>3, ConsoleAssumption DEF Shows
  <2>5. OnScreen(u)
    <3>1. t.row + 1 \in 0 .. rows - 1 /\ 0 \in 0 .. cols
      BY <1>3, <1>4
    <3> QED
      BY <3>1, <2>1, <1>1 DEF OnScreen
  <2>6. v.row = IF Len(M) <= rows THEN Len(M) - 1 ELSE rows - 1
    BY <2>2, <1>1, <1>2, <1>3
  <2> QED
    BY <2>1, <2>3, <2>4, <2>5, <2>6, <1>1 DEF Shows, M
<1>5. CASE t.row + 1 = rows
  <2>1. /\ u.row = rows - 1 /\ u.col = 0 /\ u.screen \in [0 .. rows - 1 -> Line]
        /\ \A r \in 0 .. rows - 2 : u.screen[r] = t.screen[r + 1]
        /\ u.screen[rows - 1] = BlankLine
    BY <1>1, <1>5, ScrollDown DEF v
  <2>2. u = [screen |-> u.screen, col |-> 0, row |-> rows - 1]
    <3>1. ~(v.row < rows)
      BY <1>1, <1>5, ConsoleAssumption
    <3> QED
      BY <3>1, <1>1 DEF scroll, v
  <2>3. Len(L) >= rows /\ Len(M) > rows
    BY <1>5, <1>2, ConsoleAssumption DEF Shows
  <2>4. \A r \in 0 .. rows - 1 : u.screen[r] = M[Len(M) - (rows - 1) + r]
    <3>1. SUFFICES ASSUME NEW r \in 0 .. rows - 1
                   PROVE  u.screen[r] = M[Len(L) + 2 - rows + r]
      BY <1>2, ConsoleAssumption
    <3>2. CASE r < rows - 1
      <4>1. u.screen[r] = t.screen[r + 1] /\ r + 1 \in 0 .. t.row
        <5>1. r \in 0 .. rows - 2 /\ t.row = rows - 1
          BY <3>2, <1>3, <1>5
        <5>2. r + 1 \in 0 .. t.row
          BY <5>1, <1>3
        <5> QED
          BY <5>1, <5>2, <2>1
      <4>2. t.screen[r + 1] = L[Len(L) - t.row + (r + 1)]
        BY <4>1 DEF Shows
      <4>3. Len(L) - t.row + (r + 1) = Len(L) + 2 - rows + r
        <5>1. t.row = rows - 1
          BY <1>3, <1>5
        <5> QED
          BY <5>1, <1>3, <1>2
      <4>4. Len(L) + 2 - rows + r \in 1 .. Len(L)
        BY <3>2, <2>3, <1>2, ConsoleAssumption
      <4> QED
        BY <4>1, <4>2, <4>3, <4>4, <1>2
    <3>3. CASE r = rows - 1
      BY <3>3, <2>1, <1>2, ConsoleAssumption
    <3> QED
      BY <3>2, <3>3, ConsoleAssumption
  <2>5. u \in Cursor /\ OnScreen(u) /\ u.col = 0
    <3>1. rows - 1 \in Nat /\ rows - 1 \in 0 .. rows - 1 /\ 0 \in 0 .. cols /\ 0 \in Nat
      BY <1>3
    <3>2. u \in Cursor
      BY <3>1, <2>1, <2>2 DEF Cursor
    <3> QED
      BY <3>1, <3>2, <2>1 DEF OnScreen
  <2>6. Shows(u, M)
    <3>1. \A r \in u.row + 1 .. rows - 1 : u.screen[r] = BlankLine
      BY <2>1, <1>3
    <3>2. u.row = IF Len(M) <= rows THEN Len(M) - 1 ELSE rows - 1
      BY <2>1, <2>3, <1>2, <1>3
    <3> QED
      BY <3>1, <3>2, <2>1, <2>4 DEF Shows
  <2> QED
    BY <2>5, <2>6 DEF M
<1> QED
  BY <1>4, <1>5, <1>3, ConsoleAssumption DEF OnScreen

\* Drawing a character changes the last line and the row that shows it.
LEMMA Draw ==
  ASSUME NEW t \in Cursor, OnScreen(t), t.col < cols, NEW b \in Chars,
         NEW L \in Seq(Line), L # <<>>, Shows(t, L),
         NEW M, M = [L EXCEPT ![Len(L)] = [@ EXCEPT ![t.col] = b]],
         NEW u, u = scroll(draw_glyph(t, b))
  PROVE  /\ u \in Cursor /\ OnScreen(u) /\ Shows(u, M)
         /\ M \in Seq(Line) /\ M # <<>>
<1> DEFINE x == [t.screen[t.row] EXCEPT ![t.col] = b]
<1>1. t.screen \in [0 .. rows - 1 -> Line] /\ t.row \in 0 .. rows - 1 /\ t.col \in 0 .. cols - 1
  BY ConsoleAssumption DEF Cursor, OnScreen
<1>2. Len(L) \in Nat \ {0} /\ L[Len(L)] = t.screen[t.row] /\ t.row < Len(L)
  <2>1. Len(L) \in Nat \ {0} /\ rows \in Nat \ {0}
    BY ConsoleAssumption
  <2>2. t.row < Len(L)
    BY <2>1, <1>1 DEF Shows
  <2>3. t.row \in 0 .. t.row /\ Len(L) - t.row + t.row = Len(L)
    BY <2>1, <1>1
  <2> QED
    BY <2>1, <2>2, <2>3 DEF Shows
<1>3. x \in Line
  BY <1>1 DEF Line
<1>4. M = [L EXCEPT ![Len(L)] = x]
  BY <1>2
<1> HIDE DEF x
<1>5. /\ M \in Seq(Line) /\ Len(M) = Len(L) /\ M[Len(L)] = x
      /\ \A k \in 1 .. Len(L) : k # Len(L) => M[k] = L[k]
  BY <1>2, <1>3, <1>4
<1>6. draw_glyph(t, b) = [screen |-> [t.screen EXCEPT ![t.row] = x],
                          col |-> t.col + 1, row |-> t.row]
  BY <1>1 DEF draw_glyph, x
<1>7. u = [screen |-> [t.screen EXCEPT ![t.row] = x], col |-> t.col + 1, row |-> t.row]
  BY <1>1, <1>6, ScrollNot
<1>8. u \in Cursor /\ OnScreen(u)
  BY <1>1, <1>3, <1>7, ConsoleAssumption DEF Cursor, OnScreen
<1>9. \A r \in 0 .. u.row : u.screen[r] = M[Len(M) - u.row + r]
  <2>1. SUFFICES ASSUME NEW r \in 0 .. t.row
                 PROVE  [t.screen EXCEPT ![t.row] = x][r] = M[Len(L) - t.row + r]
    <3>1. u.row = t.row /\ u.screen = [t.screen EXCEPT ![t.row] = x]
      BY <1>7
    <3> QED
      BY <3>1, <1>5
  <2>2. CASE r = t.row
    <3>1. Len(L) - t.row + r = Len(L)
      BY <2>2, <1>1, <1>2
    <3> QED
      BY <3>1, <2>2, <1>1, <1>5
  <2>3. CASE r # t.row
    <3>1. t.screen[r] = L[Len(L) - t.row + r]
      BY DEF Shows
    <3>2. Len(L) - t.row + r \in 1 .. Len(L) /\ Len(L) - t.row + r # Len(L)
      BY <2>3, <1>1, <1>2
    <3> QED
      BY <3>1, <3>2, <2>3, <1>1, <1>5
  <2> QED
    BY <2>2, <2>3
<1>10. \A r \in u.row + 1 .. rows - 1 : u.screen[r] = BlankLine
  BY <1>7, <1>1, ConsoleAssumption DEF Shows
<1>11. u.row = IF Len(M) <= rows THEN Len(M) - 1 ELSE rows - 1
  BY <1>7, <1>5 DEF Shows
<1> QED
  BY <1>5, <1>2, <1>8, <1>9, <1>10, <1>11 DEF Shows


\* The current cursor and lines, under the invariant.
LEMMA NowShows ==
  ASSUME IInv
  PROVE  /\ Now \in Cursor /\ OnScreen(Now) /\ Shows(Now, lines)
         /\ lines \in Seq(Line) /\ lines # <<>>
<1>1. Now.screen = screen /\ Now.col = col /\ Now.row = row
  BY DEF Now
<1>2. Now \in Cursor
  BY ConsoleAssumption DEF Now, Cursor, IInv, TypeOK
<1> QED
  BY <1>1, <1>2 DEF OnScreen, Shows, IInv, TypeOK, CursorFollowsLog, ShowsLogTail

\* Replacing the last element of a sequence just appended to.
LEMMA AppendExcept ==
  ASSUME NEW L \in Seq(Line), NEW x \in Line, NEW y \in Line
  PROVE  Append(L, y) = [Append(L, x) EXCEPT ![Len(Append(L, x))] = y]
<1> DEFINE A == Append(L, x)
           B == Append(L, y)
           n == Len(L)
<1>1. n \in Nat /\ Len(A) = n + 1 /\ Len(B) = n + 1
  OBVIOUS
<1>2. A \in Seq(Line) /\ B \in Seq(Line) /\ B[n + 1] = y
  OBVIOUS
<1>3. \A k \in 1 .. n : B[k] = L[k] /\ A[k] = L[k]
  OBVIOUS
<1> HIDE DEF A, B, n
<1>4. A \in [1 .. n + 1 -> Line] /\ B \in [1 .. n + 1 -> Line]
  BY <1>1, <1>2, LenProperties
<1>5. \A k \in 1 .. n + 1 : B[k] = [A EXCEPT ![n + 1] = y][k]
  BY <1>1, <1>2, <1>3, <1>4
<1>6. B = [A EXCEPT ![n + 1] = y]
  BY <1>4, <1>5
<1> QED
  BY <1>1, <1>6 DEF A, B

\* write_byte, whatever the byte, keeps the screen in step with the lines.
LEMMA WriteShows ==
  ASSUME IInv, NEW b \in Chars \cup {Newline, Return}, NEW u, u = Written(Now, b)
  PROVE  /\ u \in Cursor /\ OnScreen(u) /\ Shows(u, Logged(b))
         /\ Logged(b) \in Seq(Line) /\ Logged(b) # <<>>
<1>1. Now.screen = screen /\ Now.col = col /\ Now.row = row
  BY DEF Now
<1>2. CASE b = Newline
  <2>1. u = scroll(NewRow(Now)) /\ Logged(b) = Append(lines, BlankLine)
    BY <1>2 DEF Written, Logged
  <2>2. Append(lines, BlankLine) \in Seq(Line) /\ Append(lines, BlankLine) # <<>>
    BY NowShows, BlankTypes
  <2> QED
    BY <2>1, <2>2, NowShows, NextRow
<1>3. CASE b = Return
  <2> DEFINE v == [screen |-> Now.screen, col |-> 0, row |-> Now.row]
  <2>1. u = scroll(v) /\ Logged(b) = lines
    BY <1>3, ConsoleAssumption DEF Written, Logged
  <2>2. v.row = Now.row /\ v.screen = Now.screen /\ v.col = 0 /\ v \in Cursor
    BY NowShows DEF Cursor
  <2> HIDE DEF v
  <2>3. v.row \in 0 .. rows - 1 /\ 0 \in 0 .. cols
    BY <2>2, NowShows, ConsoleAssumption DEF OnScreen
  <2>4. u = v
    BY <2>1, <2>3, ScrollNot
  <2> QED
    BY <2>1, <2>2, <2>3, <2>4, NowShows DEF Shows, OnScreen
<1>4. CASE b \in Chars
  <2>1. b # Newline /\ b # Return
    BY <1>4, ConsoleAssumption
  <2>2. u = scroll(draw_glyph(scroll(Wrap(Now)), b))
    BY <2>1 DEF Written
  <2>3. CASE col < cols
    <3>1. Wrap(Now) = Now /\ scroll(Now) = Now
      BY <2>3, <1>1, NowShows, ScrollNot DEF Wrap, OnScreen
    <3>2. Logged(b) = [lines EXCEPT ![Len(lines)] = [@ EXCEPT ![Now.col] = b]]
      BY <2>1, <2>3, <1>1 DEF Logged
    <3> QED
      BY <3>1, <3>2, <2>2, <2>3, <1>1, <1>4, NowShows, Draw
  <2>4. CASE ~(col < cols)
    <3> DEFINE w == scroll(NewRow(Now))
               M == Append(lines, BlankLine)
    <3>1. Wrap(Now) = NewRow(Now)
      BY <2>4, <1>1 DEF Wrap
    <3>2. w \in Cursor /\ OnScreen(w) /\ w.col = 0 /\ Shows(w, M)
      BY NowShows, NextRow
    <3>3. /\ M \in Seq(Line) /\ M # <<>> /\ Len(M) = Len(lines) + 1
          /\ M[Len(M)] = BlankLine
      BY NowShows, BlankTypes
    <3>4. Logged(b) = Append(lines, [BlankLine EXCEPT ![0] = b])
      BY <2>1, <2>4 DEF Logged
    <3>5. Logged(b) = [M EXCEPT ![Len(M)] = [@ EXCEPT ![0] = b]]
      <4> DEFINE y == [BlankLine EXCEPT ![0] = b]
      <4>1. y \in Line
        BY <1>4, BlankTypes DEF Line
      <4>2. [M EXCEPT ![Len(M)] = [@ EXCEPT ![0] = b]] = [M EXCEPT ![Len(M)] = y]
        BY <3>3
      <4> HIDE DEF y
      <4>3. Append(lines, y) = [M EXCEPT ![Len(M)] = y]
        BY <4>1, NowShows, BlankTypes, AppendExcept
      <4>4. Logged(b) = Append(lines, y)
        BY <3>4 DEF y
      <4> HIDE DEF M
      <4> QED
        BY <4>2, <4>3, <4>4
    <3>6. u = scroll(draw_glyph(w, b)) /\ w.col < cols
      BY <2>2, <3>1, <3>2, ConsoleAssumption
    <3> HIDE DEF w, M
    <3> QED
      BY <3>2, <3>3, <3>5, <3>6, <1>4, Draw
  <2> QED
    BY <2>3, <2>4
<1> QED
  BY <1>2, <1>3, <1>4

\* Every step of the console preserves the invariant.
LEMMA NextInv == IInv /\ [Next]_vars => IInv'
<1> SUFFICES ASSUME IInv, [Next]_vars PROVE IInv'
  OBVIOUS
<1>1. CASE init
  <2>1. lines' = <<BlankLine>>
    BY <1>1 DEF init, IInv, UntouchedUntilActive
  <2>2. /\ screen' = BlankScreen /\ col' = 0 /\ row' = 0
        /\ info' \in {"None", "BltOnly", "Linear"} /\ ACTIVE' = TRUE /\ info' = "Linear"
    BY <1>1 DEF init
  <2>3. TypeOK'
    BY <2>1, <2>2, BlankTypes, ConsoleAssumption DEF TypeOK
  <2>4. CursorFollowsLog' /\ ShowsLogTail'
    BY <2>1, <2>2, ConsoleAssumption DEF CursorFollowsLog, ShowsLogTail, BlankScreen
  <2> QED
    BY <2>2, <2>3, <2>4 DEF IInv, UntouchedUntilActive
<1>2. CASE \E b \in Chars \cup {Newline, Return} : write_byte(b)
  <2>1. PICK b \in Chars \cup {Newline, Return} : write_byte(b)
    BY <1>2
  <2> DEFINE t == Written(Now, b)
  <2>2. /\ ACTIVE /\ screen' = t.screen /\ col' = t.col /\ row' = t.row
        /\ lines' = Logged(b) /\ info' = info /\ ACTIVE' = ACTIVE
    BY <2>1 DEF write_byte
  <2>3. /\ t \in Cursor /\ OnScreen(t) /\ Shows(t, Logged(b))
        /\ Logged(b) \in Seq(Line) /\ Logged(b) # <<>>
    BY WriteShows
  <2> HIDE DEF t
  <2>4. TypeOK'
    BY <2>2, <2>3 DEF TypeOK, IInv, OnScreen, Cursor
  <2>5. CursorFollowsLog' /\ ShowsLogTail'
    BY <2>2, <2>3 DEF CursorFollowsLog, ShowsLogTail, Shows
  <2> QED
    BY <2>2, <2>4, <2>5 DEF IInv, UntouchedUntilActive
<1>3. CASE UNCHANGED vars
  BY <1>3 DEF vars, IInv, TypeOK, CursorFollowsLog, ShowsLogTail, UntouchedUntilActive
<1> QED
  BY <1>1, <1>2, <1>3 DEF Next

\* Nothing written and nothing drawn: the console starts in the invariant.
LEMMA InitInv == Init => IInv
BY FreshInv DEF Init

\* For every screen size, the cursor stays on the screen (TypeOK), it scrolls
\* exactly when it has to (CursorFollowsLog) and the screen is the end of the
\* text written (ShowsLogTail).
THEOREM ConsoleInvariant == Spec => []IInv
BY InitInv, NextInv, PTL DEF Spec

\* write_byte never draws outside the framebuffer.
THEOREM CursorOnScreen == Spec => []TypeOK
<1>1. IInv => TypeOK
  BY DEF IInv
<1> QED
  BY <1>1, ConsoleInvariant, PTL

\* The cursor stands where the text ends: a row is left when the text leaves
\* it, and the screen scrolls when there is no row left and not before.
THEOREM CursorFollows == Spec => []CursorFollowsLog
<1>1. IInv => CursorFollowsLog
  BY DEF IInv
<1> QED
  BY <1>1, ConsoleInvariant, PTL

\* The console shows the end of the log.
THEOREM ConsoleShowsLog == Spec => []ShowsLogTail
<1>1. IInv => ShowsLogTail
  BY DEF IInv
<1> QED
  BY <1>1, ConsoleInvariant, PTL

=============================================================================
