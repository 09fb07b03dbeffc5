--------------------------- MODULE ConsoleProofs ---------------------------
(***************************************************************************)
(* Console for every size of the grid, every welcome text, every set of    *)
(* writers and formats and any number of backspaces: the cursor comes back *)
(* into the grid whatever the interrupt does to it (CursorOK), what is on  *)
(* the screen is the last rows of all that was written (ScreenExact), each *)
(* writer's output is complete and in order (PrintsExact), and division,   *)
(* memmove and str_split compute what they should (RoutinesExact).         *)
(***************************************************************************)
EXTENDS Console, SequenceTheorems, WellFoundedInduction, TLAPS

Control == {"NL", "CR", "BS", "HT"}

\* A screen, and what every one satisfies.
Scr(g, x, y) == [grid |-> g, col |-> x, row |-> y]
GridOK(g) == DOMAIN g = Cells /\ \A c \in Cells : g[c] \notin Control

LEMMA Sizes == FB_COLS \in Nat /\ FB_ROWS \in Nat /\ FB_COLS > 0 /\ FB_ROWS > 0
  BY ConsoleConstants

-----------------------------------------------------------------------------
(* fb_putc.                                                                *)

\* A glyph changes one cell of the grid, and only to what is drawn.
LEMMA GlyphOK ==
    ASSUME NEW g, GridOK(g), NEW y, NEW x, NEW c, c \notin Control
    PROVE  GridOK(draw_glyph(g, y, x, c))
  <1>1. CASE <<y, x>> \in Cells
    <2> DEFINE h == [g EXCEPT ![<<y, x>>] = c]
    <2>1. draw_glyph(g, y, x, c) = h
      BY <1>1 DEF draw_glyph
    <2>2. DOMAIN h = Cells /\ \A k \in Cells : h[k] = IF k = <<y, x>> THEN c ELSE g[k]
      BY DEF GridOK
    <2> HIDE DEF h
    <2>3. QED BY <2>1, <2>2 DEF GridOK
  <1>2. CASE <<y, x>> \notin Cells
    BY <1>2 DEF draw_glyph
  <1>3. QED BY <1>1, <1>2

LEMMA Above ==
    ASSUME NEW c \in Cells, c[1] + 1 < FB_ROWS
    PROVE  <<c[1] + 1, c[2]>> \in Cells
  BY Sizes DEF Cells

\* Scrolling keeps what is drawn, or clears it.
LEMMA ScrollOK ==
    ASSUME NEW g, GridOK(g)
    PROVE  GridOK(scroll_up(g))
  <1>1. DOMAIN scroll_up(g) = Cells
    BY DEF scroll_up
  <1>2. ASSUME NEW c \in Cells PROVE scroll_up(g)[c] \notin Control
    <2>1. CASE c[1] + 1 < FB_ROWS
      <3>1. scroll_up(g)[c] = g[<<c[1] + 1, c[2]>>]
        BY <2>1 DEF scroll_up
      <3>2. QED BY <2>1, <3>1, Above DEF GridOK
    <2>2. CASE ~ (c[1] + 1 < FB_ROWS)
      <3>1. scroll_up(g)[c] = " "
        BY <2>2 DEF scroll_up
      <3>2. QED BY <3>1 DEF Control
    <2>3. QED BY <2>1, <2>2
  <1>3. QED BY <1>1, <1>2 DEF GridOK

\* The end of fb_putc on a screen.
Below(x, y) == IF x >= FB_COLS THEN y + 1 ELSE y
Wrapped(x) == IF x >= FB_COLS THEN 0 ELSE x
LEMMA NormaliseForm ==
    ASSUME NEW g, NEW x, NEW y
    PROVE  Normalise(Scr(g, x, y)) =
             Scr(IF Below(x, y) >= FB_ROWS THEN scroll_up(g) ELSE g, Wrapped(x),
                 IF Below(x, y) >= FB_ROWS THEN FB_ROWS - 1 ELSE Below(x, y))
  BY DEF Normalise, Scr, Below, Wrapped

\* Two fields of a screen at once.
SetRow(s, a, b) == [s EXCEPT !.col = a, !.row = b]
SetGrid(s, a, b) == [s EXCEPT !.col = a, !.grid = b]
LEMMA TwoFields ==
    ASSUME NEW g, NEW x, NEW y, NEW a, NEW b, NEW s, s = Scr(g, x, y)
    PROVE  SetRow(s, a, b) = Scr(g, a, b) /\ SetGrid(s, a, b) = Scr(b, a, y)
  <1>1. PICK t : t = [s EXCEPT !.col = a]
    OBVIOUS
  <1>2. t = Scr(g, a, y)
    BY <1>1 DEF Scr
  <1>3. [s EXCEPT !.col = a, !.row = b] = [t EXCEPT !.row = b]
    BY <1>1 DEF Scr
  <1>4. [s EXCEPT !.col = a, !.grid = b] = [t EXCEPT !.grid = b]
    BY <1>1 DEF Scr
  <1>5. [t EXCEPT !.row = b] = Scr(g, a, b) /\ [t EXCEPT !.grid = b] = Scr(b, a, y)
    BY <1>2 DEF Scr
  <1>6. QED BY <1>3, <1>4, <1>5 DEF SetRow, SetGrid

\* A character on the framebuffer, by its kind.
LEMMA PutcLine ==
    ASSUME NEW g, NEW x, NEW y, NEW c \in {"NL", "CR"}
    PROVE  Put(Scr(g, x, y), c) = Normalise(Scr(g, 0, y + 1))
  <1>1. PICK s, b : s = Scr(g, x, y) /\ b = y + 1
    OBVIOUS
  <1>2. s.row = y
    BY <1>1 DEF Scr
  <1>3. SetRow(s, 0, b) = Scr(g, 0, b)
    BY <1>1, TwoFields
  <1>4. s.row + 1 = b
    BY <1>1, <1>2
  <1>5. QED BY <1>1, <1>3, <1>4 DEF Put, SetRow

LEMMA PutcBack ==
    ASSUME NEW g, NEW x, NEW y
    PROVE  Put(Scr(g, x, y), "BS") =
             Normalise(IF x = 0 THEN Scr(g, x, y) ELSE Scr(draw_glyph(g, y, x - 1, " "), x - 1, y))
  <1>0. PICK s : s = Scr(g, x, y)
    OBVIOUS
  <1>1. PICK a, h : a = x - 1 /\ h = draw_glyph(g, y, x - 1, " ")
    OBVIOUS
  <1>2. s.grid = g /\ s.col = x /\ s.row = y
    BY <1>0 DEF Scr
  <1>3. SetGrid(s, a, h) = Scr(h, a, y)
    BY <1>0, TwoFields
  <1>4. s.col - 1 = a /\ draw_glyph(s.grid, s.row, s.col - 1, " ") = h
    BY <1>1, <1>2
  <1>5. QED BY <1>0, <1>1, <1>2, <1>3, <1>4 DEF Put, SetGrid

LEMMA PutcTab ==
    ASSUME NEW g, NEW x, NEW y
    PROVE  Put(Scr(g, x, y), "HT") = Normalise(Scr(g, ((x + 4) \div 4) * 4, y))
  <1>1. PICK s : s = Scr(g, x, y)
    OBVIOUS
  <1>2. [s EXCEPT !.col = ((@ + 4) \div 4) * 4] = Scr(g, ((x + 4) \div 4) * 4, y)
    BY <1>1 DEF Scr
  <1>3. QED BY <1>1, <1>2 DEF Put

LEMMA PutcGlyph ==
    ASSUME NEW g, NEW x, NEW y, NEW c, c \notin Control
    PROVE  Put(Scr(g, x, y), c) = Normalise(Scr(draw_glyph(g, y, x, c), x + 1, y))
  <1>1. PICK s, a, h : s = Scr(g, x, y) /\ a = x + 1 /\ h = draw_glyph(g, y, x, c)
    OBVIOUS
  <1>2. s.grid = g /\ s.col = x /\ s.row = y
    BY <1>1 DEF Scr
  <1>3. SetGrid(s, a, h) = Scr(h, a, y)
    BY <1>1, TwoFields
  <1>4. s.col + 1 = a /\ draw_glyph(s.grid, s.row, s.col, c) = h
    BY <1>1, <1>2
  <1>5. QED BY <1>1, <1>3, <1>4 DEF Put, SetGrid, Control

\* Wherever the cursor was, a character leaves it inside the grid.
OnScreen(s) == \E g, x, y : s = Scr(g, x, y) /\ GridOK(g) /\ x \in 0 .. FB_COLS - 1 /\ y \in 0 .. FB_ROWS - 1

LEMMA NormaliseOK ==
    ASSUME NEW g, GridOK(g), NEW x \in Nat, NEW y \in Nat
    PROVE  OnScreen(Normalise(Scr(g, x, y)))
  <1> DEFINE h == IF Below(x, y) >= FB_ROWS THEN scroll_up(g) ELSE g
             b == IF Below(x, y) >= FB_ROWS THEN FB_ROWS - 1 ELSE Below(x, y)
  <1>1. GridOK(h)
    BY ScrollOK
  <1>2. Wrapped(x) \in 0 .. FB_COLS - 1 /\ b \in 0 .. FB_ROWS - 1
    BY Sizes DEF Wrapped, Below
  <1>3. Normalise(Scr(g, x, y)) = Scr(h, Wrapped(x), b)
    BY NormaliseForm
  <1> HIDE DEF h, b
  <1>4. QED BY <1>1, <1>2, <1>3 DEF OnScreen

LEMMA PutcOK ==
    ASSUME NEW g, GridOK(g), NEW x \in Nat, NEW y \in Nat, NEW c
    PROVE  OnScreen(Put(Scr(g, x, y), c))
  <1>0. " " \notin Control
    BY DEF Control
  <1>1. CASE c \in {"NL", "CR"}
    <2>1. OnScreen(Normalise(Scr(g, 0, y + 1)))
      BY NormaliseOK
    <2>2. QED BY <1>1, <2>1, PutcLine
  <1>2. CASE c = "BS"
    <2>1. CASE x = 0
      <3>1. OnScreen(Normalise(Scr(g, x, y)))
        BY NormaliseOK
      <3>2. QED BY <1>2, <2>1, <3>1, PutcBack
    <2>2. CASE x # 0
      <3>1. x - 1 \in Nat
        BY <2>2
      <3>2. GridOK(draw_glyph(g, y, x - 1, " "))
        BY <1>0, GlyphOK
      <3>3. OnScreen(Normalise(Scr(draw_glyph(g, y, x - 1, " "), x - 1, y)))
        BY <3>1, <3>2, NormaliseOK
      <3>4. QED BY <1>2, <2>2, <3>3, PutcBack
    <2>3. QED BY <2>1, <2>2
  <1>3. CASE c = "HT"
    <2>1. ((x + 4) \div 4) * 4 \in Nat
      OBVIOUS
    <2>2. OnScreen(Normalise(Scr(g, ((x + 4) \div 4) * 4, y)))
      BY <2>1, NormaliseOK
    <2>3. QED BY <1>3, <2>2, PutcTab
  <1>4. CASE c \notin Control
    <2>1. GridOK(draw_glyph(g, y, x, c)) /\ x + 1 \in Nat
      BY <1>4, GlyphOK
    <2>2. OnScreen(Normalise(Scr(draw_glyph(g, y, x, c), x + 1, y)))
      BY <2>1, NormaliseOK
    <2>3. QED BY <1>4, <2>2, PutcGlyph
  <1>5. QED BY <1>1, <1>2, <1>3, <1>4 DEF Control

-----------------------------------------------------------------------------
(* The cursor, while kmain and the interrupt both move it.                 *)

Stages == {"next", "advance", "newline", "newline_col", "newline_row", "wrap", "scroll", "procs", "null"}

\* The column leaves the grid between cursor_col++ and the wrap only, and
\* the value kmain holds is then the one in memory or an echo has moved it back.
ColOK ==
    /\ cursor_col \in 0 .. FB_COLS /\ loaded.col \in Nat
    /\ kpc \in {"next", "advance", "newline_col", "scroll", "procs", "null"} => cursor_col < FB_COLS
    /\ kpc = "advance" => loaded.col < FB_COLS
    /\ kpc = "wrap" => cursor_col < FB_COLS \/ cursor_col = loaded.col

\* The row does so between cursor_row++ and the scroll.
RowOK ==
    /\ cursor_row \in 0 .. FB_ROWS /\ loaded.row \in Nat
    /\ kpc \notin {"newline_row", "scroll"} => cursor_row < FB_ROWS
    /\ kpc \in {"advance", "wrap", "newline", "newline_col"} => loaded.row < FB_ROWS
    /\ kpc \in {"newline_row", "scroll"} =>
         loaded.row <= FB_ROWS /\ (cursor_row < FB_ROWS \/ cursor_row = loaded.row)

Welcoming == STRING \ {"CR", "BS", "HT"}

CursorInv ==
    /\ job \in Jobs /\ GridOK(grid)
    /\ kpc \in Stages /\ loaded = [col |-> loaded.col, row |-> loaded.row]
    /\ text \in Seq(Welcoming)
    /\ todo \in [Writers -> Seq(Token)]
    /\ ColOK /\ RowOK
    /\ ~ job.fb_base => kpc \in {"next", "procs", "null"}

\* The cursor is where fb_putc left it.
LEMMA Shown ==
    ASSUME NEW s, OnScreen(s), Show(s)
    PROVE  /\ GridOK(grid') /\ cursor_col' \in 0 .. FB_COLS - 1 /\ cursor_row' \in 0 .. FB_ROWS - 1
           /\ s = Scr(grid', cursor_col', cursor_row')
  <1>1. PICK g, x, y : s = Scr(g, x, y) /\ GridOK(g) /\ x \in 0 .. FB_COLS - 1 /\ y \in 0 .. FB_ROWS - 1
    BY DEF OnScreen
  <1>2. s.grid = g /\ s.col = x /\ s.row = y
    BY <1>1 DEF Scr
  <1>3. QED BY <1>1, <1>2 DEF Show

\* Inside the grid the cursor satisfies every stage.
LEMMA InsideOK ==
    ASSUME CursorInv, UNCHANGED <<job, kpc, loaded, text>>, todo' \in [Writers -> Seq(Token)],
           GridOK(grid'), cursor_col' \in 0 .. FB_COLS - 1, cursor_row' \in 0 .. FB_ROWS - 1
    PROVE  CursorInv'
  <1>1. job' = job /\ kpc' = kpc /\ loaded' = loaded /\ text' = text /\ Writers' = Writers
    BY DEF Writers
  <1>2. cursor_col' \in 0 .. FB_COLS /\ cursor_col' < FB_COLS /\ cursor_row' \in 0 .. FB_ROWS /\ cursor_row' < FB_ROWS
    BY Sizes
  <1>3. ColOK'
    BY <1>1, <1>2 DEF CursorInv, ColOK
  <1>4. RowOK'
    BY <1>1, <1>2 DEF CursorInv, RowOK
  <1>5. QED BY <1>1, <1>3, <1>4 DEF CursorInv

LEMMA PutcAgain ==
    ASSUME NEW s, OnScreen(s), NEW c
    PROVE  OnScreen(fb_putc(s, c))
  <1>1. PICK g, x, y : s = Scr(g, x, y) /\ GridOK(g) /\ x \in 0 .. FB_COLS - 1 /\ y \in 0 .. FB_ROWS - 1
    BY DEF OnScreen
  <1>2. x \in Nat /\ y \in Nat
    BY <1>1, Sizes
  <1>3. OnScreen(Put(Scr(g, x, y), c))
    BY <1>1, <1>2, PutcOK
  <1>4. QED BY <1>1, <1>3 DEF fb_putc

\* What the interrupt or a system call draws lies inside the grid.
LEMMA SnapOK ==
    ASSUME CursorInv, NEW c
    PROVE  Snap = Scr(grid, cursor_col, cursor_row) /\ OnScreen(fb_putc(Snap, c))
  <1>1. Snap = Scr(grid, cursor_col, cursor_row)
    BY DEF Snap, Scr
  <1>2. GridOK(grid) /\ cursor_col \in Nat /\ cursor_row \in Nat
    BY Sizes DEF CursorInv, ColOK, RowOK
  <1>3. CASE job.fb_base
    <2>1. OnScreen(Put(Scr(grid, cursor_col, cursor_row), c))
      BY <1>2, PutcOK
    <2>2. QED BY <1>1, <1>3, <2>1 DEF fb_putc
  <1>4. CASE ~ job.fb_base
    <2>1. cursor_col \in 0 .. FB_COLS - 1 /\ cursor_row \in 0 .. FB_ROWS - 1
      BY <1>4, Sizes DEF CursorInv, ColOK, RowOK
    <2>2. OnScreen(Snap)
      BY <1>1, <1>2, <2>1 DEF OnScreen
    <2>3. QED BY <1>1, <1>4, <2>2 DEF fb_putc
  <1>5. QED BY <1>3, <1>4

LEMMA JobFacts ==
    ASSUME job \in Jobs
    PROVE  /\ job.welcome \in Seq(Welcoming) /\ job.backspaces \in Nat
           /\ job.calls \in Seq([how : {"printf", "pprintf", "vkprintf"}, fmt : Seq(Token)])
  BY ConsoleConstants DEF JobOK, Welcoming

\* The writers, and what each was asked to print.
LEMMA CallFacts ==
    ASSUME job \in Jobs, NEW p \in Writers
    PROVE  /\ p \in Nat /\ p # 0 /\ job.calls[p].fmt \in Seq(Token)
           /\ How(p) \in {"printf", "pprintf", "vkprintf"}
  <1>1. PICK calls : calls = job.calls
    OBVIOUS
  <1>2. calls \in Seq([how : {"printf", "pprintf", "vkprintf"}, fmt : Seq(Token)])
    BY <1>1, JobFacts
  <1>3. p \in DOMAIN calls
    BY <1>1 DEF Writers
  <1>4. PICK R : R = [how : {"printf", "pprintf", "vkprintf"}, fmt : Seq(Token)]
    OBVIOUS
  <1>5. p \in 1 .. Len(calls) /\ calls \in Seq(R)
    BY <1>2, <1>3, <1>4
  <1>6. p \in Nat /\ p # 0 /\ calls[p] \in R
    BY <1>5
  <1>7. QED BY <1>1, <1>4, <1>6 DEF How

LEMMA CursorInit == Init => CursorInv
  <1> SUFFICES ASSUME Init PROVE CursorInv
    OBVIOUS
  <1>1. job \in Jobs
    BY DEF Init
  <1>2. GridOK(grid)
    <2>1. \A c \in Cells : grid[c] = " "
      BY DEF Init, Blanks
    <2>2. DOMAIN grid = Cells
      BY DEF Init, Blanks
    <2>3. QED BY <2>1, <2>2 DEF GridOK, Control
  <1>3. loaded = [col |-> loaded.col, row |-> loaded.row] /\ loaded.col = 0 /\ loaded.row = 0
    BY DEF Init
  <1>4. ColOK /\ RowOK /\ kpc \in Stages
    BY <1>3, Sizes DEF Init, ColOK, RowOK, Stages
  <1>5. text \in Seq(Welcoming)
    BY <1>1, JobFacts DEF Init
  <1>6. \A p \in Writers : job.calls[p].fmt \in Seq(Token)
    BY <1>1, CallFacts
  <1>7. todo \in [Writers -> Seq(Token)]
    BY <1>6 DEF Init
  <1>8. ~ job.fb_base => kpc \in {"next", "procs", "null"}
    <2>1. kpc = "next"
      BY DEF Init
    <2>2. QED BY <2>1
  <1>9. QED BY <1>1, <1>2, <1>3, <1>4, <1>5, <1>7, <1>8 DEF CursorInv

\* Every statement of kmain keeps the cursor within reach of the grid.
LEMMA KmainStep ==
    ASSUME CursorInv,
           KmainDark \/ KmainChar \/ KmainAdvance \/ KmainNewline \/ KmainWrap \/ KmainScroll \/ StartProcs
    PROVE  CursorInv'
  <1>0. /\ job \in Jobs /\ GridOK(grid) /\ ColOK /\ RowOK /\ text \in Seq(Welcoming)
        /\ loaded = [col |-> loaded.col, row |-> loaded.row] /\ todo \in [Writers -> Seq(Token)]
    BY DEF CursorInv
  <1>1. job' = job /\ todo' = todo /\ Writers' = Writers
    BY DEF KmainDark, KmainChar, KmainAdvance, KmainNewline, KmainWrap, KmainScroll, StartProcs, Kmain, writers,
           Writers
  <1>c. job.fb_base \/ kpc' \in {"next", "procs"}
    BY DEF CursorInv, KmainDark, KmainChar, KmainAdvance, KmainNewline, KmainWrap, KmainScroll, StartProcs, Kmain
  <1>d. CASE KmainDark
    <2>1. /\ UNCHANGED <<grid, cursor_col, cursor_row, loaded>> /\ kpc = "next" /\ kpc' = "next"
          /\ text' \in Seq(Welcoming)
      BY <1>0, <1>d DEF KmainDark, Kmain, screen
    <2>2. ColOK' /\ RowOK' /\ kpc' \in Stages
      BY <1>0, <2>1 DEF ColOK, RowOK, Stages
    <2>3. QED BY <1>0, <1>1, <2>1, <2>2 DEF CursorInv
  <1>2. CASE KmainChar
    <2>1. text' \in Seq(Welcoming) /\ Head(text) \in Welcoming
      BY <1>0, <1>2 DEF KmainChar
    <2>2. /\ loaded' = [col |-> loaded'.col, row |-> loaded'.row]
          /\ loaded'.col = cursor_col /\ loaded'.row = cursor_row
      BY <1>2 DEF KmainChar
    <2>3. cursor_col' = cursor_col /\ cursor_row' = cursor_row /\ kpc = "next"
      BY <1>2 DEF KmainChar, screen
    <2>4. CASE Head(text) = "NL"
      <3>1. grid' = grid /\ kpc' = "newline"
        BY <1>2, <2>4 DEF KmainChar, screen, Kmain
      <3>2. ColOK' /\ RowOK' /\ kpc' \in Stages
        BY <1>0, <2>2, <2>3, <3>1, Sizes DEF ColOK, RowOK, Stages
      <3>3. QED BY <1>0, <1>1, <1>c, <2>1, <2>2, <3>1, <3>2 DEF CursorInv
    <2>5. CASE Head(text) # "NL"
      <3>1. grid' = draw_glyph(grid, cursor_row, cursor_col, Head(text)) /\ kpc' = "advance"
        BY <1>2, <2>5 DEF KmainChar, Kmain
      <3>2. Head(text) \notin Control
        BY <2>1, <2>5 DEF Control, Welcoming
      <3>3. GridOK(grid')
        BY <1>0, <3>1, <3>2, GlyphOK
      <3>4. ColOK' /\ RowOK' /\ kpc' \in Stages
        BY <1>0, <2>2, <2>3, <3>1, Sizes DEF ColOK, RowOK, Stages
      <3>5. QED BY <1>0, <1>1, <1>c, <2>1, <2>2, <3>3, <3>4 DEF CursorInv
    <2>6. QED BY <2>4, <2>5
  <1>3. CASE KmainAdvance
    <2>1. PICK c \in {cursor_col, loaded.col} : cursor_col' = c + 1 /\ loaded' = [loaded EXCEPT !.col = c + 1]
      BY <1>3 DEF KmainAdvance, Held
    <2>2. grid' = grid /\ cursor_row' = cursor_row /\ text' = text /\ kpc = "advance" /\ kpc' = "wrap"
      BY <1>3 DEF KmainAdvance, Kmain
    <2>3. loaded' = [col |-> loaded'.col, row |-> loaded'.row] /\ loaded'.col = c + 1 /\ loaded'.row = loaded.row
      BY <1>0, <2>1
    <2>4. ColOK' /\ RowOK' /\ kpc' \in Stages
      BY <1>0, <2>1, <2>2, <2>3, Sizes DEF ColOK, RowOK, Stages
    <2>5. QED BY <1>0, <1>1, <1>c, <2>2, <2>3, <2>4 DEF CursorInv
  <1>4. CASE KmainNewline
    <2>1. grid' = grid /\ text' = text
      BY <1>4 DEF KmainNewline
    <2>2. CASE /\ kpc \in {"newline", "newline_row"}
               /\ cursor_col' = 0 /\ loaded' = [loaded EXCEPT !.col = 0]
               /\ UNCHANGED <<grid, cursor_row, text>>
               /\ Kmain(IF kpc = "newline" THEN "newline_col" ELSE "scroll")
      <3>1. loaded' = [col |-> loaded'.col, row |-> loaded'.row] /\ loaded'.col = 0 /\ loaded'.row = loaded.row
        BY <1>0, <2>2
      <3>2. kpc' = IF kpc = "newline" THEN "newline_col" ELSE "scroll"
        BY <2>2 DEF Kmain
      <3>3. ColOK' /\ RowOK' /\ kpc' \in Stages
        BY <1>0, <2>2, <3>1, <3>2, Sizes DEF ColOK, RowOK, Stages
      <3>4. QED BY <1>0, <1>1, <1>c, <2>1, <3>1, <3>3 DEF CursorInv
    <2>3. CASE /\ kpc \in {"newline", "newline_col"}
               /\ \E r \in Held(cursor_row, loaded.row) :
                     cursor_row' = r + 1 /\ loaded' = [loaded EXCEPT !.row = r + 1]
               /\ UNCHANGED <<grid, cursor_col, text>>
               /\ Kmain(IF kpc = "newline" THEN "newline_row" ELSE "scroll")
      <3>1. PICK r \in {cursor_row, loaded.row} : cursor_row' = r + 1 /\ loaded' = [loaded EXCEPT !.row = r + 1]
        BY <2>3 DEF Held
      <3>2. loaded' = [col |-> loaded'.col, row |-> loaded'.row] /\ loaded'.col = loaded.col /\ loaded'.row = r + 1
        BY <1>0, <3>1
      <3>3. kpc' = IF kpc = "newline" THEN "newline_row" ELSE "scroll"
        BY <2>3 DEF Kmain
      <3>4. ColOK' /\ RowOK' /\ kpc' \in Stages
        BY <1>0, <2>3, <3>1, <3>2, <3>3, Sizes DEF ColOK, RowOK, Stages
      <3>5. QED BY <1>0, <1>1, <1>c, <2>1, <3>2, <3>4 DEF CursorInv
    <2>4. QED BY <1>4, <2>2, <2>3 DEF KmainNewline
  <1>5. CASE KmainWrap
    <2>1. PICK c \in {cursor_col, loaded.col} : kpc' = IF c >= FB_COLS THEN "newline" ELSE "scroll"
      BY <1>5 DEF KmainWrap, Held, Kmain
    <2>2. UNCHANGED <<grid, cursor_col, cursor_row, text, loaded>> /\ kpc = "wrap"
      BY <1>5 DEF KmainWrap, screen
    <2>3. ColOK' /\ RowOK' /\ kpc' \in Stages
      BY <1>0, <2>1, <2>2, Sizes DEF ColOK, RowOK, Stages
    <2>4. QED BY <1>0, <1>1, <1>c, <2>2, <2>3 DEF CursorInv
  <1>6. CASE KmainScroll
    <2>1. PICK r \in {cursor_row, loaded.row} :
             IF r < FB_ROWS THEN Kmain("next") /\ UNCHANGED <<screen, loaded>>
             ELSE /\ grid' = scroll_up(grid)
                  /\ cursor_row' = r - 1 /\ loaded' = [loaded EXCEPT !.row = r - 1]
                  /\ UNCHANGED cursor_col /\ Kmain("scroll")
      BY <1>6 DEF KmainScroll, Held
    <2>2. text' = text /\ kpc = "scroll"
      BY <1>6 DEF KmainScroll
    <2>3. CASE r < FB_ROWS
      <3>1. UNCHANGED <<grid, cursor_col, cursor_row, loaded>> /\ kpc' = "next"
        BY <2>1, <2>3 DEF Kmain, screen
      <3>2. ColOK' /\ RowOK' /\ kpc' \in Stages
        BY <1>0, <2>1, <2>2, <2>3, <3>1, Sizes DEF ColOK, RowOK, Stages
      <3>3. QED BY <1>0, <1>1, <1>c, <2>2, <3>1, <3>2 DEF CursorInv
    <2>4. CASE ~ (r < FB_ROWS)
      <3>1. /\ grid' = scroll_up(grid) /\ cursor_row' = r - 1 /\ loaded' = [loaded EXCEPT !.row = r - 1]
            /\ cursor_col' = cursor_col /\ kpc' = "scroll"
        BY <2>1, <2>4 DEF Kmain
      <3>2. GridOK(grid')
        BY <1>0, <3>1, ScrollOK
      <3>3. loaded' = [col |-> loaded'.col, row |-> loaded'.row] /\ loaded'.col = loaded.col /\ loaded'.row = r - 1
        BY <1>0, <3>1
      <3>4. ColOK' /\ RowOK' /\ kpc' \in Stages
        BY <1>0, <2>1, <2>2, <2>4, <3>1, <3>3, Sizes DEF ColOK, RowOK, Stages
      <3>5. QED BY <1>0, <1>1, <1>c, <2>2, <3>2, <3>3, <3>4 DEF CursorInv
    <2>5. QED BY <2>3, <2>4
  <1>7. CASE StartProcs
    <2>1. UNCHANGED <<grid, cursor_col, cursor_row, text, loaded>> /\ kpc = "next" /\ kpc' = "procs"
      BY <1>7 DEF StartProcs, screen
    <2>2. ColOK' /\ RowOK' /\ kpc' \in Stages
      BY <1>0, <2>1 DEF ColOK, RowOK, Stages
    <2>3. QED BY <1>0, <1>1, <2>1, <2>2 DEF CursorInv
  <1>8. QED BY <1>d, <1>2, <1>3, <1>4, <1>5, <1>6, <1>7

\* An echo is three characters, each inside the grid.
LEMMA EchoStep ==
    ASSUME CursorInv, tty_input
    PROVE  CursorInv'
  <1> DEFINE s == fb_putc(fb_putc(fb_putc(Snap, Echo[1]), Echo[2]), Echo[3])
  <1>1. OnScreen(s)
    BY SnapOK, PutcAgain
  <1>2. Show(s) /\ UNCHANGED <<job, kpc, loaded, text>> /\ todo' = todo
    BY DEF tty_input, writers
  <1> HIDE DEF s
  <1>3. GridOK(grid') /\ cursor_col' \in 0 .. FB_COLS - 1 /\ cursor_row' \in 0 .. FB_ROWS - 1
    BY <1>1, <1>2, Shown
  <1>4. todo' \in [Writers -> Seq(Token)]
    BY <1>2 DEF CursorInv
  <1>5. QED BY <1>2, <1>3, <1>4, InsideOK

LEMMA BlanksOK == GridOK(Blanks)
  <1>1. DOMAIN Blanks = Cells /\ \A c \in Cells : Blanks[c] = " "
    BY DEF Blanks
  <1>2. QED BY <1>1 DEF GridOK, Control

\* A system call draws a character, clears the screen or draws in place.
LEMMA WriterStep ==
    ASSUME CursorInv, NEW p \in Writers, NextToken(p) \/ putchar(p) \/ FbCall(p)
    PROVE  CursorInv'
  <1>1. UNCHANGED <<job, kpc, loaded, text>>
    BY DEF NextToken, putchar, FbCall, boot
  <1>2. todo \in [Writers -> Seq(Token)]
    BY DEF CursorInv
  <1>3. CASE NextToken(p)
    <2>1. UNCHANGED <<grid, cursor_col, cursor_row>> /\ Writers' = Writers
      BY <1>3 DEF NextToken, screen, Writers
    <2>2. PICK rest : rest \in Seq(Token) /\ todo' = [todo EXCEPT ![p] = rest]
      <3>1. todo[p] \in Seq(Token) /\ todo[p] # <<>>
        BY <1>2, <1>3 DEF NextToken
      <3>2. Tail(todo[p]) \in Seq(Token) /\ <<>> \in Seq(Token)
        BY <3>1
      <3>3. \/ todo' = [todo EXCEPT ![p] = <<>>]
            \/ todo' = [todo EXCEPT ![p] = Tail(todo[p])]
        BY <1>3 DEF NextToken
      <3>4. QED BY <3>2, <3>3
    <2>3. todo' \in [Writers -> Seq(Token)]
      BY <1>2, <2>2
    <2>4. QED BY <1>1, <2>1, <2>3 DEF CursorInv, ColOK, RowOK
  <1>4. CASE putchar(p)
    <2>1. todo' = todo
      BY <1>4 DEF putchar
    <2>2. CASE How(p) = "vkprintf"
      <3>1. UNCHANGED <<grid, cursor_col, cursor_row>> /\ Writers' = Writers
        BY <1>4, <2>2 DEF putchar, screen, Writers
      <3>2. QED BY <1>1, <2>1, <3>1 DEF CursorInv, ColOK, RowOK
    <2>3. CASE How(p) # "vkprintf"
      <3>1. Show(fb_putc(Snap, Head(pend[p])))
        BY <1>4, <2>3 DEF putchar
      <3>2. GridOK(grid') /\ cursor_col' \in 0 .. FB_COLS - 1 /\ cursor_row' \in 0 .. FB_ROWS - 1
        BY <3>1, SnapOK, Shown
      <3>3. QED BY <1>1, <1>2, <2>1, <3>2, InsideOK
    <2>4. QED BY <2>2, <2>3
  <1>5. CASE FbCall(p)
    <2>1. todo[p] \in Seq(Token) /\ todo[p] # <<>> /\ kpc = "procs"
      BY <1>2, <1>5 DEF FbCall
    <2>2. PICK rest : rest = Tail(todo[p]) /\ rest \in Seq(Token)
      <3>1. Tail(todo[p]) \in Seq(Token)
        BY <2>1
      <3>2. QED BY <3>1
    <2>3. todo' = [todo EXCEPT ![p] = rest]
      BY <1>5, <2>2 DEF FbCall
    <2>4. todo' \in [Writers -> Seq(Token)]
      BY <1>2, <2>2, <2>3
    <2>5. CASE Head(todo[p]).c = "clear"
      <3>1. Show(Scr(Blanks, 0, 0))
        BY <1>5, <2>5 DEF FbCall, Scr
      <3>2. grid' = Blanks /\ cursor_col' = 0 /\ cursor_row' = 0
        BY <3>1 DEF Show, Scr
      <3>3. QED BY <1>1, <2>4, <3>2, BlanksOK, Sizes, InsideOK
    <2>6. CASE Head(todo[p]).c # "clear"
      <3>1. /\ cursor_col' = cursor_col /\ cursor_row' = cursor_row
            /\ \/ grid' = grid
               \/ grid' = draw_glyph(grid, Head(todo[p]).at[1], Head(todo[p]).at[2], "@")
        BY <1>5, <2>6 DEF FbCall
      <3>2. "@" \notin Control
        BY DEF Control
      <3>3. GridOK(grid')
        BY <3>1, <3>2, GlyphOK DEF CursorInv
      <3>4. cursor_col' \in 0 .. FB_COLS - 1 /\ cursor_row' \in 0 .. FB_ROWS - 1
        BY <2>1, <3>1, Sizes DEF CursorInv, ColOK, RowOK
      <3>5. QED BY <1>1, <2>4, <3>3, <3>4, InsideOK
    <2>7. QED BY <2>5, <2>6
  <1>6. QED BY <1>3, <1>4, <1>5

\* A call that finds no framebuffer leaves the screen as it is.
LEMMA NullStep ==
    ASSUME CursorInv, NEW p \in Writers, FbNull(p)
    PROVE  CursorInv'
  <1>1. /\ UNCHANGED <<job, grid, cursor_col, cursor_row, loaded, text, todo>>
        /\ kpc = "procs" /\ kpc' = "null" /\ Writers' = Writers
    BY DEF FbNull, writers, screen, Writers
  <1>2. ColOK' /\ RowOK' /\ kpc' \in Stages
    BY <1>1 DEF CursorInv, ColOK, RowOK, Stages
  <1>3. QED BY <1>1, <1>2 DEF CursorInv

LEMMA CursorStep == CursorInv /\ [Next]_vars => CursorInv'
  <1> SUFFICES ASSUME CursorInv, [Next]_vars PROVE CursorInv'
    OBVIOUS
  <1>1. CASE UNCHANGED vars
    BY <1>1 DEF vars, writers, screen, boot, CursorInv, ColOK, RowOK, Writers
  <1>2. CASE tty_input
    BY <1>2, EchoStep
  <1>3. CASE KmainDark \/ KmainChar \/ KmainAdvance \/ KmainNewline \/ KmainWrap \/ KmainScroll \/ StartProcs
    BY <1>3, KmainStep
  <1>4. CASE \E p \in Writers : NextToken(p) \/ putchar(p) \/ FbCall(p)
    BY <1>4, WriterStep
  <1>5. CASE \E p \in Writers : FbNull(p)
    BY <1>5, NullStep
  <1>6. QED BY <1>1, <1>2, <1>3, <1>4, <1>5 DEF Next

\* CursorOK.  Whatever statement of kmain's fb_putc the echo of a backspace
\* interrupts, and whichever of its values the compiler kept in a register, the
\* cursor is inside the grid again when the character is out, on every grid.
THEOREM CursorAlwaysOK == Spec => []CursorOK
  <1>1. CursorInv => CursorOK
    <2> SUFFICES ASSUME CursorInv PROVE CursorOK
      OBVIOUS
    <2>1. TypeOK
      BY DEF CursorInv, TypeOK, GridOK, Control, ColOK, RowOK, Stages
    <2>2. CursorInside
      BY Sizes DEF CursorInv, CursorInside, ColOK, RowOK, Cells
    <2>3. QED BY <2>1, <2>2 DEF CursorOK
  <1>2. QED BY <1>1, CursorInit, CursorStep, PTL DEF Spec

-----------------------------------------------------------------------------
(* Naturals, and the fold of the paper.                                    *)

\* A set of naturals has a least element.
LEMMA LeastNatural ==
    ASSUME NEW T \in SUBSET Nat, T # {}
    PROVE  \E x \in T : \A y \in T : x <= y
  <1> DEFINE Less == {ss \in Nat \X Nat : ss[1] < ss[2]}
  <1>1. IsWellFoundedOn(Less, Nat)
    BY NatLessThanWellFounded DEF OpToRel
  <1>2. PICK x \in T : \A y \in T : ~ (<<y, x>> \in Less)
    <2> HIDE DEF Less
    <2> QED BY <1>1, WFMin
  <1>3. \A y \in T : ~ (y < x)
    BY <1>2
  <1>4. QED BY <1>3

\* Induction, for a set in place of a predicate.
LEMMA Induction ==
    ASSUME NEW T, 0 \in T, \A k \in Nat : k \in T => k + 1 \in T
    PROVE  Nat \subseteq T
  <1> SUFFICES ASSUME NEW j \in Nat, j \notin T PROVE FALSE
    OBVIOUS
  <1> DEFINE M == {k \in Nat : k \notin T}
  <1>1. PICK x \in M : \A y \in M : x <= y
    BY LeastNatural
  <1>2. x - 1 \in Nat /\ x - 1 \notin M
    BY <1>1
  <1>3. QED BY <1>2

\* The greatest of the numbers up to k.
LEMMA MaxUpTo ==
    ASSUME NEW k \in Nat, NEW s \in SUBSET (1 .. k), s # {}
    PROVE  Max(s) \in s /\ \A j \in s : j <= Max(s)
  <1> DEFINE U == {u \in Nat : \A j \in s : j <= u}
  <1>1. k \in U
    OBVIOUS
  <1>2. PICK x \in U : \A y \in U : x <= y
    BY <1>1, LeastNatural
  <1>3. x \in s
    <2> SUFFICES ASSUME x \notin s PROVE FALSE
      OBVIOUS
    <2>1. \A j \in s : j < x
      BY <1>2
    <2>2. x - 1 \in Nat
      <3>1. PICK j : j \in s
        OBVIOUS
      <3>2. j \in Nat /\ j >= 1 /\ j < x /\ x \in Nat
        BY <1>2, <2>1, <3>1
      <3>3. QED BY <3>2
    <2>3. x - 1 \in U
      BY <1>2, <2>1, <2>2
    <2>4. QED BY <1>2, <2>3
  <1>4. \E y \in s : \A j \in s : y >= j
    BY <1>2, <1>3
  <1>5. Max(s) \in s /\ \A j \in s : Max(s) >= j
    BY <1>4 DEF Max
  <1>6. QED BY <1>5

LEMMA MaxTop ==
    ASSUME NEW k \in Nat, NEW s \in SUBSET (1 .. k + 1), k + 1 \in s
    PROVE  Max(s) = k + 1
  <1>1. PICK j \in Nat : j = k + 1
    OBVIOUS
  <1>2. s \in SUBSET (1 .. j) /\ s # {} /\ j \in s
    BY <1>1
  <1>3. Max(s) \in s /\ j <= Max(s)
    BY <1>2, MaxUpTo
  <1>4. Max(s) \in 1 .. j
    BY <1>2, <1>3
  <1> DEFINE m == Max(s)
  <1> HIDE DEF m
  <1>5. m \in 1 .. j /\ j <= m
    BY <1>3, <1>4 DEF m
  <1>6. m = j
    BY <1>5
  <1>7. QED BY <1>1, <1>6 DEF m

\* The paper after a sequence of entries, and the sheets it goes through.
Drawn(b, list) == FoldLeft(Paper, b, list)
Sheets(h, b, list, m) ==
    /\ h[0] = b /\ Drawn(b, list) = h[m]
    /\ \A k \in 1 .. m : h[k] = Paper(h[k - 1], list[k])

LEMMA PaperTrace ==
    ASSUME NEW b, NEW m \in Nat, NEW list, DOMAIN list = 1 .. m
    PROVE  \E h : Sheets(h, b, list, m)
  <1> DEFINE Turn(x, k) == Paper(x, list[k])
             Value(f, s) == IF s = {} THEN b ELSE Turn(f[s \ {Max(s)}], Max(s))
             Body(f) == [s \in SUBSET DOMAIN list |-> Value(f, s)]
             iter == CHOOSE f : f = Body(f)
             T == {k \in Nat : \E f : \A s \in SUBSET (1 .. k) : f[s] = Value(f, s)}
  <1>1. Drawn(b, list) = iter[DOMAIN list]
    BY DEF Drawn, FoldLeft, MapThenFoldSet
  <1> HIDE DEF Turn
  <1>2. 0 \in T
    <2> DEFINE f == [s \in SUBSET (1 .. 0) |-> b]
    <2>1. \A s \in SUBSET (1 .. 0) : s = {} /\ f[s] = b
      OBVIOUS
    <2>2. \A s \in SUBSET (1 .. 0) : f[s] = Value(f, s)
      BY <2>1
    <2> HIDE DEF f
    <2>3. QED BY <2>2
  <1>3. ASSUME NEW k \in Nat, k \in T PROVE k + 1 \in T
    <2>1. PICK f : \A s \in SUBSET (1 .. k) : f[s] = Value(f, s)
      BY <1>3
    <2> DEFINE g == [s \in SUBSET (1 .. k + 1) |->
                       IF k + 1 \in s THEN Turn(f[s \ {k + 1}], k + 1) ELSE f[s]]
    <2>2. ASSUME NEW s \in SUBSET (1 .. k + 1), k + 1 \in s PROVE g[s] = Value(g, s)
      <3>1. Max(s) = k + 1
        BY <2>2, MaxTop
      <3>2. s \ {k + 1} \in SUBSET (1 .. k + 1) /\ k + 1 \notin s \ {k + 1}
        OBVIOUS
      <3>3. g[s \ {k + 1}] = f[s \ {k + 1}] /\ g[s] = Turn(f[s \ {k + 1}], k + 1)
        BY <2>2, <3>2
      <3> HIDE DEF g
      <3>4. QED BY <2>2, <3>1, <3>3
    <2>3. ASSUME NEW s \in SUBSET (1 .. k + 1), k + 1 \notin s PROVE g[s] = Value(g, s)
      <3>1. s \in SUBSET (1 .. k)
        BY <2>3
      <3>2. s \ {Max(s)} \in SUBSET (1 .. k + 1) /\ k + 1 \notin s \ {Max(s)}
        BY <2>3
      <3>3. g[s] = f[s] /\ g[s \ {Max(s)}] = f[s \ {Max(s)}]
        BY <2>3, <3>2
      <3>4. f[s] = Value(f, s)
        BY <2>1, <3>1
      <3> HIDE DEF g
      <3>5. QED BY <3>3, <3>4
    <2> HIDE DEF g
    <2>4. \A s \in SUBSET (1 .. k + 1) : g[s] = Value(g, s)
      BY <2>2, <2>3
    <2> HIDE DEF Value
    <2>5. \E x : \A s \in SUBSET (1 .. k + 1) : x[s] = Value(x, s)
      BY <2>4
    <2>6. k + 1 \in Nat
      OBVIOUS
    <2>7. QED BY <2>5, <2>6, Zenon
  <1> HIDE DEF T
  <1>4. m \in T
    BY <1>2, <1>3, Induction
  <1>5. PICK f : \A s \in SUBSET (1 .. m) : f[s] = Value(f, s)
    BY <1>4 DEF T
  <1>6. \E g : g = Body(g)
    <2> DEFINE g == [s \in SUBSET DOMAIN list |-> f[s]]
    <2>1. \A s \in SUBSET DOMAIN list : g[s] = f[s] /\ g[s \ {Max(s)}] = f[s \ {Max(s)}]
      OBVIOUS
    <2>2. \A s \in SUBSET DOMAIN list : f[s] = Value(g, s)
      BY <1>5, <2>1
    <2>3. g = Body(g)
      BY <2>2
    <2> HIDE DEF g
    <2>4. QED BY <2>3
  <1>7. iter = Body(iter)
    <2> HIDE DEF Body
    <2>1. QED BY <1>6
  <1> HIDE DEF iter
  <1>8. \A s \in SUBSET (1 .. m) : iter[s] = Value(iter, s)
    BY <1>7
  <1> DEFINE h == [k \in 0 .. m |-> iter[1 .. k]]
  <1>9. h[0] = b
    <2>1. 1 .. 0 = {}
      OBVIOUS
    <2>2. iter[{}] = b
      BY <1>8
    <2>3. QED BY <2>1, <2>2
  <1>10. ASSUME NEW k \in 1 .. m PROVE h[k] = Turn(h[k - 1], k)
    <2>1. PICK j \in Nat : k = j + 1
      OBVIOUS
    <2>2. PICK s : s = 1 .. j + 1
      OBVIOUS
    <2>3. s \in SUBSET (1 .. m) /\ s # {} /\ Max(s) = j + 1
      BY <2>1, <2>2, MaxTop
    <2>4. s \ {j + 1} = 1 .. j
      BY <2>2
    <2>5. iter[s] = Turn(iter[s \ {j + 1}], j + 1)
      BY <1>8, <2>3
    <2>6. k \in 0 .. m /\ j \in 0 .. m /\ k - 1 = j
      BY <2>1
    <2>7. h[k] = iter[s] /\ h[j] = iter[s \ {j + 1}]
      BY <2>1, <2>2, <2>4, <2>6
    <2> HIDE DEF h
    <2>8. QED BY <2>1, <2>5, <2>6, <2>7
  <1>11. Drawn(b, list) = h[m]
    BY <1>1
  <1> HIDE DEF h
  <1>12. \A k \in 1 .. m : h[k] = Paper(h[k - 1], list[k])
    BY <1>10 DEF Turn
  <1>13. Sheets(h, b, list, m)
    BY <1>9, <1>11, <1>12 DEF Sheets
  <1>14. QED BY <1>13

\* One more entry is one more step of the paper.
LEMMA DrawnAppend ==
    ASSUME NEW b, NEW S, NEW list \in Seq(S), NEW e \in S
    PROVE  Drawn(b, Append(list, e)) = Paper(Drawn(b, list), e)
  <1> DEFINE more == Append(list, e)
  <1>1. PICK m \in Nat : m = Len(list)
    OBVIOUS
  <1>2. DOMAIN list = 1 .. m /\ DOMAIN more = 1 .. m + 1 /\ more[m + 1] = e
    BY <1>1
  <1>3. \A k \in 1 .. m : more[k] = list[k]
    BY <1>1
  <1> HIDE DEF more
  <1>4. PICK h : /\ h[0] = b /\ Drawn(b, list) = h[m]
                 /\ \A k \in 1 .. m : h[k] = Paper(h[k - 1], list[k])
    <2>1. DOMAIN list = 1 .. m
      BY <1>2
    <2>2. \E h : Sheets(h, b, list, m)
      BY <2>1, PaperTrace
    <2>3. QED BY <2>2 DEF Sheets
  <1>5. PICK g : /\ g[0] = b /\ Drawn(b, more) = g[m + 1]
                 /\ \A k \in 1 .. m + 1 : g[k] = Paper(g[k - 1], more[k])
    <2>1. m + 1 \in Nat
      OBVIOUS
    <2>2. DOMAIN more = 1 .. m + 1
      BY <1>2
    <2>3. \E g : Sheets(g, b, more, m + 1)
      BY <2>1, <2>2, PaperTrace
    <2>4. QED BY <2>3 DEF Sheets
  <1> DEFINE T == {k \in Nat : k <= m => h[k] = g[k]}
  <1>6. 0 \in T
    BY <1>4, <1>5
  <1>7. ASSUME NEW k \in Nat, k \in T PROVE k + 1 \in T
    <2>1. CASE k + 1 <= m
      <3>1. k + 1 \in 1 .. m /\ k + 1 \in 1 .. m + 1 /\ (k + 1) - 1 = k /\ h[k] = g[k]
        BY <1>7, <2>1
      <3>2. h[k + 1] = Paper(h[k], list[k + 1]) /\ g[k + 1] = Paper(g[k], more[k + 1])
        BY <1>4, <1>5, <3>1
      <3>3. QED BY <1>3, <3>1, <3>2
    <2>2. CASE ~ (k + 1 <= m)
      BY <2>2
    <2>3. QED BY <2>1, <2>2
  <1>8. m \in T
    <2> HIDE DEF T
    <2> QED BY <1>6, <1>7, Induction
  <1>9. h[m] = g[m]
    BY <1>8
  <1>10. m + 1 \in 1 .. m + 1 /\ (m + 1) - 1 = m
    OBVIOUS
  <1>11. g[m + 1] = Paper(g[m], e)
    BY <1>2, <1>5, <1>10
  <1>12. QED BY <1>4, <1>5, <1>9, <1>11 DEF more

-----------------------------------------------------------------------------
(* The paper, entry by entry.                                              *)

Space == " "
Sheet(i, x, y, t) == [ink |-> i, col |-> x, row |-> y, top |-> t]
Inked(i, r, c, v) == [k \in DOMAIN i \cup {<<r, c>>} |-> IF k = <<r, c>> THEN v ELSE i[k]]
GoTo(i, r, c, t) ==
    Sheet(i, c, IF r - t >= FB_ROWS THEN FB_ROWS - 1 ELSE r - t, IF r - t >= FB_ROWS THEN r - FB_ROWS + 1 ELSE t)

LEMMA PaperClear ==
    ASSUME NEW i, NEW x, NEW y, NEW t, NEW e, e.c = "clear"
    PROVE  Paper(Sheet(i, x, y, t), e) = Sheet([k \in {} |-> ""], 0, 0, t)
  BY DEF Paper, Sheet

LEMMA PaperAt ==
    ASSUME NEW i, NEW x, NEW y, NEW t, NEW e, e.c = "at"
    PROVE  Paper(Sheet(i, x, y, t), e) =
             Sheet(IF e.at \in Cells THEN Inked(i, t + e.at[1], e.at[2], "@") ELSE i, x, y, t)
  <1>1. PICK s : s = Sheet(i, x, y, t)
    OBVIOUS
  <1>2. s.ink = i /\ s.top = t
    BY <1>1 DEF Sheet
  <1>3. PICK h : h = Inked(i, t + e.at[1], e.at[2], "@")
    OBVIOUS
  <1>4. [s EXCEPT !.ink = h] = Sheet(h, x, y, t)
    BY <1>1 DEF Sheet
  <1>5. Paper(s, e) = IF e.at \in Cells THEN [s EXCEPT !.ink = h] ELSE s
    BY <1>2, <1>3 DEF Paper, Inked
  <1>6. QED BY <1>1, <1>3, <1>4, <1>5

LEMMA PaperLine ==
    ASSUME NEW i, NEW x, NEW y, NEW t, NEW e, e.c \in {"NL", "CR"}
    PROVE  Paper(Sheet(i, x, y, t), e) = GoTo(i, t + y + 1, 0, t)
  BY DEF Paper, Sheet, GoTo

LEMMA PaperHome ==
    ASSUME NEW i, NEW y, NEW t, NEW e, e.c = "BS"
    PROVE  Paper(Sheet(i, 0, y, t), e) = Sheet(i, 0, y, t)
  BY DEF Paper, Sheet

LEMMA PaperBack ==
    ASSUME NEW i, NEW x, NEW y, NEW t, NEW e, e.c = "BS", x # 0, NEW a, a = x - 1
    PROVE  Paper(Sheet(i, x, y, t), e) = GoTo(Inked(i, t + y, a, Space), t + y, a, t)
  <1>1. PICK s : s = Sheet(i, x, y, t)
    OBVIOUS
  <1>2. s.ink = i /\ s.top = t /\ s.row = y /\ s.col = x
    BY <1>1 DEF Sheet
  <1>3. Paper(s, e) = IF s.col = 0 THEN s
                      ELSE GoTo(Inked(s.ink, s.top + s.row, s.col - 1, Space), s.top + s.row, s.col - 1, s.top)
    BY DEF Paper, GoTo, Inked, Sheet, Space
  <1>4. QED BY <1>1, <1>2, <1>3

LEMMA PaperTab ==
    ASSUME NEW i, NEW x, NEW y, NEW t, NEW e, e.c = "HT", NEW c, c = ((x + 4) \div 4) * 4
    PROVE  Paper(Sheet(i, x, y, t), e) = GoTo(i, Below(c, t + y), Wrapped(c), t)
  <1>1. PICK s : s = Sheet(i, x, y, t)
    OBVIOUS
  <1>2. s.ink = i /\ s.top = t /\ s.row = y /\ s.col = x
    BY <1>1 DEF Sheet
  <1>3. LET b == ((s.col + 4) \div 4) * 4
        IN  Paper(s, e) = GoTo(s.ink, Below(b, s.top + s.row), Wrapped(b), s.top)
    BY DEF Paper, GoTo, Sheet, Below, Wrapped
  <1>4. QED BY <1>1, <1>2, <1>3

LEMMA PaperGlyph ==
    ASSUME NEW i, NEW x, NEW y, NEW t, NEW e, e.c \notin Control, e.c \notin Calls
    PROVE  Paper(Sheet(i, x, y, t), e) =
             GoTo(Inked(i, t + y, x, e.c), Below(x + 1, t + y), Wrapped(x + 1), t)
  <1>1. PICK s : s = Sheet(i, x, y, t)
    OBVIOUS
  <1>2. s.ink = i /\ s.top = t /\ s.row = y /\ s.col = x
    BY <1>1 DEF Sheet
  <1>3. Paper(s, e) = GoTo(Inked(s.ink, s.top + s.row, s.col, e.c),
                           Below(s.col + 1, s.top + s.row), Wrapped(s.col + 1), s.top)
    BY DEF Paper, GoTo, Inked, Sheet, Below, Wrapped, Control, Calls
  <1>4. QED BY <1>1, <1>2, <1>3

-----------------------------------------------------------------------------
(* The screen as a window on the paper.                                    *)

\* What the paper has at a place, and a grid that shows it from row t on.
At(i, r, c) == IF <<r, c>> \in DOMAIN i THEN i[<<r, c>>] ELSE " "
View(g, i, t) ==
    /\ t \in Nat /\ DOMAIN g = Cells
    /\ \A k \in DOMAIN i : k \in Nat \X Nat /\ k[1] < t + FB_ROWS
    /\ \A c \in Cells : g[c] = At(i, t + c[1], c[2])
Match(s, w) ==
    \E g, x, y, i, t :
       /\ s = Scr(g, x, y) /\ w = Sheet(i, x, y, t) /\ View(g, i, t)
       /\ x \in 0 .. FB_COLS - 1 /\ y \in 0 .. FB_ROWS - 1

LEMMA CellParts ==
    ASSUME NEW c \in Cells
    PROVE  c[1] \in 0 .. FB_ROWS - 1 /\ c[2] \in 0 .. FB_COLS - 1 /\ c = <<c[1], c[2]>> /\ c[1] \in Nat /\ c[2] \in Nat
  BY Sizes DEF Cells

\* Drawing shows on both.
LEMMA ViewInk ==
    ASSUME NEW g, NEW i, NEW t, View(g, i, t), NEW y \in 0 .. FB_ROWS - 1, NEW x \in 0 .. FB_COLS - 1, NEW v
    PROVE  View(draw_glyph(g, y, x, v), Inked(i, t + y, x, v), t)
  <1> DEFINE h == [g EXCEPT ![<<y, x>>] = v]
             j == Inked(i, t + y, x, v)
  <1>0. <<y, x>> \in Cells /\ t \in Nat /\ x \in Nat /\ y \in Nat /\ y < FB_ROWS
    BY Sizes DEF View, Cells
  <1>1. draw_glyph(g, y, x, v) = h
    BY <1>0 DEF draw_glyph
  <1>2. DOMAIN h = Cells /\ \A c \in Cells : h[c] = IF c = <<y, x>> THEN v ELSE g[c]
    BY DEF View
  <1>3. /\ DOMAIN j = DOMAIN i \cup {<<t + y, x>>}
        /\ \A k \in DOMAIN j : j[k] = IF k = <<t + y, x>> THEN v ELSE i[k]
    BY DEF Inked
  <1> HIDE DEF h, j
  <1>4. ASSUME NEW k \in DOMAIN j PROVE k \in Nat \X Nat /\ k[1] < t + FB_ROWS
    <2>1. CASE k = <<t + y, x>>
      <3>1. k \in Nat \X Nat /\ k[1] = t + y
        BY <1>0, <2>1
      <3>2. QED BY <1>0, <3>1, Sizes
    <2>2. CASE k # <<t + y, x>>
      BY <1>3, <2>2 DEF View
    <2>3. QED BY <2>1, <2>2
  <1>5. ASSUME NEW c \in Cells PROVE h[c] = At(j, t + c[1], c[2])
    <2>0. /\ c = <<c[1], c[2]>> /\ c[1] \in Nat /\ c[2] \in Nat
          /\ g[c] = At(i, t + c[1], c[2])
      BY CellParts DEF View
    <2>1. CASE c = <<y, x>>
      <3>1. c[1] = y /\ c[2] = x /\ h[c] = v
        BY <1>2, <2>1
      <3>2. <<t + c[1], c[2]>> \in DOMAIN j /\ j[<<t + c[1], c[2]>>] = v
        BY <1>3, <3>1
      <3>3. QED BY <3>1, <3>2 DEF At
    <2>2. CASE c # <<y, x>>
      <3>1. c[1] # y \/ c[2] # x
        BY <2>0, <2>2
      <3>2. PICK k : k = <<t + c[1], c[2]>>
        OBVIOUS
      <3>3. k # <<t + y, x>>
        BY <1>0, <2>0, <3>1, <3>2
      <3>4. (k \in DOMAIN j <=> k \in DOMAIN i) /\ (k \in DOMAIN j => j[k] = i[k])
        BY <1>3, <3>3
      <3>5. At(j, t + c[1], c[2]) = At(i, t + c[1], c[2])
        BY <3>2, <3>4 DEF At
      <3>6. QED BY <1>2, <2>0, <2>2, <3>5
    <2>3. QED BY <2>1, <2>2
  <1>6. View(h, j, t)
    BY <1>0, <1>2, <1>4, <1>5 DEF View
  <1>7. QED BY <1>1, <1>6 DEF j

\* Scrolling moves the window down by a row, on which nothing was written.
LEMMA ViewScroll ==
    ASSUME NEW g, NEW i, NEW t, View(g, i, t)
    PROVE  View(scroll_up(g), i, t + 1)
  <1> DEFINE h == scroll_up(g)
  <1>0. t \in Nat /\ t + 1 \in Nat
    BY DEF View
  <1>1. DOMAIN h = Cells
    BY DEF scroll_up
  <1>2. \A k \in DOMAIN i : k \in Nat \X Nat /\ k[1] < (t + 1) + FB_ROWS
    <2> SUFFICES ASSUME NEW k \in DOMAIN i PROVE k \in Nat \X Nat /\ k[1] < (t + 1) + FB_ROWS
      OBVIOUS
    <2>1. k \in Nat \X Nat /\ k[1] < t + FB_ROWS
      BY DEF View
    <2>2. k[1] \in Nat
      BY <2>1
    <2>3. QED BY <1>0, <2>1, <2>2, Sizes
  <1>3. ASSUME NEW c \in Cells PROVE h[c] = At(i, (t + 1) + c[1], c[2])
    <2>0. c[1] \in Nat /\ c[1] < FB_ROWS
      BY CellParts, Sizes
    <2>1. CASE c[1] + 1 < FB_ROWS
      <3>1. PICK d : d = <<c[1] + 1, c[2]>>
        OBVIOUS
      <3>2. d \in Cells /\ d[1] = c[1] + 1 /\ d[2] = c[2]
        BY <2>1, <3>1, Above
      <3>3. h[c] = g[d]
        BY <2>1, <3>1 DEF scroll_up
      <3>4. g[d] = At(i, t + d[1], d[2])
        BY <3>2 DEF View
      <3>5. t + d[1] = (t + 1) + c[1]
        BY <1>0, <2>0, <3>2
      <3>6. QED BY <3>2, <3>3, <3>4, <3>5
    <2>2. CASE ~ (c[1] + 1 < FB_ROWS)
      <3>1. h[c] = " "
        BY <2>2 DEF scroll_up
      <3>2. PICK k : k = <<(t + 1) + c[1], c[2]>>
        OBVIOUS
      <3>3. k[1] = t + FB_ROWS
        BY <1>0, <2>0, <2>2, <3>2, Sizes
      <3>4. k \notin DOMAIN i
        <4> SUFFICES ASSUME k \in DOMAIN i PROVE FALSE
          OBVIOUS
        <4>1. k[1] < t + FB_ROWS
          BY DEF View
        <4>2. QED BY <1>0, <3>3, <4>1, Sizes
      <3>5. QED BY <3>1, <3>2, <3>4 DEF At
    <2>3. QED BY <2>1, <2>2
  <1> HIDE DEF h
  <1>4. View(h, i, t + 1)
    BY <1>0, <1>1, <1>2, <1>3 DEF View
  <1>5. QED BY <1>4 DEF h

\* The end of fb_putc and of a line of the paper agree.
LEMMA NormaliseMatch ==
    ASSUME NEW g, NEW i, NEW t, View(g, i, t), NEW x \in Nat, NEW y \in Nat, Below(x, y) <= FB_ROWS
    PROVE  Match(Normalise(Scr(g, x, y)), GoTo(i, Below(x, t + y), Wrapped(x), t))
  <1>0. t \in Nat
    BY DEF View
  <1>1. Wrapped(x) \in 0 .. FB_COLS - 1 /\ Below(x, y) \in Nat
    BY Sizes DEF Wrapped, Below
  <1>2. Below(x, t + y) - t = Below(x, y) /\ Below(x, t + y) = t + Below(x, y)
    BY <1>0 DEF Below
  <1>3. CASE Below(x, y) >= FB_ROWS
    <2>1. Below(x, y) = FB_ROWS
      BY <1>1, <1>3, Sizes
    <2>2. Normalise(Scr(g, x, y)) = Scr(scroll_up(g), Wrapped(x), FB_ROWS - 1)
      BY <1>3, NormaliseForm
    <2>3. Below(x, t + y) - FB_ROWS + 1 = t + 1
      BY <1>0, <1>2, <2>1, Sizes
    <2>4. GoTo(i, Below(x, t + y), Wrapped(x), t) = Sheet(i, Wrapped(x), FB_ROWS - 1, t + 1)
      BY <1>2, <1>3, <2>3 DEF GoTo
    <2>5. View(scroll_up(g), i, t + 1) /\ FB_ROWS - 1 \in 0 .. FB_ROWS - 1
      BY ViewScroll, Sizes
    <2>6. QED BY <1>1, <2>2, <2>4, <2>5 DEF Match
  <1>4. CASE ~ (Below(x, y) >= FB_ROWS)
    <2>1. Normalise(Scr(g, x, y)) = Scr(g, Wrapped(x), Below(x, y))
      BY <1>4, NormaliseForm
    <2>2. GoTo(i, Below(x, t + y), Wrapped(x), t) = Sheet(i, Wrapped(x), Below(x, y), t)
      BY <1>2, <1>4 DEF GoTo
    <2>3. Below(x, y) \in 0 .. FB_ROWS - 1
      BY <1>1, <1>4, Sizes
    <2>4. QED BY <1>1, <2>1, <2>2, <2>3 DEF Match
  <1>5. QED BY <1>3, <1>4

\* A character does the same to the screen and to the paper.
LEMMA PutcMatch ==
    ASSUME NEW s, NEW w, Match(s, w), NEW e, e.c \notin Calls
    PROVE  Match(Put(s, e.c), Paper(w, e))
  <1>1. PICK g, x, y, i, t :
           /\ s = Scr(g, x, y) /\ w = Sheet(i, x, y, t) /\ View(g, i, t)
           /\ x \in 0 .. FB_COLS - 1 /\ y \in 0 .. FB_ROWS - 1
    BY DEF Match
  <1>2. /\ x \in Nat /\ y \in Nat /\ t \in Nat /\ x < FB_COLS /\ y < FB_ROWS
        /\ FB_COLS \in Nat /\ FB_ROWS \in Nat
    BY <1>1, Sizes DEF View
  <1>3. CASE e.c \in {"NL", "CR"}
    <2>1. Below(0, y + 1) = y + 1 /\ Wrapped(0) = 0 /\ Below(0, t + (y + 1)) = t + y + 1 /\ y + 1 \in Nat
      BY <1>2 DEF Below, Wrapped
    <2>2. Below(0, y + 1) <= FB_ROWS
      BY <1>2, <2>1
    <2>3. Match(Normalise(Scr(g, 0, y + 1)), GoTo(i, t + y + 1, 0, t))
      BY <1>1, <2>1, <2>2, NormaliseMatch
    <2>4. Put(s, e.c) = Normalise(Scr(g, 0, y + 1))
      BY <1>1, <1>3, PutcLine
    <2>5. Paper(w, e) = GoTo(i, t + y + 1, 0, t)
      BY <1>1, <1>3, PaperLine
    <2>6. QED BY <2>3, <2>4, <2>5
  <1>4. CASE e.c = "BS"
    <2>1. CASE x = 0
      <3>1. Below(x, y) = y /\ Wrapped(x) = x
        BY <1>2 DEF Below, Wrapped
      <3>2. ~ (Below(x, y) >= FB_ROWS)
        BY <1>2, <3>1
      <3>3. Normalise(Scr(g, x, y)) = Scr(g, x, y)
        BY <3>1, <3>2, NormaliseForm
      <3>4. Put(s, e.c) = s
        BY <1>1, <1>4, <2>1, <3>3, PutcBack
      <3>5. Paper(w, e) = w
        BY <1>1, <1>4, <2>1, PaperHome
      <3>6. QED BY <3>4, <3>5
    <2>2. CASE x # 0
      <3>1. x - 1 \in Nat /\ x - 1 \in 0 .. FB_COLS - 1 /\ x - 1 < FB_COLS
        BY <1>2, <2>2
      <3>0. PICK a : a = x - 1
        OBVIOUS
      <3>2. PICK h, j : h = draw_glyph(g, y, a, Space) /\ j = Inked(i, t + y, a, Space)
        OBVIOUS
      <3>3. View(h, j, t)
        BY <1>1, <3>0, <3>1, <3>2, ViewInk
      <3>a. a \in Nat /\ a < FB_COLS
        BY <3>0, <3>1
      <3>4. Below(a, y) = y /\ Wrapped(a) = a /\ Below(a, t + y) = t + y /\ a \in Nat
        BY <1>2, <3>a DEF Below, Wrapped
      <3>5. Below(a, y) <= FB_ROWS
        BY <1>2, <3>4
      <3>6. Match(Normalise(Scr(h, a, y)), GoTo(j, t + y, a, t))
        BY <1>2, <3>3, <3>4, <3>5, NormaliseMatch
      <3>7. Put(s, e.c) = Normalise(Scr(h, a, y))
        BY <1>1, <1>4, <2>2, <3>0, <3>2, PutcBack DEF Space
      <3>8. Paper(w, e) = GoTo(j, t + y, a, t)
        <4>1. Paper(Sheet(i, x, y, t), e) = GoTo(j, t + y, a, t)
          BY <1>4, <2>2, <3>0, <3>2, PaperBack
        <4>2. QED BY <1>1, <4>1
      <3>9. QED BY <3>6, <3>7, <3>8
    <2>3. QED BY <2>1, <2>2
  <1>5. CASE e.c = "HT"
    <2>1. PICK a : a = ((x + 4) \div 4) * 4
      OBVIOUS
    <2>2. a \in Nat
      BY <1>2, <2>1
    <2>3. Below(a, y) <= FB_ROWS
      BY <1>2, <2>2 DEF Below
    <2>4. Match(Normalise(Scr(g, a, y)), GoTo(i, Below(a, t + y), Wrapped(a), t))
      BY <1>1, <1>2, <2>2, <2>3, NormaliseMatch
    <2>5. Put(s, e.c) = Normalise(Scr(g, a, y))
      BY <1>1, <1>5, <2>1, PutcTab
    <2>6. Paper(w, e) = GoTo(i, Below(a, t + y), Wrapped(a), t)
      <3>1. Paper(Sheet(i, x, y, t), e) = GoTo(i, Below(a, t + y), Wrapped(a), t)
        BY <1>5, <2>1, PaperTab
      <3>2. QED BY <1>1, <3>1
    <2>7. QED BY <2>4, <2>5, <2>6
  <1>6. CASE e.c \notin Control
    <2>1. PICK h, j, a : /\ h = draw_glyph(g, y, x, e.c) /\ j = Inked(i, t + y, x, e.c) /\ a = x + 1
      OBVIOUS
    <2>2. View(h, j, t)
      BY <1>1, <2>1, ViewInk
    <2>3. a \in Nat
      BY <1>2, <2>1
    <2>4. Below(a, y) <= FB_ROWS
      BY <1>2, <2>3 DEF Below
    <2>5. Match(Normalise(Scr(h, a, y)), GoTo(j, Below(a, t + y), Wrapped(a), t))
      BY <1>2, <2>2, <2>3, <2>4, NormaliseMatch
    <2>6. Put(s, e.c) = Normalise(Scr(h, a, y))
      BY <1>1, <1>6, <2>1, PutcGlyph
    <2>7. Paper(w, e) = GoTo(j, Below(a, t + y), Wrapped(a), t)
      BY <1>1, <1>6, <2>1, PaperGlyph
    <2>8. QED BY <2>5, <2>6, <2>7
  <1>7. QED BY <1>3, <1>4, <1>5, <1>6 DEF Control

\* So do the two other calls.
LEMMA ClearMatch ==
    ASSUME NEW s, NEW w, Match(s, w), NEW e, e.c = "clear"
    PROVE  Match(Scr(Blanks, 0, 0), Paper(w, e))
  <1>1. PICK g, x, y, i, t : s = Scr(g, x, y) /\ w = Sheet(i, x, y, t) /\ View(g, i, t)
    BY DEF Match
  <1>2. PICK none : none = [k \in {} |-> ""]
    OBVIOUS
  <1>3. DOMAIN none = {}
    BY <1>2
  <1>4. \A c \in Cells : Blanks[c] = At(none, t + c[1], c[2])
    BY <1>3 DEF Blanks, At
  <1>5. View(Blanks, none, t)
    BY <1>1, <1>3, <1>4 DEF View, Blanks
  <1>6. Paper(w, e) = Sheet(none, 0, 0, t)
    BY <1>1, <1>2, PaperClear
  <1>7. 0 \in 0 .. FB_COLS - 1 /\ 0 \in 0 .. FB_ROWS - 1
    BY Sizes
  <1>8. QED BY <1>5, <1>6, <1>7 DEF Match

LEMMA AtMatch ==
    ASSUME NEW g, NEW x, NEW y, NEW w, Match(Scr(g, x, y), w), NEW e, e.c = "at"
    PROVE  Match(Scr(IF e.at \in Cells THEN draw_glyph(g, e.at[1], e.at[2], "@") ELSE g, x, y), Paper(w, e))
  <1>1. PICK h, a, b, i, t :
           /\ Scr(g, x, y) = Scr(h, a, b) /\ w = Sheet(i, a, b, t) /\ View(h, i, t)
           /\ a \in 0 .. FB_COLS - 1 /\ b \in 0 .. FB_ROWS - 1
    BY DEF Match
  <1>2. h = g /\ a = x /\ b = y
    BY <1>1 DEF Scr
  <1>3. CASE e.at \in Cells
    <2>1. View(draw_glyph(g, e.at[1], e.at[2], "@"), Inked(i, t + e.at[1], e.at[2], "@"), t)
      BY <1>1, <1>2, <1>3, CellParts, ViewInk
    <2>2. Paper(w, e) = Sheet(Inked(i, t + e.at[1], e.at[2], "@"), x, y, t)
      BY <1>1, <1>2, <1>3, PaperAt
    <2>3. QED BY <1>1, <1>2, <1>3, <2>1, <2>2 DEF Match
  <1>4. CASE e.at \notin Cells
    <2>1. Paper(w, e) = w
      BY <1>1, <1>2, <1>4, PaperAt
    <2>2. QED BY <1>4, <2>1
  <1>5. QED BY <1>3, <1>4

-----------------------------------------------------------------------------
(* Recursion and division.                                                 *)

\* h starts with z and takes each value from the one before.
Follows(h, z, f, m) == h[0] = z /\ \A k \in 1 .. m : h[k] = f[<<k, h[k - 1]>>]

\* A function can be defined by recursion over 0 .. m.
LEMMA Recursion ==
    ASSUME NEW m \in Nat, NEW S, NEW z \in S, NEW f \in [(1 .. m) \X S -> S]
    PROVE  \E h \in [0 .. m -> S] : Follows(h, z, f, m)
  <1> DEFINE Upto(h, j) == h[0] = z /\ \A k \in 1 .. m : k <= j => h[k] = f[<<k, h[k - 1]>>]
             T == {j \in Nat : \E h \in [0 .. m -> S] : Upto(h, j)}
  <1>1. 0 \in T
    <2> DEFINE h == [k \in 0 .. m |-> z]
    <2>1. h \in [0 .. m -> S] /\ h[0] = z
      OBVIOUS
    <2>2. \A k \in 1 .. m : ~ (k <= 0)
      OBVIOUS
    <2> HIDE DEF h
    <2>3. QED BY <2>1, <2>2
  <1>2. ASSUME NEW j \in Nat, j \in T PROVE j + 1 \in T
    <2>1. PICK h \in [0 .. m -> S] : Upto(h, j)
      BY <1>2
    <2>2. CASE j + 1 \notin 1 .. m
      <3>1. \A k \in 1 .. m : k <= j + 1 => k <= j
        BY <2>2
      <3>2. \A k \in 1 .. m : k <= j + 1 => h[k] = f[<<k, h[k - 1]>>]
        BY <2>1, <3>1, Zenon
      <3>3. j + 1 \in Nat /\ Upto(h, j + 1)
        BY <2>1, <3>2
      <3>4. QED BY <3>3
    <2>3. CASE j + 1 \in 1 .. m
      <3>1. j \in 0 .. m /\ h[j] \in S
        BY <2>3
      <3>2. PICK v \in S : v = f[<<j + 1, h[j]>>]
        BY <2>3, <3>1
      <3>3. PICK g \in [0 .. m -> S] : g[j + 1] = v /\ \A k \in 0 .. m : k # j + 1 => g[k] = h[k]
        <4> DEFINE g0 == [k \in 0 .. m |-> IF k = j + 1 THEN v ELSE h[k]]
        <4>1. g0 \in [0 .. m -> S] /\ g0[j + 1] = v /\ \A k \in 0 .. m : k # j + 1 => g0[k] = h[k]
          BY <2>3
        <4> HIDE DEF g0
        <4>2. QED BY <4>1
      <3>4. ASSUME NEW k \in 1 .. m, k <= j + 1 PROVE g[k] = f[<<k, g[k - 1]>>]
        <4>1. k - 1 \in 0 .. m /\ k - 1 # j + 1 /\ g[k - 1] = h[k - 1]
          BY <3>3, <3>4
        <4>2. CASE k = j + 1
          <5>1. k - 1 = j
            BY <4>2
          <5>2. QED BY <3>2, <3>3, <4>1, <4>2, <5>1
        <4>3. CASE k # j + 1
          <5>1. k <= j /\ k \in 0 .. m /\ g[k] = h[k]
            BY <3>3, <3>4, <4>3
          <5>2. QED BY <2>1, <4>1, <5>1
        <4>4. QED BY <4>2, <4>3
      <3>5. g[0] = z
        BY <2>1, <3>3
      <3>6. j + 1 \in Nat /\ Upto(g, j + 1)
        BY <3>4, <3>5
      <3>7. QED BY <3>6
    <2>4. QED BY <2>2, <2>3
  <1> HIDE DEF T
  <1>3. m \in T
    BY <1>1, <1>2, Induction
  <1>4. PICK h \in [0 .. m -> S] : Upto(h, m)
    BY <1>3 DEF T
  <1>5. \A k \in 1 .. m : k <= m
    OBVIOUS
  <1>6. QED BY <1>4, <1>5 DEF Follows

\* Multiples keep their order, and what division yields.
LEMMA Multiples ==
    ASSUME NEW a \in Nat, NEW b \in Nat, a <= b, NEW s \in Nat
    PROVE  a * s <= b * s /\ a * s \in Nat /\ b * s \in Nat
  <1>1. PICK d \in Nat : b = a + d
    BY b - a \in Nat
  <1>2. b * s = a * s + d * s /\ d * s \in Nat /\ a * s \in Nat
    BY <1>1
  <1>3. QED BY <1>2

LEMMA SectionOf ==
    ASSUME NEW s \in Nat \ {0}, NEW v \in Nat
    PROVE  /\ v \div s \in Nat
           /\ (v \div s) * s <= v /\ v < (v \div s) * s + s
           /\ v % s = v - (v \div s) * s
  OBVIOUS

LEMMA SectionRange ==
    ASSUME NEW s \in Nat \ {0}, NEW v \in Nat, NEW q \in Nat, NEW m \in Nat,
           q * s <= v, v < (q + m) * s
    PROVE  v \div s \in q .. q + m - 1
  <1>1. PICK d \in Nat : d = v \div s /\ d * s <= v /\ v < (d + 1) * s
    <2>1. /\ v \div s \in Nat /\ (v \div s) * s <= v /\ v < (v \div s) * s + s
      BY SectionOf
    <2>2. QED BY <2>1
  <1>2. d < q + m
    <2>1. CASE q + m <= d
      BY <1>1, <2>1, Multiples
    <2>2. QED BY <2>1
  <1>3. q <= d
    <2>1. CASE d + 1 <= q
      BY <1>1, <2>1, Multiples
    <2>2. QED BY <2>1
  <1>4. QED BY <1>1, <1>2, <1>3

\* Two sequences that follow one rule from one value are one.
Alike(h, g, m) == h[0] = g[0] /\ \A k \in 1 .. m : h[k - 1] = g[k - 1] => h[k] = g[k]
LEMMA SameFollows ==
    ASSUME NEW m \in Nat, NEW h, NEW g, Alike(h, g, m)
    PROVE  \A k \in 0 .. m : h[k] = g[k]
  <1> DEFINE T == {k \in Nat : k <= m => h[k] = g[k]}
  <1>1. 0 \in T
    BY DEF Alike
  <1>2. ASSUME NEW k \in Nat, k \in T PROVE k + 1 \in T
    <2>1. ASSUME k + 1 <= m PROVE h[k + 1] = g[k + 1]
      <3>1. k + 1 \in 1 .. m /\ (k + 1) - 1 = k /\ k <= m
        BY <2>1
      <3>2. QED BY <1>2, <3>1 DEF Alike
    <2>2. QED BY <2>1
  <1> HIDE DEF T
  <1>3. Nat \subseteq T
    BY <1>1, <1>2, Induction
  <1>4. QED BY <1>3 DEF T

\* The recursion of Pow, step by step.
LEMMA PowTrace ==
    ASSUME NEW r \in Nat, NEW m \in Nat
    PROVE  \E p : /\ p[0] = 1 /\ Pow(r, m) = p[m]
                  /\ \A k \in 1 .. m : p[k] = r * p[k - 1]
                  /\ \A k \in 0 .. m : p[k] \in Nat
  <1> DEFINE Body(p) == [k \in 0 .. m |-> IF k = 0 THEN 1 ELSE r * p[k - 1]]
             q == CHOOSE p : p = Body(p)
  <1>1. Pow(r, m) = q[m]
    BY DEF Pow
  <1>2. PICK f : f = [at \in (1 .. m) \X Nat |-> r * at[2]]
    OBVIOUS
  <1>3. f \in [(1 .. m) \X Nat -> Nat]
    BY <1>2
  <1>4. PICK h \in [0 .. m -> Nat] : Follows(h, 1, f, m)
    BY <1>3, Recursion
  <1>5. ASSUME NEW k \in 1 .. m PROVE h[k] = r * h[k - 1]
    <2>1. h[k - 1] \in Nat
      OBVIOUS
    <2>2. f[<<k, h[k - 1]>>] = r * h[k - 1]
      BY <1>2, <2>1
    <2>3. QED BY <1>4, <2>2 DEF Follows
  <1>6. \A k \in 0 .. m : h[k] = IF k = 0 THEN 1 ELSE r * h[k - 1]
    BY <1>4, <1>5 DEF Follows
  <1>7. h = Body(h)
    BY <1>6
  <1>8. q = Body(q)
    <2> HIDE DEF Body
    <2>1. QED BY <1>7, Zenon
  <1> HIDE DEF q
  <1>9. q[0] = 1 /\ \A k \in 1 .. m : q[k] = r * q[k - 1]
    BY <1>8
  <1>12. \A k \in 0 .. m : q[k] \in Nat
    <2> DEFINE T == {k \in Nat : k <= m => q[k] \in Nat}
    <2>1. 0 \in T
      BY <1>9
    <2>2. ASSUME NEW k \in Nat, k \in T PROVE k + 1 \in T
      <3>1. ASSUME k + 1 <= m PROVE q[k + 1] \in Nat
        <4>1. k + 1 \in 1 .. m /\ (k + 1) - 1 = k /\ q[k] \in Nat
          BY <2>2, <3>1
        <4>2. q[k + 1] = r * q[k]
          BY <1>9, <4>1
        <4>3. QED BY <4>1, <4>2
      <3>2. QED BY <3>1
    <2> HIDE DEF T
    <2>3. Nat \subseteq T
      BY <2>1, <2>2, Induction
    <2>4. QED BY <2>3 DEF T
  <1>13. QED BY <1>1, <1>9, <1>12

\* A power is the base times the power below.
LEMMA PowFacts ==
    ASSUME NEW r \in Nat, NEW m \in Nat
    PROVE  Pow(r, 0) = 1 /\ Pow(r, m) \in Nat /\ Pow(r, m + 1) = r * Pow(r, m)
  <1>1. PICK p : /\ p[0] = 1 /\ Pow(r, m) = p[m]
                 /\ \A k \in 1 .. m : p[k] = r * p[k - 1]
                 /\ \A k \in 0 .. m : p[k] \in Nat
    BY PowTrace
  <1>2. PICK q : /\ q[0] = 1 /\ Pow(r, m + 1) = q[m + 1]
                 /\ \A k \in 1 .. m + 1 : q[k] = r * q[k - 1]
    <2>1. PICK j \in Nat : j = m + 1
      OBVIOUS
    <2>2. PICK q : /\ q[0] = 1 /\ Pow(r, j) = q[j]
                   /\ \A k \in 1 .. j : q[k] = r * q[k - 1]
      BY PowTrace
    <2>3. QED BY <2>1, <2>2
  <1>3. \A k \in 1 .. m : k \in 1 .. m + 1
    OBVIOUS
  <1>4. \A k \in 1 .. m : p[k - 1] = q[k - 1] => p[k] = q[k]
    BY <1>1, <1>2, <1>3
  <1>0. p[0] = q[0]
    BY <1>1, <1>2
  <1>5. \A k \in 0 .. m : p[k] = q[k]
    <2>1. Alike(p, q, m)
      BY <1>0, <1>4 DEF Alike
    <2>2. QED BY <2>1, SameFollows
  <1>6. m + 1 \in 1 .. m + 1 /\ (m + 1) - 1 = m /\ m \in 0 .. m
    OBVIOUS
  <1>7. q[m + 1] = r * q[m]
    BY <1>2, <1>6
  <1>8. Pow(r, 0) = 1
    <2>1. 0 \in Nat
      OBVIOUS
    <2>2. QED BY <2>1, PowTrace
  <1>9. QED BY <1>1, <1>2, <1>5, <1>6, <1>7, <1>8

\* Powers grow with the exponent and with the base.
LEMMA PowPositive ==
    ASSUME NEW r \in Nat, r >= 1, NEW m \in Nat
    PROVE  Pow(r, m) \in Nat \ {0}
  <1> DEFINE T == {k \in Nat : Pow(r, k) \in Nat \ {0}}
  <1>1. 0 \in T
    BY PowFacts
  <1>2. ASSUME NEW k \in Nat, k \in T PROVE k + 1 \in T
    <2>1. PICK a \in Nat \ {0} : a = Pow(r, k)
      BY <1>2
    <2>2. Pow(r, k + 1) = r * a
      BY <2>1, PowFacts
    <2>3. r * a \in Nat \ {0}
      OBVIOUS
    <2>4. QED BY <2>2, <2>3
  <1> HIDE DEF T
  <1>3. m \in T
    BY <1>1, <1>2, Induction
  <1>4. QED BY <1>3 DEF T

LEMMA PowGrows ==
    ASSUME NEW r \in Nat, r >= 1, NEW m \in Nat, NEW j \in Nat, m <= j
    PROVE  Pow(r, m) <= Pow(r, j)
  <1> DEFINE T == {d \in Nat : Pow(r, m) <= Pow(r, m + d)}
  <1>1. 0 \in T
    BY PowPositive
  <1>2. ASSUME NEW d \in Nat, d \in T PROVE d + 1 \in T
    <2>1. PICK i \in Nat : i = m + d
      OBVIOUS
    <2>2. PICK a \in Nat, b \in Nat : a = Pow(r, m) /\ b = Pow(r, i)
      BY PowPositive
    <2>3. a <= b
      BY <1>2, <2>1, <2>2
    <2>4. Pow(r, i + 1) = r * b
      BY <2>2, PowFacts
    <2>5. b <= r * b /\ r * b \in Nat
      OBVIOUS
    <2>6. m + (d + 1) = i + 1
      BY <2>1
    <2>7. Pow(r, m) <= Pow(r, m + (d + 1))
      BY <2>2, <2>3, <2>4, <2>5, <2>6
    <2>8. QED BY <2>7
  <1> HIDE DEF T
  <1>3. j - m \in T /\ m + (j - m) = j
    BY <1>1, <1>2, Induction
  <1>4. QED BY <1>3 DEF T

LEMMA PowBase ==
    ASSUME NEW r \in Nat, r >= 2, NEW m \in Nat
    PROVE  Pow(2, m) <= Pow(r, m)
  <1> DEFINE T == {k \in Nat : Pow(2, k) <= Pow(r, k)}
  <1>1. 0 \in T
    BY PowFacts
  <1>2. ASSUME NEW k \in Nat, k \in T PROVE k + 1 \in T
    <2>1. PICK a \in Nat, b \in Nat : a = Pow(2, k) /\ b = Pow(r, k)
      BY PowFacts
    <2>2. Pow(2, k + 1) = 2 * a /\ Pow(r, k + 1) = r * b
      BY <2>1, PowFacts
    <2>3. a <= b
      BY <1>2, <2>1
    <2>4. 2 * b <= r * b /\ 2 * b \in Nat /\ r * b \in Nat
      BY Multiples
    <2>5. 2 * a <= r * b
      BY <2>3, <2>4
    <2>6. QED BY <2>2, <2>5
  <1> HIDE DEF T
  <1>3. m \in T
    BY <1>1, <1>2, Induction
  <1>4. QED BY <1>3 DEF T

LEMMA PowOne ==
    ASSUME NEW r \in Nat
    PROVE  Pow(r, 1) = r
  <1>1. Pow(r, 0) = 1 /\ Pow(r, 0 + 1) = r * Pow(r, 0)
    BY PowFacts
  <1>2. QED BY <1>1

\* Division by one number and then another divides by their product.
LEMMA DivDiv ==
    ASSUME NEW v \in Nat, NEW r \in Nat \ {0}, NEW s \in Nat \ {0}
    PROVE  (v \div r) \div s = v \div (r * s)
  <1>1. PICK a \in Nat : a = v \div r /\ a * r <= v /\ v < a * r + r
    BY SectionOf
  <1>2. PICK q \in Nat : q = a \div s /\ q * s <= a /\ a < q * s + s
    BY SectionOf
  <1>3. PICK e \in Nat : e = q * s
    OBVIOUS
  <1>4. e * r <= a * r /\ e * r \in Nat
    BY <1>2, <1>3, Multiples
  <1>5. a + 1 <= e + s
    BY <1>2, <1>3
  <1>6. (a + 1) * r <= (e + s) * r
    BY <1>5, Multiples
  <1>7. e * r = q * (r * s)
    BY <1>3
  <1>8. (e + s) * r = (q + 1) * (r * s)
    BY <1>3
  <1>9. (a + 1) * r = a * r + r
    OBVIOUS
  <1>10. q * (r * s) <= v /\ v < (q + 1) * (r * s)
    BY <1>1, <1>4, <1>6, <1>7, <1>8, <1>9
  <1>11. r * s \in Nat \ {0}
    OBVIOUS
  <1>12. v \div (r * s) \in q .. q + 1 - 1
    <2>1. PICK z \in Nat \ {0} : z = r * s
      BY <1>11
    <2>2. q * z <= v /\ v < (q + 1) * z
      BY <1>10, <2>1
    <2>3. v \div z \in q .. q + 1 - 1
      BY <2>2, SectionRange
    <2>4. QED BY <2>1, <2>3
  <1>13. QED BY <1>1, <1>2, <1>12

-----------------------------------------------------------------------------
(* Numbers as text.                                                        *)

\* v has k digits to the base r.
Size(v, r, k) == v < Pow(r, k) /\ (k = 1 \/ v >= Pow(r, k - 1))
Count(v, r) == CHOOSE k \in 1 .. BITS : Size(v, r, k)

LEMMA SizeOne ==
    ASSUME NEW v \in Nat, NEW r \in Nat, r >= 2, NEW k \in Nat, NEW j \in Nat, k >= 1, j >= 1,
           Size(v, r, k), Size(v, r, j)
    PROVE  k <= j
  <1> SUFFICES ASSUME j < k PROVE FALSE
    OBVIOUS
  <1>1. k - 1 \in Nat /\ j <= k - 1 /\ k # 1
    OBVIOUS
  <1>2. PICK i \in Nat : i = k - 1
    BY <1>1
  <1>3. Pow(r, j) <= Pow(r, i)
    BY <1>1, <1>2, PowGrows
  <1>4. Pow(r, i) \in Nat /\ Pow(r, j) \in Nat
    BY PowFacts
  <1>5. v < Pow(r, j) /\ v >= Pow(r, i)
    BY <1>1, <1>2 DEF Size
  <1>6. QED BY <1>3, <1>4, <1>5

\* Every word has a number of digits, at most BITS of them.
LEMMA SizeExists ==
    ASSUME NEW v \in 0 .. WORD - 1, NEW r \in Nat, r >= 2
    PROVE  \E k \in 1 .. BITS : Size(v, r, k)
  <1>1. BITS \in Nat /\ BITS >= 1
    BY ConsoleConstants
  <1>2. v \in Nat /\ v < Pow(2, BITS) /\ Pow(2, BITS) \in Nat
    BY <1>1, PowFacts DEF WORD
  <1>3. v < Pow(r, BITS)
    BY <1>1, <1>2, PowBase, PowFacts
  <1> DEFINE T == {k \in Nat : k >= 1 /\ v < Pow(r, k)}
  <1>4. BITS \in T
    BY <1>1, <1>3
  <1>5. PICK k \in T : \A y \in T : k <= y
    <2> HIDE DEF T
    <2>1. T \in SUBSET Nat
      BY DEF T
    <2>2. QED BY <1>4, <2>1, LeastNatural
  <1>6. k \in 1 .. BITS /\ v < Pow(r, k)
    BY <1>1, <1>4, <1>5
  <1>7. CASE k # 1
    <2>1. k - 1 \in Nat /\ k - 1 >= 1 /\ k - 1 \notin T
      BY <1>5, <1>7
    <2>2. Pow(r, k - 1) \in Nat /\ ~ (v < Pow(r, k - 1))
      BY <2>1, PowFacts
    <2>3. QED BY <1>2, <1>6, <2>2 DEF Size
  <1>8. QED BY <1>6, <1>7 DEF Size

LEMMA CountIs ==
    ASSUME NEW v \in 0 .. WORD - 1, NEW r \in Nat, r >= 2
    PROVE  /\ Count(v, r) \in 1 .. BITS /\ Count(v, r) \in Nat /\ Count(v, r) >= 1
           /\ Size(v, r, Count(v, r))
           /\ \A k \in Nat : k >= 1 /\ Size(v, r, k) => k = Count(v, r)
  <1>1. PICK c : c = Count(v, r)
    OBVIOUS
  <1>2. c \in 1 .. BITS /\ Size(v, r, c)
    BY <1>1, SizeExists DEF Count
  <1>3. BITS \in Nat /\ WORD \in Int
    BY ConsoleConstants, PowFacts DEF WORD
  <1>4. c \in Nat /\ c >= 1 /\ v \in Nat
    BY <1>2, <1>3
  <1>5. ASSUME NEW k \in Nat, k >= 1, Size(v, r, k) PROVE k = c
    <2>1. k <= c
      BY <1>2, <1>4, <1>5, SizeOne
    <2>2. c <= k
      BY <1>2, <1>4, <1>5, SizeOne
    <2>3. QED BY <1>4, <2>1, <2>2
  <1>6. QED BY <1>1, <1>2, <1>4, <1>5

\* Dividing by the base takes one digit away.
LEMMA CountStep ==
    ASSUME NEW v \in 0 .. WORD - 1, NEW r \in Nat, r >= 2
    PROVE  /\ v \div r \in 0 .. WORD - 1 /\ v \in Nat /\ (v >= r <=> v \div r # 0)
           /\ v \div r = 0 => Count(v, r) = 1
           /\ v \div r # 0 => Count(v, r) = Count(v \div r, r) + 1 /\ v \div r < v
  <1>1. WORD \in Nat /\ v \in Nat
    <2>1. BITS \in Nat
      BY ConsoleConstants
    <2>2. WORD \in Nat
      BY <2>1, PowFacts DEF WORD
    <2>3. QED BY <2>2
  <1>2. PICK w \in Nat : w = v \div r /\ w * r <= v /\ v < w * r + r
    BY <1>1, SectionOf
  <1>3. w <= w * r /\ w * r \in Nat
    OBVIOUS
  <1>4. w \in 0 .. WORD - 1
    BY <1>1, <1>2, <1>3
  <1>5. w # 0 => w < v
    <2>1. ASSUME w # 0 PROVE w < w * r
      <3>1. 2 * w <= r * w
        BY Multiples
      <3>2. QED BY <2>1, <3>1
    <2>2. QED BY <1>2, <1>3, <2>1
  <1>6. v >= r <=> w # 0
    <2>1. CASE w = 0
      BY <1>2, <2>1
    <2>2. CASE w # 0
      <3>1. 1 * r <= w * r
        BY <2>2, Multiples
      <3>2. QED BY <1>2, <1>3, <2>2, <3>1
    <2>3. QED BY <2>1, <2>2
  <1>7. w = 0 => Count(v, r) = 1
    <2>1. ASSUME w = 0 PROVE Size(v, r, 1)
      BY <1>1, <1>6, <2>1, PowOne DEF Size
    <2>2. QED BY <2>1, CountIs
  <1>8. w # 0 => Count(v, r) = Count(w, r) + 1
    <2> SUFFICES ASSUME w # 0 PROVE Count(v, r) = Count(w, r) + 1
      OBVIOUS
    <2>1. PICK k \in Nat : k = Count(w, r) /\ k >= 1 /\ Size(w, r, k)
      BY <1>4, CountIs
    <2>2. PICK a \in Nat : a = Pow(r, k) /\ Pow(r, k + 1) = r * a /\ w < a
      BY <2>1, PowFacts DEF Size
    <2>3. v < Pow(r, k + 1)
      <3>1. (w + 1) * r <= a * r
        BY <2>2, Multiples
      <3>2. (w + 1) * r = w * r + r
        OBVIOUS
      <3>3. v < a * r
        BY <1>1, <1>2, <1>3, <3>1, <3>2
      <3>4. QED BY <2>2, <3>3
    <2>4. v >= Pow(r, k)
      <3>1. CASE k = 1
        BY <1>6, <3>1, PowOne
      <3>2. CASE k # 1
        <4>1. PICK i \in Nat : i = k - 1
          BY <2>1
        <4>2. PICK b \in Nat : b = Pow(r, i) /\ Pow(r, i + 1) = r * b
          BY PowFacts
        <4>3. w >= b
          BY <2>1, <3>2, <4>1, <4>2 DEF Size
        <4>4. b * r <= w * r
          BY <4>3, Multiples
        <4>5. i + 1 = k
          BY <4>1
        <4>6. QED BY <1>1, <1>2, <1>3, <4>2, <4>4, <4>5
      <3>3. QED BY <3>1, <3>2
    <2>5. (k + 1) - 1 = k /\ k + 1 \in Nat /\ k + 1 >= 1
      OBVIOUS
    <2>6. Size(v, r, k + 1)
      BY <2>3, <2>4, <2>5 DEF Size
    <2>7. QED BY <2>1, <2>5, <2>6, CountIs
  <1>9. QED BY <1>1, <1>2, <1>4, <1>5, <1>6, <1>7, <1>8

\* Two functions are one if the values below a number fix the value at it.
LEMMA SameBelow ==
    ASSUME NEW m \in Nat, NEW h, NEW g,
           \A v \in 0 .. m : (\A w \in 0 .. m : w < v => h[w] = g[w]) => h[v] = g[v]
    PROVE  \A v \in 0 .. m : h[v] = g[v]
  <1> SUFFICES ASSUME NEW u \in 0 .. m, h[u] # g[u] PROVE FALSE
    OBVIOUS
  <1> DEFINE T == {v \in Nat : v \in 0 .. m /\ h[v] # g[v]}
  <1>1. T \in SUBSET Nat /\ T # {}
    OBVIOUS
  <1>2. PICK x \in T : \A y \in T : x <= y
    <2> HIDE DEF T
    <2> QED BY <1>1, LeastNatural
  <1>3. x \in 0 .. m /\ h[x] # g[x]
    BY <1>2
  <1>4. \A w \in 0 .. m : w < x => h[w] = g[w]
    BY <1>2
  <1>5. QED BY <1>3, <1>4

\* The characters numbers are written with, and all others that are printed.
Glyph ==
    Letter \cup {"0", "1", "2", "3", "4", "5", "6", "7", "8", "9", "a", "b", "c", "d", "e", "f",
                 "junk", "-", "?", "%", "n", "t", "r", "u", "l", "s", "ESC", "[", ";", "m"}

LEMMA SymbolOK ==
    ASSUME NEW d \in 0 .. 15
    PROVE  get_symbol(d) \in Glyph
  <1>1. d \in {0, 1, 2, 3, 4, 5, 6, 7, 8, 9, 10, 11, 12, 13, 14, 15}
    OBVIOUS
  <1>2. get_symbol(d) \in {"0", "1", "2", "3", "4", "5", "6", "7", "8", "9", "a", "b", "c", "d", "e", "f"}
    BY <1>1 DEF Digits, get_symbol
  <1>3. QED BY <1>2, Zenon DEF Glyph

\* A digit is one of the symbols.
LEMMA FigureOK ==
    ASSUME NEW v \in Nat, NEW s \in Nat \ {0}, NEW r \in 2 .. 16
    PROVE  (v \div s) % r \in 0 .. 15 /\ get_symbol((v \div s) % r) \in Glyph
  <1>1. v \div s \in Nat
    BY SectionOf
  <1>2. PICK q \in Nat : q = v \div s
    BY <1>1
  <1>3. q % r \in 0 .. 15
    OBVIOUS
  <1>4. QED BY <1>2, <1>3, SymbolOK

\* The digits of a number, lowest first.
Figures(v, r) == [i \in 1 .. Count(v, r) |-> get_symbol((v \div Pow(r, i - 1)) % r)]

LEMMA FiguresOK ==
    ASSUME NEW v \in 0 .. WORD - 1, NEW r \in 2 .. 16
    PROVE  /\ Figures(v, r) \in Seq(Glyph) /\ Len(Figures(v, r)) = Count(v, r)
           /\ \A i \in 1 .. Count(v, r) : Figures(v, r)[i] = get_symbol((v \div Pow(r, i - 1)) % r)
  <1>1. Count(v, r) \in Nat /\ v \in Nat
    BY CountIs, CountStep
  <1>2. ASSUME NEW i \in 1 .. Count(v, r) PROVE get_symbol((v \div Pow(r, i - 1)) % r) \in Glyph
    <2>1. i - 1 \in Nat
      BY <1>1
    <2>2. Pow(r, i - 1) \in Nat \ {0}
      BY <2>1, PowPositive
    <2>3. QED BY <1>1, <2>2, FigureOK
  <1>3. PICK m \in Nat : m = Count(v, r)
    BY <1>1
  <1> DEFINE S(i) == get_symbol((v \div Pow(r, i - 1)) % r)
             q == [i \in 1 .. m |-> S(i)]
  <1>4. \A i \in 1 .. m : S(i) \in Glyph
    BY <1>2, <1>3
  <1>5. Figures(v, r) = q
    BY <1>3 DEF Figures
  <1> HIDE DEF S
  <1>6. q \in Seq(Glyph) /\ Len(q) = m /\ \A i \in 1 .. m : q[i] = S(i)
    BY <1>4
  <1>7. QED BY <1>3, <1>5, <1>6 DEF S

\* The lowest digit, and then those of the quotient.
LEMMA FiguresStep ==
    ASSUME NEW v \in 0 .. WORD - 1, NEW r \in 2 .. 16
    PROVE  Figures(v, r) = <<get_symbol(v % r)>> \o IF v \div r = 0 THEN <<>> ELSE Figures(v \div r, r)
  <1>1. r \in Nat /\ r >= 2 /\ r \in Nat \ {0}
    OBVIOUS
  <1>2. v \in Nat /\ v \div r \in 0 .. WORD - 1
    BY <1>1, CountStep
  <1>3. PICK a : a = get_symbol(v % r)
    OBVIOUS
  <1>4. a \in Glyph /\ (v \div Pow(r, 0)) % r = v % r
    <2>1. Pow(r, 0) = 1 /\ v \div 1 = v
      BY <1>1, <1>2, PowFacts
    <2>2. 1 \in Nat \ {0}
      OBVIOUS
    <2>3. get_symbol((v \div 1) % r) \in Glyph
      BY <1>2, <2>2, FigureOK
    <2>4. QED BY <1>3, <2>1, <2>3
  <1>5. PICK f \in Seq(Glyph) : f = Figures(v, r) /\ Len(f) = Count(v, r)
                               /\ \A i \in 1 .. Len(f) : f[i] = get_symbol((v \div Pow(r, i - 1)) % r)
    BY FiguresOK
  <1>6. PICK rest \in Seq(Glyph) : rest = IF v \div r = 0 THEN <<>> ELSE Figures(v \div r, r)
    <2>1. Figures(v \div r, r) \in Seq(Glyph)
      BY <1>2, FiguresOK
    <2>2. <<>> \in Seq(Glyph)
      OBVIOUS
    <2>3. QED BY <2>1, <2>2
  <1>7. Len(f) = Len(rest) + 1
    <2>1. CASE v \div r = 0
      BY <1>1, <1>5, <1>6, <2>1, CountStep
    <2>2. CASE v \div r # 0
      <3>1. Len(rest) = Count(v \div r, r)
        BY <1>2, <1>6, <2>2, FiguresOK
      <3>2. QED BY <1>1, <1>5, <2>2, <3>1, CountStep
    <2>3. QED BY <2>1, <2>2
  <1>8. ASSUME NEW i \in 1 .. Len(rest) PROVE f[i + 1] = rest[i]
    <2>1. v \div r # 0
      BY <1>6, <1>8
    <2>2. rest[i] = get_symbol(((v \div r) \div Pow(r, i - 1)) % r)
      BY <1>2, <1>6, <2>1, FiguresOK
    <2>3. PICK j \in Nat : i = j + 1 /\ i - 1 = j /\ (i + 1) - 1 = j + 1
      <3>1. i - 1 \in Nat /\ i = (i - 1) + 1 /\ (i + 1) - 1 = (i - 1) + 1
        OBVIOUS
      <3>2. QED BY <3>1
    <2>4. PICK s \in Nat \ {0} : s = Pow(r, j)
      <3>1. r \in Nat /\ r >= 1
        OBVIOUS
      <3>2. Pow(r, j) \in Nat \ {0}
        BY <2>3, <3>1, PowPositive
      <3>3. QED BY <3>2
    <2>5. Pow(r, j + 1) = r * s
      BY <1>1, <2>4, PowFacts
    <2>6. (v \div r) \div s = v \div (r * s)
      BY <1>1, <1>2, DivDiv
    <2>7. i + 1 \in 1 .. Len(f)
      BY <1>7
    <2>8. f[i + 1] = get_symbol((v \div Pow(r, j + 1)) % r)
      BY <1>5, <2>3, <2>7
    <2>9. QED BY <2>2, <2>3, <2>4, <2>5, <2>6, <2>8
  <1>9. f[1] = a
    <2>1. 1 \in 1 .. Len(f) /\ 1 - 1 = 0
      BY <1>7
    <2>2. f[1] = get_symbol((v \div Pow(r, 0)) % r)
      BY <1>5, <2>1
    <2>3. QED BY <1>3, <1>4, <2>2
  <1>10. f = <<a>> \o rest
    <2>1. PICK one \in Seq(Glyph) : one = <<a>> /\ Len(one) = 1 /\ one[1] = a
      <3>1. <<a>> \in Seq(Glyph) /\ Len(<<a>>) = 1 /\ <<a>>[1] = a
        BY <1>4
      <3>2. QED BY <3>1
    <2>2. PICK all \in Seq(Glyph) : /\ all = one \o rest /\ Len(all) = 1 + Len(rest)
                                    /\ \A i \in 1 .. 1 + Len(rest) : all[i] = IF i <= 1 THEN one[i] ELSE rest[i - 1]
      <3>1. /\ one \o rest \in Seq(Glyph) /\ Len(one \o rest) = Len(one) + Len(rest)
            /\ \A i \in 1 .. Len(one) + Len(rest) :
                  (one \o rest)[i] = IF i <= Len(one) THEN one[i] ELSE rest[i - Len(one)]
        BY ConcatProperties
      <3>2. QED BY <2>1, <3>1
    <2>3. ASSUME NEW i \in 1 .. Len(f) PROVE f[i] = all[i]
      <3>1. CASE i = 1
        BY <1>7, <1>9, <2>1, <2>2, <3>1
      <3>2. CASE i # 1
        <4>1. i - 1 \in 1 .. Len(rest) /\ (i - 1) + 1 = i /\ ~ (i <= 1) /\ i \in 1 .. 1 + Len(rest)
          BY <1>7, <3>2
        <4>2. QED BY <1>8, <2>2, <4>1
      <3>3. QED BY <3>1, <3>2
    <2>4. Len(f) = Len(all)
      BY <1>7, <2>2
    <2>5. f = all
      BY <2>3, <2>4, SeqEqual
    <2>6. QED BY <2>1, <2>2, <2>5
  <1>11. QED BY <1>3, <1>5, <1>6, <1>10

\* log counts the digits behind the first.
LogBody(h, v, r) == [w \in 0 .. v |-> IF w >= r THEN h[w \div r] + 1 ELSE 0]
LEMMA LogIs ==
    ASSUME NEW v \in 0 .. WORD - 1, NEW r \in 2 .. 16
    PROVE  log(v, r) = Count(v, r) - 1
  <1>0. r \in Nat /\ r >= 2 /\ v \in Nat
    BY CountStep
  <1>1. \A w \in 0 .. v : w \in 0 .. WORD - 1 /\ w \in Nat
    <2>1. WORD \in Int
      BY ConsoleConstants, PowFacts DEF WORD
    <2>2. QED BY <1>0, <2>1
  <1> DEFINE h == [w \in 0 .. v |-> Count(w, r) - 1]
  <1>2. ASSUME NEW w \in 0 .. v PROVE Count(w, r) - 1 = IF w >= r THEN h[w \div r] + 1 ELSE 0
    <2>1. w \in 0 .. WORD - 1 /\ w \in Nat
      BY <1>1
    <2>2. PICK d \in Nat : d = w \div r
      <3>1. w \div r \in Nat
        BY <1>0, <2>1
      <3>2. QED BY <3>1
    <2>3. /\ w >= r <=> d # 0
          /\ d = 0 => Count(w, r) = 1
          /\ d # 0 => Count(w, r) = Count(d, r) + 1 /\ d < w
      BY <1>0, <2>1, <2>2, CountStep
    <2>4. CASE d = 0
      BY <2>3, <2>4
    <2>5. CASE d # 0
      <3>1. d \in 0 .. v
        BY <1>0, <2>1, <2>3, <2>5
      <3>2. h[d] = Count(d, r) - 1
        BY <3>1
      <3>3. d \in 0 .. WORD - 1
        BY <1>1, <3>1
      <3>4. Count(d, r) \in Nat
        BY <1>0, <3>3, CountIs
      <3> HIDE DEF h
      <3>5. QED BY <2>2, <2>3, <2>5, <3>2, <3>4
    <2>6. QED BY <2>4, <2>5
  <1>3. h = LogBody(h, v, r)
    <2> DEFINE b == LogBody(h, v, r)
    <2>1. DOMAIN b = 0 .. v /\ \A w \in 0 .. v : b[w] = h[w]
      BY <1>2 DEF LogBody
    <2>2. b = [w \in 0 .. v |-> b[w]]
      BY DEF LogBody
    <2> HIDE DEF b
    <2>3. QED BY <2>1, <2>2 DEF b
  <1>4. PICK q : q = LogBody(q, v, r) /\ log(v, r) = q[v]
    <2> DEFINE q0 == CHOOSE q : q = LogBody(q, v, r)
    <2>1. log(v, r) = q0[v]
      BY DEF log, LogBody
    <2> HIDE DEF h
    <2>2. q0 = LogBody(q0, v, r)
      BY <1>3, Zenon
    <2> HIDE DEF q0
    <2>3. QED BY <2>1, <2>2
  <1>5. \A w \in 0 .. v : h[w] = IF w >= r THEN h[w \div r] + 1 ELSE 0
    BY <1>2
  <1>6. \A w \in 0 .. v : q[w] = IF w >= r THEN q[w \div r] + 1 ELSE 0
    <2>1. \A w \in 0 .. v : LogBody(q, v, r)[w] = IF w >= r THEN q[w \div r] + 1 ELSE 0
      BY DEF LogBody
    <2>2. QED BY <1>4, <2>1
  <1>7. h[v] = Count(v, r) - 1
    BY <1>0
  <1> HIDE DEF h
  <1>8. ASSUME NEW u \in 0 .. v, \A w \in 0 .. v : w < u => q[w] = h[w] PROVE q[u] = h[u]
    <2>1. u \in 0 .. WORD - 1 /\ u \in Nat
      BY <1>1
    <2>2. PICK d \in Nat : d = u \div r
      <3>1. u \div r \in Nat
        BY <1>0, <2>1
      <3>2. QED BY <3>1
    <2>3. (u >= r <=> d # 0) /\ (d # 0 => d < u)
      BY <1>0, <2>1, <2>2, CountStep
    <2>4. CASE u >= r
      <3>1. d \in 0 .. v /\ d < u
        BY <1>0, <2>1, <2>3, <2>4
      <3>2. q[d] = h[d]
        BY <1>8, <3>1
      <3>3. q[u] = q[d] + 1 /\ h[u] = h[d] + 1
        BY <1>5, <1>6, <2>2, <2>4
      <3>4. QED BY <3>2, <3>3
    <2>5. CASE ~ (u >= r)
      BY <1>5, <1>6, <2>5
    <2>6. QED BY <2>4, <2>5
  <1>9. \A u \in 0 .. v : q[u] = h[u]
    BY <1>0, <1>8, SameBelow
  <1>10. QED BY <1>0, <1>4, <1>7, <1>9

\* The loop of utoa puts out the digits, lowest first.
LowBody(h, v, r) == [w \in 0 .. v |-> <<get_symbol(w % r)>> \o IF w \div r = 0 THEN <<>> ELSE h[w \div r]]
Low(v, r) == (CHOOSE h : h = LowBody(h, v, r))[v]
LEMMA LowIs ==
    ASSUME NEW v \in 0 .. WORD - 1, NEW r \in 2 .. 16
    PROVE  Low(v, r) = Figures(v, r)
  <1>0. r \in Nat /\ r >= 2 /\ v \in Nat
    BY CountStep
  <1>1. \A w \in 0 .. v : w \in 0 .. WORD - 1 /\ w \in Nat
    <2>1. WORD \in Int
      BY ConsoleConstants, PowFacts DEF WORD
    <2>2. QED BY <1>0, <2>1
  <1> DEFINE Take(h, w) == <<get_symbol(w % r)>> \o IF w \div r = 0 THEN <<>> ELSE h[w \div r]
             h == [w \in 0 .. v |-> Figures(w, r)]
  <1>2. ASSUME NEW w \in 0 .. v, w \div r # 0 PROVE w \div r \in 0 .. v /\ w \div r < w
    <2>1. w \in 0 .. WORD - 1 /\ w \in Nat
      BY <1>1
    <2>2. PICK d \in Nat : d = w \div r
      <3>1. w \div r \in Nat
        BY <1>0, <2>1
      <3>2. QED BY <3>1
    <2>3. d < w
      BY <1>0, <1>2, <2>1, <2>2, CountStep
    <2>4. d \in 0 .. v
      BY <1>0, <2>1, <2>3
    <2>5. QED BY <2>2, <2>3, <2>4
  <1>3. ASSUME NEW w \in 0 .. v PROVE Figures(w, r) = Take(h, w)
    <2>1. Figures(w, r) = <<get_symbol(w % r)>> \o IF w \div r = 0 THEN <<>> ELSE Figures(w \div r, r)
      BY <1>1, FiguresStep
    <2>2. w \div r # 0 => h[w \div r] = Figures(w \div r, r)
      BY <1>2
    <2> HIDE DEF h
    <2>3. QED BY <2>1, <2>2, Zenon
  <1>4. h = LowBody(h, v, r)
    <2> DEFINE b == LowBody(h, v, r)
    <2>1. \A w \in 0 .. v : b[w] = Take(h, w)
      BY DEF LowBody
    <2>2. \A w \in 0 .. v : h[w] = Figures(w, r)
      OBVIOUS
    <2>3. DOMAIN b = 0 .. v /\ b = [w \in 0 .. v |-> b[w]]
      BY DEF LowBody
    <2>4. h = [w \in 0 .. v |-> h[w]]
      OBVIOUS
    <2> HIDE DEF b, h, Take
    <2>5. QED BY <1>3, <2>1, <2>2, <2>3, <2>4 DEF b
  <1>5. PICK q : q = LowBody(q, v, r) /\ Low(v, r) = q[v]
    <2> DEFINE q0 == CHOOSE q : q = LowBody(q, v, r)
    <2>1. Low(v, r) = q0[v]
      BY DEF Low
    <2> HIDE DEF h
    <2>2. q0 = LowBody(q0, v, r)
      BY <1>4, Zenon
    <2> HIDE DEF q0
    <2>3. QED BY <2>1, <2>2
  <1>6. \A w \in 0 .. v : h[w] = Take(h, w)
    <2>1. \A w \in 0 .. v : h[w] = Figures(w, r)
      OBVIOUS
    <2> HIDE DEF h, Take
    <2>2. QED BY <1>3, <2>1
  <1>7. \A w \in 0 .. v : q[w] = Take(q, w)
    <2>1. \A w \in 0 .. v : LowBody(q, v, r)[w] = Take(q, w)
      BY DEF LowBody
    <2> HIDE DEF Take
    <2>2. QED BY <1>5, <2>1
  <1>8. h[v] = Figures(v, r) /\ v \in 0 .. v
    BY <1>0
  <1> HIDE DEF h
  <1>9. ASSUME NEW u \in 0 .. v, \A w \in 0 .. v : w < u => q[w] = h[w] PROVE q[u] = h[u]
    <2>1. u \div r # 0 => q[u \div r] = h[u \div r]
      BY <1>2, <1>9
    <2>2. Take(q, u) = Take(h, u)
      BY <2>1, Zenon
    <2> HIDE DEF Take
    <2>3. QED BY <1>6, <1>7, <2>2
  <1>10. \A u \in 0 .. v : q[u] = h[u]
    BY <1>0, <1>9, SameBelow
  <1>11. QED BY <1>5, <1>8, <1>10

\* utoa writes the shortest numeral.
LEMMA UtoaIs ==
    ASSUME NEW v \in 0 .. WORD - 1, NEW r \in 2 .. 16
    PROVE  utoa(v, r) = Numeral(v, r) /\ Numeral(v, r) \in Seq(Glyph)
  <1>1. PICK written \in Seq(Glyph) : written = Low(v, r)
    BY LowIs, FiguresOK
  <1>2. PICK c \in Nat : c = Count(v, r) /\ c >= 1
    BY CountIs
  <1>3. PICK l : l = log(v, r)
    OBVIOUS
  <1>4. l = c - 1 /\ Len(written) = c
        /\ \A i \in 1 .. c : written[i] = get_symbol((v \div Pow(r, i - 1)) % r)
    BY <1>1, <1>2, <1>3, LogIs, LowIs, FiguresOK
  <1> DEFINE W(k) == IF l - (k - 1) + 1 \in DOMAIN written THEN written[l - (k - 1) + 1] ELSE "junk"
             S(k) == get_symbol((v \div Pow(r, c - k)) % r)
  <1>5. utoa(v, r) = [k \in 1 .. Len(written) |-> W(k)]
    BY <1>1, <1>3 DEF utoa, Low, LowBody
  <1>6. Numeral(v, r) = [k \in 1 .. c |-> S(k)]
    BY <1>2 DEF Numeral, Count, Size
  <1>7. ASSUME NEW k \in 1 .. c PROVE W(k) = S(k) /\ S(k) \in Glyph
    <2>1. PICK i \in 1 .. c : i = l - (k - 1) + 1 /\ i - 1 = c - k
      <3>1. l - (k - 1) + 1 \in 1 .. c /\ (l - (k - 1) + 1) - 1 = c - k
        BY <1>4
      <3>2. QED BY <3>1
    <2>2. i \in DOMAIN written /\ written[i] \in Glyph
      BY <1>4
    <2>3. written[i] = get_symbol((v \div Pow(r, i - 1)) % r)
      BY <1>4
    <2>4. QED BY <2>1, <2>2, <2>3
  <1> HIDE DEF W, S
  <1>8. [k \in 1 .. c |-> W(k)] = [k \in 1 .. c |-> S(k)] /\ [k \in 1 .. c |-> S(k)] \in Seq(Glyph)
    BY <1>7
  <1>9. QED BY <1>4, <1>5, <1>6, <1>8

\* itoa writes a sign and the numeral of the magnitude, also of the lowest word.
LEMMA ItoaIs ==
    ASSUME NEW v \in 0 .. WORD - 1
    PROVE  itoa(v, 10) = Signed(v) /\ Signed(v) \in Seq(Glyph)
  <1>1. WORD \in Nat /\ WORD >= 2
    <2>1. PICK b \in Nat : BITS = b + 1
      <3>1. BITS \in Nat \ {0}
        BY ConsoleConstants
      <3>2. BITS - 1 \in Nat /\ BITS = (BITS - 1) + 1
        BY <3>1
      <3>3. QED BY <3>2
    <2>2. PICK a \in Nat \ {0} : a = Pow(2, b)
      <3>1. Pow(2, b) \in Nat \ {0}
        BY PowPositive
      <3>2. QED BY <3>1
    <2>3. Pow(2, b + 1) = 2 * a
      BY <2>2, PowFacts
    <2>4. QED BY <2>1, <2>2, <2>3 DEF WORD
  <1>2. PICK h \in Nat : h = WORD \div 2 /\ h >= 1
    <2>1. WORD \div 2 \in Nat /\ WORD \div 2 >= 1
      BY <1>1
    <2>2. QED BY <2>1
  <1>3. v \in Nat
    BY <1>1
  <1>4. CASE v >= h
    <2>1. WORD - v \in 0 .. WORD - 1 /\ (WORD - v) % WORD = WORD - v
      BY <1>1, <1>2, <1>3, <1>4
    <2>2. PICK u \in 0 .. WORD - 1 : u = WORD - v /\ (WORD - v) % WORD = u
      BY <2>1
    <2>3. utoa(u, 10) = Numeral(u, 10) /\ Numeral(u, 10) \in Seq(Glyph)
      BY UtoaIs
    <2>4. itoa(v, 10) = <<"-">> \o Numeral(u, 10) /\ Signed(v) = <<"-">> \o Numeral(u, 10)
      BY <1>2, <1>3, <1>4, <2>2, <2>3 DEF itoa, Signed
    <2>5. "-" \in Glyph
      BY DEF Glyph
    <2>6. <<"-">> \in Seq(Glyph)
      BY <2>5
    <2>7. <<"-">> \o Numeral(u, 10) \in Seq(Glyph)
      BY <2>3, <2>6, ConcatProperties
    <2>8. QED BY <2>4, <2>7
  <1>5. CASE ~ (v >= h)
    <2>1. itoa(v, 10) = utoa(v, 10) /\ Signed(v) = Numeral(v, 10)
      BY <1>2, <1>3, <1>5 DEF itoa, Signed
    <2>2. QED BY <2>1, UtoaIs
  <1>6. QED BY <1>4, <1>5

LEMMA HexOK ==
    ASSUME NEW v \in 0 .. WORD - 1
    PROVE  hex32be(v) \in Seq(Glyph)
  <1>1. BITS \in Nat \ {0} /\ v \in Nat
    BY ConsoleConstants, CountStep
  <1>2. PICK m \in Nat : m = BITS \div 4
    <2>1. BITS \div 4 \in Nat
      BY <1>1
    <2>2. QED BY <2>1
  <1>3. ASSUME NEW k \in 1 .. m PROVE get_symbol((v \div Pow(16, m - k)) % 16) \in Glyph
    <2>1. m - k \in Nat
      OBVIOUS
    <2>2. Pow(16, m - k) \in Nat \ {0}
      BY <2>1, PowPositive
    <2>3. QED BY <1>1, <2>2, FigureOK
  <1> DEFINE S(k) == get_symbol((v \div Pow(16, m - k)) % 16)
  <1>4. hex32be(v) = [k \in 1 .. m |-> S(k)]
    BY <1>2 DEF hex32be
  <1>5. \A k \in 1 .. m : S(k) \in Glyph
    BY <1>3
  <1> HIDE DEF S
  <1>6. [k \in 1 .. m |-> S(k)] \in Seq(Glyph)
    BY <1>5
  <1>7. QED BY <1>4, <1>6

\* Fixed texts.
LEMMA ShortTexts ==
    ASSUME NEW S, NEW a \in S, NEW b \in S, NEW c \in S, NEW d \in S
    PROVE  <<a>> \in Seq(S) /\ <<a, b, c>> \in Seq(S) /\ <<a, b, c, d>> \in Seq(S)
  OBVIOUS

LEMMA LongTexts ==
    ASSUME NEW S, NEW a \in S, NEW b \in S, NEW c \in S, NEW d \in S, NEW e \in S
    PROVE  <<a, b, c, d, e>> \in Seq(S)
  OBVIOUS

LEMMA LongestText ==
    ASSUME NEW S, NEW a \in S, NEW b \in S, NEW c \in S, NEW d \in S,
           NEW e \in S, NEW f \in S, NEW g \in S, NEW h \in S
    PROVE  <<a, b, c, d, e, f, g, h>> \in Seq(S)
  OBVIOUS

LEMMA TextsOK ==
    /\ <<"%">> \in Seq(Glyph) /\ <<"?", "%", "n">> \in Seq(Glyph) /\ <<>> \in Seq(Glyph)
    /\ <<"t", "r", "u", "e">> \in Seq(Glyph) /\ <<"f", "a", "l", "s", "e">> \in Seq(Glyph)
    /\ <<"ESC", "[", "3", "1", ";", "4", "9", "m">> \in Seq(Glyph)
    /\ <<"ESC", "[", "9", "7", "m">> \in Seq(Glyph) /\ <<"ESC", "[", "0", "m">> \in Seq(Glyph)
  <1>1. /\ "%" \in Glyph /\ "?" \in Glyph /\ "n" \in Glyph /\ "t" \in Glyph /\ "r" \in Glyph /\ "u" \in Glyph
        /\ "e" \in Glyph /\ "f" \in Glyph /\ "a" \in Glyph /\ "l" \in Glyph /\ "s" \in Glyph /\ "ESC" \in Glyph
        /\ "[" \in Glyph /\ "3" \in Glyph /\ "1" \in Glyph /\ ";" \in Glyph /\ "4" \in Glyph /\ "9" \in Glyph
        /\ "m" \in Glyph /\ "7" \in Glyph /\ "0" \in Glyph
    BY Zenon DEF Glyph
  <1>2. <<"%">> \in Seq(Glyph)
    BY <1>1, ShortTexts, ZenonT(60)
  <1>0. <<>> \in Seq(Glyph)
    OBVIOUS
  <1>3. <<"?", "%", "n">> \in Seq(Glyph)
    BY <1>1, ShortTexts, Zenon
  <1>4. <<"t", "r", "u", "e">> \in Seq(Glyph)
    BY <1>1, ShortTexts, Zenon
  <1>5. <<"f", "a", "l", "s", "e">> \in Seq(Glyph)
    BY <1>1, LongTexts, Zenon
  <1>6. <<"ESC", "[", "3", "1", ";", "4", "9", "m">> \in Seq(Glyph)
    BY <1>1, LongestText, Zenon
  <1>7. <<"ESC", "[", "9", "7", "m">> \in Seq(Glyph)
    BY <1>1, LongTexts, Zenon
  <1>8. <<"ESC", "[", "0", "m">> \in Seq(Glyph)
    BY <1>1, ShortTexts, Zenon
  <1>9. QED BY <1>0, <1>2, <1>3, <1>4, <1>5, <1>6, <1>7, <1>8, Zenon

\* A conversion prints what a reader of the format expects.
LEMMA ConvertIs ==
    ASSUME NEW tok \in Token
    PROVE  Convert(tok) = Meaning(tok) /\ Convert(tok) \in Seq(Glyph)
  <1>1. /\ tok.arg \in 0 .. WORD - 1 /\ tok.str \in Seq(Letter) /\ tok.t \in Letter
    BY DEF Token
  <1>2. Letter \subseteq Glyph
    BY DEF Glyph
  <1>3. PICK v \in 0 .. WORD - 1 : v = tok.arg
    BY <1>1
  <1>4. CASE tok.t \in {"d", "i"}
    <2>1. Convert(tok) = itoa(v, 10) /\ Meaning(tok) = Signed(v)
      BY <1>3, <1>4 DEF Convert, Meaning
    <2>2. QED BY <2>1, ItoaIs
  <1>5. CASE tok.t = "u"
    <2>1. Convert(tok) = utoa(v, 10) /\ Meaning(tok) = Numeral(v, 10)
      BY <1>3, <1>5 DEF Convert, Meaning
    <2>2. QED BY <2>1, UtoaIs
  <1>6. CASE tok.t = "x"
    <2>1. Convert(tok) = utoa(v, 16) /\ Meaning(tok) = Numeral(v, 16)
      BY <1>3, <1>6 DEF Convert, Meaning
    <2>2. QED BY <2>1, UtoaIs
  <1>7. CASE tok.t = "o"
    <2>1. Convert(tok) = utoa(v, 8) /\ Meaning(tok) = Numeral(v, 8)
      BY <1>3, <1>7 DEF Convert, Meaning
    <2>2. QED BY <2>1, UtoaIs
  <1>8. CASE tok.t = "b"
    <2>1. Convert(tok) = utoa(v, 2) /\ Meaning(tok) = Numeral(v, 2)
      BY <1>3, <1>8 DEF Convert, Meaning
    <2>2. QED BY <2>1, UtoaIs
  <1>9. CASE tok.t \notin {"d", "i", "u", "x", "o", "b"}
    <2>1. Meaning(tok) = Convert(tok)
      BY <1>9 DEF Meaning
    <2>2. CASE tok.t = "%"
      BY <2>1, <2>2, TextsOK DEF Convert
    <2>3. CASE tok.t \in {"s", "c"}
      <3>1. Convert(tok) = tok.str
        BY <2>3 DEF Convert
      <3>2. QED BY <1>1, <1>2, <2>1, <3>1
    <2>4. CASE tok.t = "t"
      <3>1. Convert(tok) = IF tok.arg # 0 THEN <<"t", "r", "u", "e">> ELSE <<"f", "a", "l", "s", "e">>
        BY <2>4 DEF Convert
      <3>2. QED BY <2>1, <3>1, TextsOK, Zenon
    <2>5. CASE tok.t = "p"
      <3>1. Convert(tok) = hex32be(v)
        BY <1>3, <2>5 DEF Convert
      <3>2. QED BY <2>1, <3>1, HexOK
    <2>6. CASE tok.t = "n"
      BY <2>1, <2>6, TextsOK DEF Convert
    <2>7. CASE tok.t \notin {"%", "s", "c", "t", "p", "n"}
      <3>1. Convert(tok) = <<"?", "%", tok.t>>
        BY <1>9, <2>7 DEF Convert
      <3>2. "?" \in Glyph /\ "%" \in Glyph
        BY Zenon DEF Glyph
      <3>3. tok.t \in Glyph
        BY <1>1, <1>2
      <3>4. QED BY <2>1, <3>1, <3>2, <3>3
    <2>8. QED BY <2>1, <2>2, <2>3, <2>4, <2>5, <2>6, <2>7
  <1>10. QED BY <1>4, <1>5, <1>6, <1>7, <1>8, <1>9

\* What a token prints, and what it is meant to print.
LEMMA PrintedIs ==
    ASSUME NEW how, NEW tok \in Token, tok.c \notin Calls
    PROVE  Printed(how, tok, Convert) = Printed(how, tok, Meaning) /\ Printed(how, tok, Convert) \in Seq(Glyph)
  <1>1. PICK c : c = Convert(tok) /\ c = Meaning(tok) /\ c \in Seq(Glyph)
    BY ConvertIs
  <1>2. CASE tok.c # "%"
    <2>1. tok.c \in Glyph
      BY DEF Token, Glyph, Letter
    <2>2. <<tok.c>> \in Seq(Glyph)
      BY <2>1
    <2>3. QED BY <1>2, <2>2 DEF Printed
  <1>3. CASE tok.c = "%" /\ how = "vkprintf" /\ tok.t = "n"
    BY <1>3, TextsOK DEF Printed
  <1>4. CASE tok.c = "%" /\ ~ (how = "vkprintf" /\ tok.t = "n")
    <2>1. Printed(how, tok, Convert) = Paint(how, tok, c) /\ Printed(how, tok, Meaning) = Paint(how, tok, c)
      BY <1>1, <1>4 DEF Printed
    <2>2. PICK a, b : a = Colour(tok.t) /\ b = <<"ESC", "[", "0", "m">>
      OBVIOUS
    <2>3. a \in Seq(Glyph) /\ b \in Seq(Glyph)
      BY <2>2, TextsOK, Zenon DEF Colour
    <2>4. a \o c \in Seq(Glyph)
      BY <1>1, <2>3, ConcatProperties
    <2>5. (a \o c) \o b \in Seq(Glyph)
      BY <2>3, <2>4, ConcatProperties
    <2>6. Paint(how, tok, c) \in {c, (a \o c) \o b}
      BY <2>2, Zenon DEF Paint
    <2>7. QED BY <1>1, <2>1, <2>5, <2>6
  <1>5. QED BY <1>2, <1>3, <1>4

\* No character is a call.
LEMMA GlyphNoCall ==
    ASSUME NEW c \in Glyph
    PROVE  c \notin Calls
  BY DEF Glyph, Letter, Calls

-----------------------------------------------------------------------------
(* The screen, once the processes run.                                     *)

Entry == [p : Nat, c : Glyph \cup Calls \cup {"BS", Space}, at : Nat \X Nat]
First == Sheet(start.grid, start.col, start.row, 0)

ScreenInv ==
    /\ CursorInv
    /\ pend \in [Writers -> Seq(Glyph)] /\ out \in Seq(Entry)
    /\ kpc \notin {"procs", "null"} => out = <<>> /\ \A p \in Writers : pend[p] = <<>>
    /\ kpc = "procs" /\ job.fb_base => Match(Snap, Drawn(First, out))

LEMMA DrawnNone ==
    ASSUME NEW b
    PROVE  Drawn(b, <<>>) = b
  <1>1. PICK none : none = <<>>
    OBVIOUS
  <1>2. DOMAIN none = 1 .. 0
    BY <1>1
  <1>3. PICK h : h[0] = b /\ Drawn(b, none) = h[0]
    <2>1. PICK m \in Nat : m = 0
      OBVIOUS
    <2>2. DOMAIN none = 1 .. m
      BY <1>2, <2>1
    <2>3. \E h : Sheets(h, b, none, m)
      BY <2>2, PaperTrace
    <2>4. QED BY <2>1, <2>3 DEF Sheets
  <1>4. QED BY <1>1, <1>3

\* The screen kmain leaves is the first of the paper.
LEMMA FirstMatch ==
    ASSUME NEW g, NEW x \in 0 .. FB_COLS - 1, NEW y \in 0 .. FB_ROWS - 1, DOMAIN g = Cells
    PROVE  Match(Scr(g, x, y), Sheet(g, x, y, 0))
  <1>1. ASSUME NEW k \in DOMAIN g PROVE k \in Nat \X Nat /\ k[1] < 0 + FB_ROWS
    <2>1. k[1] \in 0 .. FB_ROWS - 1 /\ k = <<k[1], k[2]>> /\ k[1] \in Nat /\ k[2] \in Nat
      BY CellParts
    <2>2. QED BY <2>1, Sizes
  <1>2. ASSUME NEW c \in Cells PROVE g[c] = At(g, 0 + c[1], c[2])
    <2>1. c = <<c[1], c[2]>> /\ 0 + c[1] = c[1]
      BY CellParts
    <2>2. QED BY <2>1 DEF At
  <1>3. View(g, g, 0)
    BY <1>1, <1>2 DEF View
  <1>4. QED BY <1>3 DEF Match

\* A screen that is shown is the next one.
LEMMA ShownSnap ==
    ASSUME NEW s, OnScreen(s), Show(s)
    PROVE  Snap' = s
  <1>1. s = Scr(grid', cursor_col', cursor_row')
    BY Shown
  <1>2. QED BY <1>1 DEF Snap, Scr

LEMMA CharEntry ==
    ASSUME NEW p \in Nat, NEW c \in Glyph \cup {"BS", Space}
    PROVE  Char(p, c) \in Entry /\ Char(p, c).c = c /\ c \notin Calls
  <1>1. Char(p, c) \in Entry /\ Char(p, c).c = c
    BY DEF Char, Entry
  <1>2. Space \notin Calls
    BY DEF Space, Calls
  <1>3. "BS" \notin Calls
    BY DEF Calls
  <1>4. QED BY <1>1, <1>2, <1>3, GlyphNoCall

\* One character more on the screen and in the record of what went to it.
LEMMA CharMatch ==
    ASSUME NEW s, NEW b, NEW list \in Seq(Entry), Match(s, Drawn(b, list)),
           NEW p \in Nat, NEW c \in Glyph \cup {"BS", Space}
    PROVE  /\ Append(list, Char(p, c)) \in Seq(Entry)
           /\ Match(Put(s, c), Drawn(b, Append(list, Char(p, c))))
  <1>1. PICK e \in Entry : e = Char(p, c) /\ e.c = c /\ c \notin Calls
    BY CharEntry
  <1>2. Drawn(b, Append(list, e)) = Paper(Drawn(b, list), e)
    BY DrawnAppend
  <1>3. Match(Put(s, e.c), Paper(Drawn(b, list), e))
    BY <1>1, PutcMatch
  <1>4. Append(list, e) \in Seq(Entry)
    BY AppendProperties
  <1>5. QED BY <1>1, <1>2, <1>3, <1>4

LEMMA ScreenInit == Init => ScreenInv
  <1> SUFFICES ASSUME Init PROVE ScreenInv
    OBVIOUS
  <1>1. CursorInv
    BY CursorInit
  <1>2. pend = [p \in Writers |-> <<>>] /\ out = <<>> /\ kpc = "next"
    BY DEF Init
  <1>3. <<>> \in Seq(Glyph) /\ <<>> \in Seq(Entry)
    OBVIOUS
  <1>4. QED BY <1>1, <1>2, <1>3 DEF ScreenInv

\* kmain leaves the record alone until the processes start.
LEMMA ScreenKmain ==
    ASSUME ScreenInv, KmainDark \/ KmainChar \/ KmainAdvance \/ KmainNewline \/ KmainWrap \/ KmainScroll
    PROVE  ScreenInv'
  <1>1. CursorInv'
    BY KmainStep DEF ScreenInv
  <1>2. UNCHANGED <<job, pend, out>>
    BY DEF KmainDark, KmainChar, KmainAdvance, KmainNewline, KmainWrap, KmainScroll, Kmain, writers
  <1>3. kpc \notin {"procs", "null"} /\ kpc' \notin {"procs", "null"}
    BY DEF KmainDark, KmainChar, KmainAdvance, KmainNewline, KmainWrap, KmainScroll, Kmain
  <1>4. Writers' = Writers
    BY <1>2 DEF Writers
  <1>5. QED BY <1>1, <1>2, <1>3, <1>4 DEF ScreenInv

LEMMA ScreenStart ==
    ASSUME ScreenInv, StartProcs
    PROVE  ScreenInv'
  <1>1. CursorInv' /\ CursorInv
    BY KmainStep DEF ScreenInv
  <1>2. /\ UNCHANGED <<job, pend, out>> /\ Writers' = Writers /\ out = <<>> /\ kpc = "next" /\ kpc' = "procs"
        /\ UNCHANGED <<grid, cursor_col, cursor_row>> /\ start' = Snap
    BY DEF StartProcs, writers, screen, ScreenInv, Writers
  <1>3. Snap' = Scr(grid, cursor_col, cursor_row)
    BY <1>2 DEF Snap, Scr
  <1>4. First' = Sheet(grid, cursor_col, cursor_row, 0)
    BY <1>2 DEF First, Snap
  <1>5. /\ DOMAIN grid = Cells /\ cursor_col \in 0 .. FB_COLS - 1 /\ cursor_row \in 0 .. FB_ROWS - 1
    BY <1>1, <1>2, Sizes DEF CursorInv, ColOK, RowOK, GridOK
  <1>6. Match(Snap', First')
    BY <1>3, <1>4, <1>5, FirstMatch
  <1>7. Drawn(First', out') = First'
    BY <1>2, DrawnNone
  <1>8. QED BY <1>1, <1>2, <1>6, <1>7 DEF ScreenInv

\* The record gets the three characters one by one.
LEMMA EchoOut ==
    ASSUME out \in Seq(Entry), out' = out \o [k \in 1 .. 3 |-> Char(0, Echo[k])]
    PROVE  /\ Char(0, Echo[1]) \in Entry /\ Char(0, Echo[2]) \in Entry /\ Char(0, Echo[3]) \in Entry
           /\ out' = Append(Append(Append(out, Char(0, Echo[1])), Char(0, Echo[2])), Char(0, Echo[3]))
  <1>1. PICK a, b, c \in Glyph \cup {"BS", Space} : a = Echo[1] /\ b = Echo[2] /\ c = Echo[3]
    <2>1. Echo[1] = "BS" /\ Echo[2] = Space /\ Echo[3] = "BS"
      BY DEF Echo, Space
    <2>2. QED BY <2>1
  <1>2. PICK three : three = [k \in 1 .. 3 |-> Char(0, Echo[k])] /\ out' = out \o three
    OBVIOUS
  <1>3. PICK x, y, z \in Entry : x = Char(0, a) /\ y = Char(0, b) /\ z = Char(0, c)
    BY CharEntry
  <1>4. three[1] = x /\ three[2] = y /\ three[3] = z
    BY <1>1, <1>2, <1>3
  <1>5. three \in Seq(Entry) /\ Len(three) = 3
    <2>1. \A k \in 1 .. 3 : k = 1 \/ k = 2 \/ k = 3
      OBVIOUS
    <2>2. \A k \in 1 .. 3 : three[k] \in Entry
      BY <1>3, <1>4, <2>1
    <2>3. DOMAIN three = 1 .. 3 /\ three = [k \in 1 .. 3 |-> three[k]]
      BY <1>2
    <2>4. QED BY <2>2, <2>3
  <1>6. PICK o3 \in Seq(Entry) : o3 = Append(Append(Append(out, x), y), z)
    <2>1. Append(out, x) \in Seq(Entry)
      OBVIOUS
    <2>2. Append(Append(out, x), y) \in Seq(Entry)
      BY <2>1
    <2>3. Append(Append(Append(out, x), y), z) \in Seq(Entry)
      BY <2>2
    <2>4. QED BY <2>3
  <1>7. PICK m \in Nat : m = Len(out)
    OBVIOUS
  <1>8. /\ Len(out \o three) = m + 3 /\ out \o three \in Seq(Entry)
        /\ \A k \in 1 .. m : (out \o three)[k] = out[k]
        /\ (out \o three)[m + 1] = x /\ (out \o three)[m + 2] = y /\ (out \o three)[m + 3] = z
    <2>1. PICK all \in Seq(Entry) :
             /\ all = out \o three /\ Len(all) = m + 3
             /\ \A k \in 1 .. m + 3 : all[k] = IF k <= m THEN out[k] ELSE three[k - m]
      <3>1. /\ out \o three \in Seq(Entry) /\ Len(out \o three) = Len(out) + Len(three)
            /\ \A k \in 1 .. Len(out) + Len(three) :
                  (out \o three)[k] = IF k <= Len(out) THEN out[k] ELSE three[k - Len(out)]
        BY <1>5, ConcatProperties
      <3>2. QED BY <1>5, <1>7, <3>1
    <2>2. \A k \in 1 .. m : k \in 1 .. m + 3 /\ k <= m
      OBVIOUS
    <2>3. /\ m + 1 \in 1 .. m + 3 /\ ~ (m + 1 <= m) /\ (m + 1) - m = 1
          /\ m + 2 \in 1 .. m + 3 /\ ~ (m + 2 <= m) /\ (m + 2) - m = 2
          /\ m + 3 \in 1 .. m + 3 /\ ~ (m + 3 <= m) /\ (m + 3) - m = 3
      OBVIOUS
    <2>4. all[m + 1] = x /\ all[m + 2] = y /\ all[m + 3] = z
      BY <1>4, <2>1, <2>3
    <2>5. QED BY <2>1, <2>2, <2>4
  <1>9. /\ Len(o3) = m + 3
        /\ \A k \in 1 .. m : o3[k] = out[k]
        /\ o3[m + 1] = x /\ o3[m + 2] = y /\ o3[m + 3] = z
    BY <1>3, <1>6, <1>7
  <1>10. \A k \in 1 .. m + 3 : k \in 1 .. m \/ k = m + 1 \/ k = m + 2 \/ k = m + 3
    OBVIOUS
  <1>11. \A k \in 1 .. m + 3 : o3[k] = (out \o three)[k]
    BY <1>8, <1>9, <1>10
  <1>12. o3 = out \o three
    BY <1>8, <1>9, <1>11, SeqEqual
  <1>13. QED BY <1>1, <1>2, <1>3, <1>6, <1>12

\* An echo is three characters of nobody.
LEMMA ScreenEcho ==
    ASSUME ScreenInv, tty_input
    PROVE  ScreenInv'
  <1>1. CursorInv' /\ CursorInv
    BY EchoStep DEF ScreenInv
  <1>2. UNCHANGED <<job, pend, kpc, start>> /\ Writers' = Writers /\ First' = First
    BY DEF tty_input, writers, Writers, First
  <1>3. CASE kpc # "procs"
    <2>1. out' = out
      BY <1>3 DEF tty_input
    <2>2. QED BY <1>1, <1>2, <1>3, <2>1 DEF ScreenInv
  <1>4. CASE kpc = "procs" /\ ~ job.fb_base
    <2>1. out \in Seq(Entry)
      BY DEF ScreenInv
    <2>2. out' \in Seq(Entry)
      <3>1. out' = out \o [k \in 1 .. 3 |-> Char(0, Echo[k])]
        BY <1>4 DEF tty_input
      <3>2. PICK x, y, z \in Entry : out' = Append(Append(Append(out, x), y), z)
        BY <2>1, <3>1, EchoOut
      <3>3. PICK o1 \in Seq(Entry) : o1 = Append(out, x)
        BY <2>1, AppendProperties
      <3>4. PICK o2 \in Seq(Entry) : o2 = Append(o1, y)
        BY AppendProperties
      <3>5. Append(o2, z) \in Seq(Entry)
        BY AppendProperties
      <3>6. QED BY <3>2, <3>3, <3>4, <3>5
    <2>3. QED BY <1>1, <1>2, <1>4, <2>2 DEF ScreenInv
  <1>5. CASE kpc = "procs" /\ job.fb_base
    <2>1. PICK a, b, c \in Glyph \cup {"BS", Space} : a = Echo[1] /\ b = Echo[2] /\ c = Echo[3]
      <3>1. Echo[1] = "BS" /\ Echo[2] = Space /\ Echo[3] = "BS"
        BY DEF Echo, Space
      <3>2. QED BY <3>1
    <2>2. Show(Put(Put(Put(Snap, a), b), c))
      BY <1>5, <2>1 DEF tty_input, fb_putc
    <2>3. Snap' = Put(Put(Put(Snap, a), b), c)
      <3>1. OnScreen(Put(Put(Put(Snap, a), b), c))
        BY <1>1, <1>5, SnapOK, PutcAgain DEF fb_putc
      <3>2. QED BY <2>2, <3>1, ShownSnap
    <2>4. 0 \in Nat /\ out \in Seq(Entry) /\ Match(Snap, Drawn(First, out))
      BY <1>5 DEF ScreenInv
    <2>5. PICK o1 \in Seq(Entry) : o1 = Append(out, Char(0, a)) /\ Match(Put(Snap, a), Drawn(First, o1))
      <3>1. /\ Append(out, Char(0, a)) \in Seq(Entry)
            /\ Match(Put(Snap, a), Drawn(First, Append(out, Char(0, a))))
        BY <2>4, CharMatch, ZenonT(40)
      <3>2. QED BY <3>1
    <2>6. PICK o2 \in Seq(Entry) : /\ o2 = Append(o1, Char(0, b))
                                   /\ Match(Put(Put(Snap, a), b), Drawn(First, o2))
      <3>1. /\ Append(o1, Char(0, b)) \in Seq(Entry)
            /\ Match(Put(Put(Snap, a), b), Drawn(First, Append(o1, Char(0, b))))
        BY <2>4, <2>5, CharMatch, ZenonT(40)
      <3>2. QED BY <3>1
    <2>7. PICK o3 \in Seq(Entry) : /\ o3 = Append(o2, Char(0, c))
                                   /\ Match(Put(Put(Put(Snap, a), b), c), Drawn(First, o3))
      <3>1. /\ Append(o2, Char(0, c)) \in Seq(Entry)
            /\ Match(Put(Put(Put(Snap, a), b), c), Drawn(First, Append(o2, Char(0, c))))
        <4>1. PICK s2 : s2 = Put(Put(Snap, a), b) /\ Match(s2, Drawn(First, o2))
          BY <2>6
        <4>2. PICK p \in Nat : p = 0
          OBVIOUS
        <4>3. /\ Append(o2, Char(p, c)) \in Seq(Entry)
              /\ Match(Put(s2, c), Drawn(First, Append(o2, Char(p, c))))
          BY <4>1, CharMatch
        <4>4. QED BY <4>1, <4>2, <4>3
      <3>2. QED BY <3>1
    <2>8. out' = o3
      <3>1. out' = out \o [k \in 1 .. 3 |-> Char(0, Echo[k])]
        BY <1>5 DEF tty_input
      <3>2. out' = Append(Append(Append(out, Char(0, Echo[1])), Char(0, Echo[2])), Char(0, Echo[3]))
        BY <2>4, <3>1, EchoOut
      <3>3. QED BY <2>1, <2>5, <2>6, <2>7, <3>2
    <2>9. Match(Snap', Drawn(First', out'))
      BY <1>2, <2>3, <2>7, <2>8
    <2>10. QED BY <1>1, <1>2, <1>5, <2>7, <2>8, <2>9 DEF ScreenInv
  <1>6. QED BY <1>3, <1>4, <1>5

\* The token a writer comes to next.
LEMMA NextFacts ==
    ASSUME CursorInv, NEW p \in Writers, todo[p] # <<>>
    PROVE  Head(todo[p]) \in Token /\ Tail(todo[p]) \in Seq(Token)
  <1>1. todo[p] \in Seq(Token)
    BY DEF CursorInv
  <1>2. QED BY <1>1, HeadTailProperties

LEMMA ScreenWriter ==
    ASSUME ScreenInv, NEW p \in Writers, NextToken(p) \/ putchar(p) \/ FbCall(p)
    PROVE  ScreenInv'
  <1>1. CursorInv' /\ CursorInv
    BY WriterStep DEF ScreenInv
  <1>2. UNCHANGED <<job, kpc, start>> /\ Writers' = Writers /\ First' = First
    BY DEF NextToken, putchar, FbCall, boot, Writers, First
  <1>3. pend \in [Writers -> Seq(Glyph)] /\ out \in Seq(Entry) /\ p \in Nat /\ p # 0
    BY <1>1, CallFacts DEF ScreenInv, CursorInv
  <1>4. kpc = "procs"
    BY DEF NextToken, putchar, FbCall
  <1>5. job.fb_base => Match(Snap, Drawn(First, out))
    BY <1>4 DEF ScreenInv
  <1>6. CASE NextToken(p)
    <2>1. UNCHANGED <<grid, cursor_col, cursor_row, out>>
      BY <1>6 DEF NextToken, screen
    <2>2. Snap' = Snap
      BY <2>1 DEF Snap
    <2>3. PICK tok \in Token : tok = Head(todo[p]) /\ tok.c \notin Calls
      BY <1>1, <1>6, NextFacts DEF NextToken
    <2>4. PICK s \in Seq(Glyph) : s = Printed(How(p), tok, Convert)
      BY <2>3, PrintedIs
    <2>5. pend' = [pend EXCEPT ![p] = s]
      BY <1>6, <2>3, <2>4 DEF NextToken
    <2>6. pend' \in [Writers -> Seq(Glyph)]
      BY <1>3, <2>5
    <2>7. QED BY <1>1, <1>2, <1>3, <1>4, <1>5, <2>1, <2>2, <2>6 DEF ScreenInv
  <1>7. CASE putchar(p)
    <2>1. PICK s \in Seq(Glyph) : s = pend[p] /\ s # <<>>
      BY <1>3, <1>7 DEF putchar
    <2>2. PICK c \in Glyph : c = Head(pend[p])
      BY <2>1, HeadTailProperties
    <2>3. Tail(pend[p]) \in Seq(Glyph)
      BY <2>1, HeadTailProperties
    <2>4. pend' = [pend EXCEPT ![p] = Tail(pend[p])]
      BY <1>7 DEF putchar
    <2>5. pend' \in [Writers -> Seq(Glyph)]
      BY <1>3, <2>3, <2>4
    <2>6. CASE How(p) = "vkprintf"
      <3>1. UNCHANGED <<grid, cursor_col, cursor_row, out>>
        BY <1>7, <2>6 DEF putchar, screen
      <3>2. Snap' = Snap
        BY <3>1 DEF Snap
      <3>3. QED BY <1>1, <1>2, <1>3, <1>4, <1>5, <2>5, <3>1, <3>2 DEF ScreenInv
    <2>7. CASE How(p) # "vkprintf"
      <3>1. out' = Append(out, Char(p, c)) /\ Show(fb_putc(Snap, c))
        BY <1>7, <2>2, <2>7 DEF putchar
      <3>2. Snap' = fb_putc(Snap, c)
        BY <1>1, <3>1, SnapOK, ShownSnap
      <3>3. Append(out, Char(p, c)) \in Seq(Entry)
        BY <1>3, CharEntry, AppendProperties
      <3>5. ASSUME job.fb_base PROVE Match(fb_putc(Snap, c), Drawn(First, Append(out, Char(p, c))))
        <4>1. Match(Put(Snap, c), Drawn(First, Append(out, Char(p, c))))
          BY <1>3, <1>5, <3>5, CharMatch
        <4>2. QED BY <3>5, <4>1 DEF fb_putc
      <3>4. QED BY <1>1, <1>2, <1>4, <2>5, <3>1, <3>2, <3>3, <3>5 DEF ScreenInv
    <2>8. QED BY <2>6, <2>7
  <1>8. CASE FbCall(p)
    <2>1. PICK call \in Token : call = Head(todo[p]) /\ call.c \in Calls
      BY <1>1, <1>8, NextFacts DEF FbCall
    <2>2. PICK e : e = [p |-> p, c |-> call.c, at |-> call.at]
      OBVIOUS
    <2>3. e \in Entry /\ e.c = call.c /\ e.at = call.at
      BY <1>3, <2>1, <2>2 DEF Entry, Token
    <2>4. out' = Append(out, e) /\ pend' = pend
      BY <1>8, <2>1, <2>2 DEF FbCall
    <2>5. out' \in Seq(Entry) /\ Drawn(First, out') = Paper(Drawn(First, out), e)
      BY <1>3, <2>3, <2>4, DrawnAppend, AppendProperties
    <2>6. CASE call.c = "clear"
      <3>1. Show(Scr(Blanks, 0, 0))
        BY <1>8, <2>1, <2>6 DEF FbCall, Scr
      <3>2. Snap' = Scr(Blanks, 0, 0)
        BY <3>1 DEF Snap, Show, Scr
      <3>3. job.fb_base => Match(Scr(Blanks, 0, 0), Paper(Drawn(First, out), e))
        BY <1>5, <2>3, <2>6, ClearMatch
      <3>4. QED BY <1>1, <1>2, <1>3, <1>4, <2>4, <2>5, <3>2, <3>3 DEF ScreenInv
    <2>7. CASE call.c # "clear"
      <3>1. call.c = "at"
        BY <2>1, <2>7 DEF Calls
      <3>2. /\ grid' = IF e.at \in Cells THEN draw_glyph(grid, e.at[1], e.at[2], "@") ELSE grid
            /\ cursor_col' = cursor_col /\ cursor_row' = cursor_row
        BY <1>8, <2>1, <2>3, <2>7 DEF FbCall
      <3>3. PICK g : g = IF e.at \in Cells THEN draw_glyph(grid, e.at[1], e.at[2], "@") ELSE grid
        OBVIOUS
      <3>4. Snap' = Scr(g, cursor_col, cursor_row)
        BY <3>2, <3>3 DEF Snap, Scr
      <3>5. Snap = Scr(grid, cursor_col, cursor_row)
        BY DEF Snap, Scr
      <3>6. job.fb_base => Match(Scr(g, cursor_col, cursor_row), Paper(Drawn(First, out), e))
        BY <1>5, <2>3, <3>1, <3>3, <3>5, AtMatch
      <3>7. QED BY <1>1, <1>2, <1>3, <1>4, <2>4, <2>5, <3>4, <3>6 DEF ScreenInv
    <2>8. QED BY <2>6, <2>7
  <1>9. QED BY <1>6, <1>7, <1>8

LEMMA ScreenNull ==
    ASSUME ScreenInv, NEW p \in Writers, FbNull(p)
    PROVE  ScreenInv'
  <1>1. CursorInv'
    BY NullStep DEF ScreenInv
  <1>2. UNCHANGED <<pend, out>> /\ kpc' = "null" /\ Writers' = Writers
    BY DEF FbNull, writers, Writers
  <1>3. QED BY <1>1, <1>2 DEF ScreenInv

LEMMA ScreenStep == ScreenInv /\ [Next]_vars => ScreenInv'
  <1> SUFFICES ASSUME ScreenInv, [Next]_vars PROVE ScreenInv'
    OBVIOUS
  <1>1. CASE UNCHANGED vars
    <2>1. CursorInv'
      BY CursorStep DEF ScreenInv
    <2>2. UNCHANGED <<job, pend, out, kpc>> /\ Snap' = Snap /\ First' = First /\ Writers' = Writers
      BY <1>1 DEF vars, writers, screen, boot, Snap, First, Writers
    <2>3. QED BY <2>1, <2>2 DEF ScreenInv
  <1>2. CASE tty_input
    BY <1>2, ScreenEcho
  <1>3. CASE KmainDark \/ KmainChar \/ KmainAdvance \/ KmainNewline \/ KmainWrap \/ KmainScroll
    BY <1>3, ScreenKmain
  <1>4. CASE StartProcs
    BY <1>4, ScreenStart
  <1>5. CASE \E p \in Writers : NextToken(p) \/ putchar(p) \/ FbCall(p)
    BY <1>5, ScreenWriter
  <1>6. CASE \E p \in Writers : FbNull(p)
    BY <1>6, ScreenNull
  <1>7. QED BY <1>1, <1>2, <1>3, <1>4, <1>5, <1>6 DEF Next

\* ScreenExact.  Whatever programs, the interrupt's echoes and calls in place put
\* on the screen, in any order, it is the last FB_ROWS rows of an endless paper
\* with all of it, where there is a framebuffer: fb_putc's wrap and scroll, and svc_fb_clear, lose and move nothing.
THEOREM ScreenAlwaysExact == Spec => []ScreenExact
  <1>1. ScreenInv => ScreenExact
    <2> SUFFICES ASSUME ScreenInv, kpc = "procs", job.fb_base PROVE ScreenExact
      BY DEF ScreenExact
    <2>1. PICK now : now = Drawn(First, out)
      OBVIOUS
    <2>2. Match(Snap, now)
      BY <2>1 DEF ScreenInv
    <2>3. PICK g, x, y, i, t : Snap = Scr(g, x, y) /\ now = Sheet(i, x, y, t) /\ View(g, i, t)
      BY <2>2 DEF Match
    <2>4. grid = g /\ cursor_col = x /\ cursor_row = y
      BY <2>3 DEF Snap, Scr
    <2>5. now.col = x /\ now.row = y /\ now.ink = i /\ now.top = t
      BY <2>3 DEF Sheet
    <2>6. \A c \in Cells : grid[c] = IF <<now.top + c[1], c[2]>> \in DOMAIN now.ink
                                      THEN now.ink[<<now.top + c[1], c[2]>>] ELSE " "
      BY <2>3, <2>4, <2>5 DEF View, At
    <2>7. now = FoldLeft(Paper, [ink |-> start.grid, col |-> start.col, row |-> start.row, top |-> 0], out)
      BY <2>1 DEF Drawn, First, Sheet
    <2>8. QED BY <2>4, <2>5, <2>6, <2>7 DEF ScreenExact
  <1>2. QED BY <1>1, ScreenInit, ScreenStep, PTL DEF Spec

-----------------------------------------------------------------------------
(* What a format says, and what a writer put out.                          *)

LEMMA ShowsOK ==
    ASSUME NEW how, NEW tok \in Token
    PROVE  Shows(how, tok) \in Seq(Glyph)
  <1>1. CASE tok.c \in Calls
    BY <1>1, TextsOK DEF Shows
  <1>2. CASE tok.c \notin Calls
    BY <1>2, PrintedIs DEF Shows
  <1>3. QED BY <1>1, <1>2

\* The recursion of Said, step by step.
Says(s, how, fmt, m) ==
    /\ s[0] = <<>>
    /\ \A k \in 1 .. m : s[k] = s[k - 1] \o Shows(how, fmt[k])
    /\ \A k \in 0 .. m : s[k] \in Seq(Glyph)
LEMMA SaidTrace ==
    ASSUME NEW how, NEW fmt \in Seq(Token), NEW m \in Nat, m <= Len(fmt)
    PROVE  \E s : Said(how, fmt, m) = s[m] /\ Says(s, how, fmt, m)
  <1> DEFINE Body(s) == [k \in 0 .. m |-> IF k = 0 THEN <<>> ELSE s[k - 1] \o Shows(how, fmt[k])]
             q == CHOOSE s : s = Body(s)
  <1>1. Said(how, fmt, m) = q[m]
    BY DEF Said
  <1>0. ASSUME NEW k \in 1 .. m PROVE Shows(how, fmt[k]) \in Seq(Glyph)
    <2>1. k \in 1 .. Len(fmt)
      OBVIOUS
    <2>2. fmt[k] \in Token
      BY <2>1
    <2>3. QED BY <2>2, ShowsOK
  <1>2. PICK S : S = Seq(Glyph)
    OBVIOUS
  <1>3. PICK f : f = [at \in (1 .. m) \X S |-> at[2] \o Shows(how, fmt[at[1]])]
    OBVIOUS
  <1>4. f \in [(1 .. m) \X S -> S]
    <2>1. ASSUME NEW at \in (1 .. m) \X S PROVE at[2] \o Shows(how, fmt[at[1]]) \in S
      <3>1. at[1] \in 1 .. m /\ at[2] \in Seq(Glyph)
        BY <1>2
      <3>2. Shows(how, fmt[at[1]]) \in Seq(Glyph)
        BY <1>0, <3>1
      <3>3. QED BY <1>2, <3>1, <3>2, ConcatProperties
    <2>2. QED BY <1>3, <2>1
  <1>5. <<>> \in S
    BY <1>2
  <1>6. PICK h \in [0 .. m -> S] : Follows(h, <<>>, f, m)
    BY <1>4, <1>5, Recursion
  <1>7. ASSUME NEW k \in 1 .. m PROVE h[k] = h[k - 1] \o Shows(how, fmt[k])
    <2>1. k - 1 \in 0 .. m
      OBVIOUS
    <2>2. <<k, h[k - 1]>> \in (1 .. m) \X S
      BY <2>1
    <2>3. f[<<k, h[k - 1]>>] = h[k - 1] \o Shows(how, fmt[k])
      BY <1>3, <2>2
    <2>4. QED BY <1>6, <2>3 DEF Follows
  <1>8. \A k \in 0 .. m : h[k] = IF k = 0 THEN <<>> ELSE h[k - 1] \o Shows(how, fmt[k])
    <2>1. h[0] = <<>>
      BY <1>6 DEF Follows
    <2>2. \A k \in 0 .. m : k # 0 => k \in 1 .. m
      OBVIOUS
    <2>3. QED BY <1>7, <2>1, <2>2, Zenon
  <1>9. h = Body(h)
    <2> DEFINE b == Body(h)
    <2>1. \A k \in 0 .. m : b[k] = IF k = 0 THEN <<>> ELSE h[k - 1] \o Shows(how, fmt[k])
      OBVIOUS
    <2>2. DOMAIN b = 0 .. m /\ b = [k \in 0 .. m |-> b[k]] /\ h = [k \in 0 .. m |-> h[k]]
      OBVIOUS
    <2> HIDE DEF b
    <2>3. \A k \in 0 .. m : b[k] = h[k]
      BY <1>8, <2>1
    <2>4. h = b
      BY <2>2, <2>3
    <2>5. QED BY <2>4 DEF b
  <1>10. q = Body(q)
    <2> HIDE DEF Body
    <2>1. QED BY <1>9, Zenon
  <1> HIDE DEF q
  <1>11. q[0] = <<>> /\ \A k \in 1 .. m : q[k] = q[k - 1] \o Shows(how, fmt[k])
    <2>1. \A k \in 0 .. m : Body(q)[k] = IF k = 0 THEN <<>> ELSE q[k - 1] \o Shows(how, fmt[k])
      OBVIOUS
    <2> HIDE DEF Body
    <2>2. \A k \in 0 .. m : q[k] = IF k = 0 THEN <<>> ELSE q[k - 1] \o Shows(how, fmt[k])
      BY <1>10, <2>1, Zenon
    <2>3. 0 \in 0 .. m /\ \A k \in 1 .. m : k \in 0 .. m /\ k # 0
      OBVIOUS
    <2>4. QED BY <2>2, <2>3
  <1>12. \A k \in 0 .. m : q[k] \in Seq(Glyph)
    <2> DEFINE T == {k \in Nat : k <= m => q[k] \in Seq(Glyph)}
    <2>1. 0 \in T
      <3>1. q[0] \in Seq(Glyph)
        BY <1>11, TextsOK
      <3>2. QED BY <3>1
    <2>2. ASSUME NEW k \in Nat, k \in T PROVE k + 1 \in T
      <3>1. ASSUME k + 1 <= m PROVE q[k + 1] \in Seq(Glyph)
        <4>1. k + 1 \in 1 .. m /\ (k + 1) - 1 = k /\ q[k] \in Seq(Glyph)
          BY <2>2, <3>1
        <4>2. q[k + 1] = q[k] \o Shows(how, fmt[k + 1])
          BY <1>11, <4>1
        <4>3. QED BY <1>0, <4>1, <4>2, ConcatProperties
      <3>2. QED BY <3>1
    <2> HIDE DEF T
    <2>3. Nat \subseteq T
      BY <2>1, <2>2, Induction
    <2>4. QED BY <2>3 DEF T
  <1>13. QED BY <1>1, <1>11, <1>12 DEF Says

\* One more token is said behind the ones before.
LEMMA SaidFacts ==
    ASSUME NEW how, NEW fmt \in Seq(Token), NEW m \in Nat, m <= Len(fmt)
    PROVE  /\ Said(how, fmt, 0) = <<>> /\ Said(how, fmt, m) \in Seq(Glyph)
           /\ m + 1 <= Len(fmt) => Said(how, fmt, m + 1) = Said(how, fmt, m) \o Shows(how, fmt[m + 1])
  <1>1. PICK s : Said(how, fmt, m) = s[m] /\ Says(s, how, fmt, m)
    BY SaidTrace
  <1>2. Said(how, fmt, 0) = <<>>
    <2>1. PICK z \in Nat : z = 0 /\ z <= Len(fmt)
      <3>1. 0 \in Nat /\ 0 <= Len(fmt)
        OBVIOUS
      <3>2. QED BY <3>1
    <2>2. PICK y : Said(how, fmt, z) = y[z] /\ Says(y, how, fmt, z)
      BY <2>1, SaidTrace
    <2>3. QED BY <2>1, <2>2 DEF Says
  <1>3. Said(how, fmt, m) \in Seq(Glyph)
    BY <1>1 DEF Says
  <1>4. ASSUME m + 1 <= Len(fmt)
        PROVE  Said(how, fmt, m + 1) = Said(how, fmt, m) \o Shows(how, fmt[m + 1])
    <2>1. PICK j \in Nat : j = m + 1 /\ j <= Len(fmt)
      BY <1>4
    <2>2. PICK q : Said(how, fmt, j) = q[j] /\ Says(q, how, fmt, j)
      BY <2>1, SaidTrace
    <2>3. \A k \in 1 .. m : k \in 1 .. j
      BY <2>1
    <2>4. \A k \in 1 .. m : s[k - 1] = q[k - 1] => s[k] = q[k]
      <3>1. ASSUME NEW k \in 1 .. m, s[k - 1] = q[k - 1] PROVE s[k] = q[k]
        <4>1. s[k] = s[k - 1] \o Shows(how, fmt[k])
          BY <1>1 DEF Says
        <4>2. q[k] = q[k - 1] \o Shows(how, fmt[k])
          BY <2>2, <2>3 DEF Says
        <4>3. QED BY <3>1, <4>1, <4>2
      <3>2. QED BY <3>1
    <2>5. s[0] = q[0]
      BY <1>1, <2>2 DEF Says
    <2>6. \A k \in 0 .. m : s[k] = q[k]
      <3>1. Alike(s, q, m)
        BY <2>4, <2>5 DEF Alike
      <3>2. QED BY <3>1, SameFollows
    <2>7. j \in 1 .. j /\ j - 1 = m /\ m \in 0 .. m
      BY <2>1
    <2>8. q[j] = q[m] \o Shows(how, fmt[j])
      BY <2>2, <2>7 DEF Says
    <2>9. QED BY <1>1, <2>1, <2>2, <2>6, <2>7, <2>8
  <1>5. QED BY <1>2, <1>3, <1>4

\* What is said first stays a prefix.
LEMMA PrefixConcat ==
    ASSUME NEW S, NEW a \in Seq(S), NEW b \in Seq(S)
    PROVE  IsPrefix(a, a \o b)
  <1>1. PICK c \in Seq(S) : c = a \o b
    BY ConcatProperties
  <1>2. Len(c) = Len(a) + Len(b) /\ \A k \in 1 .. Len(a) : c[k] = a[k]
    <2>1. Len(a) \in Nat /\ Len(b) \in Nat
      OBVIOUS
    <2>2. \A k \in 1 .. Len(a) + Len(b) : c[k] = IF k <= Len(a) THEN a[k] ELSE b[k - Len(a)]
      BY <1>1, ConcatProperties
    <2>3. QED BY <1>1, <2>1, <2>2, ConcatProperties
  <1>3. Len(a) <= Len(c)
    BY <1>2
  <1>4. SubSeq(a, 1, Len(a)) = SubSeq(c, 1, Len(a))
    <2>1. PICK m \in Nat : m = Len(a)
      OBVIOUS
    <2>2. PICK x \in Seq(S) : x = SubSeq(a, 1, m) /\ Len(x) = m /\ \A k \in 1 .. m : x[k] = a[k]
      <3>1. SubSeq(a, 1, m) \in Seq(S) /\ Len(SubSeq(a, 1, m)) = m /\ \A k \in 1 .. m : SubSeq(a, 1, m)[k] = a[k]
        BY <2>1
      <3>2. QED BY <3>1
    <2>3. PICK y \in Seq(S) : y = SubSeq(c, 1, m) /\ Len(y) = m /\ \A k \in 1 .. m : y[k] = c[k]
      <3>1. SubSeq(c, 1, m) \in Seq(S) /\ Len(SubSeq(c, 1, m)) = m /\ \A k \in 1 .. m : SubSeq(c, 1, m)[k] = c[k]
        BY <1>3, <2>1
      <3>2. QED BY <3>1
    <2>4. x = y
      BY <1>2, <2>1, <2>2, <2>3, SeqEqual
    <2>5. QED BY <2>1, <2>2, <2>3, <2>4
  <1>5. QED BY <1>1, <1>3, <1>4 DEF IsPrefix

\* The characters of a writer, entry by entry.
Shown1 == Glyph \cup {"BS", Space}
Taken(p, e, s) == IF e.p = p /\ e.c \notin Calls THEN Append(s, e.c) ELSE s
LEMMA TakenOK ==
    ASSUME NEW p, NEW e \in Entry, NEW s \in Seq(Shown1)
    PROVE  Taken(p, e, s) \in Seq(Shown1)
  <1>1. e.c \notin Calls => e.c \in Shown1
    BY DEF Entry, Shown1
  <1>2. CASE e.p = p /\ e.c \notin Calls
    BY <1>1, <1>2, AppendProperties DEF Taken
  <1>3. CASE ~ (e.p = p /\ e.c \notin Calls)
    BY <1>3 DEF Taken
  <1>4. QED BY <1>2, <1>3

Takes(s, p, list, m) ==
    /\ s[0] = <<>>
    /\ \A k \in 1 .. m : s[k] = Taken(p, list[k], s[k - 1])
    /\ \A k \in 0 .. m : s[k] \in Seq(Shown1)
LEMMA CharsTrace ==
    ASSUME NEW p, NEW list \in Seq(Entry), NEW m \in Nat, m = Len(list)
    PROVE  \E s : Chars(p, list) = s[m] /\ Takes(s, p, list, m)
  <1> DEFINE Body(s) == [k \in 0 .. m |-> IF k = 0 THEN <<>> ELSE Taken(p, list[k], s[k - 1])]
             q == CHOOSE s : s = Body(s)
  <1>1. Chars(p, list) = q[m]
    BY DEF Chars, Taken
  <1>0. \A k \in 1 .. m : list[k] \in Entry
    OBVIOUS
  <1>2. PICK S : S = Seq(Shown1)
    OBVIOUS
  <1>3. PICK f : f = [at \in (1 .. m) \X S |-> Taken(p, list[at[1]], at[2])]
    OBVIOUS
  <1>4. f \in [(1 .. m) \X S -> S]
    <2>1. ASSUME NEW at \in (1 .. m) \X S PROVE Taken(p, list[at[1]], at[2]) \in S
      <3>1. list[at[1]] \in Entry /\ at[2] \in Seq(Shown1)
        BY <1>0, <1>2
      <3>2. QED BY <1>2, <3>1, TakenOK
    <2>2. QED BY <1>3, <2>1
  <1>5. <<>> \in S
    BY <1>2
  <1>6. PICK h \in [0 .. m -> S] : Follows(h, <<>>, f, m)
    BY <1>4, <1>5, Recursion
  <1>7. ASSUME NEW k \in 1 .. m PROVE h[k] = Taken(p, list[k], h[k - 1])
    <2>1. k - 1 \in 0 .. m
      OBVIOUS
    <2>2. <<k, h[k - 1]>> \in (1 .. m) \X S
      BY <2>1
    <2>3. f[<<k, h[k - 1]>>] = Taken(p, list[k], h[k - 1])
      BY <1>3, <2>2
    <2>4. QED BY <1>6, <2>3 DEF Follows
  <1>8. \A k \in 0 .. m : h[k] = IF k = 0 THEN <<>> ELSE Taken(p, list[k], h[k - 1])
    <2>1. h[0] = <<>>
      BY <1>6 DEF Follows
    <2>2. \A k \in 0 .. m : k # 0 => k \in 1 .. m
      OBVIOUS
    <2>3. QED BY <1>7, <2>1, <2>2, Zenon
  <1>9. h = Body(h)
    <2> DEFINE b == Body(h)
    <2>1. \A k \in 0 .. m : b[k] = IF k = 0 THEN <<>> ELSE Taken(p, list[k], h[k - 1])
      OBVIOUS
    <2>2. DOMAIN b = 0 .. m /\ b = [k \in 0 .. m |-> b[k]] /\ h = [k \in 0 .. m |-> h[k]]
      OBVIOUS
    <2> HIDE DEF b
    <2>3. \A k \in 0 .. m : b[k] = h[k]
      BY <1>8, <2>1
    <2>4. h = b
      BY <2>2, <2>3
    <2>5. QED BY <2>4 DEF b
  <1>10. q = Body(q)
    <2> HIDE DEF Body
    <2>1. QED BY <1>9, Zenon
  <1> HIDE DEF q
  <1>11. q[0] = <<>> /\ \A k \in 1 .. m : q[k] = Taken(p, list[k], q[k - 1])
    <2>1. \A k \in 0 .. m : Body(q)[k] = IF k = 0 THEN <<>> ELSE Taken(p, list[k], q[k - 1])
      OBVIOUS
    <2> HIDE DEF Body
    <2>2. \A k \in 0 .. m : q[k] = IF k = 0 THEN <<>> ELSE Taken(p, list[k], q[k - 1])
      BY <1>10, <2>1, Zenon
    <2>3. 0 \in 0 .. m /\ \A k \in 1 .. m : k \in 0 .. m /\ k # 0
      OBVIOUS
    <2>4. QED BY <2>2, <2>3
  <1>12. \A k \in 0 .. m : q[k] \in Seq(Shown1)
    <2> DEFINE T == {k \in Nat : k <= m => q[k] \in Seq(Shown1)}
    <2>1. 0 \in T
      <3>1. <<>> \in Seq(Shown1)
        OBVIOUS
      <3>2. QED BY <1>11, <3>1
    <2>2. ASSUME NEW k \in Nat, k \in T PROVE k + 1 \in T
      <3>1. ASSUME k + 1 <= m PROVE q[k + 1] \in Seq(Shown1)
        <4>1. k + 1 \in 1 .. m /\ (k + 1) - 1 = k /\ q[k] \in Seq(Shown1)
          BY <2>2, <3>1
        <4>2. q[k + 1] = Taken(p, list[k + 1], q[k])
          BY <1>11, <4>1
        <4>3. QED BY <1>0, <4>1, <4>2, TakenOK
      <3>2. QED BY <3>1
    <2> HIDE DEF T
    <2>3. Nat \subseteq T
      BY <2>1, <2>2, Induction
    <2>4. QED BY <2>3 DEF T
  <1>13. QED BY <1>1, <1>11, <1>12 DEF Takes

LEMMA CharsNone ==
    ASSUME NEW p
    PROVE  Chars(p, <<>>) = <<>>
  <1>1. PICK none \in Seq(Entry) : none = <<>> /\ Len(none) = 0
    <2>1. <<>> \in Seq(Entry) /\ Len(<<>>) = 0
      OBVIOUS
    <2>2. QED BY <2>1
  <1>2. PICK m \in Nat : m = 0 /\ m = Len(none)
    BY <1>1
  <1>3. PICK s : Chars(p, none) = s[m] /\ Takes(s, p, none, m)
    BY <1>2, CharsTrace
  <1>4. QED BY <1>1, <1>2, <1>3 DEF Takes

LEMMA CharsAppend ==
    ASSUME NEW p, NEW list \in Seq(Entry), NEW e \in Entry
    PROVE  /\ Chars(p, list) \in Seq(Shown1)
           /\ Chars(p, Append(list, e)) = Taken(p, e, Chars(p, list))
  <1>1. PICK m \in Nat : m = Len(list)
    OBVIOUS
  <1>2. PICK j \in Nat : j = m + 1
    OBVIOUS
  <1>3. PICK more \in Seq(Entry) :
           more = Append(list, e) /\ j = Len(more) /\ more[j] = e /\ \A k \in 1 .. m : more[k] = list[k]
    <2>1. /\ Append(list, e) \in Seq(Entry) /\ Len(Append(list, e)) = Len(list) + 1
          /\ Append(list, e)[Len(list) + 1] = e
          /\ \A k \in 1 .. Len(list) : Append(list, e)[k] = list[k]
      BY AppendProperties
    <2>2. QED BY <1>1, <1>2, <2>1
  <1>4. PICK s : Chars(p, list) = s[m] /\ Takes(s, p, list, m)
    BY <1>1, CharsTrace
  <1>5. PICK q : Chars(p, more) = q[j] /\ Takes(q, p, more, j)
    BY <1>3, CharsTrace
  <1>6. ASSUME NEW k \in 1 .. m, s[k - 1] = q[k - 1] PROVE s[k] = q[k]
    <2>1. k \in 1 .. j
      BY <1>2
    <2>2. s[k] = Taken(p, list[k], s[k - 1])
      BY <1>4 DEF Takes
    <2>3. q[k] = Taken(p, more[k], q[k - 1])
      BY <1>5, <2>1 DEF Takes
    <2>4. QED BY <1>3, <1>6, <2>2, <2>3
  <1>7. s[0] = q[0]
    BY <1>4, <1>5 DEF Takes
  <1>8. \A k \in 0 .. m : s[k] = q[k]
    <2>1. Alike(s, q, m)
      BY <1>6, <1>7 DEF Alike
    <2>2. QED BY <2>1, SameFollows
  <1>9. j \in 1 .. j /\ j - 1 = m /\ m \in 0 .. m
    BY <1>2
  <1>10. q[j] = Taken(p, more[j], q[m])
    BY <1>5, <1>9 DEF Takes
  <1>11. Chars(p, list) \in Seq(Shown1)
    BY <1>4, <1>9 DEF Takes
  <1>12. QED BY <1>3, <1>4, <1>5, <1>8, <1>9, <1>10, <1>11

-----------------------------------------------------------------------------
(* How far a writer has come in its format.                                *)

\* It took d tokens and goes on, or it left at the last of them.
Going(how, fmt, rest, d) ==
    rest = SubSeq(fmt, d + 1, Len(fmt)) /\ \A k \in 1 .. d : ~ Leaves(how, fmt[k])
GaveUp(how, fmt, rest, d) ==
    rest = <<>> /\ d >= 1 /\ Leaves(how, fmt[d]) /\ \A k \in 1 .. d - 1 : ~ Leaves(how, fmt[k])
Progress(how, fmt, rest, by, left, count) ==
    \E d \in 0 .. Len(fmt) :
       /\ Going(how, fmt, rest, d) \/ GaveUp(how, fmt, rest, d)
       /\ by \o left = Said(how, fmt, d) /\ count = Len(Said(how, fmt, d))
Counted(how, fmt, st) ==
    st # -1 => \E k \in DOMAIN fmt : fmt[k].c = "%" /\ fmt[k].t = "n" /\ st = Len(Said(how, fmt, k - 1))

LEMMA SaidAll ==
    ASSUME NEW how, NEW fmt \in Seq(Token), NEW d \in 0 .. Len(fmt)
    PROVE  Said(how, fmt, d) \in Seq(Glyph) /\ Said(how, fmt, d) \in Seq(Shown1)
  <1>1. d \in Nat /\ d <= Len(fmt)
    OBVIOUS
  <1>2. Said(how, fmt, d) \in Seq(Glyph)
    BY <1>1, SaidFacts
  <1>3. Glyph \subseteq Shown1
    BY DEF Shown1
  <1>4. QED BY <1>2, <1>3

\* The next token of the format.
LEMMA ProgressToken ==
    ASSUME NEW how, NEW fmt \in Seq(Token), NEW rest, rest # <<>>, NEW by \in Seq(Shown1), NEW count,
           Progress(how, fmt, rest, by, <<>>, count)
    PROVE  /\ Progress(how, fmt, IF Leaves(how, Head(rest)) THEN <<>> ELSE Tail(rest),
                       by, Shows(how, Head(rest)), count + Len(Shows(how, Head(rest))))
           /\ Head(rest).c = "%" /\ Head(rest).t = "n" => Counted(how, fmt, count)
           /\ count \in Nat
  <1>1. PICK d \in 0 .. Len(fmt) :
           /\ Going(how, fmt, rest, d) \/ GaveUp(how, fmt, rest, d)
           /\ by \o <<>> = Said(how, fmt, d) /\ count = Len(Said(how, fmt, d))
    BY DEF Progress
  <1>2. Going(how, fmt, rest, d)
    BY <1>1 DEF GaveUp
  <1>3. PICK m \in Nat : m = Len(fmt)
    OBVIOUS
  <1>4. rest = SubSeq(fmt, d + 1, m) /\ d \in Nat /\ d <= m
    BY <1>2, <1>3 DEF Going
  <1>5. d < m
    BY <1>3, <1>4
  <1>6. PICK e \in Nat : e = d + 1 /\ e <= m /\ e \in 1 .. m /\ e - 1 = d /\ e \in 0 .. Len(fmt)
    <2>1. d + 1 \in Nat /\ d + 1 <= m /\ d + 1 \in 1 .. m /\ (d + 1) - 1 = d /\ d + 1 \in 0 .. Len(fmt)
      BY <1>3, <1>4, <1>5
    <2>2. QED BY <2>1
  <1>7. Head(rest) = fmt[e] /\ Tail(rest) = SubSeq(fmt, e + 1, m)
    <2>1. rest = SubSeq(fmt, e, m)
      BY <1>4, <1>6
    <2>2. \A i \in e .. m : fmt[i] \in Token
      BY <1>3, <1>6
    <2>3. QED BY <1>6, <2>1, <2>2, HeadTailOfSubSeq
  <1>8. PICK tok \in Token : tok = fmt[e]
    BY <1>3, <1>6
  <1>9. PICK s \in Seq(Glyph) : s = Said(how, fmt, d)
    BY <1>1, SaidAll
  <1>10. PICK u \in Seq(Glyph) : u = Shows(how, tok)
    BY ShowsOK
  <1>11. by = s
    <2>1. by \o <<>> = by
      BY ConcatEmptySeq
    <2>2. QED BY <1>1, <1>9, <2>1
  <1>12. Said(how, fmt, e) = s \o u
    BY <1>3, <1>4, <1>6, <1>8, <1>9, <1>10, SaidFacts
  <1>13. Len(s \o u) = Len(s) + Len(u) /\ Len(s) \in Nat
    BY ConcatProperties
  <1>14. count + Len(u) = Len(Said(how, fmt, e)) /\ count \in Nat
    BY <1>1, <1>9, <1>12, <1>13
  <1>15. PICK tail : tail = IF Leaves(how, tok) THEN <<>> ELSE SubSeq(fmt, e + 1, m)
    OBVIOUS
  <1>16. Progress(how, fmt, tail, by, u, count + Len(u))
    <2>1. CASE Leaves(how, tok)
      <3>1. GaveUp(how, fmt, tail, e)
        BY <1>2, <1>6, <1>8, <1>15, <2>1 DEF GaveUp, Going
      <3>2. QED BY <1>6, <1>11, <1>12, <1>14, <3>1 DEF Progress
    <2>2. CASE ~ Leaves(how, tok)
      <3>1. \A k \in 1 .. e : k = e \/ k \in 1 .. d
        BY <1>6
      <3>2. Going(how, fmt, tail, e)
        BY <1>2, <1>3, <1>8, <1>15, <2>2, <3>1 DEF Going
      <3>3. QED BY <1>6, <1>11, <1>12, <1>14, <3>2 DEF Progress
    <2>3. QED BY <2>1, <2>2
  <1>17. ASSUME tok.c = "%", tok.t = "n" PROVE Counted(how, fmt, count)
    <2>1. e \in DOMAIN fmt
      BY <1>3, <1>6
    <2>2. count = Len(Said(how, fmt, e - 1))
      BY <1>1, <1>6
    <2>3. QED BY <1>8, <1>17, <2>1, <2>2 DEF Counted
  <1>18. Head(rest) = tok /\ Shows(how, Head(rest)) = u
    BY <1>7, <1>8, <1>10
  <1>19. tail = IF Leaves(how, Head(rest)) THEN <<>> ELSE Tail(rest)
    BY <1>7, <1>15, <1>18
  <1>20. QED BY <1>14, <1>16, <1>17, <1>18, <1>19

\* The next character of what is left.
LEMMA MoveHead ==
    ASSUME NEW S, NEW by \in Seq(S), NEW left \in Seq(S), left # <<>>
    PROVE  Append(by, Head(left)) \o Tail(left) = by \o left
  <1>1. PICK a \in S, r \in Seq(S) : a = Head(left) /\ r = Tail(left) /\ left = <<a>> \o r
    <2>1. Head(left) \in S /\ Tail(left) \in Seq(S)
      BY HeadTailProperties
    <2>2. left = <<Head(left)>> \o Tail(left)
      <3>1. PICK one \in Seq(S) : one = <<Head(left)>> /\ Len(one) = 1 /\ one[1] = Head(left)
        <4>1. <<Head(left)>> \in Seq(S) /\ Len(<<Head(left)>>) = 1 /\ <<Head(left)>>[1] = Head(left)
          BY <2>1
        <4>2. QED BY <4>1
      <3>2. PICK r \in Seq(S) : /\ r = Tail(left) /\ Len(r) = Len(left) - 1
                                /\ \A i \in 1 .. Len(r) : r[i] = left[i + 1]
        BY HeadTailProperties
      <3>3. PICK all \in Seq(S) : /\ all = one \o r /\ Len(all) = 1 + Len(r)
                                  /\ \A i \in 1 .. 1 + Len(r) : all[i] = IF i <= 1 THEN one[i] ELSE r[i - 1]
        <4>1. /\ one \o r \in Seq(S) /\ Len(one \o r) = Len(one) + Len(r)
              /\ \A i \in 1 .. Len(one) + Len(r) :
                    (one \o r)[i] = IF i <= Len(one) THEN one[i] ELSE r[i - Len(one)]
          BY ConcatProperties
        <4>2. QED BY <3>1, <4>1
      <3>4. Len(left) \in Nat /\ Len(left) = Len(all) /\ Head(left) = left[1]
        BY <3>2, <3>3
      <3>5. ASSUME NEW i \in 1 .. Len(left) PROVE left[i] = all[i]
        <4>1. CASE i = 1
          BY <3>1, <3>2, <3>3, <3>4, <4>1
        <4>2. CASE i # 1
          <5>1. i - 1 \in 1 .. Len(r) /\ (i - 1) + 1 = i /\ ~ (i <= 1) /\ i \in 1 .. 1 + Len(r)
            BY <3>2, <3>4, <4>2
          <5>2. QED BY <3>2, <3>3, <5>1
        <4>3. QED BY <4>1, <4>2
      <3>6. left = all
        BY <3>4, <3>5, SeqEqual
      <3>7. QED BY <3>1, <3>2, <3>3, <3>6
    <2>3. QED BY <2>1, <2>2
  <1>2. <<a>> \in Seq(S)
    OBVIOUS
  <1>3. Append(by, a) = by \o <<a>>
    BY AppendIsConcat
  <1>4. (by \o <<a>>) \o r = by \o (<<a>> \o r)
    BY <1>2, ConcatAssociative
  <1>5. QED BY <1>1, <1>3, <1>4

\* What is said later only adds.
LEMMA SaidMore ==
    ASSUME NEW how, NEW fmt \in Seq(Token), NEW d \in Nat, NEW last \in Nat, d <= last, last <= Len(fmt)
    PROVE  \E u \in Seq(Glyph) : Said(how, fmt, last) = Said(how, fmt, d) \o u
  <1>1. PICK s \in Seq(Glyph) : s = Said(how, fmt, d)
    <2>1. d <= Len(fmt)
      OBVIOUS
    <2>2. Said(how, fmt, d) \in Seq(Glyph)
      BY <2>1, SaidFacts
    <2>3. QED BY <2>2
  <1> DEFINE T == {j \in Nat : d + j <= Len(fmt) => \E u \in Seq(Glyph) : Said(how, fmt, d + j) = s \o u}
  <1>2. 0 \in T
    <2>1. s \o <<>> = s
      BY ConcatEmptySeq
    <2>2. d + 0 = d /\ <<>> \in Seq(Glyph)
      OBVIOUS
    <2>3. QED BY <1>1, <2>1, <2>2
  <1>3. ASSUME NEW j \in Nat, j \in T PROVE j + 1 \in T
    <2>1. ASSUME d + (j + 1) <= Len(fmt) PROVE \E u \in Seq(Glyph) : Said(how, fmt, d + (j + 1)) = s \o u
      <3>1. PICK m \in Nat : m = d + j /\ m <= Len(fmt) /\ m + 1 <= Len(fmt) /\ m + 1 = d + (j + 1) /\ m + 1 \in 1 .. Len(fmt)
        <4>1. /\ d + j \in Nat /\ d + j <= Len(fmt) /\ (d + j) + 1 <= Len(fmt) /\ (d + j) + 1 = d + (j + 1)
              /\ (d + j) + 1 \in 1 .. Len(fmt)
          BY <2>1
        <4>2. QED BY <4>1
      <3>2. PICK u \in Seq(Glyph) : Said(how, fmt, m) = s \o u
        BY <1>3, <3>1
      <3>3. PICK w \in Seq(Glyph) : w = Shows(how, fmt[m + 1])
        <4>1. fmt[m + 1] \in Token
          BY <3>1
        <4>2. QED BY <4>1, ShowsOK
      <3>4. Said(how, fmt, m + 1) = (s \o u) \o w
        BY <3>1, <3>2, <3>3, SaidFacts
      <3>5. (s \o u) \o w = s \o (u \o w) /\ u \o w \in Seq(Glyph)
        BY ConcatAssociative, ConcatProperties, SMTT(40)
      <3>6. QED BY <3>1, <3>4, <3>5
    <2>2. QED BY <2>1
  <1> HIDE DEF T
  <1>4. last - d \in T
    BY <1>2, <1>3, Induction
  <1>5. d + (last - d) = last
    OBVIOUS
  <1>6. QED BY <1>1, <1>4, <1>5 DEF T

-----------------------------------------------------------------------------
(* Every writer, in every interleaving.                                    *)

Fmt(p) == job.calls[p].fmt
WriterOK(p) ==
    /\ Progress(How(p), Fmt(p), todo[p], By(p), pend[p], n[p])
    /\ Counted(How(p), Fmt(p), stored[p])
PrintInv ==
    /\ ScreenInv /\ uart \in Seq(Glyph)
    /\ DOMAIN n = Writers /\ DOMAIN stored = Writers
    /\ \A p \in Writers : WriterOK(p)

\* What is wanted of a format: all of it, or what comes up to an unknown conversion.
LEMMA WantedIs ==
    ASSUME NEW how, NEW fmt \in Seq(Token), NEW rest, NEW d \in 0 .. Len(fmt),
           Going(how, fmt, rest, d) \/ GaveUp(how, fmt, rest, d)
    PROVE  \E last \in Nat :
              /\ Wanted(how, fmt) = Said(how, fmt, last) /\ d <= last /\ last <= Len(fmt)
              /\ rest = <<>> => last = d
  <1>1. PICK m \in Nat : m = Len(fmt) /\ DOMAIN fmt = 1 .. m
    OBVIOUS
  <1>2. PICK bad : bad = {k \in 1 .. m : Leaves(how, fmt[k])}
    OBVIOUS
  <1> DEFINE last == IF bad = {} THEN m ELSE CHOOSE k \in bad : \A j \in bad : k <= j
  <1>4. Wanted(how, fmt) = Said(how, fmt, last)
    BY <1>1, <1>2 DEF Wanted
  <1>5. CASE bad = {}
    <2>1. last = m
      BY <1>5
    <2> HIDE DEF last
    <2>2. ~ GaveUp(how, fmt, rest, d)
      <3>1. ASSUME GaveUp(how, fmt, rest, d) PROVE FALSE
        <4>1. d \in 1 .. m /\ Leaves(how, fmt[d])
          BY <1>1, <3>1 DEF GaveUp
        <4>2. QED BY <1>2, <1>5, <4>1
      <3>2. QED BY <3>1
    <2>3. rest = SubSeq(fmt, d + 1, m)
      BY <1>1, <2>2 DEF Going
    <2>4. rest = <<>> => d = m
      <3>1. ASSUME d # m PROVE rest # <<>>
        <4>1. d + 1 <= m /\ d + 1 \in Int /\ m \in Int /\ \A i \in d + 1 .. m : fmt[i] \in Token
          BY <1>1, <3>1
        <4>2. Len(SubSeq(fmt, d + 1, m)) = m - (d + 1) + 1
          BY <4>1, SubSeqProperties
        <4>3. Len(rest) = m - (d + 1) + 1 /\ Len(<<>>) = 0 /\ m - (d + 1) + 1 # 0
          BY <1>1, <2>3, <3>1, <4>2
        <4>4. QED BY <4>3
      <3>2. QED BY <3>1
    <2>5. QED BY <1>1, <1>4, <2>1, <2>4
  <1>6. CASE bad # {}
    <2>1. PICK x \in bad : \A j \in bad : x <= j
      <3>1. bad \in SUBSET Nat
        BY <1>2
      <3>2. QED BY <1>6, <3>1, LeastNatural
    <2>2. last \in bad /\ \A j \in bad : last <= j
      BY <1>6, <2>1
    <2> HIDE DEF last
    <2>3. last \in 1 .. m /\ Leaves(how, fmt[last])
      BY <1>2, <2>2
    <2>4. CASE Going(how, fmt, rest, d)
      <3>1. \A k \in 1 .. d : ~ Leaves(how, fmt[k])
        BY <2>4 DEF Going
      <3>2. d < last
        BY <1>1, <2>3, <3>1
      <3>3. d + 1 <= m /\ d + 1 \in Int /\ m \in Int /\ \A i \in d + 1 .. m : fmt[i] \in Token
        BY <1>1, <2>3, <3>2
      <3>4. Len(SubSeq(fmt, d + 1, m)) = m - (d + 1) + 1
        BY <3>3, SubSeqProperties
      <3>5. Len(rest) = m - (d + 1) + 1 /\ Len(<<>>) = 0 /\ m - (d + 1) + 1 # 0
        BY <1>1, <2>4, <3>3, <3>4 DEF Going
      <3>6. rest # <<>>
        BY <3>5
      <3>7. QED BY <1>1, <1>4, <2>3, <3>2, <3>6
    <2>5. CASE GaveUp(how, fmt, rest, d)
      <3>1. d \in 1 .. m /\ Leaves(how, fmt[d]) /\ \A k \in 1 .. d - 1 : ~ Leaves(how, fmt[k])
        BY <1>1, <2>5 DEF GaveUp
      <3>2. last <= d
        BY <1>2, <2>2, <3>1
      <3>3. last \notin 1 .. d - 1
        BY <2>3, <3>1
      <3>4. last = d
        BY <2>3, <3>1, <3>2, <3>3
      <3>5. QED BY <1>1, <1>4, <2>3, <3>4
    <2>6. QED BY <2>4, <2>5
  <1>7. QED BY <1>5, <1>6

\* What a writer put out is the beginning of what is wanted, and in the end all of it.
LEMMA ProgressExact ==
    ASSUME NEW how, NEW fmt \in Seq(Token), NEW rest, NEW by \in Seq(Shown1), NEW left \in Seq(Glyph), NEW count,
           Progress(how, fmt, rest, by, left, count)
    PROVE  /\ IsPrefix(by, Wanted(how, fmt))
           /\ rest = <<>> /\ left = <<>> => by = Wanted(how, fmt)
  <1>1. PICK d \in 0 .. Len(fmt) :
           /\ Going(how, fmt, rest, d) \/ GaveUp(how, fmt, rest, d)
           /\ by \o left = Said(how, fmt, d)
    BY DEF Progress
  <1>2. PICK last \in Nat :
           /\ Wanted(how, fmt) = Said(how, fmt, last) /\ d <= last /\ last <= Len(fmt)
           /\ rest = <<>> => last = d
    BY <1>1, WantedIs
  <1>3. d \in Nat
    OBVIOUS
  <1>4. PICK u \in Seq(Glyph) : Said(how, fmt, last) = Said(how, fmt, d) \o u
    BY <1>2, <1>3, SaidMore
  <1>5. u \in Seq(Shown1) /\ left \in Seq(Shown1)
    <2>1. Glyph \subseteq Shown1
      BY DEF Shown1
    <2>2. QED BY <2>1
  <1>6. Wanted(how, fmt) = by \o (left \o u) /\ left \o u \in Seq(Shown1)
    <2>1. (by \o left) \o u = by \o (left \o u)
      BY <1>5, ConcatAssociative, SMTT(40)
    <2>2. left \o u \in Seq(Shown1)
      BY <1>5, ConcatProperties, SMTT(40)
    <2>3. QED BY <1>1, <1>2, <1>4, <2>1, <2>2
  <1>7. IsPrefix(by, Wanted(how, fmt))
    BY <1>6, PrefixConcat
  <1>8. ASSUME rest = <<>>, left = <<>> PROVE by = Wanted(how, fmt)
    <2>1. by \o <<>> = by
      BY ConcatEmptySeq
    <2>2. QED BY <1>1, <1>2, <1>8, <2>1
  <1>9. QED BY <1>7, <1>8

\* The types of what a writer put out and has left.
LEMMA WriterTypes ==
    ASSUME PrintInv, NEW p \in Writers
    PROVE  /\ p \in Nat /\ p # 0 /\ Fmt(p) \in Seq(Token) /\ By(p) \in Seq(Shown1)
           /\ pend[p] \in Seq(Glyph) /\ out \in Seq(Entry) /\ CursorInv
  <1>1. /\ CursorInv /\ job \in Jobs /\ pend \in [Writers -> Seq(Glyph)] /\ out \in Seq(Entry)
        /\ uart \in Seq(Glyph)
    BY DEF PrintInv, ScreenInv, CursorInv
  <1>2. p \in Nat /\ p # 0 /\ Fmt(p) \in Seq(Token)
    BY <1>1, CallFacts DEF Fmt
  <1>3. uart \in Seq(Shown1)
    <2>1. Glyph \subseteq Shown1
      BY DEF Shown1
    <2>2. QED BY <1>1, <2>1
  <1>4. Chars(p, out) \in Seq(Shown1)
    <2>1. PICK e : e \in Entry
      BY CharEntry
    <2>2. QED BY <1>1, <2>1, CharsAppend
  <1>5. By(p) \in Seq(Shown1)
    BY <1>3, <1>4 DEF By
  <1>6. QED BY <1>1, <1>2, <1>5

\* A writer whose own state stays as it is goes on as it was.
LEMMA WriterFrame ==
    ASSUME NEW q, WriterOK(q), job' = job, (todo[q])' = todo[q], (pend[q])' = pend[q], (n[q])' = n[q],
           (stored[q])' = stored[q], By(q)' = By(q)
    PROVE  WriterOK(q)'
  <1>1. How(q)' = How(q) /\ Fmt(q)' = Fmt(q)
    BY DEF How, Fmt
  <1>2. QED BY <1>1 DEF WriterOK

LEMMA PrintInit == Init => PrintInv
  <1> SUFFICES ASSUME Init PROVE PrintInv
    OBVIOUS
  <1>1. ScreenInv
    BY ScreenInit
  <1>2. /\ todo = [p \in Writers |-> Fmt(p)] /\ pend = [p \in Writers |-> <<>>]
        /\ n = [p \in Writers |-> 0] /\ stored = [p \in Writers |-> -1] /\ out = <<>> /\ uart = <<>>
    BY DEF Init, Fmt
  <1>3. ASSUME NEW p \in Writers PROVE WriterOK(p)
    <2>1. Fmt(p) \in Seq(Token)
      BY <1>1, CallFacts DEF ScreenInv, CursorInv, Fmt
    <2>2. todo[p] = Fmt(p) /\ pend[p] = <<>> /\ n[p] = 0 /\ stored[p] = -1
      BY <1>2
    <2>3. By(p) = <<>>
      BY <1>2, CharsNone DEF By
    <2>4. PICK h, f : h = How(p) /\ f = Fmt(p) /\ f \in Seq(Token)
      BY <2>1
    <2>5. PICK z \in Nat : z = 0 /\ z \in 0 .. Len(f) /\ z <= Len(f)
      <3>1. 0 \in Nat /\ 0 \in 0 .. Len(f) /\ 0 <= Len(f)
        BY <2>4
      <3>2. QED BY <3>1
    <2>6. Said(h, f, z) = <<>>
      BY <2>4, <2>5, SaidFacts
    <2>7. Going(h, f, f, z)
      <3>1. SubSeq(f, 1, Len(f)) = f
        BY <2>4
      <3>2. QED BY <2>5, <3>1 DEF Going
    <2>8. <<>> \o <<>> = <<>> /\ Len(<<>>) = 0
      OBVIOUS
    <2>9. Progress(h, f, f, <<>>, <<>>, 0)
      BY <2>5, <2>6, <2>7, <2>8 DEF Progress
    <2>10. Counted(h, f, -1)
      BY DEF Counted
    <2>11. QED BY <2>2, <2>3, <2>4, <2>9, <2>10 DEF WriterOK
  <1>4. uart \in Seq(Glyph) /\ DOMAIN n = Writers /\ DOMAIN stored = Writers
    BY <1>2, TextsOK
  <1>5. QED BY <1>1, <1>3, <1>4 DEF PrintInv

\* Between two characters of any writer: kmain, and the echo of nobody.
LEMMA PrintOthers ==
    ASSUME PrintInv,
           \/ KmainDark \/ KmainChar \/ KmainAdvance \/ KmainNewline \/ KmainWrap \/ KmainScroll \/ StartProcs
           \/ (\E p \in Writers : FbNull(p)) \/ UNCHANGED vars
    PROVE  PrintInv'
  <1>1. ScreenInv'
    BY ScreenStep DEF PrintInv, Next
  <1>2. UNCHANGED <<job, todo, pend, n, stored, out, uart>>
    BY DEF KmainDark, KmainChar, KmainAdvance, KmainNewline, KmainWrap, KmainScroll, StartProcs, Kmain, FbNull,
           writers, vars
  <1>3. Writers' = Writers
    BY <1>2 DEF Writers
  <1>4. ASSUME NEW q \in Writers PROVE WriterOK(q)'
    <2>1. By(q)' = By(q)
      BY <1>2 DEF By, How
    <2>2. WriterOK(q)
      BY DEF PrintInv
    <2>3. QED BY <1>2, <2>1, <2>2, WriterFrame
  <1>5. QED BY <1>1, <1>2, <1>3, <1>4 DEF PrintInv

LEMMA PrintEcho ==
    ASSUME PrintInv, tty_input
    PROVE  PrintInv'
  <1>1. ScreenInv'
    BY ScreenEcho DEF PrintInv
  <1>2. UNCHANGED <<job, todo, pend, n, stored, uart>>
    BY DEF tty_input, writers
  <1>3. Writers' = Writers
    BY <1>2 DEF Writers
  <1>4. ASSUME NEW q \in Writers PROVE WriterOK(q)'
    <2>1. out \in Seq(Entry) /\ q # 0
      BY WriterTypes
    <2>2. Chars(q, out)' = Chars(q, out)
      <3>1. CASE kpc # "procs"
        <4>1. out' = out
          BY <3>1 DEF tty_input
        <4>2. QED BY <4>1
      <3>2. CASE kpc = "procs"
        <4>1. out' = out \o [k \in 1 .. 3 |-> Char(0, Echo[k])]
          BY <3>2 DEF tty_input
        <4>2. PICK x, y, z \in Entry :
                 /\ x = Char(0, Echo[1]) /\ y = Char(0, Echo[2]) /\ z = Char(0, Echo[3])
                 /\ out' = Append(Append(Append(out, x), y), z)
          BY <2>1, <4>1, EchoOut
        <4>3. x.p = 0 /\ y.p = 0 /\ z.p = 0
          BY <4>2 DEF Char
        <4>4. \A s : Taken(q, x, s) = s /\ Taken(q, y, s) = s /\ Taken(q, z, s) = s
          BY <2>1, <4>3 DEF Taken
        <4>5. PICK o1 \in Seq(Entry) : o1 = Append(out, x)
          BY <2>1, AppendProperties
        <4>6. PICK o2 \in Seq(Entry) : o2 = Append(o1, y)
          BY AppendProperties
        <4>7. Chars(q, o1) = Chars(q, out)
          BY <2>1, <4>4, <4>5, CharsAppend
        <4>8. Chars(q, o2) = Chars(q, o1)
          BY <4>4, <4>6, CharsAppend
        <4>9. Chars(q, Append(o2, z)) = Chars(q, o2)
          BY <4>4, CharsAppend
        <4>10. out' = Append(o2, z)
          BY <4>2, <4>5, <4>6
        <4>11. QED BY <4>7, <4>8, <4>9, <4>10
      <3>3. QED BY <3>1, <3>2
    <2>3. By(q)' = By(q)
      BY <1>2, <2>2 DEF By, How
    <2>4. WriterOK(q)
      BY DEF PrintInv
    <2>5. QED BY <1>2, <2>3, <2>4, WriterFrame
  <1>5. QED BY <1>1, <1>2, <1>3, <1>4 DEF PrintInv

\* The writer itself, at a token: of a format, or a call of its own.
LEMMA PrintToken ==
    ASSUME PrintInv, NEW p \in Writers, NextToken(p) \/ FbCall(p)
    PROVE  PrintInv'
  <1>1. ScreenInv'
    BY ScreenWriter DEF PrintInv
  <1>2. UNCHANGED <<job, uart>> /\ Writers' = Writers /\ pend[p] = <<>> /\ todo[p] # <<>>
    BY DEF NextToken, FbCall, Writers
  <1>3. /\ Fmt(p) \in Seq(Token) /\ By(p) \in Seq(Shown1) /\ out \in Seq(Entry) /\ CursorInv /\ p \in Nat /\ p # 0
        /\ DOMAIN todo = Writers /\ DOMAIN pend = Writers /\ DOMAIN n = Writers /\ DOMAIN stored = Writers
    BY WriterTypes DEF PrintInv, ScreenInv, CursorInv
  <1>4. PICK tok, tail : tok \in Token /\ tok = Head(todo[p]) /\ tail = Tail(todo[p])
    BY <1>2, <1>3, NextFacts
  <1>5. PICK h, f : h = How(p) /\ f = Fmt(p)
    OBVIOUS
  <1>6. /\ Progress(h, f, IF Leaves(h, tok) THEN <<>> ELSE tail, By(p), Shows(h, tok), n[p] + Len(Shows(h, tok)))
        /\ tok.c = "%" /\ tok.t = "n" => Counted(h, f, n[p])
        /\ n[p] \in Nat
    <2>1. Progress(h, f, todo[p], By(p), <<>>, n[p])
      BY <1>2, <1>5 DEF PrintInv, WriterOK
    <2>2. QED BY <1>2, <1>3, <1>4, <1>5, <2>1, ProgressToken
  <1>7. Counted(h, f, stored[p])
    BY <1>5 DEF PrintInv, WriterOK
  <1>8. How(p)' = h /\ Fmt(p)' = f
    BY <1>2, <1>5 DEF How, Fmt
  <1>9. /\ \A q \in Writers : By(q)' = By(q)
        /\ todo' = [todo EXCEPT ![p] = IF Leaves(h, tok) THEN <<>> ELSE tail]
        /\ pend'[p] = Shows(h, tok) /\ n'[p] = n[p] + Len(Shows(h, tok))
        /\ DOMAIN n' = Writers /\ DOMAIN stored' = Writers
        /\ \A q \in Writers : q # p => pend'[q] = pend[q] /\ n'[q] = n[q] /\ stored'[q] = stored[q]
        /\ stored'[p] = stored[p] \/ (tok.c = "%" /\ tok.t = "n" /\ stored'[p] = n[p])
    <2>1. CASE NextToken(p)
      <3>1. tok.c \notin Calls /\ out' = out
        BY <1>4, <2>1 DEF NextToken
      <3>2. Printed(h, tok, Convert) = Shows(h, tok)
        BY <1>4, <3>1, PrintedIs DEF Shows
      <3>3. PrintCount(h, tok) = Len(Shows(h, tok))
        BY <3>2 DEF PrintCount
      <3>4. \A q \in Writers : By(q)' = By(q)
        BY <1>2, <3>1 DEF By, How
      <3>5. todo' = [todo EXCEPT ![p] = IF Leaves(h, tok) THEN <<>> ELSE tail]
        BY <1>4, <1>5, <2>1 DEF NextToken
      <3>6. /\ pend'[p] = Shows(h, tok) /\ n'[p] = n[p] + Len(Shows(h, tok)) /\ DOMAIN n' = Writers
            /\ \A q \in Writers : q # p => pend'[q] = pend[q] /\ n'[q] = n[q]
        <4>1. pend' = [pend EXCEPT ![p] = Printed(h, tok, Convert)] /\ n' = [n EXCEPT ![p] = n[p] + PrintCount(h, tok)]
          BY <1>4, <1>5, <2>1 DEF NextToken
        <4>2. QED BY <1>3, <3>2, <3>3, <4>1
      <3>7. stored' = IF tok.c = "%" /\ tok.t = "n" /\ h # "vkprintf" THEN [stored EXCEPT ![p] = n[p]] ELSE stored
        BY <1>4, <1>5, <2>1 DEF NextToken
      <3>8. /\ DOMAIN stored' = Writers
            /\ \A q \in Writers : q # p => stored'[q] = stored[q]
            /\ stored'[p] = stored[p] \/ (tok.c = "%" /\ tok.t = "n" /\ stored'[p] = n[p])
        BY <1>3, <3>7
      <3>9. QED BY <3>4, <3>5, <3>6, <3>8
    <2>2. CASE FbCall(p)
      <3>1. tok.c \in Calls /\ UNCHANGED <<pend, n, stored>> /\ todo' = [todo EXCEPT ![p] = tail]
        BY <1>4, <2>2 DEF FbCall
      <3>2. Shows(h, tok) = <<>> /\ ~ Leaves(h, tok)
        BY <3>1 DEF Shows, Leaves, Calls
      <3>3. PICK e : e = [p |-> p, c |-> tok.c, at |-> tok.at] /\ e \in Entry /\ e.c \in Calls
        <4>1. [p |-> p, c |-> tok.c, at |-> tok.at] \in Entry
          BY <1>3, <1>4, <3>1 DEF Entry, Token
        <4>2. QED BY <3>1, <4>1
      <3>4. out' = Append(out, e)
        BY <1>4, <2>2, <3>3 DEF FbCall
      <3>5. ASSUME NEW q \in Writers PROVE By(q)' = By(q)
        <4>1. Chars(q, Append(out, e)) = Chars(q, out)
          BY <1>3, <3>3, CharsAppend DEF Taken
        <4>2. Chars(q, out)' = Chars(q, out)
          BY <3>4, <4>1
        <4>3. QED BY <1>2, <4>2 DEF By, How
      <3>7. n[p] + Len(<<>>) = n[p]
        BY <1>6
      <3>8. QED BY <1>2, <1>3, <3>1, <3>2, <3>5, <3>7
    <2>3. QED BY <2>1, <2>2
  <1>10. ASSUME NEW q \in Writers, q # p PROVE WriterOK(q)'
    <2>1. (todo[q])' = todo[q] /\ (pend[q])' = pend[q] /\ (n[q])' = n[q] /\ (stored[q])' = stored[q] /\ By(q)' = By(q)
      BY <1>3, <1>9, <1>10
    <2>2. WriterOK(q) /\ job' = job
      BY <1>2 DEF PrintInv
    <2>3. QED BY <2>1, <2>2, WriterFrame
  <1>11. WriterOK(p)'
    <2>1. /\ todo'[p] = IF Leaves(h, tok) THEN <<>> ELSE tail
          /\ pend'[p] = Shows(h, tok) /\ n'[p] = n[p] + Len(Shows(h, tok)) /\ By(p)' = By(p)
      BY <1>3, <1>9
    <2>2. Progress(h, f, todo'[p], By(p)', pend'[p], n'[p])
      BY <1>6, <2>1
    <2>3. Counted(h, f, stored'[p])
      BY <1>6, <1>7, <1>9
    <2>4. QED BY <1>8, <2>2, <2>3 DEF WriterOK
  <1>12. DOMAIN n' = Writers /\ DOMAIN stored' = Writers /\ uart' \in Seq(Glyph)
    BY <1>2, <1>3, <1>9 DEF PrintInv
  <1>13. QED BY <1>1, <1>2, <1>10, <1>11, <1>12 DEF PrintInv

\* At most one writer is the kernel's log.
LEMMA OneLog ==
    ASSUME job \in Jobs, NEW p \in Writers, NEW q \in Writers, How(p) = "vkprintf", How(q) = "vkprintf"
    PROVE  p = q
  BY ConsoleConstants DEF JobOK, How, Writers

\* The writer itself, at a character.
LEMMA PrintChar ==
    ASSUME PrintInv, NEW p \in Writers, putchar(p)
    PROVE  PrintInv'
  <1>1. ScreenInv'
    BY ScreenWriter DEF PrintInv
  <1>2. UNCHANGED <<job, todo, n, stored>> /\ Writers' = Writers /\ pend[p] # <<>>
    BY DEF putchar, Writers
  <1>3. /\ Fmt(p) \in Seq(Token) /\ By(p) \in Seq(Shown1) /\ out \in Seq(Entry) /\ p \in Nat /\ p # 0
        /\ DOMAIN pend = Writers /\ pend[p] \in Seq(Glyph) /\ pend[p] \in Seq(Shown1) /\ job \in Jobs
        /\ uart \in Seq(Glyph)
    <2>1. Glyph \subseteq Shown1
      BY DEF Shown1
    <2>2. QED BY <2>1, WriterTypes DEF PrintInv, ScreenInv, CursorInv
  <1>4. PICK c \in Glyph : c = Head(pend[p])
    BY <1>2, <1>3, HeadTailProperties
  <1>5. pend' = [pend EXCEPT ![p] = Tail(pend[p])]
    BY DEF putchar
  <1>6. By(p)' = Append(By(p), c) /\ uart' \in Seq(Glyph) /\ \A q \in Writers : q # p => By(q)' = By(q)
    <2>1. CASE How(p) = "vkprintf"
      <3>1. uart' = Append(uart, c) /\ out' = out
        BY <1>4, <2>1 DEF putchar
      <3>2. By(p)' = Append(By(p), c)
        BY <1>2, <2>1, <3>1 DEF By, How
      <3>3. ASSUME NEW q \in Writers, q # p PROVE By(q)' = By(q)
        <4>1. How(q) # "vkprintf"
          BY <1>3, <2>1, <3>3, OneLog
        <4>2. QED BY <1>2, <3>1, <4>1 DEF By, How
      <3>4. uart' \in Seq(Glyph)
        BY <1>3, <3>1, AppendProperties
      <3>5. QED BY <3>2, <3>3, <3>4
    <2>2. CASE How(p) # "vkprintf"
      <3>1. out' = Append(out, Char(p, c)) /\ uart' = uart
        BY <1>4, <2>2 DEF putchar
      <3>2. PICK e \in Entry : e = Char(p, c) /\ e.c = c /\ e.c \notin Calls /\ e.p = p
        <4>1. Char(p, c) \in Entry /\ Char(p, c).c = c /\ c \notin Calls
          BY <1>3, CharEntry
        <4>2. Char(p, c).p = p
          BY DEF Char
        <4>3. QED BY <4>1, <4>2
      <3>3. ASSUME NEW q \in Writers PROVE Chars(q, out)' = Taken(q, e, Chars(q, out))
        <4>1. Chars(q, Append(out, e)) = Taken(q, e, Chars(q, out))
          BY <1>3, CharsAppend
        <4>2. QED BY <3>1, <3>2, <4>1
      <3>4. Chars(p, out)' = Append(Chars(p, out), c)
        BY <3>2, <3>3 DEF Taken
      <3>5. \A q \in Writers : q # p => Chars(q, out)' = Chars(q, out)
        BY <3>2, <3>3 DEF Taken
      <3>6. By(p)' = Append(By(p), c)
        BY <1>2, <2>2, <3>4 DEF By, How
      <3>7. \A q \in Writers : q # p => By(q)' = By(q)
        BY <1>2, <3>1, <3>5 DEF By, How
      <3>8. QED BY <1>3, <3>1, <3>6, <3>7
    <2>3. QED BY <2>1, <2>2
  <1>7. ASSUME NEW q \in Writers, q # p PROVE WriterOK(q)'
    <2>1. (todo[q])' = todo[q] /\ (pend[q])' = pend[q] /\ (n[q])' = n[q] /\ (stored[q])' = stored[q] /\ By(q)' = By(q)
      BY <1>2, <1>3, <1>5, <1>6, <1>7
    <2>2. WriterOK(q) /\ job' = job
      BY <1>2 DEF PrintInv
    <2>3. QED BY <2>1, <2>2, WriterFrame
  <1>8. WriterOK(p)'
    <2>1. PICK h, f : h = How(p) /\ f = Fmt(p) /\ How(p)' = h /\ Fmt(p)' = f
      BY <1>2 DEF How, Fmt
    <2>2. Append(By(p), c) \o Tail(pend[p]) = By(p) \o pend[p]
      BY <1>2, <1>3, <1>4, MoveHead
    <2>3. pend'[p] = Tail(pend[p]) /\ todo'[p] = todo[p] /\ n'[p] = n[p] /\ stored'[p] = stored[p]
      BY <1>2, <1>3, <1>5
    <2>4. Progress(h, f, todo[p], By(p), pend[p], n[p]) /\ Counted(h, f, stored[p])
      BY <2>1 DEF PrintInv, WriterOK
    <2>5. Progress(h, f, todo[p], Append(By(p), c), Tail(pend[p]), n[p])
      BY <2>2, <2>4 DEF Progress
    <2>6. QED BY <1>6, <2>1, <2>3, <2>4, <2>5 DEF WriterOK
  <1>9. DOMAIN n' = Writers /\ DOMAIN stored' = Writers
    BY <1>2 DEF PrintInv
  <1>10. QED BY <1>1, <1>2, <1>6, <1>7, <1>8, <1>9 DEF PrintInv

LEMMA PrintStep == PrintInv /\ [Next]_vars => PrintInv'
  <1> SUFFICES ASSUME PrintInv, [Next]_vars PROVE PrintInv'
    OBVIOUS
  <1>1. CASE \/ KmainChar \/ KmainDark \/ KmainAdvance \/ KmainNewline \/ KmainWrap \/ KmainScroll \/ StartProcs
             \/ (\E p \in Writers : FbNull(p)) \/ UNCHANGED vars
    BY <1>1, PrintOthers
  <1>2. CASE tty_input
    BY <1>2, PrintEcho
  <1>3. CASE \E p \in Writers : NextToken(p) \/ FbCall(p)
    BY <1>3, PrintToken
  <1>4. CASE \E p \in Writers : putchar(p)
    BY <1>4, PrintChar
  <1>5. QED BY <1>1, <1>2, <1>3, <1>4 DEF Next

\* PrintsExact.  Whatever ticks and echoes come between its characters, what printf,
\* pprintf and vkprintf put out is the beginning of what the format means - numbers
\* in their shortest form, the lowest integer with its sign - and all of it once the
\* call returns, and %n has stored how long it was.
THEOREM PrintsAlwaysExact == Spec => []PrintsExact
  <1>1. PrintInv => PrintsExact
    <2> SUFFICES ASSUME PrintInv PROVE PrintsExact
      OBVIOUS
    <2>1. ASSUME NEW p \in Writers
          PROVE  /\ IsPrefix(By(p), Wanted(How(p), Fmt(p)))
                 /\ todo[p] = <<>> /\ pend[p] = <<>> => By(p) = Wanted(How(p), Fmt(p))
      <3>1. Progress(How(p), Fmt(p), todo[p], By(p), pend[p], n[p])
        BY DEF PrintInv, WriterOK
      <3>2. Fmt(p) \in Seq(Token) /\ By(p) \in Seq(Shown1) /\ pend[p] \in Seq(Glyph)
        BY WriterTypes
      <3>3. QED BY <3>1, <3>2, ProgressExact
    <2>2. OutputExact
      BY <2>1 DEF OutputExact, Fmt
    <2>3. CountExact
      BY DEF CountExact, PrintInv, WriterOK, Counted, Fmt
    <2>4. QED BY <2>2, <2>3 DEF PrintsExact
  <1>2. QED BY <1>1, PrintInit, PrintStep, PTL DEF Spec

-----------------------------------------------------------------------------
(* The pure routines.                                                      *)

\* One round of the division: s holds the top k bits of a divided by d.
Round(s, a, d, w, k) ==
    \E t, l, p, q \in Nat :
       /\ Pow(2, w) = p * q /\ p = Pow(2, k) /\ q = Pow(2, w - k)
       /\ a = t * q + l /\ l < q
       /\ s.n = l * p /\ s.q \in Nat /\ s.rem \in Nat
       /\ t = s.q * d + s.rem /\ s.rem < d /\ t < p

LEMMA PowSum ==
    ASSUME NEW a \in Nat, NEW b \in Nat
    PROVE  Pow(2, a) * Pow(2, b) = Pow(2, a + b)
  <1> DEFINE T == {k \in Nat : Pow(2, k) * Pow(2, b) = Pow(2, k + b)}
  <1>1. 0 \in T
    <2>1. PICK x \in Nat : x = Pow(2, b)
      BY PowFacts
    <2>2. Pow(2, 0) = 1 /\ 0 + b = b
      BY PowFacts
    <2>3. 1 * x = x
      OBVIOUS
    <2>4. Pow(2, 0) * Pow(2, b) = Pow(2, 0 + b)
      BY <2>1, <2>2, <2>3
    <2>5. QED BY <2>4
  <1>2. ASSUME NEW k \in Nat, k \in T PROVE k + 1 \in T
    <2>1. PICK x \in Nat, y \in Nat : x = Pow(2, k) /\ y = Pow(2, b)
      BY PowFacts
    <2>2. PICK i \in Nat : i = k + b /\ (k + 1) + b = i + 1
      <3>1. k + b \in Nat /\ (k + 1) + b = (k + b) + 1
        OBVIOUS
      <3>2. QED BY <3>1
    <2>3. Pow(2, k + 1) = 2 * x
      BY <2>1, PowFacts
    <2>4. Pow(2, i + 1) = 2 * Pow(2, i)
      BY PowFacts
    <2>5. x * y = Pow(2, i)
      BY <1>2, <2>1, <2>2
    <2>6. (2 * x) * y = 2 * (x * y)
      OBVIOUS
    <2>7. Pow(2, k + 1) * Pow(2, b) = Pow(2, (k + 1) + b)
      BY <2>1, <2>2, <2>3, <2>4, <2>5, <2>6
    <2>8. QED BY <2>7
  <1> HIDE DEF T
  <1>3. a \in T
    BY <1>1, <1>2, Induction
  <1>4. QED BY <1>3 DEF T

\* What a number of the form b * s + m has above and below s.
LEMMA Parts ==
    ASSUME NEW s \in Nat \ {0}, NEW b \in Nat, NEW m \in Nat, m < s
    PROVE  (b * s + m) \div s = b /\ (b * s + m) % s = m
  <1>1. PICK v \in Nat : v = b * s + m
    OBVIOUS
  <1>2. (b + 1) * s = b * s + s /\ b * s \in Nat
    OBVIOUS
  <1>3. b * s <= v /\ v < (b + 1) * s
    BY <1>1, <1>2
  <1>4. v \div s \in b .. b + 1 - 1
    BY <1>3, SectionRange
  <1>5. v \div s = b
    BY <1>4
  <1>6. v % s = v - (v \div s) * s
    BY SectionOf
  <1>7. QED BY <1>1, <1>2, <1>5, <1>6

\* The comparison of the two words is the comparison of the numbers.
LEMMA AtLeastIs ==
    ASSUME NEW x \in Nat, NEW y \in Nat, NEW w \in Nat \ {0}
    PROVE  AtLeast(x, y, w) <=> x >= y
  <1>1. PICK p \in Nat \ {0} : p = Pow(2, w \div 2)
    <2>1. w \div 2 \in Nat
      OBVIOUS
    <2>2. QED BY <2>1, PowPositive
  <1>2. PICK a \in Nat, b \in Nat : a = x \div p /\ b = x % p /\ x = p * a + b /\ b < p
    <2>1. PICK h \in Nat : h = x \div p
      BY SectionOf
    <2>2. h * p <= x /\ x < h * p + p /\ x % p = x - h * p
      BY <2>1, SectionOf
    <2>3. PICK m \in Nat : m = p * h /\ m = h * p
      OBVIOUS
    <2>4. x - m \in Nat /\ x % p = x - m /\ x - m < p /\ x = m + (x - m)
      BY <2>2, <2>3
    <2>5. QED BY <2>1, <2>3, <2>4
  <1>3. PICK c \in Nat, e \in Nat : c = y \div p /\ e = y % p /\ y = p * c + e /\ e < p
    <2>1. PICK h \in Nat : h = y \div p
      BY SectionOf
    <2>2. h * p <= y /\ y < h * p + p /\ y % p = y - h * p
      BY <2>1, SectionOf
    <2>3. PICK m \in Nat : m = p * h /\ m = h * p
      OBVIOUS
    <2>4. y - m \in Nat /\ y % p = y - m /\ y - m < p /\ y = m + (y - m)
      BY <2>2, <2>3
    <2>5. QED BY <2>1, <2>3, <2>4
  <1>4. ASSUME NEW i \in Nat, NEW j \in Nat, i > j PROVE p * i >= p * j + p
    <2>1. PICK t \in Nat : i = j + 1 + t
      BY <1>4
    <2>2. p * i = p * j + p + p * t /\ p * t >= 0
      BY <2>1
    <2>3. QED BY <2>2
  <1>5. a > c => x >= y
    BY <1>2, <1>3, <1>4
  <1>6. a < c => x < y
    BY <1>2, <1>3, <1>4
  <1>7. a = c => (x >= y <=> b >= e)
    BY <1>2, <1>3
  <1>8. AtLeast(x, y, w) <=> (a > c \/ (a = c /\ b >= e))
    BY <1>1, <1>2, <1>3 DEF AtLeast, HighOf, LowOf
  <1>9. QED BY <1>5, <1>6, <1>7, <1>8

\* The divisor's top bit is clear: a round loses nothing.
LEMMA RoundStep ==
    ASSUME NEW w \in Nat \ {0}, NEW d \in Nat \ {0}, d <= Pow(2, w - 1), NEW k \in Nat, k < w,
           NEW a, NEW s, Round(s, a, d, w, k)
    PROVE  Round(DivStep(s, d, w), a, d, w, k + 1)
  <1>1. PICK t, l, p, q \in Nat :
           /\ Pow(2, w) = p * q /\ p = Pow(2, k) /\ q = Pow(2, w - k)
           /\ a = t * q + l /\ l < q
           /\ s.n = l * p /\ s.q \in Nat /\ s.rem \in Nat
           /\ t = s.q * d + s.rem /\ s.rem < d /\ t < p
    BY DEF Round
  <1>2. PICK sq, sr \in Nat : sq = s.q /\ sr = s.rem
    BY <1>1
  <1>3. PICK i \in Nat : i = w - (k + 1) /\ w - k = i + 1
    <2>1. w - (k + 1) \in Nat /\ w - k = (w - (k + 1)) + 1
      OBVIOUS
    <2>2. QED BY <2>1
  <1>4. PICK h \in Nat \ {0} : h = Pow(2, i) /\ q = 2 * h
    <2>1. Pow(2, i) \in Nat \ {0}
      BY PowPositive
    <2>2. Pow(2, i + 1) = 2 * Pow(2, i)
      BY PowFacts
    <2>3. QED BY <1>1, <1>3, <2>1, <2>2
  <1>5. PICK u \in Nat \ {0} : u = Pow(2, w - 1) /\ Pow(2, w) = 2 * u
    <2>1. PICK j \in Nat : j = w - 1 /\ j + 1 = w
      <3>1. w - 1 \in Nat /\ (w - 1) + 1 = w
        OBVIOUS
      <3>2. QED BY <3>1
    <2>2. Pow(2, j) \in Nat \ {0}
      BY PowPositive
    <2>3. Pow(2, j + 1) = 2 * Pow(2, j)
      BY PowFacts
    <2>4. QED BY <2>1, <2>2, <2>3
  <1>6. Pow(2, k + 1) = 2 * p
    BY <1>1, PowFacts
  <1>7. p \in Nat \ {0} /\ p * h = u
    <2>1. p \in Nat \ {0}
      BY <1>1, PowPositive
    <2>2. p * (2 * h) = 2 * (p * h) /\ p * h \in Nat
      OBVIOUS
    <2>3. 2 * (p * h) = 2 * u
      BY <1>1, <1>4, <1>5, <2>2
    <2>4. QED BY <2>1, <2>2, <2>3
  <1>8. PICK b \in 0 .. 1, m \in Nat : l = b * h + m /\ m < h
    <2>1. CASE l < h
      BY <2>1
    <2>2. CASE ~ (l < h)
      <3>1. l - h \in Nat /\ l = 1 * h + (l - h) /\ l - h < h
        BY <1>1, <1>4, <2>2
      <3>2. QED BY <3>1
    <2>3. QED BY <2>1, <2>2
  \* The top bit of n, and n without it.
  <1>9. PICK x \in Nat : x = m * p /\ x < u /\ l * p = b * u + x
    <2>1. m * p \in Nat /\ l * p = b * (p * h) + m * p
      BY <1>8
    <2>2. m * p < u
      <3>1. (m + 1) * p <= h * p
        BY <1>8, Multiples
      <3>2. (m + 1) * p = m * p + p /\ h * p = p * h
        OBVIOUS
      <3>3. QED BY <1>7, <2>1, <3>1, <3>2
    <2>3. QED BY <1>7, <2>1, <2>2
  <1>10. (l * p) \div u = b
    <2>1. b \in Nat
      OBVIOUS
    <2>2. (b * u + x) \div u = b
      BY <1>9, <2>1, Parts
    <2>3. QED BY <1>9, <2>2
  <1>11. (l * p * 2) % (2 * u) = 2 * x
    <2>1. b \in Nat /\ 2 * x \in Nat /\ 2 * x < 2 * u /\ 2 * u \in Nat \ {0}
      BY <1>9
    <2>2. (b * (2 * u) + 2 * x) % (2 * u) = 2 * x
      BY <2>1, Parts
    <2>3. l * p * 2 = (b * u + x) * 2
      BY <1>9
    <2>4. (b * u + x) * 2 = b * (2 * u) + 2 * x
      OBVIOUS
    <2>5. QED BY <2>2, <2>3, <2>4
  \* The shifted remainder and quotient keep their top bits.
  <1>12. PICK z \in Nat : z = sr * 2 + b /\ z < 2 * u /\ z < 2 * d
    <2>1. sr * 2 + b \in Nat /\ sr * 2 + b < 2 * d
      BY <1>1, <1>2
    <2>2. QED BY <1>5, <2>1
  <1>13. sq < u
    <2>1. PICK c \in Nat : c = sq * d /\ sq <= c
      <3>1. d >= 1
        OBVIOUS
      <3>2. 1 * sq <= d * sq
        BY <3>1, Multiples
      <3>3. QED BY <3>2
    <2>2. t = c + sr
      BY <1>1, <1>2, <2>1
    <2>3. p <= u
      <3>1. 1 * p <= h * p
        BY <1>4, Multiples
      <3>2. h * p = p * h
        OBVIOUS
      <3>3. QED BY <1>7, <3>1, <3>2
    <2>4. QED BY <1>1, <2>1, <2>2, <2>3
  <1>14. z % (2 * u) = z /\ (sq * 2) % (2 * u) = sq * 2
    <2>1. sq * 2 \in Nat /\ sq * 2 < 2 * u
      BY <1>13
    <2>2. PICK y \in Nat : y = 2 * u
      OBVIOUS
    <2>3. z % y = z /\ (sq * 2) % y = sq * 2
      BY <1>12, <2>1, <2>2
    <2>4. QED BY <2>2, <2>3
  <1>15. PICK e \in 0 .. 1, r \in Nat : /\ e = IF z >= d THEN 1 ELSE 0
                                        /\ r = IF z >= d THEN z - d ELSE z
                                        /\ z = e * d + r /\ r < d
    <2>1. CASE z >= d
      <3>1. z - d \in Nat /\ z = 1 * d + (z - d) /\ z - d < d
        BY <1>12, <2>1
      <3>2. QED BY <2>1, <3>1
    <2>2. CASE ~ (z >= d)
      <3>1. z = 0 * d + z /\ z < d
        BY <2>2
      <3>2. QED BY <2>2, <3>1
    <2>3. QED BY <2>1, <2>2
  <1>16. PICK s1 : s1 = DivStep(s, d, w) /\ s1.n = 2 * x /\ s1.q = sq * 2 + e /\ s1.rem = r
    <2>1. s.n \div u = b /\ (s.n * 2) % (2 * u) = 2 * x
      BY <1>1, <1>10, <1>11
    <2>2. (s.rem * 2 + (s.n \div Pow(2, w - 1))) % Pow(2, w) = z
      BY <1>2, <1>5, <1>12, <1>14, <2>1
    <2>3. AtLeast(z, d, w) <=> z >= d
      BY <1>12, AtLeastIs
    <2>4. DivStep(s, d, w) = [n |-> 2 * x, q |-> sq * 2 + e, rem |-> r]
      BY <1>2, <1>5, <1>14, <1>15, <2>1, <2>2, <2>3 DEF DivStep
    <2>5. QED BY <2>4
  <1>17. PICK t1 \in Nat : t1 = 2 * t + b /\ t1 < 2 * p /\ t1 = (sq * 2 + e) * d + r
    <2>1. 2 * t + b \in Nat /\ 2 * t + b < 2 * p
      BY <1>1
    <2>2. (sq * 2 + e) * d + r = (sq * d) * 2 + (e * d + r)
      OBVIOUS
    <2>3. PICK c \in Nat : c = sq * d /\ t = c + sr
      BY <1>1, <1>2
    <2>4. 2 * t + b = c * 2 + z
      BY <1>12, <2>3
    <2>5. QED BY <1>15, <2>1, <2>2, <2>3, <2>4
  <1>18. a = t1 * h + m
    <2>1. t * (2 * h) + (b * h + m) = (2 * t + b) * h + m
      OBVIOUS
    <2>2. QED BY <1>1, <1>4, <1>8, <1>17, <2>1
  <1>19. Pow(2, w) = (2 * p) * h /\ 2 * x = m * (2 * p)
    <2>1. (2 * p) * h = 2 * (p * h) /\ m * (2 * p) = 2 * (m * p)
      OBVIOUS
    <2>2. QED BY <1>5, <1>7, <1>9, <2>1
  <1>20. PICK p1 \in Nat : p1 = 2 * p
    OBVIOUS
  <1>21. Pow(2, w) = p1 * h /\ p1 = Pow(2, k + 1) /\ s1.n = m * p1
    BY <1>6, <1>16, <1>19, <1>20
  <1>22. h = Pow(2, w - (k + 1)) /\ a = t1 * h + m /\ m < h
    BY <1>3, <1>4, <1>8, <1>18
  <1>23. s1.q \in Nat /\ s1.rem \in Nat /\ s1.rem < d
    <2>1. sq * 2 + e \in Nat
      OBVIOUS
    <2>2. QED BY <1>15, <1>16, <2>1
  <1>24. t1 = s1.q * d + s1.rem /\ t1 < p1
    BY <1>16, <1>17, <1>20
  <1>25. Round(s1, a, d, w, k + 1)
    BY <1>21, <1>22, <1>23, <1>24 DEF Round
  <1>26. QED BY <1>16, <1>25

\* The division before its first round, and round by round.
Undivided(a) == [n |-> a, q |-> 0, rem |-> 0]

LEMMA RoundFirst ==
    ASSUME NEW w \in Nat \ {0}, NEW d \in Nat \ {0}, NEW a \in Nat, a < Pow(2, w)
    PROVE  Round(Undivided(a), a, d, w, 0)
  <1>1. PICK q \in Nat : q = Pow(2, w) /\ w - 0 = w
    <2>1. Pow(2, w) \in Nat /\ w - 0 = w
      BY PowFacts
    <2>2. QED BY <2>1
  <1>2. Pow(2, 0) = 1
    BY PowFacts
  <1>3. 1 * q = q /\ 0 * q + a = a /\ a * 1 = a /\ 0 * d + 0 = 0
    OBVIOUS
  <1>4. PICK s : s = Undivided(a) /\ s.n = a /\ s.q = 0 /\ s.rem = 0
    <2>1. Undivided(a).n = a /\ Undivided(a).q = 0 /\ Undivided(a).rem = 0
      BY DEF Undivided
    <2>2. QED BY <2>1
  <1>5. /\ Pow(2, w) = 1 * q /\ 1 = Pow(2, 0) /\ q = Pow(2, w - 0)
        /\ a = 0 * q + a /\ a < q
        /\ s.n = a * 1 /\ s.q \in Nat /\ s.rem \in Nat
        /\ 0 = s.q * d + s.rem /\ s.rem < d /\ 0 < 1
    BY <1>1, <1>2, <1>3, <1>4
  <1>6. 0 \in Nat /\ 1 \in Nat
    OBVIOUS
  <1>7. Round(s, a, d, w, 0)
    BY <1>5, <1>6 DEF Round
  <1>8. QED BY <1>4, <1>7

LEMMA DivStepOK ==
    ASSUME NEW w \in Nat \ {0}, NEW d \in Nat, NEW s \in [n : Nat, q : Nat, rem : Nat]
    PROVE  DivStep(s, d, w) \in [n : Nat, q : Nat, rem : Nat]
  <1>1. PICK u \in Nat \ {0}, v \in Nat \ {0} : u = Pow(2, w - 1) /\ v = Pow(2, w)
    <2>1. w - 1 \in Nat
      OBVIOUS
    <2>2. Pow(2, w - 1) \in Nat \ {0}
      BY <2>1, PowPositive
    <2>3. Pow(2, w) \in Nat \ {0}
      BY PowPositive
    <2>4. QED BY <2>2, <2>3
  <1>2. PICK sn \in Nat, sq \in Nat, sr \in Nat : sn = s.n /\ sq = s.q /\ sr = s.rem
    OBVIOUS
  <1>3. PICK x \in Nat : x = sn \div u
    BY SectionOf
  <1>4. PICK z \in Nat : z = (sr * 2 + x) % v
    OBVIOUS
  <1>5. PICK y1 \in Nat, y2 \in Nat : y1 = (sn * 2) % v /\ y2 = (sq * 2) % v
    OBVIOUS
  <1>6. (IF z >= d THEN z - d ELSE z) \in Nat /\ y2 + (IF z >= d THEN 1 ELSE 0) \in Nat
    OBVIOUS
  <1>7. DivStep(s, d, w) = [n |-> y1, q |-> y2 + (IF z >= d THEN 1 ELSE 0), rem |-> IF z >= d THEN z - d ELSE z]
    <2>1. AtLeast(z, d, w) <=> z >= d
      BY AtLeastIs
    <2>2. QED BY <1>1, <1>2, <1>3, <1>4, <1>5, <2>1 DEF DivStep
  <1>8. QED BY <1>6, <1>7

LEMMA DivIs ==
    ASSUME NEW w \in Nat \ {0}, NEW d \in Nat \ {0}, d <= Pow(2, w - 1), NEW a \in Nat, a < Pow(2, w)
    PROVE  uldivmod(a, d, w).q = a \div d /\ uldivmod(a, d, w).rem = a % d
  <1> DEFINE Body(s) == [k \in 0 .. w |-> IF k = 0 THEN Undivided(a) ELSE DivStep(s[k - 1], d, w)]
             q == CHOOSE s : s = Body(s)
  <1>1. uldivmod(a, d, w) = q[w]
    BY DEF uldivmod, Undivided
  <1>2. PICK S : S = [n : Nat, q : Nat, rem : Nat]
    OBVIOUS
  <1>3. PICK f : f = [at \in (1 .. w) \X S |-> DivStep(at[2], d, w)]
    OBVIOUS
  <1>4. f \in [(1 .. w) \X S -> S]
    <2>1. ASSUME NEW at \in (1 .. w) \X S PROVE DivStep(at[2], d, w) \in S
      BY <1>2, DivStepOK
    <2>2. QED BY <1>3, <2>1
  <1>5. Undivided(a) \in S
    BY <1>2 DEF Undivided
  <1>6. PICK h \in [0 .. w -> S] : Follows(h, Undivided(a), f, w)
    BY <1>4, <1>5, Recursion
  <1>7. ASSUME NEW k \in 1 .. w PROVE h[k] = DivStep(h[k - 1], d, w)
    <2>1. k - 1 \in 0 .. w
      OBVIOUS
    <2>2. <<k, h[k - 1]>> \in (1 .. w) \X S
      BY <2>1
    <2>3. f[<<k, h[k - 1]>>] = DivStep(h[k - 1], d, w)
      BY <1>3, <2>2
    <2>4. QED BY <1>6, <2>3 DEF Follows
  <1>8. h[0] = Undivided(a)
    BY <1>6 DEF Follows
  <1>9. h = Body(h)
    <2> DEFINE b == Body(h)
    <2>1. \A k \in 0 .. w : b[k] = IF k = 0 THEN Undivided(a) ELSE DivStep(h[k - 1], d, w)
      OBVIOUS
    <2>2. DOMAIN b = 0 .. w /\ b = [k \in 0 .. w |-> b[k]] /\ h = [k \in 0 .. w |-> h[k]]
      OBVIOUS
    <2>3. \A k \in 0 .. w : k # 0 => k \in 1 .. w
      OBVIOUS
    <2> HIDE DEF b
    <2>4. \A k \in 0 .. w : b[k] = h[k]
      BY <1>7, <1>8, <2>1, <2>3, Zenon
    <2>5. h = b
      BY <2>2, <2>4
    <2>6. QED BY <2>5 DEF b
  <1>10. q = Body(q)
    <2> HIDE DEF Body
    <2>1. QED BY <1>9, Zenon
  <1> HIDE DEF q
  <1>11. q[0] = Undivided(a) /\ \A k \in 1 .. w : q[k] = DivStep(q[k - 1], d, w)
    <2>1. \A k \in 0 .. w : Body(q)[k] = IF k = 0 THEN Undivided(a) ELSE DivStep(q[k - 1], d, w)
      OBVIOUS
    <2> HIDE DEF Body
    <2>2. \A k \in 0 .. w : q[k] = IF k = 0 THEN Undivided(a) ELSE DivStep(q[k - 1], d, w)
      BY <1>10, <2>1, Zenon
    <2>3. 0 \in 0 .. w /\ \A k \in 1 .. w : k \in 0 .. w /\ k # 0
      OBVIOUS
    <2>4. QED BY <2>2, <2>3
  <1> HIDE DEF Body
  <1>12. Round(q[w], a, d, w, w)
    <2> DEFINE T == {k \in Nat : k <= w => Round(q[k], a, d, w, k)}
    <2>1. 0 \in T
      BY <1>11, RoundFirst
    <2>2. ASSUME NEW k \in Nat, k \in T PROVE k + 1 \in T
      <3>1. ASSUME k + 1 <= w PROVE Round(q[k + 1], a, d, w, k + 1)
        <4>1. k + 1 \in 1 .. w /\ (k + 1) - 1 = k /\ k < w /\ Round(q[k], a, d, w, k)
          BY <2>2, <3>1
        <4>2. q[k + 1] = DivStep(q[k], d, w)
          BY <1>11, <4>1
        <4>3. QED BY <4>1, <4>2, RoundStep
      <3>2. QED BY <3>1
    <2> HIDE DEF T
    <2>3. w \in T
      BY <2>1, <2>2, Induction
    <2>4. QED BY <2>3 DEF T
  <1>13. PICK r : r = q[w] /\ r.q \in Nat /\ r.rem \in Nat /\ a = r.q * d + r.rem /\ r.rem < d
    <2>1. PICK t, l, p, x \in Nat :
             /\ x = Pow(2, w - w) /\ a = t * x + l /\ l < x
             /\ q[w].q \in Nat /\ q[w].rem \in Nat
             /\ t = q[w].q * d + q[w].rem /\ q[w].rem < d
      BY <1>12 DEF Round
    <2>2. w - w = 0 /\ Pow(2, 0) = 1
      BY PowFacts
    <2>3. x = 1 /\ l = 0 /\ t * 1 + 0 = t
      BY <2>1, <2>2
    <2>4. a = t
      BY <2>1, <2>3
    <2>5. QED BY <2>1, <2>4
  <1>14. r.q = a \div d /\ r.rem = a % d
    BY <1>13, Parts
  <1>15. QED BY <1>1, <1>13, <1>14

\* A move is made byte by byte: the k-th goes from the index from[k] to the
\* index to[k].
Moves(q, to, from, memory, m) ==
    /\ q[0] = memory
    /\ \A k \in 1 .. m : q[k] = [q[k - 1] EXCEPT ![to[k]] = q[k - 1][from[k]]]
Trace(h, m) == h = [k \in 0 .. m |-> h[k]]
Unmoved(size) == [k \in 1 .. size |-> k]

LEMMA MoveTrace ==
    ASSUME NEW size \in Nat, NEW m \in Nat, NEW to \in [1 .. m -> 1 .. size], NEW from \in [1 .. m -> 1 .. size]
    PROVE  \E h : Moves(h, to, from, Unmoved(size), m) /\ Trace(h, m)
  <1> DEFINE S == [1 .. size -> 1 .. size]
             F(k, s) == [s EXCEPT ![to[k]] = s[from[k]]]
  <1>1. PICK f : f = [at \in (1 .. m) \X S |-> F(at[1], at[2])]
    OBVIOUS
  <1>2. f \in [(1 .. m) \X S -> S]
    <2>1. ASSUME NEW at \in (1 .. m) \X S PROVE F(at[1], at[2]) \in S
      <3>1. PICK k \in 1 .. m, s \in S : k = at[1] /\ s = at[2]
        OBVIOUS
      <3>2. to[k] \in 1 .. size /\ s[from[k]] \in 1 .. size
        OBVIOUS
      <3>3. F(k, s) \in S
        BY <3>2
      <3>4. QED BY <3>1, <3>3
    <2> HIDE DEF S, F
    <2>2. QED BY <1>1, <2>1
  <1>3. Unmoved(size) \in S
    BY DEF Unmoved
  <1> HIDE DEF S, F
  <1>4. PICK h \in [0 .. m -> S] : Follows(h, Unmoved(size), f, m)
    BY <1>2, <1>3, Recursion
  <1>5. ASSUME NEW k \in 1 .. m PROVE h[k] = F(k, h[k - 1])
    <2>1. k - 1 \in 0 .. m
      OBVIOUS
    <2>2. <<k, h[k - 1]>> \in (1 .. m) \X S
      BY <2>1
    <2>3. f[<<k, h[k - 1]>>] = F(k, h[k - 1])
      BY <1>1, <2>2
    <2>4. QED BY <1>4, <2>3 DEF Follows
  <1>6. h[0] = Unmoved(size)
    BY <1>4 DEF Follows
  <1>7. h = [k \in 0 .. m |-> h[k]]
    OBVIOUS
  <1>8. \A k \in 1 .. m : h[k] = [h[k - 1] EXCEPT ![to[k]] = h[k - 1][from[k]]]
    BY <1>5 DEF F
  <1>9. QED BY <1>6, <1>7, <1>8 DEF Moves, Trace

\* A byte that is read was not written before, so it is the one of the start.
Fresh(to, from, m) == \A k \in 1 .. m : \A j \in 1 .. k - 1 : to[j] # from[k]
Shifted(to, from, delta, m) == \A k \in 1 .. m : from[k] = to[k] + delta
Displaced(to, delta, size, m) ==
    [i \in 1 .. size |-> IF \E k \in 1 .. m : to[k] = i THEN i + delta ELSE i]
Moving(q, to, from, delta, size, m) ==
    /\ to \in [1 .. m -> 1 .. size] /\ from \in [1 .. m -> 1 .. size]
    /\ Fresh(to, from, m) /\ Shifted(to, from, delta, m)
    /\ Moves(q, to, from, Unmoved(size), m)
LEMMA MovedIs ==
    ASSUME NEW size \in Nat, NEW m \in Nat, NEW delta \in Int,
           NEW to, NEW from, NEW q, Moving(q, to, from, delta, size, m)
    PROVE  q[m] = Displaced(to, delta, size, m)
  <1>0. /\ to \in [1 .. m -> 1 .. size] /\ from \in [1 .. m -> 1 .. size]
        /\ Fresh(to, from, m) /\ Shifted(to, from, delta, m)
        /\ Moves(q, to, from, Unmoved(size), m)
    BY DEF Moving
  <1> DEFINE Upto(j) == [i \in 1 .. size |-> IF \E k \in 1 .. j : to[k] = i THEN i + delta ELSE i]
             T == {j \in Nat : j <= m => q[j] = Upto(j)}
  <1>1. 0 \in T
    <2>1. q[0] = Unmoved(size)
      BY <1>0 DEF Moves
    <2>2. ~ \E k \in 1 .. 0 : TRUE
      OBVIOUS
    <2>3. Upto(0) = Unmoved(size)
      BY <2>2 DEF Unmoved
    <2>4. QED BY <2>1, <2>3
  <1>2. ASSUME NEW j \in Nat, j \in T PROVE j + 1 \in T
    <2>1. ASSUME j + 1 <= m PROVE q[j + 1] = Upto(j + 1)
      <3>1. PICK k \in 1 .. m : k = j + 1 /\ k - 1 = j
        BY <2>1
      <3>2. PICK s : s = q[j] /\ s = Upto(j)
        <4> HIDE DEF Upto
        <4>1. j <= m
          BY <2>1
        <4>2. q[j] = Upto(j)
          BY <1>2, <4>1
        <4>3. QED BY <4>2
      <3>3. q[k] = [s EXCEPT ![to[k]] = s[from[k]]]
        <4>1. q[k] = [q[k - 1] EXCEPT ![to[k]] = q[k - 1][from[k]]]
          BY <1>0 DEF Moves
        <4>2. q[k - 1] = s
          BY <3>1, <3>2
        <4> HIDE DEF Upto
        <4>3. QED BY <4>1, <4>2, Zenon
      <3>4. PICK a \in 1 .. size, b \in 1 .. size : a = to[k] /\ b = from[k] /\ b = a + delta
        BY <1>0 DEF Shifted
      <3>5. s[b] = b
        <4>1. ~ \E c \in 1 .. j : to[c] = b
          BY <1>0, <3>1, <3>4 DEF Fresh
        <4>2. QED BY <3>2, <4>1
      <3>6. \A i \in 1 .. size : (\E c \in 1 .. k : to[c] = i) <=> (i = a \/ \E c \in 1 .. j : to[c] = i)
        <4>1. /\ \A c \in 1 .. k : c = k \/ c \in 1 .. j
              /\ \A c \in 1 .. j : c \in 1 .. k
              /\ k \in 1 .. k
          <5> HIDE DEF Upto
          <5>1. QED BY <3>1
        <4> HIDE DEF Upto
        <4>2. QED BY <3>4, <4>1, Zenon
      <3>7. \A i \in 1 .. size : [s EXCEPT ![a] = b][i] = Upto(k)[i]
        <4>1. ASSUME NEW i \in 1 .. size PROVE [s EXCEPT ![a] = b][i] = Upto(k)[i]
          <5>1. CASE i = a
            <6>1. [s EXCEPT ![a] = b][i] = b
              BY <3>2, <5>1
            <6>2. Upto(k)[i] = a + delta
              BY <3>6, <5>1
            <6>3. QED BY <3>4, <6>1, <6>2
          <5>2. CASE i # a
            <6>1. [s EXCEPT ![a] = b][i] = s[i]
              BY <3>2, <5>2
            <6>2. Upto(k)[i] = Upto(j)[i]
              BY <3>6, <5>2
            <6>3. QED BY <3>2, <6>1, <6>2
          <5>3. QED BY <5>1, <5>2
        <4>2. QED BY <4>1
      <3>8. DOMAIN [s EXCEPT ![a] = b] = 1 .. size /\ DOMAIN Upto(k) = 1 .. size
        BY <3>2
      <3>9. PICK g, u : g = [s EXCEPT ![a] = b] /\ u = Upto(k) /\ g = [i \in 1 .. size |-> g[i]] /\ u = [i \in 1 .. size |-> u[i]]
        <4>1. [s EXCEPT ![a] = b] = [i \in 1 .. size |-> [s EXCEPT ![a] = b][i]]
          BY <3>2
        <4>2. Upto(k) = [i \in 1 .. size |-> Upto(k)[i]]
          OBVIOUS
        <4> HIDE DEF Upto
        <4>3. QED BY <4>1, <4>2
      <3>10. g = u
        <4> HIDE DEF Upto
        <4>1. \A i \in 1 .. size : g[i] = u[i]
          BY <3>7, <3>9
        <4>2. QED BY <3>9, <4>1
      <3> HIDE DEF Upto
      <3>11. QED BY <3>1, <3>3, <3>4, <3>5, <3>9, <3>10
    <2> HIDE DEF Upto
    <2>2. QED BY <2>1
  <1> HIDE DEF T
  <1>3. m \in T
    BY <1>1, <1>2, Induction
  <1>4. QED BY <1>3 DEF T, Displaced

Target(size, dst, src, m) ==
    [k \in 1 .. size |-> IF k \in dst .. dst + m - 1 THEN src + k - dst ELSE k]

\* memcpy goes up, revcpy down: neither reads what it has written.
LEMMA CopyIs ==
    ASSUME NEW size \in Nat, NEW dst \in Nat \ {0}, NEW src \in Nat \ {0}, NEW m \in Nat,
           dst + m <= size + 1, src + m <= size + 1, dst < src
    PROVE  memcpy(Unmoved(size), dst, src, m) = Target(size, dst, src, m)
  <1> DEFINE memory == Unmoved(size)
             Body(s) == [k \in 0 .. m |-> IF k = 0 THEN memory
                                        ELSE [s[k - 1] EXCEPT ![dst + k - 1] = s[k - 1][src + k - 1]]]
             q == CHOOSE s : s = Body(s)
  <1>1. memcpy(memory, dst, src, m) = q[m]
    BY DEF memcpy
  <1> HIDE DEF memory
  <1>2. PICK to, from : /\ to = [k \in 1 .. m |-> dst + k - 1] /\ from = [k \in 1 .. m |-> src + k - 1]
    OBVIOUS
  <1>3. to \in [1 .. m -> 1 .. size] /\ from \in [1 .. m -> 1 .. size]
    <2>1. \A k \in 1 .. m : dst + k - 1 \in 1 .. size /\ src + k - 1 \in 1 .. size
      OBVIOUS
    <2>2. QED BY <1>2, <2>1
  <1>4. \A k \in 1 .. m : to[k] = dst + k - 1 /\ from[k] = src + k - 1
    BY <1>2
  <1>5. PICK h : Moves(h, to, from, memory, m) /\ Trace(h, m)
    <2>1. \E h : Moves(h, to, from, Unmoved(size), m) /\ Trace(h, m)
      BY <1>3, MoveTrace
    <2>2. QED BY <2>1 DEF memory
  <1>6. h = Body(h)
    <2> DEFINE b == Body(h)
    <2>1. \A k \in 0 .. m : b[k] = IF k = 0 THEN memory ELSE [h[k - 1] EXCEPT ![dst + k - 1] = h[k - 1][src + k - 1]]
      OBVIOUS
    <2>2. DOMAIN b = 0 .. m /\ b = [k \in 0 .. m |-> b[k]]
      OBVIOUS
    <2>3. \A k \in 0 .. m : k # 0 => k \in 1 .. m
      OBVIOUS
    <2> HIDE DEF b
    <2>4. h[0] = memory /\ \A k \in 1 .. m : h[k] = [h[k - 1] EXCEPT ![to[k]] = h[k - 1][from[k]]]
      BY <1>5 DEF Moves
    <2>5. \A k \in 0 .. m : b[k] = h[k]
      BY <1>4, <2>1, <2>3, <2>4, Zenon
    <2>6. h = b
      BY <1>5, <2>2, <2>5 DEF Trace
    <2>7. QED BY <2>6 DEF b
  <1>7. q = Body(q)
    <2> HIDE DEF Body
    <2>1. QED BY <1>6, Zenon
  <1> HIDE DEF q
  <1>8. Moves(q, to, from, memory, m)
    <2>1. \A k \in 0 .. m : Body(q)[k] = IF k = 0 THEN memory ELSE [q[k - 1] EXCEPT ![dst + k - 1] = q[k - 1][src + k - 1]]
      OBVIOUS
    <2> HIDE DEF Body
    <2>2. \A k \in 0 .. m : q[k] = IF k = 0 THEN memory ELSE [q[k - 1] EXCEPT ![dst + k - 1] = q[k - 1][src + k - 1]]
      BY <1>7, <2>1, Zenon
    <2>3. 0 \in 0 .. m /\ \A k \in 1 .. m : k \in 0 .. m /\ k # 0
      OBVIOUS
    <2>4. q[0] = memory /\ \A k \in 1 .. m : q[k] = [q[k - 1] EXCEPT ![dst + k - 1] = q[k - 1][src + k - 1]]
      BY <2>2, <2>3, Zenon
    <2>5. \A k \in 1 .. m : q[k] = [q[k - 1] EXCEPT ![to[k]] = q[k - 1][from[k]]]
      BY <1>4, <2>4, ZenonT(40)
    <2>6. QED BY <2>4, <2>5 DEF Moves
  <1> HIDE DEF Body
  <1>9. PICK delta \in Int : delta = src - dst
    OBVIOUS
  <1>10. \A k \in 1 .. m : \A j \in 1 .. k - 1 : to[j] # from[k]
    <2>1. ASSUME NEW k \in 1 .. m, NEW j \in 1 .. k - 1 PROVE to[j] # from[k]
      <3>1. j \in 1 .. m
        OBVIOUS
      <3>2. to[j] = dst + j - 1 /\ from[k] = src + k - 1
        BY <1>4, <3>1
      <3>3. QED BY <3>2
    <2>2. QED BY <2>1
  <1>11. \A k \in 1 .. m : from[k] = to[k] + delta
    BY <1>4, <1>9
  <1>12. q[m] = Displaced(to, delta, size, m)
    <2>1. Fresh(to, from, m) /\ Shifted(to, from, delta, m)
      BY <1>10, <1>11 DEF Fresh, Shifted
    <2>2. Moves(q, to, from, Unmoved(size), m)
      BY <1>8 DEF memory
    <2>3. Moving(q, to, from, delta, size, m)
      BY <1>3, <2>1, <2>2, Zenon DEF Moving
    <2>4. QED BY <1>9, <2>3, MovedIs
  <1>13. \A i \in 1 .. size : (\E k \in 1 .. m : to[k] = i) <=> i \in dst .. dst + m - 1
    <2>1. ASSUME NEW i \in 1 .. size, NEW k \in 1 .. m, to[k] = i PROVE i \in dst .. dst + m - 1
      <3>1. i = dst + k - 1
        BY <1>4, <2>1
      <3>2. QED BY <3>1
    <2>2. ASSUME NEW i \in dst .. dst + m - 1 PROVE \E k \in 1 .. m : to[k] = i
      <3>1. i - dst + 1 \in 1 .. m /\ dst + (i - dst + 1) - 1 = i
        OBVIOUS
      <3>2. QED BY <1>4, <3>1
    <2>3. QED BY <2>1, <2>2
  <1>14. \A i \in 1 .. size : i + delta = src + i - dst
    BY <1>9
  <1>15. q[m] = Target(size, dst, src, m)
    <2>1. q[m] = [i \in 1 .. size |-> IF i \in dst .. dst + m - 1 THEN i + delta ELSE i]
      BY <1>12, <1>13 DEF Displaced
    <2>2. QED BY <1>14, <2>1 DEF Target
  <1>16. QED BY <1>1, <1>15 DEF memory

\* The same for the copy from the end.
LEMMA BackIs ==
    ASSUME NEW size \in Nat, NEW dst \in Nat \ {0}, NEW src \in Nat \ {0}, NEW m \in Nat,
           dst + m <= size + 1, src + m <= size + 1, dst > src
    PROVE  revcpy(Unmoved(size), dst, src, m) = Target(size, dst, src, m)
  <1> DEFINE memory == Unmoved(size)
             Body(s) == [k \in 0 .. m |-> IF k = 0 THEN memory
                                        ELSE [s[k - 1] EXCEPT ![dst + m - k] = s[k - 1][src + m - k]]]
             q == CHOOSE s : s = Body(s)
  <1>1. revcpy(memory, dst, src, m) = q[m]
    BY DEF revcpy
  <1> HIDE DEF memory
  <1>2. PICK to, from : /\ to = [k \in 1 .. m |-> dst + m - k] /\ from = [k \in 1 .. m |-> src + m - k]
    OBVIOUS
  <1>3. to \in [1 .. m -> 1 .. size] /\ from \in [1 .. m -> 1 .. size]
    <2>1. \A k \in 1 .. m : dst + m - k \in 1 .. size /\ src + m - k \in 1 .. size
      OBVIOUS
    <2>2. QED BY <1>2, <2>1
  <1>4. \A k \in 1 .. m : to[k] = dst + m - k /\ from[k] = src + m - k
    BY <1>2
  <1>5. PICK h : Moves(h, to, from, memory, m) /\ Trace(h, m)
    <2>1. \E h : Moves(h, to, from, Unmoved(size), m) /\ Trace(h, m)
      BY <1>3, MoveTrace
    <2>2. QED BY <2>1 DEF memory
  <1>6. h = Body(h)
    <2> DEFINE b == Body(h)
    <2>1. \A k \in 0 .. m : b[k] = IF k = 0 THEN memory ELSE [h[k - 1] EXCEPT ![dst + m - k] = h[k - 1][src + m - k]]
      OBVIOUS
    <2>2. DOMAIN b = 0 .. m /\ b = [k \in 0 .. m |-> b[k]]
      OBVIOUS
    <2>3. \A k \in 0 .. m : k # 0 => k \in 1 .. m
      OBVIOUS
    <2> HIDE DEF b
    <2>4. h[0] = memory /\ \A k \in 1 .. m : h[k] = [h[k - 1] EXCEPT ![to[k]] = h[k - 1][from[k]]]
      BY <1>5 DEF Moves
    <2>5. \A k \in 0 .. m : b[k] = h[k]
      BY <1>4, <2>1, <2>3, <2>4, Zenon
    <2>6. h = b
      BY <1>5, <2>2, <2>5 DEF Trace
    <2>7. QED BY <2>6 DEF b
  <1>7. q = Body(q)
    <2> HIDE DEF Body
    <2>1. QED BY <1>6, Zenon
  <1> HIDE DEF q
  <1>8. Moves(q, to, from, memory, m)
    <2>1. \A k \in 0 .. m : Body(q)[k] = IF k = 0 THEN memory ELSE [q[k - 1] EXCEPT ![dst + m - k] = q[k - 1][src + m - k]]
      OBVIOUS
    <2> HIDE DEF Body
    <2>2. \A k \in 0 .. m : q[k] = IF k = 0 THEN memory ELSE [q[k - 1] EXCEPT ![dst + m - k] = q[k - 1][src + m - k]]
      BY <1>7, <2>1, Zenon
    <2>3. 0 \in 0 .. m /\ \A k \in 1 .. m : k \in 0 .. m /\ k # 0
      OBVIOUS
    <2>4. q[0] = memory /\ \A k \in 1 .. m : q[k] = [q[k - 1] EXCEPT ![dst + m - k] = q[k - 1][src + m - k]]
      BY <2>2, <2>3, Zenon
    <2>5. \A k \in 1 .. m : q[k] = [q[k - 1] EXCEPT ![to[k]] = q[k - 1][from[k]]]
      BY <1>4, <2>4, ZenonT(40)
    <2>6. QED BY <2>4, <2>5 DEF Moves
  <1> HIDE DEF Body
  <1>9. PICK delta \in Int : delta = src - dst
    OBVIOUS
  <1>10. \A k \in 1 .. m : \A j \in 1 .. k - 1 : to[j] # from[k]
    <2>1. ASSUME NEW k \in 1 .. m, NEW j \in 1 .. k - 1 PROVE to[j] # from[k]
      <3>1. j \in 1 .. m
        OBVIOUS
      <3>2. to[j] = dst + m - j /\ from[k] = src + m - k
        BY <1>4, <3>1
      <3>3. QED BY <3>2
    <2>2. QED BY <2>1
  <1>11. \A k \in 1 .. m : from[k] = to[k] + delta
    BY <1>4, <1>9
  <1>12. q[m] = Displaced(to, delta, size, m)
    <2>1. Fresh(to, from, m) /\ Shifted(to, from, delta, m)
      BY <1>10, <1>11 DEF Fresh, Shifted
    <2>2. Moves(q, to, from, Unmoved(size), m)
      BY <1>8 DEF memory
    <2>3. Moving(q, to, from, delta, size, m)
      BY <1>3, <2>1, <2>2, Zenon DEF Moving
    <2>4. QED BY <1>9, <2>3, MovedIs
  <1>13. \A i \in 1 .. size : (\E k \in 1 .. m : to[k] = i) <=> i \in dst .. dst + m - 1
    <2>1. ASSUME NEW i \in 1 .. size, NEW k \in 1 .. m, to[k] = i PROVE i \in dst .. dst + m - 1
      <3>1. i = dst + m - k
        BY <1>4, <2>1
      <3>2. QED BY <3>1
    <2>2. ASSUME NEW i \in dst .. dst + m - 1 PROVE \E k \in 1 .. m : to[k] = i
      <3>1. dst + m - i \in 1 .. m /\ dst + m - (dst + m - i) = i
        OBVIOUS
      <3>2. QED BY <1>4, <3>1
    <2>3. QED BY <2>1, <2>2
  <1>14. \A i \in 1 .. size : i + delta = src + i - dst
    BY <1>9
  <1>15. q[m] = Target(size, dst, src, m)
    <2>1. q[m] = [i \in 1 .. size |-> IF i \in dst .. dst + m - 1 THEN i + delta ELSE i]
      BY <1>12, <1>13 DEF Displaced
    <2>2. QED BY <1>14, <2>1 DEF Target
  <1>16. QED BY <1>1, <1>15 DEF memory

LEMMA MoveIs ==
    ASSUME NEW size \in Nat, NEW dst \in Nat \ {0}, NEW src \in Nat \ {0}, NEW m \in Nat,
           dst + m <= size + 1, src + m <= size + 1
    PROVE  memmove(Unmoved(size), dst, src, m) = Target(size, dst, src, m)
  <1>1. CASE dst < src
    BY <1>1, CopyIs DEF memmove
  <1>2. CASE dst > src
    <2>1. ~ (dst < src)
      BY <1>2
    <2>2. QED BY <1>2, <2>1, BackIs DEF memmove
  <1>3. CASE dst = src
    <2>1. memmove(Unmoved(size), dst, src, m) = Unmoved(size)
      BY <1>3 DEF memmove
    <2>2. \A k \in 1 .. size : (IF k \in dst .. dst + m - 1 THEN src + k - dst ELSE k) = k
      BY <1>3
    <2>3. Target(size, dst, src, m) = Unmoved(size)
      BY <2>2 DEF Target, Unmoved
    <2>4. QED BY <2>1, <2>3
  <1>4. QED BY <1>1, <1>2, <1>3

\* What the words of a line are: the names of SplitExact.
Gap(line, k) == k \notin DOMAIN line \/ line[k] \in Blank
StartsOf(line) == {k \in DOMAIN line : ~ Gap(line, k) /\ Gap(line, k - 1)}
WordAt(line, b) ==
    SubSeq(line, b, CHOOSE e \in DOMAIN line : e >= b /\ Gap(line, e + 1) /\ \A k \in b .. e : ~ Gap(line, k))

\* The inner loops stop at the first character that is no blank, and that is one.
LEMMA StartIs ==
    ASSUME NEW line \in Seq(STRING), NEW p \in Nat \ {0}, p <= Len(line) + 1
    PROVE  /\ WordStart(line, p) \in Nat /\ p <= WordStart(line, p) /\ WordStart(line, p) <= Len(line) + 1
           /\ \A k \in Nat : p <= k /\ k < WordStart(line, p) => Gap(line, k)
           /\ WordStart(line, p) <= Len(line) => ~ Gap(line, WordStart(line, p))
  <1> DEFINE at == {k \in p .. Len(line) : line[k] \notin Blank}
             b == CHOOSE k \in at : \A r \in at : k <= r
  <1>0. Len(line) \in Nat /\ DOMAIN line = 1 .. Len(line)
    OBVIOUS
  <1>1. CASE at = {}
    <2>1. WordStart(line, p) = Len(line) + 1
      BY <1>1 DEF WordStart
    <2>2. \A k \in Nat : p <= k /\ k < Len(line) + 1 => k \in p .. Len(line)
      BY <1>0
    <2>3. \A k \in Nat : p <= k /\ k < Len(line) + 1 => Gap(line, k)
      BY <1>1, <2>2 DEF Gap
    <2>4. Len(line) + 1 \in Nat /\ ~ (Len(line) + 1 <= Len(line))
      BY <1>0
    <2>5. QED BY <2>1, <2>3, <2>4
  <1>2. CASE at # {}
    <2>1. WordStart(line, p) = b
      BY <1>2 DEF WordStart
    <2>2. at \in SUBSET Nat
      BY <1>0
    <2>3. \E k \in at : \A r \in at : k <= r
      <3> HIDE DEF at
      <3>1. QED BY <1>2, <2>2, LeastNatural
    <2>4. b \in at /\ \A r \in at : b <= r
      <3> HIDE DEF at
      <3>1. QED BY <2>3
    <2> HIDE DEF b
    <2>5. b \in p .. Len(line) /\ line[b] \notin Blank
      BY <2>4
    <2>6. b \in Nat /\ p <= b /\ b <= Len(line) /\ b \in DOMAIN line
      BY <1>0, <2>5
    <2>7. ASSUME NEW k \in Nat, p <= k, k < b PROVE Gap(line, k)
      <3>1. k \in p .. Len(line)
        BY <1>0, <2>6, <2>7
      <3>2. k \notin at
        <4> HIDE DEF at
        <4>1. k \in at => b <= k
          BY <2>4
        <4>2. QED BY <2>6, <2>7, <4>1
      <3>3. QED BY <3>1, <3>2 DEF Gap
    <2>8. ~ Gap(line, b)
      BY <2>5, <2>6 DEF Gap
    <2>9. b <= Len(line) + 1
      BY <1>0, <2>6
    <2>10. QED BY <2>1, <2>6, <2>7, <2>8, <2>9
  <1>3. QED BY <1>1, <1>2

LEMMA EndIs ==
    ASSUME NEW line \in Seq(STRING), NEW p \in Nat \ {0}, p <= Len(line) + 1
    PROVE  /\ WordEnd(line, p) \in Nat /\ p <= WordEnd(line, p) /\ WordEnd(line, p) <= Len(line) + 1
           /\ \A k \in Nat : p <= k /\ k < WordEnd(line, p) => ~ Gap(line, k)
           /\ Gap(line, WordEnd(line, p))
  <1> DEFINE at == {k \in p .. Len(line) : line[k] \in Blank}
             b == CHOOSE k \in at : \A r \in at : k <= r
  <1>0. Len(line) \in Nat /\ DOMAIN line = 1 .. Len(line)
    OBVIOUS
  <1>1. CASE at = {}
    <2>1. WordEnd(line, p) = Len(line) + 1
      BY <1>1 DEF WordEnd
    <2>2. \A k \in Nat : p <= k /\ k < Len(line) + 1 => k \in p .. Len(line) /\ k \in DOMAIN line
      BY <1>0
    <2>3. \A k \in Nat : p <= k /\ k < Len(line) + 1 => ~ Gap(line, k)
      BY <1>1, <2>2 DEF Gap
    <2>4. Len(line) + 1 \in Nat /\ Len(line) + 1 \notin DOMAIN line
      BY <1>0
    <2>5. Gap(line, Len(line) + 1)
      BY <2>4 DEF Gap
    <2>6. QED BY <2>1, <2>3, <2>4, <2>5
  <1>2. CASE at # {}
    <2>1. WordEnd(line, p) = b
      BY <1>2 DEF WordEnd
    <2>2. at \in SUBSET Nat
      BY <1>0
    <2>3. \E k \in at : \A r \in at : k <= r
      <3> HIDE DEF at
      <3>1. QED BY <1>2, <2>2, LeastNatural
    <2>4. b \in at /\ \A r \in at : b <= r
      <3> HIDE DEF at
      <3>1. QED BY <2>3
    <2> HIDE DEF b
    <2>5. b \in p .. Len(line) /\ line[b] \in Blank
      BY <2>4
    <2>6. b \in Nat /\ p <= b /\ b <= Len(line)
      BY <1>0, <2>5
    <2>7. ASSUME NEW k \in Nat, p <= k, k < b PROVE ~ Gap(line, k)
      <3>1. k \in p .. Len(line) /\ k \in DOMAIN line
        BY <1>0, <2>6, <2>7
      <3>2. k \notin at
        <4> HIDE DEF at
        <4>1. k \in at => b <= k
          BY <2>4
        <4>2. QED BY <2>6, <2>7, <4>1
      <3>3. QED BY <3>1, <3>2 DEF Gap
    <2>8. Gap(line, b)
      BY <2>5 DEF Gap
    <2>9. b <= Len(line) + 1
      BY <1>0, <2>6
    <2>10. QED BY <2>1, <2>6, <2>7, <2>8, <2>9
  <1>3. QED BY <1>1, <1>2

\* A word goes from its first character to the one before the next blank.
LEMMA WordIs ==
    ASSUME NEW line \in Seq(STRING), NEW b \in Nat \ {0}, b <= Len(line), ~ Gap(line, b)
    PROVE  WordAt(line, b) = SubSeq(line, b, WordEnd(line, b) - 1) /\ b < WordEnd(line, b)
  <1>1. PICK e \in Nat : /\ e = WordEnd(line, b) /\ b <= e /\ e <= Len(line) + 1 /\ Gap(line, e)
                         /\ \A k \in Nat : b <= k /\ k < e => ~ Gap(line, k)
    <2>1. b <= Len(line) + 1
      OBVIOUS
    <2>2. QED BY <2>1, EndIs
  <1>2. b < e
    BY <1>1
  <1>3. PICK m \in Nat : m = e - 1 /\ e = m + 1
    BY <1>2
  <1> DEFINE Good(c) == c >= b /\ Gap(line, c + 1) /\ \A k \in b .. c : ~ Gap(line, k)
  <1>4. m \in DOMAIN line /\ Good(m)
    <2>1. m \in 1 .. Len(line) /\ m >= b
      BY <1>1, <1>2, <1>3
    <2>2. \A k \in b .. m : k \in Nat /\ b <= k /\ k < e
      BY <1>3
    <2>3. \A k \in b .. m : ~ Gap(line, k)
      BY <1>1, <2>2
    <2>4. QED BY <1>1, <1>3, <2>1, <2>3
  <1>5. ASSUME NEW c \in DOMAIN line, Good(c) PROVE c = m
    <2>0. c \in Nat
      OBVIOUS
    <2>1. CASE c < m
      <3>1. c + 1 \in Nat /\ b <= c + 1 /\ c + 1 < e
        BY <1>3, <1>5, <2>0, <2>1
      <3>2. QED BY <1>1, <1>5, <3>1
    <2>2. CASE c > m
      <3>1. e \in b .. c
        BY <1>1, <1>3, <2>0, <2>2
      <3>2. QED BY <1>1, <1>5, <3>1
    <2>3. QED BY <2>0, <2>1, <2>2
  <1>6. (CHOOSE c \in DOMAIN line : Good(c)) = m
    <2> HIDE DEF Good
    <2>1. QED BY <1>4, <1>5
  <1>7. WordAt(line, b) = SubSeq(line, b, m)
    BY <1>6 DEF WordAt
  <1>8. QED BY <1>1, <1>2, <1>3, <1>7

\* str_split word by word: the first one from p, and where to go on.
FirstWord(line, p) == SubSeq(line, WordStart(line, p), WordEnd(line, WordStart(line, p)) - 1)
After(line, p) == WordEnd(line, WordStart(line, p)) + 1
Ended(line, p) == p > Len(line) \/ WordStart(line, p) > Len(line)
Places(line) == 1 .. Len(line) + 2
WordsOf(line) == {FirstWord(line, p) : p \in Places(line)}
Splits(q, line, m) ==
    \A p \in Places(line), a \in 0 .. m :
       q[<<p, a>>] = IF a = m \/ Ended(line, p) THEN <<>> ELSE <<FirstWord(line, p)>> \o q[<<After(line, p), a + 1>>]

LEMMA AfterOK ==
    ASSUME NEW line \in Seq(STRING), NEW p \in Places(line), ~ Ended(line, p)
    PROVE  After(line, p) \in Places(line) /\ p < After(line, p)
  <1>1. Len(line) \in Nat /\ p \in Nat \ {0} /\ p <= Len(line)
    BY DEF Places, Ended
  <1>2. PICK b \in Nat : b = WordStart(line, p) /\ p <= b /\ b <= Len(line)
    <2>1. p <= Len(line) + 1
      BY <1>1
    <2>2. WordStart(line, p) \in Nat /\ p <= WordStart(line, p)
      BY <1>1, <2>1, StartIs
    <2>3. QED BY <1>1, <2>2 DEF Ended
  <1>3. PICK e \in Nat : e = WordEnd(line, b) /\ b <= e /\ e <= Len(line) + 1
    <2>1. b \in Nat \ {0} /\ b <= Len(line) + 1
      BY <1>1, <1>2
    <2>2. WordEnd(line, b) \in Nat /\ b <= WordEnd(line, b) /\ WordEnd(line, b) <= Len(line) + 1
      BY <2>1, EndIs
    <2>3. QED BY <2>2
  <1>4. After(line, p) = e + 1
    BY <1>2, <1>3 DEF After
  <1>5. e + 1 \in 1 .. Len(line) + 2 /\ p < e + 1
    BY <1>1, <1>2, <1>3
  <1>6. QED BY <1>4, <1>5 DEF Places

LEMMA SplitTrace ==
    ASSUME NEW line \in Seq(STRING), NEW m \in Nat
    PROVE  \E q : str_split(line, m) = q[<<1, 0>>] /\ Splits(q, line, m)
  <1> DEFINE P == Places(line)
             W == Seq(WordsOf(line))
             S == [P -> W]
             Take(p, g) == IF Ended(line, p) THEN <<>> ELSE <<FirstWord(line, p)>> \o g[After(line, p)]
             Body(s) == [at \in (1 .. Len(line) + 2) \X (0 .. m) |->
                           IF at[1] > Len(line) \/ at[2] = m \/ WordStart(line, at[1]) > Len(line) THEN <<>>
                           ELSE <<FirstWord(line, at[1])>> \o s[<<After(line, at[1]), at[2] + 1>>]]
             q == CHOOSE s : s = Body(s)
  <1>1. str_split(line, m) = q[<<1, 0>>]
    BY DEF str_split, FirstWord, After
  <1>2. ASSUME NEW p \in P, NEW g \in S PROVE Take(p, g) \in W
    <2>1. CASE Ended(line, p)
      BY <2>1
    <2>2. CASE ~ Ended(line, p)
      <3>1. g[After(line, p)] \in W
        <4> HIDE DEF P, W
        <4>1. After(line, p) \in P
          BY <2>2, AfterOK DEF P
        <4>2. QED BY <4>1
      <3>2. <<FirstWord(line, p)>> \in W
        <4>1. FirstWord(line, p) \in WordsOf(line)
          BY DEF WordsOf
        <4> HIDE DEF P
        <4>2. QED BY <4>1
      <3>3. <<FirstWord(line, p)>> \o g[After(line, p)] \in W
        <4> HIDE DEF S
        <4>1. QED BY <3>1, <3>2, ConcatProperties
      <3>4. QED BY <2>2, <3>3
    <2> HIDE DEF Take
    <2>3. QED BY <2>1, <2>2
  <1>3. PICK f : f = [at \in (1 .. m) \X S |-> [p \in P |-> Take(p, at[2])]]
    OBVIOUS
  <1>4. f \in [(1 .. m) \X S -> S]
    <2>1. ASSUME NEW at \in (1 .. m) \X S PROVE [p \in P |-> Take(p, at[2])] \in S
      <3>1. at[2] \in S
        <4> HIDE DEF S
        <4>1. QED OBVIOUS
      <3> HIDE DEF Take, P, W
      <3>2. \A p \in P : Take(p, at[2]) \in W
        BY <1>2, <3>1
      <3>3. QED BY <3>2
    <2> HIDE DEF S, Take
    <2>2. QED BY <1>3, <2>1
  <1>5. PICK z \in S : z = [p \in P |-> <<>>]
    <2>1. <<>> \in W
      OBVIOUS
    <2> HIDE DEF W, P
    <2>2. QED BY <2>1
  <1> HIDE DEF S, Take
  <1>6. PICK h \in [0 .. m -> S] : Follows(h, z, f, m)
    BY <1>4, <1>5, Recursion
  <1>7. ASSUME NEW k \in 1 .. m, NEW p \in P PROVE h[k][p] = Take(p, h[k - 1])
    <2>1. k - 1 \in 0 .. m
      OBVIOUS
    <2>2. <<k, h[k - 1]>> \in (1 .. m) \X S
      BY <2>1
    <2>3. f[<<k, h[k - 1]>>] = [x \in P |-> Take(x, h[k - 1])]
      BY <1>3, <2>2
    <2>4. h[k] = [x \in P |-> Take(x, h[k - 1])]
      BY <1>6, <2>3 DEF Follows
    <2> HIDE DEF P
    <2>5. QED BY <2>4
  <1>8. ASSUME NEW p \in P PROVE h[0][p] = <<>>
    <2>1. h[0] = z
      BY <1>6 DEF Follows
    <2>2. QED BY <1>5, <2>1
  <1> DEFINE G == [at \in (1 .. Len(line) + 2) \X (0 .. m) |-> h[m - at[2]][at[1]]]
  <1>9. G = Body(G)
    <2> DEFINE b == Body(G)
    <2>1. ASSUME NEW at \in (1 .. Len(line) + 2) \X (0 .. m) PROVE b[at] = G[at]
      <3>1. PICK p \in P, a \in 0 .. m : p = at[1] /\ a = at[2] /\ at = <<p, a>>
        BY DEF Places
      <3>2. G[at] = h[m - a][p]
        BY <3>1
      <3>3. b[at] = IF p > Len(line) \/ a = m \/ WordStart(line, p) > Len(line) THEN <<>>
                    ELSE <<FirstWord(line, p)>> \o G[<<After(line, p), a + 1>>]
        <4> HIDE DEF G
        <4>1. QED BY <3>1
      <3>4. CASE a = m
        <4>1. m - a = 0
          BY <3>4
        <4> HIDE DEF b, G, P
        <4>2. QED BY <1>8, <3>2, <3>3, <3>4, <4>1
      <3>5. CASE a # m
        <4>1. PICK k \in 1 .. m : k = m - a /\ k - 1 = m - (a + 1) /\ a + 1 \in 0 .. m
          BY <3>5
        <4>2. G[at] = Take(p, h[k - 1])
          <5> HIDE DEF G, P, b
          <5>1. QED BY <1>7, <3>2, <4>1
        <4>3. CASE Ended(line, p)
          <5>1. b[at] = <<>>
            <6> HIDE DEF b, G
            <6>1. QED BY <3>3, <4>3 DEF Ended
          <5>2. G[at] = <<>>
            <6> HIDE DEF b, G
            <6>1. QED BY <4>2, <4>3 DEF Take
          <5>3. QED BY <5>1, <5>2
        <4>4. CASE ~ Ended(line, p)
          <5>1. After(line, p) \in 1 .. Len(line) + 2
            BY <4>4, AfterOK DEF Places
          <5>2. G[<<After(line, p), a + 1>>] = h[k - 1][After(line, p)]
            BY <4>1, <5>1
          <5> HIDE DEF b, G
          <5>3. b[at] = <<FirstWord(line, p)>> \o G[<<After(line, p), a + 1>>]
            BY <3>3, <3>5, <4>4 DEF Ended
          <5>4. G[at] = <<FirstWord(line, p)>> \o h[k - 1][After(line, p)]
            BY <4>2, <4>4 DEF Take
          <5>5. QED BY <5>2, <5>3, <5>4
        <4> HIDE DEF b, G
        <4>5. QED BY <4>3, <4>4
      <3> HIDE DEF b, G
      <3>6. QED BY <3>4, <3>5
    <2>2. PICK D : D = (1 .. Len(line) + 2) \X (0 .. m)
      OBVIOUS
    <2>3. b = [at \in D |-> b[at]] /\ G = [at \in D |-> G[at]]
      BY <2>2
    <2> HIDE DEF b, G
    <2>4. \A at \in D : b[at] = G[at]
      BY <2>1, <2>2
    <2>5. G = b
      BY <2>3, <2>4
    <2>6. QED BY <2>5 DEF b
  <1> HIDE DEF G
  <1>10. q = Body(q)
    <2> HIDE DEF Body
    <2>1. QED BY <1>9, Zenon
  <1> HIDE DEF q
  <1>11. ASSUME NEW p \in P, NEW a \in 0 .. m
         PROVE  q[<<p, a>>] = IF a = m \/ Ended(line, p) THEN <<>>
                              ELSE <<FirstWord(line, p)>> \o q[<<After(line, p), a + 1>>]
    <2>1. PICK at \in (1 .. Len(line) + 2) \X (0 .. m) : at = <<p, a>> /\ at[1] = p /\ at[2] = a
      BY DEF Places
    <2>2. Body(q)[at] = IF p > Len(line) \/ a = m \/ WordStart(line, p) > Len(line) THEN <<>>
                        ELSE <<FirstWord(line, p)>> \o q[<<After(line, p), a + 1>>]
      BY <2>1
    <2> HIDE DEF Body
    <2>3. q[at] = Body(q)[at]
      BY <1>10, Zenon
    <2>4. QED BY <2>1, <2>2, <2>3 DEF Ended
  <1>12. Splits(q, line, m)
    BY <1>11 DEF Splits
  <1>13. QED BY <1>1, <1>12

\* The words from p on, when there is room for so many: at tells where each
\* starts, and no start is left out.
InOrder(at, words, line, p) ==
    /\ \A i \in 1 .. Len(words) : words[i] = WordAt(line, at[i]) /\ at[i] >= p
    /\ \A i, j \in 1 .. Len(words) : i < j => at[i] < at[j]
Complete(at, words, line, p, room) ==
    \A s \in StartsOf(line) :
       s >= p => \/ \E i \in 1 .. Len(words) : at[i] = s
                 \/ Len(words) = room /\ \A i \in 1 .. Len(words) : at[i] < s
Listed(words, line, p, room) ==
    /\ words \in Seq(WordsOf(line)) /\ Len(words) <= room
    /\ \E at \in [1 .. Len(words) -> StartsOf(line)] :
          InOrder(at, words, line, p) /\ Complete(at, words, line, p, room)

LEMMA ListedNone ==
    ASSUME NEW line \in Seq(STRING), NEW p \in Places(line), NEW room \in Nat, room = 0 \/ Ended(line, p)
    PROVE  Listed(<<>>, line, p, room)
  <1>1. PICK w : w = <<>> /\ Len(w) = 0 /\ w \in Seq(WordsOf(line))
    <2>1. <<>> \in Seq(WordsOf(line)) /\ Len(<<>>) = 0
      OBVIOUS
    <2>2. QED BY <2>1
  <1>2. PICK at \in [1 .. Len(w) -> StartsOf(line)] : TRUE
    <2>1. [i \in 1 .. 0 |-> 0] \in [1 .. 0 -> StartsOf(line)]
      OBVIOUS
    <2>2. QED BY <1>1, <2>1
  <1>3. \A i \in 1 .. Len(w) : FALSE
    BY <1>1
  <1>4. ASSUME NEW s \in StartsOf(line), s >= p PROVE room = 0
    <2>1. s \in Nat /\ s <= Len(line) /\ ~ Gap(line, s) /\ p \in Nat \ {0} /\ Len(line) \in Nat
      BY DEF StartsOf, Places
    <2>2. CASE Ended(line, p)
      <3>1. p <= Len(line) /\ p <= Len(line) + 1
        BY <1>4, <2>1
      <3>2. WordStart(line, p) > Len(line)
        BY <2>1, <2>2, <3>1 DEF Ended
      <3>3. WordStart(line, p) \in Nat /\ \A k \in Nat : p <= k /\ k < WordStart(line, p) => Gap(line, k)
        BY <2>1, <3>1, StartIs
      <3>4. s < WordStart(line, p)
        BY <2>1, <3>2, <3>3
      <3>5. QED BY <1>4, <2>1, <3>3, <3>4
    <2>3. QED BY <2>2
  <1>5. InOrder(at, w, line, p) /\ Complete(at, w, line, p, room)
    BY <1>1, <1>3, <1>4 DEF InOrder, Complete
  <1>6. Len(w) <= room
    BY <1>1
  <1>7. Listed(w, line, p, room)
    BY <1>1, <1>2, <1>5, <1>6 DEF Listed
  <1>8. QED BY <1>1, <1>7

LEMMA ListedMore ==
    ASSUME NEW line \in Seq(STRING), NEW p \in Places(line), ~ Ended(line, p), Gap(line, p - 1),
           NEW room \in Nat, NEW rest, Listed(rest, line, After(line, p), room)
    PROVE  /\ Gap(line, After(line, p) - 1)
           /\ Listed(<<FirstWord(line, p)>> \o rest, line, p, room + 1)
  <1>0. Len(line) \in Nat /\ DOMAIN line = 1 .. Len(line) /\ p \in Nat \ {0} /\ p <= Len(line) /\ p <= Len(line) + 1
    BY DEF Places, Ended
  <1>1. PICK b \in Nat \ {0} : /\ b = WordStart(line, p) /\ p <= b /\ b <= Len(line) /\ ~ Gap(line, b)
                               /\ \A k \in Nat : p <= k /\ k < b => Gap(line, k)
    <2>1. /\ WordStart(line, p) \in Nat /\ p <= WordStart(line, p)
          /\ \A k \in Nat : p <= k /\ k < WordStart(line, p) => Gap(line, k)
          /\ WordStart(line, p) <= Len(line) => ~ Gap(line, WordStart(line, p))
      BY <1>0, StartIs
    <2>2. WordStart(line, p) <= Len(line) /\ WordStart(line, p) # 0
      BY <1>0, <2>1 DEF Ended
    <2>3. QED BY <2>1, <2>2
  <1>2. PICK e \in Nat : /\ e = WordEnd(line, b) /\ b < e /\ Gap(line, e) /\ WordAt(line, b) = SubSeq(line, b, e - 1)
                         /\ \A k \in Nat : b <= k /\ k < e => ~ Gap(line, k)
    <2>1. b <= Len(line) + 1
      BY <1>0, <1>1
    <2>2. /\ WordEnd(line, b) \in Nat /\ Gap(line, WordEnd(line, b))
          /\ \A k \in Nat : b <= k /\ k < WordEnd(line, b) => ~ Gap(line, k)
      BY <2>1, EndIs
    <2>3. WordAt(line, b) = SubSeq(line, b, WordEnd(line, b) - 1) /\ b < WordEnd(line, b)
      BY <1>1, WordIs
    <2>4. QED BY <2>2, <2>3
  <1>3. PICK x : x = FirstWord(line, p) /\ x = WordAt(line, b) /\ x \in WordsOf(line)
    <2>1. FirstWord(line, p) = WordAt(line, b)
      BY <1>1, <1>2 DEF FirstWord
    <2>2. FirstWord(line, p) \in WordsOf(line)
      BY DEF WordsOf
    <2>3. QED BY <2>1, <2>2
  <1>4. PICK c \in Nat : c = After(line, p) /\ c = e + 1 /\ c - 1 = e
    BY <1>1, <1>2 DEF After
  <1>21. p <= c /\ b < c
    <2>1. b < e /\ p <= b /\ p \in Nat
      BY <1>0, <1>1, <1>2, Zenon
    <2>2. c = e + 1
      BY <1>4
    <2>3. QED BY <2>1, <2>2
  <1>5. PICK at \in [1 .. Len(rest) -> StartsOf(line)] : InOrder(at, rest, line, c) /\ Complete(at, rest, line, c, room)
    BY <1>4 DEF Listed
  <1>6. PICK m \in Nat : m = Len(rest) /\ m <= room /\ rest \in Seq(WordsOf(line))
    <2>1. rest \in Seq(WordsOf(line)) /\ Len(rest) <= room
      BY DEF Listed
    <2>2. Len(rest) \in Nat
      BY <2>1
    <2>3. QED BY <2>1, <2>2
  <1>7. PICK words : /\ words = <<x>> \o rest /\ words \in Seq(WordsOf(line)) /\ Len(words) = m + 1
                     /\ words[1] = x /\ \A i \in 2 .. m + 1 : words[i] = rest[i - 1]
    <2>1. PICK X : X = WordsOf(line)
      OBVIOUS
    <2>2. x \in X /\ rest \in Seq(X) /\ Len(rest) = m
      BY <1>3, <1>6, <2>1
    <2>3. <<x>> \o rest \in Seq(X) /\ Len(<<x>> \o rest) = m + 1 /\ (<<x>> \o rest)[1] = x
      BY <2>2
    <2>4. \A i \in 2 .. m + 1 : (<<x>> \o rest)[i] = rest[i - 1]
      BY <2>2
    <2>5. QED BY <2>1, <2>3, <2>4
  <1>8. b \in StartsOf(line)
    <2>1. b \in DOMAIN line
      BY <1>0, <1>1
    <2>2. Gap(line, b - 1)
      <3>1. CASE b = p
        BY <3>1
      <3>2. CASE b # p
        <4>1. b - 1 \in Nat /\ p <= b - 1 /\ b - 1 < b
          BY <1>0, <1>1, <3>2
        <4>2. QED BY <1>1, <4>1
      <3>3. QED BY <3>1, <3>2
    <2>3. QED BY <1>1, <2>1, <2>2 DEF StartsOf
  <1>9. PICK to \in [1 .. m + 1 -> StartsOf(line)] : to[1] = b /\ \A i \in 2 .. m + 1 : to[i] = at[i - 1]
    <2> DEFINE g == [i \in 1 .. m + 1 |-> IF i = 1 THEN b ELSE at[i - 1]]
    <2>1. \A i \in 1 .. m + 1 : i # 1 => i - 1 \in 1 .. m
      OBVIOUS
    <2>2. \A i \in 1 .. m + 1 : i # 1 => at[i - 1] \in StartsOf(line)
      BY <1>5, <1>6, <2>1
    <2>3. g \in [1 .. m + 1 -> StartsOf(line)]
      BY <1>8, <2>2
    <2>4. g[1] = b /\ \A i \in 2 .. m + 1 : g[i] = at[i - 1]
      OBVIOUS
    <2> HIDE DEF g
    <2>5. QED BY <2>3, <2>4
  <1>10. \A i \in 2 .. m + 1 : /\ i - 1 \in 1 .. m /\ rest[i - 1] = WordAt(line, at[i - 1]) /\ at[i - 1] >= c
                               /\ at[i - 1] \in Nat
    <2>1. \A i \in 2 .. m + 1 : i - 1 \in 1 .. m
      OBVIOUS
    <2>2. \A i \in 1 .. m : rest[i] = WordAt(line, at[i]) /\ at[i] >= c
      BY <1>5, <1>6 DEF InOrder
    <2>3. \A i \in 1 .. m : at[i] \in Nat
      <3>1. StartsOf(line) \subseteq Nat
        BY <1>0 DEF StartsOf
      <3>2. QED BY <1>5, <1>6, <3>1
    <2>4. QED BY <2>1, <2>2, <2>3
  <1>11. \A i \in 1 .. m + 1 : words[i] = WordAt(line, to[i]) /\ to[i] >= p
    <2>1. ASSUME NEW i \in 2 .. m + 1 PROVE words[i] = WordAt(line, to[i]) /\ to[i] >= p
      <3>1. words[i] = WordAt(line, to[i])
        BY <1>7, <1>9, <1>10
      <3>2. to[i] \in Nat /\ to[i] >= c
        BY <1>9, <1>10
      <3>3. to[i] >= p
        BY <1>0, <1>21, <3>2
      <3>4. QED BY <3>1, <3>3
    <2>2. words[1] = WordAt(line, to[1]) /\ to[1] >= p
      BY <1>0, <1>1, <1>3, <1>7, <1>9
    <2>3. \A i \in 1 .. m + 1 : i = 1 \/ i \in 2 .. m + 1
      OBVIOUS
    <2>4. QED BY <2>1, <2>2, <2>3, Zenon
  <1>12. \A i, j \in 1 .. m + 1 : i < j => to[i] < to[j]
    <2>1. ASSUME NEW i \in 1 .. m + 1, NEW j \in 1 .. m + 1, i < j PROVE to[i] < to[j]
      <3>1. j \in 2 .. m + 1 /\ to[j] = at[j - 1] /\ to[j] \in Nat /\ to[j] >= c
        <4>1. j \in 2 .. m + 1
          BY <2>1
        <4>2. QED BY <1>9, <1>10, <4>1
      <3>2. CASE i = 1
        <4>1. to[i] = b
          BY <1>9, <3>2
        <4>2. PICK v \in Nat : v = to[j] /\ v >= c
          BY <3>1
        <4>3. b < v
          BY <1>21, <4>2
        <4>4. QED BY <4>1, <4>2, <4>3
      <3>3. CASE i # 1
        <4>1. i \in 2 .. m + 1
          BY <3>3
        <4>2. i - 1 \in 1 .. m /\ j - 1 \in 1 .. m /\ i - 1 < j - 1
          BY <2>1, <3>1, <4>1
        <4>3. at[i - 1] < at[j - 1]
          BY <1>5, <1>6, <4>2 DEF InOrder
        <4>4. to[i] = at[i - 1]
          BY <1>9, <4>1
        <4>5. QED BY <3>1, <4>3, <4>4
      <3>4. QED BY <3>2, <3>3
    <2>2. QED BY <2>1
  <1>13. ASSUME NEW s \in StartsOf(line), s >= p
         PROVE  \/ \E i \in 1 .. m + 1 : to[i] = s
                \/ m + 1 = room + 1 /\ \A i \in 1 .. m + 1 : to[i] < s
    <2>1. s \in Nat /\ s # 0 /\ ~ Gap(line, s) /\ Gap(line, s - 1)
      BY <1>0 DEF StartsOf
    <2>2. CASE s < c
      <3>1. s >= b
        BY <1>0, <1>1, <1>13, <2>1
      <3>2. s # e
        BY <1>2, <2>1
      <3>3. s < e
        BY <1>4, <2>1, <2>2, <3>2
      <3>4. s = b
        <4>1. CASE s > b
          <5>1. s - 1 \in Nat /\ b <= s - 1 /\ s - 1 < e
            BY <2>1, <3>3, <4>1
          <5>2. QED BY <1>2, <2>1, <5>1
        <4>2. QED BY <2>1, <3>1, <4>1
      <3>5. 1 \in 1 .. m + 1 /\ to[1] = s
        BY <1>9, <3>4
      <3>6. QED BY <3>5
    <2>3. CASE s >= c
      <3>1. (\E i \in 1 .. m : at[i] = s) \/ (m = room /\ \A i \in 1 .. m : at[i] < s)
        BY <1>5, <1>6, <2>3 DEF Complete
      <3>2. CASE \E i \in 1 .. m : at[i] = s
        <4>1. PICK i \in 1 .. m : at[i] = s
          BY <3>2
        <4>2. i + 1 \in 2 .. m + 1 /\ i + 1 \in 1 .. m + 1 /\ (i + 1) - 1 = i
          OBVIOUS
        <4>3. to[i + 1] = s
          BY <1>9, <4>1, <4>2
        <4>4. QED BY <4>2, <4>3
      <3>3. CASE m = room /\ \A i \in 1 .. m : at[i] < s
        <4>1. \A i \in 2 .. m + 1 : to[i] < s
          BY <1>9, <1>10, <3>3
        <4>2. to[1] < s
          BY <1>2, <1>4, <1>9, <2>1, <2>3
        <4>3. \A i \in 1 .. m + 1 : i = 1 \/ i \in 2 .. m + 1
          OBVIOUS
        <4>4. \A i \in 1 .. m + 1 : to[i] < s
          BY <4>1, <4>2, <4>3, Zenon
        <4>5. QED BY <3>3, <4>4
      <3>4. QED BY <3>1, <3>2, <3>3
    <2>4. QED BY <1>4, <2>1, <2>2, <2>3
  <1>14. InOrder(to, words, line, p)
    BY <1>7, <1>11, <1>12 DEF InOrder
  <1>15. Complete(to, words, line, p, room + 1)
    BY <1>7, <1>13 DEF Complete
  <1>16. to \in [1 .. Len(words) -> StartsOf(line)] /\ Len(words) <= room + 1
    BY <1>6, <1>7
  <1>17. Listed(words, line, p, room + 1)
    BY <1>7, <1>14, <1>15, <1>16 DEF Listed
  <1>18. Gap(line, After(line, p) - 1)
    BY <1>2, <1>4
  <1>19. QED BY <1>3, <1>7, <1>17, <1>18

LEMMA SplitIs ==
    ASSUME NEW line \in Seq(STRING), NEW m \in Nat
    PROVE  Listed(str_split(line, m), line, 1, m)
  <1>1. PICK q : str_split(line, m) = q[<<1, 0>>] /\ Splits(q, line, m)
    BY SplitTrace
  <1> DEFINE From(k) == \A p \in Places(line), a \in 0 .. m :
                           a + k = m /\ Gap(line, p - 1) => Listed(q[<<p, a>>], line, p, k)
             T == {k \in Nat : From(k)}
  <1>2. 0 \in T
    <2>1. ASSUME NEW p \in Places(line), NEW a \in 0 .. m, a + 0 = m PROVE Listed(q[<<p, a>>], line, p, 0)
      <3>1. a = m
        BY <2>1
      <3>2. q[<<p, a>>] = <<>>
        BY <1>1, <3>1 DEF Splits
      <3>3. Listed(<<>>, line, p, 0)
        BY ListedNone
      <3>4. QED BY <3>2, <3>3
    <2>2. From(0)
      BY <2>1
    <2> HIDE DEF From
    <2>3. QED BY <2>2
  <1>3. ASSUME NEW k \in Nat, k \in T PROVE k + 1 \in T
    <2>0. From(k)
      BY <1>3
    <2>1. ASSUME NEW p \in Places(line), NEW a \in 0 .. m, a + (k + 1) = m, Gap(line, p - 1)
          PROVE  Listed(q[<<p, a>>], line, p, k + 1)
      <3>1. a # m /\ a + 1 \in 0 .. m /\ (a + 1) + k = m
        BY <2>1
      <3>2. CASE Ended(line, p)
        <4>1. q[<<p, a>>] = <<>>
          BY <1>1, <3>2 DEF Splits
        <4>2. PICK j \in Nat : j = k + 1
          OBVIOUS
        <4>3. Listed(<<>>, line, p, j)
          BY <3>2, ListedNone
        <4>4. QED BY <4>1, <4>2, <4>3
      <3>3. CASE ~ Ended(line, p)
        <4>1. q[<<p, a>>] = <<FirstWord(line, p)>> \o q[<<After(line, p), a + 1>>]
          BY <1>1, <3>1, <3>3 DEF Splits
        <4>2. PICK c \in Places(line) : c = After(line, p)
          BY <3>3, AfterOK
        <4>3. Gap(line, c - 1)
          <5>1. p \in Nat /\ p \in Nat \ {0} /\ p <= Len(line) + 1
            BY <3>3 DEF Places, Ended
          <5>2. PICK b \in Nat : b = WordStart(line, p) /\ p <= b /\ b <= Len(line)
            <6>1. WordStart(line, p) \in Nat /\ p <= WordStart(line, p)
              BY <5>1, StartIs
            <6>2. WordStart(line, p) <= Len(line)
              BY <3>3, <6>1 DEF Ended
            <6>3. QED BY <6>1, <6>2
          <5>3. b \in Nat \ {0} /\ b <= Len(line) + 1
            BY <5>1, <5>2
          <5>4. WordEnd(line, b) \in Nat /\ Gap(line, WordEnd(line, b))
            BY <5>3, EndIs
          <5>5. PICK e \in Nat : e = WordEnd(line, b)
            BY <5>4
          <5>6. c - 1 = e
            BY <4>2, <5>2, <5>5 DEF After
          <5>7. QED BY <5>4, <5>5, <5>6
        <4>4. PICK rest : rest = q[<<After(line, p), a + 1>>] /\ Listed(rest, line, After(line, p), k)
          <5>1. Listed(q[<<c, a + 1>>], line, c, k)
            BY <2>0, <3>1, <4>3
          <5>2. QED BY <4>2, <5>1
        <4>5. Listed(<<FirstWord(line, p)>> \o rest, line, p, k + 1)
          BY <2>1, <3>3, <4>4, ListedMore
        <4>6. QED BY <4>1, <4>4, <4>5
      <3>4. QED BY <3>2, <3>3
    <2>2. From(k + 1)
      BY <2>1
    <2> HIDE DEF From
    <2>3. QED BY <2>2
  <1> HIDE DEF T
  <1>4. m \in T
    BY <1>2, <1>3, Induction
  <1>5. From(m)
    BY <1>4 DEF T
  <1>6. 1 \in Places(line) /\ 0 \in 0 .. m /\ 0 + m = m
    BY DEF Places
  <1>7. Gap(line, 1 - 1)
    <2>1. 1 - 1 \notin DOMAIN line
      OBVIOUS
    <2>2. QED BY <2>1 DEF Gap
  <1>8. Listed(q[<<1, 0>>], line, 1, m)
    BY <1>5, <1>6, <1>7
  <1>9. QED BY <1>1, <1>8

LEMMA ArgsFacts ==
    ASSUME job \in Jobs
    PROVE  /\ job.divide.n \in Nat /\ job.divide.n < Pow(2, DIV_BITS)
           /\ job.divide.d \in Nat \ {0} /\ job.divide.d <= Pow(2, DIV_BITS - 1)
           /\ job.move.dst \in Nat \ {0} /\ job.move.src \in Nat \ {0} /\ job.move.len \in Nat /\ job.move.size \in Nat
           /\ job.move.dst + job.move.len <= job.move.size + 1 /\ job.move.src + job.move.len <= job.move.size + 1
           /\ job.line \in Seq(STRING)
  <1>1. ArgsOK(job)
    BY ConsoleConstants
  <1>2. PICK x \in Nat, y \in Nat : x = Pow(2, DIV_BITS) /\ y = Pow(2, DIV_BITS - 1)
    <2>1. DIV_BITS \in Nat /\ DIV_BITS - 1 \in Nat
      BY ConsoleConstants
    <2>2. Pow(2, DIV_BITS) \in Nat
      BY <2>1, PowFacts
    <2>3. Pow(2, DIV_BITS - 1) \in Nat
      BY <2>1, PowFacts
    <2>4. QED BY <2>2, <2>3
  <1>3. job.divide \in [n : 0 .. x - 1, d : 1 .. y]
    BY <1>1, <1>2 DEF ArgsOK
  <1>4. job.divide.n \in 0 .. x - 1 /\ job.divide.d \in 1 .. y
    BY <1>3
  <1>5. job.divide.n \in Nat /\ job.divide.n < x /\ job.divide.d \in Nat \ {0} /\ job.divide.d <= y
    BY <1>4
  <1>6. job.move \in [dst : Nat \ {0}, src : Nat \ {0}, len : Nat, size : Nat]
    BY <1>1 DEF ArgsOK
  <1>7. job.move.dst \in Nat \ {0} /\ job.move.src \in Nat \ {0} /\ job.move.len \in Nat /\ job.move.size \in Nat
    BY <1>6
  <1>8. /\ job.move.dst + job.move.len <= job.move.size + 1 /\ job.move.src + job.move.len <= job.move.size + 1
        /\ job.line \in Seq(STRING)
    BY <1>1 DEF ArgsOK
  <1>9. QED BY <1>2, <1>5, <1>7, <1>8

LEMMA RoutinesOK == job \in Jobs => RoutinesExact
  <1> SUFFICES ASSUME job \in Jobs PROVE RoutinesExact
    OBVIOUS
  <1>1. DivExact
    <2>1. PICK w \in Nat \ {0} : w = DIV_BITS
      BY ConsoleConstants
    <2>2. PICK a, d : a = job.divide.n /\ d = job.divide.d
      OBVIOUS
    <2>3. a \in Nat /\ a < Pow(2, w) /\ d \in Nat \ {0} /\ d <= Pow(2, w - 1)
      BY <2>1, <2>2, ArgsFacts
    <2>4. uldivmod(a, d, w).q = a \div d /\ uldivmod(a, d, w).rem = a % d
      BY <2>3, DivIs
    <2>5. QED BY <2>1, <2>2, <2>4 DEF DivExact
  <1>2. MoveExact
    <2>1. PICK dst, src, len, size : dst = job.move.dst /\ src = job.move.src /\ len = job.move.len /\ size = job.move.size
      OBVIOUS
    <2>2. /\ dst \in Nat \ {0} /\ src \in Nat \ {0} /\ len \in Nat /\ size \in Nat
          /\ dst + len <= size + 1 /\ src + len <= size + 1
      BY <2>1, ArgsFacts
    <2>3. memmove(Unmoved(size), dst, src, len) = Target(size, dst, src, len)
      BY <2>2, MoveIs
    <2>4. memmove(Unmoved(job.move.size), job.move.dst, job.move.src, job.move.len)
            = Target(job.move.size, job.move.dst, job.move.src, job.move.len)
      BY <2>1, <2>3
    <2>5. QED BY <2>4, Zenon DEF MoveExact, Unmoved, Target
  <1>3. SplitExact
    <2>1. PICK line \in Seq(STRING) : line = job.line
      BY ArgsFacts
    <2>2. MAX_ARGC \in Nat
      BY ConsoleConstants
    <2>3. PICK words : words = str_split(line, MAX_ARGC) /\ Listed(words, line, 1, MAX_ARGC)
      BY <2>2, SplitIs
    <2>4. PICK at \in [1 .. Len(words) -> StartsOf(line)] :
             InOrder(at, words, line, 1) /\ Complete(at, words, line, 1, MAX_ARGC)
      BY <2>3 DEF Listed
    <2>5. Len(words) <= MAX_ARGC
      BY <2>3 DEF Listed
    <2>6. \A s \in StartsOf(line) : s >= 1
      BY DEF StartsOf
    <2>7. /\ \A i \in 1 .. Len(words) : words[i] = WordAt(line, at[i])
          /\ \A i, j \in 1 .. Len(words) : i < j => at[i] < at[j]
          /\ \A s \in StartsOf(line) : \/ \E i \in 1 .. Len(words) : at[i] = s
                                       \/ Len(words) = MAX_ARGC /\ \A i \in 1 .. Len(words) : at[i] < s
      BY <2>4, <2>6 DEF InOrder, Complete
    <2>8. SplitExact <=>
            LET w == str_split(job.line, MAX_ARGC)
            IN  /\ Len(w) <= MAX_ARGC
                /\ \E to \in [1 .. Len(w) -> StartsOf(job.line)] :
                      /\ \A i \in 1 .. Len(w) : w[i] = WordAt(job.line, to[i])
                      /\ \A i, j \in 1 .. Len(w) : i < j => to[i] < to[j]
                      /\ \A s \in StartsOf(job.line) :
                            \/ \E i \in 1 .. Len(w) : to[i] = s
                            \/ Len(w) = MAX_ARGC /\ \A i \in 1 .. Len(w) : to[i] < s
      BY Zenon DEF SplitExact, StartsOf, Gap, WordAt
    <2>9. QED BY <2>1, <2>3, <2>4, <2>5, <2>7, <2>8
  <1>4. QED BY <1>1, <1>2, <1>3 DEF RoutinesExact

\* RoutinesExact.  What the library computes is what is asked of it, for every
\* width of the registers and every argument it may be called with: the shift
\* and subtract of a 64-bit division loses nothing while the divisor's top bit
\* is clear, memmove reads no byte it has overwritten, and str_split cuts a line
\* at its blanks and nowhere else, until there is no room for another word.
THEOREM RoutinesAlwaysExact == Spec => []RoutinesExact
  <1>1. CursorInv => RoutinesExact
    BY RoutinesOK DEF CursorInv
  <1>2. QED BY <1>1, CursorInit, CursorStep, PTL DEF Spec
=============================================================================
