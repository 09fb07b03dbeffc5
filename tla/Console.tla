------------------------------ MODULE Console ------------------------------
(***************************************************************************)
(* Everything that is printed: printf and pprintf of programs (stdio.c),   *)
(* the kernel's log (logs.c) on the UART (uart.c), the framebuffer's text  *)
(* console (fb.c) behind svc_write, svc_fb_clear and svc_fb_putc           *)
(* (syscall.c), the welcome text kmain prints while interrupts are on, and *)
(* the echo of a backspace from the interrupt (tty.c).                     *)
(*                                                                         *)
(* A system call runs with interrupts masked, so one svc_write is a step;  *)
(* printf makes one for every character, and a tick may come between any   *)
(* two.  The screen is a grid of characters.                               *)
(***************************************************************************)
EXTENDS Libc

CONSTANTS
    FB_COLS, FB_ROWS,
    Jobs,          \* whether fb_init found memory for a framebuffer, the
                   \* welcome text, each writer's calls, how many backspaces
                   \* are typed at most, and the arguments of the library's
                   \* pure routines
    MAX_ARGC       \* words the shell takes from a line

\* Tokens that are no part of a format are calls of their own.
Calls == {"clear", "at"}
Cells == (0 .. FB_ROWS - 1) \X (0 .. FB_COLS - 1)

\* A character is no call, the text of kmain has no control but newlines, and
\* the kernel's log is one writer: the kernel prints with interrupts masked.
Letter == STRING \ Calls
Token == [c : STRING, t : Letter, arg : 0 .. WORD - 1, str : Seq(Letter), at : Nat \X Nat]
JobOK(j) ==
    /\ j.welcome \in Seq(STRING \ {"CR", "BS", "HT"})
    /\ j.calls \in Seq([how : {"printf", "pprintf", "vkprintf"}, fmt : Seq(Token)])
    /\ \A p, q \in DOMAIN j.calls : j.calls[p].how = "vkprintf" /\ j.calls[q].how = "vkprintf" => p = q
    /\ j.backspaces \in Nat /\ j.fb_base \in BOOLEAN

\* The arguments of the pure routines: a divisor is not zero and at most half
\* the range, and what is moved lies within the memory.
ArgsOK(j) ==
    /\ j.divide \in [n : 0 .. Pow(2, DIV_BITS) - 1, d : 1 .. Pow(2, DIV_BITS - 1)]
    /\ j.move \in [dst : Nat \ {0}, src : Nat \ {0}, len : Nat, size : Nat]
    /\ j.move.dst + j.move.len <= j.move.size + 1 /\ j.move.src + j.move.len <= j.move.size + 1
    /\ j.line \in Seq(STRING)

ASSUME ConsoleConstants ==
    /\ {FB_COLS, FB_ROWS, BITS, DIV_BITS} \subseteq Nat \ {0}
    /\ MAX_ARGC \in Nat
    /\ \A j \in Jobs : JobOK(j) /\ ArgsOK(j)

VARIABLES
    job,                     \* one of Jobs
    todo, pend, n, stored,   \* per writer: tokens left, characters of the
                             \* current one left, count so far, and where %n put it
    grid, cursor_col, cursor_row,
    kpc, text, loaded,       \* kmain's fb_putc: step, text left, values it holds
    echoes,
    start, out, uart         \* the screen kmain left; what went to it since; the UART

screen == <<grid, cursor_col, cursor_row>>
boot == <<kpc, text, loaded, echoes, start>>
writers == <<todo, pend, n, stored>>
vars == <<job, writers, screen, boot, out, uart>>

Writers == DOMAIN job.calls
Blanks == [c \in Cells |-> " "]
Char(p, c) == [p |-> p, c |-> c, at |-> <<0, 0>>]
Snap == [grid |-> grid, col |-> cursor_col, row |-> cursor_row]

Init ==
    /\ job \in Jobs
    /\ todo = [p \in Writers |-> job.calls[p].fmt] /\ pend = [p \in Writers |-> <<>>]
    /\ n = [p \in Writers |-> 0] /\ stored = [p \in Writers |-> -1]
    /\ grid = Blanks /\ cursor_col = 0 /\ cursor_row = 0
    /\ kpc = "next" /\ text = job.welcome /\ loaded = [col |-> 0, row |-> 0]
    /\ echoes = 0 /\ start = Snap
    /\ out = <<>> /\ uart = <<>>

-----------------------------------------------------------------------------
(* fb.c.                                                                   *)

\* A glyph below the last row goes to memory behind the framebuffer.
draw_glyph(g, row, col, c) == IF <<row, col>> \in Cells THEN [g EXCEPT ![<<row, col>>] = c] ELSE g

\* Mutant of scroll_up: the last row is left as it was.
ScrollUpStale(g) ==
    [c \in Cells |-> IF c[1] + 1 < FB_ROWS THEN g[<<c[1] + 1, c[2]>>] ELSE g[c]]

\* scroll_up: every row moves up, the last one is cleared.
scroll_up(g) ==
    [c \in Cells |-> IF c[1] + 1 < FB_ROWS THEN g[<<c[1] + 1, c[2]>>] ELSE " "]

\* The end of fb_putc: wrap at the last column, scroll at the last row.
Normalise(s) ==
    LET row == IF s.col >= FB_COLS THEN s.row + 1 ELSE s.row
    IN  [col |-> IF s.col >= FB_COLS THEN 0 ELSE s.col,
         row |-> IF row >= FB_ROWS THEN FB_ROWS - 1 ELSE row,
         grid |-> IF row >= FB_ROWS THEN scroll_up(s.grid) ELSE s.grid]

\* A character on the framebuffer.
Put(s, c) ==
    Normalise(
      CASE c \in {"NL", "CR"} -> [s EXCEPT !.col = 0, !.row = @ + 1]
        [] c = "BS" -> IF s.col = 0 THEN s
                       ELSE [s EXCEPT !.col = @ - 1, !.grid = draw_glyph(@, s.row, s.col - 1, " ")]
        [] c = "HT" -> [s EXCEPT !.col = ((@ + 4) \div 4) * 4]
        [] OTHER -> [s EXCEPT !.col = @ + 1, !.grid = draw_glyph(@, s.row, s.col, c)])

\* fb_putc as a whole: without a framebuffer it returns.
fb_putc(s, c) == IF job.fb_base THEN Put(s, c) ELSE s

Show(s) == grid' = s.grid /\ cursor_col' = s.col /\ cursor_row' = s.row

-----------------------------------------------------------------------------
(* kmain prints the welcome text with interrupts on.  The cursor is not    *)
(* volatile: a statement may use the value in memory or the one kmain      *)
(* holds in a register, and two stores may be made in either order.        *)

Held(x, reg) == {x, reg}
Kmain(next) == kpc' = next /\ UNCHANGED <<job, writers, echoes, start, out, uart>>

\* Without a framebuffer kmain's characters go nowhere.
KmainDark ==
    /\ kpc = "next" /\ text # <<>> /\ ~ job.fb_base
    /\ text' = Tail(text)
    /\ UNCHANGED <<screen, loaded>> /\ Kmain("next")

\* The next character: the glyph is drawn, or the column reset.
KmainChar ==
    /\ kpc = "next" /\ text # <<>> /\ job.fb_base
    /\ text' = Tail(text)
    /\ loaded' = [col |-> cursor_col, row |-> cursor_row]
    /\ IF Head(text) = "NL"
         THEN UNCHANGED screen /\ Kmain("newline")
         ELSE /\ grid' = draw_glyph(grid, cursor_row, cursor_col, Head(text))
              /\ UNCHANGED <<cursor_col, cursor_row>> /\ Kmain("advance")

\* cursor_col++
KmainAdvance ==
    /\ kpc = "advance"
    /\ \E c \in Held(cursor_col, loaded.col) :
          cursor_col' = c + 1 /\ loaded' = [loaded EXCEPT !.col = c + 1]
    /\ UNCHANGED <<grid, cursor_row, text>> /\ Kmain("wrap")

\* cursor_col = 0 and cursor_row++, of a newline or a wrap, in either order.
KmainNewline ==
    \/ /\ kpc \in {"newline", "newline_row"}
       /\ cursor_col' = 0 /\ loaded' = [loaded EXCEPT !.col = 0]
       /\ UNCHANGED <<grid, cursor_row, text>>
       /\ Kmain(IF kpc = "newline" THEN "newline_col" ELSE "scroll")
    \/ /\ kpc \in {"newline", "newline_col"}
       /\ \E r \in Held(cursor_row, loaded.row) :
             cursor_row' = r + 1 /\ loaded' = [loaded EXCEPT !.row = r + 1]
       /\ UNCHANGED <<grid, cursor_col, text>>
       /\ Kmain(IF kpc = "newline" THEN "newline_row" ELSE "scroll")

\* if (cursor_col >= FB_COLS)
KmainWrap ==
    /\ kpc = "wrap"
    /\ \E c \in Held(cursor_col, loaded.col) : Kmain(IF c >= FB_COLS THEN "newline" ELSE "scroll")
    /\ UNCHANGED <<screen, text, loaded>>

\* Mutant of KmainScroll: a row behind the last one does not scroll the screen.
KmainScrollHeld ==
    /\ kpc = "scroll"
    /\ Kmain("next")
    /\ UNCHANGED <<screen, text, loaded>>

\* while (cursor_row >= FB_ROWS)
KmainScroll ==
    /\ kpc = "scroll"
    /\ \E r \in Held(cursor_row, loaded.row) :
          IF r < FB_ROWS THEN Kmain("next") /\ UNCHANGED <<screen, loaded>>
          ELSE /\ grid' = scroll_up(grid)
               /\ cursor_row' = r - 1 /\ loaded' = [loaded EXCEPT !.row = r - 1]
               /\ UNCHANGED cursor_col /\ Kmain("scroll")
    /\ UNCHANGED text

\* A backspace is typed behind an earlier key: tty_input erases a character.
\* It comes between two steps of kmain, or between two system calls.
Echo == <<"BS", " ", "BS">>
tty_input ==
    /\ kpc # "null" /\ echoes < job.backspaces
    /\ echoes' = echoes + 1
    /\ Show(fb_putc(fb_putc(fb_putc(Snap, Echo[1]), Echo[2]), Echo[3]))
    /\ out' = IF kpc = "procs" THEN out \o [k \in 1 .. 3 |-> Char(0, Echo[k])] ELSE out
    /\ UNCHANGED <<job, writers, kpc, text, loaded, start, uart>>

\* process_exec: from here on nothing prints with interrupts on.
StartProcs ==
    /\ kpc = "next" /\ text = <<>>
    /\ kpc' = "procs" /\ start' = Snap
    /\ UNCHANGED <<job, writers, screen, text, loaded, echoes, out, uart>>

-----------------------------------------------------------------------------
(* Writers: programs that call printf or pprintf, and the kernel's log.    *)

How(p) == job.calls[p].how

\* printf and pprintf return at a conversion they do not know; vkprintf goes on.
Leaves(how, tok) == how # "vkprintf" /\ tok.c = "%" /\ tok.t \notin Known

\* pprintf puts values in colour; the console has no escapes and draws them.
Colour(t) == IF t = "p" THEN <<"ESC", "[", "3", "1", ";", "4", "9", "m">> ELSE <<"ESC", "[", "9", "7", "m">>
Paint(how, tok, s) ==
    IF how = "pprintf" /\ tok.t \in {"d", "i", "u", "x", "o", "b", "t", "p"}
      THEN Colour(tok.t) \o s \o <<"ESC", "[", "0", "m">> ELSE s

\* What a token makes a writer print; Conv is what a conversion yields.
Printed(how, tok, Conv(_)) ==
    IF tok.c # "%" THEN <<tok.c>>
    ELSE IF how = "vkprintf" /\ tok.t = "n" THEN <<"?", "%", "n">>
    ELSE Paint(how, tok, Conv(tok))

\* n++ of a character, n += print(...) of a conversion.
PrintCount(how, tok) == Len(Printed(how, tok, Convert))

\* The loop of printf takes the next character of the format.
NextToken(p) ==
    /\ kpc = "procs" /\ pend[p] = <<>> /\ todo[p] # <<>>
    /\ Head(todo[p]).c \notin Calls
    /\ LET tok == Head(todo[p])
       IN /\ pend' = [pend EXCEPT ![p] = Printed(How(p), tok, Convert)]
          /\ todo' = [todo EXCEPT ![p] = IF Leaves(How(p), tok) THEN <<>> ELSE Tail(@)]
          /\ n' = [n EXCEPT ![p] = @ + PrintCount(How(p), tok)]
          /\ stored' = IF tok.c = "%" /\ tok.t = "n" /\ How(p) # "vkprintf"
                         THEN [stored EXCEPT ![p] = n[p]] ELSE stored
    /\ UNCHANGED <<job, screen, boot, out, uart>>

\* putchar, which is svc_write of one character; or kputchar to the UART.
putchar(p) ==
    /\ kpc = "procs" /\ pend[p] # <<>>
    /\ pend' = [pend EXCEPT ![p] = Tail(@)]
    /\ IF How(p) = "vkprintf"
         THEN uart' = Append(uart, Head(pend[p])) /\ UNCHANGED <<screen, out>>
         ELSE /\ out' = Append(out, Char(p, Head(pend[p])))
              /\ Show(fb_putc(Snap, Head(pend[p])))
              /\ UNCHANGED uart
    /\ UNCHANGED <<job, todo, n, stored, boot>>

\* A call that draws: clear always, svc_fb_putc inside the grid only.
Draws(call) == call.c = "clear" \/ call.at \in Cells

\* Neither call asks whether there is a framebuffer: without one it writes through
\* a null pointer, which the abort handler or the program's own pages take.
FbNull(p) ==
    /\ kpc = "procs" /\ pend[p] = <<>> /\ todo[p] # <<>>
    /\ Head(todo[p]).c \in Calls /\ Draws(Head(todo[p])) /\ ~ job.fb_base
    /\ kpc' = "null"
    /\ UNCHANGED <<job, writers, screen, text, loaded, echoes, start, out, uart>>

\* svc_fb_clear and svc_fb_putc.
FbCall(p) ==
    /\ kpc = "procs" /\ pend[p] = <<>> /\ todo[p] # <<>>
    /\ Head(todo[p]).c \in Calls /\ (Draws(Head(todo[p])) => job.fb_base)
    /\ LET call == Head(todo[p])
       IN /\ IF call.c = "clear" THEN Show([grid |-> Blanks, col |-> 0, row |-> 0])
             ELSE /\ grid' = IF call.at \in Cells THEN draw_glyph(grid, call.at[1], call.at[2], "@") ELSE grid
                  /\ UNCHANGED <<cursor_col, cursor_row>>
          /\ out' = Append(out, [p |-> p, c |-> call.c, at |-> call.at])
    /\ todo' = [todo EXCEPT ![p] = Tail(@)]
    /\ UNCHANGED <<job, pend, n, stored, boot, uart>>

Next ==
    \/ KmainDark \/ KmainChar \/ KmainAdvance \/ KmainNewline \/ KmainWrap \/ KmainScroll \/ tty_input \/ StartProcs
    \/ \E p \in Writers : NextToken(p)
    \/ \E p \in Writers : putchar(p)
    \/ \E p \in Writers : FbCall(p)
    \/ \E p \in Writers : FbNull(p)

Spec == Init /\ [][Next]_vars

-----------------------------------------------------------------------------

\* Every variable has its type.
TypeOK ==
    /\ DOMAIN grid = Cells
    /\ cursor_col \in 0 .. FB_COLS /\ cursor_row \in 0 .. FB_ROWS
    /\ kpc \in {"next", "advance", "newline", "newline_col", "newline_row", "wrap", "scroll", "procs", "null"}
    /\ \A p \in Writers : todo[p] \in Seq(Token)
    /\ \A c \in Cells : grid[c] \notin {"NL", "CR", "BS", "HT"}

\* Whatever echo the interrupt puts between two of kmain's statements, the
\* cursor is inside the grid again when the character is out: nothing a
\* process prints later is drawn outside the framebuffer.
CursorInside == kpc \in {"next", "procs"} => <<cursor_row, cursor_col>> \in Cells

\* The cursor and the grid keep their form under every interleaving.
CursorOK == TypeOK /\ CursorInside

\* What a token should print; a call of its own prints nothing.
Shows(how, tok) == IF tok.c \in Calls THEN <<>> ELSE Printed(how, tok, Meaning)
Said(how, fmt, k) ==
    LET said[j \in 0 .. k] == IF j = 0 THEN <<>> ELSE said[j - 1] \o Shows(how, fmt[j])
    IN  said[k]

\* What a call should print for a format: numbers are the shortest numerals,
\* and the first unknown conversion is the last one printed.
Wanted(how, fmt) ==
    LET bad == {k \in DOMAIN fmt : Leaves(how, fmt[k])}
    IN  Said(how, fmt, IF bad = {} THEN Len(fmt) ELSE CHOOSE k \in bad : \A j \in bad : k <= j)

\* The characters of p among what went to the screen, and those on the UART.
Chars(p, list) ==
    LET chars[k \in 0 .. Len(list)] ==
          IF k = 0 THEN <<>>
          ELSE IF list[k].p = p /\ list[k].c \notin Calls THEN Append(chars[k - 1], list[k].c)
          ELSE chars[k - 1]
    IN  chars[Len(list)]
By(p) == IF How(p) = "vkprintf" THEN uart ELSE Chars(p, out)

\* However ticks and echoes interleave the writers, the characters of each come
\* out in order and none is lost: they are a prefix of what its format means,
\* and all of it once the call has returned.
OutputExact ==
    \A p \in Writers :
        LET wanted == Wanted(How(p), job.calls[p].fmt)
        IN  /\ IsPrefix(By(p), wanted)
            /\ todo[p] = <<>> /\ pend[p] = <<>> => By(p) = wanted

\* %n stores how many characters the call had printed when it was met.
CountExact ==
    \A p \in Writers :
        LET fmt == job.calls[p].fmt
        IN  stored[p] # -1 =>
              \E k \in DOMAIN fmt : fmt[k].c = "%" /\ fmt[k].t = "n" /\ stored[p] = Len(Said(How(p), fmt, k - 1))

\* What printf, pprintf and vkprintf put out, and what %n reports of it.
PrintsExact == OutputExact /\ CountExact

\* The screen without scrolling: paper with as many rows as were ever begun.
\* A row that was never written is blank.
Paper(s, e) ==
    LET abs == s.top + s.row
        Wrap(r, c) == IF c >= FB_COLS THEN <<r + 1, 0>> ELSE <<r, c>>
        Go(rc, ink) == [ink |-> ink, col |-> rc[2],
                        top |-> IF rc[1] - s.top >= FB_ROWS THEN rc[1] - FB_ROWS + 1 ELSE s.top,
                        row |-> IF rc[1] - s.top >= FB_ROWS THEN FB_ROWS - 1 ELSE rc[1] - s.top]
        Ink(r, c, x) == [k \in DOMAIN s.ink \cup {<<r, c>>} |-> IF k = <<r, c>> THEN x ELSE s.ink[k]]
    IN  CASE e.c = "clear" -> [ink |-> [k \in {} |-> ""], col |-> 0, row |-> 0, top |-> s.top]
          [] e.c = "at" -> IF e.at \in Cells
                             THEN [s EXCEPT !.ink = Ink(s.top + e.at[1], e.at[2], "@")] ELSE s
          [] e.c \in {"NL", "CR"} -> Go(<<abs + 1, 0>>, s.ink)
          [] e.c = "BS" -> IF s.col = 0 THEN s ELSE Go(<<abs, s.col - 1>>, Ink(abs, s.col - 1, " "))
          [] e.c = "HT" -> Go(Wrap(abs, ((s.col + 4) \div 4) * 4), s.ink)
          [] OTHER -> Go(Wrap(abs, s.col + 1), Ink(abs, s.col, e.c))

\* Where there is a framebuffer, the screen is a window on that paper: scrolling, wrapping, clearing and
\* drawing in place never lose, double or misplace a character.
ScreenExact ==
    LET first == [ink |-> start.grid, col |-> start.col, row |-> start.row, top |-> 0]
        now == FoldLeft(Paper, first, out)
        Seen(r, c) == IF <<now.top + r, c>> \in DOMAIN now.ink THEN now.ink[<<now.top + r, c>>] ELSE " "
    IN  kpc = "procs" /\ job.fb_base =>
          /\ cursor_col = now.col /\ cursor_row = now.row
          /\ \A c \in Cells : grid[c] = Seen(c[1], c[2])

-----------------------------------------------------------------------------
(* The pure routines, on the arguments of the job.                         *)

\* The quotient and remainder of 64-bit division are exact, for divisors up to
\* half the range: above it the shifted remainder loses its top bit.
DivExact ==
    LET a == job.divide
        r == uldivmod(a.n, a.d, DIV_BITS)
    IN  r.q = a.n \div a.d /\ r.rem = a.n % a.d

\* memmove of overlapping ranges moves what was there before the call, and
\* changes nothing else.
MoveExact ==
    LET a == job.move
        memory == [k \in 1 .. a.size |-> k]
    IN  memmove(memory, a.dst, a.src, a.len) =
          [k \in 1 .. a.size |-> IF k \in a.dst .. a.dst + a.len - 1 THEN a.src + k - a.dst ELSE k]

\* The words of a line are its longest runs without blanks, in their order and
\* none left out; the shell takes the first MAX_ARGC.
SplitExact ==
    LET line == job.line
        words == str_split(line, MAX_ARGC)
        Gap(k) == k \notin DOMAIN line \/ line[k] \in Blank
        starts == {k \in DOMAIN line : ~ Gap(k) /\ Gap(k - 1)}
        Word(b) == SubSeq(line, b, CHOOSE e \in DOMAIN line : e >= b /\ Gap(e + 1) /\ \A k \in b .. e : ~ Gap(k))
    IN  /\ Len(words) <= MAX_ARGC
        /\ \E at \in [1 .. Len(words) -> starts] :
              /\ \A i \in 1 .. Len(words) : words[i] = Word(at[i])
              /\ \A i, j \in 1 .. Len(words) : i < j => at[i] < at[j]
              /\ \A s \in starts :
                    \/ \E i \in 1 .. Len(words) : at[i] = s
                    \/ Len(words) = MAX_ARGC /\ \A i \in 1 .. Len(words) : at[i] < s

\* The pure routines compute what their reference definitions say.
RoutinesExact == DivExact /\ MoveExact /\ SplitExact
=============================================================================
