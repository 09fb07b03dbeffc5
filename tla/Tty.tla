-------------------------------- MODULE Tty --------------------------------
(***************************************************************************)
(* The line discipline of src/kernel/tty.c: a ring of characters filled by *)
(* tty_input in the keyboard and UART interrupts and emptied by            *)
(* tty_readline, tty_getchar and tty_getchar_nb in a system call.          *)
(*                                                                         *)
(* svc_read and svc_getchar run with interrupts enabled, so an interrupt   *)
(* can come between any two accesses to the volatile variables: each       *)
(* access of the two blocking readers is a step of its own.  tty_input     *)
(* runs in IRQ mode and svc_getchar_nb with interrupts masked: one step.   *)
(* The kernel has one thread, so one reader is active at a time.           *)
(*                                                                         *)
(* A character is the number of the key press it came from and whether it  *)
(* is a newline ('\r' arrives as '\n').  The echo to the framebuffer and   *)
(* echo_chars, which only controls it, are left out.                       *)
(***************************************************************************)
EXTENDS Integers, Sequences

CONSTANTS
    LINE_BUF_SIZE,  \* slots of the ring
    U32,            \* 2^32: unsigned arithmetic wraps there
    Keys,           \* the keys pressed: "ch", "nl" and "bs"
    Ops,            \* the calls made: "readline", "getchar", "getchar_nb"
    MaxArgs,        \* the max argument of tty_readline
    MaxTyped,       \* bound on key presses
    MaxCalls        \* bound on calls

ASSUME TtyConstants ==
    /\ LINE_BUF_SIZE \in Nat /\ LINE_BUF_SIZE >= 2
    /\ U32 \in Nat /\ U32 > LINE_BUF_SIZE /\ U32 % LINE_BUF_SIZE = 0
    /\ Keys \subseteq {"ch", "nl", "bs"}
    /\ Ops \subseteq {"readline", "getchar", "getchar_nb"}
    /\ MaxArgs \subseteq 1 .. U32 - 1
    /\ MaxTyped \in Nat /\ MaxCalls \in Nat

Slots == 0 .. LINE_BUF_SIZE - 1
Words == 0 .. U32 - 1

\* What was in the caller's buffer, or past the end of the ring, before.
Garbage == [at |-> 0, nl |-> FALSE]
NUL     == [at |-> -1, nl |-> FALSE]
Char    == [at : 1 .. MaxTyped, nl : BOOLEAN]

VARIABLES
    g_line_buf, g_line_len, g_line_ready, g_line_start,
    pc,      \* the next volatile access of the reader, "idle" outside calls
    i, n,    \* locals of tty_readline; n is also the register of tty_getchar
    max,     \* argument of tty_readline
    out,     \* the caller's buffer
    typed,   \* key presses so far
    lines,   \* what each call returned, in order
    want,    \* the line being typed, edited by the backspaces
    asked,   \* the lines completed so far
    rung,    \* a newline was pressed while the current tty_readline waited
    plain,   \* no backspace was pressed and only tty_readline was called
    clean    \* only tty_readline was called, with max above the ring's size,
             \* keys were only pressed while it waited for its line, and every
             \* character found room

tty    == <<g_line_buf, g_line_len, g_line_ready, g_line_start>>
local  == <<pc, i, n, max, out>>
ghost  == <<want, asked, rung, plain, clean>>
vars   == <<tty, local, typed, lines, ghost>>

Init ==
    /\ g_line_buf = [s \in Slots |-> Garbage]
    /\ g_line_len = 0 /\ g_line_ready = FALSE /\ g_line_start = 0
    /\ pc = "idle" /\ i = 0 /\ n = 0 /\ max = 1
    /\ out = [k \in Words |-> Garbage]
    /\ typed = 0 /\ lines = <<>>
    /\ want = <<>> /\ asked = <<>> /\ rung = FALSE /\ plain = TRUE /\ clean = TRUE

Slot(k) == (g_line_start + k) % LINE_BUF_SIZE
HasRoom == g_line_len < LINE_BUF_SIZE - 1

-----------------------------------------------------------------------------
(* The interrupt side.                                                     *)

\* What the typist means, for the properties; forgotten once it is not clean.
Typing(key, c) ==
    /\ typed' = typed + 1
    /\ clean' = (clean /\ pc = "wait" /\ ~ g_line_ready /\ (key = "bs" \/ HasRoom))
    /\ plain' = (plain /\ key # "bs")
    /\ want' = CASE key = "nl" \/ ~ clean' -> <<>>
                 [] key = "ch" /\ clean' -> Append(want, c)
                 [] key = "bs" /\ clean' -> SubSeq(want, 1, Len(want) - 1)
    /\ asked' = CASE ~ clean' -> <<>>
                  [] key = "nl" /\ clean' -> Append(asked, want)
                  [] key # "nl" /\ clean' -> asked
    /\ rung' = (rung \/ (key = "nl" /\ pc = "wait"))

\* Mutant of Store: a newline that finds no room does not wake the reader.
StoreOrDrop(c) ==
    /\ IF HasRoom
         THEN /\ g_line_buf' = [g_line_buf EXCEPT ![Slot(g_line_len)] = c]
              /\ g_line_len' = g_line_len + 1
         ELSE UNCHANGED <<g_line_buf, g_line_len>>
    /\ g_line_ready' = (g_line_ready \/ (c.nl /\ HasRoom))

\* Store c if there is room; a newline makes the line ready in any case.
Store(c) ==
    /\ IF HasRoom
         THEN /\ g_line_buf' = [g_line_buf EXCEPT ![Slot(g_line_len)] = c]
              /\ g_line_len' = g_line_len + 1
         ELSE UNCHANGED <<g_line_buf, g_line_len>>
    /\ g_line_ready' = (g_line_ready \/ c.nl)

\* Backspace drops the last character, whatever it is.
Erase ==
    /\ g_line_len' = IF g_line_len > 0 THEN g_line_len - 1 ELSE 0
    /\ UNCHANGED <<g_line_buf, g_line_ready>>

tty_input(key) ==
    LET c == [at |-> typed + 1, nl |-> key = "nl"]
    IN /\ IF key = "bs" THEN Erase ELSE Store(c)
       /\ Typing(key, c)
       /\ UNCHANGED <<g_line_start, local, lines>>

Input == typed < MaxTyped /\ \E key \in Keys : tty_input(key)

-----------------------------------------------------------------------------
(* tty_readline.                                                           *)

Call(op) == pc = "idle" /\ op \in Ops /\ Len(lines) < MaxCalls

\* The reader moves from one access to the next and touches nothing else.
Goto(from, to) == pc = from /\ pc' = to

ReadCall ==
    /\ Call("readline")
    /\ pc' = "wait" /\ i' = 0 /\ n' = 0 /\ max' \in MaxArgs
    /\ out' = [k \in Words |-> Garbage]
    /\ rung' = FALSE /\ clean' = (clean /\ max' > LINE_BUF_SIZE)
    /\ UNCHANGED <<tty, typed, lines, want, asked, plain>>

\* while (!g_line_ready) wfi
ReadWait ==
    /\ Goto("wait", "test") /\ g_line_ready
    /\ UNCHANGED <<tty, i, n, max, out, typed, lines, ghost>>

\* if (!g_line_len)
ReadTest ==
    /\ Goto("test", IF g_line_len = 0 THEN "none" ELSE "count")
    /\ UNCHANGED <<tty, i, n, max, out, typed, lines, ghost>>

ReadNone ==
    /\ Goto("none", "idle")
    /\ g_line_ready' = FALSE
    /\ lines' = Append(lines, <<>>)
    /\ UNCHANGED <<g_line_buf, g_line_len, g_line_start, i, n, max, out, typed, ghost>>

\* n = g_line_len < max - 1 ? g_line_len - 1 : max - 1; g_line_len is read twice
ReadCount ==
    /\ \/ g_line_len < max - 1 /\ Goto("count", "minus") /\ UNCHANGED n
       \/ g_line_len >= max - 1 /\ Goto("count", "copy") /\ n' = max - 1
    /\ UNCHANGED <<tty, i, max, out, typed, lines, ghost>>

ReadMinus ==
    /\ Goto("minus", "copy")
    /\ n' = (g_line_len - 1) % U32
    /\ UNCHANGED <<tty, i, max, out, typed, lines, ghost>>

\* i < g_line_len
ReadMore ==
    /\ Goto("copy", IF i < g_line_len THEN "get" ELSE "end")
    /\ UNCHANGED <<tty, i, n, max, out, typed, lines, ghost>>

\* Mutant of ReadGet: the slot is not taken modulo the ring.
ReadGetFlat ==
    /\ Goto("get", "copy")
    /\ LET k == g_line_start + i
       IN out' = [out EXCEPT ![i] = IF k \in Slots THEN g_line_buf[k] ELSE Garbage]
    /\ i' = i + 1
    /\ UNCHANGED <<tty, n, max, typed, lines, ghost>>

\* buf[i] = g_line_buf[(g_line_start + i) % LINE_BUF_SIZE]
ReadGet ==
    /\ Goto("get", "copy")
    /\ out' = [out EXCEPT ![i] = g_line_buf[Slot(i)]]
    /\ i' = i + 1
    /\ UNCHANGED <<tty, n, max, typed, lines, ghost>>

\* buf[n] = '\0'
ReadEnd ==
    /\ Goto("end", "start")
    /\ out' = [out EXCEPT ![n] = NUL]
    /\ UNCHANGED <<tty, i, n, max, typed, lines, ghost>>

ReadStart ==
    /\ Goto("start", "len")
    /\ g_line_start' = Slot(g_line_len)
    /\ UNCHANGED <<g_line_buf, g_line_len, g_line_ready, i, n, max, out, typed, lines, ghost>>

\* Mutant of ReadLen: the line stays in the ring.
ReadLenKept ==
    /\ Goto("len", "ready")
    /\ UNCHANGED <<tty, i, n, max, out, typed, lines, ghost>>

ReadLen ==
    /\ Goto("len", "ready")
    /\ g_line_len' = 0
    /\ UNCHANGED <<g_line_buf, g_line_ready, g_line_start, i, n, max, out, typed, lines, ghost>>

\* The n characters of the caller's buffer are the result; the locals are gone.
ReadReady ==
    /\ Goto("ready", "idle")
    /\ g_line_ready' = FALSE
    /\ lines' = Append(lines, [k \in 1 .. n |-> out[k - 1]])
    /\ i' = 0 /\ n' = 0 /\ max' = 1 /\ out' = [k \in Words |-> Garbage]
    /\ UNCHANGED <<g_line_buf, g_line_len, g_line_start, typed, ghost>>

tty_readline ==
    \/ ReadCall \/ ReadWait \/ ReadTest \/ ReadNone \/ ReadCount \/ ReadMinus \/ ReadMore
    \/ ReadGet \/ ReadEnd \/ ReadStart \/ ReadLen \/ ReadReady

-----------------------------------------------------------------------------
(* tty_getchar and tty_getchar_nb: start is incremented without a modulo.  *)

\* g_line_buf[g_line_start], whatever lies there once start has left the ring.
AtStart == IF g_line_start \in Slots THEN g_line_buf[g_line_start] ELSE Garbage

OtherReader == plain' = FALSE /\ clean' = FALSE /\ UNCHANGED <<want, asked, rung>>

GetCall ==
    /\ Call("getchar") /\ pc' = "getwait"
    /\ OtherReader
    /\ UNCHANGED <<tty, i, n, max, out, typed, lines>>

GetWait ==
    /\ Goto("getwait", "getstart") /\ g_line_len # 0
    /\ UNCHANGED <<tty, i, n, max, out, typed, lines, ghost>>

GetStart ==
    /\ Goto("getstart", "getload")
    /\ out' = [out EXCEPT ![0] = AtStart]
    /\ g_line_start' = (g_line_start + 1) % U32
    /\ UNCHANGED <<g_line_buf, g_line_len, g_line_ready, i, n, max, typed, lines, ghost>>

\* g_line_len-- loads ...
GetLoad ==
    /\ Goto("getload", "getstore")
    /\ n' = g_line_len
    /\ UNCHANGED <<tty, i, max, out, typed, lines, ghost>>

\* Mutant of GetStore: the subtraction does not wrap.
GetStoreSigned ==
    /\ Goto("getstore", "idle")
    /\ g_line_len' = n - 1
    /\ lines' = Append(lines, <<out[0]>>)
    /\ n' = 0 /\ out' = [out EXCEPT ![0] = Garbage]
    /\ UNCHANGED <<g_line_buf, g_line_ready, g_line_start, i, max, typed, ghost>>

\* ... and stores.
GetStore ==
    /\ Goto("getstore", "idle")
    /\ g_line_len' = (n - 1) % U32
    /\ lines' = Append(lines, <<out[0]>>)
    /\ n' = 0 /\ out' = [out EXCEPT ![0] = Garbage]
    /\ UNCHANGED <<g_line_buf, g_line_ready, g_line_start, i, max, typed, ghost>>

tty_getchar == GetCall \/ GetWait \/ GetStart \/ GetLoad \/ GetStore

tty_getchar_nb ==
    /\ Call("getchar_nb")
    /\ IF g_line_len = 0
         THEN lines' = Append(lines, <<>>) /\ UNCHANGED tty
         ELSE /\ lines' = Append(lines, <<AtStart>>)
              /\ g_line_start' = (g_line_start + 1) % U32
              /\ g_line_len' = g_line_len - 1
              /\ UNCHANGED <<g_line_buf, g_line_ready>>
    /\ OtherReader
    /\ UNCHANGED <<local, typed>>

Reader == tty_readline \/ tty_getchar \/ tty_getchar_nb

Next == Input \/ Reader

Spec == Init /\ [][Next]_vars

\* A call that can take its next step takes it: the kernel has one thread and
\* every interrupt handler returns.  Nothing is assumed of the typist.
FairSpec == Spec /\ WF_vars(tty_readline /\ pc # "idle")

-----------------------------------------------------------------------------
(* Properties.                                                             *)

\* Every variable has its type; no arithmetic leaves the 32-bit words.
TypeOK ==
    /\ g_line_buf \in [Slots -> Char \cup {Garbage}]
    /\ g_line_len \in Words /\ g_line_start \in Words /\ g_line_ready \in BOOLEAN
    /\ pc \in {"idle", "wait", "test", "none", "count", "minus", "copy", "get", "end",
               "start", "len", "ready", "getwait", "getstart", "getload", "getstore"}
    /\ i \in 0 .. U32 /\ n \in Words /\ max \in Words
    /\ out \in [Words -> Char \cup {Garbage, NUL}]
    /\ typed \in 0 .. MaxTyped

\* The characters the calls have returned since boot, in order.
Delivered == LET cat[k \in 0 .. Len(lines)] == IF k = 0 THEN <<>> ELSE cat[k - 1] \o lines[k]
             IN cat[Len(lines)]

\* However key presses fall between the accesses of tty_readline, the characters
\* it returns were typed, come in the order they were typed, and come once, as
\* long as no backspace is pressed.
InOrder ==
    plain => \A k \in 1 .. Len(Delivered) :
        /\ Delivered[k].at > 0
        /\ k > 1 => Delivered[k - 1].at < Delivered[k].at

\* When each line is typed while a reader waits for it, and the caller's buffer
\* is larger than the ring, the calls return exactly the lines the typist edited,
\* as the ring wraps around.
CleanLines == clean /\ pc = "idle" => lines = asked

\* A newline lets the tty_readline that waits return, even when the ring is full
\* and has no room for the newline or backspaces have erased it again.
NewlineWakes == pc = "wait" /\ rung ~> pc = "idle"
=============================================================================
