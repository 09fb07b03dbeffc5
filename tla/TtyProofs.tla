----------------------------- MODULE TtyProofs -----------------------------
(***************************************************************************)
(* Tty for every ring size, every width of a word and every sequence of    *)
(* key presses and calls: type correctness, the order of what tty_readline *)
(* returns (InOrder), and the lines it returns (CleanLines).               *)
(***************************************************************************)
EXTENDS Tty, SequenceTheorems, WellFoundedInduction, TLAPS

Calm == {"idle", "wait", "test", "none", "count", "minus", "copy", "get", "end",
         "start", "len", "ready"}
Symbol == Char \cup {Garbage, NUL}

\* Slot k of a ring that starts at s.
RingSlot(s, k) == (s + k) % LINE_BUF_SIZE

\* The ring b from s holds len characters, all later than the character numbered
\* lo and not later than the one numbered hi, in the order they were typed.
Rises(b, s, len, lo, hi) ==
    /\ \A k \in 0 .. len - 1 : lo < b[RingSlot(s, k)].at /\ b[RingSlot(s, k)].at <= hi
    /\ \A j, k \in 0 .. len - 1 :
          j < k => b[RingSlot(s, j)].at < b[RingSlot(s, k)].at

\* The same of the first len entries of a buffer.
OutRises(o, len, lo, hi) ==
    /\ \A k \in 0 .. len - 1 : lo < o[k].at /\ o[k].at <= hi
    /\ \A j, k \in 0 .. len - 1 : j < k => o[j].at < o[k].at

\* The first len characters were copied from the ring.
Copied(o, b, s, len) == \A k \in 0 .. len - 1 : o[k] = b[RingSlot(s, k)]

\* The lines put one behind the other.
Joined(ls) == LET cat[k \in 0 .. Len(ls)] == IF k = 0 THEN <<>> ELSE cat[k - 1] \o ls[k]
              IN cat[Len(ls)]

\* A sequence of characters in the order they were typed, none after hi.
Ordered(d, hi) ==
    /\ \A k \in 1 .. Len(d) : 0 < d[k].at /\ d[k].at <= hi
    /\ \A j, k \in 1 .. Len(d) : j < k => d[j].at < d[k].at

\* What the registers and locals of the readers may hold.
LocalInv ==
    /\ pc = "get" => i \in Words
    /\ max >= 1
    /\ lines \in Seq(Seq(Symbol))

\* Where tty_readline stands in the ring, as long as nothing shortens it.
PlainShape ==
    /\ pc \in Calm
    /\ g_line_len < LINE_BUF_SIZE /\ g_line_start \in Slots
    /\ pc \in {"wait", "test", "count", "minus"} => i = 0
    /\ pc \in {"count", "minus"} => g_line_len > 0
    /\ pc \in {"copy", "get", "end"} => /\ i <= g_line_len /\ n <= g_line_len
                                        /\ Copied(out, g_line_buf, g_line_start, i)
    /\ pc = "get" => i < g_line_len
    /\ pc = "end" => n <= i

\* lo is the last character returned: the ring holds later ones, and so does the
\* caller's buffer once the line is copied.
PlainOrder(lo) ==
    /\ Ordered(Joined(lines), lo)
    /\ pc # "len" => Rises(g_line_buf, g_line_start, g_line_len, lo, typed)
    /\ pc \in {"start", "len", "ready"} => OutRises(out, n, lo, typed)
    /\ pc = "ready" => \A j \in 0 .. n - 1, k \in 0 .. g_line_len - 1 :
                          out[j].at < g_line_buf[RingSlot(g_line_start, k)].at

PlainInv == plain => PlainShape /\ \E lo \in 0 .. typed : PlainOrder(lo)

\* The characters of line l are in the ring.
Holds(b, s, l) == \A k \in 1 .. Len(l) : b[RingSlot(s, k - 1)] = l[k]

\* While the line is typed, the ring holds what the typist has so far.
TypingLine ==
    /\ asked = lines /\ ~ g_line_ready /\ i = 0
    /\ g_line_len = Len(want) /\ Holds(g_line_buf, g_line_start, want)

\* Once the newline is pressed: the line to be returned is the last one asked.
CopyingLine(l) ==
    /\ asked = Append(lines, l) /\ want = <<>> /\ g_line_ready
    /\ pc \in {"wait", "test", "count", "minus"} => i = 0
    /\ pc \notin {"len", "ready"} => g_line_len = Len(l) + 1 /\ Holds(g_line_buf, g_line_start, l)
    /\ pc \in {"copy", "get", "end"} => /\ n = Len(l) /\ i <= g_line_len
                                        /\ Copied(out, g_line_buf, g_line_start, i)
    /\ pc = "get" => i < g_line_len
    /\ pc = "end" => i = g_line_len
    /\ pc \in {"start", "len", "ready"} => n = Len(l) /\ \A k \in 1 .. n : out[k - 1] = l[k]
    /\ pc = "ready" => g_line_len = 0

CleanShape ==
    /\ pc \in Calm \ {"none"}
    /\ g_line_len < LINE_BUF_SIZE /\ g_line_start \in Slots
    /\ pc # "idle" => max > LINE_BUF_SIZE

CleanInv ==
    /\ asked \in Seq(Seq(Char)) /\ want \in Seq(Char)
    /\ clean =>
         /\ CleanShape
         /\ pc = "idle" => asked = lines /\ want = <<>> /\ g_line_len = 0 /\ ~ g_line_ready
         /\ pc # "idle" => \/ pc = "wait" /\ TypingLine
                           \/ \E l \in Seq(Char) : CopyingLine(l)

TtyInv == TypeOK /\ LocalInv /\ PlainInv /\ CleanInv

-----------------------------------------------------------------------------
(* Naturals.                                                               *)

\* A set of naturals has a least element.
LEMMA LeastNatural ==
    ASSUME NEW T \in SUBSET Nat, T # {}
    PROVE  \E x \in T : \A y \in T : x <= y
  <1> DEFINE Less == {ss \in Nat \X Nat : ss[1] < ss[2]}
  <1>1. IsWellFoundedOn(Less, Nat)
    BY NatLessThanWellFounded DEF OpToRel
  <1>2. PICK x \in T : \A y \in T : ~ (<<y, x>> \in Less)
    <2> HIDE DEF Less
    <2> QED BY <1>1, WFMin
  <1>3. \A y \in T : ~ (y < x)
    BY <1>2
  <1>4. QED BY <1>3

\* Induction, for a set in place of a predicate.
LEMMA Induction ==
    ASSUME NEW T, 0 \in T, \A k \in Nat : k \in T => k + 1 \in T
    PROVE  Nat \subseteq T
  <1> SUFFICES ASSUME NEW j \in Nat, j \notin T PROVE FALSE
    OBVIOUS
  <1> DEFINE M == {k \in Nat : k \notin T}
  <1>1. PICK x \in M : \A y \in M : x <= y
    BY LeastNatural
  <1>2. x - 1 \in Nat /\ x - 1 \notin M
    BY <1>1
  <1>3. QED BY <1>2

\* A multiple of Q other than 0 is at least Q away from it.
LEMMA Multiples ==
    ASSUME NEW Q \in Nat, Q > 0, NEW q \in Int
    PROVE  (q >= 1 => Q * q >= Q) /\ (q <= -1 => Q * q <= -Q)
  <1>1. q >= 1 => Q * q >= Q
    OBVIOUS
  <1>2. q <= -1 => Q * q <= -Q
    OBVIOUS
  <1>3. QED BY <1>1, <1>2

\* The slots of a ring are different, and inside it.
LEMMA Ring ==
    ASSUME NEW s \in Words, NEW k \in Words
    PROVE  /\ RingSlot(s, k) \in Slots
           /\ \A j \in Words : k < LINE_BUF_SIZE /\ j < LINE_BUF_SIZE
                                 /\ RingSlot(s, k) = RingSlot(s, j) => k = j
  <1> USE TtyConstants DEF Words, Slots, RingSlot
  <1>1. RingSlot(s, k) \in Slots
    OBVIOUS
  <1>2. ASSUME NEW j \in Words, k < LINE_BUF_SIZE, j < LINE_BUF_SIZE,
               RingSlot(s, k) = RingSlot(s, j)
        PROVE  k = j
    <2> DEFINE x == (s + k) \div LINE_BUF_SIZE
               y == (s + j) \div LINE_BUF_SIZE
               r == (s + k) % LINE_BUF_SIZE
               d == x - y
    <2>1. x \in Int /\ s + k = LINE_BUF_SIZE * x + r /\ r \in 0 .. LINE_BUF_SIZE - 1
      OBVIOUS
    <2>2. y \in Int /\ s + j = LINE_BUF_SIZE * y + r
      BY <1>2
    <2> HIDE DEF x, y, r
    <2>3. d \in Int /\ LINE_BUF_SIZE * d = k - j
      BY <2>1, <2>2
    <2> HIDE DEF d
    <2>4. (d >= 1 => LINE_BUF_SIZE * d >= LINE_BUF_SIZE)
          /\ (d <= -1 => LINE_BUF_SIZE * d <= -LINE_BUF_SIZE)
      BY <2>3, Multiples
    <2>5. d = 0
      BY <1>2, <2>3, <2>4
    <2>6. QED BY <2>3, <2>5
  <1>3. QED BY <1>1, <1>2

-----------------------------------------------------------------------------
(* Joined is what its definition says, and grows at its end.               *)

Joins(f, ls) ==
    /\ f = [k \in 0 .. Len(ls) |-> f[k]]
    /\ f[0] = <<>>
    /\ \A k \in 1 .. Len(ls) : f[k] = f[k - 1] \o ls[k]

LEMMA JoinedExists ==
    ASSUME NEW S, NEW ls \in Seq(Seq(S))
    PROVE  \E f \in [0 .. Len(ls) -> Seq(S)] : Joins(f, ls) /\ Joined(ls) = f[Len(ls)]
  <1> DEFINE E(f, m) == /\ f[0] = <<>>
                        /\ \A k \in 1 .. m : f[k] = f[k - 1] \o ls[k]
             Q(m) == \E f \in [0 .. m -> Seq(S)] : E(f, m)
             T == {m \in Nat : m <= Len(ls) => Q(m)}
  <1>1. Q(0)
    <2>1. [k \in 0 .. 0 |-> <<>>] \in [0 .. 0 -> Seq(S)] /\ E([k \in 0 .. 0 |-> <<>>], 0)
      OBVIOUS
    <2>2. QED BY <2>1
  <1>2. ASSUME NEW m \in Nat, m + 1 <= Len(ls), Q(m) PROVE Q(m + 1)
    <2>1. PICK f \in [0 .. m -> Seq(S)] : E(f, m)
      BY <1>2
    <2> DEFINE g == [k \in 0 .. m + 1 |-> IF k = m + 1 THEN f[m] \o ls[m + 1] ELSE f[k]]
    <2>2. f[m] \o ls[m + 1] \in Seq(S)
      <3>1. f[m] \in Seq(S) /\ ls[m + 1] \in Seq(S)
        BY <1>2
      <3>2. QED BY <3>1, ConcatProperties
    <2>3. g \in [0 .. m + 1 -> Seq(S)]
      BY <2>2
    <2>4. g[0] = <<>>
      BY <2>1
    <2>5. ASSUME NEW k \in 1 .. m + 1 PROVE g[k] = g[k - 1] \o ls[k]
      <3>1. CASE k = m + 1
        <4>1. g[m + 1] = f[m] \o ls[m + 1] /\ g[m] = f[m] /\ k - 1 = m
          BY <3>1
        <4>2. QED BY <3>1, <4>1
      <3>2. CASE k # m + 1
        <4>1. k \in 1 .. m /\ k - 1 \in 0 .. m
          BY <3>2
        <4>2. g[k] = f[k] /\ g[k - 1] = f[k - 1]
          BY <4>1
        <4>3. QED BY <2>1, <4>1, <4>2
      <3>3. QED BY <3>1, <3>2
    <2>6. QED BY <2>3, <2>4, <2>5
  <1>3. Q(Len(ls))
    <2> HIDE DEF Q
    <2>1. 0 \in T /\ \A m \in Nat : m \in T => m + 1 \in T
      BY <1>1, <1>2
    <2>2. Nat \subseteq T
      <3> HIDE DEF T
      <3> QED BY <2>1, Induction
    <2>3. QED BY <2>2
  <1>4. PICK f \in [0 .. Len(ls) -> Seq(S)] : E(f, Len(ls))
    BY <1>3
  <1> DEFINE Body(h) == [k \in 0 .. Len(ls) |-> IF k = 0 THEN <<>> ELSE h[k - 1] \o ls[k]]
             c == CHOOSE h : h = Body(h)
  <1>5. f = Body(f)
    BY <1>4
  <1>6. c = Body(c)
    <2> HIDE DEF Body
    <2> QED BY <1>5
  <1>7. Joined(ls) = c[Len(ls)]
    BY DEF Joined
  <1>8. /\ DOMAIN c = 0 .. Len(ls) /\ c[0] = <<>>
        /\ \A k \in 1 .. Len(ls) : c[k] = c[k - 1] \o ls[k]
    <2> HIDE DEF c
    <2>1. DOMAIN Body(c) = 0 .. Len(ls) /\ Body(c)[0] = <<>>
          /\ \A k \in 1 .. Len(ls) : Body(c)[k] = c[k - 1] \o ls[k]
      BY SMTT(30)
    <2> HIDE DEF Body
    <2>2. QED BY <1>6, <2>1
  <1> HIDE DEF c
  <1> DEFINE U == {m \in Nat : m <= Len(ls) => c[m] = f[m]}
  <1>9. Len(ls) \in Nat /\ Nat \subseteq U
    <2>1. 0 \in U
      BY <1>4, <1>8
    <2>2. ASSUME NEW m \in Nat, m \in U PROVE m + 1 \in U
      <3> SUFFICES ASSUME m + 1 <= Len(ls) PROVE c[m + 1] = f[m + 1]
        OBVIOUS
      <3>1. m + 1 \in 1 .. Len(ls) /\ (m + 1) - 1 = m /\ c[m] = f[m]
        BY <2>2
      <3>2. QED BY <3>1, <1>4, <1>8
    <2>3. Len(ls) \in Nat
      OBVIOUS
    <2> HIDE DEF U
    <2>4. QED BY <2>1, <2>2, <2>3, Induction
  <1>10. Joined(ls) = f[Len(ls)] /\ Joins(f, ls)
    BY <1>4, <1>7, <1>9 DEF Joins
  <1>11. QED BY <1>10

LEMMA JoinedType ==
    ASSUME NEW S, NEW ls \in Seq(Seq(S))
    PROVE  Joined(ls) \in Seq(S)
  <1>1. PICK f \in [0 .. Len(ls) -> Seq(S)] : Joined(ls) = f[Len(ls)]
    BY JoinedExists
  <1>2. Len(ls) \in 0 .. Len(ls)
    OBVIOUS
  <1>3. QED BY <1>1, <1>2

LEMMA JoinedEmpty == Joined(<<>>) = <<>>
  <1>1. <<>> \in Seq(Seq({}))
    OBVIOUS
  <1>2. QED BY <1>1, JoinedExists DEF Joins

LEMMA JoinedAppend ==
    ASSUME NEW S, NEW ls \in Seq(Seq(S)), NEW l \in Seq(S)
    PROVE  Joined(Append(ls, l)) = Joined(ls) \o l
  <1> DEFINE ms == Append(ls, l)
  <1>1. /\ ms \in Seq(Seq(S)) /\ Len(ms) = Len(ls) + 1 /\ ms[Len(ls) + 1] = l
        /\ \A k \in 1 .. Len(ls) : ms[k] = ls[k]
    OBVIOUS
  <1> HIDE DEF ms
  <1>2. PICK f : Joins(f, ls) /\ Joined(ls) = f[Len(ls)]
    BY JoinedExists
  <1>3. PICK g : Joins(g, ms) /\ Joined(ms) = g[Len(ms)]
    BY <1>1, JoinedExists
  <1> DEFINE U == {m \in Nat : m <= Len(ls) => g[m] = f[m]}
  <1>4. Len(ls) \in Nat /\ Nat \subseteq U
    <2>1. 0 \in U
      BY <1>2, <1>3 DEF Joins
    <2>2. ASSUME NEW m \in Nat, m \in U PROVE m + 1 \in U
      <3> SUFFICES ASSUME m + 1 <= Len(ls) PROVE g[m + 1] = f[m + 1]
        OBVIOUS
      <3>1. m + 1 \in 1 .. Len(ls) /\ m + 1 \in 1 .. Len(ms) /\ (m + 1) - 1 = m /\ g[m] = f[m]
        BY <1>1, <2>2
      <3>2. f[m + 1] = f[m] \o ls[m + 1] /\ g[m + 1] = g[m] \o ms[m + 1]
        BY <3>1, <1>2, <1>3 DEF Joins
      <3>3. QED BY <1>1, <3>1, <3>2
    <2>3. Len(ls) \in Nat
      OBVIOUS
    <2> HIDE DEF U
    <2>4. QED BY <2>1, <2>2, <2>3, Induction
  <1>5. g[Len(ls)] = f[Len(ls)]
    BY <1>4
  <1>6. g[Len(ls) + 1] = g[Len(ls)] \o l
    <2>1. Len(ls) + 1 \in 1 .. Len(ms) /\ (Len(ls) + 1) - 1 = Len(ls)
      BY <1>1
    <2>2. QED BY <1>1, <1>3, <2>1 DEF Joins
  <1>7. QED BY <1>1, <1>2, <1>3, <1>5, <1>6 DEF ms
-----------------------------------------------------------------------------
(* Types.                                                                  *)

\* Words, without mod.
LEMMA WordFacts ==
    /\ U32 \in Nat /\ LINE_BUF_SIZE \in Nat /\ 2 <= LINE_BUF_SIZE /\ LINE_BUF_SIZE < U32
    /\ Slots \subseteq Words
    /\ \A x \in Words : (x - 1) % U32 \in Words /\ (x + 1) % U32 \in Words
    /\ \A x \in Words : x > 0 => (x - 1) % U32 = x - 1
  BY TtyConstants DEF Words, Slots

\* A character that was typed is a symbol that can be stored.
LEMMA Typed ==
    ASSUME NEW t \in 0 .. MaxTyped, t < MaxTyped, NEW key
    PROVE  [at |-> t + 1, nl |-> key = "nl"] \in Char
  BY TtyConstants DEF Char

LEMMA TypeStep == TypeOK /\ LocalInv /\ Next => (TypeOK /\ LocalInv)'
  <1> SUFFICES ASSUME TypeOK, LocalInv, Next PROVE (TypeOK /\ LocalInv)'
    OBVIOUS
  <1> USE WordFacts DEF TypeOK, LocalInv, tty, local, ghost
  <1>1. CASE Input
    <2>1. PICK key \in Keys : tty_input(key)
      BY <1>1 DEF Input
    <2> DEFINE c == [at |-> typed + 1, nl |-> key = "nl"]
    <2>2. c \in Char /\ typed' \in 0 .. MaxTyped
      <3>1. typed \in 0 .. MaxTyped /\ typed < MaxTyped
        BY <1>1, TtyConstants DEF Input
      <3>2. typed' = typed + 1
        BY <2>1 DEF tty_input, Typing
      <3>3. c \in Char
        BY <3>1, Typed, Zenon
      <3>4. QED BY <3>1, <3>2, <3>3, TtyConstants
    <2>3. Slot(g_line_len) \in Slots
      BY Ring DEF RingSlot, Slot
    <2>4. (key = "bs" /\ Erase) \/ Store(c)
      BY <2>1 DEF tty_input
    <2> HIDE DEF c
    <2>5. g_line_buf' \in [Slots -> Char \cup {Garbage}] /\ g_line_len' \in Words
      <3>1. CASE Erase
        BY <3>1 DEF Erase, Words
      <3>2. CASE Store(c) /\ HasRoom
        <4>1. g_line_buf' = [g_line_buf EXCEPT ![Slot(g_line_len)] = c] /\ g_line_len' = g_line_len + 1
          BY <3>2 DEF Store
        <4>2. QED BY <2>2, <2>3, <3>2, <4>1 DEF HasRoom, Words
      <3>3. CASE Store(c) /\ ~ HasRoom
        BY <3>3 DEF Store
      <3>4. QED BY <2>4, <3>1, <3>2, <3>3
    <2>6. g_line_ready' \in BOOLEAN
      <3>1. CASE Erase
        BY <3>1 DEF Erase
      <3>2. CASE Store(c)
        <4>1. g_line_ready' = (g_line_ready \/ c.nl)
          BY <3>2 DEF Store
        <4>2. QED BY <4>1, Zenon
      <3>3. QED BY <2>4, <3>1, <3>2
    <2>7. UNCHANGED <<g_line_start, pc, i, n, max, out, lines>>
      BY <2>1 DEF tty_input
    <2>8. QED BY <2>2, <2>5, <2>6, <2>7
  <1>2. CASE ReadCall
    BY <1>2, TtyConstants DEF ReadCall, Call, Words, Symbol
  <1>3. CASE ReadWait \/ ReadTest
    BY <1>3 DEF ReadWait, ReadTest, Goto
  <1>4. CASE ReadNone
    <2>1. <<>> \in Seq(Symbol)
      OBVIOUS
    <2>2. lines' \in Seq(Seq(Symbol))
      BY <1>4, <2>1 DEF ReadNone
    <2>3. QED BY <1>4, <2>2 DEF ReadNone, Goto
  <1>5. CASE ReadCount
    BY <1>5 DEF ReadCount, Goto, Words
  <1>6. CASE ReadMinus
    BY <1>6 DEF ReadMinus, Goto
  <1>7. CASE ReadMore
    BY <1>7 DEF ReadMore, Goto, Words
  <1>8. CASE ReadGet
    <2>1. i \in Words
      BY <1>8 DEF ReadGet, Goto
    <2>2. Slot(i) \in Slots
      BY <2>1, Ring DEF RingSlot, Slot
    <2>3. g_line_buf[Slot(i)] \in Symbol
      BY <2>2 DEF Symbol
    <2>4. out' = [out EXCEPT ![i] = g_line_buf[Slot(i)]] /\ i' = i + 1
      BY <1>8 DEF ReadGet
    <2>5. out' \in [Words -> Symbol]
      BY <2>3, <2>4 DEF Symbol
    <2>6. QED BY <1>8, <2>1, <2>4, <2>5 DEF ReadGet, Goto, Words, Symbol
  <1>9. CASE ReadEnd
    BY <1>9 DEF ReadEnd, Goto
  <1>10. CASE ReadStart
    <2>1. Slot(g_line_len) \in Slots
      BY Ring DEF RingSlot, Slot
    <2>2. QED BY <1>10, <2>1 DEF ReadStart, Goto
  <1>11. CASE ReadLen
    BY <1>11 DEF ReadLen, Goto, Words
  <1>12. CASE ReadReady
    <2>1. \A k \in 1 .. n : out[k - 1] \in Symbol
      BY DEF Words, Symbol
    <2>2. [k \in 1 .. n |-> out[k - 1]] \in Seq(Symbol)
      <3>1. n \in Nat
        BY DEF Words
      <3>2. QED BY <2>1, <3>1, IsASeq
    <2>3. lines' \in Seq(Seq(Symbol))
      BY <1>12, <2>2 DEF ReadReady
    <2>4. out' \in [Words -> Char \cup {Garbage, NUL}] /\ i' \in 0 .. U32 /\ n' \in Words
          /\ max' \in Words /\ max' >= 1
      BY <1>12 DEF ReadReady, Words
    <2>5. QED BY <1>12, <2>3, <2>4 DEF ReadReady, Goto
  <1>13. CASE GetCall \/ GetWait
    BY <1>13 DEF GetCall, GetWait, Goto, Call
  <1>14. CASE GetStart
    <2>1. AtStart \in Symbol
      BY DEF AtStart, Symbol
    <2>2. out' \in [Words -> Symbol]
      BY <1>14, <2>1 DEF GetStart, Symbol
    <2>3. QED BY <1>14, <2>2 DEF GetStart, Goto, Symbol
  <1>15. CASE GetLoad
    BY <1>15 DEF GetLoad, Goto
  <1>16. CASE GetStore
    <2>1. out[0] \in Symbol
      BY DEF Words, Symbol
    <2>2. lines' \in Seq(Seq(Symbol))
      BY <1>16, <2>1 DEF GetStore
    <2>3. QED BY <1>16, <2>2 DEF GetStore, Goto, Words
  <1>17. CASE tty_getchar_nb
    <2>1. AtStart \in Symbol
      BY DEF AtStart, Symbol
    <2>2. lines' \in Seq(Seq(Symbol))
      <3>1. <<>> \in Seq(Symbol) /\ <<AtStart>> \in Seq(Symbol)
        BY <2>1
      <3>2. lines' = Append(lines, <<>>) \/ lines' = Append(lines, <<AtStart>>)
        BY <1>17 DEF tty_getchar_nb
      <3>3. \A l \in Seq(Symbol) : Append(lines, l) \in Seq(Seq(Symbol))
        BY AppendProperties
      <3>4. QED BY <3>1, <3>2, <3>3, Zenon
    <2>3. g_line_len' \in Words /\ g_line_start' \in Words /\ UNCHANGED <<g_line_buf, g_line_ready>>
      BY <1>17, SMTT(30) DEF tty_getchar_nb, Words
    <2>4. QED BY <1>17, <2>2, <2>3 DEF tty_getchar_nb
  <1>18. QED
    BY <1>1, <1>2, <1>3, <1>4, <1>5, <1>6, <1>7, <1>8, <1>9, <1>10, <1>11, <1>12, <1>13,
       <1>14, <1>15, <1>16, <1>17, Zenon DEF Next, Reader, tty_readline, tty_getchar

LEMMA TypeInit == Init => TypeOK /\ LocalInv
  <1> SUFFICES ASSUME Init PROVE TypeOK /\ LocalInv
    OBVIOUS
  <1>1. g_line_buf \in [Slots -> Char \cup {Garbage}] /\ out \in [Words -> Char \cup {Garbage, NUL}]
    BY DEF Init
  <1>2. lines \in Seq(Seq(Symbol))
    BY DEF Init
  <1>3. typed \in 0 .. MaxTyped /\ i \in 0 .. U32 /\ n \in Words /\ max \in Words /\ max >= 1
        /\ g_line_len \in Words /\ g_line_start \in Words
    BY WordFacts, TtyConstants DEF Init, Words
  <1>4. QED BY <1>1, <1>2, <1>3 DEF Init, TypeOK, LocalInv
-----------------------------------------------------------------------------
(* Order.                                                                  *)

\* The slots up to one are in the ring and different from it.
LEMMA RingPrefix ==
    ASSUME NEW s \in Slots, NEW len \in Nat, len < LINE_BUF_SIZE
    PROVE  /\ \A k \in 0 .. len : RingSlot(s, k) \in Slots
           /\ \A k \in 0 .. len : RingSlot(s, k) = RingSlot(s, len) => k = len
  <1>1. s \in Words /\ len \in Words
    BY WordFacts DEF Words
  <1> SUFFICES ASSUME NEW k \in 0 .. len
               PROVE  RingSlot(s, k) \in Slots /\ (RingSlot(s, k) = RingSlot(s, len) => k = len)
    OBVIOUS
  <1>2. k \in Words /\ k < LINE_BUF_SIZE
    BY WordFacts DEF Words
  <1>3. QED BY <1>1, <1>2, Ring

\* A character that comes after all others is stored behind the ring's.
LEMMA RisesStore ==
    ASSUME NEW b \in [Slots -> Char \cup {Garbage}], NEW s \in Slots, NEW len \in Nat,
           len + 1 < LINE_BUF_SIZE, NEW lo \in Nat, NEW hi \in Nat, lo <= hi,
           Rises(b, s, len, lo, hi), NEW c \in Char, c.at = hi + 1
    PROVE  Rises([b EXCEPT ![RingSlot(s, len)] = c], s, len + 1, lo, hi + 1)
  <1> DEFINE b2 == [b EXCEPT ![RingSlot(s, len)] = c]
  <1>3. /\ \A k \in 0 .. len : RingSlot(s, k) \in Slots
        /\ \A k \in 0 .. len : RingSlot(s, k) = RingSlot(s, len) => k = len
    BY RingPrefix, WordFacts
  <1>4. b2[RingSlot(s, len)] = c
    BY <1>3
  <1>5. \A k \in 0 .. len - 1 : b2[RingSlot(s, k)] = b[RingSlot(s, k)]
    BY <1>3
  <1>6. \A k \in 0 .. len - 1 : b[RingSlot(s, k)].at \in Int
    BY <1>3 DEF Char, Garbage
  <1> HIDE DEF b2
  <1>7. ASSUME NEW k \in 0 .. (len + 1) - 1
        PROVE  lo < b2[RingSlot(s, k)].at /\ b2[RingSlot(s, k)].at <= hi + 1
    BY <1>4, <1>5, <1>6 DEF Rises
  <1>8. ASSUME NEW j \in 0 .. (len + 1) - 1, NEW k \in 0 .. (len + 1) - 1, j < k
        PROVE  b2[RingSlot(s, j)].at < b2[RingSlot(s, k)].at
    BY <1>4, <1>5, <1>6, <1>8 DEF Rises
  <1>9. QED BY <1>7, <1>8 DEF Rises, b2

\* Storing behind the ring's characters leaves a copy of them a copy.
LEMMA CopiedStore ==
    ASSUME NEW b \in [Slots -> Char \cup {Garbage}], NEW s \in Slots, NEW len \in Nat,
           len + 1 < LINE_BUF_SIZE, NEW c, NEW o, NEW m \in Nat, m <= len, Copied(o, b, s, m)
    PROVE  Copied(o, [b EXCEPT ![RingSlot(s, len)] = c], s, m)
  <1>3. /\ \A k \in 0 .. len : RingSlot(s, k) \in Slots
        /\ \A k \in 0 .. len : RingSlot(s, k) = RingSlot(s, len) => k = len
    BY RingPrefix, WordFacts
  <1>4. QED BY <1>3 DEF Copied

\* The first entries of a copy are in order when the ring is.
LEMMA CopyRises ==
    ASSUME NEW o, NEW b, NEW s, NEW len \in Nat, NEW m \in Nat, NEW k \in Nat, NEW lo, NEW hi,
           k <= m, m <= len, Copied(o, b, s, m), Rises(b, s, len, lo, hi)
    PROVE  OutRises(o, k, lo, hi)
  BY DEF Copied, Rises, OutRises

\* A line in order, later than everything returned, keeps the order.
LEMMA OrderedLine ==
    ASSUME NEW d \in Seq(Symbol), NEW l \in Seq(Symbol), NEW lo \in Nat, Ordered(d, lo),
           NEW hi \in Nat, lo <= hi,
           \A k \in 1 .. Len(l) : lo < l[k].at /\ l[k].at <= hi,
           \A j, k \in 1 .. Len(l) : j < k => l[j].at < l[k].at
    PROVE  Ordered(d \o l, hi)
  <1>1. /\ Len(d \o l) = Len(d) + Len(l)
        /\ \A k \in 1 .. Len(d) : (d \o l)[k] = d[k]
        /\ \A k \in Len(d) + 1 .. Len(d) + Len(l) : (d \o l)[k] = l[k - Len(d)]
    BY ConcatProperties
  <1>2. \A x \in Symbol : x.at \in Int
    BY TtyConstants DEF Symbol, Char, Garbage, NUL
  <1>3. /\ \A k \in 1 .. Len(d) : d[k].at \in Int /\ 0 < d[k].at /\ d[k].at <= lo
        /\ \A k \in 1 .. Len(l) : l[k].at \in Int
    <2>1. (\A k \in 1 .. Len(d) : d[k] \in Symbol) /\ (\A k \in 1 .. Len(l) : l[k] \in Symbol)
      BY ElementOfSeq
    <2>2. QED BY <1>2, <2>1 DEF Ordered
  <1> DEFINE e == d \o l
             x == Len(d)
             y == Len(l)
  <1>4. x \in Nat /\ y \in Nat
    OBVIOUS
  <1>5. \A k \in x + 1 .. x + y : k - x \in 1 .. y
    BY <1>4
  <1> HIDE DEF e
  <1>6. ASSUME NEW k \in 1 .. x + y PROVE 0 < e[k].at /\ e[k].at <= hi
    <2>1. CASE k \in 1 .. x
      BY <1>1, <1>3, <1>4, <2>1 DEF e
    <2>2. CASE k \in x + 1 .. x + y
      <3>1. e[k] = l[k - x] /\ k - x \in 1 .. y
        BY <1>1, <1>5, <2>2 DEF e
      <3>2. QED BY <1>3, <3>1
    <2>3. QED BY <1>4, <2>1, <2>2
  <1>7. ASSUME NEW j \in 1 .. x + y, NEW k \in 1 .. x + y, j < k PROVE e[j].at < e[k].at
    <2>1. CASE k \in 1 .. x
      <3>1. j \in 1 .. x /\ e[j] = d[j] /\ e[k] = d[k]
        BY <1>1, <1>4, <1>7, <2>1 DEF e
      <3>2. QED BY <1>7, <2>1, <3>1 DEF Ordered
    <2>2. CASE j \in 1 .. x /\ k \in x + 1 .. x + y
      <3>1. e[j] = d[j] /\ e[k] = l[k - x] /\ k - x \in 1 .. y
        BY <1>1, <1>5, <2>2 DEF e
      <3>2. QED BY <1>3, <2>2, <3>1
    <2>3. CASE j \in x + 1 .. x + y
      <3>1. /\ k \in x + 1 .. x + y /\ e[j] = l[j - x] /\ e[k] = l[k - x]
            /\ j - x \in 1 .. y /\ k - x \in 1 .. y /\ j - x < k - x
        BY <1>1, <1>4, <1>5, <1>7, <2>3 DEF e
      <3>2. QED BY <3>1
    <2>4. QED BY <1>4, <2>1, <2>2, <2>3
  <1>8. QED BY <1>1, <1>6, <1>7 DEF Ordered, e
\* Copying one character more.
LEMMA CopyOne ==
    ASSUME NEW o \in [Words -> Symbol], NEW b, NEW s, NEW m \in Words, Copied(o, b, s, m)
    PROVE  Copied([o EXCEPT ![m] = b[RingSlot(s, m)]], b, s, m + 1)
  BY WordFacts DEF Copied, Words

LEMMA PlainStep ==
    ASSUME TypeOK, LocalInv, PlainInv, Next, plain', TypeOK'
    PROVE  PlainShape' /\ \E lo \in 0 .. typed' : PlainOrder(lo)'
  <1>1. CASE Input
    <2>1. PICK key \in Keys : tty_input(key)
      BY <1>1 DEF Input
    <2>2. /\ plain /\ key # "bs" /\ typed' = typed + 1
          /\ UNCHANGED <<g_line_start, pc, i, n, max, out, lines>>
      BY <2>1 DEF tty_input, Typing, local
    <2>3. PlainShape /\ \E lo \in 0 .. typed : PlainOrder(lo)
      BY <2>2 DEF PlainInv
    <2>4. PICK lo \in 0 .. typed : PlainOrder(lo)
      BY <2>3
    <2> DEFINE c == [at |-> typed + 1, nl |-> key = "nl"]
    <2>5. c \in Char /\ c.at = typed + 1
      <3>1. typed \in 0 .. MaxTyped /\ typed < MaxTyped
        BY <1>1, TtyConstants DEF Input, TypeOK
      <3>2. QED BY <3>1, Typed, Zenon
    <2>6. Store(c)
      BY <2>1, <2>2 DEF tty_input
    <2> HIDE DEF c
    <2>7. /\ g_line_buf \in [Slots -> Char \cup {Garbage}] /\ g_line_start \in Slots
          /\ g_line_len \in Nat /\ g_line_len < LINE_BUF_SIZE /\ typed \in Nat /\ lo \in Nat
          /\ i \in Nat /\ n \in Nat /\ lo <= typed
      BY <2>3, WordFacts, TtyConstants DEF PlainShape, TypeOK, Words
    <2>8. Ordered(Joined(lines), lo)
      BY <2>4 DEF PlainOrder
    <2>9. pc \in {"start", "len", "ready"} => OutRises(out, n, lo, typed + 1)
      <3>1. pc \in {"start", "len", "ready"} => OutRises(out, n, lo, typed)
        BY <2>4 DEF PlainOrder
      <3>2. \A k \in 0 .. n - 1 : out[k].at \in Int
        BY WordFacts, TtyConstants, SMTT(30) DEF TypeOK, Words, Char, Garbage, NUL
      <3>3. QED BY <2>7, <3>1, <3>2 DEF OutRises
    <2>10. CASE HasRoom
      <3>1. /\ g_line_buf' = [g_line_buf EXCEPT ![RingSlot(g_line_start, g_line_len)] = c]
            /\ g_line_len' = g_line_len + 1 /\ g_line_len + 1 < LINE_BUF_SIZE
        BY <2>6, <2>7, <2>10, WordFacts DEF Store, HasRoom, Slot, RingSlot
      <3>2. pc # "len" => Rises(g_line_buf', g_line_start, g_line_len', lo, typed + 1)
        <4>1. pc # "len" => Rises(g_line_buf, g_line_start, g_line_len, lo, typed)
          BY <2>4 DEF PlainOrder
        <4>2. QED BY <2>5, <2>7, <3>1, <4>1, RisesStore
      <3>3. pc \in {"copy", "get", "end"} => Copied(out, g_line_buf', g_line_start, i)
        <4>1. pc \in {"copy", "get", "end"} => i <= g_line_len /\ Copied(out, g_line_buf, g_line_start, i)
          BY <2>3 DEF PlainShape
        <4>2. QED BY <2>7, <3>1, <4>1, CopiedStore
      <3>4. pc = "ready" => \A j \in 0 .. n - 1, k \in 0 .. g_line_len' - 1 :
                               out[j].at < g_line_buf'[RingSlot(g_line_start, k)].at
        <4> SUFFICES ASSUME pc = "ready", NEW j \in 0 .. n - 1, NEW k \in 0 .. g_line_len
                     PROVE  out[j].at < g_line_buf'[RingSlot(g_line_start, k)].at
          BY <2>7, <3>1
        <4>1. out[j].at \in Int /\ out[j].at <= typed
          <5>1. OutRises(out, n, lo, typed)
            BY <2>4 DEF PlainOrder
          <5>2. j \in Words
            BY <2>7, WordFacts DEF TypeOK, Words
          <5>3. out[j].at \in Int
            BY <5>2, TtyConstants DEF TypeOK, Char, Garbage, NUL
          <5>4. QED BY <5>1, <5>3 DEF OutRises
        <4>2. CASE k = g_line_len
          <5>1. RingSlot(g_line_start, g_line_len) \in Slots
            BY <2>7, RingPrefix
          <5>2. QED BY <2>5, <2>7, <3>1, <4>1, <4>2, <5>1
        <4>3. CASE k # g_line_len
          <5>1. k \in 0 .. g_line_len - 1
            BY <2>7, <4>3
          <5>2. RingSlot(g_line_start, k) # RingSlot(g_line_start, g_line_len)
                /\ RingSlot(g_line_start, k) \in Slots
            BY <2>7, <4>3, RingPrefix
          <5>3. g_line_buf'[RingSlot(g_line_start, k)] = g_line_buf[RingSlot(g_line_start, k)]
            BY <2>7, <3>1, <5>2
          <5>4. QED BY <2>4, <5>1, <5>3 DEF PlainOrder
        <4>4. QED BY <4>2, <4>3
      <3>5. PlainShape'
        BY <2>2, <2>3, <2>7, <3>1, <3>3 DEF PlainShape
      <3>6. PlainOrder(lo)'
        BY <2>2, <2>8, <2>9, <3>2, <3>4 DEF PlainOrder
      <3>7. QED BY <2>2, <2>7, <3>5, <3>6
    <2>11. CASE ~ HasRoom
      <3>1. UNCHANGED <<g_line_buf, g_line_len>>
        BY <2>6, <2>11 DEF Store
      <3>2. pc # "len" => Rises(g_line_buf, g_line_start, g_line_len, lo, typed + 1)
        <4>1. pc # "len" => Rises(g_line_buf, g_line_start, g_line_len, lo, typed)
          BY <2>4 DEF PlainOrder
        <4>2. \A k \in 0 .. g_line_len - 1 : RingSlot(g_line_start, k) \in Slots
          BY <2>7, RingPrefix
        <4>3. \A k \in 0 .. g_line_len - 1 : g_line_buf[RingSlot(g_line_start, k)].at \in Int
          BY <2>7, <4>2, TtyConstants DEF Char, Garbage
        <4>4. QED BY <2>7, <4>1, <4>3 DEF Rises
      <3>3. PlainShape'
        BY <2>2, <2>3, <3>1 DEF PlainShape
      <3>4. PlainOrder(lo)'
        BY <2>2, <2>4, <2>8, <2>9, <3>1, <3>2 DEF PlainOrder
      <3>5. QED BY <2>2, <2>7, <3>3, <3>4
    <2>12. QED BY <2>10, <2>11
  <1>2. CASE Reader
    <2>1. plain /\ UNCHANGED typed
      BY <1>2 DEF Reader, tty_readline, tty_getchar, tty_getchar_nb, OtherReader, ghost,
                  ReadCall, ReadWait, ReadTest, ReadNone, ReadCount, ReadMinus, ReadMore, ReadGet,
                  ReadEnd, ReadStart, ReadLen, ReadReady, GetCall, GetWait, GetStart, GetLoad, GetStore
    <2>2. PlainShape /\ \E lo \in 0 .. typed : PlainOrder(lo)
      BY <2>1 DEF PlainInv
    <2>3. PICK lo \in 0 .. typed : PlainOrder(lo)
      BY <2>2
    <2>4. SUFFICES PlainShape' /\ \E hi \in 0 .. typed : PlainOrder(hi)'
      BY <2>1
    <2>5. /\ g_line_len \in Nat /\ typed \in Nat /\ lo \in Nat /\ n \in Nat /\ i \in Nat
          /\ n \in Words /\ g_line_start \in Slots /\ g_line_len < LINE_BUF_SIZE /\ g_line_len \in Words
      BY <2>2, WordFacts, TtyConstants DEF TypeOK, Words, PlainShape
    <2> USE DEF tty
    <2>6. CASE ReadCall
      BY <2>1, <2>2, <2>3, <2>6 DEF ReadCall, Call, PlainShape, PlainOrder, Calm
    <2>7. CASE ReadWait
      BY <2>1, <2>2, <2>3, <2>7 DEF ReadWait, Goto, PlainShape, PlainOrder, Calm
    <2>8. CASE ReadTest
      BY <2>1, <2>2, <2>3, <2>5, <2>8 DEF ReadTest, Goto, PlainShape, PlainOrder, Calm
    <2>9. CASE ReadNone
      <3>1. Joined(lines)' = Joined(lines)
        <4>1. lines \in Seq(Seq(Symbol)) /\ <<>> \in Seq(Symbol) /\ lines' = Append(lines, <<>>)
          BY <2>9 DEF ReadNone, LocalInv
        <4>2. Joined(Append(lines, <<>>)) = Joined(lines) \o <<>> /\ Joined(lines) \in Seq(Symbol)
          BY <4>1, JoinedAppend, JoinedType
        <4>3. Joined(lines) \o <<>> = Joined(lines)
          BY <4>2, ConcatEmptySeq
        <4>4. QED BY <4>1, <4>2, <4>3
      <3>2. QED BY <2>1, <2>2, <2>3, <2>9, <3>1 DEF ReadNone, Goto, PlainShape, PlainOrder, Calm
    <2>10. CASE ReadCount
      <3>1. i = 0
        BY <2>2, <2>10 DEF ReadCount, Goto, PlainShape
      <3>2. Copied(out, g_line_buf, g_line_start, 0)
        BY DEF Copied
      <3>3. PlainShape'
        BY <2>2, <2>5, <2>10, <3>1, <3>2, WordFacts DEF ReadCount, Goto, PlainShape, Calm, TypeOK, Words
      <3>4. PlainOrder(lo)'
        BY <2>1, <2>3, <2>10 DEF ReadCount, Goto, PlainOrder
      <3>5. QED BY <3>3, <3>4
    <2>11. CASE ReadMinus
      <3>1. i = 0 /\ g_line_len > 0
        BY <2>2, <2>11 DEF ReadMinus, Goto, PlainShape
      <3>2. Copied(out, g_line_buf, g_line_start, 0)
        BY DEF Copied
      <3>3. n' = g_line_len - 1
        BY <2>5, <2>11, <3>1, WordFacts DEF ReadMinus
      <3>4. PlainShape'
        BY <2>2, <2>5, <2>11, <3>1, <3>2, <3>3 DEF ReadMinus, Goto, PlainShape, Calm
      <3>5. PlainOrder(lo)'
        BY <2>1, <2>3, <2>11 DEF ReadMinus, Goto, PlainOrder
      <3>6. QED BY <3>4, <3>5
    <2>12. CASE ReadMore
      <3>1. PlainShape'
        BY <2>2, <2>5, <2>12 DEF ReadMore, Goto, PlainShape, Calm
      <3>2. PlainOrder(lo)'
        BY <2>1, <2>3, <2>12 DEF ReadMore, Goto, PlainOrder
      <3>3. QED BY <3>1, <3>2
    <2>13. CASE ReadGet
      <3>1. i \in Words /\ i < g_line_len /\ Copied(out, g_line_buf, g_line_start, i)
            /\ out' = [out EXCEPT ![i] = g_line_buf[RingSlot(g_line_start, i)]] /\ i' = i + 1
        BY <2>2, <2>13 DEF ReadGet, Goto, PlainShape, LocalInv, Slot, RingSlot
      <3>2. Copied(out', g_line_buf, g_line_start, i')
        BY <3>1, CopyOne DEF TypeOK, Symbol
      <3>3. PlainShape'
        BY <2>2, <2>5, <2>13, <3>1, <3>2 DEF ReadGet, Goto, PlainShape, Calm
      <3>4. PlainOrder(lo)'
        BY <2>1, <2>3, <2>13 DEF ReadGet, Goto, PlainOrder
      <3>5. QED BY <3>3, <3>4
    <2>14. CASE ReadEnd
      <3>1. /\ pc = "end" /\ n <= i /\ i <= g_line_len /\ Copied(out, g_line_buf, g_line_start, i)
            /\ out' = [out EXCEPT ![n] = NUL]
        BY <2>2, <2>14 DEF ReadEnd, Goto, PlainShape
      <3>2. Rises(g_line_buf, g_line_start, g_line_len, lo, typed)
        BY <2>3, <3>1 DEF PlainOrder
      <3>3. OutRises(out, n, lo, typed)
        BY <2>5, <3>1, <3>2, CopyRises
      <3>4. \A k \in 0 .. n - 1 : out'[k] = out[k]
        BY <2>5, <3>1, WordFacts DEF TypeOK, Words
      <3>5. OutRises(out', n, lo, typed)
        BY <3>3, <3>4 DEF OutRises
      <3>6. PlainShape'
        BY <2>2, <2>14 DEF ReadEnd, Goto, PlainShape, Calm
      <3>7. PlainOrder(lo)'
        BY <2>1, <2>3, <2>14, <3>2, <3>5 DEF ReadEnd, Goto, PlainOrder
      <3>8. QED BY <3>6, <3>7
    <2>15. CASE ReadStart
      <3>1. g_line_start' \in Slots
        <4>1. RingSlot(g_line_start, g_line_len) \in Slots
          BY <2>5, RingPrefix
        <4>2. QED BY <2>15, <4>1 DEF ReadStart, Slot, RingSlot
      <3>2. PlainShape'
        BY <2>2, <2>15, <3>1 DEF ReadStart, Goto, PlainShape, Calm
      <3>3. PlainOrder(lo)'
        BY <2>1, <2>3, <2>15 DEF ReadStart, Goto, PlainOrder
      <3>4. QED BY <3>2, <3>3
    <2>16. CASE ReadLen
      <3>1. Rises(g_line_buf', g_line_start', 0, lo, typed)
        BY DEF Rises
      <3>2. PlainShape'
        BY <2>2, <2>16, WordFacts DEF ReadLen, Goto, PlainShape, Calm
      <3>3. PlainOrder(lo)'
        BY <2>1, <2>3, <2>16, <3>1 DEF ReadLen, Goto, PlainOrder
      <3>4. QED BY <3>2, <3>3
    <2>17. CASE ReadReady
      <3> DEFINE l == [k \in 1 .. n |-> out[k - 1]]
      <3>1. /\ pc = "ready" /\ pc' = "idle" /\ lines' = Append(lines, l)
            /\ UNCHANGED <<g_line_buf, g_line_len, g_line_start, typed>>
        BY <2>17 DEF ReadReady, Goto
      <3>2. \A k \in 1 .. n : out[k - 1] \in Symbol
        BY <2>5, WordFacts DEF TypeOK, Words, Symbol
      <3>3. l \in Seq(Symbol) /\ Len(l) = n /\ \A k \in 1 .. n : l[k] = out[k - 1]
        BY <2>5, <3>2, IsASeq
      <3> HIDE DEF l
      <3>4. \A k \in 0 .. n - 1 : out[k].at \in Int
        BY WordFacts, TtyConstants DEF TypeOK, Words, Char, Garbage, NUL
      <3>5. OutRises(out, n, lo, typed)
        BY <2>3, <3>1 DEF PlainOrder
      <3>6. PICK hi \in 0 .. typed :
               /\ lo <= hi /\ \A k \in 0 .. n - 1 : out[k].at <= hi
               /\ hi = IF n = 0 THEN lo ELSE out[n - 1].at
        <4>1. CASE n = 0
          BY <2>5, <4>1
        <4>2. CASE n # 0
          <5>1. n - 1 \in 0 .. n - 1 /\ \A k \in 0 .. n - 1 : k = n - 1 \/ k < n - 1
            BY <2>5, <4>2
          <5>2. QED BY <2>5, <3>4, <3>5, <4>2, <5>1 DEF OutRises
        <4>3. QED BY <4>1, <4>2
      <3>7. Rises(g_line_buf, g_line_start, g_line_len, hi, typed)
        <4>1. CASE n = 0
          BY <2>3, <3>1, <3>6, <4>1 DEF PlainOrder
        <4>2. CASE n # 0
          <5>1. Rises(g_line_buf, g_line_start, g_line_len, lo, typed)
            BY <2>3, <3>1 DEF PlainOrder
          <5>2. \A k \in 0 .. g_line_len - 1 : hi < g_line_buf[RingSlot(g_line_start, k)].at
            <6>1. n - 1 \in 0 .. n - 1
              BY <2>5, <4>2
            <6>2. QED BY <2>3, <3>1, <3>6, <4>2, <6>1 DEF PlainOrder
          <5>3. QED BY <5>1, <5>2 DEF Rises
        <4>3. QED BY <4>1, <4>2
      <3>8. Joined(lines') = Joined(lines) \o l /\ Joined(lines) \in Seq(Symbol)
        BY <3>1, <3>3, JoinedAppend, JoinedType DEF LocalInv
      <3>9. Ordered(Joined(lines) \o l, hi)
        <4>1. \A k \in 1 .. Len(l) : lo < l[k].at /\ l[k].at <= hi
          <5>1. \A k \in 1 .. n : k - 1 \in 0 .. n - 1
            BY <2>5
          <5>2. \A k \in 0 .. n - 1 : lo < out[k].at /\ out[k].at <= hi
            BY <3>5, <3>6 DEF OutRises
          <5>3. QED BY <3>3, <5>1, <5>2
        <4>2. \A j, k \in 1 .. Len(l) : j < k => l[j].at < l[k].at
          <5>1. ASSUME NEW j \in 1 .. n, NEW k \in 1 .. n, j < k
                PROVE  out[j - 1].at < out[k - 1].at
            <6>1. j - 1 \in 0 .. n - 1 /\ k - 1 \in 0 .. n - 1 /\ j - 1 < k - 1
              BY <2>5, <5>1
            <6>2. QED BY <3>5, <6>1 DEF OutRises
          <5>2. QED BY <3>3, <5>1
        <4>3. Ordered(Joined(lines), lo)
          BY <2>3 DEF PlainOrder
        <4>4. hi \in Nat /\ lo <= hi
          BY <2>5, <3>6
        <4>5. QED BY <2>5, <3>3, <3>8, <4>1, <4>2, <4>3, <4>4, OrderedLine
      <3>10. PlainShape'
        BY <2>2, <2>17, <3>1 DEF PlainShape, Calm
      <3>11. PlainOrder(hi)'
        BY <3>1, <3>7, <3>8, <3>9 DEF PlainOrder
      <3>12. QED BY <3>6, <3>10, <3>11
    <2>18. CASE tty_getchar \/ tty_getchar_nb
      BY <2>2, <2>18 DEF tty_getchar, tty_getchar_nb, GetCall, GetWait, GetStart, GetLoad, GetStore,
                         Goto, OtherReader, PlainShape, Calm
    <2>19. QED
      BY <1>2, <2>6, <2>7, <2>8, <2>9, <2>10, <2>11, <2>12, <2>13, <2>14, <2>15, <2>16, <2>17,
         <2>18, Zenon DEF Reader, tty_readline
  <1>3. QED BY <1>1, <1>2, Zenon DEF Next
-----------------------------------------------------------------------------
(* Lines.                                                                  *)

\* Storing behind a line leaves the line in the ring; the character stored is
\* its next one.
LEMMA HoldsStore ==
    ASSUME NEW b \in [Slots -> Char \cup {Garbage}], NEW s \in Slots, NEW l \in Seq(Char),
           Len(l) + 1 < LINE_BUF_SIZE, Holds(b, s, l), NEW c \in Char
    PROVE  /\ Holds([b EXCEPT ![RingSlot(s, Len(l))] = c], s, l)
           /\ Holds([b EXCEPT ![RingSlot(s, Len(l))] = c], s, Append(l, c))
  <1> DEFINE b2 == [b EXCEPT ![RingSlot(s, Len(l))] = c]
             m == Append(l, c)
  <1>1. Len(l) \in Nat /\ Len(m) = Len(l) + 1 /\ m[Len(l) + 1] = c
        /\ \A k \in 1 .. Len(l) : m[k] = l[k]
    OBVIOUS
  <1>2. /\ \A k \in 0 .. Len(l) : RingSlot(s, k) \in Slots
        /\ \A k \in 0 .. Len(l) : RingSlot(s, k) = RingSlot(s, Len(l)) => k = Len(l)
    BY <1>1, RingPrefix, WordFacts
  <1>3. \A k \in 1 .. Len(l) : k - 1 \in 0 .. Len(l) /\ k - 1 # Len(l)
    BY <1>1
  <1>4. Len(l) \in 0 .. Len(l)
    BY <1>1
  <1>5. b2[RingSlot(s, Len(l))] = c /\ \A k \in 1 .. Len(l) : b2[RingSlot(s, k - 1)] = l[k]
    BY <1>2, <1>3, <1>4 DEF Holds
  <1> HIDE DEF b2, m
  <1>6. ASSUME NEW k \in 1 .. Len(m) PROVE b2[RingSlot(s, k - 1)] = m[k]
    <2>1. CASE k = Len(l) + 1
      <3>1. k - 1 = Len(l)
        BY <1>1, <2>1
      <3>2. QED BY <1>1, <1>5, <2>1, <3>1
    <2>2. CASE k # Len(l) + 1
      <3>1. k \in 1 .. Len(l)
        BY <1>1, <2>2
      <3>2. QED BY <1>1, <1>5, <3>1
    <2>3. QED BY <2>1, <2>2
  <1>7. QED BY <1>5, <1>6 DEF Holds, b2, m

\* A backspace takes the last character from the line and from the ring.
LEMMA HoldsErase ==
    ASSUME NEW b, NEW s, NEW l \in Seq(Char), Holds(b, s, l)
    PROVE  LET m == SubSeq(l, 1, Len(l) - 1)
           IN  /\ m \in Seq(Char) /\ Holds(b, s, m)
               /\ Len(m) = IF Len(l) > 0 THEN Len(l) - 1 ELSE 0
  BY DEF Holds

LEMMA CleanStep ==
    ASSUME TypeOK, LocalInv, CleanInv, Next
    PROVE  CleanInv'
  <1>1. /\ asked \in Seq(Seq(Char)) /\ want \in Seq(Char)
        /\ lines \in Seq(Seq(Symbol)) /\ g_line_len \in Words /\ g_line_start \in Words
        /\ g_line_len \in Nat /\ n \in Words
    BY WordFacts DEF CleanInv, LocalInv, TypeOK, Words
  <1>2. CASE Input
    <2>1. PICK key \in Keys : tty_input(key)
      BY <1>2 DEF Input
    <2> DEFINE c == [at |-> typed + 1, nl |-> key = "nl"]
    <2>2. c \in Char /\ c.nl = (key = "nl")
      <3>1. typed \in 0 .. MaxTyped /\ typed < MaxTyped
        BY <1>2, TtyConstants DEF Input, TypeOK
      <3>2. QED BY <3>1, Typed, Zenon
    <2>3. /\ IF key = "bs" THEN Erase ELSE Store(c)
          /\ Typing(key, c)
          /\ UNCHANGED <<g_line_start, pc, i, n, max, out, lines>>
      BY <2>1 DEF tty_input, local
    <2> HIDE DEF c
    <2>4. CASE ~ clean'
      BY <1>1, <2>3, <2>4 DEF Typing, CleanInv
    <2>5. CASE clean'
      <3>1. clean /\ pc = "wait" /\ ~ g_line_ready /\ (key = "bs" \/ HasRoom)
        BY <2>3, <2>5 DEF Typing
      <3>2. TypingLine /\ CleanShape
        <4>1. pc # "idle" /\ ((pc = "wait" /\ TypingLine) \/ \E l \in Seq(Char) : CopyingLine(l)) /\ CleanShape
          BY <3>1 DEF CleanInv
        <4>2. ASSUME NEW l \in Seq(Char), CopyingLine(l) PROVE FALSE
          BY <3>1, <4>2 DEF CopyingLine
        <4>3. QED BY <4>1, <4>2
      <3>3. key \in {"ch", "nl", "bs"}
        BY TtyConstants
      <3>4. /\ g_line_buf \in [Slots -> Char \cup {Garbage}] /\ g_line_start \in Slots
            /\ g_line_len = Len(want) /\ g_line_len < LINE_BUF_SIZE
            /\ Holds(g_line_buf, g_line_start, want)
        BY <3>2 DEF TypeOK, TypingLine, CleanShape
      <3>5. CASE key = "bs"
        <4>1. want' = SubSeq(want, 1, Len(want) - 1) /\ asked' = asked
          BY <2>3, <2>5, <3>5 DEF Typing
        <4>2. Erase
          BY <2>3, <3>5
        <4>3. want' \in Seq(Char) /\ Holds(g_line_buf, g_line_start, want')
              /\ Len(want') = IF Len(want) > 0 THEN Len(want) - 1 ELSE 0
          BY <1>1, <3>4, <4>1, HoldsErase
        <4>4. g_line_len' = Len(want') /\ UNCHANGED <<g_line_buf, g_line_ready>>
          BY <3>4, <4>2, <4>3 DEF Erase
        <4>5. g_line_len' < LINE_BUF_SIZE
          BY <1>1, <3>4, <4>3, <4>4, WordFacts
        <4>6. TypingLine' /\ CleanShape'
          BY <2>3, <3>2, <4>1, <4>3, <4>4, <4>5 DEF TypingLine, CleanShape
        <4>7. QED BY <1>1, <2>3, <3>1, <4>1, <4>3, <4>6 DEF CleanInv
      <3>6. CASE key # "bs"
        <4>1. /\ HasRoom /\ Store(c)
          BY <2>3, <3>1, <3>6
        <4>2. /\ g_line_buf' = [g_line_buf EXCEPT ![RingSlot(g_line_start, Len(want))] = c]
              /\ g_line_len' = Len(want) + 1 /\ Len(want) + 1 < LINE_BUF_SIZE
          <5>1. Slot(g_line_len) = RingSlot(g_line_start, Len(want))
            BY <3>4 DEF Slot, RingSlot
          <5>2. g_line_buf' = [g_line_buf EXCEPT ![Slot(g_line_len)] = c] /\ g_line_len' = g_line_len + 1
            BY <4>1 DEF Store
          <5>3. g_line_len + 1 < LINE_BUF_SIZE
            BY <1>1, <4>1, WordFacts DEF HasRoom
          <5>4. QED BY <3>4, <5>1, <5>2, <5>3
        <4>3. Holds(g_line_buf', g_line_start, want) /\ Holds(g_line_buf', g_line_start, Append(want, c))
          BY <1>1, <2>2, <3>4, <4>2, HoldsStore
        <4>4. CleanShape'
          BY <2>3, <3>2, <4>2 DEF CleanShape
        <4>5. CASE key = "ch"
          <5>1. want' = Append(want, c) /\ asked' = asked
            BY <2>3, <2>5, <4>5 DEF Typing
          <5>2. Len(want') = Len(want) + 1 /\ want' \in Seq(Char)
            BY <1>1, <2>2, <5>1
          <5>3. ~ g_line_ready'
            <6>1. g_line_ready' = (g_line_ready \/ c.nl)
              BY <4>1 DEF Store
            <6>2. QED BY <2>2, <3>1, <4>5, <6>1
          <5>4. TypingLine'
            BY <2>3, <3>2, <4>2, <4>3, <5>1, <5>2, <5>3 DEF TypingLine
          <5>5. QED BY <1>1, <2>3, <3>1, <4>4, <5>1, <5>2, <5>4 DEF CleanInv
        <4>6. CASE key = "nl"
          <5>1. want' = <<>> /\ asked' = Append(asked, want)
            BY <2>3, <2>5, <4>6 DEF Typing
          <5>2. g_line_ready'
            <6>1. g_line_ready' = (g_line_ready \/ c.nl)
              BY <4>1 DEF Store
            <6>2. QED BY <2>2, <4>6, <6>1
          <5>3. PICK l \in Seq(Char) : l = want
            BY <1>1
          <5>4. asked' \in Seq(Seq(Char)) /\ want' \in Seq(Char)
            BY <1>1, <5>1
          <5>5. asked' = Append(lines', l)
            BY <2>3, <3>2, <5>1, <5>3 DEF TypingLine
          <5>6. i' = 0 /\ pc' = "wait"
            BY <2>3, <3>1, <3>2 DEF TypingLine
          <5>7. g_line_len' = Len(l) + 1 /\ Holds(g_line_buf', g_line_start', l)
            BY <2>3, <4>2, <4>3, <5>3
          <5>8. CopyingLine(l)'
            BY <5>1, <5>2, <5>5, <5>6, <5>7 DEF CopyingLine
          <5>9. QED BY <4>4, <5>4, <5>6, <5>8 DEF CleanInv
        <4>7. QED BY <3>3, <3>6, <4>5, <4>6
      <3>7. QED BY <3>5, <3>6
    <2>6. QED BY <2>4, <2>5
  <1>3. CASE tty_getchar_nb \/ GetCall
    <2>1. ~ clean' /\ UNCHANGED <<want, asked>>
      BY <1>3 DEF tty_getchar_nb, GetCall, OtherReader
    <2>2. QED BY <1>1, <2>1 DEF CleanInv
  <1>4. CASE ReadCall
    <2>1. /\ pc = "idle" /\ pc' = "wait" /\ i' = 0 /\ clean' = (clean /\ max' > LINE_BUF_SIZE)
          /\ UNCHANGED <<g_line_buf, g_line_len, g_line_ready, g_line_start, lines, want, asked>>
      BY <1>4 DEF ReadCall, Call, tty
    <2>2. ASSUME clean' PROVE CleanShape' /\ TypingLine'
      <3>1. asked = lines /\ want = <<>> /\ g_line_len = 0 /\ ~ g_line_ready /\ CleanShape
        BY <2>1, <2>2 DEF CleanInv
      <3>2. max' > LINE_BUF_SIZE
        BY <2>1, <2>2
      <3>3. Holds(g_line_buf, g_line_start, <<>>)
        BY DEF Holds
      <3>4. QED BY <2>1, <3>1, <3>2, <3>3 DEF CleanShape, TypingLine, Calm
    <2>3. QED BY <1>1, <2>1, <2>2 DEF CleanInv
  <1>5. CASE \/ ReadWait \/ ReadTest \/ ReadNone \/ ReadCount \/ ReadMinus \/ ReadMore
             \/ ReadGet \/ ReadEnd \/ ReadStart \/ ReadLen \/ ReadReady
             \/ GetWait \/ GetStart \/ GetLoad \/ GetStore
    <2>1. UNCHANGED <<want, asked, clean>>
      BY <1>5 DEF ghost, ReadWait, ReadTest, ReadNone, ReadCount, ReadMinus, ReadMore, ReadGet,
                  ReadEnd, ReadStart, ReadLen, ReadReady, GetWait, GetStart, GetLoad, GetStore
    <2>2. CASE ~ clean
      BY <1>1, <2>1, <2>2 DEF CleanInv
    <2>3. CASE clean
      <3>1. CleanShape /\ pc # "idle"
        BY <1>5, <2>3 DEF CleanInv, Goto, ReadWait, ReadTest, ReadNone, ReadCount, ReadMinus,
                          ReadMore, ReadGet, ReadEnd, ReadStart, ReadLen, ReadReady,
                          GetWait, GetStart, GetLoad, GetStore
      <3>2. PICK l \in Seq(Char) : CopyingLine(l)
        <4>1. (pc = "wait" /\ TypingLine) \/ \E l \in Seq(Char) : CopyingLine(l)
          BY <2>3, <3>1 DEF CleanInv
        <4>2. ASSUME pc = "wait", TypingLine PROVE FALSE
          BY <1>5, <4>2 DEF TypingLine, Goto, ReadWait, ReadTest, ReadNone, ReadCount, ReadMinus,
                          ReadMore, ReadGet, ReadEnd, ReadStart, ReadLen, ReadReady,
                          GetWait, GetStart, GetLoad, GetStore
        <4>3. QED BY <4>1, <4>2
      <3>3. Len(l) \in Nat
        OBVIOUS
      <3> SUFFICES /\ CleanShape'
                   /\ \/ pc' # "idle" /\ CopyingLine(l)'
                      \/ pc' = "idle" /\ asked = lines' /\ want = <<>> /\ g_line_len' = 0 /\ ~ g_line_ready'
        BY <1>1, <2>1 DEF CleanInv
      <3> USE <1>1, <2>1, <3>1, <3>2, <3>3, WordFacts DEF Goto, tty
      <3>4. CASE ReadWait
        BY <3>4 DEF ReadWait, CleanShape, Calm, CopyingLine
      <3>5. CASE ReadTest
        BY <3>5 DEF ReadTest, CleanShape, Calm, CopyingLine
      <3>6. CASE ReadNone \/ GetWait \/ GetStart \/ GetLoad \/ GetStore
        BY <3>6 DEF ReadNone, GetWait, GetStart, GetLoad, GetStore, CleanShape, Calm
      <3>7. CASE ReadCount
        <4>1. g_line_len < max - 1 /\ ~ (g_line_len >= max - 1)
          BY <3>7 DEF ReadCount, CleanShape, TypeOK, Words
        <4>2. pc = "count" /\ pc' = "minus"
              /\ UNCHANGED <<g_line_buf, g_line_len, g_line_ready, g_line_start, i, n, max, out, lines>>
          BY <3>7, <4>1 DEF ReadCount
        <4>3. QED BY <4>2 DEF CleanShape, Calm, CopyingLine
      <3>8. CASE ReadMinus
        <4>1. n' = Len(l)
          <5>1. g_line_len = Len(l) + 1 /\ n' = (g_line_len - 1) % U32
            BY <3>8 DEF ReadMinus, CopyingLine
          <5>2. g_line_len > 0 /\ \A x \in Words : x > 0 => (x - 1) % U32 = x - 1
            BY <5>1
          <5>3. (g_line_len - 1) % U32 = g_line_len - 1
            BY <5>2, Zenon
          <5>4. QED BY <5>1, <5>3
        <4>2. Copied(out, g_line_buf, g_line_start, 0)
          BY DEF Copied
        <4>3. QED BY <3>8, <4>1, <4>2 DEF ReadMinus, CleanShape, Calm, CopyingLine
      <3>9. CASE ReadMore
        BY <3>9 DEF ReadMore, CleanShape, Calm, CopyingLine, TypeOK
      <3>10. CASE ReadGet
        <4>1. i \in Words /\ i < g_line_len /\ Copied(out, g_line_buf, g_line_start, i)
              /\ out' = [out EXCEPT ![i] = g_line_buf[RingSlot(g_line_start, i)]] /\ i' = i + 1
          BY <3>10 DEF ReadGet, CopyingLine, LocalInv, Slot, RingSlot
        <4>2. Copied(out', g_line_buf, g_line_start, i')
          BY <4>1, CopyOne DEF TypeOK, Symbol
        <4>3. i' <= g_line_len
          BY <4>1 DEF Words
        <4>4. QED BY <3>10, <4>2, <4>3 DEF ReadGet, CleanShape, Calm, CopyingLine
      <3>11. CASE ReadEnd
        <4>1. /\ n = Len(l) /\ i = Len(l) + 1 /\ Copied(out, g_line_buf, g_line_start, i)
              /\ Holds(g_line_buf, g_line_start, l) /\ out' = [out EXCEPT ![n] = NUL]
          BY <3>11 DEF ReadEnd, CopyingLine
        <4>2. \A k \in 1 .. n : k - 1 \in 0 .. i - 1 /\ k - 1 \in Words /\ k - 1 # n /\ k \in 1 .. Len(l)
          BY <4>1 DEF Words
        <4>3. \A k \in 1 .. n : out'[k - 1] = out[k - 1]
          BY <4>1, <4>2 DEF TypeOK
        <4>4. \A k \in 1 .. n : out'[k - 1] = l[k]
          BY <4>1, <4>2, <4>3 DEF Copied, Holds
        <4>5. QED BY <3>11, <4>4 DEF ReadEnd, CleanShape, Calm, CopyingLine
      <3>12. CASE ReadStart
        <4>1. g_line_start' \in Slots
          BY <3>12, Ring DEF ReadStart, Slot, RingSlot
        <4>2. QED BY <3>12, <4>1 DEF ReadStart, CleanShape, Calm, CopyingLine
      <3>13. CASE ReadLen
        BY <3>13 DEF ReadLen, CleanShape, Calm, CopyingLine
      <3>14. CASE ReadReady
        <4>1. n = Len(l) /\ (\A k \in 1 .. n : out[k - 1] = l[k]) /\ asked = Append(lines, l)
              /\ want = <<>> /\ g_line_len = 0
          BY <3>14 DEF ReadReady, CopyingLine
        <4>2. [k \in 1 .. n |-> out[k - 1]] = l
          BY <4>1
        <4>3. lines' = asked
          BY <3>14, <4>1, <4>2 DEF ReadReady
        <4>4. QED BY <3>14, <4>1, <4>3 DEF ReadReady, CleanShape, Calm
      <3>15. QED
        BY <1>5, <3>4, <3>5, <3>6, <3>7, <3>8, <3>9, <3>10, <3>11, <3>12, <3>13, <3>14, Zenon
    <2>4. QED BY <2>2, <2>3
  <1>6. QED
    BY <1>2, <1>3, <1>4, <1>5, Zenon DEF Next, Reader, tty_readline, tty_getchar

-----------------------------------------------------------------------------

LEMMA TtyInit == Init => TtyInv
  <1> SUFFICES ASSUME Init PROVE TtyInv
    OBVIOUS
  <1>1. TypeOK /\ LocalInv
    BY TypeInit
  <1>2. Joined(lines) = <<>>
    BY JoinedEmpty DEF Init
  <1>3. PlainShape
    BY WordFacts DEF Init, PlainShape, Calm, Slots
  <1>4. PlainOrder(0) /\ 0 \in 0 .. typed
    BY <1>2 DEF Init, PlainOrder, Ordered, Rises
  <1>5. CleanInv
    BY WordFacts DEF Init, CleanInv, CleanShape, Calm, Slots
  <1>6. QED BY <1>1, <1>3, <1>4, <1>5 DEF TtyInv, PlainInv

\* A step that changes nothing keeps the invariant.
LEMMA TtyStutter == TtyInv /\ UNCHANGED vars => TtyInv'
  BY DEF TtyInv, TypeOK, LocalInv, PlainInv, PlainShape, PlainOrder, CleanInv, CleanShape,
         TypingLine, CopyingLine, vars, tty, local, ghost

\* The invariant is inductive.
THEOREM TtyInductive == Spec => []TtyInv
  <1>1. Init => TtyInv
    BY TtyInit
  <1>2. TtyInv /\ [Next]_vars => TtyInv'
    <2> SUFFICES ASSUME TtyInv, [Next]_vars PROVE TtyInv'
      OBVIOUS
    <2>1. CASE Next
      <3>1. (TypeOK /\ LocalInv)'
        BY <2>1, TypeStep DEF TtyInv
      <3>2. PlainInv'
        BY <2>1, <3>1, PlainStep DEF TtyInv, PlainInv
      <3>3. CleanInv'
        BY <2>1, CleanStep DEF TtyInv
      <3>4. QED BY <3>1, <3>2, <3>3 DEF TtyInv
    <2>2. CASE UNCHANGED vars
      BY <2>2, TtyStutter
    <2>3. QED BY <2>1, <2>2
  <1>3. QED BY <1>1, <1>2, PTL DEF Spec

\* No arithmetic of the line discipline leaves the 32-bit words, and no access
\* its buffers, whatever keys are pressed and calls made.
THEOREM TtyTypeCorrect == Spec => []TypeOK
  <1>1. TtyInv => TypeOK
    BY DEF TtyInv
  <1>2. QED BY <1>1, TtyInductive, PTL

\* tty_readline returns characters that were typed, in the order they were typed
\* and once, wherever key presses fall between its accesses to the ring.
THEOREM ReadlineInOrder == Spec => []InOrder
  <1>1. TtyInv => InOrder
    <2> SUFFICES ASSUME TtyInv, plain
                 PROVE  \A k \in 1 .. Len(Delivered) :
                           /\ Delivered[k].at > 0
                           /\ k > 1 => Delivered[k - 1].at < Delivered[k].at
      BY DEF InOrder
    <2>1. PICK lo \in 0 .. typed : Ordered(Joined(lines), lo)
      BY DEF TtyInv, PlainInv, PlainOrder
    <2>2. Delivered = Joined(lines)
      BY DEF Delivered, Joined
    <2>3. Joined(lines) \in Seq(Symbol)
      BY JoinedType DEF TtyInv, LocalInv
    <2>4. \A k \in 1 .. Len(Joined(lines)) : Joined(lines)[k].at \in Int
      <3>1. \A k \in 1 .. Len(Joined(lines)) : Joined(lines)[k] \in Symbol
        BY <2>3, ElementOfSeq
      <3>2. \A x \in Symbol : x.at \in Int
        BY TtyConstants DEF Symbol, Char, Garbage, NUL
      <3>3. QED BY <3>1, <3>2
    <2> DEFINE d == Joined(lines)
    <2>5. Len(d) \in Nat
      BY <2>3
    <2> HIDE DEF d
    <2>6. \A k \in 1 .. Len(d) : d[k].at > 0 /\ (k > 1 => d[k - 1].at < d[k].at)
      BY <2>1, <2>4, <2>5 DEF Ordered, d
    <2>7. QED BY <2>2, <2>6 DEF d
  <1>2. QED BY <1>1, TtyInductive, PTL

\* Lines typed while a reader waits for them come back as the typist edited them.
THEOREM ReadlineExact == Spec => []CleanLines
  <1>1. TtyInv => CleanLines
    BY DEF TtyInv, CleanInv, CleanLines
  <1>2. QED BY <1>1, TtyInductive, PTL
=============================================================================
