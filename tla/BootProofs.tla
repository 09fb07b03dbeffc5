----------------------------- MODULE BootProofs -----------------------------
(***************************************************************************)
(* Proofs about the boot: the look-ahead of the device tree parser counts  *)
(* what parse_node stores (PoolsExact), lookups in the tree it returns end *)
(* at the first match in the document (LookupsFirst), the frames mm_init   *)
(* leaves free are given to one owner each and never lie in the kernel     *)
(* heap (FramesDisjoint), and, in the layout of the linker script, the     *)
(* boot and the reads of the parser touch no unmapped page, for a blob     *)
(* whose numbers are in bounds (MapOK), and the boot destroys nothing it   *)
(* still needs (Intact).                                                   *)
(***************************************************************************)
EXTENDS Boot, SequenceTheorems, WellFoundedInduction, TLAPS

Texts == STRING \cup {"", "empty", "u32", "u64", "string", "strings", "cells", "bytes"}
PropT == [name : Texts, at : Nat, len : Nat, type : Texts]
NodeT == [name : Texts, parent : Nat, kids : Seq(Nat \ {0}), props : Seq(PropT),
          phandle : Nat, room : 0 .. R - 1, ac : Nat, sc : Nat]
PairT == [base : Nat, size : Nat]

-----------------------------------------------------------------------------
(* Naturals.                                                               *)

\* A set of naturals has a least element.
LEMMA LeastNatural ==
    ASSUME NEW T \in SUBSET Nat, T # {}
    PROVE  \E x \in T : \A y \in T : x <= y
  <1> DEFINE Less == {ss \in Nat \X Nat : ss[1] < ss[2]}
  <1>1. IsWellFoundedOn(Less, Nat)
    BY NatLessThanWellFounded DEF OpToRel
  <1>2. PICK x \in T : \A y \in T : ~ (<<y, x>> \in Less)
    <2> HIDE DEF Less
    <2> QED BY <1>1, WFMin
  <1>3. \A y \in T : ~ (y < x)
    BY <1>2
  <1>4. QED BY <1>3

\* Induction, for a set in place of a predicate.
LEMMA Induction ==
    ASSUME NEW T, 0 \in T, \A k \in Nat : k \in T => k + 1 \in T
    PROVE  Nat \subseteq T
  <1> SUFFICES ASSUME NEW j \in Nat, j \notin T PROVE FALSE
    OBVIOUS
  <1> DEFINE M == {k \in Nat : k \notin T}
  <1>1. PICK x \in M : \A y \in M : x <= y
    BY LeastNatural
  <1>2. x - 1 \in Nat /\ x - 1 \notin M
    BY <1>1
  <1>3. QED BY <1>2

\* What a rule keeps in S stays in S.
LEMMA Typed ==
    ASSUME NEW n \in Nat, NEW S, NEW h, h[0] \in S,
           \A k \in 1 .. n : h[k - 1] \in S => h[k] \in S
    PROVE  \A k \in 0 .. n : h[k] \in S
  <1> DEFINE T == {k \in Nat : k <= n => h[k] \in S}
  <1>1. 0 \in T
    OBVIOUS
  <1>2. ASSUME NEW k \in Nat, k \in T PROVE k + 1 \in T
    <2>1. ASSUME k + 1 <= n PROVE h[k + 1] \in S
      <3>1. k + 1 \in 1 .. n /\ (k + 1) - 1 = k /\ k <= n
        BY <2>1
      <3>2. QED BY <1>2, <3>1
    <2>2. QED BY <2>1
  <1> HIDE DEF T
  <1>3. Nat \subseteq T
    BY <1>1, <1>2, Induction
  <1>4. QED BY <1>3 DEF T

\* h starts with z and takes each value from the one before.
Follows(h, z, f, n) == h[0] = z /\ \A k \in 1 .. n : h[k] = f[<<k, h[k - 1]>>]

\* A function can be defined by recursion over 0 .. n.
LEMMA Recursion ==
    ASSUME NEW n \in Nat, NEW S, NEW z \in S, NEW f \in [(1 .. n) \X S -> S]
    PROVE  \E h \in [0 .. n -> S] : Follows(h, z, f, n)
  <1> DEFINE Upto(h, j) == h[0] = z /\ \A k \in 1 .. n : k <= j => h[k] = f[<<k, h[k - 1]>>]
             T == {j \in Nat : \E h \in [0 .. n -> S] : Upto(h, j)}
  <1>1. 0 \in T
    <2> DEFINE h == [k \in 0 .. n |-> z]
    <2>1. h \in [0 .. n -> S] /\ h[0] = z
      OBVIOUS
    <2>2. \A k \in 1 .. n : ~ (k <= 0)
      OBVIOUS
    <2> HIDE DEF h
    <2>3. QED BY <2>1, <2>2
  <1>2. ASSUME NEW j \in Nat, j \in T PROVE j + 1 \in T
    <2>1. PICK h \in [0 .. n -> S] : Upto(h, j)
      BY <1>2
    <2>2. CASE j + 1 \notin 1 .. n
      <3>1. \A k \in 1 .. n : k <= j + 1 => k <= j
        BY <2>2
      <3>2. \A k \in 1 .. n : k <= j + 1 => h[k] = f[<<k, h[k - 1]>>]
        BY <2>1, <3>1, Zenon
      <3>3. j + 1 \in Nat /\ Upto(h, j + 1)
        BY <2>1, <3>2
      <3>4. QED BY <3>3
    <2>3. CASE j + 1 \in 1 .. n
      <3>1. j \in 0 .. n /\ h[j] \in S
        BY <2>3
      <3>2. PICK v \in S : v = f[<<j + 1, h[j]>>]
        BY <2>3, <3>1
      <3>3. PICK g \in [0 .. n -> S] : g[j + 1] = v /\ \A k \in 0 .. n : k # j + 1 => g[k] = h[k]
        <4> DEFINE g0 == [k \in 0 .. n |-> IF k = j + 1 THEN v ELSE h[k]]
        <4>1. g0 \in [0 .. n -> S] /\ g0[j + 1] = v /\ \A k \in 0 .. n : k # j + 1 => g0[k] = h[k]
          BY <2>3
        <4> HIDE DEF g0
        <4>2. QED BY <4>1
      <3>4. ASSUME NEW k \in 1 .. n, k <= j + 1 PROVE g[k] = f[<<k, g[k - 1]>>]
        <4>1. k - 1 \in 0 .. n /\ k - 1 # j + 1 /\ g[k - 1] = h[k - 1]
          BY <3>3, <3>4
        <4>2. CASE k = j + 1
          <5>1. k - 1 = j
            BY <4>2
          <5>2. QED BY <3>2, <3>3, <4>1, <4>2, <5>1
        <4>3. CASE k # j + 1
          <5>1. k <= j /\ k \in 0 .. n /\ g[k] = h[k]
            BY <3>3, <3>4, <4>3
          <5>2. QED BY <2>1, <4>1, <5>1
        <4>4. QED BY <4>2, <4>3
      <3>5. g[0] = z
        BY <2>1, <3>3
      <3>6. j + 1 \in Nat /\ Upto(g, j + 1)
        BY <3>4, <3>5
      <3>7. QED BY <3>6
    <2>4. QED BY <2>2, <2>3
  <1> HIDE DEF T
  <1>3. n \in T
    BY <1>1, <1>2, Induction
  <1>4. PICK h \in [0 .. n -> S] : Upto(h, n)
    BY <1>3 DEF T
  <1>5. \A k \in 1 .. n : k <= n
    OBVIOUS
  <1>6. QED BY <1>4, <1>5 DEF Follows

LEMMA TimesMonotone ==
    ASSUME NEW j \in Nat, NEW k \in Nat, j <= k, NEW w \in Nat
    PROVE  j * w <= k * w
  <1>1. PICK d \in Nat : k = j + d
    <2>1. k - j \in Nat /\ k = j + (k - j)
      OBVIOUS
    <2>2. QED BY <2>1
  <1>2. d * w \in Nat /\ j * w \in Nat
    OBVIOUS
  <1>3. k * w = j * w + d * w
    BY <1>1
  <1>4. QED BY <1>2, <1>3

LEMMA DivFacts ==
    ASSUME NEW x \in Nat, NEW y \in Nat, y # 0
    PROVE  x \div y \in Nat /\ (x \div y) * y <= x
  OBVIOUS

-----------------------------------------------------------------------------
(* The rounds of the look-ahead.                                           *)

\* h leads from s to t in n rounds, none of which begins where it stops.
Path(h, n, s, t) ==
    /\ h[0] = s /\ h[n] = t
    /\ \A k \in 0 .. n - 1 : ~ Stopped(h[k]) /\ h[k + 1] = Onward(h[k])

Leads(s, t) == \E n \in Nat : \E h : Path(h, n, s, t)

LEMMA LeadsHere ==
    ASSUME NEW s
    PROVE  Leads(s, s)
  <1>1. PICK h : h = [k \in {0} |-> s]
    OBVIOUS
  <1>2. Path(h, 0, s, s)
    BY <1>1 DEF Path
  <1>3. QED BY <1>2 DEF Leads

LEMMA LeadsOn ==
    ASSUME NEW s, NEW t, Leads(s, t), ~ Stopped(t)
    PROVE  Leads(s, Onward(t))
  <1>1. PICK n \in Nat : \E h : Path(h, n, s, t)
    BY DEF Leads
  <1>2. PICK h : Path(h, n, s, t)
    BY <1>1
  <1>3. PICK u : u = Onward(t)
    OBVIOUS
  <1>4. PICK g : g = [k \in 0 .. n + 1 |-> IF k = n + 1 THEN u ELSE h[k]]
    OBVIOUS
  <1>5. g[n + 1] = u /\ \A k \in 0 .. n : g[k] = h[k]
    BY <1>4
  <1>6. ASSUME NEW k \in 0 .. n PROVE ~ Stopped(g[k]) /\ g[k + 1] = Onward(g[k])
    <2>1. CASE k = n
      <3>1. g[k] = t /\ g[k + 1] = u
        BY <1>2, <1>5, <2>1 DEF Path
      <3>2. QED BY <1>3, <3>1
    <2>2. CASE k # n
      <3>1. k \in 0 .. n - 1 /\ k + 1 \in 0 .. n
        BY <2>2
      <3>2. g[k] = h[k] /\ g[k + 1] = h[k + 1]
        BY <1>5, <3>1
      <3>3. QED BY <1>2, <3>1, <3>2 DEF Path
    <2>3. QED BY <2>1, <2>2
  <1>7. 0 \in 0 .. n /\ g[0] = s
    BY <1>2, <1>5 DEF Path
  <1>8. (n + 1) - 1 = n /\ n + 1 \in Nat
    OBVIOUS
  <1>9. Path(g, n + 1, s, u)
    BY <1>5, <1>6, <1>7, <1>8 DEF Path
  <1>10. QED BY <1>3, <1>8, <1>9 DEF Leads

LEMMA LeadsBack ==
    ASSUME NEW s, NEW t, Leads(s, t), s # t
    PROVE  ~ Stopped(s) /\ Leads(Onward(s), t)
  <1>1. PICK n \in Nat : \E h : Path(h, n, s, t)
    BY DEF Leads
  <1>2. PICK h : Path(h, n, s, t)
    BY <1>1
  <1>3. n # 0
    BY <1>2 DEF Path
  <1>4. PICK m \in Nat : n = m + 1
    <2>1. n - 1 \in Nat /\ n = (n - 1) + 1
      BY <1>3
    <2>2. QED BY <2>1
  <1>5. 0 \in 0 .. n - 1 /\ 0 + 1 = 1
    BY <1>4
  <1>6. ~ Stopped(s) /\ h[1] = Onward(s)
    BY <1>2, <1>5 DEF Path
  <1>7. PICK g : g = [k \in 0 .. m |-> h[k + 1]]
    OBVIOUS
  <1>8. g[0] = Onward(s) /\ g[m] = t
    BY <1>2, <1>4, <1>6, <1>7 DEF Path
  <1>9. ASSUME NEW k \in 0 .. m - 1 PROVE ~ Stopped(g[k]) /\ g[k + 1] = Onward(g[k])
    <2>1. k + 1 \in 0 .. n - 1 /\ k \in 0 .. m /\ k + 1 \in 0 .. m
      BY <1>4
    <2>2. g[k] = h[k + 1] /\ g[k + 1] = h[(k + 1) + 1]
      BY <1>7, <2>1
    <2>3. QED BY <1>2, <2>1, <2>2 DEF Path
  <1>10. Path(g, m, Onward(s), t)
    BY <1>8, <1>9 DEF Path
  <1>11. QED BY <1>6, <1>10 DEF Leads

\* The look-ahead at s will have counted room properties when it stops.
Counts(s, room) == \E t : Leads(s, t) /\ Stopped(t) /\ t.count = room

LEMMA CountsOn ==
    ASSUME NEW s, NEW room, Counts(s, room), ~ Stopped(s)
    PROVE  Counts(Onward(s), room)
  <1>1. PICK t : Leads(s, t) /\ Stopped(t) /\ t.count = room
    BY DEF Counts
  <1>2. s # t
    BY <1>1
  <1>3. Leads(Onward(s), t)
    BY <1>1, <1>2, LeadsBack
  <1>4. QED BY <1>1, <1>3 DEF Counts

LEMMA CountsEnd ==
    ASSUME NEW s, NEW room, Counts(s, room), Stopped(s)
    PROVE  s.count = room
  <1>1. PICK t : Leads(s, t) /\ Stopped(t) /\ t.count = room
    BY DEF Counts
  <1>2. s = t
    BY <1>1, LeadsBack
  <1>3. QED BY <1>1, <1>2

\* Both depend on the blob alone.
LEMMA RoundSame ==
    ASSUME blob' = blob, NEW s
    PROVE  Stopped(s)' = Stopped(s) /\ Onward(s)' = Onward(s)
  <1>1. \A a : At(a)' = At(a)
    BY DEF At
  <1>2. \A p : InBlock(p)' = InBlock(p)
    BY DEF InBlock
  <1>3. \A p : be32_read(p)' = be32_read(p)
    BY <1>1, <1>2 DEF be32_read, Cell
  <1>4. \A p, n : in_struct(p, n)' = in_struct(p, n)
    BY DEF in_struct
  <1>5. QED BY <1>3, <1>4 DEF Stopped, Onward, Skip

LEMMA LeadsSame ==
    ASSUME blob' = blob, NEW s, NEW t, Leads(s, t)
    PROVE  Leads(s, t)'
  <1>1. PICK n \in Nat : \E h : Path(h, n, s, t)
    BY DEF Leads
  <1>2. PICK h : Path(h, n, s, t)
    BY <1>1
  <1>3. Path(h, n, s, t)'
    BY <1>2, RoundSame DEF Path
  <1>4. QED BY <1>3 DEF Leads

LEMMA CountsSame ==
    ASSUME blob' = blob, NEW s, NEW room, Counts(s, room)
    PROVE  Counts(s, room)'
  <1>1. PICK t : Leads(s, t) /\ Stopped(t) /\ t.count = room
    BY DEF Counts
  <1>2. Leads(s, t)' /\ Stopped(t)'
    BY <1>1, LeadsSame, RoundSame
  <1>3. QED BY <1>1, <1>2 DEF Counts

\* The tokens are told apart.
LEMMA Tokens ==
    /\ DTB_END # DTB_END_NODE /\ DTB_END # DTB_BEGIN_NODE /\ DTB_END # DTB_PROP
    /\ DTB_END_NODE # DTB_BEGIN_NODE /\ DTB_END_NODE # DTB_PROP /\ DTB_BEGIN_NODE # DTB_PROP
  BY DEF DTB_END, DTB_END_NODE, DTB_BEGIN_NODE, DTB_PROP

-----------------------------------------------------------------------------
(* The parser's invariant.                                                 *)

AheadT == [pos : Nat, depth : 0 .. R - 1, count : 0 .. R - 1]

\* The types of the parser's variables.  Children are nodes of the pool.
ParserInv ==
    /\ blob \in Blobs
    /\ phase \in {"call", "root", "enter", "ahead", "body", "extract", "done"}
    /\ cur \in Nat /\ prop_used \in Nat /\ ahead \in AheadT
    /\ nodes \in Seq(NodeT)
    /\ \A n \in DOMAIN nodes : \A k \in DOMAIN nodes[n].kids : nodes[n].kids[k] <= Len(nodes)
    /\ phase = "extract" => nodes # <<>>
    /\ phase \in {"ahead", "body"} => stack # <<>>
    /\ tree.memory \in Seq(PairT)

\* The calls of parse_node that have not returned: a node is entered after the
\* one it is in.
StackInv ==
    /\ stack \in Seq(1 .. Len(nodes)) /\ Len(stack) <= Len(nodes)
    /\ \A j, k \in 1 .. Len(stack) : j < k => stack[j] < stack[k]
    /\ phase \in {"call", "root", "extract"} => stack = <<>>

\* Where a look-ahead is that has c properties and level nodes between it and its own.
Round(p, level, c) == [pos |-> p, depth |-> level, count |-> c]

\* Node n, level nodes above the place p, has all the properties its look-ahead
\* counted, or will have them when the rest of the block has been read.  The
\* first case alone remains behind a DTB_END inside a child, where the
\* look-ahead stopped and parse_node goes on.
Counted(n, p, level) ==
    \/ Len(nodes[n].props) = nodes[n].room
    \/ Counts(Round(p, level, Len(nodes[n].props)), nodes[n].room)

CountInv ==
    /\ Len(nodes) <= DTB_MAX_NODES /\ prop_used <= DTB_MAX_PROPS
    /\ \A n \in 1 .. Len(nodes) : Len(nodes[n].props) <= nodes[n].room
    /\ \A n \in 1 .. Len(nodes) :
          n \notin {stack[k] : k \in 1 .. Len(stack)} => Len(nodes[n].props) = nodes[n].room
    /\ phase = "body" =>
          \A j \in 1 .. Len(stack) : Counted(stack[j], cur, Len(stack) - j)
    /\ phase = "enter" =>
          \A j \in 1 .. Len(stack) : Counted(stack[j], cur + 1, Len(stack) - j + 1)
    /\ phase = "ahead" =>
          /\ \A j \in 1 .. Len(stack) - 1 : Counted(stack[j], cur, Len(stack) - j)
          /\ Len(nodes[Top].props) = 0 /\ nodes[Top].room = 0
          /\ Leads(ScanFrom(cur), ahead)

DtbInv == ParserInv /\ StackInv /\ CountInv

LEMMA WordSize == R \in Nat /\ R > 9 /\ W \in Nat /\ W > 2 /\ W <= R
  BY DtbConstants DEF R

\* Reading memory: a cell is a cell wherever it lies.
LEMMA AtType ==
    ASSUME blob \in Blobs, NEW a \in 0 .. W - 1
    PROVE  At(a) \in CellT
  <1>1. PICK cells \in Seq(CellT) : cells = blob.cells
    BY DtbConstants
  <1>2. CASE a < Len(cells) /\ a \notin Spoiled
    <2>1. a + 1 \in 1 .. Len(cells)
      BY <1>2, WordSize
    <2>2. cells[a + 1] \in CellT
      BY <2>1
    <2>3. QED BY <1>1, <1>2, <2>2 DEF At
  <1>3. CASE ~ (a < Len(cells) /\ a \notin Spoiled)
    BY <1>1, <1>3, DtbConstants DEF At
  <1>4. QED BY <1>2, <1>3

LEMMA BlockType ==
    ASSUME blob \in Blobs, NEW p \in Nat
    PROVE  /\ InBlock(p) \in 0 .. W - 1 /\ Cell(p) \in CellT /\ Cell(p).s \in Texts
           /\ be32_read(p) \in 0 .. R - 1 /\ be32_read(p) \in Nat /\ Padded(be32_read(p)) \in Nat
  <1>1. InBlock(p) \in 0 .. W - 1
    <2>1. PICK o \in Nat : o = blob.off_struct
      BY DtbConstants
    <2>2. InBlock(p) = (o + p) % W
      BY <2>1 DEF InBlock
    <2>3. QED BY <2>2, WordSize
  <1>3. PICK c \in CellT : c = Cell(p)
    BY <1>1, AtType DEF Cell
  <1>4. c.v \in 0 .. R - 1 /\ c.s \in STRING
    BY DEF CellT
  <1>5. c.v \in Nat /\ Padded(c.v) \in Nat
    BY <1>4, WordSize DEF Padded
  <1>6. c.s \in Texts
    BY <1>4 DEF Texts
  <1>7. QED BY <1>1, <1>3, <1>4, <1>5, <1>6 DEF be32_read

LEMMA SkipNat ==
    ASSUME NEW pos \in Nat, NEW len \in Nat
    PROVE  Skip(pos, len) \in Nat
  <1>1. PICK x \in Nat : x = 4 * pos + len + 3
    OBVIOUS
  <1>2. PICK y \in Nat : y = x % R
    BY WordSize
  <1>3. y \div 4 \in Nat
    OBVIOUS
  <1>4. QED BY <1>1, <1>2, <1>3 DEF Skip

\* How a look-ahead goes on at a token.
LEMMA AheadRule ==
    ASSUME NEW p \in Nat, NEW d \in Nat, NEW c \in Nat, in_struct(p, 1)
    PROVE  /\ be32_read(p) = DTB_END => Stopped(Round(p, d, c))
           /\ be32_read(p) = DTB_END_NODE /\ d = 0 => Stopped(Round(p, d, c))
           /\ be32_read(p) = DTB_END_NODE /\ d # 0 =>
                 ~ Stopped(Round(p, d, c)) /\ Onward(Round(p, d, c)) = Round(p + 1, d - 1, c)
           /\ be32_read(p) = DTB_BEGIN_NODE =>
                 ~ Stopped(Round(p, d, c)) /\ Onward(Round(p, d, c)) = Round(p + 2, (d + 1) % R, c)
           /\ be32_read(p) = DTB_PROP /\ in_struct(p + 1, 2) =>
                 /\ ~ Stopped(Round(p, d, c))
                 /\ Onward(Round(p, d, c)) =
                       Round(Skip(p + 3, be32_read(p + 1)), d, IF d = 0 THEN (c + 1) % R ELSE c)
           /\ be32_read(p) \notin {DTB_END, DTB_END_NODE, DTB_BEGIN_NODE, DTB_PROP} =>
                 ~ Stopped(Round(p, d, c)) /\ Onward(Round(p, d, c)) = Round(p + 1, d, c)
  <1>0. PICK a : a = [pos |-> p, depth |-> d, count |-> c]
    OBVIOUS
  <1>1. a = Round(p, d, c) /\ a.pos = p /\ a.depth = d /\ a.count = c
    BY <1>0 DEF Round
  <1>2. /\ be32_read(p) = DTB_END => Stopped(a)
        /\ be32_read(p) = DTB_END_NODE => (Stopped(a) <=> d = 0)
        /\ be32_read(p) = DTB_BEGIN_NODE => ~ Stopped(a)
        /\ be32_read(p) = DTB_PROP /\ in_struct(p + 1, 2) => ~ Stopped(a)
        /\ be32_read(p) \notin {DTB_END, DTB_END_NODE, DTB_BEGIN_NODE, DTB_PROP} => ~ Stopped(a)
    BY <1>1, Tokens DEF Stopped
  <1>3. ASSUME be32_read(p) = DTB_END_NODE PROVE Onward(a) = Round(p + 1, d - 1, c)
    <2>1. Onward(a) = [a EXCEPT !.pos = p + 1, !.depth = d - 1]
      BY <1>1, <1>3, Tokens DEF Onward
    <2>2. QED BY <1>0, <2>1 DEF Round
  <1>4. be32_read(p) = DTB_BEGIN_NODE => Onward(a) = Round(p + 2, (d + 1) % R, c)
    BY <1>1, Tokens DEF Onward, Round
  <1>5. be32_read(p) = DTB_PROP =>
           Onward(a) = Round(Skip(p + 3, be32_read(p + 1)), d, IF d = 0 THEN (c + 1) % R ELSE c)
    BY <1>1, Tokens DEF Onward, Round
  <1>6. be32_read(p) \notin {DTB_END, DTB_END_NODE, DTB_BEGIN_NODE, DTB_PROP} =>
           Onward(a) = Round(p + 1, d, c)
    BY <1>1 DEF Onward, Round
  <1>7. QED BY <1>1, <1>2, <1>3, <1>4, <1>5, <1>6

\* A node's count after a step.
LEMMA CountedSame ==
    ASSUME blob' = blob, NEW n, NEW p, NEW d, Counted(n, p, d),
           nodes'[n].props = nodes[n].props, nodes'[n].room = nodes[n].room
    PROVE  Counted(n, p, d)'
  <1>1. CASE Len(nodes[n].props) = nodes[n].room
    BY <1>1 DEF Counted
  <1>2. CASE Counts(Round(p, d, Len(nodes[n].props)), nodes[n].room)
    <2>1. PICK s, r : s = Round(p, d, Len(nodes[n].props)) /\ r = nodes[n].room
      OBVIOUS
    <2>2. Counts(s, r)'
      BY <1>2, <2>1, CountsSame
    <2>3. s = Round(p, d, Len(nodes'[n].props)) /\ r = nodes'[n].room
      BY <2>1
    <2>4. QED BY <2>2, <2>3 DEF Counted, Round
  <1>3. QED BY <1>1, <1>2 DEF Counted

LEMMA ReturnStep ==
    ASSUME DtbInv, NEW e, Return(e)
    PROVE  DtbInv'
  <1>1. ParserInv'
    BY DEF Return, DtbInv, ParserInv
  <1>2. StackInv'
    BY DEF Return, DtbInv, StackInv
  <1>3. CountInv'
    BY DEF Return, DtbInv, CountInv
  <1>4. QED BY <1>1, <1>2, <1>3 DEF DtbInv

LEMMA ParseStep == DtbInv /\ dtb_parse => DtbInv'
  <1> SUFFICES ASSUME DtbInv, dtb_parse PROVE DtbInv'
    OBVIOUS
  <1>1. CASE Return(HeaderError)
    BY <1>1, ReturnStep
  <1>2. CASE AllocPools
    <2>1. /\ phase' \in {"root", "done"} /\ stack = <<>>
          /\ UNCHANGED <<blob, cur, ahead, stack, nodes, prop_used, tree>>
      BY <1>2 DEF AllocPools, dtb_parse, DtbInv, StackInv
    <2>2. ParserInv'
      BY <2>1 DEF DtbInv, ParserInv
    <2>3. StackInv'
      BY <2>1 DEF DtbInv, StackInv
    <2>4. CountInv'
      BY <2>1 DEF DtbInv, CountInv
    <2>5. QED BY <2>2, <2>3, <2>4 DEF DtbInv
  <1>3. QED BY <1>1, <1>2 DEF dtb_parse

LEMMA RootStep == DtbInv /\ FindRoot => DtbInv'
  <1> SUFFICES ASSUME DtbInv, FindRoot PROVE DtbInv'
    OBVIOUS
  <1>1. CASE Return("corrupt")
    BY <1>1, ReturnStep
  <1>2. CASE ~ Return("corrupt")
    <2>1. /\ phase' \in {"root", "enter"} /\ stack = <<>> /\ cur' = cur + 1
          /\ UNCHANGED <<blob, ahead, stack, nodes, prop_used, tree>>
      BY <1>2 DEF FindRoot, DtbInv, StackInv
    <2>2. Len(stack) = 0
      BY <2>1
    <2>3. ParserInv'
      BY <2>1 DEF DtbInv, ParserInv
    <2>4. StackInv'
      BY <2>1 DEF DtbInv, StackInv
    <2>5. CountInv'
      BY <2>1, <2>2 DEF DtbInv, CountInv
    <2>6. QED BY <2>3, <2>4, <2>5 DEF DtbInv
  <1>3. QED BY <1>1, <1>2

\* A node above the cursor lies less than 2^32 levels above it.
LEMMA LevelFits ==
    ASSUME DtbInv, NEW j \in 1 .. Len(stack)
    PROVE  Len(stack) - j \in Nat /\ Len(stack) - j + 1 < R
  <1>1. Len(stack) \in Nat /\ Len(nodes) \in Nat /\ Len(stack) <= Len(nodes)
    BY LenProperties DEF DtbInv, ParserInv, StackInv
  <1>2. Len(nodes) <= DTB_MAX_NODES /\ DTB_MAX_NODES \in Nat /\ DTB_MAX_NODES < R
    BY DtbConstants DEF DtbInv, CountInv
  <1>3. QED BY <1>1, <1>2, WordSize

\* The number of properties of a node fits its room.
LEMMA PropsFit ==
    ASSUME DtbInv, NEW n \in 1 .. Len(nodes)
    PROVE  /\ nodes[n] \in NodeT /\ nodes[n].room \in 0 .. R - 1
           /\ Len(nodes[n].props) \in Nat /\ Len(nodes[n].props) <= nodes[n].room
  <1>1. nodes[n] \in NodeT
    BY DEF DtbInv, ParserInv
  <1>2. nodes[n].props \in Seq(PropT) /\ nodes[n].room \in 0 .. R - 1
    BY <1>1 DEF NodeT
  <1>3. Len(nodes[n].props) \in Nat
    BY <1>2, LenProperties
  <1>4. QED BY <1>1, <1>2, <1>3 DEF DtbInv, CountInv

LEMMA OtherStep == DtbInv /\ OtherToken => DtbInv'
  <1> SUFFICES ASSUME DtbInv, OtherToken PROVE DtbInv'
    OBVIOUS
  <1>1. /\ phase = "body" /\ in_struct(cur, 1) /\ cur' = cur + 1
        /\ UNCHANGED <<blob, ahead, stack, nodes, prop_used, tree>>
        /\ phase' = IF be32_read(cur) = DTB_BEGIN_NODE THEN "enter" ELSE "body"
        /\ be32_read(cur) \notin {DTB_PROP, DTB_END_NODE, DTB_END}
    BY DEF OtherToken
  <1>2. ParserInv'
    BY <1>1 DEF DtbInv, ParserInv
  <1>3. StackInv'
    BY <1>1 DEF DtbInv, StackInv
  <1>4. Len(stack) \in Nat /\ cur \in Nat /\ blob \in Blobs
    BY DEF DtbInv, ParserInv, StackInv
  <1>5. ASSUME NEW j \in 1 .. Len(stack)
        PROVE  IF phase' = "enter" THEN Counted(stack[j], cur + 2, Len(stack) - j + 1)
                                   ELSE Counted(stack[j], cur + 1, Len(stack) - j)
    <2>1. PICK d \in Nat : d = Len(stack) - j /\ d + 1 < R
      BY LevelFits
    <2>2. PICK n \in 1 .. Len(nodes) : n = stack[j]
      BY DEF DtbInv, StackInv
    <2>3. PICK c \in Nat : c = Len(nodes[n].props)
      BY PropsFit
    <2>4. c = nodes[n].room \/ Counts(Round(cur, d, c), nodes[n].room)
      BY <1>1, <2>1, <2>2, <2>3 DEF DtbInv, CountInv, Counted
    <2>5. CASE c = nodes[n].room
      BY <2>2, <2>3, <2>5 DEF Counted
    <2>6. CASE Counts(Round(cur, d, c), nodes[n].room)
      <3>1. CASE be32_read(cur) = DTB_BEGIN_NODE
        <4>1. (d + 1) % R = d + 1
          BY <2>1, WordSize
        <4>2. Counts(Round(cur + 2, d + 1, c), nodes[n].room)
          BY <1>1, <1>4, <2>6, <3>1, <4>1, AheadRule, CountsOn
        <4>3. QED BY <1>1, <2>1, <2>2, <2>3, <3>1, <4>2 DEF Counted
      <3>2. CASE be32_read(cur) # DTB_BEGIN_NODE
        <4>1. Counts(Round(cur + 1, d, c), nodes[n].room)
          BY <1>1, <1>4, <2>6, <3>2, AheadRule, CountsOn
        <4>2. QED BY <1>1, <2>1, <2>2, <2>3, <3>2, <4>1 DEF Counted
      <3>3. QED BY <3>1, <3>2
    <2>7. QED BY <2>4, <2>5, <2>6
  <1>6. CountInv'
    <2>1. ASSUME NEW n, NEW p, NEW d, Counted(n, p, d) PROVE Counted(n, p, d)'
      BY <1>1, <2>1, CountedSame
    <2>2. phase' = "body" => \A j \in 1 .. Len(stack)' : Counted(stack[j], cur, Len(stack) - j)'
      BY <1>1, <1>5, <2>1
    <2>3. phase' = "enter" => \A j \in 1 .. Len(stack)' : Counted(stack[j], cur + 1, Len(stack) - j + 1)'
      BY <1>1, <1>4, <1>5, <2>1
    <2>4. QED BY <1>1, <2>2, <2>3 DEF DtbInv, CountInv
  <1>7. QED BY <1>2, <1>3, <1>6 DEF DtbInv

LEMMA GuessText ==
    ASSUME NEW name, NEW data, NEW len
    PROVE  guess_type(name, data, len) \in Texts
  <1>1. guess_type(name, data, len) \in {"empty", "u32", "u64", "string", "strings", "cells", "bytes"}
    BY DEF guess_type
  <1>2. QED BY <1>1, Zenon DEF Texts

\* m is the pool with one more property in node n.
Longer(m, n) ==
    /\ m \in Seq(NodeT) /\ Len(m) = Len(nodes)
    /\ \A k \in 1 .. Len(nodes) : k # n => m[k] = nodes[k]
    /\ Len(m[n].props) = Len(nodes[n].props) + 1
    /\ m[n].room = nodes[n].room /\ m[n].kids = nodes[n].kids

\* AddProp appends a property to one node.
LEMMA PropAdded ==
    ASSUME blob \in Blobs, cur \in Nat, nodes \in Seq(NodeT), NEW n \in 1 .. Len(nodes),
           NEW name \in Texts, NEW plen \in Nat, NEW m, m = AddProp(n, name, plen)
    PROVE  Longer(m, n)
  <1>1. PICK v \in Nat : v = be32_read(cur + 3)
    <2>1. cur + 3 \in Nat
      OBVIOUS
    <2>2. QED BY <2>1, BlockType
  <1>2. PICK ty \in Texts : ty = guess_type(name, Data(cur + 3, plen), plen)
    BY GuessText
  <1>3. PICK p : p = [name |-> name, at |-> cur + 3, len |-> plen, type |-> ty]
    OBVIOUS
  <1>4. p \in PropT
    BY <1>3 DEF PropT
  <1>5. PICK x : x \in NodeT /\ x = nodes[n]
    OBVIOUS
  <1>6. PICK ps \in Seq(PropT) : ps = Append(x.props, p) /\ Len(ps) = Len(x.props) + 1
    <2>1. PICK q \in Seq(PropT) : q = x.props
      BY <1>5 DEF NodeT
    <2>2. Append(q, p) \in Seq(PropT) /\ Len(Append(q, p)) = Len(q) + 1
      BY <1>4, AppendProperties
    <2>3. QED BY <2>1, <2>2
  <1>7. PICK a \in Nat : a = IF name = "#address-cells" /\ plen = 4 THEN v ELSE x.ac
    BY <1>5 DEF NodeT
  <1>8. PICK b \in Nat : b = IF name = "#size-cells" /\ plen = 4 THEN v ELSE x.sc
    BY <1>5 DEF NodeT
  <1>9. PICK h \in Nat : h = IF name \in {"phandle", "linux,phandle"} /\ plen = 4 THEN v ELSE x.phandle
    BY <1>5 DEF NodeT
  <1>10. PICK y : y = [x EXCEPT !.props = ps, !.ac = a, !.sc = b, !.phandle = h]
    OBVIOUS
  <1>11. y \in NodeT /\ y.props = ps /\ y.room = x.room /\ y.kids = x.kids
    BY <1>5, <1>10 DEF NodeT
  <1>12. m = [nodes EXCEPT ![n] = y]
    <2>1. m = [nodes EXCEPT ![n].props = Append(@, p),
                            ![n].ac = IF name = "#address-cells" /\ plen = 4 THEN v ELSE @,
                            ![n].sc = IF name = "#size-cells" /\ plen = 4 THEN v ELSE @,
                            ![n].phandle = IF name \in {"phandle", "linux,phandle"} /\ plen = 4
                                             THEN v ELSE @]
      BY <1>1, <1>2, <1>3 DEF AddProp
    <2>2. m = [nodes EXCEPT ![n].props = ps, ![n].ac = a, ![n].sc = b, ![n].phandle = h]
      BY <1>5, <1>6, <1>7, <1>8, <1>9, <2>1
    <2>3. QED BY <1>5, <1>10, <2>2
  <1>13. m \in Seq(NodeT) /\ Len(m) = Len(nodes)
    BY <1>11, <1>12, ExceptSeq
  <1>14. m[n] = y /\ \A k \in 1 .. Len(nodes) : k # n => m[k] = nodes[k]
    BY <1>12
  <1>15. QED BY <1>5, <1>6, <1>11, <1>13, <1>14 DEF Longer

\* The name of a property is a text, wherever it lies.
LEMMA NameType ==
    ASSUME blob \in Blobs, NEW off \in Nat
    PROVE  At(InStrings(off)) \in CellT /\ At(InStrings(off)).s \in Texts
  <1>1. InStrings(off) \in 0 .. W - 1
    <2>1. PICK o \in Nat : o = blob.off_strings
      BY DtbConstants
    <2>2. PICK k \in Nat : k = off \div 4
      OBVIOUS
    <2>3. InStrings(off) = (o + k) % W
      BY <2>1, <2>2 DEF InStrings
    <2>4. QED BY <2>3, WordSize
  <1>2. PICK c \in CellT : c = At(InStrings(off))
    BY <1>1, AtType
  <1>3. c.s \in STRING
    BY DEF CellT
  <1>4. QED BY <1>2, <1>3 DEF Texts

LEMMA PropStep == DtbInv /\ ReadProp => DtbInv'
  <1> SUFFICES ASSUME DtbInv, ReadProp PROVE DtbInv'
    OBVIOUS
  <1>1. CASE Return("corrupt")
    BY <1>1, ReturnStep
  <1>2. CASE ~ Return("corrupt")
    <2>1. PICK plen, nameoff :
             /\ plen = be32_read(cur + 1) /\ nameoff = be32_read(cur + 2)
             /\ in_struct(cur + 1, 2) /\ ~ (Len(nodes[Top].props) >= nodes[Top].room)
             /\ nodes' = AddProp(Top, At(InStrings(nameoff)).s, plen)
             /\ cur' = Skip(cur + 3, plen)
      BY <1>2 DEF ReadProp, BadProp
    <2>2. /\ phase = "body" /\ in_struct(cur, 1) /\ be32_read(cur) = DTB_PROP
          /\ UNCHANGED <<blob, phase, ahead, stack, prop_used, tree>>
      BY <1>2 DEF ReadProp
    <2>3. /\ blob \in Blobs /\ cur \in Nat /\ nodes \in Seq(NodeT)
          /\ stack \in Seq(1 .. Len(nodes)) /\ stack # <<>>
      BY <2>2 DEF DtbInv, ParserInv, StackInv
    <2>4. cur + 1 \in Nat /\ cur + 2 \in Nat
      BY <2>3
    <2>5. plen \in Nat /\ nameoff \in Nat
      BY <2>1, <2>3, <2>4, BlockType
    <2>6. PICK top : top = Top /\ top \in 1 .. Len(nodes) /\ Len(stack) \in Nat /\ Len(stack) > 0
      BY <2>3, EmptySeq, LenProperties DEF Top
    <2>7. PICK name \in Texts : name = At(InStrings(nameoff)).s
      BY <2>3, <2>5, NameType
    <2>8. /\ nodes' \in Seq(NodeT) /\ Len(nodes') = Len(nodes)
          /\ \A k \in 1 .. Len(nodes) : k # top => nodes'[k] = nodes[k]
          /\ Len(nodes'[top].props) = Len(nodes[top].props) + 1
          /\ nodes'[top].room = nodes[top].room /\ nodes'[top].kids = nodes[top].kids
      <3>1. nodes' = AddProp(top, name, plen)
        BY <2>1, <2>6, <2>7
      <3>2. Longer(nodes', top)
        BY <2>3, <2>5, <2>6, <3>1, PropAdded
      <3>3. QED BY <3>2 DEF Longer
    <2>9. /\ Len(nodes[top].props) \in Nat /\ nodes[top].room \in 0 .. R - 1
          /\ Len(nodes[top].props) < nodes[top].room
      BY <2>1, <2>6, PropsFit
    <2>10. ParserInv'
      <3>1. \A n \in 1 .. Len(nodes) : nodes'[n].kids = nodes[n].kids
        BY <2>8
      <3>2. DOMAIN nodes = 1 .. Len(nodes) /\ DOMAIN nodes' = 1 .. Len(nodes)
        BY <2>3, <2>8, LenProperties
      <3>3. \A n \in DOMAIN nodes' : \A k \in DOMAIN nodes'[n].kids : nodes'[n].kids[k] <= Len(nodes')
        BY <2>8, <3>1, <3>2 DEF DtbInv, ParserInv
      <3>4. cur' \in Nat
        <4>1. cur + 3 \in Nat
          BY <2>3
        <4>2. QED BY <2>1, <2>5, <4>1, SkipNat
      <3>5. QED BY <2>2, <2>8, <3>3, <3>4 DEF DtbInv, ParserInv
    <2>11. StackInv'
      BY <2>2, <2>8 DEF DtbInv, StackInv
    <2>12. ASSUME NEW j \in 1 .. Len(stack)
           PROVE  Counted(stack[j], cur, Len(stack) - j)'
      <3>1. PICK d \in Nat : d = Len(stack) - j
        BY <2>6
      <3>2. PICK n \in 1 .. Len(nodes) : n = stack[j]
        BY <2>3
      <3>3. PICK c \in Nat, r \in 0 .. R - 1 : c = Len(nodes[n].props) /\ r = nodes[n].room
        BY PropsFit
      <3>4. PICK next \in Nat : next = cur'
        BY <2>10 DEF ParserInv
      <3>5. c = r \/ Counts(Round(cur, d, c), r)
        BY <2>2, <3>1, <3>2, <3>3 DEF DtbInv, CountInv, Counted
      <3>6. ASSUME Counts(Round(cur, d, c), r)
            PROVE  Counts(Round(next, d, IF d = 0 THEN (c + 1) % R ELSE c), r)'
        <4>1. /\ ~ Stopped(Round(cur, d, c))
              /\ Onward(Round(cur, d, c)) = Round(next, d, IF d = 0 THEN (c + 1) % R ELSE c)
          <5>1. in_struct(cur + 1, 2) /\ next = Skip(cur + 3, be32_read(cur + 1))
            BY <2>1, <3>4
          <5>2. in_struct(cur + 1, 2) =>
                   /\ ~ Stopped(Round(cur, d, c))
                   /\ Onward(Round(cur, d, c)) =
                         Round(Skip(cur + 3, be32_read(cur + 1)), d, IF d = 0 THEN (c + 1) % R ELSE c)
            BY <2>2, <2>3, AheadRule
          <5>3. QED BY <5>1, <5>2
        <4>2. PICK s : s = Round(next, d, IF d = 0 THEN (c + 1) % R ELSE c)
          OBVIOUS
        <4>3. Counts(s, r)
          BY <3>6, <4>1, <4>2, CountsOn
        <4>4. Counts(s, r)'
          BY <2>2, <4>3, CountsSame
        <4>5. QED BY <4>2, <4>4 DEF Round
      <3>7. CASE n = top
        <4>1. d = 0
          <5>1. j = Len(stack) \/ stack[j] < stack[Len(stack)]
            BY <2>6 DEF DtbInv, StackInv
          <5>2. QED BY <2>3, <2>6, <3>1, <3>2, <3>7, <5>1 DEF Top
        <4>2. c < r /\ (c + 1) % R = c + 1
          <5>1. c < r
            BY <2>9, <3>3, <3>7
          <5>2. c + 1 \in 0 .. R - 1
            BY <3>3, <5>1, WordSize
          <5>3. QED BY <5>1, <5>2, WordSize
        <4>3. Counts(Round(next, 0, c + 1), r)'
          <5>1. PICK s : s = Round(next, 0, c + 1)
            OBVIOUS
          <5>2. s = Round(next, d, IF d = 0 THEN (c + 1) % R ELSE c)
            BY <4>1, <4>2, <5>1
          <5>3. Counts(s, r)'
            BY <3>5, <3>6, <4>2, <5>2 DEF Round
          <5>4. QED BY <5>1, <5>3 DEF Round
        <4>4. Len(nodes'[n].props) = c + 1 /\ nodes'[n].room = r
          BY <2>8, <3>3, <3>7
        <4>5. QED BY <2>2, <3>1, <3>2, <3>4, <4>1, <4>3, <4>4 DEF Counted, Round
      <3>8. CASE n # top
        <4>1. nodes'[n] = nodes[n]
          BY <2>8, <3>8
        <4>2. d # 0
          BY <2>6, <3>1, <3>2, <3>8 DEF Top
        <4>3. Counts(Round(cur, d, c), r) => Counts(Round(next, d, c), r)'
          BY <3>6, <4>2 DEF Round
        <4>4. QED BY <2>2, <3>1, <3>2, <3>3, <3>4, <3>5, <4>1, <4>3 DEF Counted, Round
      <3>9. QED BY <3>7, <3>8
    <2>13. CountInv'
      <3>1. Len(nodes'[top].props) <= nodes'[top].room
        BY <2>8, <2>9
      <3>2. \A n \in 1 .. Len(nodes) : Len(nodes'[n].props) <= nodes'[n].room
        BY <2>8, <3>1 DEF DtbInv, CountInv
      <3>3. top \in {stack[k] : k \in 1 .. Len(stack)}
        BY <2>6 DEF Top
      <3>4. \A n \in 1 .. Len(nodes) :
               n \notin {stack[k] : k \in 1 .. Len(stack)} => Len(nodes'[n].props) = nodes'[n].room
        BY <2>8, <3>3 DEF DtbInv, CountInv
      <3>5. \A j \in 1 .. Len(stack') : Counted(stack[j], cur, Len(stack) - j)'
        BY <2>2, <2>12
      <3>6. QED BY <2>2, <2>8, <3>2, <3>4, <3>5 DEF DtbInv, CountInv
    <2>14. QED BY <2>10, <2>11, <2>13 DEF DtbInv
  <1>3. QED BY <1>1, <1>2

LEMMA EnterStep == DtbInv /\ EnterNode => DtbInv'
  <1> SUFFICES ASSUME DtbInv, EnterNode PROVE DtbInv'
    OBVIOUS
  <1>1. CASE Return("corrupt")
    BY <1>1, ReturnStep
  <1>2. CASE ~ Return("corrupt")
    <2>1. PICK parent :
             /\ ~ (Len(nodes) >= DTB_MAX_NODES)
             /\ parent = (IF stack = <<>> THEN NoNode ELSE Top)
             /\ nodes' = Append(nodes, NewNode(parent))
      BY <1>2 DEF EnterNode
    <2>2. /\ phase = "enter" /\ phase' = "ahead" /\ cur' = cur + 1 /\ ahead' = ScanFrom(cur + 1)
          /\ stack' = Append(stack, Len(nodes) + 1)
          /\ UNCHANGED <<blob, prop_used, tree>>
      BY <1>2 DEF EnterNode
    <2>3. /\ blob \in Blobs /\ cur \in Nat /\ nodes \in Seq(NodeT) /\ prop_used \in Nat
          /\ stack \in Seq(1 .. Len(nodes)) /\ Len(stack) \in Nat /\ Len(nodes) \in Nat
          /\ Len(stack) <= Len(nodes)
      BY DEF DtbInv, ParserInv, StackInv
    <2>4. Len(nodes) + 1 <= DTB_MAX_NODES
      BY <2>1, <2>3, DtbConstants
    <2>5. ahead' \in AheadT
      BY <2>2, <2>3, WordSize DEF ScanFrom, AheadT
    <2>6. parent = 0 \/ parent \in 1 .. Len(nodes)
      <3>1. stack # <<>> => Len(stack) \in 1 .. Len(stack)
        BY <2>3, EmptySeq
      <3>2. QED BY <2>1, <2>3, <3>1 DEF NoNode, Top
    <2>7. PICK new : new = NewNode(parent)
      OBVIOUS
    <2>8. new \in NodeT /\ new.props = <<>> /\ new.room = 0 /\ new.kids = <<>>
      <3>1. PICK name \in Texts : name = Cell(cur).s
        BY <2>3, BlockType
      <3>0. parent # NoNode => nodes[parent].ac \in Nat /\ nodes[parent].sc \in Nat
        <4>1. parent # NoNode => nodes[parent] \in NodeT
          BY <2>3, <2>6 DEF NoNode
        <4>2. QED BY <4>1 DEF NodeT
      <3>2. PICK a \in Nat : a = IF parent = NoNode THEN 2 ELSE nodes[parent].ac
        BY <3>0
      <3>3. PICK b \in Nat : b = IF parent = NoNode THEN 1 ELSE nodes[parent].sc
        BY <3>0
      <3>4. new = [name |-> name, parent |-> parent, kids |-> <<>>, props |-> <<>>,
                   phandle |-> 0, room |-> 0, ac |-> a, sc |-> b]
        BY <2>7, <3>1, <3>2, <3>3 DEF NewNode
      <3>5. parent \in Nat /\ <<>> \in Seq(Nat \ {0}) /\ <<>> \in Seq(PropT) /\ 0 \in 0 .. R - 1
        BY <2>3, <2>6, WordSize
      <3>6. QED BY <3>4, <3>5 DEF NodeT
    <2>9. /\ nodes' \in Seq(NodeT) /\ Len(nodes') = Len(nodes) + 1
          /\ nodes'[Len(nodes) + 1] = new
          /\ \A n \in 1 .. Len(nodes) : nodes'[n] = nodes[n]
      BY <2>1, <2>3, <2>7, <2>8, AppendProperties
    <2>10. /\ stack' \in Seq(1 .. Len(nodes) + 1) /\ Len(stack') = Len(stack) + 1
           /\ stack'[Len(stack) + 1] = Len(nodes) + 1
           /\ \A j \in 1 .. Len(stack) : stack'[j] = stack[j]
      <3>1. stack \in Seq(1 .. Len(nodes) + 1) /\ Len(nodes) + 1 \in 1 .. Len(nodes) + 1
        BY <2>3
      <3>2. QED BY <2>2, <3>1, AppendProperties
    <2>11. \A j \in 1 .. Len(stack) : stack[j] \in 1 .. Len(nodes)
      BY <2>3
    <2>12. ParserInv'
      <3>1. DOMAIN nodes = 1 .. Len(nodes) /\ DOMAIN nodes' = 1 .. Len(nodes) + 1
        BY <2>3, <2>9, LenProperties
      <3>2. ASSUME NEW n \in DOMAIN nodes', NEW k \in DOMAIN nodes'[n].kids
            PROVE  nodes'[n].kids[k] <= Len(nodes')
        <4>1. CASE n = Len(nodes) + 1
          BY <2>8, <2>9, <3>2, <4>1
        <4>2. CASE n # Len(nodes) + 1
          <5>1. n \in 1 .. Len(nodes)
            BY <2>3, <3>1, <3>2, <4>2
          <5>0. nodes[n] \in NodeT
            BY <2>3, <5>1
          <5>2. PICK kids : kids = nodes[n].kids /\ kids \in Seq(Nat \ {0})
            BY <5>0 DEF NodeT
          <5>3. k \in DOMAIN kids /\ kids[k] <= Len(nodes) /\ kids[k] \in Nat
            BY <2>9, <3>1, <3>2, <5>1, <5>2 DEF DtbInv, ParserInv
          <5>4. QED BY <2>3, <2>9, <5>1, <5>2, <5>3
        <4>3. QED BY <4>1, <4>2
      <3>3. cur' \in Nat /\ prop_used' \in Nat
        BY <2>2, <2>3
      <3>4. stack' # <<>>
        BY <2>3, <2>10, EmptySeq
      <3>5. QED BY <2>2, <2>5, <2>9, <3>2, <3>3, <3>4 DEF DtbInv, ParserInv
    <2>13. StackInv'
      <3>1. stack' \in Seq(1 .. Len(nodes')) /\ Len(stack') <= Len(nodes')
        BY <2>3, <2>9, <2>10
      <3>2. ASSUME NEW j \in 1 .. Len(stack'), NEW k \in 1 .. Len(stack'), j < k
            PROVE  stack'[j] < stack'[k]
        <4>1. j \in 1 .. Len(stack) /\ stack'[j] = stack[j] /\ stack[j] \in 1 .. Len(nodes)
          BY <2>3, <2>10, <2>11, <3>2, SMTT(30)
        <4>2. CASE k = Len(stack) + 1
          BY <2>3, <2>10, <4>1, <4>2
        <4>3. CASE k # Len(stack) + 1
          <5>1. k \in 1 .. Len(stack)
            <6>1. PICK l \in Nat : l = Len(stack) /\ Len(stack') = l + 1
              BY <2>3, <2>10
            <6>2. k \in 1 .. l + 1 /\ k # l + 1
              BY <4>3, <6>1
            <6>3. QED BY <6>1, <6>2
          <5>2. QED BY <2>10, <3>2, <4>1, <5>1 DEF DtbInv, StackInv
        <4>4. QED BY <4>2, <4>3
      <3>3. QED BY <2>2, <3>1, <3>2 DEF StackInv
    <2>14. ASSUME NEW j \in 1 .. Len(stack)
           PROVE  Counted(stack[j], cur, Len(stack) - j)'
      <3>1. stack'[j] = stack[j] /\ stack[j] \in 1 .. Len(nodes)
        BY <2>10, <2>11
      <3>2. PICK n \in 1 .. Len(nodes) : n = stack[j]
        BY <3>1
      <3>3. PICK d \in Nat : d = Len(stack) - j + 1
        <4>1. Len(stack) - j + 1 \in Nat
          BY <2>3
        <4>2. QED BY <4>1
      <3>4. PICK p : p = cur + 1
        OBVIOUS
      <3>5. Counted(n, p, d)
        BY <2>2, <3>2, <3>3, <3>4 DEF DtbInv, CountInv
      <3>6. Counted(n, p, d)'
        BY <2>2, <2>9, <3>5, CountedSame
      <3>7. Len(stack') - j = d
        BY <2>3, <2>10, <3>3
      <3>8. QED BY <2>2, <3>1, <3>2, <3>4, <3>6, <3>7 DEF Counted
    <2>15. CountInv'
      <3>1. ASSUME NEW n \in 1 .. Len(nodes')
            PROVE  /\ Len(nodes'[n].props) <= nodes'[n].room
                   /\ n \notin {stack'[k] : k \in 1 .. Len(stack')} => Len(nodes'[n].props) = nodes'[n].room
        <4>1. CASE n = Len(nodes) + 1
          <5>1. Len(nodes'[n].props) = 0 /\ nodes'[n].room = 0
            BY <2>8, <2>9, <4>1
          <5>2. QED BY <5>1
        <4>2. CASE n # Len(nodes) + 1
          <5>1. n \in 1 .. Len(nodes) /\ nodes'[n] = nodes[n]
            BY <2>3, <2>9, <4>2
          <5>2. n \in {stack[k] : k \in 1 .. Len(stack)} => n \in {stack'[k] : k \in 1 .. Len(stack')}
            <6>1. \A k \in 1 .. Len(stack) : k \in 1 .. Len(stack') /\ stack'[k] = stack[k]
              BY <2>3, <2>10
            <6>2. QED BY <6>1
          <5>3. QED BY <5>1, <5>2 DEF DtbInv, CountInv
        <4>3. QED BY <4>1, <4>2
      <3>2. Len(nodes') <= DTB_MAX_NODES /\ prop_used' <= DTB_MAX_PROPS
        BY <2>2, <2>4, <2>9 DEF DtbInv, CountInv
      <3>3. \A j \in 1 .. Len(stack') - 1 : Counted(stack[j], cur, Len(stack) - j)'
        BY <2>3, <2>10, <2>14
      <3>4. Len(nodes'[Top'].props) = 0 /\ nodes'[Top'].room = 0
        <4>1. Top' = Len(nodes) + 1
          BY <2>10 DEF Top
        <4>2. QED BY <2>8, <2>9, <4>1
      <3>5. Leads(ScanFrom(cur), ahead)'
        <4>1. PICK s : s = ahead' /\ s = ScanFrom(cur + 1)
          BY <2>2
        <4>2. Leads(s, s)'
          BY <2>2, LeadsHere, LeadsSame
        <4>3. ScanFrom(cur)' = s
          BY <2>2, <4>1 DEF ScanFrom
        <4>4. QED BY <4>1, <4>2, <4>3 DEF Leads, Path
      <3>6. QED BY <2>2, <3>1, <3>2, <3>3, <3>4, <3>5 DEF CountInv
    <2>16. QED BY <2>12, <2>13, <2>15 DEF DtbInv
  <1>3. QED BY <1>1, <1>2

\* A round of the look-ahead stays within the types.
LEMMA OnwardType ==
    ASSUME blob \in Blobs, NEW a \in AheadT, ~ Stopped(a)
    PROVE  Onward(a) \in AheadT
  <1>1. PICK p \in Nat, d \in 0 .. R - 1, c \in 0 .. R - 1 : a = Round(p, d, c)
    <2>1. a = [pos |-> a.pos, depth |-> a.depth, count |-> a.count]
          /\ a.pos \in Nat /\ a.depth \in 0 .. R - 1 /\ a.count \in 0 .. R - 1
      BY DEF AheadT
    <2>2. QED BY <2>1 DEF Round
  <1>2. d \in Nat /\ c \in Nat
    BY <1>1, WordSize
  <1>3. \A q \in Nat, e, f \in 0 .. R - 1 : Round(q, e, f) \in AheadT
    BY DEF Round, AheadT
  <1>4. in_struct(p, 1)
    BY <1>1 DEF Stopped, Round
  <1>5. CASE be32_read(p) = DTB_END \/ (be32_read(p) = DTB_END_NODE /\ d = 0)
    BY <1>1, <1>2, <1>4, <1>5, AheadRule
  <1>6. CASE be32_read(p) = DTB_END_NODE /\ d # 0
    <2>1. Onward(a) = Round(p + 1, d - 1, c)
      BY <1>1, <1>2, <1>4, <1>6, AheadRule
    <2>2. p + 1 \in Nat /\ d - 1 \in 0 .. R - 1
      BY <1>1, <1>6, WordSize
    <2>3. QED BY <1>1, <1>3, <2>1, <2>2
  <1>7. CASE be32_read(p) = DTB_BEGIN_NODE
    <2>1. Onward(a) = Round(p + 2, (d + 1) % R, c)
      BY <1>1, <1>2, <1>4, <1>7, AheadRule
    <2>2. p + 2 \in Nat /\ (d + 1) % R \in 0 .. R - 1
      BY <1>1, <1>2, WordSize
    <2>3. QED BY <1>1, <1>3, <2>1, <2>2
  <1>8. CASE be32_read(p) = DTB_PROP
    <2>1. in_struct(p + 1, 2)
      BY <1>1, <1>8 DEF Stopped, Round
    <2>2. PICK q \in Nat : q = Skip(p + 3, be32_read(p + 1))
      <3>1. p + 3 \in Nat /\ p + 1 \in Nat
        OBVIOUS
      <3>2. be32_read(p + 1) \in Nat
        BY <3>1, BlockType
      <3>3. QED BY <3>1, <3>2, SkipNat
    <2>3. PICK f \in 0 .. R - 1 : f = IF d = 0 THEN (c + 1) % R ELSE c
      <3>1. (c + 1) % R \in 0 .. R - 1
        BY <1>2, WordSize
      <3>2. QED BY <1>1, <3>1
    <2>4. Onward(a) = Round(q, d, f)
      BY <1>1, <1>2, <1>4, <1>8, <2>1, <2>2, <2>3, AheadRule
    <2>5. QED BY <1>1, <1>3, <2>2, <2>3, <2>4
  <1>9. CASE be32_read(p) \notin {DTB_END, DTB_END_NODE, DTB_BEGIN_NODE, DTB_PROP}
    <2>1. Onward(a) = Round(p + 1, d, c)
      BY <1>1, <1>2, <1>4, <1>9, AheadRule
    <2>2. p + 1 \in Nat
      OBVIOUS
    <2>3. QED BY <1>1, <1>3, <2>1, <2>2
  <1>10. QED BY <1>5, <1>6, <1>7, <1>8, <1>9

LEMMA LookStep == DtbInv /\ LookAhead => DtbInv'
  <1> SUFFICES ASSUME DtbInv, LookAhead PROVE DtbInv'
    OBVIOUS
  <1>1. /\ phase = "ahead" /\ ~ Stopped(ahead) /\ ahead' = Onward(ahead)
        /\ UNCHANGED <<blob, phase, cur, stack, nodes, prop_used, tree>>
    BY DEF LookAhead
  <1>2. ParserInv'
    <2>1. ahead' \in AheadT
      BY <1>1, OnwardType DEF DtbInv, ParserInv
    <2>2. QED BY <1>1, <2>1 DEF DtbInv, ParserInv
  <1>3. StackInv'
    BY <1>1 DEF DtbInv, StackInv
  <1>4. CountInv'
    <2>1. ASSUME NEW n, NEW p, NEW d, Counted(n, p, d) PROVE Counted(n, p, d)'
      BY <1>1, <2>1, CountedSame
    <2>2. \A j \in 1 .. Len(stack') - 1 : Counted(stack[j], cur, Len(stack) - j)'
      BY <1>1, <2>1 DEF DtbInv, CountInv
    <2>3. Leads(ScanFrom(cur), ahead)'
      <3>1. PICK s, t : s = ScanFrom(cur) /\ t = Onward(ahead)
        OBVIOUS
      <3>2. Leads(s, t)
        BY <1>1, <3>1, LeadsOn DEF DtbInv, CountInv
      <3>3. Leads(s, t)'
        BY <1>1, <3>2, LeadsSame
      <3>4. ScanFrom(cur)' = s /\ ahead' = t
        BY <1>1, <3>1 DEF ScanFrom
      <3>5. QED BY <3>3, <3>4 DEF Leads, Path
    <2>4. Top' = Top
      BY <1>1 DEF Top
    <2>5. QED BY <1>1, <2>2, <2>3, <2>4 DEF DtbInv, CountInv
  <1>5. QED BY <1>2, <1>3, <1>4 DEF DtbInv

\* m is the pool with another room in node n.
Roomed(m, n, room) ==
    /\ m \in Seq(NodeT) /\ Len(m) = Len(nodes)
    /\ \A k \in 1 .. Len(nodes) : m[k].kids = nodes[k].kids /\ m[k].props = nodes[k].props
    /\ \A k \in 1 .. Len(nodes) : k # n => m[k] = nodes[k]
    /\ m[n].room = room

LEMMA RoomSet ==
    ASSUME nodes \in Seq(NodeT), NEW n \in 1 .. Len(nodes), NEW room \in 0 .. R - 1,
           NEW m, m = [nodes EXCEPT ![n].room = room]
    PROVE  Roomed(m, n, room)
  <1>1. PICK x : x \in NodeT /\ x = nodes[n]
    OBVIOUS
  <1>2. PICK y : y = [x EXCEPT !.room = room]
    OBVIOUS
  <1>3. y \in NodeT /\ y.room = room /\ y.kids = x.kids /\ y.props = x.props
    BY <1>1, <1>2 DEF NodeT
  <1>4. m = [nodes EXCEPT ![n] = y]
    BY <1>1, <1>2
  <1>5. m \in Seq(NodeT) /\ Len(m) = Len(nodes)
    BY <1>3, <1>4, ExceptSeq
  <1>6. m[n] = y /\ \A k \in 1 .. Len(nodes) : k # n => m[k] = nodes[k]
    BY <1>4
  <1>7. QED BY <1>1, <1>3, <1>5, <1>6 DEF Roomed

LEMMA SlotsStep == DtbInv /\ AllocProps => DtbInv'
  <1> SUFFICES ASSUME DtbInv, AllocProps PROVE DtbInv'
    OBVIOUS
  <1>1. CASE Return("corrupt")
    BY <1>1, ReturnStep
  <1>2. CASE ~ Return("corrupt")
    <2>1. /\ phase = "ahead" /\ Stopped(ahead) /\ ~ NoProps(ahead.count)
          /\ nodes' = [nodes EXCEPT ![Top].room = ahead.count]
          /\ prop_used' = (prop_used + ahead.count) % R
          /\ phase' = "body"
          /\ UNCHANGED <<blob, cur, ahead, stack, tree>>
      BY <1>2 DEF AllocProps
    <2>2. /\ blob \in Blobs /\ cur \in Nat /\ nodes \in Seq(NodeT) /\ prop_used \in Nat
          /\ stack \in Seq(1 .. Len(nodes)) /\ Len(stack) \in Nat /\ Len(nodes) \in Nat /\ stack # <<>>
      BY <2>1 DEF DtbInv, ParserInv, StackInv
    <2>3. PICK top : top = Top /\ top = stack[Len(stack)] /\ top \in 1 .. Len(nodes) /\ Len(stack) > 0
      BY <2>2, EmptySeq DEF Top
    <2>4. PICK room \in 0 .. R - 1 : room = ahead.count
      <3>1. ahead \in AheadT
        BY DEF DtbInv, ParserInv
      <3>2. QED BY <3>1 DEF AheadT
    <2>5. Roomed(nodes', top, room)
      BY <2>1, <2>2, <2>3, <2>4, RoomSet
    <2>6. prop_used' \in Nat /\ prop_used' <= DTB_MAX_PROPS
      <3>1. PICK u : u = (prop_used + room) % R
        OBVIOUS
      <3>2. u \in Nat
        BY <2>2, <3>1, WordSize
      <3>3. ~ (u > DTB_MAX_PROPS) /\ prop_used' = u
        BY <2>1, <2>4, <3>1 DEF NoProps
      <3>4. QED BY <3>2, <3>3, DtbConstants
    <2>7. ParserInv'
      <3>1. DOMAIN nodes = 1 .. Len(nodes) /\ DOMAIN nodes' = 1 .. Len(nodes)
        BY <2>2, <2>5, LenProperties DEF Roomed
      <3>2. \A n \in DOMAIN nodes' : \A k \in DOMAIN nodes'[n].kids : nodes'[n].kids[k] <= Len(nodes')
        BY <2>5, <3>1 DEF Roomed, DtbInv, ParserInv
      <3>3. QED BY <2>1, <2>5, <2>6, <3>2 DEF Roomed, DtbInv, ParserInv
    <2>8. StackInv'
      BY <2>1, <2>5 DEF Roomed, DtbInv, StackInv
    <2>9. Len(nodes[top].props) = 0 /\ nodes'[top].props = nodes[top].props /\ nodes'[top].room = room
      BY <2>1, <2>3, <2>5 DEF Roomed, DtbInv, CountInv
    <2>10. ASSUME NEW j \in 1 .. Len(stack)
           PROVE  Counted(stack[j], cur, Len(stack) - j)'
      <3>1. PICK d \in Nat : d = Len(stack) - j
        BY <2>2
      <3>2. PICK n \in 1 .. Len(nodes) : n = stack[j]
        BY <2>2
      <3>3. CASE j = Len(stack)
        <4>1. d = 0 /\ n = top
          BY <2>2, <2>3, <3>1, <3>2, <3>3
        <4>2. PICK s : s = ScanFrom(cur)
          OBVIOUS
        <4>3. Counts(s, room)
          BY <2>1, <2>4, <4>2 DEF DtbInv, CountInv, Counts
        <4>4. Counts(s, room)'
          BY <2>1, <4>3, CountsSame
        <4>5. s = Round(cur', Len(stack') - j, Len(nodes'[n].props))
          BY <2>1, <2>9, <3>1, <4>1, <4>2 DEF Round, ScanFrom
        <4>6. nodes'[n].room = room /\ stack'[j] = n
          BY <2>1, <2>9, <3>2, <4>1
        <4>7. QED BY <4>4, <4>5, <4>6 DEF Counted, Round
      <3>4. CASE j # Len(stack)
        <4>1. j \in 1 .. Len(stack) - 1
          BY <2>2, <3>4
        <4>2. PICK p : p = cur
          OBVIOUS
        <4>3. Counted(n, p, d)
          BY <2>1, <3>1, <3>2, <4>1, <4>2 DEF DtbInv, CountInv
        <4>4. n # top
          <5>1. stack[j] < stack[Len(stack)]
            BY <2>2, <2>3, <4>1 DEF DtbInv, StackInv
          <5>2. QED BY <2>2, <2>3, <3>2, <5>1
        <4>5. Counted(n, p, d)'
          BY <2>1, <2>5, <4>3, <4>4, CountedSame DEF Roomed
        <4>6. QED BY <2>1, <3>1, <3>2, <4>2, <4>5 DEF Counted
      <3>5. QED BY <3>3, <3>4
    <2>11. CountInv'
      <3>1. \A n \in 1 .. Len(nodes) : Len(nodes'[n].props) <= nodes'[n].room
        <4>1. Len(nodes'[top].props) <= nodes'[top].room
          BY <2>9, WordSize
        <4>2. QED BY <2>5, <4>1 DEF Roomed, DtbInv, CountInv
      <3>2. top \in {stack[k] : k \in 1 .. Len(stack)}
        BY <2>2, <2>3
      <3>3. \A n \in 1 .. Len(nodes) :
               n \notin {stack[k] : k \in 1 .. Len(stack)} => Len(nodes'[n].props) = nodes'[n].room
        BY <2>5, <3>2 DEF Roomed, DtbInv, CountInv
      <3>4. \A j \in 1 .. Len(stack') : Counted(stack[j], cur, Len(stack) - j)'
        BY <2>1, <2>10
      <3>5. Len(nodes') = Len(nodes) /\ Len(nodes) <= DTB_MAX_NODES
        BY <2>5 DEF Roomed, DtbInv, CountInv
      <3>6. QED BY <2>1, <2>6, <3>1, <3>3, <3>4, <3>5 DEF CountInv
    <2>12. QED BY <2>7, <2>8, <2>11 DEF DtbInv
  <1>3. QED BY <1>1, <1>2

\* m is the pool with other children of some nodes.
SameProps(m) ==
    /\ m \in Seq(NodeT) /\ Len(m) = Len(nodes)
    /\ \A n \in 1 .. Len(nodes) : m[n].props = nodes[n].props /\ m[n].room = nodes[n].room
    /\ \A n \in 1 .. Len(nodes) : \A k \in DOMAIN m[n].kids : m[n].kids[k] <= Len(nodes)

\* The caller of parse_node appends the child it got.
LEMMA ChildAdded ==
    ASSUME ParserInv, NEW par, NEW kid \in 1 .. Len(nodes), NEW m,
           m = [nodes EXCEPT ![par].kids = Append(@, kid)]
    PROVE  SameProps(m)
  <1>1. /\ nodes \in Seq(NodeT) /\ DOMAIN nodes = 1 .. Len(nodes) /\ Len(nodes) \in Nat
        /\ \A n \in 1 .. Len(nodes) : \A k \in DOMAIN nodes[n].kids : nodes[n].kids[k] <= Len(nodes)
    BY LenProperties DEF ParserInv
  <1>2. CASE par \notin 1 .. Len(nodes)
    <2>1. m = nodes
      BY <1>1, <1>2
    <2>2. QED BY <1>1, <2>1 DEF SameProps
  <1>3. CASE par \in 1 .. Len(nodes)
    <2>1. PICK x : x = nodes[par] /\ x \in NodeT
      BY <1>1, <1>3
    <2>2. PICK kids \in Seq(Nat \ {0}) : kids = x.kids
      BY <2>1 DEF NodeT
    <2>3. PICK ks \in Seq(Nat \ {0}) :
             ks = Append(kids, kid) /\ Len(ks) = Len(kids) + 1 /\ ks[Len(kids) + 1] = kid
             /\ \A k \in 1 .. Len(kids) : ks[k] = kids[k]
      <3>1. PICK k0 \in Nat \ {0} : k0 = kid
        BY <1>1
      <3>2. /\ Append(kids, k0) \in Seq(Nat \ {0}) /\ Len(Append(kids, k0)) = Len(kids) + 1
            /\ Append(kids, k0)[Len(kids) + 1] = k0
            /\ \A k \in 1 .. Len(kids) : Append(kids, k0)[k] = kids[k]
        BY AppendProperties
      <3>3. QED BY <3>1, <3>2
    <2>4. PICK y : y = [x EXCEPT !.kids = ks]
      OBVIOUS
    <2>5. y \in NodeT /\ y.props = x.props /\ y.room = x.room /\ y.kids = ks
      BY <2>1, <2>4 DEF NodeT
    <2>6. m = [nodes EXCEPT ![par] = y]
      BY <1>1, <1>3, <2>1, <2>2, <2>3, <2>4 DEF NodeT
    <2>7. m \in Seq(NodeT) /\ Len(m) = Len(nodes)
      <3>1. nodes \in Seq(NodeT) /\ y \in NodeT
        BY <1>1, <2>5
      <3>2. PICK i \in 1 .. Len(nodes) : i = par
        BY <1>3
      <3>3. [nodes EXCEPT ![i] = y] \in Seq(NodeT) /\ Len([nodes EXCEPT ![i] = y]) = Len(nodes)
        BY <3>1, ExceptSeq
      <3>4. QED BY <2>6, <3>2, <3>3
    <2>8. m[par] = y /\ \A n \in 1 .. Len(nodes) : n # par => m[n] = nodes[n]
      BY <1>1, <1>3, <2>6
    <2>9. ASSUME NEW k \in DOMAIN ks PROVE ks[k] <= Len(nodes)
      <3>1. DOMAIN kids = 1 .. Len(kids) /\ DOMAIN ks = 1 .. Len(ks) /\ Len(kids) \in Nat
        BY LenProperties
      <3>2. CASE k = Len(kids) + 1
        BY <1>1, <2>3, <3>2
      <3>3. CASE k # Len(kids) + 1
        <4>1. k \in DOMAIN kids /\ ks[k] = kids[k]
          BY <2>3, <2>9, <3>1, <3>3
        <4>2. QED BY <1>1, <1>3, <2>1, <2>2, <4>1
      <3>4. QED BY <3>2, <3>3
    <2>10. ASSUME NEW n \in 1 .. Len(nodes)
           PROVE  /\ m[n].props = nodes[n].props /\ m[n].room = nodes[n].room
                  /\ \A k \in DOMAIN m[n].kids : m[n].kids[k] <= Len(nodes)
      <3>1. CASE n = par
        BY <2>1, <2>5, <2>8, <2>9, <3>1
      <3>2. CASE n # par
        BY <1>1, <2>8, <3>2
      <3>3. QED BY <3>1, <3>2
    <2>11. QED BY <2>7, <2>10 DEF SameProps
  <1>4. QED BY <1>2, <1>3

LEMMA LeaveStep == DtbInv /\ LeaveNode => DtbInv'
  <1> SUFFICES ASSUME DtbInv, LeaveNode PROVE DtbInv'
    OBVIOUS
  <1>1. /\ phase = "body" /\ in_struct(cur, 1) /\ be32_read(cur) \in {DTB_END_NODE, DTB_END}
        /\ cur' = cur + 1 /\ stack' = SubSeq(stack, 1, Len(stack) - 1)
        /\ UNCHANGED <<blob, ahead, prop_used, tree>>
        /\ phase' = (IF stack' = <<>> THEN "extract" ELSE "body")
        /\ nodes' = nodes \/ nodes' = [nodes EXCEPT ![nodes[Top].parent].kids = Append(@, Top)]
    BY DEF LeaveNode
  <1>2. /\ blob \in Blobs /\ cur \in Nat /\ nodes \in Seq(NodeT)
        /\ stack \in Seq(1 .. Len(nodes)) /\ stack # <<>>
        /\ Len(nodes) \in Nat /\ DOMAIN nodes = 1 .. Len(nodes)
    BY <1>1, LenProperties DEF DtbInv, ParserInv, StackInv
  <1>3. PICK l \in Nat : l = Len(stack) - 1 /\ Len(stack) = l + 1 /\ l <= Len(nodes)
    <2>1. Len(stack) \in Nat /\ Len(stack) # 0 /\ Len(stack) <= Len(nodes)
      BY <1>2, EmptySeq, LenProperties DEF DtbInv, StackInv
    <2>2. /\ Len(stack) - 1 \in Nat /\ Len(stack) = (Len(stack) - 1) + 1
          /\ Len(stack) - 1 <= Len(nodes)
      BY <1>2, <2>1
    <2>3. QED BY <2>2
  <1>4. PICK top \in 1 .. Len(nodes) : top = Top /\ top = stack[l + 1]
    BY <1>2, <1>3 DEF Top
  <1>5. SameProps(nodes')
    <2>1. CASE nodes' = nodes
      BY <1>2, <2>1 DEF SameProps, DtbInv, ParserInv
    <2>2. CASE nodes' = [nodes EXCEPT ![nodes[Top].parent].kids = Append(@, Top)]
      BY <1>4, <2>2, ChildAdded DEF DtbInv
    <2>3. QED BY <1>1, <2>1, <2>2
  <1>6. /\ stack' \in Seq(1 .. Len(nodes)) /\ Len(stack') = l
        /\ \A j \in 1 .. l : stack'[j] = stack[j]
    <2>1. 1 \in 1 .. Len(stack) + 1 /\ l \in 1 - 1 .. Len(stack) /\ stack' = SubSeq(stack, 1, l)
      BY <1>1, <1>3
    <2>2. PICK t : t = SubSeq(stack, 1, l)
      OBVIOUS
    <2>3. /\ t \in Seq(1 .. Len(nodes)) /\ Len(t) = IF 1 <= l THEN l - 1 + 1 ELSE 0
          /\ \A j \in 1 .. l - 1 + 1 : t[j] = stack[1 + j - 1]
      BY <1>2, <2>1, <2>2, SubSeqProperties
    <2>4. Len(t) = l /\ \A j \in 1 .. l : t[j] = stack[j]
      BY <2>3
    <2>5. QED BY <2>1, <2>2, <2>3, <2>4
  <1>7. ParserInv'
    <2>1. DOMAIN nodes' = 1 .. Len(nodes)
      BY <1>5, LenProperties DEF SameProps
    <2>2. nodes' # <<>>
      <3>1. Len(nodes') # 0
        BY <1>4, <1>5 DEF SameProps
      <3>2. QED BY <3>1
    <2>3. \A n \in DOMAIN nodes' : \A k \in DOMAIN nodes'[n].kids : nodes'[n].kids[k] <= Len(nodes')
      BY <1>5, <2>1 DEF SameProps
    <2>4. nodes' \in Seq(NodeT)
      BY <1>5 DEF SameProps
    <2>5. phase' \in {"extract", "body"} /\ (phase' = "body" => stack' # <<>>)
      BY <1>1
    <2>6. cur' \in Nat /\ UNCHANGED <<blob, ahead, prop_used, tree>>
      BY <1>1, <1>2
    <2>7. QED BY <2>2, <2>3, <2>4, <2>5, <2>6 DEF DtbInv, ParserInv
  <1>8. StackInv'
    <2>1. Len(nodes') = Len(nodes)
      BY <1>5 DEF SameProps
    <2>2. \A j, k \in 1 .. l : j < k => stack'[j] < stack'[k]
      <3>1. ASSUME NEW j \in 1 .. l, NEW k \in 1 .. l, j < k PROVE stack[j] < stack[k]
        <4>1. j \in 1 .. Len(stack) /\ k \in 1 .. Len(stack)
          BY <1>3
        <4>2. QED BY <3>1, <4>1 DEF DtbInv, StackInv
      <3>2. QED BY <1>6, <3>1
    <2>3. QED BY <1>1, <1>3, <1>6, <2>1, <2>2 DEF StackInv
  <1>9. ASSUME NEW j \in 1 .. l
        PROVE  Counted(stack[j], cur, Len(stack) - j)'
    <2>1. PICK n \in 1 .. Len(nodes), d \in Nat : n = stack[j] /\ d = l - j
      <3>1. stack[j] \in 1 .. Len(nodes) /\ l - j \in Nat
        BY <1>2, <1>3
      <3>2. QED BY <3>1
    <2>2. Counted(n, cur, d + 1)
      <3>1. Counted(stack[j], cur, Len(stack) - j)
        BY <1>1, <1>3 DEF DtbInv, CountInv
      <3>2. Len(stack) - j = d + 1
        BY <1>3, <2>1
      <3>3. QED BY <2>1, <3>1, <3>2
    <2>3. PICK next : next = cur' /\ next = cur + 1
      BY <1>1
    <2>4. PICK c \in Nat, r \in 0 .. R - 1 : c = Len(nodes[n].props) /\ r = nodes[n].room
      BY PropsFit
    <2>5. ASSUME Counts(Round(cur, d + 1, c), r) PROVE Counts(Round(next, d, c), r) \/ c = r
      <3>1. d + 1 \in Nat /\ d + 1 # 0 /\ (d + 1) - 1 = d
        OBVIOUS
      <3>2. PICK s : s = Round(cur, d + 1, c)
        OBVIOUS
      <3>3. CASE be32_read(cur) = DTB_END
        <4>1. Stopped(s)
          BY <1>1, <1>2, <3>1, <3>2, <3>3, AheadRule
        <4>2. s.count = r
          BY <2>5, <3>2, <4>1, CountsEnd
        <4>3. QED BY <3>2, <4>2 DEF Round
      <3>4. CASE be32_read(cur) = DTB_END_NODE
        <4>1. ~ Stopped(s) /\ Onward(s) = Round(next, d, c)
          BY <1>1, <1>2, <2>3, <3>1, <3>2, <3>4, AheadRule
        <4>2. QED BY <2>5, <3>2, <4>1, CountsOn
      <3>5. QED BY <1>1, <3>3, <3>4
    <2>6. Counted(n, next, d)
      BY <2>2, <2>4, <2>5 DEF Counted
    <2>7. nodes'[n].props = nodes[n].props /\ nodes'[n].room = nodes[n].room
      BY <1>5 DEF SameProps
    <2>8. Counted(n, next, d)'
      BY <1>1, <2>6, <2>7, CountedSame
    <2>9. stack'[j] = n /\ Len(stack') - j = d
      BY <1>6, <2>1
    <2>10. QED BY <2>3, <2>8, <2>9 DEF Counted
  <1>10. Len(nodes[top].props) = nodes[top].room
    <2>1. Counted(top, cur, 0)
      <3>1. Counted(stack[l + 1], cur, Len(stack) - (l + 1))
        BY <1>1, <1>3 DEF DtbInv, CountInv
      <3>2. QED BY <1>3, <1>4, <3>1
    <2>2. PICK c \in Nat, r \in 0 .. R - 1 : c = Len(nodes[top].props) /\ r = nodes[top].room
      BY PropsFit
    <2>3. PICK s : s = Round(cur, 0, c)
      OBVIOUS
    <2>4. Stopped(s)
      BY <1>1, <1>2, <2>3, AheadRule
    <2>5. Counts(s, r) => s.count = r
      BY <2>4, CountsEnd
    <2>6. QED BY <2>1, <2>2, <2>3, <2>5 DEF Counted, Round
  <1>11. CountInv'
    <2>1. ASSUME NEW n \in 1 .. Len(nodes), n \notin {stack'[k] : k \in 1 .. l}
          PROVE  Len(nodes[n].props) = nodes[n].room
      <3>1. CASE n = top
        BY <1>10, <3>1
      <3>2. CASE n # top
        <4>1. \A k \in 1 .. l + 1 : stack[k] # n
          BY <1>3, <1>4, <1>6, <2>1, <3>2, SMTT(30)
        <4>2. QED BY <1>3, <4>1 DEF DtbInv, CountInv
      <3>3. QED BY <3>1, <3>2
    <2>2. \A n \in 1 .. Len(nodes') : Len(nodes'[n].props) <= nodes'[n].room
      BY <1>5 DEF SameProps, DtbInv, CountInv
    <2>3. \A n \in 1 .. Len(nodes') :
             n \notin {stack'[k] : k \in 1 .. Len(stack')} => Len(nodes'[n].props) = nodes'[n].room
      BY <1>5, <1>6, <2>1 DEF SameProps
    <2>4. \A j \in 1 .. Len(stack') : Counted(stack[j], cur, Len(stack) - j)'
      BY <1>6, <1>9
    <2>5. Len(nodes') <= DTB_MAX_NODES /\ prop_used' <= DTB_MAX_PROPS
      BY <1>1, <1>5 DEF SameProps, DtbInv, CountInv
    <2>6. QED BY <1>1, <2>2, <2>3, <2>4, <2>5 DEF CountInv
  <1>12. QED BY <1>7, <1>8, <1>11 DEF DtbInv

\* A value read as cells is a natural number.
LEMMA CellsNat ==
    ASSUME blob \in Blobs, NEW pos \in Nat, NEW count \in Nat
    PROVE  Cells(pos, count) \in Nat
  <1>1. CASE count = 0
    BY <1>1 DEF Cells
  <1>2. CASE count = 1
    <2>1. be32_read(pos) \in Nat
      BY BlockType
    <2>2. QED BY <1>2, <2>1 DEF Cells
  <1>3. CASE count # 0 /\ count # 1
    <2>1. pos + count - 2 \in Nat /\ pos + count - 1 \in Nat
      BY <1>3
    <2>2. PICK hi \in Nat, lo \in Nat :
             hi = be32_read(pos + count - 2) /\ lo = be32_read(pos + count - 1)
      BY <2>1, BlockType
    <2>3. PICK x \in Nat : x = hi * R
      BY WordSize
    <2>4. x + lo \in Nat
      OBVIOUS
    <2>5. Cells(pos, count) = x + lo
      BY <1>3, <2>2, <2>3 DEF Cells
    <2>6. QED BY <2>4, <2>5
  <1>4. QED BY <1>1, <1>2, <1>3

\* A property that is there is one of the node's.
LEMMA PropIs ==
    ASSUME nodes \in Seq(NodeT), NEW n \in 1 .. Len(nodes), NEW name, Has(n, name)
    PROVE  /\ Prop(n, name) \in PropT
           /\ \E i \in 1 .. Len(nodes[n].props) : Prop(n, name) = nodes[n].props[i]
  <1> DEFINE hits == {k \in DOMAIN nodes[n].props : nodes[n].props[k].name = name}
  <1>1. nodes[n] \in NodeT
    OBVIOUS
  <1>2. PICK ps \in Seq(PropT) : ps = nodes[n].props
    BY <1>1 DEF NodeT
  <1>3. hits \in SUBSET Nat /\ hits \subseteq 1 .. Len(ps)
    BY <1>2, LenProperties
  <1>4. hits # {} /\ dtb_get_prop(n, name) = CHOOSE k \in hits : \A j \in hits : k <= j
    BY DEF Has, dtb_get_prop
  <1> HIDE DEF hits
  <1>5. \E k \in hits : \A j \in hits : k <= j
    BY <1>3, <1>4, LeastNatural
  <1>6. dtb_get_prop(n, name) \in hits
    BY <1>4, <1>5
  <1>7. PICK i \in 1 .. Len(ps) : i = dtb_get_prop(n, name)
    BY <1>3, <1>6
  <1>8. ps[i] \in PropT
    OBVIOUS
  <1>9. QED BY <1>2, <1>7, <1>8 DEF Prop

LEMMA PropIn ==
    ASSUME nodes \in Seq(NodeT), NEW n \in 1 .. Len(nodes), NEW name, Has(n, name)
    PROVE  Prop(n, name) \in PropT
  BY PropIs

\* An entry of a reg property is a pair of natural numbers.
LEMMA PairType ==
    ASSUME blob \in Blobs, NEW pos \in Nat, NEW a \in Nat, NEW b \in Nat
    PROVE  RegPair(pos, a, b) \in PairT
  <1>1. pos + a \in Nat
    OBVIOUS
  <1>2. Cells(pos, a) \in Nat /\ Cells(pos + a, b) \in Nat
    BY <1>1, CellsNat
  <1>3. QED BY <1>2 DEF RegPair, PairT

\* The width of an entry, in whole cells.
LEMMA EntryBytes ==
    ASSUME NEW a \in Nat, NEW b \in Nat
    PROVE  entry_bytes(a, b) \in Nat /\ entry_bytes(a, b) \div 4 \in Nat
  <1>1. PICK x \in Nat : x = (a + b) * 4
    OBVIOUS
  <1>2. PICK y \in Nat : y = x % R
    BY WordSize
  <1>3. y \div 4 \in Nat
    OBVIOUS
  <1>4. QED BY <1>1, <1>2, <1>3 DEF entry_bytes

\* Where entry i of the reg property of node n begins.
EntryAt(n, i) == Prop(n, "reg").at + (i - 1) * (entry_bytes(nodes[1].ac, nodes[1].sc) \div 4)

\* Every place MemoryEntries lists is one of an entry of a child's reg property.
IsEntry(place) ==
    \E n \in 1 .. Len(nodes) : \E i \in Nat \ {0} :
        /\ Has(n, "reg") /\ place = EntryAt(n, i)
        /\ i * entry_bytes(nodes[1].ac, nodes[1].sc) <= Prop(n, "reg").len
        /\ entry_bytes(nodes[1].ac, nodes[1].sc) # 0

EntryPlaces == {p \in Nat : IsEntry(p)}

LEMMA EntriesFound ==
    ASSUME ParserInv, nodes # <<>>
    PROVE  MemoryEntries(1) \in Seq(EntryPlaces)
  <1>1. /\ blob \in Blobs /\ nodes \in Seq(NodeT) /\ 1 \in 1 .. Len(nodes)
        /\ Len(nodes) \in Nat /\ DOMAIN nodes = 1 .. Len(nodes)
    BY EmptySeq, LenProperties DEF ParserInv
  <1>2. nodes[1] \in NodeT
    BY <1>1
  <1>3. PICK kids \in Seq(Nat \ {0}) : kids = nodes[1].kids
    BY <1>2 DEF NodeT
  <1>4. PICK a \in Nat, b \in Nat : a = nodes[1].ac /\ b = nodes[1].sc
    BY <1>2 DEF NodeT
  <1>5. \A k \in 1 .. Len(kids) : kids[k] \in 1 .. Len(nodes)
    <2>1. DOMAIN kids = 1 .. Len(kids)
      BY LenProperties
    <2>2. \A k \in 1 .. Len(kids) : kids[k] \in Nat \ {0} /\ kids[k] <= Len(nodes)
      BY <1>1, <1>3, <2>1 DEF ParserInv
    <2>3. QED BY <1>1, <2>2
  <1>17. PICK bytes \in Nat, cells \in Nat :
            bytes = entry_bytes(nodes[1].ac, nodes[1].sc) /\ cells = bytes \div 4
    BY <1>4, EntryBytes
  <1> DEFINE count(n) == IF bytes = 0 THEN 0 ELSE Prop(n, "reg").len \div bytes
             entries(n) == [i \in 1 .. count(n) |-> Prop(n, "reg").at + (i - 1) * (bytes \div 4)]
             More(k) == IF IsMemory(kids[k]) THEN entries(kids[k]) ELSE <<>>
             Body(h) == [k \in 0 .. Len(kids) |-> IF k = 0 THEN <<>> ELSE h[k - 1] \o More(k)]
             found == CHOOSE h : h = Body(h)
             all == found[Len(kids)]
  <1>6. MemoryEntries(1) = SubSeq(all, 1, IF Len(all) < MEMORY_MAX THEN Len(all) ELSE MEMORY_MAX)
    BY <1>3, <1>17 DEF MemoryEntries
  <1>7. ASSUME NEW k \in 1 .. Len(kids) PROVE More(k) \in Seq(EntryPlaces)
    <2>1. CASE ~ IsMemory(kids[k])
      BY <2>1
    <2>2. CASE IsMemory(kids[k])
      <3>1. PICK n \in 1 .. Len(nodes) : n = kids[k]
        BY <1>5
      <3>2. Prop(n, "reg") \in PropT /\ Has(n, "reg")
        BY <1>1, <2>2, <3>1, PropIn DEF IsMemory
      <3>3. PICK len \in Nat, at \in Nat : len = Prop(n, "reg").len /\ at = Prop(n, "reg").at
        BY <3>2 DEF PropT
      <3>4. PICK c \in Nat : c = count(n) /\ c * bytes <= len /\ (bytes = 0 => c = 0)
        <4>1. CASE bytes = 0
          BY <4>1
        <4>2. CASE bytes # 0
          <5>1. len \div bytes \in Nat /\ (len \div bytes) * bytes <= len
            BY <4>2, DivFacts
          <5>2. QED BY <3>3, <4>2, <5>1
        <4>3. QED BY <4>1, <4>2
      <3>5. ASSUME NEW i \in 1 .. c PROVE at + (i - 1) * (bytes \div 4) \in EntryPlaces
        <4>1. i \in Nat \ {0} /\ i - 1 \in Nat /\ bytes # 0
          BY <3>4, <3>5
        <4>2. PICK o \in Nat : o = (i - 1) * (bytes \div 4)
          <5>1. (i - 1) * cells \in Nat
            BY <4>1
          <5>2. QED BY <1>17, <5>1
        <4>3. i * bytes <= c * bytes
          BY <3>5, TimesMonotone
        <4>4. i * bytes <= len
          <5>1. i * bytes \in Nat /\ c * bytes \in Nat
            BY <4>1
          <5>2. QED BY <3>4, <4>3, <5>1
        <4>5. at + (i - 1) * (bytes \div 4) = EntryAt(n, i)
          BY <1>17, <3>3 DEF EntryAt
        <4>6. IsEntry(at + (i - 1) * (bytes \div 4))
          BY <1>17, <3>2, <3>3, <4>1, <4>4, <4>5 DEF IsEntry
        <4>7. at + (i - 1) * (bytes \div 4) \in Nat
          BY <4>2
        <4>8. QED BY <4>6, <4>7 DEF EntryPlaces
      <3>6. entries(n) = [i \in 1 .. c |-> at + (i - 1) * (bytes \div 4)]
        BY <3>3, <3>4
      <3>7. [i \in 1 .. c |-> at + (i - 1) * (bytes \div 4)] \in Seq(EntryPlaces)
        BY <3>5, IsASeq
      <3>8. QED BY <2>2, <3>1, <3>6, <3>7
    <2>3. QED BY <2>1, <2>2
  <1> HIDE DEF More
  <1>8. Len(kids) \in Nat /\ <<>> \in Seq(EntryPlaces)
    BY LenProperties
  <1>9. \E h : h = Body(h)
    <2>1. PICK f : f = [at \in (1 .. Len(kids)) \X Seq(EntryPlaces) |-> at[2] \o More(at[1])]
      OBVIOUS
    <2>2. f \in [(1 .. Len(kids)) \X Seq(EntryPlaces) -> Seq(EntryPlaces)]
      <3>1. \A k \in 1 .. Len(kids), x \in Seq(EntryPlaces) : x \o More(k) \in Seq(EntryPlaces)
        BY <1>7, ConcatProperties
      <3>2. QED BY <2>1, <3>1
    <2>3. PICK h \in [0 .. Len(kids) -> Seq(EntryPlaces)] :
             Follows(h, <<>>, f, Len(kids))
      BY <1>8, <2>2, Recursion
    <2>4. ASSUME NEW k \in 1 .. Len(kids) PROVE h[k] = h[k - 1] \o More(k)
      <3>1. h[k - 1] \in Seq(EntryPlaces)
        <4>1. k - 1 \in 0 .. Len(kids)
          BY <1>8
        <4>2. QED BY <4>1
      <3>2. f[<<k, h[k - 1]>>] = h[k - 1] \o More(k)
        BY <2>1, <3>1
      <3>3. QED BY <2>3, <3>2 DEF Follows
    <2>5. \A k \in 0 .. Len(kids) : h[k] = IF k = 0 THEN <<>> ELSE h[k - 1] \o More(k)
      BY <1>8, <2>3, <2>4 DEF Follows
    <2>6. h = Body(h)
      BY <2>5
    <2>7. QED BY <2>6
  <1> HIDE DEF Body
  <1>10. found = Body(found)
    BY <1>9, Zenon
  <1> HIDE DEF found
  <1>11. found[0] = <<>> /\ \A k \in 1 .. Len(kids) : found[k] = found[k - 1] \o More(k)
    <2> DEFINE Val(k) == IF k = 0 THEN <<>> ELSE found[k - 1] \o More(k)
    <2>1. found = [k \in 0 .. Len(kids) |-> Val(k)]
      BY <1>10 DEF Body
    <2>2. Val(0) = <<>> /\ \A k \in 1 .. Len(kids) : Val(k) = found[k - 1] \o More(k)
      OBVIOUS
    <2> HIDE DEF Val
    <2>3. \A k \in 0 .. Len(kids) : found[k] = Val(k)
      BY <2>1
    <2>4. 0 \in 0 .. Len(kids) /\ 1 .. Len(kids) \subseteq 0 .. Len(kids)
      BY <1>8
    <2>5. QED BY <2>2, <2>3, <2>4
  <1>12. found[0] \in Seq(EntryPlaces) /\ \A k \in 1 .. Len(kids) : found[k - 1] \in Seq(EntryPlaces) => found[k] \in Seq(EntryPlaces)
    BY <1>7, <1>8, <1>11, ConcatProperties
  <1>13. all \in Seq(EntryPlaces)
    <2>1. \A k \in 0 .. Len(kids) : found[k] \in Seq(EntryPlaces)
      BY <1>8, <1>12, Typed
    <2>2. QED BY <1>8, <2>1
  <1> HIDE DEF all
  <1>14. PICK e \in Nat : e = (IF Len(all) < MEMORY_MAX THEN Len(all) ELSE MEMORY_MAX) /\ e <= Len(all)
    BY <1>13, LenProperties, DtbConstants
  <1>15. SubSeq(all, 1, e) \in Seq(EntryPlaces)
    <2>1. \A i \in 1 .. e : all[i] \in EntryPlaces
      BY <1>13, <1>14
    <2>2. QED BY <2>1, SubSeqProperties
  <1>16. QED BY <1>6, <1>14, <1>15

\* The RAM dtb_parse reports is a list of pairs.
LEMMA MemoryType ==
    ASSUME ParserInv, nodes # <<>>
    PROVE  extract_memory(1) \in Seq(PairT)
  <1>1. PICK places \in Seq(EntryPlaces) : places = MemoryEntries(1)
    BY EntriesFound
  <1>2. blob \in Blobs /\ nodes \in Seq(NodeT) /\ 1 \in 1 .. Len(nodes)
    BY EmptySeq, LenProperties DEF ParserInv
  <1>3. nodes[1] \in NodeT
    BY <1>2
  <1>4. PICK a \in Nat, b \in Nat : a = nodes[1].ac /\ b = nodes[1].sc
    BY <1>3 DEF NodeT
  <1>5. PICK n \in Nat : n = Len(places)
    BY LenProperties
  <1>6. \A i \in 1 .. n : RegPair(places[i], a, b) \in PairT
    <2>1. \A i \in 1 .. n : places[i] \in Nat
      BY <1>1, <1>5 DEF EntryPlaces
    <2>2. QED BY <1>2, <2>1, PairType
  <1>7. [i \in 1 .. n |-> RegPair(places[i], a, b)] \in Seq(PairT)
    BY <1>6, IsASeq
  <1>8. QED BY <1>1, <1>4, <1>5, <1>7 DEF extract_memory

LEMMA ExtractStep == DtbInv /\ Extract => DtbInv'
  <1> SUFFICES ASSUME DtbInv, Extract PROVE DtbInv'
    OBVIOUS
  <1>1. /\ phase = "extract" /\ phase' = "done" /\ tree'.memory = extract_memory(1)
        /\ UNCHANGED <<blob, cur, ahead, stack, nodes, prop_used>>
    BY DEF Extract
  <1>2. extract_memory(1) \in Seq(PairT)
    BY <1>1, MemoryType DEF DtbInv, ParserInv
  <1>3. ParserInv'
    BY <1>1, <1>2 DEF DtbInv, ParserInv
  <1>4. StackInv'
    BY <1>1 DEF DtbInv, StackInv
  <1>5. CountInv'
    BY <1>1 DEF DtbInv, CountInv
  <1>6. QED BY <1>3, <1>4, <1>5 DEF DtbInv

\* A step of kmain outside the parser; mm_init resets the early heap.
LEMMA OutsideStep ==
    ASSUME DtbInv, UNCHANGED <<blob, phase, cur, ahead, stack, nodes, prop_used, err, tree>>
    PROVE  DtbInv'
  <1>1. ParserInv'
    BY DEF DtbInv, ParserInv
  <1>2. StackInv'
    BY DEF DtbInv, StackInv
  <1>3. CountInv'
    <2>1. ASSUME NEW n, NEW p, NEW d, Counted(n, p, d) PROVE Counted(n, p, d)'
      BY <2>1, CountedSame
    <2>2. phase' = "body" => \A j \in 1 .. Len(stack)' : Counted(stack[j], cur, Len(stack) - j)'
      BY <2>1 DEF DtbInv, CountInv
    <2>3. phase' = "enter" => \A j \in 1 .. Len(stack)' : Counted(stack[j], cur + 1, Len(stack) - j + 1)'
      BY <2>1 DEF DtbInv, CountInv
    <2>4. phase' = "ahead" => \A j \in 1 .. Len(stack)' - 1 : Counted(stack[j], cur, Len(stack) - j)'
      BY <2>1 DEF DtbInv, CountInv
    <2>5. phase' = "ahead" => Leads(ScanFrom(cur), ahead)'
      <3>1. PICK s, t : s = ScanFrom(cur) /\ t = ahead
        OBVIOUS
      <3>2. Leads(s, t) => Leads(s, t)'
        BY LeadsSame
      <3>3. ScanFrom(cur)' = s /\ ahead' = t
        BY <3>1 DEF ScanFrom
      <3>4. Leads(s, t)' => Leads(ScanFrom(cur), ahead)'
        BY <3>3 DEF Leads, Path
      <3>5. QED BY <3>1, <3>2, <3>4 DEF DtbInv, CountInv
    <2>6. Top' = Top
      BY DEF Top
    <2>7. QED BY <2>2, <2>3, <2>4, <2>5, <2>6 DEF DtbInv, CountInv
  <1>4. QED BY <1>1, <1>2, <1>3 DEF DtbInv

LEMMA DtbStart == DtbInit => DtbInv
  <1> SUFFICES ASSUME DtbInit PROVE DtbInv
    OBVIOUS
  <1>0. ahead \in AheadT
    BY WordSize DEF DtbInit, ScanFrom, AheadT
  <1>1. /\ blob \in Blobs /\ phase = "call" /\ cur = 0 /\ prop_used = 0
        /\ stack = <<>> /\ nodes = <<>> /\ tree.memory = <<>>
    BY DEF DtbInit, EmptyTree
  <1>2. Len(stack) = 0 /\ Len(nodes) = 0
    BY <1>1
  <1>3. DTB_MAX_NODES \in Nat /\ DTB_MAX_PROPS \in Nat
    BY DtbConstants
  <1>4. ParserInv
    BY <1>0, <1>1, <1>2 DEF ParserInv
  <1>5. StackInv
    BY <1>1, <1>2 DEF StackInv
  <1>6. CountInv
    BY <1>1, <1>2, <1>3 DEF CountInv
  <1>7. QED BY <1>4, <1>5, <1>6 DEF DtbInv

LEMMA DtbStep == DtbInv /\ DtbNext => DtbInv'
  <1>1. DtbInv /\ OutOfBlock => DtbInv'
    BY ReturnStep DEF OutOfBlock
  <1>2. QED BY <1>1, ParseStep, RootStep, EnterStep, LookStep, SlotsStep, PropStep, LeaveStep, OtherStep,
              ExtractStep DEF DtbNext

LEMMA DtbAll == DtbInv /\ [Next]_vars => DtbInv'
  <1> SUFFICES ASSUME DtbInv, [Next]_vars PROVE DtbInv'
    OBVIOUS
  <1>1. CASE DtbNext
    BY <1>1, DtbStep
  <1>2. CASE UNCHANGED <<blob, phase, cur, ahead, stack, nodes, prop_used, err, tree>>
    BY <1>2, OutsideStep
  <1>3. DtbNext \/ UNCHANGED <<blob, phase, cur, ahead, stack, nodes, prop_used, err, tree>>
    BY DEF Next, vars, dtbVars, init_mmu, CopyImage, ZeroBss, EnterKmain, Parse, ParseFailed, mm_init,
           fb_init, InitDevices, MountFailed, CreateInit, ExecInit, MapUserPage, ForkCopy, mm_page_free
  <1>4. QED BY <1>1, <1>2, <1>3

\* DtbInv is inductive, for every blob: whole, cut short or with any cell damaged.
THEOREM ParserInductive == Spec => []DtbInv
  <1>1. Init => DtbInv
    BY DtbStart DEF Init
  <1>2. QED BY <1>1, DtbAll, PTL DEF Spec

\* Whatever blob dtb_parse is given, the pools are not overrun, and a node it
\* has left holds exactly the properties its look-ahead reserved slots for.
THEOREM PoolsAlwaysExact == Spec => []PoolsExact
  <1>1. DtbInv => PoolsExact
    <2> SUFFICES ASSUME DtbInv PROVE PoolsExact
      OBVIOUS
    <2>1. DOMAIN nodes = 1 .. Len(nodes) /\ DOMAIN stack = 1 .. Len(stack)
      BY LenProperties DEF DtbInv, ParserInv, StackInv
    <2>2. QED BY <2>1 DEF PoolsExact, DtbInv, CountInv
  <1>2. QED BY <1>1, ParserInductive, PTL

-----------------------------------------------------------------------------
(* The order of the scans, and of the slots.                               *)

\* The numbers from a to b in their order.
Run(a, b) == [i \in 1 .. b - a + 1 |-> a + i - 1]

LEMMA RunType ==
    ASSUME NEW a \in Nat, NEW b \in Nat, a <= b + 1
    PROVE  /\ Run(a, b) \in Seq(Nat) /\ Len(Run(a, b)) = b - a + 1
           /\ \A i \in 1 .. b - a + 1 : Run(a, b)[i] = a + i - 1
  <1>1. PICK m \in Nat : m = b - a + 1
    OBVIOUS
  <1>2. \A i \in 1 .. m : a + i - 1 \in Nat
    OBVIOUS
  <1>3. [i \in 1 .. m |-> a + i - 1] \in Seq(Nat) /\ Len([i \in 1 .. m |-> a + i - 1]) = m
    BY <1>2
  <1>4. QED BY <1>1, <1>3 DEF Run

LEMMA RunJoin ==
    ASSUME NEW a \in Nat, NEW b \in Nat, NEW c \in Nat, a <= b + 1, b <= c
    PROVE  Run(a, b) \o Run(b + 1, c) = Run(a, c)
  <1>1. PICK x \in Seq(Nat) : x = Run(a, b) /\ Len(x) = b - a + 1 /\ \A i \in 1 .. b - a + 1 : x[i] = a + i - 1
    BY RunType
  <1>2. PICK y \in Seq(Nat) : y = Run(b + 1, c) /\ Len(y) = c - b /\ \A i \in 1 .. c - b : y[i] = b + i
    <2>1. b + 1 \in Nat /\ b + 1 <= c + 1 /\ c - (b + 1) + 1 = c - b
      OBVIOUS
    <2>2. /\ Run(b + 1, c) \in Seq(Nat) /\ Len(Run(b + 1, c)) = c - b
          /\ \A i \in 1 .. c - b : Run(b + 1, c)[i] = (b + 1) + i - 1
      BY <2>1, RunType
    <2>3. \A i \in 1 .. c - b : (b + 1) + i - 1 = b + i
      OBVIOUS
    <2>4. QED BY <2>2, <2>3
  <1>3. PICK z \in Seq(Nat) : z = Run(a, c) /\ Len(z) = c - a + 1 /\ \A i \in 1 .. c - a + 1 : z[i] = a + i - 1
    <2>1. a <= c + 1
      OBVIOUS
    <2>2. QED BY <2>1, RunType
  <1>4. /\ x \o y \in Seq(Nat) /\ Len(x \o y) = Len(x) + Len(y)
        /\ \A i \in 1 .. Len(x) + Len(y) : (x \o y)[i] = IF i <= Len(x) THEN x[i] ELSE y[i - Len(x)]
    BY ConcatProperties
  <1>5. PICK w \in Seq(Nat) :
           /\ w = x \o y /\ Len(w) = c - a + 1
           /\ \A i \in 1 .. c - a + 1 : w[i] = IF i <= b - a + 1 THEN x[i] ELSE y[i - (b - a + 1)]
    <2>1. PICK l \in Nat, r \in Nat : l = b - a + 1 /\ r = c - b /\ l + r = c - a + 1 /\ Len(x) = l /\ Len(y) = r
      BY <1>1, <1>2
    <2>2. /\ Len(x \o y) = l + r
          /\ \A i \in 1 .. l + r : (x \o y)[i] = IF i <= l THEN x[i] ELSE y[i - l]
      BY <1>4, <2>1, Zenon
    <2>3. QED BY <1>4, <2>1, <2>2
  <1>6. ASSUME NEW i \in 1 .. c - a + 1 PROVE w[i] = z[i]
    <2>1. CASE i <= b - a + 1
      BY <1>1, <1>3, <1>5, <2>1
    <2>2. CASE ~ (i <= b - a + 1)
      <3>1. PICK j \in 1 .. c - b : j = i - (b - a + 1)
        BY <2>2
      <3>2. w[i] = y[j] /\ y[j] = b + j /\ z[i] = a + i - 1
        BY <1>2, <1>3, <1>5, <2>2, <3>1
      <3>3. QED BY <3>1, <3>2
    <2>3. QED BY <2>1, <2>2
  <1>7. w = z
    <2>1. Len(w) = Len(z) /\ \A i \in 1 .. Len(w) : w[i] = z[i]
      BY <1>3, <1>5, <1>6
    <2>2. QED BY <2>1, SeqEqual
  <1>8. QED BY <1>1, <1>2, <1>3, <1>5, <1>7

\* Preorder, one recursion within the other.
UptoBody(u, kids, v, n) == [k \in 0 .. Len(kids) |-> IF k = 0 THEN <<n>> ELSE u[k - 1] \o v[kids[k]]]
UptoOf(kids, v, n) == CHOOSE u : u = UptoBody(u, kids, v, n)
RowOf(v, n) == UptoOf(nodes[n].kids, v, n)[Len(nodes[n].kids)]
VisitBody(g) ==
    [fuel \in 0 .. Len(nodes) |->
       [n \in 1 .. Len(nodes) |-> IF fuel = 0 THEN <<n>> ELSE RowOf(g[fuel - 1], n)]]
Visit == CHOOSE g : g = VisitBody(g)

LEMMA PreorderIs ==
    ASSUME NEW root
    PROVE  Preorder(root) = Visit[Len(nodes)][root]
  BY DEF Preorder, Visit, VisitBody, RowOf, UptoOf, UptoBody

\* u collects what v says of the children of n.
Builds(u, kids, v, n, m) ==
    /\ u[0] = <<n>> /\ \A k \in 1 .. m : u[k] = u[k - 1] \o v[kids[k]]
    /\ \A k \in 0 .. m : u[k] \in Seq(Nat)

LEMMA UptoRule ==
    ASSUME NEW m \in Nat, NEW kids, Len(kids) = m, NEW v, NEW n \in Nat,
           \A k \in 1 .. m : v[kids[k]] \in Seq(Nat)
    PROVE  Builds(UptoOf(kids, v, n), kids, v, n, m)
  <1> DEFINE f == [x \in (1 .. m) \X Seq(Nat) |-> x[2] \o v[kids[x[1]]]]
  <1>1. f \in [(1 .. m) \X Seq(Nat) -> Seq(Nat)]
    <2>1. ASSUME NEW x \in (1 .. m) \X Seq(Nat) PROVE x[2] \o v[kids[x[1]]] \in Seq(Nat)
      <3>1. PICK s, t : s = x[2] /\ t = v[kids[x[1]]] /\ s \in Seq(Nat) /\ t \in Seq(Nat)
        OBVIOUS
      <3>2. s \o t \in Seq(Nat)
        BY <3>1, ConcatProperties
      <3>3. QED BY <3>1, <3>2
    <2>2. QED BY <2>1
  <1>2. <<n>> \in Seq(Nat)
    OBVIOUS
  <1>3. \A k \in 1 .. m : \A s \in Seq(Nat) : f[<<k, s>>] = s \o v[kids[k]]
    OBVIOUS
  <1> HIDE DEF f
  <1>4. PICK h \in [0 .. m -> Seq(Nat)] : Follows(h, <<n>>, f, m)
    BY <1>1, <1>2, Recursion
  <1>5. h[0] = <<n>> /\ \A k \in 1 .. m : h[k] = h[k - 1] \o v[kids[k]]
    <2>1. ASSUME NEW k \in 1 .. m PROVE h[k] = h[k - 1] \o v[kids[k]]
      <3>1. h[k] = f[<<k, h[k - 1]>>]
        BY <1>4 DEF Follows
      <3>2. h[k - 1] \in Seq(Nat)
        BY <1>4
      <3>3. QED BY <1>3, <3>1, <3>2
    <2>2. QED BY <1>4, <2>1 DEF Follows
  <1>6. h = UptoBody(h, kids, v, n)
    <2>1. ASSUME NEW k \in 0 .. m PROVE h[k] = IF k = 0 THEN <<n>> ELSE h[k - 1] \o v[kids[k]]
      <3>1. k # 0 => k \in 1 .. m
        OBVIOUS
      <3>2. QED BY <1>5, <3>1
    <2>2. QED BY <1>4, <2>1 DEF UptoBody
  <1>7. PICK u : u = UptoOf(kids, v, n) /\ u = UptoBody(u, kids, v, n)
    <2>1. \E u : u = UptoBody(u, kids, v, n)
      BY <1>6
    <2>2. QED BY <2>1, Zenon DEF UptoOf
  <1>8. u[0] = <<n>> /\ \A k \in 1 .. m : u[k] = u[k - 1] \o v[kids[k]]
    <2>1. PICK g : g = UptoBody(u, kids, v, n)
      OBVIOUS
    <2>2. \A k \in 0 .. m : g[k] = IF k = 0 THEN <<n>> ELSE u[k - 1] \o v[kids[k]]
      BY <2>1 DEF UptoBody
    <2>3. g = u
      BY <1>7, <2>1
    <2>4. 0 \in 0 .. m /\ \A k \in 1 .. m : k \in 0 .. m /\ k # 0
      OBVIOUS
    <2>5. u[0] = <<n>>
      BY <2>2, <2>3, <2>4
    <2>6. ASSUME NEW k \in 1 .. m PROVE u[k] = u[k - 1] \o v[kids[k]]
      <3>1. g[k] = u[k - 1] \o v[kids[k]]
        BY <2>2, <2>4, Zenon
      <3>2. QED BY <2>3, <3>1
    <2>7. QED BY <2>5, <2>6
  <1>9. \A k \in 1 .. m : u[k - 1] \in Seq(Nat) => u[k] \in Seq(Nat)
    <2>1. ASSUME NEW k \in 1 .. m, u[k - 1] \in Seq(Nat) PROVE u[k] \in Seq(Nat)
      <3>1. PICK s, t : s = u[k - 1] /\ t = v[kids[k]] /\ s \in Seq(Nat) /\ t \in Seq(Nat)
        BY <2>1
      <3>2. s \o t \in Seq(Nat)
        BY <3>1, ConcatProperties
      <3>3. QED BY <1>8, <3>1, <3>2
    <2>2. QED BY <2>1
  <1>10. \A k \in 0 .. m : u[k] \in Seq(Nat)
    BY <1>2, <1>8, <1>9, Typed
  <1>11. QED BY <1>7, <1>8, <1>10 DEF Builds

\* The children of a node are nodes of the pool.
PoolOK ==
    /\ Len(nodes) \in Nat
    /\ \A n \in 1 .. Len(nodes) :
          /\ Len(nodes[n].kids) \in Nat
          /\ \A k \in 1 .. Len(nodes[n].kids) : nodes[n].kids[k] \in 1 .. Len(nodes)

LEMMA RowType ==
    ASSUME PoolOK, NEW v \in [1 .. Len(nodes) -> Seq(Nat)], NEW n \in 1 .. Len(nodes)
    PROVE  RowOf(v, n) \in Seq(Nat)
  <1>0. PICK kids : kids = nodes[n].kids
    OBVIOUS
  <1>1. PICK m \in Nat : kids = nodes[n].kids /\ m = Len(kids)
    BY <1>0 DEF PoolOK
  <1>2. n \in Nat /\ \A k \in 1 .. m : v[kids[k]] \in Seq(Nat)
    <2>1. \A k \in 1 .. m : kids[k] \in 1 .. Len(nodes)
      BY <1>1 DEF PoolOK
    <2>2. QED BY <2>1 DEF PoolOK
  <1>3. \A k \in 0 .. m : UptoOf(kids, v, n)[k] \in Seq(Nat)
    <2>1. Builds(UptoOf(kids, v, n), kids, v, n, m)
      BY <1>1, <1>2, UptoRule
    <2>2. QED BY <2>1 DEF Builds
  <1>4. UptoOf(kids, v, n)[m] \in Seq(Nat)
    BY <1>3
  <1>5. QED BY <1>1, <1>4 DEF RowOf

LEMMA VisitRule ==
    ASSUME PoolOK
    PROVE  \A fuel \in 0 .. Len(nodes) : \A n \in 1 .. Len(nodes) :
              /\ Visit[fuel][n] = IF fuel = 0 THEN <<n>> ELSE RowOf(Visit[fuel - 1], n)
              /\ Visit[fuel] \in [1 .. Len(nodes) -> Seq(Nat)]
  <1>1. PICK N \in Nat : N = Len(nodes)
    BY DEF PoolOK
  <1> DEFINE Rows == [1 .. N -> Seq(Nat)]
             z == [n \in 1 .. N |-> <<n>>]
             f == [x \in (1 .. N) \X Rows |-> [n \in 1 .. N |-> RowOf(x[2], n)]]
  <1>2. z \in Rows
    OBVIOUS
  <1>3. f \in [(1 .. N) \X Rows -> Rows]
    <2>1. ASSUME NEW x \in (1 .. N) \X Rows PROVE [n \in 1 .. N |-> RowOf(x[2], n)] \in Rows
      <3>1. x[2] \in Rows
        OBVIOUS
      <3>2. \A n \in 1 .. N : RowOf(x[2], n) \in Seq(Nat)
        BY <1>1, <3>1, RowType
      <3>3. QED BY <3>2
    <2>2. QED BY <2>1
  <1>4. \A k \in 1 .. N : \A v \in Rows : f[<<k, v>>] = [n \in 1 .. N |-> RowOf(v, n)]
    OBVIOUS
  <1>5. \A n \in 1 .. N : z[n] = <<n>>
    OBVIOUS
  <1> HIDE DEF f, z, Rows
  <1>6. PICK h \in [0 .. N -> Rows] : Follows(h, z, f, N)
    BY <1>2, <1>3, Recursion
  <1>7. ASSUME NEW fuel \in 0 .. N
        PROVE  h[fuel] = [n \in 1 .. N |-> IF fuel = 0 THEN <<n>> ELSE RowOf(h[fuel - 1], n)]
    <2>1. CASE fuel = 0
      <3>1. h[fuel] = z
        BY <1>6, <2>1 DEF Follows
      <3>2. z = [n \in 1 .. N |-> <<n>>]
        BY DEF z
      <3>3. QED BY <2>1, <3>1, <3>2
    <2>2. CASE fuel # 0
      <3>1. fuel \in 1 .. N /\ fuel - 1 \in 0 .. N
        BY <2>2
      <3>2. h[fuel] = f[<<fuel, h[fuel - 1]>>] /\ h[fuel - 1] \in Rows
        BY <1>6, <3>1 DEF Follows
      <3>3. h[fuel] = [n \in 1 .. N |-> RowOf(h[fuel - 1], n)]
        BY <1>4, <3>1, <3>2
      <3>4. QED BY <2>2, <3>3
    <2>3. QED BY <2>1, <2>2
  <1>8. h = VisitBody(h)
    <2>1. h = [fuel \in 0 .. N |-> h[fuel]]
      BY <1>6
    <2>2. QED BY <1>1, <1>7, <2>1 DEF VisitBody
  <1>9. PICK g, b : g = Visit /\ b = VisitBody(g) /\ g = b
    <2>1. \E g : g = VisitBody(g)
      BY <1>8
    <2>2. Visit = VisitBody(Visit)
      BY <2>1, Zenon DEF Visit
    <2>3. QED BY <2>2
  <1>10. \A fuel \in 0 .. N :
            g[fuel] = [n \in 1 .. N |-> IF fuel = 0 THEN <<n>> ELSE RowOf(g[fuel - 1], n)]
    <2>1. \A fuel \in 0 .. N :
            b[fuel] = [n \in 1 .. N |-> IF fuel = 0 THEN <<n>> ELSE RowOf(g[fuel - 1], n)]
      BY <1>1, <1>9 DEF VisitBody
    <2>2. QED BY <1>9, <2>1
  <1>11. g[0] \in Rows
    <2>1. g[0] = [n \in 1 .. N |-> <<n>>]
      BY <1>10
    <2>2. QED BY <1>2, <2>1 DEF z
  <1>12. \A k \in 1 .. N : g[k - 1] \in Rows => g[k] \in Rows
    <2>1. ASSUME NEW k \in 1 .. N, g[k - 1] \in Rows PROVE g[k] \in Rows
      <3>1. k \in 0 .. N /\ k # 0
        OBVIOUS
      <3>2. g[k] = [n \in 1 .. N |-> RowOf(g[k - 1], n)]
        BY <1>10, <3>1
      <3>3. \A n \in 1 .. N : RowOf(g[k - 1], n) \in Seq(Nat)
        BY <1>1, <2>1, RowType DEF Rows
      <3>4. QED BY <3>2, <3>3 DEF Rows
    <2>2. QED BY <2>1
  <1>13. \A fuel \in 0 .. N : g[fuel] \in Rows
    BY <1>11, <1>12, Typed
  <1>14. ASSUME NEW fuel \in 0 .. N, NEW n \in 1 .. N
         PROVE  g[fuel][n] = IF fuel = 0 THEN <<n>> ELSE RowOf(g[fuel - 1], n)
    BY <1>10
  <1>15. QED BY <1>1, <1>9, <1>13, <1>14 DEF Rows

\* v makes the m children of n runs that follow each other, with ends e.
Chain(kids, v, n, m, e) ==
    /\ e \in [0 .. m -> Nat] /\ Len(kids) = m /\ e[0] = n
    /\ \A k \in 1 .. m : /\ e[k - 1] <= e[k] /\ kids[k] = e[k - 1] + 1
                         /\ v[kids[k]] = Run(e[k - 1] + 1, e[k])

LEMMA UptoRun ==
    ASSUME NEW m \in Nat, NEW n \in Nat, NEW kids, NEW v, NEW e, Chain(kids, v, n, m, e)
    PROVE  UptoOf(kids, v, n)[m] = Run(n, e[m])
  <1> USE DEF Chain
  <1>1. \A k \in 1 .. m : v[kids[k]] \in Seq(Nat)
    <2>1. ASSUME NEW k \in 1 .. m PROVE v[kids[k]] \in Seq(Nat)
      <3>1. PICK a \in Nat, b \in Nat : a = e[k - 1] + 1 /\ b = e[k] /\ a <= b + 1
        <4>1. e[k - 1] \in Nat /\ e[k] \in Nat
          OBVIOUS
        <4>2. QED BY <4>1
      <3>2. Run(a, b) \in Seq(Nat)
        BY <3>1, RunType
      <3>3. QED BY <3>1, <3>2
    <2>2. QED BY <2>1
  <1>2. PICK u : /\ u = UptoOf(kids, v, n) /\ u[0] = <<n>>
                 /\ \A k \in 1 .. m : u[k] = u[k - 1] \o v[kids[k]]
    <2>1. Builds(UptoOf(kids, v, n), kids, v, n, m)
      BY <1>1, UptoRule
    <2>2. QED BY <2>1 DEF Builds
  <1> DEFINE T == {k \in Nat : k <= m => n <= e[k] /\ u[k] = Run(n, e[k])}
  <1>3. 0 \in T
    <2>1. n - n + 1 = 1 /\ n + 1 - 1 = n
      OBVIOUS
    <2>2. Run(n, n) = <<n>>
      BY <2>1 DEF Run
    <2>3. n <= e[0] /\ u[0] = Run(n, e[0])
      BY <1>2, <2>2
    <2>4. QED BY <2>3
  <1>4. ASSUME NEW k \in Nat, k \in T PROVE k + 1 \in T
    <2>1. CASE k + 1 <= m
      <3>1. k + 1 \in 1 .. m /\ k \in 0 .. m /\ k + 1 \in 0 .. m /\ (k + 1) - 1 = k
        BY <2>1
      <3>2. PICK a \in Nat, b \in Nat : a = e[k] /\ b = e[k + 1]
        BY <3>1
      <3>3. a <= b /\ v[kids[k + 1]] = Run(a + 1, b)
        BY <3>1, <3>2
      <3>4. n <= a /\ u[k] = Run(n, a)
        BY <1>4, <3>1, <3>2
      <3>5. u[k + 1] = Run(n, a) \o Run(a + 1, b)
        BY <1>2, <3>1, <3>3, <3>4
      <3>6. Run(n, a) \o Run(a + 1, b) = Run(n, b)
        <4>1. n <= a + 1
          BY <3>4
        <4>2. QED BY <3>3, <4>1, RunJoin, ZenonT(30)
      <3>7. n <= b
        BY <3>3, <3>4
      <3>8. u[k + 1] = Run(n, b)
        BY <3>5, <3>6
      <3>9. n <= e[k + 1] /\ u[k + 1] = Run(n, e[k + 1])
        BY <3>2, <3>7, <3>8
      <3>10. QED BY <3>9
    <2>2. CASE ~ (k + 1 <= m)
      BY <2>2
    <2>3. QED BY <2>1, <2>2
  <1> HIDE DEF T
  <1>5. m \in T
    BY <1>3, <1>4, Induction
  <1>6. QED BY <1>2, <1>5 DEF T

-----------------------------------------------------------------------------
(* The nodes of the pool are nested in document order.                     *)

\* Node n is still being parsed.
Open(n) == \E j \in 1 .. Len(stack) : stack[j] = n

\* The last node attached below n so far, if last[c] is the last below c.
Attached(n, last) ==
    IF Len(nodes[n].kids) = 0 THEN n ELSE last[nodes[n].kids[Len(nodes[n].kids)]]

\* The first child of a node is the node behind it, the next one the node
\* behind all that is below the first, and so on.
KidsInOrder(last) ==
    \A n \in 1 .. Len(nodes) : \A k \in 1 .. Len(nodes[n].kids) :
       /\ nodes[n].kids[k] \in 1 .. Len(nodes) /\ ~ Open(nodes[n].kids[k])
       /\ nodes[n].kids[k] = (IF k = 1 THEN n ELSE last[nodes[n].kids[k - 1]]) + 1

ClosedEnd(last) ==
    \A n \in 1 .. Len(nodes) : ~ Open(n) => last[n] = Attached(n, last) /\ n <= last[n]

\* What is below an open node ends before the next open one.
OpenEnd(last) ==
    \A j \in 1 .. Len(stack) :
       /\ Attached(stack[j], last) = IF j = Len(stack) THEN Len(nodes) ELSE stack[j + 1] - 1
       /\ j > 1 => nodes[stack[j]].parent = stack[j - 1]

RootFirst(last) ==
    Len(nodes) > 0 => IF Len(stack) = 0 THEN last[1] = Len(nodes) ELSE stack[1] = 1

Nested(last) ==
    /\ last \in [1 .. Len(nodes) -> Nat]
    /\ KidsInOrder(last) /\ ClosedEnd(last) /\ OpenEnd(last) /\ RootFirst(last)

\* Once every node has been left, the children of n end one behind the other, and
\* what is below n with the last.
Ends(e, n, m, last) ==
    /\ e[0] = n /\ e[m] = last[n]
    /\ \A k \in 1 .. m : /\ e[k - 1] < e[k] /\ e[k] <= e[m] /\ n <= e[k - 1]
                         /\ nodes[n].kids[k] = e[k - 1] + 1 /\ e[k] = last[nodes[n].kids[k]]

LEMMA EndsRise ==
    ASSUME PoolOK, NEW last, Nested(last), Len(stack) = 0, NEW n \in 1 .. Len(nodes),
           NEW m \in Nat, m = Len(nodes[n].kids)
    PROVE  n <= last[n] /\ \E e \in [0 .. m -> Nat] : Ends(e, n, m, last)
  <1>1. PICK kids : kids = nodes[n].kids
    OBVIOUS
  <1>2. \A c \in 1 .. Len(nodes) : last[c] \in Nat /\ c <= last[c] /\ last[c] = Attached(c, last)
    <2>1. \A c : ~ Open(c)
      BY DEF Open
    <2>2. QED BY <2>1 DEF Nested, ClosedEnd
  <1>3. \A k \in 1 .. m : kids[k] \in 1 .. Len(nodes) /\ kids[k] = (IF k = 1 THEN n ELSE last[kids[k - 1]]) + 1
    BY <1>1 DEF Nested, KidsInOrder
  <1>4. PICK e \in [0 .. m -> Nat] : e[0] = n /\ \A k \in 1 .. m : e[k] = last[kids[k]]
    <2> DEFINE e0 == [k \in 0 .. m |-> IF k = 0 THEN n ELSE last[kids[k]]]
    <2>1. e0[0] = n /\ \A k \in 1 .. m : e0[k] = last[kids[k]]
      OBVIOUS
    <2>2. ASSUME NEW k \in 0 .. m PROVE (IF k = 0 THEN n ELSE last[kids[k]]) \in Nat
      <3>1. n \in Nat
        BY DEF PoolOK
      <3>2. CASE k = 0
        BY <3>1, <3>2
      <3>3. CASE k # 0
        <4>1. k \in 1 .. m
          BY <3>3
        <4>2. last[kids[k]] \in Nat
          BY <1>2, <1>3, <4>1
        <4>3. QED BY <3>3, <4>2
      <3>4. QED BY <3>2, <3>3
    <2>3. e0 \in [0 .. m -> Nat]
      BY <2>2
    <2> HIDE DEF e0
    <2>4. QED BY <2>1, <2>3
  <1>5. ASSUME NEW k \in 1 .. m PROVE kids[k] = e[k - 1] + 1 /\ e[k - 1] < e[k]
    <2>1. e[k - 1] = IF k = 1 THEN n ELSE last[kids[k - 1]]
      <3>1. k # 1 => k - 1 \in 1 .. m
        OBVIOUS
      <3>2. QED BY <1>4, <3>1
    <2>2. kids[k] = e[k - 1] + 1
      BY <1>3, <2>1
    <2>3. e[k] = last[kids[k]] /\ kids[k] <= last[kids[k]]
      BY <1>2, <1>3, <1>4
    <2>4. e[k - 1] \in Nat /\ e[k] \in Nat
      OBVIOUS
    <2>5. QED BY <2>2, <2>3, <2>4
  <1>6. e[m] = last[n]
    <2>1. last[n] = Attached(n, last)
      BY <1>2
    <2>2. CASE m = 0
      BY <1>4, <2>1, <2>2 DEF Attached
    <2>3. CASE m # 0
      <3>1. m \in 1 .. m
        BY <2>3
      <3>2. QED BY <1>1, <1>4, <2>1, <2>3, <3>1 DEF Attached
    <2>4. QED BY <2>2, <2>3
  <1> DEFINE T == {k \in Nat : k <= m => \A j \in 0 .. k : e[j] <= e[k]}
  <1>7. 0 \in T
    <2>1. \A j \in 0 .. 0 : e[j] <= e[0]
      <3>1. ASSUME NEW j \in 0 .. 0 PROVE e[j] <= e[0]
        <4>1. j = 0 /\ e[0] \in Nat
          OBVIOUS
        <4>2. QED BY <4>1
      <3>2. QED BY <3>1
    <2>2. QED BY <2>1
  <1>8. ASSUME NEW k \in Nat, k \in T PROVE k + 1 \in T
    <2>1. ASSUME k + 1 <= m, NEW j \in 0 .. k + 1 PROVE e[j] <= e[k + 1]
      <3>1. k + 1 \in 1 .. m /\ (k + 1) - 1 = k /\ e[k] \in Nat /\ e[k + 1] \in Nat /\ e[j] \in Nat
        BY <2>1
      <3>2. e[k] < e[k + 1]
        BY <1>5, <3>1
      <3>3. CASE j = k + 1
        BY <3>1, <3>3
      <3>4. CASE j # k + 1
        <4>1. j \in 0 .. k /\ k <= m
          BY <2>1, <3>4
        <4>2. e[j] <= e[k]
          BY <1>8, <4>1
        <4>3. QED BY <3>1, <3>2, <4>2
      <3>5. QED BY <3>3, <3>4
    <2>2. QED BY <2>1
  <1> HIDE DEF T
  <1>9. Nat \subseteq T
    BY <1>7, <1>8, Induction
  <1>10. \A k \in 0 .. m : \A j \in 0 .. k : e[j] <= e[k]
    BY <1>9 DEF T
  <1>11. ASSUME NEW k \in 1 .. m PROVE e[k] <= e[m] /\ n <= e[k - 1]
    <2>1. m \in 0 .. m /\ k \in 0 .. m /\ k - 1 \in 0 .. m /\ 0 \in 0 .. k - 1
      OBVIOUS
    <2>2. QED BY <1>4, <1>10, <2>1
  <1>12. n <= last[n]
    BY <1>2
  <1>13. Ends(e, n, m, last)
    BY <1>1, <1>4, <1>5, <1>6, <1>11 DEF Ends
  <1>14. QED BY <1>12, <1>13

\* The scans take the nodes in the order of their slots.
LEMMA DocumentOrder ==
    ASSUME PoolOK, NEW last, Nested(last), Len(stack) = 0, Len(nodes) # 0
    PROVE  Preorder(1) = Run(1, Len(nodes))
  <1>1. PICK N \in Nat : N = Len(nodes)
    BY DEF PoolOK
  <1>2. \A c \in 1 .. N : last[c] \in Nat
    BY <1>1 DEF Nested
  <1> DEFINE T == {f \in Nat : f <= N => \A n \in 1 .. N : last[n] - n <= f => Visit[f][n] = Run(n, last[n])}
  <1>3. 0 \in T
    <2>1. ASSUME NEW n \in 1 .. N, last[n] - n <= 0 PROVE Visit[0][n] = Run(n, last[n])
      <3>1. PICK m \in Nat : m = Len(nodes[n].kids)
        BY <1>1 DEF PoolOK
      <3>2. n <= last[n] /\ last[n] \in Nat
        BY <1>1, <1>2, <3>1, EndsRise
      <3>3. last[n] = n
        BY <2>1, <3>2
      <3>4. Visit[0][n] = <<n>>
        <4>1. 0 \in 0 .. Len(nodes) /\ n \in 1 .. Len(nodes)
          BY <1>1
        <4>2. Visit[0][n] = IF 0 = 0 THEN <<n>> ELSE RowOf(Visit[0 - 1], n)
          BY <4>1, VisitRule, Zenon
        <4>3. QED BY <4>2
      <3>5. n - n + 1 = 1 /\ n + 1 - 1 = n
        OBVIOUS
      <3>6. Run(n, n) = <<n>>
        BY <3>5 DEF Run
      <3>7. QED BY <3>3, <3>4, <3>6
    <2>2. QED BY <2>1
  <1>4. ASSUME NEW f \in Nat, f \in T PROVE f + 1 \in T
    <2>1. ASSUME f + 1 <= N, NEW n \in 1 .. N, last[n] - n <= f + 1
          PROVE  Visit[f + 1][n] = Run(n, last[n])
      <3>1. PICK m \in Nat : m = Len(nodes[n].kids)
        BY <1>1 DEF PoolOK
      <3>2. PICK kids : kids = nodes[n].kids
        OBVIOUS
      <3>3. PICK e \in [0 .. m -> Nat] :
               /\ e[0] = n /\ e[m] = last[n]
               /\ \A k \in 1 .. m : /\ e[k - 1] < e[k] /\ e[k] <= e[m] /\ n <= e[k - 1]
                                    /\ kids[k] = e[k - 1] + 1 /\ e[k] = last[kids[k]]
        <4>1. \E e \in [0 .. m -> Nat] : Ends(e, n, m, last)
          BY <1>1, <3>1, EndsRise
        <4>2. QED BY <3>2, <4>1 DEF Ends
      <3>4. PICK v : v = Visit[f]
        OBVIOUS
      <3>5. ASSUME NEW k \in 1 .. m
            PROVE  e[k - 1] <= e[k] /\ kids[k] = e[k - 1] + 1 /\ v[kids[k]] = Run(e[k - 1] + 1, e[k])
        <4>1. PICK a \in Nat, b \in Nat : a = e[k - 1] /\ b = e[k]
          <5>1. e[k - 1] \in Nat /\ e[k] \in Nat
            OBVIOUS
          <5>2. QED BY <5>1
        <4>2. a < b /\ b <= last[n] /\ n <= a /\ kids[k] = a + 1 /\ b = last[a + 1]
          BY <3>3, <4>1
        <4>3. a + 1 \in 1 .. N
          BY <1>1, <3>1, <3>2, <4>2 DEF PoolOK
        <4>4. last[a + 1] - (a + 1) <= f
          <5>1. last[n] \in Nat
            BY <1>2
          <5>2. QED BY <2>1, <4>2, <5>1, SMTT(30)
        <4>5. Visit[f][a + 1] = Run(a + 1, last[a + 1])
          <5>1. f <= N
            BY <2>1
          <5>2. QED BY <1>4, <4>3, <4>4, <5>1
        <4>6. QED BY <3>4, <4>1, <4>2, <4>5, SMTT(30)
      <3>6. UptoOf(kids, v, n)[m] = Run(n, e[m])
        <4>1. n \in Nat /\ Len(kids) = m /\ e[0] = n
          BY <3>1, <3>2, <3>3
        <4>2. \A k \in 1 .. m : /\ e[k - 1] <= e[k] /\ kids[k] = e[k - 1] + 1
                                /\ v[kids[k]] = Run(e[k - 1] + 1, e[k])
          BY <3>5
        <4>3. Chain(kids, v, n, m, e)
          BY <4>1, <4>2 DEF Chain
        <4>4. QED BY <4>1, <4>3, UptoRun
      <3>7. Visit[f + 1][n] = RowOf(Visit[f], n)
        <4>1. f + 1 \in 0 .. N /\ f + 1 # 0 /\ (f + 1) - 1 = f
          BY <2>1
        <4>2. Visit[f + 1][n] = IF f + 1 = 0 THEN <<n>> ELSE RowOf(Visit[(f + 1) - 1], n)
          BY <1>1, <4>1, VisitRule
        <4>3. QED BY <4>1, <4>2
      <3>8. RowOf(v, n) = UptoOf(kids, v, n)[m]
        BY <3>1, <3>2 DEF RowOf
      <3>9. QED BY <3>3, <3>4, <3>6, <3>7, <3>8
    <2>2. QED BY <2>1
  <1> HIDE DEF T
  <1>5. N \in T
    BY <1>3, <1>4, Induction
  <1>6. 1 \in 1 .. N /\ last[1] = N /\ N - 1 <= N
    BY <1>1 DEF Nested, RootFirst
  <1>7. Visit[N][1] = Run(1, N)
    BY <1>5, <1>6 DEF T
  <1>8. QED BY <1>1, <1>7, PreorderIs

\* The first node in document order, for any set of hits.
Least(hits) == CHOOSE k \in hits : \A j \in hits : k <= j

LEMMA LeastHit ==
    ASSUME NEW n \in Nat, NEW hits \in SUBSET (1 .. n), hits # {}
    PROVE  Least(hits) \in hits /\ \A j \in hits : Least(hits) <= j
  <1>1. \E k \in hits : \A j \in hits : k <= j
    BY LeastNatural
  <1>2. QED BY <1>1 DEF Least

\* A scan in the order of the slots returns the least of its hits.
LEMMA ScanFirst ==
    ASSUME NEW n \in Nat, NEW T \in SUBSET (1 .. n), NEW order, order = Run(1, n),
           NEW hits, hits = {k \in DOMAIN order : order[k] \in T}
    PROVE  IsFirst(IF hits = {} THEN NoNode ELSE order[Least(hits)], T)
  <1>1. DOMAIN order = 1 .. n /\ \A k \in 1 .. n : order[k] = k
    BY DEF Run
  <1>2. hits = T
    BY <1>1
  <1>3. CASE T = {}
    BY <1>2, <1>3 DEF IsFirst
  <1>4. CASE T # {}
    <2>1. PICK k : k = Least(T)
      OBVIOUS
    <2>2. k \in T /\ \A j \in T : k <= j
      BY <1>4, <2>1, LeastHit
    <2>3. order[k] = k
      BY <1>1, <2>2
    <2>4. (IF hits = {} THEN NoNode ELSE order[Least(hits)]) = k
      BY <1>2, <1>4, <2>1, <2>3
    <2>5. QED BY <1>4, <2>2, <2>4 DEF IsFirst
  <1>5. QED BY <1>3, <1>4

LEMMA ByPhandle ==
    ASSUME NEW n \in Nat, n = Len(nodes), Preorder(tree.root) = Run(1, n), NEW ph, ph # 0
    PROVE  IsFirst(dtb_find_phandle(ph), {m \in 1 .. n : nodes[m].phandle = ph})
  <1>1. PICK T \in SUBSET (1 .. n) : T = {m \in 1 .. n : nodes[m].phandle = ph}
    OBVIOUS
  <1>2. PICK order : order = Run(1, n)
    OBVIOUS
  <1>3. \A k \in DOMAIN order : order[k] \in 1 .. n
    BY <1>2 DEF Run
  <1>4. PICK hits : hits = {k \in DOMAIN order : order[k] \in T}
    OBVIOUS
  <1>5. hits = {k \in DOMAIN order : nodes[order[k]].phandle = ph}
    BY <1>1, <1>3, <1>4
  <1>6. dtb_find_phandle(ph) =
           IF hits = {} THEN NoNode ELSE order[Least(hits)]
    BY <1>2, <1>5 DEF dtb_find_phandle, First, Least
  <1>7. IsFirst(IF hits = {} THEN NoNode ELSE order[Least(hits)], T)
    BY <1>2, <1>4, ScanFirst
  <1>8. QED BY <1>1, <1>6, <1>7

LEMMA ByCompatible ==
    ASSUME NEW n \in Nat, n = Len(nodes), Preorder(tree.root) = Run(1, n), NEW c
    PROVE  IsFirst(dtb_find_compatible(c), {m \in 1 .. n : node_has_compat(m, c)})
  <1>1. PICK T \in SUBSET (1 .. n) : T = {m \in 1 .. n : node_has_compat(m, c)}
    OBVIOUS
  <1>2. PICK order : order = Run(1, n)
    OBVIOUS
  <1>3. \A k \in DOMAIN order : order[k] \in 1 .. n
    BY <1>2 DEF Run
  <1>4. PICK hits : hits = {k \in DOMAIN order : order[k] \in T}
    OBVIOUS
  <1>5. hits = {k \in DOMAIN order : node_has_compat(order[k], c)}
    BY <1>1, <1>3, <1>4
  <1>6. dtb_find_compatible(c) =
           IF hits = {} THEN NoNode ELSE order[Least(hits)]
    BY <1>2, <1>5 DEF dtb_find_compatible, First, Least
  <1>7. IsFirst(IF hits = {} THEN NoNode ELSE order[Least(hits)], T)
    BY <1>2, <1>4, ScanFirst
  <1>8. QED BY <1>1, <1>6, <1>7

-----------------------------------------------------------------------------
(* Every step of the parser keeps the nodes nested.                        *)

LEMMA PoolIs ==
    ASSUME DtbInv
    PROVE  /\ PoolOK /\ Len(stack) \in Nat /\ nodes \in Seq(NodeT)
           /\ \A j \in 1 .. Len(stack) : stack[j] \in 1 .. Len(nodes)
           /\ \A j, k \in 1 .. Len(stack) : j < k => stack[j] < stack[k]
  <1>1. /\ nodes \in Seq(NodeT) /\ Len(nodes) \in Nat /\ DOMAIN nodes = 1 .. Len(nodes)
        /\ stack \in Seq(1 .. Len(nodes)) /\ Len(stack) \in Nat
    BY LenProperties DEF DtbInv, ParserInv, StackInv
  <1>2. ASSUME NEW n \in 1 .. Len(nodes)
        PROVE  /\ Len(nodes[n].kids) \in Nat
               /\ \A k \in 1 .. Len(nodes[n].kids) : nodes[n].kids[k] \in 1 .. Len(nodes)
    <2>1. nodes[n] \in NodeT
      BY <1>1
    <2>2. PICK kids \in Seq(Nat \ {0}) : kids = nodes[n].kids
      BY <2>1 DEF NodeT
    <2>3. Len(kids) \in Nat /\ DOMAIN kids = 1 .. Len(kids)
      BY LenProperties
    <2>4. \A k \in 1 .. Len(kids) : kids[k] \in Nat \ {0} /\ kids[k] <= Len(nodes)
      <3>1. \A k \in DOMAIN nodes[n].kids : nodes[n].kids[k] <= Len(nodes)
        BY <1>1 DEF DtbInv, ParserInv
      <3>2. \A k \in 1 .. Len(kids) : kids[k] <= Len(nodes)
        BY <2>2, <2>3, <3>1
      <3>3. QED BY <3>2
    <2>5. \A k \in 1 .. Len(kids) : kids[k] \in 1 .. Len(nodes)
      BY <1>1, <2>4
    <2>6. QED BY <2>2, <2>3, <2>5
  <1>3. \A j \in 1 .. Len(stack) : stack[j] \in 1 .. Len(nodes)
    BY <1>1
  <1>4. QED BY <1>1, <1>2, <1>3 DEF PoolOK, DtbInv, StackInv

\* The nodes keep their parents and children.
SameTree ==
    /\ Len(nodes') = Len(nodes) /\ stack' = stack
    /\ \A n \in 1 .. Len(nodes) : nodes'[n].kids = nodes[n].kids /\ nodes'[n].parent = nodes[n].parent

LEMMA TreeKept ==
    ASSUME DtbInv, NEW last, Nested(last), SameTree
    PROVE  Nested(last)'
  <1>1. \A n : Open(n)' <=> Open(n)
    BY DEF Open, SameTree
  <1>2. \A n \in 1 .. Len(nodes) : Attached(n, last)' = Attached(n, last)
    BY DEF Attached, SameTree
  <1>3. KidsInOrder(last)'
    BY <1>1, SMTT(30) DEF Nested, KidsInOrder, SameTree
  <1>4. ClosedEnd(last)'
    BY <1>1, <1>2 DEF Nested, ClosedEnd, SameTree
  <1>5. OpenEnd(last)'
    BY <1>2, PoolIs DEF Nested, OpenEnd, SameTree
  <1>6. QED BY <1>3, <1>4, <1>5 DEF Nested, RootFirst, SameTree

\* A property changes neither the children nor the parent of a node.
LEMMA AddPropKeeps ==
    ASSUME nodes \in Seq(NodeT), NEW n, NEW name, NEW plen, nodes' = AddProp(n, name, plen), stack' = stack
    PROVE  SameTree
  <1>1. DOMAIN nodes = 1 .. Len(nodes) /\ Len(nodes) \in Nat
    BY LenProperties
  <1>2. PICK ps, a, b, h :
           nodes' = [nodes EXCEPT ![n].props = ps, ![n].ac = a, ![n].sc = b, ![n].phandle = h]
    BY DEF AddProp
  <1>3. ASSUME NEW m \in 1 .. Len(nodes)
        PROVE  nodes'[m].kids = nodes[m].kids /\ nodes'[m].parent = nodes[m].parent
    <2>1. nodes[m] \in NodeT
      OBVIOUS
    <2>2. nodes'[m] = IF m = n THEN [nodes[m] EXCEPT !.props = ps, !.ac = a, !.sc = b, !.phandle = h]
                      ELSE nodes[m]
      BY <1>1, <1>2
    <2>3. QED BY <2>1, <2>2 DEF NodeT
  <1>4. nodes' = [k \in DOMAIN nodes |-> nodes'[k]]
    BY <1>2
  <1>5. Len(nodes') = Len(nodes)
    BY <1>1, <1>4
  <1>6. QED BY <1>3, <1>5 DEF SameTree

\* parse_node takes the slot behind all the others, for a child of the innermost
\* open node.
LEMMA EnterNested ==
    ASSUME DtbInv, EnterNode, ~ Return("corrupt"), Len(stack) = 0 => Len(nodes) = 0,
           NEW last, Nested(last)
    PROVE  \E last2 : Nested(last2)'
  <1>1. PICK N \in Nat, S \in Nat : N = Len(nodes) /\ S = Len(stack)
    BY PoolIs DEF PoolOK
  <1>2. PICK new, parent :
           /\ nodes' = Append(nodes, new) /\ new.kids = <<>> /\ new.parent = parent
           /\ stack' = Append(stack, N + 1) /\ (S > 0 => parent = stack[S])
    <2>1. PICK parent :
             /\ parent = (IF stack = <<>> THEN NoNode ELSE Top)
             /\ nodes' = Append(nodes, NewNode(parent))
             /\ stack' = Append(stack, N + 1)
      BY <1>1 DEF EnterNode
    <2>2. S > 0 => parent = stack[S]
      BY <1>1, <2>1 DEF Top
    <2>3. NewNode(parent).kids = <<>> /\ NewNode(parent).parent = parent
      BY DEF NewNode
    <2>4. QED BY <2>1, <2>2, <2>3
  <1>3. nodes \in Seq(NodeT) /\ stack \in Seq(1 .. Len(nodes))
    BY DEF DtbInv, ParserInv, StackInv
  <1>4. /\ Len(nodes') = N + 1 /\ nodes'[N + 1] = new /\ \A n \in 1 .. N : nodes'[n] = nodes[n]
        /\ Len(stack') = S + 1 /\ stack'[S + 1] = N + 1 /\ \A j \in 1 .. S : stack'[j] = stack[j]
    BY <1>1, <1>2, <1>3
  <1>5. /\ \A j \in 1 .. S : stack[j] \in 1 .. N
        /\ \A n \in 1 .. N : /\ Len(nodes[n].kids) \in Nat
                             /\ \A k \in 1 .. Len(nodes[n].kids) : nodes[n].kids[k] \in 1 .. N
    BY <1>1, PoolIs DEF PoolOK
  <1>6. \A n : Open(n)' <=> Open(n) \/ n = N + 1
    <2>1. ASSUME NEW n PROVE (\E j \in 1 .. S + 1 : stack'[j] = n) <=> (\E j \in 1 .. S : stack[j] = n) \/ n = N + 1
      <3>1. \A j \in 1 .. S + 1 : j \in 1 .. S \/ j = S + 1
        OBVIOUS
      <3>2. 1 .. S \subseteq 1 .. S + 1 /\ S + 1 \in 1 .. S + 1
        OBVIOUS
      <3>3. QED BY <1>4, <3>1, <3>2
    <2>2. QED BY <1>1, <1>4, <2>1 DEF Open
  <1>7. PICK last2 \in [1 .. N + 1 -> Nat] : \A n \in 1 .. N : last2[n] = last[n]
    <2> DEFINE l == [n \in 1 .. N + 1 |-> IF n = N + 1 THEN 0 ELSE last[n]]
    <2>1. \A n \in 1 .. N : last[n] \in Nat
      BY <1>1 DEF Nested
    <2>2. \A n \in 1 .. N + 1 : n # N + 1 => n \in 1 .. N
      OBVIOUS
    <2>3. l \in [1 .. N + 1 -> Nat]
      BY <2>1, <2>2
    <2>4. \A n \in 1 .. N : n \in 1 .. N + 1 /\ n # N + 1
      OBVIOUS
    <2>5. \A n \in 1 .. N : l[n] = last[n]
      BY <2>4
    <2>6. QED BY <2>3, <2>5
  <1>8. \A n \in 1 .. N : Attached(n, last2)' = Attached(n, last)
    <2>1. ASSUME NEW n \in 1 .. N PROVE Attached(n, last2)' = Attached(n, last)
      <3>0. PICK kids : kids = nodes[n].kids
        OBVIOUS
      <3>1. PICK m \in Nat : kids = nodes[n].kids /\ m = Len(kids) /\ nodes'[n].kids = kids
        BY <1>4, <1>5, <3>0
      <3>2. m # 0 => kids[m] \in 1 .. N
        <4>1. m # 0 => m \in 1 .. m
          OBVIOUS
        <4>2. QED BY <1>5, <3>1, <4>1
      <3>3. m # 0 => last2[kids[m]] = last[kids[m]]
        BY <1>7, <3>2
      <3>4. QED BY <3>1, <3>3 DEF Attached
    <2>2. QED BY <2>1
  <1>9. Attached(N + 1, last2)' = N + 1
    BY <1>2, <1>4 DEF Attached
  <1>10. KidsInOrder(last2)'
    <2>1. ASSUME NEW n \in 1 .. N + 1, NEW k \in 1 .. Len(nodes'[n].kids)
          PROVE  /\ nodes'[n].kids[k] \in 1 .. N + 1 /\ ~ Open(nodes[n].kids[k])'
                 /\ nodes'[n].kids[k] = (IF k = 1 THEN n ELSE last2[nodes'[n].kids[k - 1]]) + 1
      <3>1. n # N + 1
        BY <1>2, <1>4
      <3>0. PICK kids : n \in 1 .. N /\ kids = nodes[n].kids
        BY <3>1
      <3>2. PICK m \in Nat : n \in 1 .. N /\ kids = nodes[n].kids /\ m = Len(kids) /\ nodes'[n].kids = kids
        BY <1>4, <1>5, <3>0
      <3>3. k \in 1 .. m
        BY <3>2
      <3>4. kids[k] \in 1 .. N /\ ~ Open(kids[k]) /\ kids[k] = (IF k = 1 THEN n ELSE last[kids[k - 1]]) + 1
        BY <1>1, <3>2, <3>3 DEF Nested, KidsInOrder
      <3>5. kids[k] \in 1 .. N + 1 /\ ~ Open(kids[k])'
        BY <1>6, <3>4
      <3>6. CASE k = 1
        <4>1. nodes'[n].kids[k] = n + 1
          BY <3>2, <3>4, <3>6
        <4>2. ~ Open(nodes[n].kids[k])'
          BY <3>2, <3>5 DEF Open
        <4>3. QED BY <3>2, <3>5, <3>6, <4>1, <4>2
      <3>7. CASE k # 1
        <4>1. k - 1 \in 1 .. m
          BY <3>3, <3>7
        <4>2. PICK c \in 1 .. N : c = kids[k - 1]
          BY <1>5, <3>2, <4>1
        <4>3. last2[c] = last[c]
          BY <1>7
        <4>4. nodes'[n].kids[k] = last2[nodes'[n].kids[k - 1]] + 1
          BY <3>2, <3>4, <3>7, <4>2, <4>3
        <4>5. ~ Open(nodes[n].kids[k])'
          BY <3>2, <3>5 DEF Open
        <4>6. QED BY <3>2, <3>5, <3>7, <4>4, <4>5
      <3>8. QED BY <3>6, <3>7
    <2>2. QED BY <1>4, <2>1 DEF KidsInOrder
  <1>11. ClosedEnd(last2)'
    <2>1. ASSUME NEW n \in 1 .. N + 1, ~ Open(n)' PROVE last2[n] = Attached(n, last2)' /\ n <= last2[n]
      <3>1. n \in 1 .. N /\ ~ Open(n)
        BY <1>6, <2>1
      <3>2. last[n] = Attached(n, last) /\ n <= last[n]
        BY <1>1, <3>1 DEF Nested, ClosedEnd
      <3>3. QED BY <1>7, <1>8, <3>1, <3>2
    <2>2. QED BY <1>4, <2>1 DEF ClosedEnd
  <1>12. OpenEnd(last2)'
    <2>1. ASSUME NEW j \in 1 .. S + 1
          PROVE  /\ Attached(stack[j], last2)' = IF j = S + 1 THEN N + 1 ELSE stack'[j + 1] - 1
                 /\ j > 1 => nodes'[stack'[j]].parent = stack'[j - 1]
      <3>1. CASE j = S + 1
        <4>1. Attached(stack[j], last2)' = N + 1
          <5>1. stack'[j] = N + 1
            BY <1>4, <3>1
          <5>2. QED BY <1>9, <5>1 DEF Attached
        <4>2. j > 1 => S > 0 /\ S \in 1 .. S /\ j - 1 = S
          BY <3>1
        <4>3. QED BY <1>2, <1>4, <3>1, <4>1, <4>2
      <3>2. CASE j # S + 1
        <4>0. j \in 1 .. S
          BY <3>2
        <4>1. PICK n \in 1 .. N : j \in 1 .. S /\ n = stack[j] /\ stack'[j] = n /\ nodes'[n] = nodes[n]
          BY <1>4, <1>5, <4>0
        <4>2. /\ Attached(n, last) = IF j = S THEN N ELSE stack[j + 1] - 1
              /\ j > 1 => nodes[n].parent = stack[j - 1]
          BY <1>1, <4>1 DEF Nested, OpenEnd
        <4>3. stack'[j + 1] - 1 = IF j = S THEN N ELSE stack[j + 1] - 1
          <5>1. j # S => j + 1 \in 1 .. S
            BY <4>1
          <5>2. (N + 1) - 1 = N
            OBVIOUS
          <5>3. QED BY <1>4, <5>1, <5>2
        <4>4. j > 1 => j - 1 \in 1 .. S
          BY <4>1
        <4>5. Attached(n, last2)' = stack'[j + 1] - 1
          BY <1>8, <4>1, <4>2, <4>3
        <4>6. j > 1 => nodes'[n].parent = stack'[j - 1]
          BY <1>4, <4>1, <4>2, <4>4
        <4>7. Attached(stack[j], last2)' = Attached(n, last2)'
          BY <4>1 DEF Attached
        <4>8. QED BY <3>2, <4>1, <4>5, <4>6, <4>7
      <3>3. QED BY <3>1, <3>2
    <2>2. QED BY <1>4, <2>1 DEF OpenEnd
  <1>13. RootFirst(last2)'
    <2>1. Len(stack') # 0
      BY <1>4
    <2>2. stack'[1] = 1
      <3>1. CASE S = 0
        BY <1>1, <1>4, <3>1
      <3>2. CASE S # 0
        <4>1. 1 \in 1 .. S /\ 1 \in 1 .. N
          <5>1. 1 \in 1 .. S
            BY <3>2
          <5>2. stack[1] \in 1 .. N
            BY <1>5, <5>1
          <5>3. QED BY <5>1, <5>2
        <4>2. stack[1] = 1
          BY <1>1, <3>2, <4>1 DEF Nested, RootFirst
        <4>3. QED BY <1>4, <4>1, <4>2
      <3>3. QED BY <3>1, <3>2
    <2>3. QED BY <2>1, <2>2 DEF RootFirst
  <1>14. Nested(last2)'
    BY <1>4, <1>7, <1>10, <1>11, <1>12, <1>13 DEF Nested
  <1>15. QED BY <1>14

\* The innermost open node ends with the last slot taken.
TopEnded(last2, last) ==
    /\ last2 \in [1 .. Len(nodes) -> Nat] /\ last2[Top] = Len(nodes) /\ KidsInOrder(last2)
    /\ \A n \in 1 .. Len(nodes) : Attached(n, last2) = Attached(n, last)
    /\ \A n \in 1 .. Len(nodes) :
          ~ Open(n) \/ n = Top => last2[n] = Attached(n, last2) /\ n <= last2[n]

LEMMA TopEnds ==
    ASSUME DtbInv, Len(stack) # 0, NEW last, Nested(last),
           NEW last2, last2 = [last EXCEPT ![Top] = Len(nodes)]
    PROVE  TopEnded(last2, last)
  <1>1. PICK N \in Nat, S \in Nat : N = Len(nodes) /\ S = Len(stack) /\ S \in 1 .. S
    BY PoolIs DEF PoolOK
  <1>2. PICK top \in 1 .. N : top = Top /\ top = stack[S] /\ Open(top)
    <2>1. stack[S] \in 1 .. N
      BY <1>1, PoolIs
    <2>2. QED BY <1>1, <2>1 DEF Top, Open
  <1>3. last2 \in [1 .. N -> Nat] /\ last2[top] = N /\ \A n \in 1 .. N : n # top => last2[n] = last[n]
    BY <1>1, <1>2 DEF Nested
  <1>4. ASSUME NEW n \in 1 .. N, NEW k, k \in 1 .. Len(nodes[n].kids)
        PROVE  last2[nodes[n].kids[k]] = last[nodes[n].kids[k]]
    <2>1. PICK c : c = nodes[n].kids[k]
      OBVIOUS
    <2>2. c \in 1 .. N /\ ~ Open(c)
      BY <1>1, <1>4, <2>1 DEF Nested, KidsInOrder
    <2>3. c # top
      BY <1>2, <2>2
    <2>4. QED BY <1>3, <2>1, <2>2, <2>3
  <1>5. KidsInOrder(last2)
    <2>1. ASSUME NEW n \in 1 .. N, NEW k \in 1 .. Len(nodes[n].kids)
          PROVE  nodes[n].kids[k] = (IF k = 1 THEN n ELSE last2[nodes[n].kids[k - 1]]) + 1
      <3>1. nodes[n].kids[k] = (IF k = 1 THEN n ELSE last[nodes[n].kids[k - 1]]) + 1
        BY <1>1 DEF Nested, KidsInOrder
      <3>2. k # 1 => k - 1 \in 1 .. Len(nodes[n].kids)
        <4>1. Len(nodes[n].kids) \in Nat
          BY <1>1, PoolIs DEF PoolOK
        <4>2. QED BY <4>1
      <3>3. k # 1 => last2[nodes[n].kids[k - 1]] = last[nodes[n].kids[k - 1]]
        BY <1>4, <3>2
      <3>4. QED BY <3>1, <3>3
    <2>2. QED BY <1>1, <2>1 DEF Nested, KidsInOrder
  <1>6. ASSUME NEW n \in 1 .. N PROVE Attached(n, last2) = Attached(n, last)
    <2>1. Len(nodes[n].kids) \in Nat
      BY <1>1, PoolIs DEF PoolOK
    <2>2. Len(nodes[n].kids) # 0 => Len(nodes[n].kids) \in 1 .. Len(nodes[n].kids)
      BY <2>1
    <2>3. Len(nodes[n].kids) # 0 =>
             last2[nodes[n].kids[Len(nodes[n].kids)]] = last[nodes[n].kids[Len(nodes[n].kids)]]
      BY <1>4, <2>2
    <2>4. QED BY <2>3 DEF Attached
  <1>7. ASSUME NEW n \in 1 .. N, ~ Open(n) \/ n = top
        PROVE  last2[n] = Attached(n, last2) /\ n <= last2[n]
    <2>1. CASE n = top
      <3>1. Attached(top, last) = N
        BY <1>1, <1>2 DEF Nested, OpenEnd
      <3>2. Attached(top, last2) = N
        BY <1>6, <3>1
      <3>3. last2[n] = N /\ Attached(n, last2) = N
        BY <1>3, <2>1, <3>2
      <3>4. QED BY <3>3
    <2>2. CASE n # top
      <3>1. last[n] = Attached(n, last) /\ n <= last[n]
        BY <1>1, <1>7, <2>2 DEF Nested, ClosedEnd
      <3>2. QED BY <1>3, <1>6, <2>2, <3>1
    <2>3. QED BY <2>1, <2>2
  <1>8. QED BY <1>1, <1>2, <1>3, <1>5, <1>6, <1>7 DEF TopEnded

\* par gets one more child.
Adopts(m, par, kid) ==
    /\ Len(m) = Len(nodes) /\ \A n \in 1 .. Len(nodes) : m[n].parent = nodes[n].parent
    /\ \A n \in 1 .. Len(nodes) : n # par => m[n].kids = nodes[n].kids
    /\ Len(m[par].kids) = Len(nodes[par].kids) + 1
    /\ m[par].kids[Len(nodes[par].kids) + 1] = kid
    /\ \A k \in 1 .. Len(nodes[par].kids) : m[par].kids[k] = nodes[par].kids[k]

LEMMA ChildLast ==
    ASSUME nodes \in Seq(NodeT), NEW par \in 1 .. Len(nodes), NEW kid,
           NEW m, m = [nodes EXCEPT ![par].kids = Append(@, kid)]
    PROVE  Adopts(m, par, kid)
  <1>1. PICK x : x = nodes[par] /\ x \in NodeT
    OBVIOUS
  <1>2. PICK kids \in Seq(Nat \ {0}) : kids = x.kids
    BY <1>1 DEF NodeT
  <1>3. PICK ks : /\ ks = Append(kids, kid) /\ Len(ks) = Len(kids) + 1 /\ ks[Len(kids) + 1] = kid
                  /\ \A k \in 1 .. Len(kids) : ks[k] = kids[k]
    <2>1. kids \in Seq(Nat \cup {kid})
      OBVIOUS
    <2>2. /\ Len(Append(kids, kid)) = Len(kids) + 1 /\ Append(kids, kid)[Len(kids) + 1] = kid
          /\ \A k \in 1 .. Len(kids) : Append(kids, kid)[k] = kids[k]
      BY <2>1, AppendProperties
    <2>3. QED BY <2>2
  <1>4. PICK y : y = [x EXCEPT !.kids = ks]
    OBVIOUS
  <1>5. y.parent = x.parent /\ y.kids = ks
    BY <1>1, <1>4 DEF NodeT
  <1>6. m = [nodes EXCEPT ![par] = y]
    BY <1>1, <1>2, <1>3, <1>4
  <1>7. m[par] = y /\ Len(m) = Len(nodes) /\ \A n \in 1 .. Len(nodes) : n # par => m[n] = nodes[n]
    BY <1>6
  <1>8. QED BY <1>1, <1>2, <1>3, <1>5, <1>7 DEF Adopts

\* parse_node returns: its node is closed, and becomes the last child of the
\* node around it.
LEMMA LeaveNested ==
    ASSUME DtbInv, LeaveNode, NEW last, Nested(last)
    PROVE  \E last2 : Nested(last2)'
  <1>1. PICK N \in Nat, S \in Nat : N = Len(nodes) /\ S = Len(stack) /\ S \in 1 .. S
    <2>1. Len(stack) # 0
      BY EmptySeq DEF LeaveNode, DtbInv, ParserInv, StackInv
    <2>2. QED BY <2>1, PoolIs DEF PoolOK
  <1>2. /\ \A j \in 1 .. S : stack[j] \in 1 .. N
        /\ \A j, k \in 1 .. S : j < k => stack[j] < stack[k]
    BY <1>1, PoolIs
  <1>3. Len(stack') = S - 1 /\ \A j \in 1 .. S - 1 : stack'[j] = stack[j]
    <2>1. stack \in Seq(1 .. N) /\ stack' = SubSeq(stack, 1, S - 1)
      BY <1>1 DEF LeaveNode, DtbInv, StackInv
    <2>2. PICK e \in Nat : e = S - 1
      BY <1>1
    <2>3. \A j \in 1 .. e : stack[j] \in 1 .. N
      BY <1>1, <1>2, <2>2
    <2>4. QED BY <2>1, <2>2, <2>3, SubSeqProperties
  <1>4. PICK top \in 1 .. N : top = Top /\ top = stack[S]
    BY <1>1, <1>2 DEF Top
  <1>5. \A n \in 1 .. N : Open(n)' <=> Open(n) /\ n # top
    <2>1. ASSUME NEW n \in 1 .. N
          PROVE  (\E j \in 1 .. S - 1 : stack'[j] = n) <=> (\E j \in 1 .. S : stack[j] = n) /\ n # top
      <3>1. ASSUME NEW j \in 1 .. S - 1 PROVE j \in 1 .. S /\ stack'[j] = stack[j] /\ stack[j] # top
        <4>1. j \in 1 .. S /\ j < S
          BY <1>1
        <4>2. QED BY <1>1, <1>2, <1>3, <1>4, <4>1
      <3>2. \A j \in 1 .. S : j = S \/ j \in 1 .. S - 1
        BY <1>1
      <3>3. QED BY <1>4, <3>1, <3>2
    <2>2. QED BY <1>1, <1>3, <2>1 DEF Open
  <1>6. PICK last2 : last2 = [last EXCEPT ![top] = N]
    OBVIOUS
  <1>7. /\ last2 \in [1 .. N -> Nat] /\ last2[top] = N /\ KidsInOrder(last2)
        /\ \A n \in 1 .. N : Attached(n, last2) = Attached(n, last)
        /\ \A n \in 1 .. N : ~ Open(n) \/ n = top => last2[n] = Attached(n, last2) /\ n <= last2[n]
    <2>1. last2 = [last EXCEPT ![Top] = Len(nodes)]
      BY <1>1, <1>4, <1>6
    <2>2. Len(stack) # 0
      BY <1>1
    <2>3. TopEnded(last2, last)
      BY <2>1, <2>2, TopEnds
    <2>4. QED BY <1>1, <1>4, <2>3 DEF TopEnded
  <1>8. CASE S = 1
    <2>1. nodes' = nodes /\ Len(stack') = 0 /\ \A n : ~ Open(n)'
      <3>1. Len(stack') = 0
        BY <1>3, <1>8
      <3>2. stack' = <<>>
        <4>1. stack \in Seq(1 .. N) /\ stack' = SubSeq(stack, 1, 0)
          BY <1>1, <1>8 DEF LeaveNode, DtbInv, StackInv
        <4>2. QED BY <4>1
      <3>3. QED BY <3>1, <3>2 DEF LeaveNode, Open
    <2>2. \A n : Attached(n, last2)' = Attached(n, last2)
      BY <2>1 DEF Attached
    <2>3. KidsInOrder(last2)'
      BY <1>7, <2>1, SMTT(30) DEF KidsInOrder
    <2>4. ClosedEnd(last2)'
      <3>1. \A n \in 1 .. N : ~ Open(n) \/ n = top
        <4>1. \A j \in 1 .. S : stack[j] = top
          BY <1>1, <1>4, <1>8
        <4>2. QED BY <1>1, <4>1 DEF Open
      <3>2. QED BY <1>1, <1>7, <2>1, <2>2, <3>1 DEF ClosedEnd
    <2>5. OpenEnd(last2)'
      BY <2>1 DEF OpenEnd
    <2>6. RootFirst(last2)'
      <3>1. stack[1] = 1
        BY <1>1, <1>8, <1>4 DEF Nested, RootFirst
      <3>2. last2[1] = N
        BY <1>4, <1>7, <1>8, <3>1
      <3>3. QED BY <1>1, <2>1, <3>2 DEF RootFirst
    <2>7. Nested(last2)'
      BY <1>1, <1>7, <2>1, <2>3, <2>4, <2>5, <2>6 DEF Nested
    <2>8. QED BY <2>7
  <1>9. CASE S # 1
    <2>1. S - 1 \in 1 .. S /\ S - 1 \in 1 .. S - 1 /\ S - 1 # S /\ (S - 1) + 1 = S /\ S > 1
      BY <1>1, <1>9
    <2>2. PICK par \in 1 .. N :
             par = stack[S - 1] /\ par = nodes[top].parent /\ par < top /\ Attached(par, last) = top - 1
      <3>1. nodes[stack[S]].parent = stack[S - 1]
        BY <1>1, <2>1 DEF Nested, OpenEnd
      <3>2. Attached(stack[S - 1], last) = stack[S] - 1
        BY <1>1, <2>1 DEF Nested, OpenEnd
      <3>3. stack[S - 1] < stack[S]
        BY <1>1, <1>2, <2>1
      <3>4. QED BY <1>2, <1>4, <2>1, <3>1, <3>2, <3>3
    <2>3. Adopts(nodes', par, top)
      <3>1. stack' # <<>>
        <4>1. Len(stack') # 0
          BY <1>1, <1>3, <1>9
        <4>2. QED BY <4>1
      <3>2. nodes' = [nodes EXCEPT ![par].kids = Append(@, top)]
        BY <1>4, <2>2, <3>1 DEF LeaveNode
      <3>3. QED BY <1>1, <2>2, <3>2, PoolIs, ChildLast
    <2>4. \A n \in 1 .. N : Len(nodes[n].kids) \in Nat
      BY <1>1, PoolIs DEF PoolOK
    <2>5. Len(nodes') = N /\ Open(par)'
      <3>1. stack'[S - 1] = par
        BY <1>3, <2>1, <2>2
      <3>2. QED BY <1>1, <1>3, <2>1, <2>3, <3>1 DEF Adopts, Open
    <2>6. ASSUME NEW n \in 1 .. N, n # par
          PROVE  nodes'[n].kids = nodes[n].kids /\ Attached(n, last2)' = Attached(n, last2)
      <3>1. nodes'[n].kids = nodes[n].kids
        BY <1>1, <2>3, <2>6 DEF Adopts
      <3>2. QED BY <3>1 DEF Attached
    <2>7. Attached(par, last2)' = N
      <3>1. Len(nodes'[par].kids) # 0 /\ nodes'[par].kids[Len(nodes'[par].kids)] = top
        BY <1>1, <2>3, <2>4 DEF Adopts
      <3>2. QED BY <1>7, <3>1 DEF Attached
    <2>8. ASSUME NEW n \in 1 .. N, NEW k \in 1 .. Len(nodes[n].kids), NEW c, c = nodes[n].kids[k]
          PROVE  /\ c \in 1 .. N /\ ~ Open(c)'
                 /\ c = (IF k = 1 THEN n ELSE last2[nodes[n].kids[k - 1]]) + 1
      <3>1. c = nodes[n].kids[k]
        BY <2>8
      <3>2. c \in 1 .. N /\ ~ Open(c) /\ c = (IF k = 1 THEN n ELSE last2[nodes[n].kids[k - 1]]) + 1
        BY <1>1, <1>7, <3>1 DEF KidsInOrder
      <3>3. ~ Open(c)'
        BY <1>5, <3>2
      <3>4. QED BY <3>2, <3>3
    <2>9. KidsInOrder(last2)'
      <3>1. ASSUME NEW n \in 1 .. N, NEW k \in 1 .. Len(nodes'[n].kids), NEW c, c = nodes'[n].kids[k]
            PROVE  /\ c \in 1 .. N /\ ~ Open(c)'
                   /\ c = (IF k = 1 THEN n ELSE last2[nodes'[n].kids[k - 1]]) + 1
        <4>1. CASE n # par
          <5>1. nodes'[n].kids = nodes[n].kids
            BY <2>6, <4>1
          <5>2. QED BY <2>8, <3>1, <5>1
        <4>2. CASE n = par
          <5>1. PICK m \in Nat :
                   /\ m = Len(nodes[par].kids) /\ Len(nodes'[par].kids) = m + 1
                   /\ nodes'[par].kids[m + 1] = top
                   /\ \A i \in 1 .. m : nodes'[par].kids[i] = nodes[par].kids[i]
            BY <2>3, <2>4 DEF Adopts
          <5>2. k \in 1 .. m + 1
            BY <4>2, <5>1
          <5>3. CASE k \in 1 .. m
            <6>1. c = nodes[par].kids[k]
              BY <3>1, <4>2, <5>1, <5>3
            <6>2. /\ c \in 1 .. N /\ ~ Open(c)'
                  /\ c = (IF k = 1 THEN par ELSE last2[nodes[par].kids[k - 1]]) + 1
              BY <2>8, <5>1, <5>3, <6>1, SMTT(30)
            <6>3. k # 1 => k - 1 \in 1 .. m
              BY <5>3
            <6>4. QED BY <4>2, <5>1, <6>2, <6>3
          <5>4. CASE k = m + 1
            <6>1. c = top /\ ~ Open(top)'
              BY <1>5, <3>1, <4>2, <5>1, <5>4
            <6>2. top = Attached(par, last) + 1
              BY <2>2
            <6>3. Attached(par, last2) = Attached(par, last)
              BY <1>7
            <6>4. Attached(par, last2) = IF m = 0 THEN par ELSE last2[nodes[par].kids[m]]
              BY <5>1 DEF Attached
            <6>5. CASE m = 0
              BY <4>2, <5>4, <6>1, <6>2, <6>3, <6>4, <6>5
            <6>6. CASE m # 0
              <7>1. k # 1 /\ k - 1 = m /\ m \in 1 .. m
                BY <5>4, <6>6
              <7>2. nodes'[n].kids[k - 1] = nodes[par].kids[m]
                BY <4>2, <5>1, <7>1
              <7>3. QED BY <6>1, <6>2, <6>3, <6>4, <6>6, <7>1, <7>2
            <6>7. QED BY <6>5, <6>6
          <5>5. QED BY <5>2, <5>3, <5>4
        <4>3. QED BY <4>1, <4>2
      <3>2. QED BY <2>5, <3>1 DEF KidsInOrder
    <2>10. ClosedEnd(last2)'
      <3>1. ASSUME NEW n \in 1 .. N, ~ Open(n)' PROVE last2[n] = Attached(n, last2)' /\ n <= last2[n]
        <4>1. n # par
          BY <2>5, <3>1
        <4>2. ~ Open(n) \/ n = top
          BY <1>5, <3>1
        <4>3. QED BY <1>7, <2>6, <4>1, <4>2
      <3>2. QED BY <2>5, <3>1 DEF ClosedEnd
    <2>11. OpenEnd(last2)'
      <3>1. ASSUME NEW j \in 1 .. S - 1, NEW n, n = stack'[j]
            PROVE  /\ Attached(n, last2)' = IF j = S - 1 THEN N ELSE stack'[j + 1] - 1
                   /\ j > 1 => nodes'[n].parent = stack'[j - 1]
        <4>1. /\ j \in 1 .. S /\ j # S /\ n = stack[j] /\ n \in 1 .. N
              /\ (j > 1 => j - 1 \in 1 .. S - 1 /\ stack'[j - 1] = stack[j - 1])
          <5>1. j \in 1 .. S /\ j # S /\ (j > 1 => j - 1 \in 1 .. S - 1)
            BY <1>1
          <5>2. QED BY <1>2, <1>3, <3>1, <5>1
        <4>2. Attached(n, last) = stack[j + 1] - 1 /\ (j > 1 => nodes[n].parent = stack[j - 1])
          BY <1>1, <4>1 DEF Nested, OpenEnd
        <4>3. j > 1 => nodes'[n].parent = stack'[j - 1]
          BY <1>1, <2>3, <4>1, <4>2 DEF Adopts
        <4>4. CASE j = S - 1
          <5>1. n = par
            BY <2>2, <4>1, <4>4
          <5>2. QED BY <2>7, <4>3, <4>4, <5>1
        <4>5. CASE j # S - 1
          <5>1. j < S - 1 /\ j + 1 \in 1 .. S - 1
            BY <1>1, <4>1, <4>5
          <5>2. n # par
            <6>1. stack[j] < stack[S - 1]
              BY <1>2, <2>1, <4>1, <5>1
            <6>2. n < par
              BY <2>2, <4>1, <6>1
            <6>3. QED BY <6>2
          <5>3. Attached(n, last2)' = Attached(n, last)
            BY <1>7, <2>6, <4>1, <5>2
          <5>4. stack'[j + 1] = stack[j + 1]
            BY <1>3, <5>1
          <5>5. QED BY <4>2, <4>3, <4>5, <5>3, <5>4
        <4>6. QED BY <4>4, <4>5
      <3>2. \A j \in 1 .. S - 1 :
               /\ Attached(stack[j], last2)' = IF j = S - 1 THEN N ELSE stack'[j + 1] - 1
               /\ j > 1 => nodes'[stack'[j]].parent = stack'[j - 1]
        BY <3>1 DEF Attached
      <3>3. QED BY <1>3, <2>5, <3>2 DEF OpenEnd
    <2>12. RootFirst(last2)'
      <3>1. stack[1] = 1
        BY <1>1, <1>4 DEF Nested, RootFirst
      <3>2. stack'[1] = 1 /\ Len(stack') # 0
        BY <1>1, <1>3, <1>9, <2>1, <3>1
      <3>3. QED BY <3>2 DEF RootFirst
    <2>13. Nested(last2)'
      BY <1>7, <2>5, <2>9, <2>10, <2>11, <2>12 DEF Nested
    <2>14. QED BY <2>13
  <1>10. QED BY <1>8, <1>9

\* The pool is empty until the root is entered, and a tree is returned only once
\* every node has been left.
StageOK ==
    /\ phase \in {"call", "root"} => nodes = <<>>
    /\ phase = "enter" /\ stack = <<>> => nodes = <<>>
    /\ phase = "extract" => nodes # <<>>
    /\ err = "ok" => phase = "done" /\ stack = <<>> /\ nodes # <<>> /\ tree.root = 1

TreeInv == StageOK /\ \E last : Nested(last)

LEMMA TreeReturns ==
    ASSUME DtbInv, TreeInv, NEW e, e # "ok", Return(e)
    PROVE  TreeInv'
  <1>1. PICK last : Nested(last)
    BY DEF TreeInv
  <1>2. SameTree
    BY DEF SameTree, Return
  <1>3. Nested(last)'
    BY <1>1, <1>2, TreeKept
  <1>4. StageOK'
    BY DEF StageOK, Return
  <1>5. QED BY <1>3, <1>4 DEF TreeInv

\* A step that takes no node and leaves none.
LEMMA TreeStays ==
    ASSUME DtbInv, TreeInv, SameTree, StageOK'
    PROVE  TreeInv'
  <1>1. PICK last : Nested(last)
    BY DEF TreeInv
  <1>2. Nested(last)'
    BY <1>1, TreeKept
  <1>3. QED BY <1>2 DEF TreeInv

LEMMA TreeParse == DtbInv /\ TreeInv /\ dtb_parse => TreeInv'
  <1> SUFFICES ASSUME DtbInv, TreeInv, dtb_parse PROVE TreeInv'
    OBVIOUS
  <1>1. CASE Return(HeaderError)
    <2>1. HeaderError # "ok"
      BY DEF HeaderError
    <2>2. QED BY <1>1, <2>1, TreeReturns
  <1>2. CASE AllocPools
    <2>1. SameTree
      BY <1>2 DEF AllocPools, SameTree
    <2>2. StageOK'
      BY <1>2 DEF AllocPools, dtb_parse, TreeInv, StageOK
    <2>3. QED BY <2>1, <2>2, TreeStays
  <1>3. QED BY <1>1, <1>2 DEF dtb_parse

LEMMA TreeRoot == DtbInv /\ TreeInv /\ FindRoot => TreeInv'
  <1> SUFFICES ASSUME DtbInv, TreeInv, FindRoot PROVE TreeInv'
    OBVIOUS
  <1>1. CASE Return("corrupt")
    BY <1>1, TreeReturns
  <1>2. CASE ~ Return("corrupt")
    <2>1. SameTree
      BY <1>2 DEF FindRoot, SameTree
    <2>2. StageOK'
      BY <1>2 DEF FindRoot, TreeInv, StageOK
    <2>3. QED BY <2>1, <2>2, TreeStays
  <1>3. QED BY <1>1, <1>2

LEMMA TreeEnter == DtbInv /\ TreeInv /\ EnterNode => TreeInv'
  <1> SUFFICES ASSUME DtbInv, TreeInv, EnterNode PROVE TreeInv'
    OBVIOUS
  <1>1. CASE Return("corrupt")
    BY <1>1, TreeReturns
  <1>2. CASE ~ Return("corrupt")
    <2>1. PICK last : Nested(last)
      BY DEF TreeInv
    <2>2. Len(stack) = 0 => Len(nodes) = 0
      <3>1. Len(stack) = 0 => stack = <<>>
        BY EmptySeq DEF DtbInv, StackInv
      <3>2. QED BY <3>1 DEF EnterNode, TreeInv, StageOK
    <2>3. \E last2 : Nested(last2)'
      BY <1>2, <2>1, <2>2, EnterNested
    <2>4. StageOK'
      BY <1>2 DEF EnterNode, TreeInv, StageOK
    <2>5. QED BY <2>3, <2>4 DEF TreeInv
  <1>3. QED BY <1>1, <1>2

LEMMA TreeProp == DtbInv /\ TreeInv /\ ReadProp => TreeInv'
  <1> SUFFICES ASSUME DtbInv, TreeInv, ReadProp PROVE TreeInv'
    OBVIOUS
  <1>1. CASE Return("corrupt")
    BY <1>1, TreeReturns
  <1>2. CASE ~ Return("corrupt")
    <2>1. PICK name, plen : nodes' = AddProp(Top, name, plen)
      BY <1>2 DEF ReadProp
    <2>2. /\ phase = "body" /\ phase' = "body" /\ UNCHANGED <<stack, err, tree>>
      BY <1>2 DEF ReadProp
    <2>3. SameTree
      BY <2>1, <2>2, AddPropKeeps DEF DtbInv, ParserInv
    <2>4. StageOK'
      BY <2>2 DEF TreeInv, StageOK
    <2>5. QED BY <2>3, <2>4, TreeStays
  <1>3. QED BY <1>1, <1>2

LEMMA TreeLook == DtbInv /\ TreeInv /\ LookAhead => TreeInv'
  <1> SUFFICES ASSUME DtbInv, TreeInv, LookAhead PROVE TreeInv'
    OBVIOUS
  <1>1. SameTree
    BY DEF LookAhead, SameTree
  <1>2. StageOK'
    BY DEF LookAhead, TreeInv, StageOK
  <1>3. QED BY <1>1, <1>2, TreeStays

LEMMA TreeSlots == DtbInv /\ TreeInv /\ AllocProps => TreeInv'
  <1> SUFFICES ASSUME DtbInv, TreeInv, AllocProps PROVE TreeInv'
    OBVIOUS
  <1>1. CASE Return("corrupt")
    BY <1>1, TreeReturns
  <1>2. CASE ~ Return("corrupt")
    <2>1. PICK n, c : nodes' = [nodes EXCEPT ![n].room = c]
      BY <1>2 DEF AllocProps
    <2>2. /\ phase = "ahead" /\ phase' = "body" /\ UNCHANGED <<stack, err, tree>>
      BY <1>2 DEF AllocProps
    <2>3. SameTree
      <3>1. nodes \in Seq(NodeT) /\ DOMAIN nodes = 1 .. Len(nodes) /\ Len(nodes) \in Nat
        BY LenProperties DEF DtbInv, ParserInv
      <3>2. nodes' = [k \in DOMAIN nodes |-> nodes'[k]]
        BY <2>1
      <3>3. Len(nodes') = Len(nodes)
        BY <3>1, <3>2
      <3>4. ASSUME NEW m \in 1 .. Len(nodes)
            PROVE  nodes'[m].kids = nodes[m].kids /\ nodes'[m].parent = nodes[m].parent
        <4>1. nodes[m] \in NodeT
          BY <3>1
        <4>2. nodes'[m] = IF m = n THEN [nodes[m] EXCEPT !.room = c] ELSE nodes[m]
          BY <2>1, <3>1
        <4>3. QED BY <4>1, <4>2 DEF NodeT
      <3>5. QED BY <2>2, <3>3, <3>4 DEF SameTree
    <2>4. StageOK'
      BY <2>2 DEF TreeInv, StageOK
    <2>5. QED BY <2>3, <2>4, TreeStays
  <1>3. QED BY <1>1, <1>2

LEMMA TreeLeave == DtbInv /\ TreeInv /\ LeaveNode => TreeInv'
  <1> SUFFICES ASSUME DtbInv, TreeInv, LeaveNode PROVE TreeInv'
    OBVIOUS
  <1>1. PICK last : Nested(last)
    BY DEF TreeInv
  <1>2. \E last2 : Nested(last2)'
    BY <1>1, LeaveNested
  <1>3. phase' = "extract" => nodes' # <<>>
    <2>1. DtbInv'
      BY LeaveStep
    <2>2. QED BY <2>1 DEF DtbInv, ParserInv
  <1>4. StageOK'
    BY <1>3 DEF LeaveNode, TreeInv, StageOK
  <1>5. QED BY <1>2, <1>4 DEF TreeInv

LEMMA TreeOther == DtbInv /\ TreeInv /\ OtherToken => TreeInv'
  <1> SUFFICES ASSUME DtbInv, TreeInv, OtherToken PROVE TreeInv'
    OBVIOUS
  <1>1. SameTree
    BY DEF OtherToken, SameTree
  <1>2. stack # <<>>
    BY DEF OtherToken, DtbInv, ParserInv
  <1>3. StageOK'
    BY <1>2 DEF OtherToken, TreeInv, StageOK
  <1>4. QED BY <1>1, <1>3, TreeStays

LEMMA TreeExtract == DtbInv /\ TreeInv /\ Extract => TreeInv'
  <1> SUFFICES ASSUME DtbInv, TreeInv, Extract PROVE TreeInv'
    OBVIOUS
  <1>1. SameTree
    BY DEF Extract, SameTree
  <1>2. stack = <<>>
    BY DEF Extract, DtbInv, StackInv
  <1>3. StageOK'
    BY <1>2 DEF Extract, TreeInv, StageOK
  <1>4. QED BY <1>1, <1>3, TreeStays

LEMMA TreeAll == DtbInv /\ TreeInv /\ [Next]_vars => TreeInv'
  <1> SUFFICES ASSUME DtbInv, TreeInv, [Next]_vars PROVE TreeInv'
    OBVIOUS
  <1>1. CASE DtbNext
    <2>1. CASE OutOfBlock
      BY <2>1, TreeReturns DEF OutOfBlock
    <2>2. QED BY <1>1, <2>1, TreeParse, TreeRoot, TreeEnter, TreeLook, TreeSlots, TreeProp, TreeLeave,
                 TreeOther, TreeExtract DEF DtbNext
  <1>2. CASE UNCHANGED <<blob, phase, cur, ahead, stack, nodes, prop_used, err, tree>>
    <2>1. SameTree
      BY <1>2 DEF SameTree
    <2>2. StageOK'
      BY <1>2 DEF TreeInv, StageOK
    <2>3. QED BY <2>1, <2>2, TreeStays
  <1>3. DtbNext \/ UNCHANGED <<blob, phase, cur, ahead, stack, nodes, prop_used, err, tree>>
    BY DEF Next, vars, dtbVars, init_mmu, CopyImage, ZeroBss, EnterKmain, Parse, ParseFailed, mm_init,
           fb_init, InitDevices, MountFailed, CreateInit, ExecInit, MapUserPage, ForkCopy, mm_page_free
  <1>4. QED BY <1>1, <1>2, <1>3

LEMMA TreeStart == DtbInit => TreeInv
  <1> SUFFICES ASSUME DtbInit PROVE TreeInv
    OBVIOUS
  <1>1. phase = "call" /\ stack = <<>> /\ nodes = <<>> /\ err = "none"
    BY DEF DtbInit
  <1>2. PICK last : last \in [1 .. 0 -> Nat]
    <2>1. [n \in 1 .. 0 |-> 0] \in [1 .. 0 -> Nat]
      OBVIOUS
    <2>2. QED BY <2>1
  <1>3. Len(stack) = 0 /\ Len(nodes) = 0 /\ \A n : n \notin 1 .. 0
    BY <1>1
  <1>4. KidsInOrder(last) /\ ClosedEnd(last) /\ OpenEnd(last) /\ RootFirst(last)
    BY <1>3 DEF KidsInOrder, ClosedEnd, OpenEnd, RootFirst
  <1>5. Nested(last)
    BY <1>2, <1>3, <1>4 DEF Nested
  <1>6. StageOK
    BY <1>1 DEF StageOK
  <1>7. QED BY <1>5, <1>6 DEF TreeInv

\* Whatever tree dtb_parse returns, its nodes lie in the pool in the order of the
\* document, so that the depth-first scans of dtb_find_phandle and
\* dtb_find_compatible end at the first node there that matches.
THEOREM LookupsAlwaysFirst == Spec => []LookupsFirst
  <1>1. Init => TreeInv
    BY TreeStart DEF Init
  <1>2. DtbInv /\ TreeInv => LookupsFirst
    <2> SUFFICES ASSUME DtbInv, TreeInv, err = "ok" PROVE LookupsFirst
      BY DEF LookupsFirst
    <2>1. PICK last : Nested(last)
      BY DEF TreeInv
    <2>2. PICK n \in Nat : n = Len(nodes) /\ DOMAIN nodes = 1 .. n /\ n # 0
      <3>1. nodes # <<>> /\ nodes \in Seq(NodeT)
        BY DEF TreeInv, StageOK, DtbInv, ParserInv
      <3>2. QED BY <3>1, EmptySeq, LenProperties
    <2>3. Len(stack) = 0 /\ tree.root = 1
      BY DEF TreeInv, StageOK
    <2>4. Preorder(tree.root) = Run(1, n)
      BY <2>1, <2>2, <2>3, PoolIs, DocumentOrder
    <2>5. \A ph : ph # 0 => IsFirst(dtb_find_phandle(ph), {m \in DOMAIN nodes : nodes[m].phandle = ph})
      BY <2>2, <2>4, ByPhandle
    <2>6. \A c : IsFirst(dtb_find_compatible(c), {m \in DOMAIN nodes : node_has_compat(m, c)})
      BY <2>2, <2>4, ByCompatible
    <2>7. QED BY <2>5, <2>6 DEF LookupsFirst
  <1>3. QED BY <1>1, <1>2, TreeAll, ParserInductive, PTL DEF Spec

-----------------------------------------------------------------------------
(* The invariant of the page allocator after start-up.                     *)

\* The frames mm_init keeps from the page allocator.
Kept == BitmapFrames \cup HeapFrames

\* The bitmap describes RAM, and every frame in use is marked in it.
PmmInv ==
    /\ pmm = [base |-> pmm.base, total |-> pmm.total, bitmap |-> pmm.bitmap, hint |-> pmm.hint]
    /\ pmm.base \in Nat /\ pmm.total \in Nat /\ pmm.hint \in Nat
    /\ pmm.bitmap \subseteq 0 .. pmm.total - 1
    /\ fb \cup user \subseteq Nat
    /\ \A f \in fb \cup user : f - pmm.base \in pmm.bitmap
    /\ fb \cap user = {}

\* From mm_init on the frames of the bitmap and the heap that lie in RAM are
\* marked, and nobody else uses them.
HeapInv ==
    /\ step \in {"parse", "fb", "dev", "process", "user"} => kernel_phys_base = Kphys
    /\ step \in {"reset", "copy", "zero", "base", "parse"} => pmm = NoPmm /\ fb = {} /\ user = {}
    /\ step = "fb" => fb = {} /\ user = {}
    /\ step \in {"fb", "dev", "process", "user"} =>
          /\ pmm.total > 0 /\ pmm.hint < pmm.total
          /\ \A f \in Kept : f - pmm.base \in 0 .. pmm.total - 1 => f - pmm.base \in pmm.bitmap
          /\ (fb \cup user) \cap Kept = {}

FramesInv == PmmInv /\ HeapInv

LEMMA BlobSame == [Next]_vars => blob' = blob
  <1>1. DtbNext => blob' = blob
    BY DEF DtbNext, dtb_parse, FindRoot, EnterNode, LookAhead, AllocProps, ReadProp, LeaveNode, OtherToken,
           OutOfBlock, Extract, Return, AllocPools
  <1>2. QED BY <1>1 DEF Next, vars, dtbVars, init_mmu, CopyImage, ZeroBss, EnterKmain, Parse, ParseFailed,
                        mm_init, fb_init, InitDevices, MountFailed, CreateInit, ExecInit, MapUserPage,
                        ForkCopy, mm_page_free

LEMMA KphysNat ==
    ASSUME blob \in Blobs
    PROVE  Kphys \in Nat /\ Dtb0 \in Nat
  <1>1. PICK d \in Nat, s \in Nat \ {0} : d = blob.dtb /\ s = SECTION
    BY DtbConstants, BootConstants
  <1>2. PICK q \in Nat : q = d \div s
    OBVIOUS
  <1>3. q * s + 2 * s \in Nat
    OBVIOUS
  <1>4. QED BY <1>1, <1>2, <1>3 DEF Kphys, Dtb0, KPHYS_OFFSET

\* A step that allocates and frees nothing, and how it may change step.
Quiet ==
    /\ UNCHANGED <<blob, pmm, fb, user>>
    /\ \/ step' \in {"halt", "fault"}
       \/ step' = step /\ kernel_phys_base' = kernel_phys_base
       \/ step \in {"reset", "copy", "zero"} /\ step' \in {"copy", "zero", "base"}
       \/ step = "base" /\ step' = "parse" /\ kernel_phys_base' = Kphys
       \/ /\ step \in {"fb", "dev", "process"} /\ step' \in {"dev", "process", "user"}
          /\ kernel_phys_base' = kernel_phys_base

LEMMA QuietStep ==
    ASSUME FramesInv, Quiet
    PROVE  FramesInv'
  <1>1. Kphys' = Kphys /\ Kept' = Kept
    BY DEF Quiet, Kphys, Dtb0, Kept, BitmapFrames, HeapFrames
  <1>2. PmmInv'
    BY DEF FramesInv, PmmInv, Quiet
  <1>3. HeapInv'
    BY <1>1 DEF FramesInv, HeapInv, Quiet
  <1>4. QED BY <1>2, <1>3 DEF FramesInv

\* bm_find_free_run finds pages of RAM that are free.
LEMMA RunFound ==
    ASSUME PmmInv, pmm.hint < pmm.total, NEW n \in Nat, NEW i, i = FindRun(n), i # -1
    PROVE  /\ i \in Nat /\ i + n <= pmm.total
           /\ (i .. i + n - 1) \cap pmm.bitmap = {}
  <1>1. PICK total \in Nat, hint \in Nat, map \in SUBSET Nat :
           total = pmm.total /\ hint = pmm.hint /\ map = pmm.bitmap /\ hint < total
    BY DEF PmmInv
  <1> DEFINE Free(lo, hi) == {k \in lo .. hi - n : (k .. k + n - 1) \cap map = {}}
             Lowest(S) == CHOOSE k \in S : \A j \in S : k <= j
  <1>2. i = IF Free(hint, total) # {} THEN Lowest(Free(hint, total))
            ELSE IF Free(0, hint) # {} THEN Lowest(Free(0, hint)) ELSE -1
    BY <1>1 DEF FindRun, Runs
  <1>3. ASSUME NEW S \in SUBSET Nat, S # {} PROVE Lowest(S) \in S
    <2>1. \E k \in S : \A j \in S : k <= j
      BY <1>3, LeastNatural
    <2>2. QED BY <2>1
  <1>4. Free(hint, total) \in SUBSET Nat /\ Free(0, hint) \in SUBSET Nat
    OBVIOUS
  <1> HIDE DEF Lowest
  <1>5. i \in Free(hint, total) \/ i \in Free(0, hint)
    <2> HIDE DEF Free
    <2>1. CASE Free(hint, total) # {}
      BY <1>2, <1>3, <1>4, <2>1
    <2>2. CASE Free(hint, total) = {} /\ Free(0, hint) # {}
      BY <1>2, <1>3, <1>4, <2>2
    <2>3. QED BY <1>2, <2>1, <2>2
  <1>6. i \in Nat /\ i + n <= total /\ (i .. i + n - 1) \cap map = {}
    BY <1>1, <1>5
  <1>7. QED BY <1>1, <1>6

\* n free pages from i on are taken for new: the rest of the owners keep theirs.
LEMMA Take ==
    ASSUME FramesInv, blob \in Blobs, blob' = blob, step \in {"fb", "dev", "process", "user"},
           NEW n \in Nat, NEW i, i = FindRun(n), i # -1, pmm' = Taken(i, n),
           NEW new, new = Frames(i, n)
    PROVE  /\ pmm' = [base |-> pmm.base, total |-> pmm.total, bitmap |-> pmm.bitmap \cup (i .. i + n - 1),
                      hint |-> (i + n) % pmm.total]
           /\ pmm'.base = pmm.base /\ pmm'.total = pmm.total
           /\ pmm'.bitmap = pmm.bitmap \cup (i .. i + n - 1)
           /\ pmm'.hint \in Nat /\ pmm'.hint < pmm'.total
           /\ pmm'.bitmap \subseteq 0 .. pmm'.total - 1
           /\ new \subseteq Nat /\ new \cap (fb \cup user) = {} /\ new \cap Kept = {}
           /\ \A f \in new : f - pmm.base \in pmm'.bitmap
  <1>1. PICK base \in Nat, total \in Nat, hint \in Nat, map \in SUBSET Nat :
           /\ pmm = [base |-> base, total |-> total, bitmap |-> map, hint |-> hint]
           /\ base = pmm.base /\ total = pmm.total /\ hint = pmm.hint /\ map = pmm.bitmap
           /\ hint < total /\ total > 0 /\ map \subseteq 0 .. total - 1
    BY DEF FramesInv, PmmInv, HeapInv
  <1>2. i \in Nat /\ i + n <= total /\ (i .. i + n - 1) \cap map = {}
    BY <1>1, RunFound DEF FramesInv
  <1>3. PICK map2 : map2 = map \cup (i .. i + n - 1)
    OBVIOUS
  <1>4. PICK h2 \in Nat : h2 = (i + n) % total /\ h2 < total
    BY <1>1, <1>2
  <1>5. pmm' = [base |-> base, total |-> total, bitmap |-> map2, hint |-> h2]
    BY <1>1, <1>3, <1>4 DEF Taken
  <1>6. map2 \subseteq 0 .. total - 1
    <2>1. map \subseteq 0 .. total - 1
      BY <1>1
    <2>2. i .. i + n - 1 \subseteq 0 .. total - 1
      BY <1>2
    <2>3. QED BY <1>3, <2>1, <2>2
  <1>7. new = base + i .. base + i + n - 1
    BY <1>1 DEF Frames
  <1>8. ASSUME NEW f \in new
        PROVE  /\ f \in Nat /\ f - base \in i .. i + n - 1 /\ f - base \in 0 .. total - 1
               /\ f - base \notin map /\ f - base \in map2
    BY <1>2, <1>3, <1>7
  <1>9. new \cap (fb \cup user) = {}
    BY <1>1, <1>8 DEF FramesInv, PmmInv
  <1>10. new \cap Kept = {}
    BY <1>1, <1>8 DEF FramesInv, HeapInv
  <1>11. QED BY <1>1, <1>3, <1>4, <1>5, <1>6, <1>8, <1>9, <1>10

LEMMA TakeStep ==
    ASSUME FramesInv, blob \in Blobs, blob' = blob, step \in {"fb", "dev", "process", "user"},
           step' \in {"dev", "process", "user", "fault", "fork_fault"},
           kernel_phys_base' = kernel_phys_base,
           NEW n \in Nat, NEW i, i = FindRun(n), i # -1, pmm' = Taken(i, n),
           fb' = fb \/ (fb = {} /\ fb' = Frames(i, n)),
           user' = user \/ (fb' = fb /\ user' = user \cup Frames(i, n))
    PROVE  FramesInv'
  <1>1. PICK new : new = Frames(i, n)
    OBVIOUS
  <1>2. /\ pmm' = [base |-> pmm.base, total |-> pmm.total, bitmap |-> pmm.bitmap \cup (i .. i + n - 1),
                   hint |-> (i + n) % pmm.total]
        /\ pmm'.base = pmm.base /\ pmm'.total = pmm.total
        /\ pmm'.bitmap = pmm.bitmap \cup (i .. i + n - 1)
        /\ pmm'.hint \in Nat /\ pmm'.hint < pmm'.total
        /\ pmm'.bitmap \subseteq 0 .. pmm'.total - 1
        /\ new \subseteq Nat /\ new \cap (fb \cup user) = {} /\ new \cap Kept = {}
        /\ \A f \in new : f - pmm.base \in pmm'.bitmap
    BY <1>1, Take
  <1>3. fb' \cup user' \subseteq fb \cup user \cup new /\ fb' \cap user' = {}
    BY <1>1, <1>2 DEF FramesInv, PmmInv
  <1>4. Kphys' = Kphys /\ Kept' = Kept
    BY <1>2 DEF Kphys, Dtb0, Kept, BitmapFrames, HeapFrames
  <1>5. PmmInv'
    <2>1. pmm.base \in Nat /\ pmm.total \in Nat /\ fb \cup user \subseteq Nat
      BY DEF FramesInv, PmmInv
    <2>2. \A f \in fb' \cup user' : f - pmm'.base \in pmm'.bitmap
      BY <1>2, <1>3 DEF FramesInv, PmmInv
    <2>3. fb' \cup user' \subseteq Nat
      BY <1>2, <1>3, <2>1
    <2>4. pmm' = [base |-> pmm'.base, total |-> pmm'.total, bitmap |-> pmm'.bitmap, hint |-> pmm'.hint]
      BY <1>2
    <2>5. QED BY <1>2, <1>3, <2>1, <2>2, <2>3, <2>4 DEF PmmInv
  <1>6. HeapInv'
    <2>1. \A f \in Kept : f - pmm.base \in 0 .. pmm.total - 1 => f - pmm'.base \in pmm'.bitmap
      BY <1>2 DEF FramesInv, HeapInv
    <2>2. (fb' \cup user') \cap Kept = {}
      BY <1>2, <1>3 DEF FramesInv, HeapInv
    <2>3. pmm.total > 0 /\ kernel_phys_base = Kphys
      BY DEF FramesInv, HeapInv
    <2>4. QED BY <1>2, <1>4, <2>1, <2>2, <2>3 DEF HeapInv
  <1>7. QED BY <1>5, <1>6 DEF FramesInv

LEMMA FbStep == DtbInv /\ FramesInv /\ fb_init => FramesInv'
  <1> SUFFICES ASSUME DtbInv, FramesInv, fb_init PROVE FramesInv'
    OBVIOUS
  <1>1. blob \in Blobs /\ blob' = blob /\ FB_PAGES \in Nat /\ step = "fb" /\ fb = {}
    BY BootConstants DEF DtbInv, ParserInv, fb_init, dtbVars, FramesInv, HeapInv
  <1>2. PICK i : i = FindRun(FB_PAGES)
    OBVIOUS
  <1>3. CASE Quiet
    BY <1>3, QuietStep
  <1>4. CASE ~ Quiet
    <2>1. i # -1 /\ pmm' = Taken(i, FB_PAGES) /\ UNCHANGED <<kernel_phys_base, user>>
      BY <1>1, <1>2, <1>4 DEF fb_init, Fault, Quiet
    <2>2. (fb' = fb /\ step' = "fault") \/ (fb' = Frames(i, FB_PAGES) /\ step' = "dev")
      BY <1>1, <1>2, <1>4 DEF fb_init, Fault, Quiet
    <2>3. step' \in {"dev", "process", "user", "fault", "fork_fault"}
      BY <2>2
    <2>4. fb' = fb \/ (fb = {} /\ fb' = Frames(i, FB_PAGES))
      BY <1>1, <2>2
    <2>5. QED BY <1>1, <1>2, <2>1, <2>3, <2>4, TakeStep
  <1>5. QED BY <1>3, <1>4

LEMMA AllocStep ==
    ASSUME DtbInv, FramesInv, mm_page_alloc, blob' = blob, step \in {"process", "user"},
           step' \in {"process", "user", "fork_fault"}, UNCHANGED <<kernel_phys_base, fb>>
    PROVE  FramesInv'
  <1>1. PICK i : i = FindRun(1) /\ i # -1 /\ pmm' = Taken(i, 1) /\ user' = user \cup {pmm.base + i}
    BY DEF mm_page_alloc
  <1>2. pmm.base \in Nat /\ pmm.hint < pmm.total
    BY DEF FramesInv, PmmInv, HeapInv
  <1>3. i \in Nat
    BY <1>1, <1>2, RunFound DEF FramesInv
  <1>4. Frames(i, 1) = {pmm.base + i}
    BY <1>2, <1>3 DEF Frames
  <1>5. blob \in Blobs
    BY DEF DtbInv, ParserInv
  <1>6. QED BY <1>1, <1>4, <1>5, TakeStep

LEMMA FreeStep == DtbInv /\ FramesInv /\ mm_page_free => FramesInv'
  <1> SUFFICES ASSUME DtbInv, FramesInv, mm_page_free PROVE FramesInv'
    OBVIOUS
  <1>1. PICK f \in user :
           /\ user' = user \ {f}
           /\ pmm' = [pmm EXCEPT !.bitmap = @ \ {f - pmm.base},
                                 !.hint = IF f - pmm.base < @ THEN f - pmm.base ELSE @]
    BY DEF mm_page_free
  <1>2. step = "user" /\ UNCHANGED <<blob, step, kernel_phys_base, fb>>
    BY DEF mm_page_free, dtbVars
  <1>3. PICK base \in Nat, total \in Nat, hint \in Nat, map \in SUBSET Nat :
           /\ pmm = [base |-> base, total |-> total, bitmap |-> map, hint |-> hint]
           /\ base = pmm.base /\ total = pmm.total /\ hint = pmm.hint /\ map = pmm.bitmap
           /\ hint < total /\ total > 0 /\ map \subseteq 0 .. total - 1
    BY <1>2 DEF FramesInv, PmmInv, HeapInv
  <1>4. f \in Nat /\ f - base \in map /\ f \notin fb /\ f \notin Kept
    BY <1>1, <1>2, <1>3 DEF FramesInv, PmmInv, HeapInv
  <1>5. PICK map2 : map2 = map \ {f - base}
    OBVIOUS
  <1>6. PICK h2 \in Nat : h2 = (IF f - base < hint THEN f - base ELSE hint) /\ h2 < total
    BY <1>3, <1>4
  <1>7. pmm' = [base |-> base, total |-> total, bitmap |-> map2, hint |-> h2]
    BY <1>1, <1>3, <1>5, <1>6
  <1>8. pmm'.base = base /\ pmm'.total = total /\ pmm'.bitmap = map2 /\ pmm'.hint = h2
    BY <1>7
  <1>9. \A g \in fb \cup (user \ {f}) : g \in Nat /\ g - base \in map2
    <2>1. \A g \in fb \cup user : g \in Nat /\ g - base \in map
      BY <1>3 DEF FramesInv, PmmInv
    <2>2. \A g \in fb \cup (user \ {f}) : g # f
      BY <1>4
    <2>3. QED BY <1>4, <1>5, <2>1, <2>2
  <1>10. PmmInv'
    <2>1. map2 \subseteq 0 .. total - 1
      BY <1>3, <1>5
    <2>2. fb' \cup user' = fb \cup (user \ {f}) /\ fb' \cap user' = {}
      BY <1>1, <1>2 DEF FramesInv, PmmInv
    <2>3. QED BY <1>7, <1>8, <1>9, <2>1, <2>2 DEF PmmInv
  <1>11. HeapInv'
    <2>1. Kphys' = Kphys /\ Kept' = Kept
      BY <1>2, <1>3, <1>8 DEF Kphys, Dtb0, Kept, BitmapFrames, HeapFrames
    <2>2. ASSUME NEW g \in Kept, g - base \in 0 .. total - 1 PROVE g - base \in map2
      <3>1. g - base \in map
        BY <1>2, <1>3, <2>2 DEF FramesInv, HeapInv
      <3>2. g \in Int /\ g # f
        <4>1. Kept \subseteq Int
          BY DEF Kept, BitmapFrames, HeapFrames
        <4>2. QED BY <1>4, <4>1
      <3>3. QED BY <1>4, <1>5, <3>1, <3>2
    <2>3. (fb' \cup user') \cap Kept = {}
      BY <1>1, <1>2 DEF FramesInv, HeapInv
    <2>4. kernel_phys_base = Kphys
      BY <1>2 DEF FramesInv, HeapInv
    <2>5. QED BY <1>2, <1>3, <1>6, <1>8, <2>1, <2>2, <2>3, <2>4 DEF HeapInv
  <1>12. QED BY <1>10, <1>11 DEF FramesInv

\* The frames kept are among those mm_init reserves.
LEMMA KeptReserved ==
    ASSUME blob \in Blobs, kernel_phys_base = Kphys, NEW total \in Nat, NEW pa, NEW pages,
           pa = Dtb0 + blob.pages + EARLY_PAGES,
           pages = (total + PAGES_PER_BITMAP - 1) \div PAGES_PER_BITMAP
    PROVE  /\ (pa .. pa + pages - 1) \cup HeapFrames \subseteq Reserved(pa, pages)
           /\ (pa .. pa + pages - 1) \cup HeapFrames \subseteq Int
  <1>1. Kphys \in Nat
    BY KphysNat
  <1>2. BSS_END \in Nat /\ KHEAP_PAGES \in Nat /\ KERNEL_SEC \in Nat /\ SECTION \in Nat
    BY BootConstants
  <1>3. PICK kv \in Nat : kv = KV
    BY <1>2 DEF KV
  <1>4. virt_to_phys(HeapVa) = Kphys + BSS_END
    BY <1>1, <1>2, <1>3 DEF virt_to_phys, HeapVa
  <1>5. pa .. pa + pages - 1 \subseteq Int /\ HeapFrames \subseteq Int
    BY DEF HeapFrames
  <1>6. QED BY <1>4, <1>5 DEF Reserved, HeapFrames

\* mm_init's first page lies in the address space.
LEMMA RamFacts ==
    ASSUME NEW m \in PairT
    PROVE  /\ ADDR_PAGES \in Nat \ {0} /\ PAGE_SIZE \in Nat \ {0}
           /\ RamBase(m) \in 0 .. ADDR_PAGES - 1 /\ RamEnd(m) \in Nat
  <1>1. PICK a \in Nat, w \in Nat \ {0} : a = ADDR_PAGES /\ w = PAGE_WORDS /\ W = a * w
    BY DtbConstants, BootConstants
  <1>2. a # 0
    <2>1. CASE a = 0
      <3>1. W = 0
        BY <1>1, <2>1
      <3>2. QED BY <3>1, WordSize
    <2>2. QED BY <2>1
  <1>3. PICK p \in Nat \ {0} : p = PAGE_SIZE
    BY <1>1 DEF PAGE_SIZE
  <1>4. PICK b \in Nat, s \in Nat : b = m.base % R /\ s = m.size
    BY WordSize DEF PairT
  <1>5. (b + p - 1) \div p \in Nat /\ (b + s) \div p \in Nat
    <2>1. PICK x \in Nat : x = b + p - 1
      BY <1>3
    <2>2. PICK y \in Nat : y = b + s
      OBVIOUS
    <2>3. x \div p \in Nat /\ y \div p \in Nat
      OBVIOUS
    <2>4. QED BY <2>1, <2>2, <2>3
  <1>6. RamBase(m) \in 0 .. a - 1
    <2>1. PICK x \in Nat : x = (b + p - 1) \div p
      BY <1>5
    <2>2. x % a \in 0 .. a - 1
      BY <1>2
    <2>3. RamBase(m) = x % a
      BY <1>1, <1>3, <1>4, <2>1 DEF RamBase
    <2>4. QED BY <2>2, <2>3
  <1>7. RamEnd(m) \in Nat
    BY <1>1, <1>2, <1>3, <1>4, <1>5 DEF RamEnd
  <1>8. QED BY <1>1, <1>2, <1>3, <1>6, <1>7

LEMMA MmInitStep == DtbInv /\ FramesInv /\ mm_init => FramesInv'
  <1> SUFFICES ASSUME DtbInv, FramesInv, mm_init PROVE FramesInv'
    OBVIOUS
  <1>1. /\ step = "parse" /\ tree.memory # <<>> /\ blob' = blob /\ blob \in Blobs
        /\ kernel_phys_base = Kphys /\ fb = {} /\ user = {}
    BY DEF mm_init, dtbVars, DtbInv, ParserInv, FramesInv, HeapInv
  <1>2. CASE Quiet
    BY <1>2, QuietStep
  <1>3. CASE ~ Quiet
    <2>1. PICK m : m = tree.memory[1]
      OBVIOUS
    <2>2. m \in PairT
      <3>1. tree.memory \in Seq(PairT)
        BY DEF DtbInv, ParserInv
      <3>2. 1 \in 1 .. Len(tree.memory)
        BY <1>1, <3>1, EmptySeq, LenProperties
      <3>3. QED BY <2>1, <3>1, <3>2
    <2>3. RamBase(m) \in Nat /\ RamEnd(m) \in Nat
      BY <2>2, RamFacts
    <2>5. PICK base \in Nat, total \in Int : base = RamBase(m) /\ total = RamEnd(m) - RamBase(m)
      BY <2>3
    <2>6. PICK pa, pages :
             /\ pa = Dtb0 + blob.pages + EARLY_PAGES
             /\ pages = (total + PAGES_PER_BITMAP - 1) \div PAGES_PER_BITMAP
             /\ ~ (total <= 0)
             /\ pmm' = [base |-> base, total |-> total, hint |-> 0,
                        bitmap |-> reserve_range(base, total, Reserved(pa, pages))]
             /\ step' = "fb" /\ UNCHANGED <<kernel_phys_base, fb, user>>
      BY <1>1, <1>3, <2>1, <2>5, ZenonT(30) DEF mm_init, Halt, Fault, Quiet, dtbVars
    <2>7. PICK map : map = reserve_range(base, total, Reserved(pa, pages))
      OBVIOUS
    <2>8. /\ pmm'.base = base /\ pmm'.total = total /\ pmm'.hint = 0 /\ pmm'.bitmap = map
          /\ pmm' = [base |-> pmm'.base, total |-> pmm'.total, bitmap |-> pmm'.bitmap, hint |-> pmm'.hint]
      BY <2>6, <2>7
    <2>9. total \in Nat /\ total > 0 /\ map \subseteq 0 .. total - 1
      BY <2>6, <2>7 DEF reserve_range
    <2>10. PmmInv'
      BY <1>1, <2>6, <2>8, <2>9 DEF PmmInv
    <2>11. HeapInv'
      <3>1. Kphys' = Kphys /\ Kept' = (pa .. pa + pages - 1) \cup HeapFrames
        BY <1>1, <2>6, <2>8 DEF Kphys, Dtb0, Kept, BitmapFrames, HeapFrames
      <3>2. PICK kept : kept = Kept' /\ kept \subseteq Reserved(pa, pages) /\ kept \subseteq Int
        BY <1>1, <2>6, <2>9, <3>1, KeptReserved
      <3>3. \A f \in kept : f - base \in 0 .. total - 1 => f - base \in map
        BY <2>7, <3>2 DEF reserve_range
      <3>4. QED BY <1>1, <2>6, <2>8, <2>9, <3>1, <3>2, <3>3 DEF HeapInv
    <2>12. QED BY <2>10, <2>11 DEF FramesInv
  <1>4. QED BY <1>2, <1>3

LEMMA FramesStart == Init => FramesInv
  <1> SUFFICES ASSUME Init PROVE FramesInv
    OBVIOUS
  <1>1. pmm = [base |-> 0, total |-> 0, bitmap |-> {}, hint |-> 0] /\ pmm = NoPmm
    BY DEF Init, NoPmm
  <1>2. fb = {} /\ user = {} /\ step = "reset"
    BY DEF Init
  <1>3. PmmInv
    BY <1>1, <1>2 DEF PmmInv
  <1>4. HeapInv
    BY <1>1, <1>2 DEF HeapInv
  <1>5. QED BY <1>3, <1>4 DEF FramesInv

LEMMA FramesStep == DtbInv /\ FramesInv /\ [Next]_vars => FramesInv'
  <1> SUFFICES ASSUME DtbInv, FramesInv, [Next]_vars PROVE FramesInv'
    OBVIOUS
  <1>1. blob' = blob
    BY BlobSame
  <1>2. CASE init_mmu
    BY <1>1, <1>2, QuietStep DEF init_mmu, Quiet
  <1>3. CASE CopyImage
    BY <1>1, <1>3, QuietStep DEF CopyImage, Fault, Quiet
  <1>4. CASE ZeroBss
    BY <1>1, <1>4, QuietStep DEF ZeroBss, Fault, Quiet
  <1>5. CASE EnterKmain
    BY <1>1, <1>5, QuietStep DEF EnterKmain, Fault, Quiet
  <1>6. CASE Parse \/ ParseFailed \/ MountFailed
    BY <1>1, <1>6, QuietStep DEF Parse, ParseFailed, MountFailed, Fault, Halt, Quiet
  <1>7. CASE mm_init
    BY <1>7, MmInitStep
  <1>8. CASE fb_init
    BY <1>8, FbStep
  <1>9. CASE InitDevices
    BY <1>1, <1>9, QuietStep DEF InitDevices, Fault, Quiet
  <1>10. CASE ExecInit
    BY <1>1, <1>10, QuietStep DEF ExecInit, Fault, Quiet
  <1>11. CASE CreateInit
    <2>1. CASE Halt
      BY <1>1, <2>1, QuietStep DEF Halt, Quiet
    <2>2. CASE mm_page_alloc /\ UNCHANGED <<step, l1, devices, kernel_phys_base, heap_top, fb>>
      BY <1>1, <1>11, <2>2, AllocStep DEF CreateInit
    <2>3. QED BY <1>11, <2>1, <2>2 DEF CreateInit
  <1>12. CASE MapUserPage
    <2>1. mm_page_alloc /\ step = "user" /\ step' = "user" /\ UNCHANGED <<kernel_phys_base, fb>>
      BY <1>12 DEF MapUserPage
    <2>2. QED BY <1>1, <2>1, AllocStep
  <1>13. CASE ForkCopy
    <2>1. /\ mm_page_alloc /\ step = "user" /\ step' \in {"user", "fork_fault"}
          /\ UNCHANGED <<kernel_phys_base, fb>>
      BY <1>13 DEF ForkCopy
    <2>2. QED BY <1>1, <2>1, AllocStep
  <1>14. CASE mm_page_free
    BY <1>14, FreeStep
  <1>15. CASE UNCHANGED vars
    BY <1>1, <1>15, QuietStep DEF vars, bootVars, Quiet
  <1>16. QED BY <1>2, <1>3, <1>4, <1>5, <1>6, <1>7, <1>8, <1>9, <1>10, <1>11, <1>12, <1>13, <1>14,
                <1>15 DEF Next

\* FramesInv is inductive relative to the parser's invariant, which says that
\* the RAM mm_init is given is a pair of numbers.
THEOREM FramesInductive == Spec => []FramesInv
  <1>1. QED BY FramesStart, FramesStep, ParserInductive, PTL DEF Spec

\* For any RAM the blob reports, any layout of the image and any sequence of
\* allocations and frees: the framebuffer and the processes get different frames
\* of RAM, and none that mm_init set aside for its bitmap or the kernel heap.
THEOREM FramesAlwaysDisjoint == Spec => []FramesDisjoint
  <1>1. FramesInv => FramesDisjoint
    <2> SUFFICES ASSUME FramesInv PROVE FramesDisjoint
      OBVIOUS
    <2>1. PICK base \in Nat, total \in Nat : base = pmm.base /\ total = pmm.total
      BY DEF FramesInv, PmmInv
    <2>2. \A f \in fb \cup user : f \in Nat /\ f - base \in 0 .. total - 1
      BY <2>1 DEF FramesInv, PmmInv
    <2>3. fb \cup user \subseteq base .. base + total - 1
      BY <2>2
    <2>4. QED BY <2>1, <2>3 DEF FramesDisjoint, FramesInv, PmmInv, HeapInv, Kept
  <1>2. QED BY <1>1, FramesInductive, PTL

-----------------------------------------------------------------------------
(* The map of the kernel and what its pages hold, in the layout of the     *)
(* linker script and of QEMU's virt machine.                               *)

\* RAM starts low enough for a framebuffer below the kernel window.
RamLow == tree.memory # <<>> => RamBase(tree.memory[1]) + FB_PAGES <= KV

\* The kernel window and the pages from the blob on.
Window ==
    /\ \A j \in 0 .. 3 : l1[KERNEL_SEC + j] = Dtb0 \div SECTION + 2 + j
    /\ \A j \in 0 .. 3 : l1[Dtb0 \div SECTION + j] = Dtb0 \div SECTION + j
    /\ l1[DEVICE_SEC] = DevTable /\ devices = AllDevices

\* The table keeps its form and shows the window once it is filled; flash stays
\* mapped until the image is copied.
TranslationInv ==
    /\ l1 \in [Sections -> Sections \cup {NoMap, DevTable}] /\ devices \subseteq AllDevices
    /\ step # "reset" => Window
    /\ step = "copy" => l1[0] = 0

\* What each stage of the boot relies on.  RAM ends in the address space, and the
\* framebuffer is allocated while only bitmap and heap are marked.
StageInv ==
    /\ step \in {"reset", "copy", "zero", "base", "parse", "fb", "dev", "process",
                 "user", "halt", "fault", "fork_fault"}
    /\ mem = [p \in 0 .. ADDR_PAGES - 1 |-> mem[p]]
    /\ kernel_phys_base \in {0, Kphys}
    /\ early_heap_ptr \in 0 .. EARLY_HEAP_SIZE
    /\ step \in {"fb", "dev"} => heap_top = 1
    /\ step = "process" => heap_top = 2
    /\ step = "user" => heap_top = 3
    /\ pmm.base + pmm.total < ADDR_PAGES
    /\ step = "fb" =>
          /\ pmm.hint = 0 /\ pmm.base + FB_PAGES <= KV
          /\ \A i \in pmm.bitmap : pmm.base + i \in Kept

MapInv == TranslationInv /\ StageInv

\* The physical page of a page of the kernel window.
Phys(v) == v - KV + Kphys

-----------------------------------------------------------------------------
(* Sections.                                                               *)

LEMMA Multiples ==
    ASSUME NEW a \in Nat, NEW b \in Nat, a <= b, NEW s \in Nat
    PROVE  a * s <= b * s /\ a * s \in Nat /\ b * s \in Nat
  <1>1. PICK d \in Nat : b = a + d
    BY b - a \in Nat
  <1>2. b * s = a * s + d * s /\ d * s \in Nat /\ a * s \in Nat
    BY <1>1
  <1>3. QED BY <1>2

\* The section of a page and its place in it.
LEMMA SectionOf ==
    ASSUME NEW s \in Nat \ {0}, NEW v \in Nat
    PROVE  /\ v \div s \in Nat
           /\ (v \div s) * s <= v /\ v < (v \div s) * s + s
           /\ v % s = v - (v \div s) * s
  OBVIOUS

LEMMA SectionRange ==
    ASSUME NEW s \in Nat \ {0}, NEW v \in Nat, NEW q \in Nat, NEW m \in Nat,
           q * s <= v, v < (q + m) * s
    PROVE  v \div s \in q .. q + m - 1
  <1>1. PICK d \in Nat : d = v \div s /\ d * s <= v /\ v < (d + 1) * s
    <2>1. /\ v \div s \in Nat /\ (v \div s) * s <= v /\ v < (v \div s) * s + s
      BY SectionOf
    <2>2. QED BY <2>1
  <1>2. d < q + m
    <2>1. CASE q + m <= d
      BY <1>1, <2>1, Multiples
    <2>2. QED BY <2>1
  <1>3. q <= d
    <2>1. CASE d + 1 <= q
      BY <1>1, <2>1, Multiples
    <2>2. QED BY <2>1
  <1>4. QED BY <1>1, <1>2, <1>3

\* The numbers of the layout: sections of S pages, the N sections of the address
\* space, the kernel's, the devices' and the blob's, and the bitmap's largest size.
Place(S, N, ker, dev, ds, most) ==
    /\ S = SECTION /\ N = ADDR_PAGES \div SECTION /\ ADDR_PAGES = N * S /\ Sections = 0 .. N - 1
    /\ ker = KERNEL_SEC /\ dev = DEVICE_SEC /\ KV = ker * S
    /\ ds = Dtb0 \div SECTION /\ 1 <= ds /\ ds + 6 <= ker /\ ker + 4 <= dev /\ dev < N
    /\ Kphys = (ds + 2) * S /\ Kphys \div SECTION = ds + 2
    /\ most = (ADDR_PAGES + PAGES_PER_BITMAP - 1) \div PAGES_PER_BITMAP
    /\ ds * S <= Dtb0 /\ Dtb0 + blob.pages + EARLY_PAGES + most <= Kphys
    /\ FIRST_STACK \in Nat \ {0} /\ Dtb0 + FIRST_STACK <= Kphys
    /\ Kphys + BSS_END + KHEAP_PAGES + FB_PAGES <= KV

LEMMA Places ==
    ASSUME Layout, blob \in Blobs
    PROVE  \E S \in Nat \ {0}, N \in Nat, ker \in Nat, dev \in Nat, ds \in Nat, most \in Nat :
              Place(S, N, ker, dev, ds, most)
  <1>1. PICK S \in Nat \ {0}, A \in Nat, ppb \in Nat \ {0} :
           S = SECTION /\ A = ADDR_PAGES /\ ppb = PAGES_PER_BITMAP
    BY BootConstants
  <1>2. PICK ker \in Nat, dev \in Nat, early \in Nat, bss \in Nat, hp \in Nat, fp \in Nat :
           /\ ker = KERNEL_SEC /\ dev = DEVICE_SEC /\ early = EARLY_PAGES /\ bss = BSS_END
           /\ hp = KHEAP_PAGES /\ fp = FB_PAGES
    BY BootConstants
  <1>3. PICK d \in Nat, bp \in Nat, fs \in Nat \ {0} :
           d = blob.dtb /\ bp = blob.pages /\ fs = FIRST_STACK /\ fs <= S
    BY <1>1, DtbConstants, BootConstants DEF Layout
  <1>4. PICK N \in Nat : N = A \div S /\ A = N * S
    <2>1. A % S = 0
      BY <1>1 DEF Layout
    <2>2. PICK e \in Nat : e = A \div S /\ A % S = A - e * S
      BY SectionOf
    <2>3. QED BY <2>1, <2>2
  <1>5. PICK ds \in Nat : ds = d \div S /\ ds * S <= d /\ d < ds * S + S /\ d % S = d - ds * S
    BY SectionOf
  <1>6. PICK most \in Nat : most = (A + ppb - 1) \div ppb
    <2>1. A + ppb - 1 \in Nat
      OBVIOUS
    <2>2. QED BY <2>1, SectionOf
  <1>7. /\ ker + 3 < dev /\ dev < N /\ d >= S /\ ds + 6 <= ker
        /\ (d % S) + bp + early + most <= 2 * S
        /\ (ds + 2) * S + bss + hp + fp <= ker * S
    BY <1>1, <1>2, <1>3, <1>4, <1>5, <1>6 DEF Layout, KV
  <1>8. ds >= 1
    <2>1. CASE ds = 0
      BY <1>5, <1>7, <2>1
    <2>2. QED BY <2>1
  <1>9. Kphys = (ds + 2) * S
    BY <1>1, <1>3, <1>5 DEF Kphys, Dtb0, KPHYS_OFFSET
  <1>10. ((ds + 2) * S) \div S = ds + 2
    <2>1. (ds + 2) * S \in Nat /\ (ds + 2) * S < (ds + 2 + 1) * S
      OBVIOUS
    <2>2. ((ds + 2) * S) \div S \in ds + 2 .. ds + 2 + 1 - 1
      BY <2>1, SectionRange
    <2>3. QED BY <2>2
  <1>11. d + bp + early + most <= (ds + 2) * S /\ d + fs <= (ds + 2) * S
    BY <1>3, <1>5, <1>7
  <1>12. Place(S, N, ker, dev, ds, most)
    BY <1>1, <1>2, <1>3, <1>4, <1>5, <1>6, <1>7, <1>8, <1>9, <1>10, <1>11
       DEF Place, Sections, KV, Dtb0
  <1>13. QED BY <1>12

-----------------------------------------------------------------------------
(* Translation.                                                            *)

\* The kernel window shows the image, the pages from the blob's section on are
\* at their physical addresses.
LEMMA Translate ==
    ASSUME Layout, blob \in Blobs, l1 \in [Sections -> Sections \cup {NoMap, DevTable}], Window
    PROVE  /\ \A v \in KV .. KV + 4 * SECTION - 1 : Mapped(v) /\ Pa(v) = Phys(v)
           /\ \A v \in Dtb0 .. Kphys + 2 * SECTION - 1 : Mapped(v) /\ Pa(v) = v
  <1>1. PICK S \in Nat \ {0}, N \in Nat, ker \in Nat, dev \in Nat, ds \in Nat, most \in Nat :
              Place(S, N, ker, dev, ds, most)
    BY Places
  <1>2. Dtb0 \in Nat /\ Kphys \in Nat
    BY KphysNat
  <1>3. PICK f : f = l1 /\ f \in [0 .. N - 1 -> Sections \cup {NoMap, DevTable}]
    BY <1>1 DEF Place
  <1> DEFINE Shows(q, t) == \A j \in 0 .. 3 : f[q + j] = t + j
             Goes(v, p) == v < N * S /\ f[v \div S] >= 0 /\ f[v \div S] * S + (v % S) = p
  <1>4. ASSUME NEW v \in Nat, NEW q \in Nat, NEW t \in Nat, q + 4 <= N, q * S <= v, v < (q + 4) * S,
               Shows(q, t)
        PROVE  Goes(v, v - q * S + t * S)
    <2>1. v \div S \in q .. q + 4 - 1
      BY <1>4, SectionRange
    <2>2. PICK j \in 0 .. 3 : v \div S = q + j /\ v % S = v - (q + j) * S
      <3>1. PICK e \in Nat : e = v \div S /\ v % S = v - e * S
        BY SectionOf
      <3>2. e - q \in 0 .. 3 /\ e = q + (e - q)
        BY <2>1, <3>1
      <3>3. QED BY <3>1, <3>2
    <2>3. f[v \div S] = t + j
      BY <1>4, <2>2
    <2>4. (q + 4) * S <= N * S
      BY <1>4, Multiples
    <2>5. (t + j) * S + (v - (q + j) * S) = v - q * S + t * S
      BY <2>2
    <2>6. QED BY <1>4, <2>2, <2>3, <2>4, <2>5
  <1>5. Shows(ker, ds + 2) /\ Shows(ds, ds)
    BY <1>1, <1>3 DEF Place, Window
  <1> HIDE DEF Shows
  <1>6. ker + 4 <= N /\ ds + 4 <= N
    <2>1. ds + 6 <= ker /\ ker + 4 <= dev /\ dev < N
      BY <1>1 DEF Place
    <2>2. QED BY <2>1
  <1>7. ASSUME NEW v \in KV .. KV + 4 * SECTION - 1
        PROVE  Mapped(v) /\ Pa(v) = Phys(v)
    <2>1. KV = ker * S /\ SECTION = S /\ Kphys = (ds + 2) * S /\ ADDR_PAGES = N * S
      BY <1>1 DEF Place
    <2>2. v \in Nat /\ ker * S <= v /\ v < (ker + 4) * S
      BY <2>1
    <2>3. Goes(v, v - ker * S + (ds + 2) * S)
      <3>1. ds + 2 \in Nat
        OBVIOUS
      <3>2. QED BY <1>4, <1>5, <1>6, <2>2, <3>1
    <2>4. QED BY <1>3, <2>1, <2>2, <2>3 DEF Mapped, Pa, Phys
  <1>8. ASSUME NEW v \in Dtb0 .. Kphys + 2 * SECTION - 1
        PROVE  Mapped(v) /\ Pa(v) = v
    <2>1. ds * S <= Dtb0 /\ SECTION = S /\ Kphys = (ds + 2) * S /\ ADDR_PAGES = N * S
      BY <1>1 DEF Place
    <2>2. v \in Nat /\ ds * S <= v /\ v < (ds + 4) * S
      BY <1>2, <2>1
    <2>3. Goes(v, v - ds * S + ds * S)
      BY <1>4, <1>5, <1>6, <2>2
    <2>4. ds * S \in Nat
      OBVIOUS
    <2>5. QED BY <1>3, <2>1, <2>2, <2>3, <2>4 DEF Mapped, Pa
  <1>9. QED BY <1>7, <1>8

-----------------------------------------------------------------------------
(* The map, stage by stage.                                                *)

\* The layout in numbers of pages.
Ground(S, A, D, K, bp, most) ==
    /\ S = SECTION /\ A = ADDR_PAGES /\ D = Dtb0 /\ K = Kphys /\ bp = blob.pages
    /\ most = (ADDR_PAGES + PAGES_PER_BITMAP - 1) \div PAGES_PER_BITMAP
    /\ D > 0 /\ D + bp + EARLY_PAGES + most <= K
    /\ FIRST_STACK \in Nat \ {0} /\ D + FIRST_STACK <= K
    /\ K + BSS_END + KHEAP_PAGES + FB_PAGES <= KV /\ KV + 4 * S <= A
    /\ KV \in Nat /\ TEXT_END \in Nat /\ TT_END \in Nat /\ BSS_END \in Nat
    /\ EARLY_PAGES \in Nat /\ KHEAP_PAGES \in Nat /\ FB_PAGES \in Nat
    /\ 0 < TEXT_END /\ TEXT_END < TT_END /\ TT_END < BSS_END
    /\ BSS_END + 3 <= S - 2 /\ S - 2 < BSS_END + KHEAP_PAGES

LEMMA Grounds ==
    ASSUME Layout, blob \in Blobs
    PROVE  \E S \in Nat \ {0}, A \in Nat, D \in Nat, K \in Nat, bp \in Nat, most \in Nat :
              Ground(S, A, D, K, bp, most)
  <1>1. PICK S \in Nat \ {0}, N \in Nat, ker \in Nat, dev \in Nat, ds \in Nat, most \in Nat :
              Place(S, N, ker, dev, ds, most)
    BY Places
  <1>2. Dtb0 \in Nat /\ Kphys \in Nat
    BY KphysNat
  <1>3. blob.pages \in Nat /\ ADDR_PAGES \in Nat
    BY BootConstants
  <1>4. KV = ker * S /\ ADDR_PAGES = N * S /\ KV \in Nat
    BY <1>1 DEF Place
  <1>5. ker + 4 <= N /\ 1 <= ds
    <2>1. ker + 4 <= dev /\ dev < N /\ 1 <= ds
      BY <1>1 DEF Place
    <2>2. QED BY <2>1
  <1>6. KV + 4 * S <= ADDR_PAGES
    <2>1. (ker + 4) * S <= N * S
      BY <1>5, Multiples
    <2>2. QED BY <1>4, <2>1
  <1>7. Dtb0 > 0
    <2>1. 1 * S <= ds * S
      BY <1>5, Multiples
    <2>2. ds * S <= Dtb0
      BY <1>1 DEF Place
    <2>3. ds * S \in Nat
      OBVIOUS
    <2>4. QED BY <1>2, <2>1, <2>2, <2>3
  <1>8. /\ S = SECTION /\ most = (ADDR_PAGES + PAGES_PER_BITMAP - 1) \div PAGES_PER_BITMAP
        /\ Dtb0 + blob.pages + EARLY_PAGES + most <= Kphys
        /\ Kphys + BSS_END + KHEAP_PAGES + FB_PAGES <= KV
        /\ FIRST_STACK \in Nat \ {0} /\ Dtb0 + FIRST_STACK <= Kphys
    BY <1>1 DEF Place
  <1>9. /\ TEXT_END \in Nat /\ TT_END \in Nat /\ BSS_END \in Nat
        /\ EARLY_PAGES \in Nat /\ KHEAP_PAGES \in Nat /\ FB_PAGES \in Nat
        /\ 0 < TEXT_END /\ TEXT_END < TT_END /\ TT_END < BSS_END
    BY BootConstants
  <1>10. BSS_END + 3 <= SECTION - 2 /\ SECTION - 2 < BSS_END + KHEAP_PAGES
    BY DEF Layout
  <1>11. Ground(S, ADDR_PAGES, Dtb0, Kphys, blob.pages, most)
    BY <1>4, <1>6, <1>7, <1>8, <1>9, <1>10 DEF Ground
  <1>12. QED BY <1>2, <1>3, <1>11

\* The pages the kernel uses, seen through the map.
Seen ==
    /\ \A v \in KV .. KV + BSS_END + 2 : Mapped(v) /\ Pa(v) = Phys(v)
    /\ \A v \in Stack : Mapped(v) /\ Pa(v) = Phys(v)
    /\ \A v \in Dtb0 .. Kphys + 2 * SECTION - 1 : Mapped(v) /\ Pa(v) = v

LEMMA AllSeen ==
    ASSUME Layout, blob \in Blobs, TranslationInv, step # "reset"
    PROVE  Seen
  <1>1. PICK S \in Nat \ {0}, A \in Nat, D \in Nat, K \in Nat, bp \in Nat, most \in Nat :
              Ground(S, A, D, K, bp, most)
    BY Grounds
  <1>2. /\ \A v \in KV .. KV + 4 * SECTION - 1 : Mapped(v) /\ Pa(v) = Phys(v)
        /\ \A v \in Dtb0 .. Kphys + 2 * SECTION - 1 : Mapped(v) /\ Pa(v) = v
    BY Translate DEF TranslationInv
  <1>3. KV .. KV + BSS_END + 2 \subseteq KV .. KV + 4 * SECTION - 1
    BY <1>1 DEF Ground
  <1>4. Stack \subseteq KV .. KV + 4 * SECTION - 1
    BY <1>1 DEF Ground, Stack
  <1>5. QED BY <1>2, <1>3, <1>4 DEF Seen

\* A stage that leaves the table alone.
LEMMA SameTable ==
    ASSUME TranslationInv, blob' = blob, UNCHANGED <<l1, devices>>, step # "reset", step' # "copy"
    PROVE  TranslationInv'
  BY DEF TranslationInv, Window, Dtb0

\* init_mmu fills the table.
LEMMA TableFilled ==
    ASSUME Layout, blob \in Blobs, blob' = blob, map_sections
    PROVE  /\ l1' \in [Sections -> Sections \cup {NoMap, DevTable}]
           /\ Window' /\ l1'[0] = 0
  <1>1. PICK S \in Nat \ {0}, N \in Nat, ker \in Nat, dev \in Nat, ds \in Nat, most \in Nat :
              Place(S, N, ker, dev, ds, most)
    BY Places
  <1>2. 1 <= ds /\ ds + 6 <= ker /\ ker + 4 <= dev /\ dev < N
    BY <1>1 DEF Place
  <1>3. /\ Sections = 0 .. N - 1 /\ ker = KERNEL_SEC /\ dev = DEVICE_SEC
        /\ ds = Dtb0 \div SECTION /\ Kphys \div SECTION = ds + 2
    BY <1>1 DEF Place
  <1> DEFINE F(s) == CASE s = 0 -> 0
                       [] s = dev -> DevTable
                       [] s \in ker .. ker + 3 -> ds + 2 + (s - ker)
                       [] s \in ds .. ds + 3 -> s
                       [] OTHER -> NoMap
  <1>4. l1' = [s \in 0 .. N - 1 |-> F(s)] /\ devices' = AllDevices
    BY <1>3 DEF map_sections
  <1>5. F(0) = 0 /\ F(dev) = DevTable
    BY <1>2
  <1>6. ASSUME NEW j \in 0 .. 3
        PROVE  /\ ker + j \in 0 .. N - 1 /\ F(ker + j) = ds + 2 + j
               /\ ds + j \in 0 .. N - 1 /\ F(ds + j) = ds + j
    <2>1. /\ ker + j # 0 /\ ker + j # dev /\ ker + j \in ker .. ker + 3 /\ ker + j \in 0 .. N - 1
          /\ ds + j # 0 /\ ds + j # dev /\ ds + j \notin ker .. ker + 3 /\ ds + j \in ds .. ds + 3
          /\ ds + j \in 0 .. N - 1 /\ ker + j \notin ds .. ds + 3
          /\ ds + 2 + ((ker + j) - ker) = ds + 2 + j
      BY <1>2
    <2>2. QED BY <2>1
  <1>7. \A s \in 0 .. N - 1 : F(s) \in 0 .. N - 1 \cup {NoMap, DevTable}
    <2> SUFFICES ASSUME NEW s \in 0 .. N - 1 PROVE F(s) \in 0 .. N - 1 \cup {NoMap, DevTable}
      OBVIOUS
    <2>1. CASE s = 0 \/ s = dev
      BY <1>2, <1>5, <2>1
    <2>2. CASE s \in ker .. ker + 3
      <3>1. PICK j \in 0 .. 3 : s = ker + j
        BY <2>2, s - ker \in 0 .. 3
      <3>2. QED BY <1>2, <1>6, <3>1
    <2>3. CASE s # 0 /\ s # dev /\ s \notin ker .. ker + 3
      BY <2>3
    <2>4. QED BY <2>1, <2>2, <2>3
  <1> HIDE DEF F
  <1>8. \A j \in 0 .. 3 : l1'[ker + j] = ds + 2 + j /\ l1'[ds + j] = ds + j
    BY <1>4, <1>6
  <1>9. l1'[0] = 0 /\ l1'[dev] = DevTable
    BY <1>2, <1>4, <1>5
  <1>10. QED BY <1>3, <1>4, <1>7, <1>8, <1>9 DEF Window, Dtb0

-----------------------------------------------------------------------------
(* What the parser reads of a blob whose numbers are in bounds.            *)

\* A property begins in the block and is at most a section long; the cells of a
\* node make no entry of 2^32 bytes.
Near(p) == p.at <= blob.size_struct /\ p.len <= SECTION * PAGE_SIZE
NodeNear(x) ==
    /\ x.ac < R \div 8 /\ x.sc < R \div 8
    /\ \A k \in 1 .. Len(x.props) : Near(x.props[k])

ReadInv ==
    /\ phase \notin {"call", "done"} => HeaderError = "none"
    /\ Sized => \A n \in 1 .. Len(nodes) : NodeNear(nodes[n])

LEMMA SameBlob ==
    ASSUME blob' = blob
    PROVE  /\ Sized' <=> Sized
           /\ HeaderError' = HeaderError
           /\ \A x : NodeNear(x)' <=> NodeNear(x)
  <1>1. \A a : At(a)' = At(a)
    BY DEF At
  <1>2. \A p : be32_read(p)' = be32_read(p) /\ InStrings(p)' = InStrings(p)
    BY <1>1 DEF be32_read, Cell, InBlock, InStrings
  <1>3. Sized' <=> Sized
    BY <1>1, <1>2 DEF Sized
  <1>4. \A x : NodeNear(x)' <=> NodeNear(x)
    BY DEF NodeNear, Near
  <1>5. QED BY <1>3, <1>4 DEF HeaderError

\* The sizes in cells: d the blob's start, size and off the structure block, span
\* what a blob and its last property can reach to.
Cellwise(pw, x, size, off, span) ==
    /\ pw = PAGE_WORDS /\ x = SECTION * pw /\ SECTION * PAGE_SIZE = 4 * x /\ 1 <= pw
    /\ size = blob.size_struct /\ off = blob.off_struct
    /\ span = (blob.pages + SECTION) * pw /\ span = blob.pages * pw + x /\ pw <= span /\ span < W
    /\ blob.totalsize <= blob.pages * pw /\ 16 <= R \div 8

LEMMA CellNumbers ==
    ASSUME Layout, blob \in Blobs
    PROVE  \E pw \in Nat, x \in Nat, size \in Nat, off \in Nat, span \in Nat : Cellwise(pw, x, size, off, span)
  <1>1. PICK S \in Nat \ {0}, A \in Nat, D \in Nat, K \in Nat, bp \in Nat, most \in Nat :
              Ground(S, A, D, K, bp, most)
    BY Grounds
  <1>2. PICK pw \in Nat \ {0} : pw = PAGE_WORDS /\ W = A * pw
    BY <1>1, DtbConstants, BootConstants DEF Ground
  <1>3. PICK x \in Nat : x = S * pw
    BY <1>2
  <1>4. PICK size \in Nat, off \in Nat : size = blob.size_struct /\ off = blob.off_struct
    BY DtbConstants
  <1>5. PICK span \in Nat : span = (bp + S) * pw /\ span = bp * pw + x
    BY <1>3
  <1>6. S * (4 * pw) = 4 * x
    BY <1>3
  <1>7. bp + S < A /\ 32 <= A
    <2>1. PICK b \in Nat, e \in Nat, kv \in Nat, h \in Nat, f \in Nat, t \in Nat, u \in Nat :
             /\ b = BSS_END /\ e = EARLY_PAGES /\ kv = KV /\ h = KHEAP_PAGES /\ f = FB_PAGES
             /\ t = TEXT_END /\ u = TT_END
      BY <1>1 DEF Ground
    <2>2. /\ 0 < D /\ D + bp + e + most <= K /\ K + b + h + f <= kv /\ kv + 4 * S <= A
          /\ 0 < t /\ t < u /\ u < b /\ b + 3 <= S - 2
      BY <1>1, <2>1 DEF Ground
    <2>3. QED BY <2>2
  <1>8. span < W
    <2>1. (bp + S + 1) * pw <= A * pw
      BY <1>7, Multiples
    <2>2. (bp + S + 1) * pw = span + pw
      BY <1>5
    <2>3. A * pw \in Nat
      OBVIOUS
    <2>4. QED BY <1>2, <2>1, <2>2, <2>3
  <1>9. pw <= span
    <2>1. 1 * pw <= (bp + S) * pw
      BY Multiples
    <2>2. QED BY <1>5, <2>1
  <1>10. 16 <= R \div 8
    <2>1. 1 * A <= pw * A
      BY Multiples
    <2>2. W \in Nat /\ 32 <= W
      BY <1>2, <1>7, <2>1
    <2>3. R = 4 * W
      BY DEF R
    <2>4. QED BY <2>2, <2>3
  <1>11. blob.totalsize <= bp * pw
    BY <1>1, <1>2, BootConstants DEF Ground
  <1>12. S = SECTION /\ bp = blob.pages /\ PAGE_SIZE = 4 * pw
    BY <1>1, <1>2 DEF Ground, PAGE_SIZE
  <1>13. Cellwise(pw, x, size, off, span)
    BY <1>2, <1>3, <1>4, <1>5, <1>6, <1>8, <1>9, <1>10, <1>11, <1>12 DEF Cellwise
  <1>14. QED BY <1>13

\* A cell that close to the blob lies in a page the kernel maps.
LEMMA InReach ==
    ASSUME Layout, blob \in Blobs, Seen, NEW a \in Nat, a < (blob.pages + SECTION) * PAGE_WORDS
    PROVE  Mapped(PageOf(a))
  <1>1. PICK S \in Nat \ {0}, A \in Nat, D \in Nat, K \in Nat, bp \in Nat, most \in Nat :
              Ground(S, A, D, K, bp, most)
    BY Grounds
  <1>2. PICK pw \in Nat \ {0} : pw = PAGE_WORDS /\ W = A * pw
    BY <1>1, DtbConstants, BootConstants DEF Ground
  <1>3. S = SECTION /\ D = Dtb0 /\ K = Kphys /\ bp = blob.pages /\ D = blob.dtb
    BY <1>1 DEF Ground, Dtb0
  <1>4. D + bp + S <= K + S /\ K + S < A
    <2>1. PICK b \in Nat, e \in Nat, kv \in Nat, h \in Nat, f \in Nat :
             b = BSS_END /\ e = EARLY_PAGES /\ kv = KV /\ h = KHEAP_PAGES /\ f = FB_PAGES
      BY <1>1 DEF Ground
    <2>2. D + bp + e + most <= K /\ K + b + h + f <= kv /\ kv + 4 * S <= A
      BY <1>1, <2>1 DEF Ground
    <2>3. QED BY <2>2
  <1>5. PICK v \in Nat : v = D * pw + a /\ D * pw <= v /\ v < (D + (bp + S)) * pw
    <2>1. D * pw \in Nat /\ (D + (bp + S)) * pw = D * pw + (bp + S) * pw /\ (bp + S) * pw \in Nat
      OBVIOUS
    <2>2. QED BY <1>2, <1>3, <2>1
  <1>6. v < W
    <2>1. (D + (bp + S)) * pw <= A * pw
      BY <1>4, Multiples
    <2>2. (D + (bp + S)) * pw \in Nat /\ A * pw \in Nat
      OBVIOUS
    <2>3. QED BY <1>2, <1>5, <2>1, <2>2
  <1>7. PageOf(a) = v \div pw
    <2>1. v % W = v
      BY <1>6, WordSize
    <2>2. QED BY <1>2, <1>3, <1>5, <2>1 DEF PageOf
  <1>8. v \div pw \in D .. D + (bp + S) - 1
    BY <1>5, SectionRange
  <1>9. v \div pw \in Dtb0 .. Kphys + 2 * SECTION - 1
    BY <1>3, <1>4, <1>8
  <1>10. QED BY <1>7, <1>9 DEF Seen

\* What the header of a blob that is parsed says, in cells.
Within(pw, x, size, off, names, noff, span) ==
    /\ Cellwise(pw, x, size, off, span)
    /\ names = blob.size_strings /\ noff = blob.off_strings
    /\ off + size + x <= span /\ noff + names <= span

LEMMA HeaderNumbers ==
    ASSUME Layout, blob \in Blobs, Sized, HeaderError = "none"
    PROVE  \E pw \in Nat, x \in Nat, size \in Nat, off \in Nat, names \in Nat, noff \in Nat, span \in Nat :
              Within(pw, x, size, off, names, noff, span)
  <1>1. PICK pw \in Nat, x \in Nat, size \in Nat, off \in Nat, span \in Nat : Cellwise(pw, x, size, off, span)
    BY CellNumbers
  <1>2. PICK names \in Nat, noff \in Nat, total \in Nat :
           names = blob.size_strings /\ noff = blob.off_strings /\ total = blob.totalsize
    BY DtbConstants
  <1>3. /\ size = blob.size_struct /\ off = blob.off_struct
        /\ total <= blob.pages * pw /\ span = blob.pages * pw + x
    BY <1>1, <1>2 DEF Cellwise
  <1>4. off + size < W /\ noff + names < W
    BY <1>2, <1>3 DEF Sized
  <1>5. ~ ((off + size) % W > total) /\ ~ ((noff + names) % W > total)
    BY <1>2, <1>3 DEF HeaderError
  <1>6. (off + size) % W = off + size /\ (noff + names) % W = noff + names
    BY <1>4, WordSize
  <1>7. off + size <= total /\ noff + names <= total
    BY <1>5, <1>6
  <1>8. PICK held \in Nat : held = blob.pages * pw
    <2>1. PICK bp \in Nat : bp = blob.pages
      BY BootConstants
    <2>2. bp * pw \in Nat
      OBVIOUS
    <2>3. QED BY <2>1, <2>2
  <1>9. off + size + x <= span /\ noff + names <= span
    BY <1>3, <1>7, <1>8
  <1>10. QED BY <1>1, <1>2, <1>9 DEF Within

\* Places in the block, in the data of a property that begins there, and names.
LEMMA BlockReach ==
    ASSUME Layout, blob \in Blobs, Seen, Sized, HeaderError = "none"
    PROVE  /\ \A p \in Nat : p < blob.size_struct + SECTION * PAGE_WORDS => Mapped(PageOf(InBlock(p)))
           /\ \A o \in Nat : o < 4 * blob.size_strings => Mapped(PageOf(InStrings(o)))
  <1>1. PICK pw \in Nat, x \in Nat, size \in Nat, off \in Nat, names \in Nat, noff \in Nat, span \in Nat :
              Within(pw, x, size, off, names, noff, span)
    BY HeaderNumbers
  <1>2. /\ pw = PAGE_WORDS /\ x = SECTION * pw /\ span = (blob.pages + SECTION) * pw /\ span < W
        /\ size = blob.size_struct /\ off = blob.off_struct
        /\ names = blob.size_strings /\ noff = blob.off_strings
        /\ off + size + x <= span /\ noff + names <= span
    BY <1>1 DEF Within, Cellwise
  <1>3. ASSUME NEW p \in Nat, p < blob.size_struct + SECTION * PAGE_WORDS
        PROVE  Mapped(PageOf(InBlock(p)))
    <2>1. p < size + x
      BY <1>2, <1>3
    <2>2. PICK a \in Nat : a = off + p /\ a < span
      BY <1>2, <2>1
    <2>3. a % W = a
      BY <1>2, <2>2, WordSize
    <2>4. InBlock(p) = a
      BY <1>2, <2>2, <2>3 DEF InBlock
    <2>5. QED BY <1>2, <2>2, <2>4, InReach
  <1>4. ASSUME NEW o \in Nat, o < 4 * blob.size_strings
        PROVE  Mapped(PageOf(InStrings(o)))
    <2>1. PICK k \in Nat : k = o \div 4 /\ k < names
      BY <1>2, <1>4
    <2>2. PICK a \in Nat : a = noff + k /\ a < span /\ a < W
      BY <1>2, <2>1, WordSize
    <2>3. a % W = a
      BY <2>2, WordSize
    <2>4. InStrings(o) = a
      BY <1>2, <2>1, <2>2, <2>3 DEF InStrings
    <2>5. QED BY <1>2, <2>2, <2>4, InReach
  <1>5. QED BY <1>3, <1>4

\* A token, and the length and the name of a property.
LEMMA TokenReach ==
    ASSUME Layout, blob \in Blobs, Seen, Sized, HeaderError = "none", NEW pos \in Nat
    PROVE  \A a \in Token(pos) \cup PropHead(pos) : Mapped(PageOf(a))
  <1>1. PICK pw \in Nat, x \in Nat, size \in Nat, off \in Nat, names \in Nat, noff \in Nat, span \in Nat :
              Within(pw, x, size, off, names, noff, span)
    BY HeaderNumbers
  <1>2. size = blob.size_struct /\ SECTION * PAGE_WORDS = x
    BY <1>1 DEF Within, Cellwise
  <1>3. ASSUME NEW p \in Nat, p < size PROVE Mapped(PageOf(InBlock(p)))
    <2>1. p < size + x
      BY <1>3
    <2>2. QED BY <1>2, <2>1, BlockReach
  <1>4. ASSUME NEW a \in Token(pos) PROVE Mapped(PageOf(a))
    <2>1. a = InBlock(pos) /\ in_struct(pos, 1)
      BY <1>4 DEF Token
    <2>2. pos < size
      BY <1>2, <2>1 DEF in_struct
    <2>3. QED BY <1>3, <2>1, <2>2
  <1>5. ASSUME NEW a \in PropHead(pos) PROVE Mapped(PageOf(a))
    <2>1. (a = InBlock(pos + 1) \/ a = InBlock(pos + 2)) /\ in_struct(pos + 1, 2)
      BY <1>5 DEF PropHead
    <2>2. pos + 1 \in Nat /\ pos + 2 \in Nat /\ pos + 1 < size /\ pos + 2 < size
      BY <1>2, <2>1 DEF in_struct
    <2>3. QED BY <1>3, <2>1, <2>2
  <1>6. QED BY <1>4, <1>5

\* The property at the cursor lies in the block, and is not too long.
LEMMA HeadFits ==
    ASSUME blob \in Blobs, Sized, cur \in Nat, be32_read(cur) = DTB_PROP, ~ BadProp
    PROVE  /\ cur + 3 <= blob.size_struct /\ be32_read(cur + 1) <= SECTION * PAGE_SIZE
           /\ be32_read(cur + 2) < 4 * blob.size_strings
           /\ At(InStrings(be32_read(cur + 2))).s \in {"#address-cells", "#size-cells"} =>
                 be32_read(cur + 3) < R \div 8
  <1>1. PICK size \in Nat : size = blob.size_struct
    BY DtbConstants
  <1>2. PICK names \in Nat : names = blob.size_strings
    BY DtbConstants
  <1>3. cur + 3 <= size
    BY <1>1 DEF BadProp, in_struct
  <1>4. cur \in 0 .. size - 3
    BY <1>3
  <1>5. PICK o \in Nat : o = be32_read(cur + 2)
    <2>1. cur + 2 \in Nat
      OBVIOUS
    <2>2. QED BY <2>1, BlockType
  <1>6. o < 4 * names
    BY <1>2, <1>5 DEF BadProp
  <1>7. QED BY <1>1, <1>2, <1>3, <1>4, <1>5, <1>6 DEF Sized

\* The name and the data of the property at the cursor.
LEMMA DataReach ==
    ASSUME Layout, blob \in Blobs, Seen, Sized, HeaderError = "none", cur \in Nat
    PROVE  \A a \in PropData : Mapped(PageOf(a))
  <1> SUFFICES ASSUME NEW a \in PropData PROVE Mapped(PageOf(a))
    OBVIOUS
  <1>1. PICK pw \in Nat, x \in Nat, size \in Nat, off \in Nat, names \in Nat, noff \in Nat, span \in Nat :
              Within(pw, x, size, off, names, noff, span)
    BY HeaderNumbers
  <1>2. size = blob.size_struct /\ SECTION * PAGE_WORDS = x /\ SECTION * PAGE_SIZE = 4 * x
    BY <1>1 DEF Within, Cellwise
  <1>3. be32_read(cur) = DTB_PROP /\ ~ BadProp
    BY DEF PropData
  <1>4. PICK plen \in Nat, o \in Nat : plen = be32_read(cur + 1) /\ o = be32_read(cur + 2)
    <2>1. cur + 1 \in Nat /\ cur + 2 \in Nat
      OBVIOUS
    <2>2. QED BY <2>1, BlockType
  <1>5. cur + 3 <= size /\ plen <= 4 * x /\ o < 4 * blob.size_strings
    BY <1>2, <1>3, <1>4, HeadFits
  <1>6. a = InStrings(o) \/ \E k \in Guessed(cur + 3, plen) : a = InBlock(cur + 3 + k)
    BY <1>4 DEF PropData
  <1>7. CASE a = InStrings(o)
    BY <1>5, <1>7, BlockReach
  <1>8. CASE \E k \in Guessed(cur + 3, plen) : a = InBlock(cur + 3 + k)
    <2>1. PICK k : k \in Guessed(cur + 3, plen) /\ a = InBlock(cur + 3 + k)
      BY <1>8
    <2>2. k \in 0 .. Padded(plen) - 1
      BY <2>1 DEF Guessed
    <2>3. Padded(plen) \in Nat /\ Padded(plen) <= x
      BY <1>5 DEF Padded
    <2>4. k \in Nat /\ k < x
      BY <2>2, <2>3
    <2>5. cur + 3 + k \in Nat /\ cur + 3 + k < size + x
      BY <1>5, <2>4
    <2>6. QED BY <1>2, <2>1, <2>5, BlockReach
  <1>9. QED BY <1>6, <1>7, <1>8

\* A property of a node that was read in bounds.
LEMMA PropNear ==
    ASSUME nodes \in Seq(NodeT), NEW n \in 1 .. Len(nodes), NEW name, Has(n, name), NodeNear(nodes[n])
    PROVE  Prop(n, name) \in PropT /\ Near(Prop(n, name))
  <1>1. Prop(n, name) \in PropT /\ \E i \in 1 .. Len(nodes[n].props) : Prop(n, name) = nodes[n].props[i]
    BY PropIs
  <1>2. QED BY <1>1 DEF NodeNear

\* The entries of the memory nodes.
LEMMA RangesReach ==
    ASSUME Layout, blob \in Blobs, Seen, Sized, HeaderError = "none", ParserInv, nodes # <<>>,
           \A n \in 1 .. Len(nodes) : NodeNear(nodes[n])
    PROVE  \A v \in Ranges : Mapped(PageOf(v))
  <1> SUFFICES ASSUME NEW v \in Ranges PROVE Mapped(PageOf(v))
    OBVIOUS
  <1>1. PICK pw \in Nat, x \in Nat, size \in Nat, off \in Nat, names \in Nat, noff \in Nat, span \in Nat :
              Within(pw, x, size, off, names, noff, span)
    BY HeaderNumbers
  <1>2. size = blob.size_struct /\ SECTION * PAGE_WORDS = x /\ SECTION * PAGE_SIZE = 4 * x
    BY <1>1 DEF Within, Cellwise
  <1>3. nodes \in Seq(NodeT) /\ 1 \in 1 .. Len(nodes)
    BY EmptySeq, LenProperties DEF ParserInv
  <1>4. nodes[1] \in NodeT
    BY <1>3
  <1>5. PICK a \in Nat, b \in Nat : a = nodes[1].ac /\ b = nodes[1].sc /\ a < R \div 8 /\ b < R \div 8
    BY <1>3, <1>4 DEF NodeT, NodeNear
  <1>6. PICK w \in Nat : w = a + b
    OBVIOUS
  <1>7. entry_bytes(a, b) = w * 4 /\ entry_bytes(a, b) \div 4 = w
    <2>1. (a + b) * 4 < R
      BY <1>5, WordSize
    <2>2. ((a + b) * 4) % R = (a + b) * 4
      BY <2>1, WordSize
    <2>3. QED BY <1>6, <2>2 DEF entry_bytes
  <1>8. PICK i, c : /\ i \in DOMAIN MemoryEntries(1) /\ c \in 0 .. a + b - 1
                    /\ v = InBlock(MemoryEntries(1)[i] + c)
    BY <1>5 DEF Ranges
  <1>9. MemoryEntries(1)[i] \in EntryPlaces
    <2>1. PICK places \in Seq(EntryPlaces) : places = MemoryEntries(1)
      BY EntriesFound
    <2>2. i \in 1 .. Len(places)
      BY <1>8, <2>1, LenProperties
    <2>3. QED BY <2>1, <2>2
  <1>10. PICK place \in Nat : place = MemoryEntries(1)[i] /\ IsEntry(place)
    BY <1>9 DEF EntryPlaces
  <1>11. PICK n \in 1 .. Len(nodes), j \in Nat \ {0} :
            /\ Has(n, "reg") /\ place = Prop(n, "reg").at + (j - 1) * w
            /\ j * (w * 4) <= Prop(n, "reg").len
    BY <1>5, <1>7, <1>10 DEF IsEntry, EntryAt
  <1>12. PICK at \in Nat, len \in Nat :
            at = Prop(n, "reg").at /\ len = Prop(n, "reg").len /\ at <= size /\ len <= 4 * x
    BY <1>2, <1>3, <1>11, PropNear DEF PropT, Near
  <1>13. PICK d \in Nat : d = (j - 1) * w /\ j * w = d + w /\ j * (w * 4) = 4 * (d + w)
    <2>1. PICK e \in Nat : j = e + 1
      BY j - 1 \in Nat
    <2>2. e * w \in Nat /\ (e + 1) * w = e * w + w /\ (e + 1) * (w * 4) = 4 * ((e + 1) * w)
      OBVIOUS
    <2>3. QED BY <2>1, <2>2
  <1>14. place = at + d /\ 4 * (d + w) <= 4 * x
    BY <1>11, <1>12, <1>13
  <1>15. place + c \in Nat /\ place + c < size + x
    BY <1>6, <1>8, <1>12, <1>14
  <1>16. QED BY <1>2, <1>8, <1>10, <1>15, BlockReach

\* The child a lookup finds is a node of the pool.
LEMMA ChildFound ==
    ASSUME ParserInv, NEW n \in 1 .. Len(nodes), NEW segment, find_in_children(n, segment) # NoNode
    PROVE  find_in_children(n, segment) \in 1 .. Len(nodes)
  <1> DEFINE kids == nodes[n].kids
             hits == {k \in DOMAIN kids : segment \in {nodes[kids[k]].name, BaseName[nodes[kids[k]].name]}}
  <1>1. nodes \in Seq(NodeT) /\ DOMAIN nodes = 1 .. Len(nodes) /\ Len(nodes) \in Nat
    BY LenProperties DEF ParserInv
  <1>2. nodes[n] \in NodeT
    BY <1>1
  <1>3. kids \in Seq(Nat \ {0})
    BY <1>2 DEF NodeT
  <1>4. hits \in SUBSET Nat /\ hits \subseteq 1 .. Len(kids) /\ DOMAIN kids = 1 .. Len(kids)
    BY <1>3, LenProperties
  <1>5. hits # {} /\ find_in_children(n, segment) = kids[CHOOSE k \in hits : \A j \in hits : k <= j]
    BY DEF find_in_children
  <1> HIDE DEF hits
  <1>6. \E k \in hits : \A j \in hits : k <= j
    BY <1>4, <1>5, LeastNatural
  <1>7. PICK k : k \in hits /\ find_in_children(n, segment) = kids[k]
    BY <1>5, <1>6
  <1>8. k \in DOMAIN kids /\ kids[k] \in Nat \ {0} /\ kids[k] <= Len(nodes)
    <2>1. k \in 1 .. Len(kids)
      BY <1>4, <1>7
    <2>2. QED BY <1>1, <1>3, <1>4, <2>1 DEF ParserInv
  <1>9. QED BY <1>1, <1>7, <1>8

\* The seed of the random number generator.
LEMMA SeedReach ==
    ASSUME Layout, blob \in Blobs, Seen, Sized, HeaderError = "none", ParserInv, nodes # <<>>,
           \A n \in 1 .. Len(nodes) : NodeNear(nodes[n])
    PROVE  \A v \in Seed : Mapped(PageOf(v))
  <1> SUFFICES ASSUME NEW v \in Seed PROVE Mapped(PageOf(v))
    OBVIOUS
  <1>1. PICK pw \in Nat, x \in Nat, size \in Nat, off \in Nat, names \in Nat, noff \in Nat, span \in Nat :
              Within(pw, x, size, off, names, noff, span)
    BY HeaderNumbers
  <1>2. size = blob.size_struct /\ SECTION * PAGE_WORDS = x /\ SECTION * PAGE_SIZE = 4 * x
    BY <1>1 DEF Within, Cellwise
  <1>3. nodes \in Seq(NodeT) /\ 1 \in 1 .. Len(nodes)
    BY EmptySeq, LenProperties DEF ParserInv
  <1>4. PICK n : n = find_in_children(1, "chosen")
    OBVIOUS
  <1>5. /\ n # NoNode /\ Has(n, "rng-seed")
        /\ \E k \in 0 .. (Prop(n, "rng-seed").len \div 4) - 1 : v = InBlock(Prop(n, "rng-seed").at + k)
    BY <1>4 DEF Seed
  <1>6. n \in 1 .. Len(nodes)
    BY <1>3, <1>4, <1>5, ChildFound
  <1>7. PICK at \in Nat, len \in Nat :
            at = Prop(n, "rng-seed").at /\ len = Prop(n, "rng-seed").len /\ at <= size /\ len <= 4 * x
    BY <1>2, <1>3, <1>5, <1>6, PropNear DEF PropT, Near
  <1>8. PICK k : k \in 0 .. (len \div 4) - 1 /\ v = InBlock(at + k)
    BY <1>5, <1>7
  <1>9. at + k \in Nat /\ at + k < size + x
    BY <1>7, <1>8
  <1>10. QED BY <1>2, <1>8, <1>9, BlockReach

\* Every cell the next step of the parser reads is mapped.
LEMMA WordsReach ==
    ASSUME Layout, DtbInv, ReadInv, Seen, Sized, phase # "done"
    PROVE  \A a \in Words : Mapped(PageOf(a))
  <1>1. ParserInv /\ blob \in Blobs /\ cur \in Nat /\ ahead.pos \in Nat
    BY DEF DtbInv, ParserInv, AheadT
  <1>2. CASE phase = "call"
    <2>1. PICK pw \in Nat, x \in Nat, size \in Nat, off \in Nat, span \in Nat : Cellwise(pw, x, size, off, span)
      BY <1>1, CellNumbers
    <2>2. pw = PAGE_WORDS /\ span = (blob.pages + SECTION) * PAGE_WORDS /\ pw <= span
      BY <2>1 DEF Cellwise
    <2>3. PICK h \in Nat : h = HEADER_SIZE /\ h <= pw
      BY <2>2, DtbConstants DEF Layout
    <2>4. \A a \in 0 .. h - 1 : a \in Nat /\ a < span
      BY <2>2, <2>3
    <2>5. Words = 0 .. h - 1
      BY <1>2, <2>3 DEF Words
    <2>6. QED BY <1>1, <2>2, <2>4, <2>5, InReach
  <1>3. CASE phase # "call"
    <2>1. HeaderError = "none" /\ \A n \in 1 .. Len(nodes) : NodeNear(nodes[n])
      BY <1>3 DEF ReadInv
    <2>2. CASE phase \in {"root", "enter"}
      <3>1. \A a \in Token(cur) : Mapped(PageOf(a))
        BY <1>1, <2>1, TokenReach
      <3>2. QED BY <2>2, <3>1 DEF Words
    <2>3. CASE phase = "ahead"
      <3>1. \A a \in Token(ahead.pos) \cup PropHead(ahead.pos) : Mapped(PageOf(a))
        BY <1>1, <2>1, TokenReach
      <3>2. QED BY <2>3, <3>1 DEF Words
    <2>4. CASE phase = "body"
      <3>1. \A a \in Token(cur) \cup PropHead(cur) : Mapped(PageOf(a))
        BY <1>1, <2>1, TokenReach
      <3>2. \A a \in PropData : Mapped(PageOf(a))
        BY <1>1, <2>1, DataReach
      <3>3. QED BY <2>4, <3>1, <3>2 DEF Words
    <2>5. CASE phase = "extract"
      <3>1. nodes # <<>>
        BY <1>1, <2>5 DEF ParserInv
      <3>2. (\A a \in Ranges : Mapped(PageOf(a))) /\ (\A a \in Seed : Mapped(PageOf(a)))
        BY <1>1, <2>1, <3>1, RangesReach, SeedReach
      <3>3. QED BY <2>5, <3>2 DEF Words
    <2>6. phase \in {"call", "root", "enter", "ahead", "body", "extract", "done"}
      BY <1>1 DEF ParserInv
    <2>7. QED BY <1>3, <2>2, <2>3, <2>4, <2>5, <2>6
  <1>4. QED BY <1>2, <1>3

\* The pool m holds properties and cells in bounds.
NodesNear(m) == \A n \in 1 .. Len(m) : NodeNear(m[n])

LEMMA ReadStart == Init => ReadInv
  BY DEF Init, DtbInit, ReadInv

\* A child starts with the cells of its parent.
LEMMA EnterNear ==
    ASSUME DtbInv, Layout, NodesNear(nodes), EnterNode
    PROVE  NodesNear(nodes')
  <1>1. CASE Return("corrupt")
    BY <1>1 DEF Return
  <1>2. CASE ~ Return("corrupt")
    <2>1. PICK parent : /\ parent = (IF stack = <<>> THEN NoNode ELSE Top)
                        /\ nodes' = Append(nodes, NewNode(parent))
      BY <1>2 DEF EnterNode
    <2>2. nodes \in Seq(NodeT) /\ stack \in Seq(1 .. Len(nodes)) /\ Len(nodes) \in Nat
      BY DEF DtbInv, ParserInv, StackInv
    <2>3. parent = NoNode \/ parent \in 1 .. Len(nodes)
      <3>1. stack # <<>> => Len(stack) \in 1 .. Len(stack)
        BY <2>2, EmptySeq, LenProperties
      <3>2. QED BY <2>1, <2>2, <3>1 DEF Top
    <2>4. 16 <= R \div 8
      <3>1. PICK pw \in Nat, x \in Nat, size \in Nat, off \in Nat, span \in Nat : Cellwise(pw, x, size, off, span)
        BY CellNumbers DEF DtbInv, ParserInv
      <3>2. QED BY <3>1 DEF Cellwise
    <2>5. PICK e \in Nat : e = R \div 8
      BY WordSize
    <2>6. NewNode(parent).ac < R \div 8 /\ NewNode(parent).sc < R \div 8 /\ NewNode(parent).props = <<>>
      <3>1. CASE parent = NoNode
        BY <2>4, <2>5, <3>1 DEF NewNode
      <3>2. CASE parent # NoNode
        <4>1. nodes[parent].ac < R \div 8 /\ nodes[parent].sc < R \div 8
          BY <2>3, <3>2 DEF NodesNear, NodeNear
        <4>2. QED BY <3>2, <4>1 DEF NewNode
      <3>3. QED BY <3>1, <3>2
    <2>7. PICK new : new = NewNode(parent)
      OBVIOUS
    <2>8. NodeNear(new)
      BY <2>6, <2>7 DEF NodeNear
    <2>9. PICK m : m = nodes' /\ m = Append(nodes, new)
      BY <2>1, <2>7
    <2>10. Len(m) = Len(nodes) + 1 /\ m[Len(nodes) + 1] = new /\ \A n \in 1 .. Len(nodes) : m[n] = nodes[n]
      BY <2>2, <2>9
    <2>11. \A n \in 1 .. Len(m) : n \in 1 .. Len(nodes) \/ n = Len(nodes) + 1
      BY <2>2, <2>10
    <2>12. QED BY <2>8, <2>9, <2>10, <2>11 DEF NodesNear
  <1>3. QED BY <1>1, <1>2

\* Slots and children say nothing of lengths and cells.
LEMMA FieldsNear ==
    ASSUME NodesNear(nodes), NEW m, Len(m) = Len(nodes),
           \A n \in 1 .. Len(nodes) :
              m[n].ac = nodes[n].ac /\ m[n].sc = nodes[n].sc /\ m[n].props = nodes[n].props
    PROVE  NodesNear(m)
  BY DEF NodesNear, NodeNear

LEMMA SlotsNear ==
    ASSUME DtbInv, NodesNear(nodes), AllocProps \/ LeaveNode
    PROVE  NodesNear(nodes')
  <1>1. PICK m : m = nodes'
    OBVIOUS
  <1>2. nodes \in Seq(NodeT) /\ DOMAIN nodes = 1 .. Len(nodes)
    BY LenProperties DEF DtbInv, ParserInv
  <1>3. \A n \in 1 .. Len(nodes) : nodes[n] \in NodeT
    BY <1>2
  <1>4. CASE m = nodes
    BY <1>1, <1>4
  <1>5. CASE \E t, c : m = [nodes EXCEPT ![t].room = c]
    <2>1. PICK t, c : m = [nodes EXCEPT ![t].room = c]
      BY <1>5
    <2>2. Len(m) = Len(nodes)
      BY <1>2, <2>1
    <2>3. \A n \in 1 .. Len(nodes) :
             m[n].ac = nodes[n].ac /\ m[n].sc = nodes[n].sc /\ m[n].props = nodes[n].props
      BY <1>2, <1>3, <2>1 DEF NodeT
    <2>4. QED BY <1>1, <2>2, <2>3, FieldsNear
  <1>6. CASE \E t, kid : m = [nodes EXCEPT ![t].kids = Append(@, kid)]
    <2>1. PICK t, kid : m = [nodes EXCEPT ![t].kids = Append(@, kid)]
      BY <1>6
    <2>2. Len(m) = Len(nodes)
      BY <1>2, <2>1
    <2>3. \A n \in 1 .. Len(nodes) :
             m[n].ac = nodes[n].ac /\ m[n].sc = nodes[n].sc /\ m[n].props = nodes[n].props
      BY <1>2, <1>3, <2>1 DEF NodeT
    <2>4. QED BY <1>1, <2>2, <2>3, FieldsNear
  <1>7. m = nodes \/ (\E t, c : m = [nodes EXCEPT ![t].room = c])
           \/ (\E t, kid : m = [nodes EXCEPT ![t].kids = Append(@, kid)])
    BY <1>1 DEF AllocProps, LeaveNode, Return
  <1>8. QED BY <1>4, <1>5, <1>6, <1>7

\* A property that is stored was found in bounds.
LEMMA PropAddedNear ==
    ASSUME DtbInv, Sized, NodesNear(nodes), ReadProp
    PROVE  NodesNear(nodes')
  <1>1. CASE Return("corrupt")
    BY <1>1 DEF Return
  <1>2. CASE ~ Return("corrupt")
    <2>1. PICK plen, nameoff :
             /\ plen = be32_read(cur + 1) /\ nameoff = be32_read(cur + 2)
             /\ ~ BadProp /\ nodes' = AddProp(Top, At(InStrings(nameoff)).s, plen)
      BY <1>2 DEF ReadProp
    <2>2. /\ blob \in Blobs /\ cur \in Nat /\ nodes \in Seq(NodeT) /\ DOMAIN nodes = 1 .. Len(nodes)
          /\ be32_read(cur) = DTB_PROP
      BY LenProperties DEF DtbInv, ParserInv, ReadProp
    <2>3. PICK name : name = At(InStrings(nameoff)).s
      OBVIOUS
    <2>4. PICK v \in Nat, e \in Nat, size \in Nat :
             v = be32_read(cur + 3) /\ e = R \div 8 /\ size = blob.size_struct
      <3>1. cur + 3 \in Nat
        BY <2>2
      <3>2. be32_read(cur + 3) \in Nat
        BY <2>2, <3>1, BlockType
      <3>3. PICK big \in Nat : big = R
        BY WordSize
      <3>4. R \div 8 \in Nat
        BY <3>3
      <3>5. blob.size_struct \in Nat
        BY <2>2, DtbConstants
      <3>6. QED BY <3>2, <3>4, <3>5
    <2>5. /\ cur + 3 <= size /\ plen <= SECTION * PAGE_SIZE
          /\ name \in {"#address-cells", "#size-cells"} => v < e
      BY <2>1, <2>2, <2>3, <2>4, HeadFits
    <2>6. PICK p : p = [name |-> name, at |-> cur + 3, len |-> plen,
                        type |-> guess_type(name, Data(cur + 3, plen), plen)]
      OBVIOUS
    <2>7. Near(p)
      BY <2>4, <2>5, <2>6 DEF Near
    <2>8. PICK m, n : m = nodes' /\ n = Top
      OBVIOUS
    <2>9. m = [nodes EXCEPT ![n].props = Append(@, p),
                            ![n].ac = IF name = "#address-cells" /\ plen = 4 THEN v ELSE @,
                            ![n].sc = IF name = "#size-cells" /\ plen = 4 THEN v ELSE @,
                            ![n].phandle = IF name \in {"phandle", "linux,phandle"} /\ plen = 4
                                             THEN v ELSE @]
      BY <2>1, <2>3, <2>4, <2>6, <2>8 DEF AddProp
    <2>10. Len(m) = Len(nodes)
      <3>1. PICK x : x = nodes[n]
        OBVIOUS
      <3>2. PICK y : y = [x EXCEPT !.props = Append(@, p),
                                   !.ac = IF name = "#address-cells" /\ plen = 4 THEN v ELSE @,
                                   !.sc = IF name = "#size-cells" /\ plen = 4 THEN v ELSE @,
                                   !.phandle = IF name \in {"phandle", "linux,phandle"} /\ plen = 4
                                                 THEN v ELSE @]
        OBVIOUS
      <3>3. m = [nodes EXCEPT ![n] = y]
        BY <2>9, <3>1, <3>2
      <3>4. QED BY <2>2, <3>3
    <2>11. ASSUME NEW k \in 1 .. Len(nodes) PROVE NodeNear(m[k])
      <3>1. PICK x \in NodeT : x = nodes[k] /\ NodeNear(x)
        BY <2>2 DEF NodesNear
      <3>2. CASE k # n
        <4>1. m[k] = x
          BY <2>2, <2>9, <3>1, <3>2
        <4>2. QED BY <3>1, <4>1
      <3>3. CASE k = n
        <4>1. PICK a, b, h : /\ a = (IF name = "#address-cells" /\ plen = 4 THEN v ELSE x.ac)
                             /\ b = (IF name = "#size-cells" /\ plen = 4 THEN v ELSE x.sc)
                             /\ h = (IF name \in {"phandle", "linux,phandle"} /\ plen = 4 THEN v ELSE x.phandle)
          OBVIOUS
        <4>2. m[k] = [x EXCEPT !.props = Append(x.props, p), !.ac = a, !.sc = b, !.phandle = h]
          BY <2>2, <2>9, <3>1, <3>3, <4>1
        <4>3. m[k].ac = a /\ m[k].sc = b /\ m[k].props = Append(x.props, p)
          BY <3>1, <4>2 DEF NodeT
        <4>4. a < e /\ b < e
          BY <2>4, <2>5, <3>1, <4>1 DEF NodeNear
        <4>5. PICK ps \in Seq(PropT) : ps = x.props
          BY <3>1 DEF NodeT
        <4>6. \A i \in 1 .. Len(Append(ps, p)) : Near(Append(ps, p)[i])
          <5>1. \A i \in 1 .. Len(ps) : Near(ps[i])
            BY <3>1, <4>5 DEF NodeNear
          <5>2. QED BY <2>7, <5>1, LenProperties
        <4>7. QED BY <2>4, <4>3, <4>4, <4>5, <4>6 DEF NodeNear
      <3>4. QED BY <3>2, <3>3
    <2>12. QED BY <2>8, <2>10, <2>11 DEF NodesNear
  <1>3. QED BY <1>1, <1>2

LEMMA ReadStep ==
    ASSUME Layout, DtbInv, ReadInv, [Next]_vars
    PROVE  ReadInv'
  <1>1. blob' = blob
    BY BlobSame
  <1>2. /\ Sized' <=> Sized
        /\ HeaderError' = HeaderError
        /\ \A x : NodeNear(x)' <=> NodeNear(x)
    BY <1>1, SameBlob
  <1>3. DtbNext \/ UNCHANGED <<blob, phase, cur, ahead, stack, nodes, prop_used, err, tree>>
    BY DEF Next, vars, dtbVars, init_mmu, CopyImage, ZeroBss, EnterKmain, Parse, ParseFailed, mm_init,
           fb_init, InitDevices, MountFailed, CreateInit, ExecInit, MapUserPage, ForkCopy, mm_page_free
  <1>4. phase' \notin {"call", "done"} => HeaderError = "none"
    <2>1. CASE dtb_parse
      BY <2>1 DEF dtb_parse, Return
    <2>2. CASE UNCHANGED <<blob, phase, cur, ahead, stack, nodes, prop_used, err, tree>>
      BY <2>2 DEF ReadInv
    <2>3. CASE DtbNext /\ ~ dtb_parse
      <3>1. phase \notin {"call", "done"}
        BY <2>3 DEF DtbNext, FindRoot, EnterNode, LookAhead, AllocProps, ReadProp, LeaveNode, OtherToken,
                    OutOfBlock, Extract
      <3>2. QED BY <3>1 DEF ReadInv
    <2>4. QED BY <1>3, <2>1, <2>2, <2>3
  <1>5. Sized => NodesNear(nodes')
    <2> SUFFICES ASSUME Sized PROVE NodesNear(nodes')
      OBVIOUS
    <2>1. NodesNear(nodes)
      BY DEF ReadInv, NodesNear
    <2>2. CASE nodes' = nodes
      BY <2>1, <2>2
    <2>3. CASE EnterNode
      BY <2>1, <2>3, EnterNear
    <2>4. CASE AllocProps \/ LeaveNode
      BY <2>1, <2>4, SlotsNear
    <2>5. CASE ReadProp
      BY <2>1, <2>5, PropAddedNear
    <2>6. nodes' = nodes \/ EnterNode \/ AllocProps \/ LeaveNode \/ ReadProp
      BY <1>3 DEF DtbNext, dtb_parse, AllocPools, FindRoot, LookAhead, OtherToken, OutOfBlock, Extract, Return
    <2>7. QED BY <2>2, <2>3, <2>4, <2>5, <2>6
  <1>6. Sized => (\A n \in 1 .. Len(nodes) : NodeNear(nodes[n]))'
    BY <1>1, <1>5 DEF NodesNear, NodeNear, Near
  <1>7. QED BY <1>2, <1>4, <1>6 DEF ReadInv

-----------------------------------------------------------------------------
(* What the stages write, as physical pages.                               *)

\* mem after what has been written to the physical pages area.
Fill(area, what) == [p \in 0 .. ADDR_PAGES - 1 |-> IF p \in area THEN what ELSE mem[p]]

\* What holds when a stage after init_mmu starts.
Started == Layout /\ blob \in Blobs /\ MapInv /\ step # "reset"

LEMMA WrittenFill ==
    ASSUME mem = [p \in 0 .. ADDR_PAGES - 1 |-> mem[p]], NEW vs, NEW area, NEW what,
           \A v \in vs : Pa(v) \in area, \A p \in area : \E v \in vs : Pa(v) = p
    PROVE  Written(vs, what) = Fill(area, what)
  <1>1. DOMAIN mem = 0 .. ADDR_PAGES - 1
    OBVIOUS
  <1>2. \A p : (\E v \in vs : Pa(v) = p) <=> p \in area
    OBVIOUS
  <1>3. QED BY <1>1, <1>2 DEF Written, Fill

\* Pages lo to hi of the kernel window lie at Kphys + lo to Kphys + hi.
Moved(lo, hi, what) ==
    /\ CanTouch(KV + lo .. KV + hi)
    /\ Written(KV + lo .. KV + hi, what) = Fill(Kphys + lo .. Kphys + hi, what)

LEMMA WindowFill ==
    ASSUME Started, NEW lo \in Nat, NEW hi \in Nat, hi <= BSS_END + 2, NEW what
    PROVE  Moved(lo, hi, what)
  <1>1. PICK S \in Nat \ {0}, A \in Nat, D \in Nat, K \in Nat, bp \in Nat, most \in Nat :
              Ground(S, A, D, K, bp, most)
    BY Grounds DEF Started
  <1>2. KV \in Nat /\ K = Kphys /\ BSS_END \in Nat
    BY <1>1 DEF Ground
  <1>3. Seen
    BY AllSeen DEF Started, MapInv
  <1>4. ASSUME NEW v \in KV + lo .. KV + hi PROVE Mapped(v) /\ Pa(v) = v - KV + K
    <2>1. v \in KV .. KV + BSS_END + 2
      BY <1>2
    <2>2. QED BY <1>2, <1>3, <2>1 DEF Seen, Phys
  <1>5. \A v \in KV + lo .. KV + hi : Pa(v) \in K + lo .. K + hi
    BY <1>2, <1>4
  <1>6. \A p \in K + lo .. K + hi : \E v \in KV + lo .. KV + hi : Pa(v) = p
    <2> SUFFICES ASSUME NEW p \in K + lo .. K + hi
                 PROVE  \E v \in KV + lo .. KV + hi : Pa(v) = p
      OBVIOUS
    <2>1. p - K + KV \in KV + lo .. KV + hi /\ (p - K + KV) - KV + K = p
      BY <1>2
    <2>2. QED BY <1>4, <2>1
  <1>7. CanTouch(KV + lo .. KV + hi)
    BY <1>4 DEF CanTouch
  <1>8. mem = [p \in 0 .. ADDR_PAGES - 1 |-> mem[p]]
    BY DEF Started, MapInv, StageInv
  <1>9. QED BY <1>2, <1>5, <1>6, <1>7, <1>8, WrittenFill DEF Moved

\* The pages from the blob to the image are where they are.
LEMMA LowFill ==
    ASSUME Started, NEW area, area \subseteq Dtb0 .. Kphys - 1, NEW what
    PROVE  CanTouch(area) /\ Written(area, what) = Fill(area, what)
  <1>1. Seen
    BY AllSeen DEF Started, MapInv
  <1>2. \A v \in area : Mapped(v) /\ Pa(v) = v
    <2>1. Kphys \in Nat /\ Dtb0 \in Nat /\ SECTION \in Nat
      BY KphysNat, BootConstants DEF Started
    <2>2. area \subseteq Dtb0 .. Kphys + 2 * SECTION - 1
      BY <2>1
    <2>3. QED BY <1>1, <2>2 DEF Seen
  <1>3. mem = [p \in 0 .. ADDR_PAGES - 1 |-> mem[p]]
    BY DEF Started, MapInv, StageInv
  <1>4. QED BY <1>2, <1>3, WrittenFill DEF CanTouch

LEMMA StackFill ==
    ASSUME Started, NEW what
    PROVE  CanTouch(Stack) /\ Written(Stack, what) = Fill({Kphys + SECTION - 2}, what)
  <1>1. PICK S \in Nat \ {0}, A \in Nat, D \in Nat, K \in Nat, bp \in Nat, most \in Nat :
              Ground(S, A, D, K, bp, most)
    BY Grounds DEF Started
  <1>2. Seen
    BY AllSeen DEF Started, MapInv
  <1>3. \A v \in Stack : Mapped(v) /\ Pa(v) = Phys(v)
    BY <1>2 DEF Seen
  <1>4. Phys(KV + SECTION - 2) = Kphys + SECTION - 2
    BY <1>1 DEF Ground, Phys
  <1>5. mem = [p \in 0 .. ADDR_PAGES - 1 |-> mem[p]]
    BY DEF Started, MapInv, StageInv
  <1>6. /\ \A v \in Stack : Pa(v) \in {Kphys + SECTION - 2}
        /\ \A p \in {Kphys + SECTION - 2} : \E v \in Stack : Pa(v) = p
    BY <1>3, <1>4 DEF Stack
  <1>7. QED BY <1>3, <1>5, <1>6, WrittenFill DEF CanTouch

\* The first stack lies between the blob's start and the image.
LEMMA FirstStackLow ==
    ASSUME Layout, blob \in Blobs
    PROVE  FirstStack \subseteq Dtb0 .. Kphys - 1
  <1>1. PICK S \in Nat \ {0}, A \in Nat, D \in Nat, K \in Nat, bp \in Nat, most \in Nat :
              Ground(S, A, D, K, bp, most)
    BY Grounds
  <1>2. PICK f \in Nat \ {0} : f = FIRST_STACK /\ D + f <= K /\ D = Dtb0 /\ K = Kphys
    BY <1>1 DEF Ground
  <1>3. D + f - 1 \in D .. K - 1
    BY <1>2
  <1>4. QED BY <1>2, <1>3 DEF FirstStack

LEMMA CopyEffect ==
    ASSUME Started, CopyImage
    PROVE  /\ step = "copy" /\ step' = "zero" /\ mem' = Fill(Kphys .. Kphys + TEXT_END - 1, "text")
           /\ UNCHANGED <<dtbVars, l1, devices, kernel_phys_base, pmm, heap_top, fb, user>>
  <1>1. PICK S \in Nat \ {0}, A \in Nat, D \in Nat, K \in Nat, bp \in Nat, most \in Nat :
              Ground(S, A, D, K, bp, most)
    BY Grounds DEF Started
  <1>2. PICK t \in Nat : t = TEXT_END - 1 /\ t <= BSS_END + 2
    BY <1>1, TEXT_END - 1 \in Nat DEF Ground
  <1>3. KV + 0 = KV /\ Kphys + 0 = Kphys /\ KV + t = KV + TEXT_END - 1 /\ Kphys + t = Kphys + TEXT_END - 1
    BY <1>1, <1>2 DEF Ground
  <1>4. CanTouch(Text) /\ Written(Text, "text") = Fill(Kphys .. Kphys + TEXT_END - 1, "text")
    BY <1>2, <1>3, WindowFill DEF Text, Moved
  <1>5. Mapped(0)
    <2>1. l1[0] = 0
      BY DEF CopyImage, Started, MapInv, TranslationInv
    <2>2. 0 \div SECTION = 0 /\ 0 < ADDR_PAGES
      BY <1>1 DEF Ground
    <2>3. QED BY <2>1, <2>2 DEF Mapped
  <1>6. CanTouch(FirstStack)
    BY FirstStackLow, LowFill DEF Started
  <1>7. CanTouch(Text \cup {0} \cup FirstStack)
    BY <1>4, <1>5, <1>6 DEF CanTouch
  <1>8. QED BY <1>4, <1>7 DEF CopyImage

LEMMA ZeroEffect ==
    ASSUME Started, ZeroBss
    PROVE  /\ step = "zero" /\ step' = "base" /\ kernel_phys_base' = 0
           /\ mem' = Fill(Kphys + TT_END .. Kphys + BSS_END - 1, "bss")
           /\ UNCHANGED <<dtbVars, l1, devices, pmm, heap_top, fb, user>>
  <1>1. PICK S \in Nat \ {0}, A \in Nat, D \in Nat, K \in Nat, bp \in Nat, most \in Nat :
              Ground(S, A, D, K, bp, most)
    BY Grounds DEF Started
  <1>2. PICK t \in Nat : t = BSS_END - 1 /\ t <= BSS_END + 2 /\ TT_END \in Nat
    BY <1>1, BSS_END - 1 \in Nat DEF Ground
  <1>3. KV + t = KV + BSS_END - 1 /\ Kphys + t = Kphys + BSS_END - 1
    BY <1>1, <1>2 DEF Ground
  <1>4. CanTouch(Bss) /\ Written(Bss, "bss") = Fill(Kphys + TT_END .. Kphys + BSS_END - 1, "bss")
    BY <1>2, <1>3, WindowFill DEF Bss, Moved
  <1>5. CanTouch(FirstStack)
    BY FirstStackLow, LowFill DEF Started
  <1>6. CanTouch(Cleared \cup FirstStack)
    BY <1>4, <1>5 DEF CanTouch, Cleared
  <1>7. QED BY <1>4, <1>6 DEF ZeroBss, Cleared

LEMMA EnterEffect ==
    ASSUME Started, EnterKmain
    PROVE  /\ step = "base" /\ step' = "parse" /\ kernel_phys_base' = Kphys
           /\ mem' = Fill({Kphys + SECTION - 2}, "stack") /\ l1' = [l1 EXCEPT ![0] = NoMap]
           /\ UNCHANGED <<dtbVars, devices, pmm, heap_top, fb, user>>
  BY StackFill DEF EnterKmain

\* A step of the parser that reads and writes only mapped pages, and one that faults.
Parsed ==
    /\ DtbNext
    /\ mem' = IF early_heap_ptr' > 0 THEN Fill(EarlyHeap, "pools") ELSE mem
    /\ UNCHANGED <<step, l1, devices, kernel_phys_base, pmm, heap_top, fb, user>>

Broken == Fault /\ UNCHANGED dtbVars

LEMMA ParseEffect ==
    ASSUME Started, Parse
    PROVE  step = "parse" /\ phase # "done" /\ (Parsed \/ Broken)
  <1>1. PICK S \in Nat \ {0}, A \in Nat, D \in Nat, K \in Nat, bp \in Nat, most \in Nat :
              Ground(S, A, D, K, bp, most)
    BY Grounds DEF Started
  <1>2. EarlyHeap \subseteq Dtb0 .. Kphys - 1
    BY <1>1 DEF Ground, EarlyHeap
  <1>3. CanTouch(EarlyHeap) /\ Written(EarlyHeap, "pools") = Fill(EarlyHeap, "pools")
    BY <1>2, LowFill
  <1>4. QED BY <1>3, Zenon DEF Parse, Parsed, Broken

\* The parser does not fault on a blob whose numbers are in bounds.
LEMMA ParseSafe ==
    ASSUME Started, Parse, DtbInv, ReadInv, Sized
    PROVE  Parsed
  <1>1. PICK S \in Nat \ {0}, A \in Nat, D \in Nat, K \in Nat, bp \in Nat, most \in Nat :
              Ground(S, A, D, K, bp, most)
    BY Grounds DEF Started
  <1>2. EarlyHeap \subseteq Dtb0 .. Kphys - 1
    BY <1>1 DEF Ground, EarlyHeap
  <1>3. CanTouch(EarlyHeap) /\ Written(EarlyHeap, "pools") = Fill(EarlyHeap, "pools")
    BY <1>2, LowFill
  <1>4. Seen
    BY AllSeen DEF Started, MapInv
  <1>5. phase # "done" /\ Layout
    BY DEF Parse, Started
  <1>6. \A a \in Words : Mapped(PageOf(a))
    BY <1>4, <1>5, WordsReach
  <1>7. CanTouch({PageOf(a) : a \in Words} \cup EarlyHeap)
    BY <1>3, <1>6 DEF CanTouch
  <1>8. QED BY <1>3, <1>7, Zenon DEF Parse, Parsed

\* The heap fills from below, behind the image.
LEMMA HeapFill ==
    ASSUME Started, NEW j \in 0 .. 2
    PROVE  CanTouch({HeapVa + j}) /\ Written({HeapVa + j}, "heap") = Fill({Kphys + BSS_END + j}, "heap")
  <1>1. PICK S \in Nat \ {0}, A \in Nat, D \in Nat, K \in Nat, bp \in Nat, most \in Nat :
              Ground(S, A, D, K, bp, most)
    BY Grounds DEF Started
  <1>2. PICK t \in Nat : t = BSS_END + j /\ t <= BSS_END + 2
    BY <1>1, BSS_END + j \in Nat DEF Ground
  <1>3. PICK v \in Nat, p \in Nat :
           v = HeapVa + j /\ v = KV + t /\ p = Kphys + BSS_END + j /\ p = Kphys + t
    <2>1. HeapVa + j = KV + t /\ Kphys + BSS_END + j = Kphys + t /\ KV + t \in Nat /\ Kphys + t \in Nat
      BY <1>1, <1>2 DEF Ground, HeapVa
    <2>2. QED BY <2>1
  <1>4. v .. v = {v} /\ p .. p = {p}
    OBVIOUS
  <1>5. Moved(t, t, "heap")
    BY <1>2, WindowFill
  <1>6. QED BY <1>3, <1>4, <1>5 DEF Moved

LEMMA DevicesEffect ==
    ASSUME Started, InitDevices
    PROVE  /\ step = "dev" /\ step' = "process" /\ heap_top = 1 /\ heap_top' = 2
           /\ mem' = Fill({Kphys + BSS_END + 1}, "heap")
           /\ UNCHANGED <<dtbVars, l1, devices, kernel_phys_base, pmm, fb, user>>
  <1>1. step = "dev" /\ heap_top = 1 /\ HeapPage = HeapVa + 1
    BY DEF InitDevices, Started, MapInv, StageInv, HeapPage
  <1>2. CanTouch({HeapPage}) /\ Written({HeapPage}, "heap") = Fill({Kphys + BSS_END + 1}, "heap")
    BY <1>1, HeapFill
  <1>3. CanUse(AllDevices \ {"rtc"})
    BY DEF CanUse, Started, MapInv, TranslationInv, Window
  <1>4. QED BY <1>1, <1>2, <1>3 DEF InitDevices

LEMMA ExecEffect ==
    ASSUME Started, ExecInit
    PROVE  /\ step = "process" /\ step' = "user" /\ heap_top = 2 /\ heap_top' = 3
           /\ mem' = Fill({Kphys + BSS_END + 2}, "heap")
           /\ UNCHANGED <<dtbVars, l1, devices, kernel_phys_base, pmm, fb, user>>
  <1>1. step = "process" /\ heap_top = 2 /\ HeapPage = HeapVa + 2
    BY DEF ExecInit, Started, MapInv, StageInv, HeapPage
  <1>2. CanTouch({HeapPage}) /\ Written({HeapPage}, "heap") = Fill({Kphys + BSS_END + 2}, "heap")
    BY <1>1, HeapFill
  <1>3. QED BY <1>1, <1>2 DEF ExecInit

-----------------------------------------------------------------------------
(* The early heap and the page allocator.                                  *)

\* early_malloc never hands out more than the early heap has.
LEMMA EarlyStep ==
    ASSUME early_heap_ptr \in 0 .. EARLY_HEAP_SIZE, DtbNext
    PROVE  early_heap_ptr' \in 0 .. EARLY_HEAP_SIZE
  <1>1. PICK E \in Nat, e \in Nat, n \in Nat, p \in Nat :
           e <= E /\ E = EARLY_HEAP_SIZE /\ e = early_heap_ptr /\ n = NODE_POOL /\ p = PROP_POOL
    BY DtbConstants
  <1>2. CASE AllocPools
    <2>1. PICK a \in 0 .. E : a = early_malloc(e, n).ptr
      BY <1>1 DEF early_malloc
    <2>2. early_malloc(a, p).ptr \in 0 .. E
      BY <1>1 DEF early_malloc
    <2>3. QED BY <1>1, <1>2, <2>1, <2>2 DEF AllocPools
  <1>3. CASE UNCHANGED early_heap_ptr
    BY <1>3
  <1>4. AllocPools \/ UNCHANGED early_heap_ptr
    BY DEF DtbNext, dtb_parse, FindRoot, EnterNode, LookAhead, AllocProps, ReadProp, LeaveNode, OtherToken,
           OutOfBlock, Extract, Return
  <1>5. QED BY <1>2, <1>3, <1>4

LEMMA DivMonotone ==
    ASSUME NEW s \in Nat \ {0}, NEW a \in Nat, NEW b \in Nat, a <= b
    PROVE  a \div s \in Nat /\ b \div s \in Nat /\ a \div s <= b \div s
  <1>1. PICK c \in Nat, d \in Nat :
           c = a \div s /\ c * s <= a /\ d = b \div s /\ b < d * s + s
    BY SectionOf
  <1>2. CASE d + 1 <= c
    <2>1. (d + 1) * s <= c * s
      BY <1>2, Multiples
    <2>2. (d + 1) * s = d * s + s /\ c * s \in Nat /\ d * s \in Nat
      OBVIOUS
    <2>3. QED BY <1>1, <2>1, <2>2
  <1>3. QED BY <1>1, <1>2

\* The RAM mm_init counts ends in the address space.
LEMMA RamEnds ==
    ASSUME NEW m \in PairT
    PROVE  RamEnd(m) < ADDR_PAGES
  <1>1. PICK a \in Nat \ {0}, w \in Nat \ {0} : a = ADDR_PAGES /\ w = PAGE_WORDS /\ W = a * w
    BY RamFacts, DtbConstants, BootConstants
  <1>2. PICK p \in Nat \ {0} : p = 4 * w /\ p = PAGE_SIZE
    BY <1>1 DEF PAGE_SIZE
  <1>3. PICK y \in Nat : y = (m.base % R) + m.size
    BY WordSize DEF PairT
  <1>4. R = (0 + a) * p
    BY <1>1, <1>2 DEF R
  <1>5. CASE y > R - 1
    BY <1>1, <1>3, <1>5 DEF RamEnd
  <1>6. CASE ~ (y > R - 1)
    <2>1. 0 * p <= y /\ y < (0 + a) * p
      BY <1>4, <1>6, WordSize
    <2>2. y \div p \in 0 .. 0 + a - 1
      BY <2>1, SectionRange
    <2>3. RamEnd(m) = y \div p
      BY <1>2, <1>3, <1>6 DEF RamEnd
    <2>4. QED BY <1>1, <2>2, <2>3
  <1>7. QED BY <1>5, <1>6

\* mm_init is through: the bitmap, in area, and the first page of the heap are
\* written, and the allocator owns the RAM but for what is kept.
Settled(area) ==
    /\ step' = "fb" /\ heap_top' = 1 /\ early_heap_ptr' = 0
    /\ mem' = [p \in 0 .. ADDR_PAGES - 1 |-> IF p \in area THEN "bitmap"
                                             ELSE IF p = Kphys + BSS_END THEN "heap" ELSE mem[p]]
    /\ area \subseteq Dtb0 .. Kphys - 1 /\ Dtb0 + blob.pages + EARLY_PAGES \in area
    /\ pmm'.base + pmm'.total < ADDR_PAGES /\ pmm'.hint = 0 /\ pmm'.base + FB_PAGES <= KV
    /\ \A i \in pmm'.bitmap : pmm'.base + i \in area \cup HeapFrames
    /\ area = BitmapFrames'
    /\ UNCHANGED <<blob, phase, cur, ahead, stack, nodes, prop_used, err, tree>>
    /\ UNCHANGED <<l1, devices, kernel_phys_base, fb, user>>

LEMMA MmInitEffect ==
    ASSUME Started, DtbInv, FramesInv, RamLow, mm_init
    PROVE  (Halt /\ UNCHANGED dtbVars) \/ \E area : Settled(area)
  <1> SUFFICES ASSUME ~ (Halt /\ UNCHANGED dtbVars) PROVE \E area : Settled(area)
    OBVIOUS
  <1>1. /\ step = "parse" /\ tree.memory # <<>> /\ blob \in Blobs /\ kernel_phys_base = Kphys
    BY DEF mm_init, DtbInv, ParserInv, FramesInv, HeapInv
  <1>2. PICK m : m = tree.memory[1]
    OBVIOUS
  <1>3. m \in PairT
    <2>1. tree.memory \in Seq(PairT)
      BY DEF DtbInv, ParserInv
    <2>2. 1 \in 1 .. Len(tree.memory)
      BY <1>1, <2>1, EmptySeq, LenProperties
    <2>3. QED BY <1>2, <2>1, <2>2
  <1>4. PICK base \in Nat : base = RamBase(m)
    BY <1>3, RamFacts
  <1>5. base + FB_PAGES <= KV
    BY <1>1, <1>2, <1>4 DEF RamLow
  <1>6. PICK S \in Nat \ {0}, A \in Nat, D \in Nat, K \in Nat, bp \in Nat, most \in Nat :
              Ground(S, A, D, K, bp, most)
    BY <1>1, Grounds DEF Started
  <1>7. PICK end \in Nat : end = RamEnd(m) /\ end < A
    BY <1>3, <1>6, RamFacts, RamEnds DEF Ground
  <1>8. PICK total \in Int : total = end - base
    OBVIOUS
  <1>9. PICK pa \in Nat : pa = D + bp + EARLY_PAGES
    BY <1>6 DEF Ground
  <1>10. PICK pages, area : /\ pages = (total + PAGES_PER_BITMAP - 1) \div PAGES_PER_BITMAP
                            /\ area = pa .. pa + pages - 1
    OBVIOUS
  <1>11. /\ A = ADDR_PAGES /\ D = Dtb0 /\ bp = blob.pages /\ K = Kphys
    BY <1>6 DEF Ground
  <1> DEFINE Done ==
         /\ pmm' = [base |-> base, total |-> total, hint |-> 0,
                    bitmap |-> reserve_range(base, total, Reserved(pa, pages))]
         /\ mem' = [p \in DOMAIN mem |-> IF \E v \in area : Pa(v) = p THEN "bitmap"
                                         ELSE IF Pa(HeapVa) = p THEN "heap" ELSE mem[p]]
         /\ heap_top' = 1 /\ early_heap_ptr' = 0 /\ step' = "fb"
         /\ UNCHANGED <<blob, phase, cur, ahead, stack, nodes, prop_used, err, tree>>
         /\ UNCHANGED <<l1, devices, kernel_phys_base, fb, user>>
  <1>12. /\ total > 0
         /\ IF CanTouch(area \cup {HeapVa}) THEN Done ELSE Fault /\ UNCHANGED dtbVars
    <2>1. /\ total = RamEnd(m) - RamBase(m) /\ pa = Dtb0 + blob.pages + EARLY_PAGES
          /\ RamBase(m) = base
      BY <1>4, <1>7, <1>8, <1>9, <1>11
    <2>2. ~ (total <= 0) /\ IF CanTouch(area \cup {HeapVa}) THEN Done ELSE Fault /\ UNCHANGED dtbVars
      BY <1>1, <1>2, <1>10, <2>1, ZenonT(30) DEF mm_init
    <2>3. QED BY <2>2
  <1>13. pages \in Nat /\ pages <= most /\ 1 <= pages
    <2>1. PICK ppb \in Nat \ {0} : ppb = PAGES_PER_BITMAP
      BY BootConstants
    <2>2. PICK x \in Nat, y \in Nat : x = total + ppb - 1 /\ y = A + ppb - 1 /\ x <= y /\ ppb <= x
      BY <1>7, <1>8, <1>12, total + ppb - 1 \in Nat, A + ppb - 1 \in Nat
    <2>3. pages = x \div ppb /\ most = y \div ppb
      BY <1>6, <1>10, <2>1, <2>2 DEF Ground
    <2>4. ppb \div ppb = 1
      BY SectionRange
    <2>5. QED BY <2>2, <2>3, <2>4, DivMonotone
  <1>14. area \subseteq D .. K - 1 /\ pa \in area
    <2>1. D + bp + EARLY_PAGES + most <= K
      BY <1>6 DEF Ground
    <2>2. D <= pa /\ pa + most <= K
      BY <1>6, <1>9, <2>1 DEF Ground
    <2>3. QED BY <1>10, <1>13, <2>2
  <1>15. Seen
    BY AllSeen DEF Started, MapInv
  <1>16. \A v \in area : Mapped(v) /\ Pa(v) = v
    <2>1. D .. K - 1 \subseteq D .. K + 2 * S - 1 /\ S = SECTION
      BY <1>6 DEF Ground
    <2>2. area \subseteq Dtb0 .. Kphys + 2 * SECTION - 1
      BY <1>11, <1>14, <2>1
    <2>3. QED BY <1>15, <2>2 DEF Seen
  <1>17. Mapped(HeapVa) /\ Pa(HeapVa) = Kphys + BSS_END
    <2>1. HeapVa \in KV .. KV + BSS_END + 2 /\ Phys(HeapVa) = Kphys + BSS_END
      BY <1>6 DEF Ground, HeapVa, Phys
    <2>2. QED BY <1>15, <2>1 DEF Seen
  <1>18. Done
    BY <1>12, <1>16, <1>17 DEF CanTouch
  <1>19. DOMAIN mem = 0 .. ADDR_PAGES - 1
    BY DEF Started, MapInv, StageInv
  <1>20. mem' = [p \in 0 .. ADDR_PAGES - 1 |-> IF p \in area THEN "bitmap"
                                              ELSE IF p = Kphys + BSS_END THEN "heap" ELSE mem[p]]
    <2>1. \A p : (\E v \in area : Pa(v) = p) <=> p \in area
      BY <1>16
    <2>2. QED BY <1>17, <1>18, <1>19, <2>1
  <1>21. PICK map : map = reserve_range(base, total, Reserved(pa, pages))
    OBVIOUS
  <1>22. pmm'.base = base /\ pmm'.total = total /\ pmm'.hint = 0 /\ pmm'.bitmap = map
    BY <1>18, <1>21
  <1>23. Reserved(pa, pages) = area \cup HeapFrames
    <2>1. virt_to_phys(HeapVa) = Kphys + BSS_END
      BY <1>1, <1>6 DEF Ground, virt_to_phys, HeapVa
    <2>2. QED BY <1>10, <2>1 DEF Reserved, HeapFrames
  <1>24. \A i \in map : base + i \in area \cup HeapFrames
    <2>1. area \cup HeapFrames \subseteq Int
      BY <1>10 DEF HeapFrames
    <2>2. QED BY <1>21, <1>23, <2>1 DEF reserve_range
  <1>25. area = BitmapFrames'
    <2>1. blob' = blob
      BY <1>18
    <2>2. QED BY <1>9, <1>10, <1>11, <1>22, <2>1 DEF BitmapFrames, Dtb0
  <1>26. base + total < ADDR_PAGES
    BY <1>7, <1>8, <1>11
  <1>27. Settled(area)
    BY <1>5, <1>9, <1>11, <1>14, <1>18, <1>20, <1>22, <1>24, <1>25, <1>26 DEF Settled
  <1>28. QED BY <1>27

\* Any bitmap fits between the early heap and the image.
LEMMA BitmapLow ==
    ASSUME Layout, blob \in Blobs, NEW total \in Nat, total < ADDR_PAGES, total = pmm.total
    PROVE  BitmapFrames \subseteq Dtb0 .. Kphys - 1
  <1>1. PICK S \in Nat \ {0}, A \in Nat, D \in Nat, K \in Nat, bp \in Nat, most \in Nat :
              Ground(S, A, D, K, bp, most)
    BY Grounds
  <1>2. PICK ppb \in Nat \ {0} : ppb = PAGES_PER_BITMAP
    BY BootConstants
  <1>3. PICK x \in Nat, y \in Nat : x = total + ppb - 1 /\ y = A + ppb - 1 /\ x <= y
    BY <1>1, total + ppb - 1 \in Nat, A + ppb - 1 \in Nat DEF Ground
  <1>4. PICK pages \in Nat : pages = x \div ppb /\ pages <= most
    <2>1. most = y \div ppb
      BY <1>1, <1>2, <1>3 DEF Ground
    <2>2. QED BY <1>3, <2>1, DivMonotone
  <1>5. PICK pa \in Nat : pa = D + bp + EARLY_PAGES /\ D <= pa /\ pa + most <= K
    BY <1>1, D + bp + EARLY_PAGES \in Nat DEF Ground
  <1>6. BitmapFrames = pa .. pa + pages - 1
    BY <1>1, <1>2, <1>3, <1>4, <1>5 DEF Ground, BitmapFrames
  <1>7. pa .. pa + pages - 1 \subseteq D .. K - 1
    BY <1>4, <1>5
  <1>8. QED BY <1>1, <1>6, <1>7 DEF Ground

\* With the hint at 0, bm_find_free_run finds the lowest run.
LEMMA FirstFit ==
    ASSUME PmmInv, pmm.hint = 0, pmm.total > 0, NEW n \in Nat, NEW i, i = FindRun(n), i # -1,
           NEW j \in Nat, j + n <= pmm.total, (j .. j + n - 1) \cap pmm.bitmap = {}
    PROVE  i <= j
  <1>1. PICK total \in Nat, map \in SUBSET Nat : total = pmm.total /\ map = pmm.bitmap
    BY DEF PmmInv
  <1> DEFINE Free(lo, hi) == {k \in lo .. hi - n : (k .. k + n - 1) \cap map = {}}
             Lowest(T) == CHOOSE k \in T : \A l \in T : k <= l
  <1>2. i = IF Free(0, total) # {} THEN Lowest(Free(0, total))
            ELSE IF Free(0, 0) # {} THEN Lowest(Free(0, 0)) ELSE -1
    BY <1>1 DEF FindRun, Runs
  <1>3. j \in Free(0, total) /\ Free(0, total) \in SUBSET Nat
    BY <1>1
  <1>4. ASSUME NEW T \in SUBSET Nat, j \in T PROVE Lowest(T) <= j
    <2>1. \E k \in T : \A l \in T : k <= l
      BY <1>4, LeastNatural
    <2>2. QED BY <1>4, <2>1
  <1> HIDE DEF Free, Lowest
  <1>5. QED BY <1>2, <1>3, <1>4

\* The framebuffer lies below the kernel window.
LEMMA FbLow ==
    ASSUME Started, FramesInv, step = "fb", NEW i, i = FindRun(FB_PAGES), i # -1
    PROVE  Frames(i, FB_PAGES) \subseteq 0 .. KV - 1
  <1>1. PICK S \in Nat \ {0}, A \in Nat, D \in Nat, K \in Nat, bp \in Nat, most \in Nat :
              Ground(S, A, D, K, bp, most)
    BY Grounds DEF Started
  <1>2. PICK base \in Nat, total \in Nat, map \in SUBSET Nat :
           /\ base = pmm.base /\ total = pmm.total /\ map = pmm.bitmap /\ total > 0
           /\ map \subseteq 0 .. total - 1
    BY DEF FramesInv, PmmInv, HeapInv
  <1>3. PICK n \in Nat, kv \in Nat, x \in Nat :
           n = FB_PAGES /\ kv = KV /\ x = K + BSS_END + KHEAP_PAGES /\ x + n <= kv /\ K <= x
    BY <1>1, K + BSS_END + KHEAP_PAGES \in Nat DEF Ground
  <1>4. base + n <= kv /\ base + total < ADDR_PAGES /\ pmm.hint = 0
    BY <1>2, <1>3 DEF Started, MapInv, StageInv
  <1>5. \A f \in Kept : f \in Int /\ f < x
    <2>1. total < ADDR_PAGES
      BY <1>1, <1>2, <1>4 DEF Ground
    <2>2. BitmapFrames \subseteq Dtb0 .. Kphys - 1
      BY <1>2, <2>1, BitmapLow DEF Started
    <2>3. \A f \in BitmapFrames : f \in Int /\ f < x
      BY <1>1, <1>3, <2>2 DEF Ground
    <2>4. \A f \in HeapFrames : f \in Int /\ f < x
      BY <1>1, <1>3 DEF Ground, HeapFrames
    <2>5. QED BY <2>3, <2>4 DEF Kept
  <1>6. \A b \in map : base + b < x
    <2>1. \A b \in map : base + b \in Kept
      BY <1>2 DEF Started, MapInv, StageInv
    <2>2. QED BY <1>5, <2>1
  <1>7. i \in Nat /\ i + n <= total
    BY <1>2, <1>3, <1>4, RunFound DEF FramesInv
  <1>8. PICK j \in Nat : j = (IF x <= base THEN 0 ELSE x - base)
    BY <1>3
  <1>9. base + j + n <= kv /\ x <= base + j
    BY <1>3, <1>4, <1>8
  <1>10. i <= j
    <2>1. CASE total < j + n
      BY <1>7, <2>1
    <2>2. CASE j + n <= total
      <3>1. (j .. j + n - 1) \cap map = {}
        BY <1>6, <1>9
      <3>2. QED BY <1>2, <1>3, <1>4, <2>2, <3>1, FirstFit DEF FramesInv
    <2>3. QED BY <2>1, <2>2
  <1>11. Frames(i, FB_PAGES) = base + i .. base + i + n - 1
    BY <1>2, <1>3 DEF Frames
  <1>12. base + i .. base + i + n - 1 \subseteq 0 .. kv - 1
    BY <1>7, <1>9, <1>10
  <1>13. QED BY <1>3, <1>11, <1>12

\* mmu_map_identity leaves the kernel window and the devices alone.
LEMMA FbMapped ==
    ASSUME Started, NEW frames, frames \subseteq 0 .. KV - 1, l1' = MapFramebuffer(frames),
           UNCHANGED <<blob, devices>>
    PROVE  /\ l1' \in [Sections -> Sections \cup {NoMap, DevTable}] /\ Window'
           /\ \A f \in frames : l1'[f \div SECTION] = f \div SECTION
  <1>1. PICK S \in Nat \ {0}, N \in Nat, ker \in Nat, dev \in Nat, ds \in Nat, most \in Nat :
              Place(S, N, ker, dev, ds, most)
    BY Places DEF Started
  <1>2. 1 <= ds /\ ds + 6 <= ker /\ ker + 4 <= dev /\ dev < N
    BY <1>1 DEF Place
  <1>3. /\ Sections = 0 .. N - 1 /\ ker = KERNEL_SEC /\ dev = DEVICE_SEC /\ S = SECTION
        /\ ds = Dtb0 \div SECTION /\ KV = ker * S
    BY <1>1 DEF Place
  <1>4. /\ \A j \in 0 .. 3 : l1[ker + j] = ds + 2 + j /\ l1[ds + j] = ds + j
        /\ l1[dev] = DevTable /\ devices = AllDevices
    BY <1>3 DEF Started, MapInv, TranslationInv, Window
  <1>5. ASSUME NEW f \in frames PROVE f \div S \in 0 .. ker - 1
    <2>1. f \in Nat /\ f < (0 + ker) * S /\ 0 * S <= f
      BY <1>3
    <2>2. f \div S \in 0 .. 0 + ker - 1
      BY <2>1, SectionRange
    <2>3. QED BY <2>2
  <1>6. PICK used : used = {f \div S : f \in frames}
    OBVIOUS
  <1>7. used \subseteq 0 .. ker - 1
    BY <1>5, <1>6
  <1>8. l1' = [s \in 0 .. N - 1 |-> IF s \in used THEN s ELSE l1[s]]
    BY <1>3, <1>6 DEF MapFramebuffer
  <1>9. l1' \in [Sections -> Sections \cup {NoMap, DevTable}]
    BY <1>3, <1>8 DEF Started, MapInv, TranslationInv
  <1>10. \A j \in 0 .. 3 : l1'[ker + j] = ds + 2 + j /\ l1'[ds + j] = ds + j
    <2> SUFFICES ASSUME NEW j \in 0 .. 3
                 PROVE  l1'[ker + j] = ds + 2 + j /\ l1'[ds + j] = ds + j
      OBVIOUS
    <2>1. ker + j \in 0 .. N - 1 /\ ker + j \notin used /\ ds + j \in 0 .. N - 1
      BY <1>2, <1>7
    <2>2. QED BY <1>4, <1>8, <2>1
  <1>11. l1'[dev] = DevTable
    <2>1. dev \in 0 .. N - 1 /\ dev \notin used
      BY <1>2, <1>7
    <2>2. QED BY <1>4, <1>8, <2>1
  <1>12. Window'
    BY <1>3, <1>4, <1>10, <1>11 DEF Window, Dtb0
  <1>13. \A f \in frames : l1'[f \div SECTION] = f \div SECTION
    <2> SUFFICES ASSUME NEW f \in frames PROVE l1'[f \div S] = f \div S
      BY <1>3
    <2>1. f \div S \in used /\ f \div S \in 0 .. N - 1
      BY <1>2, <1>5, <1>6
    <2>2. QED BY <1>8, <2>1
  <1>14. QED BY <1>9, <1>12, <1>13

\* The frames new become the framebuffer, mapped where they are.
Screen(new) ==
    /\ fb' = new /\ new \cap Kept = {} /\ new \subseteq 0 .. ADDR_PAGES - 1
    /\ mem' = Fill(new, "pixels")
    /\ l1' \in [Sections -> Sections \cup {NoMap, DevTable}] /\ Window'
    /\ pmm'.base = pmm.base /\ pmm'.total = pmm.total
    /\ UNCHANGED <<dtbVars, devices, kernel_phys_base, heap_top, user>>

LEMMA FbEffect ==
    ASSUME Started, FramesInv, fb_init
    PROVE  /\ step = "fb" /\ step' = "dev"
           /\ \/ UNCHANGED <<dtbVars, l1, devices, mem, kernel_phys_base, pmm, heap_top, fb, user>>
              \/ \E new : Screen(new)
  <1>1. PICK S \in Nat \ {0}, A \in Nat, D \in Nat, K \in Nat, bp \in Nat, most \in Nat :
              Ground(S, A, D, K, bp, most)
    BY Grounds DEF Started
  <1>2. CanUse({"fwcfg"})
    BY DEF CanUse, Started, MapInv, TranslationInv, Window, AllDevices
  <1>3. step = "fb" /\ UNCHANGED dtbVars /\ blob' = blob /\ blob \in Blobs /\ FB_PAGES \in Nat
    BY BootConstants DEF fb_init, Started, dtbVars
  <1>4. PICK i, new : i = FindRun(FB_PAGES) /\ new = Frames(i, FB_PAGES)
    OBVIOUS
  <1>5. CASE i = -1
    BY <1>2, <1>3, <1>4, <1>5 DEF fb_init
  <1>6. CASE i # -1
    <2>1. new \subseteq 0 .. KV - 1
      BY <1>3, <1>4, <1>6, FbLow
    <2>2. /\ pmm' = Taken(i, FB_PAGES) /\ l1' = MapFramebuffer(new)
          /\ UNCHANGED <<devices, kernel_phys_base, heap_top, user>>
      BY <1>2, <1>4, <1>6 DEF fb_init
    <2>3. /\ l1' \in [Sections -> Sections \cup {NoMap, DevTable}] /\ Window'
          /\ \A f \in new : l1'[f \div SECTION] = f \div SECTION
      BY <1>3, <2>1, <2>2, FbMapped
    <2>4. /\ mem' = [p \in DOMAIN mem |-> IF p \in new THEN "pixels" ELSE mem[p]]
          /\ fb' = new /\ step' = "dev"
      BY <1>2, <1>4, <1>6, <2>3 DEF fb_init
    <2>5. mem' = Fill(new, "pixels")
      <3>1. DOMAIN mem = 0 .. ADDR_PAGES - 1
        BY DEF Started, MapInv, StageInv
      <3>2. QED BY <2>4, <3>1 DEF Fill
    <2>6. pmm'.base = pmm.base /\ pmm'.total = pmm.total /\ new \cap Kept = {}
      BY <1>3, <1>4, <1>6, <2>2, Take
    <2>7. new \subseteq 0 .. ADDR_PAGES - 1
      BY <1>1, <2>1 DEF Ground
    <2>8. Screen(new)
      BY <1>3, <2>2, <2>3, <2>4, <2>5, <2>6, <2>7 DEF Screen
    <2>9. QED BY <1>3, <2>4, <2>8
  <1>7. QED BY <1>5, <1>6

\* A process gets the frame f.
Handed(f) ==
    /\ f \in 0 .. ADDR_PAGES - 1 /\ f \notin Kept /\ f \notin fb
    /\ mem' = Fill({f}, "user")
    /\ pmm'.base = pmm.base /\ pmm'.total = pmm.total

LEMMA AllocEffect ==
    ASSUME Started, FramesInv, mm_page_alloc, step \in {"process", "user"}, blob' = blob
    PROVE  \E f : Handed(f)
  <1>1. PICK i, f : /\ i = FindRun(1) /\ i # -1 /\ pmm' = Taken(i, 1) /\ f = pmm.base + i
                    /\ mem' = [mem EXCEPT ![f] = "user"]
    BY DEF mm_page_alloc
  <1>2. PICK base \in Nat, total \in Nat : base = pmm.base /\ total = pmm.total /\ pmm.hint < total
    BY DEF FramesInv, PmmInv, HeapInv
  <1>3. i \in Nat /\ i + 1 <= total
    BY <1>1, <1>2, RunFound DEF FramesInv
  <1>4. PICK new : new = Frames(i, 1) /\ f \in new
    BY <1>1, <1>2, <1>3 DEF Frames
  <1>5. /\ pmm'.base = pmm.base /\ pmm'.total = pmm.total
        /\ new \cap (fb \cup user) = {} /\ new \cap Kept = {}
    BY <1>1, <1>4, Take DEF Started
  <1>6. f \in 0 .. ADDR_PAGES - 1
    <2>1. base + total < ADDR_PAGES /\ ADDR_PAGES \in Nat
      BY <1>2, BootConstants DEF Started, MapInv, StageInv
    <2>2. QED BY <1>1, <1>2, <1>3, <2>1
  <1>7. mem' = Fill({f}, "user")
    <2>1. mem = [p \in 0 .. ADDR_PAGES - 1 |-> mem[p]]
      BY DEF Started, MapInv, StageInv
    <2>2. QED BY <1>1, <1>6, <2>1 DEF Fill
  <1>8. Handed(f)
    BY <1>4, <1>5, <1>6, <1>7 DEF Handed
  <1>9. QED BY <1>8

-----------------------------------------------------------------------------
(* The invariant of the map.                                               *)

LEMMA MapStart ==
    ASSUME Layout, Init
    PROVE  MapInv
  <1>1. blob \in Blobs
    BY DEF Init, DtbInit
  <1>2. PICK S \in Nat \ {0}, A \in Nat, D \in Nat, K \in Nat, bp \in Nat, most \in Nat :
              Ground(S, A, D, K, bp, most)
    BY <1>1, Grounds
  <1>3. TranslationInv
    BY DEF Init, TranslationInv
  <1>4. pmm.base + pmm.total < ADDR_PAGES
    <2>1. pmm.base = 0 /\ pmm.total = 0
      BY DEF Init, NoPmm
    <2>2. 0 < ADDR_PAGES
      BY <1>2 DEF Ground
    <2>3. QED BY <2>1, <2>2
  <1>5. early_heap_ptr \in 0 .. EARLY_HEAP_SIZE
    BY DtbConstants DEF Init, DtbInit
  <1>6. StageInv
    BY <1>4, <1>5 DEF Init, StageInv
  <1>7. QED BY <1>3, <1>6 DEF MapInv

LEMMA FillShape ==
    ASSUME NEW area, NEW what, mem' = Fill(area, what)
    PROVE  mem' = [p \in 0 .. ADDR_PAGES - 1 |-> mem'[p]]
  BY DEF Fill

\* A stage that neither starts the allocator nor changes the RAM it has.
LEMMA StageStep ==
    ASSUME StageInv, blob' = blob, mem' = [p \in 0 .. ADDR_PAGES - 1 |-> mem'[p]],
           kernel_phys_base' \in {0, Kphys}, early_heap_ptr' \in 0 .. EARLY_HEAP_SIZE,
           pmm'.base = pmm.base, pmm'.total = pmm.total,
           step' \in {"copy", "zero", "base", "parse", "dev", "process", "user", "halt", "fault",
                      "fork_fault"},
           step' = "dev" => heap_top' = 1, step' = "process" => heap_top' = 2,
           step' = "user" => heap_top' = 3
    PROVE  StageInv'
  <1>1. Kphys' = Kphys
    BY DEF Kphys, Dtb0
  <1>2. QED BY <1>1 DEF StageInv

\* The machine halts, or stops at a fault.
LEMMA HaltStep ==
    ASSUME Started, Halt \/ Fault, UNCHANGED dtbVars
    PROVE  MapInv'
  <1>1. blob' = blob /\ early_heap_ptr' = early_heap_ptr
    BY DEF dtbVars
  <1>2. step' \in {"halt", "fault"} /\ UNCHANGED <<l1, devices, mem, kernel_phys_base, pmm>>
    BY DEF Halt, Fault
  <1>3. TranslationInv'
    BY <1>1, <1>2, SameTable DEF Started, MapInv
  <1>4. StageInv'
    <2>1. StageInv
      BY DEF Started, MapInv
    <2>2. kernel_phys_base' \in {0, Kphys} /\ mem' = [p \in 0 .. ADDR_PAGES - 1 |-> mem'[p]]
      BY <1>2, <2>1 DEF StageInv
    <2>3. early_heap_ptr' \in 0 .. EARLY_HEAP_SIZE
      BY <1>1, <2>1 DEF StageInv
    <2>4. QED BY <1>1, <1>2, <2>1, <2>2, <2>3, StageStep
  <1>5. QED BY <1>3, <1>4 DEF MapInv

\* A process gets a frame.
LEMMA HandedStep ==
    ASSUME Started, FramesInv, mm_page_alloc, step \in {"process", "user"}, UNCHANGED dtbVars,
           step' = step \/ step' = "fork_fault",
           UNCHANGED <<l1, devices, kernel_phys_base, heap_top, fb>>
    PROVE  MapInv'
  <1>1. blob' = blob /\ early_heap_ptr' = early_heap_ptr
    BY DEF dtbVars
  <1>2. PICK f : Handed(f)
    BY <1>1, AllocEffect
  <1>3. TranslationInv'
    BY <1>1, SameTable DEF Started, MapInv
  <1>4. StageInv'
    <2>1. StageInv
      BY DEF Started, MapInv
    <2>2. mem' = [p \in 0 .. ADDR_PAGES - 1 |-> mem'[p]] /\ pmm'.base = pmm.base /\ pmm'.total = pmm.total
      BY <1>2, FillShape DEF Handed
    <2>3. early_heap_ptr' \in 0 .. EARLY_HEAP_SIZE /\ kernel_phys_base' \in {0, Kphys}
      BY <1>1, <2>1 DEF StageInv
    <2>4. (step' = "process" => heap_top' = 2) /\ (step' = "user" => heap_top' = 3)
      BY <2>1 DEF StageInv
    <2>5. QED BY <1>1, <2>1, <2>2, <2>3, <2>4, StageStep
  <1>5. QED BY <1>3, <1>4 DEF MapInv

\* The framebuffer is allocated, or there is no screen.
LEMMA FbMapStep ==
    ASSUME Started, FramesInv, fb_init
    PROVE  MapInv'
  <1>1. StageInv /\ TranslationInv
    BY DEF Started, MapInv
  <1>2. step = "fb" /\ step' = "dev" /\ UNCHANGED <<dtbVars, devices, kernel_phys_base, heap_top, user>>
    BY FbEffect DEF Screen
  <1>3. blob' = blob /\ early_heap_ptr' = early_heap_ptr
    BY <1>2 DEF dtbVars
  <1>4. TranslationInv' /\ mem' = [p \in 0 .. ADDR_PAGES - 1 |-> mem'[p]]
          /\ pmm'.base = pmm.base /\ pmm'.total = pmm.total
    <2>1. CASE UNCHANGED <<dtbVars, l1, devices, mem, kernel_phys_base, pmm, heap_top, fb, user>>
      BY <1>1, <1>2, <1>3, <2>1, SameTable DEF StageInv
    <2>2. ASSUME NEW new, Screen(new)
          PROVE  TranslationInv' /\ mem' = [p \in 0 .. ADDR_PAGES - 1 |-> mem'[p]]
                   /\ pmm'.base = pmm.base /\ pmm'.total = pmm.total
      BY <1>1, <1>2, <2>2, FillShape DEF TranslationInv, Screen
    <2>3. QED BY <2>1, <2>2, FbEffect
  <1>5. heap_top' = 1 /\ kernel_phys_base' \in {0, Kphys} /\ early_heap_ptr' \in 0 .. EARLY_HEAP_SIZE
    BY <1>1, <1>2, <1>3 DEF StageInv
  <1>6. StageInv'
    BY <1>1, <1>2, <1>3, <1>4, <1>5, StageStep
  <1>7. QED BY <1>4, <1>6 DEF MapInv

\* The page allocator starts.
LEMMA MmInitMapStep ==
    ASSUME Started, DtbInv, FramesInv, RamLow, mm_init
    PROVE  MapInv'
  <1>1. CASE Halt /\ UNCHANGED dtbVars
    BY <1>1, HaltStep
  <1>2. ASSUME NEW area, Settled(area) PROVE MapInv'
    <2>1. blob' = blob /\ Kphys' = Kphys
      BY <1>2 DEF Settled, Kphys, Dtb0
    <2>2. TranslationInv'
      BY <1>2, <2>1, SameTable DEF Started, MapInv, Settled
    <2>3. kernel_phys_base' \in {0, Kphys'} /\ 0 \in 0 .. EARLY_HEAP_SIZE
      BY <1>2, <2>1, DtbConstants DEF Settled, Started, MapInv, StageInv
    <2>4. Kept' = area \cup HeapFrames
      BY <1>2, <2>1 DEF Settled, Kept, HeapFrames
    <2>5. mem' = [p \in 0 .. ADDR_PAGES - 1 |-> mem'[p]]
      BY <1>2 DEF Settled
    <2>6. StageInv'
      BY <1>2, <2>3, <2>4, <2>5 DEF Settled, StageInv
    <2>7. QED BY <2>2, <2>6 DEF MapInv
  <1>3. QED BY <1>1, <1>2, MmInitEffect

\* The table is filled.
LEMMA TableMapStep ==
    ASSUME Layout, blob \in Blobs, MapInv, init_mmu
    PROVE  MapInv'
  <1>1. /\ map_sections /\ step' = "copy"
        /\ UNCHANGED <<blob, early_heap_ptr, kernel_phys_base, pmm, heap_top, fb, user>>
    BY DEF init_mmu, dtbVars
  <1>2. TranslationInv'
    <2>1. devices' = AllDevices
      BY <1>1 DEF map_sections
    <2>2. QED BY <1>1, <2>1, TableFilled DEF TranslationInv
  <1>3. StageInv'
    <2>1. StageInv
      BY DEF MapInv
    <2>2. mem' = [p \in 0 .. ADDR_PAGES - 1 |-> mem'[p]]
      <3>1. DOMAIN mem = 0 .. ADDR_PAGES - 1
        BY <2>1 DEF StageInv
      <3>2. QED BY <1>1, <3>1 DEF map_sections
    <2>3. kernel_phys_base' \in {0, Kphys} /\ early_heap_ptr' \in 0 .. EARLY_HEAP_SIZE
      BY <1>1, <2>1 DEF StageInv
    <2>4. QED BY <1>1, <2>1, <2>2, <2>3, StageStep
  <1>4. QED BY <1>2, <1>3 DEF MapInv

\* kboot, the parser, the devices and process_exec.
LEMMA WriteMapStep ==
    ASSUME Started, CopyImage \/ ZeroBss \/ EnterKmain \/ Parse \/ InitDevices \/ ExecInit
    PROVE  MapInv'
  <1>1. StageInv /\ TranslationInv /\ Layout /\ blob \in Blobs
    BY DEF Started, MapInv
  <1>2. CASE CopyImage
    <2>1. /\ step = "copy" /\ step' = "zero" /\ mem' = Fill(Kphys .. Kphys + TEXT_END - 1, "text")
          /\ UNCHANGED <<blob, early_heap_ptr, l1, devices, kernel_phys_base, pmm>>
      BY <1>2, CopyEffect DEF dtbVars
    <2>2. TranslationInv'
      BY <1>1, <2>1, SameTable
    <2>3. mem' = [p \in 0 .. ADDR_PAGES - 1 |-> mem'[p]]
      BY <2>1, FillShape
    <2>4. kernel_phys_base' \in {0, Kphys} /\ early_heap_ptr' \in 0 .. EARLY_HEAP_SIZE
      BY <1>1, <2>1 DEF StageInv
    <2>5. StageInv'
      BY <1>1, <2>1, <2>3, <2>4, StageStep
    <2>6. QED BY <2>2, <2>5 DEF MapInv
  <1>3. CASE ZeroBss
    <2>1. /\ step = "zero" /\ step' = "base" /\ kernel_phys_base' = 0
          /\ mem' = Fill(Kphys + TT_END .. Kphys + BSS_END - 1, "bss")
          /\ UNCHANGED <<blob, early_heap_ptr, l1, devices, pmm>>
      BY <1>3, ZeroEffect DEF dtbVars
    <2>2. TranslationInv'
      BY <1>1, <2>1, SameTable
    <2>3. mem' = [p \in 0 .. ADDR_PAGES - 1 |-> mem'[p]]
      BY <2>1, FillShape
    <2>4. kernel_phys_base' \in {0, Kphys} /\ early_heap_ptr' \in 0 .. EARLY_HEAP_SIZE
      BY <1>1, <2>1 DEF StageInv
    <2>5. StageInv'
      BY <1>1, <2>1, <2>3, <2>4, StageStep
    <2>6. QED BY <2>2, <2>5 DEF MapInv
  <1>4. CASE EnterKmain
    <2>1. /\ step = "base" /\ step' = "parse" /\ kernel_phys_base' = Kphys
          /\ mem' = Fill({Kphys + SECTION - 2}, "stack") /\ l1' = [l1 EXCEPT ![0] = NoMap]
          /\ UNCHANGED <<blob, early_heap_ptr, devices, pmm>>
      BY <1>4, EnterEffect DEF dtbVars
    <2>2. TranslationInv'
      <3>1. PICK S \in Nat \ {0}, N \in Nat, ker \in Nat, dev \in Nat, ds \in Nat, most \in Nat :
                  Place(S, N, ker, dev, ds, most)
        BY <1>1, Places
      <3>2. 1 <= ds /\ ds + 6 <= ker /\ ker + 4 <= dev /\ dev < N
        BY <3>1 DEF Place
      <3>3. /\ Sections = 0 .. N - 1 /\ ker = KERNEL_SEC /\ dev = DEVICE_SEC /\ ds = Dtb0 \div SECTION
        BY <3>1 DEF Place
      <3>4. /\ \A j \in 0 .. 3 : l1[ker + j] = ds + 2 + j /\ l1[ds + j] = ds + j
            /\ l1[dev] = DevTable /\ devices = AllDevices
        BY <1>1, <2>1, <3>3 DEF TranslationInv, Window
      <3>5. l1 \in [0 .. N - 1 -> Sections \cup {NoMap, DevTable}]
        BY <1>1, <3>3 DEF TranslationInv
      <3>6. \A j \in 0 .. 3 : l1'[ker + j] = ds + 2 + j /\ l1'[ds + j] = ds + j
        <4> SUFFICES ASSUME NEW j \in 0 .. 3
                     PROVE  l1'[ker + j] = ds + 2 + j /\ l1'[ds + j] = ds + j
          OBVIOUS
        <4>1. ker + j \in 0 .. N - 1 /\ ker + j # 0 /\ ds + j \in 0 .. N - 1 /\ ds + j # 0
          BY <3>2
        <4>2. QED BY <2>1, <3>4, <3>5, <4>1
      <3>7. l1'[dev] = DevTable /\ l1' \in [Sections -> Sections \cup {NoMap, DevTable}]
        BY <2>1, <3>2, <3>3, <3>4, <3>5
      <3>8. Window'
        BY <2>1, <3>3, <3>4, <3>6, <3>7 DEF Window, Dtb0
      <3>9. QED BY <1>1, <2>1, <3>7, <3>8 DEF TranslationInv
    <2>3. mem' = [p \in 0 .. ADDR_PAGES - 1 |-> mem'[p]]
      BY <2>1, FillShape
    <2>4. kernel_phys_base' \in {0, Kphys} /\ early_heap_ptr' \in 0 .. EARLY_HEAP_SIZE
      BY <1>1, <2>1 DEF StageInv
    <2>5. StageInv'
      BY <1>1, <2>1, <2>3, <2>4, StageStep
    <2>6. QED BY <2>2, <2>5 DEF MapInv
  <1>5. CASE Parse /\ Parsed
    <2>1. /\ step = "parse" /\ DtbNext
          /\ mem' = IF early_heap_ptr' > 0 THEN Fill(EarlyHeap, "pools") ELSE mem
          /\ UNCHANGED <<step, l1, devices, kernel_phys_base, pmm>>
      BY <1>5, ParseEffect DEF Parsed
    <2>2. blob' = blob
      BY <1>5, BlobSame DEF Next
    <2>3. TranslationInv'
      BY <1>1, <2>1, <2>2, SameTable
    <2>4. mem' = [p \in 0 .. ADDR_PAGES - 1 |-> mem'[p]]
      BY <1>1, <2>1, FillShape DEF StageInv
    <2>5. kernel_phys_base' \in {0, Kphys} /\ early_heap_ptr' \in 0 .. EARLY_HEAP_SIZE
      BY <1>1, <2>1, EarlyStep DEF StageInv
    <2>6. StageInv'
      BY <1>1, <2>1, <2>2, <2>4, <2>5, StageStep
    <2>7. QED BY <2>3, <2>6 DEF MapInv
  <1>6. CASE InitDevices
    <2>1. /\ step = "dev" /\ step' = "process" /\ heap_top' = 2
          /\ mem' = Fill({Kphys + BSS_END + 1}, "heap")
          /\ UNCHANGED <<blob, early_heap_ptr, l1, devices, kernel_phys_base, pmm>>
      BY <1>6, DevicesEffect DEF dtbVars
    <2>2. TranslationInv'
      BY <1>1, <2>1, SameTable
    <2>3. mem' = [p \in 0 .. ADDR_PAGES - 1 |-> mem'[p]]
      BY <2>1, FillShape
    <2>4. kernel_phys_base' \in {0, Kphys} /\ early_heap_ptr' \in 0 .. EARLY_HEAP_SIZE
      BY <1>1, <2>1 DEF StageInv
    <2>5. StageInv'
      BY <1>1, <2>1, <2>3, <2>4, StageStep
    <2>6. QED BY <2>2, <2>5 DEF MapInv
  <1>7. CASE ExecInit
    <2>1. /\ step = "process" /\ step' = "user" /\ heap_top' = 3
          /\ mem' = Fill({Kphys + BSS_END + 2}, "heap")
          /\ UNCHANGED <<blob, early_heap_ptr, l1, devices, kernel_phys_base, pmm>>
      BY <1>7, ExecEffect DEF dtbVars
    <2>2. TranslationInv'
      BY <1>1, <2>1, SameTable
    <2>3. mem' = [p \in 0 .. ADDR_PAGES - 1 |-> mem'[p]]
      BY <2>1, FillShape
    <2>4. kernel_phys_base' \in {0, Kphys} /\ early_heap_ptr' \in 0 .. EARLY_HEAP_SIZE
      BY <1>1, <2>1 DEF StageInv
    <2>5. StageInv'
      BY <1>1, <2>1, <2>3, <2>4, StageStep
    <2>6. QED BY <2>2, <2>5 DEF MapInv
  <1>8. CASE Broken
    BY <1>8, HaltStep DEF Broken
  <1>9. QED BY <1>2, <1>3, <1>4, <1>5, <1>6, <1>7, <1>8, ParseEffect

\* A process gives a frame back.
LEMMA FreeMapStep ==
    ASSUME Started, FramesInv, mm_page_free
    PROVE  MapInv' /\ pmm'.base = pmm.base /\ pmm'.total = pmm.total
  <1>1. StageInv /\ TranslationInv
    BY DEF Started, MapInv
  <1>2. /\ step = "user" /\ step' = "user"
        /\ UNCHANGED <<blob, early_heap_ptr, l1, devices, mem, kernel_phys_base, heap_top>>
    BY DEF mm_page_free, dtbVars
  <1>3. pmm'.base = pmm.base /\ pmm'.total = pmm.total
    <2>1. PICK base, total, map, hint : pmm = [base |-> base, total |-> total, bitmap |-> map, hint |-> hint]
      BY DEF FramesInv, PmmInv
    <2>2. \E m2, h2 : pmm' = [pmm EXCEPT !.bitmap = m2, !.hint = h2]
      BY DEF mm_page_free
    <2>3. QED BY <2>1, <2>2
  <1>4. TranslationInv'
    BY <1>1, <1>2, SameTable
  <1>5. /\ kernel_phys_base' \in {0, Kphys} /\ early_heap_ptr' \in 0 .. EARLY_HEAP_SIZE
        /\ mem' = [p \in 0 .. ADDR_PAGES - 1 |-> mem'[p]] /\ heap_top' = 3
    BY <1>1, <1>2 DEF StageInv
  <1>6. StageInv'
    BY <1>1, <1>2, <1>3, <1>5, StageStep
  <1>7. QED BY <1>3, <1>4, <1>6 DEF MapInv

LEMMA MapStep ==
    ASSUME Layout, DtbInv, FramesInv, RamLow, MapInv, [Next]_vars
    PROVE  MapInv'
  <1>1. blob \in Blobs
    BY DEF DtbInv, ParserInv
  <1>2. CASE init_mmu
    BY <1>1, <1>2, TableMapStep
  <1>3. CASE UNCHANGED vars
    BY <1>3 DEF vars, bootVars, dtbVars, MapInv, TranslationInv, StageInv, Window, Kphys, Dtb0, Kept,
                BitmapFrames, HeapFrames
  <1>4. CASE Next /\ ~ init_mmu
    <2>1. Started
      BY <1>1, <1>4 DEF Started, Next, CopyImage, ZeroBss, EnterKmain, Parse, ParseFailed, mm_init, fb_init,
                        InitDevices, MountFailed, CreateInit, ExecInit, MapUserPage, ForkCopy, mm_page_free
    <2>2. CASE CopyImage \/ ZeroBss \/ EnterKmain \/ Parse \/ InitDevices \/ ExecInit
      BY <2>1, <2>2, WriteMapStep
    <2>3. CASE mm_init
      BY <2>1, <2>3, MmInitMapStep
    <2>4. CASE fb_init
      BY <2>1, <2>4, FbMapStep
    <2>5. CASE ParseFailed \/ MountFailed
      BY <2>1, <2>5, HaltStep DEF ParseFailed, MountFailed
    <2>6. CASE CreateInit
      <3>1. CASE Halt
        BY <2>1, <2>6, <3>1, HaltStep DEF CreateInit
      <3>2. CASE ~ Halt
        BY <2>1, <2>6, <3>2, HandedStep DEF CreateInit
      <3>3. QED BY <3>1, <3>2
    <2>7. CASE MapUserPage
      BY <2>1, <2>7, HandedStep DEF MapUserPage
    <2>8. CASE ForkCopy
      BY <2>1, <2>8, HandedStep DEF ForkCopy
    <2>9. CASE mm_page_free
      BY <2>1, <2>9, FreeMapStep
    <2>10. QED BY <1>4, <2>2, <2>3, <2>4, <2>5, <2>6, <2>7, <2>8, <2>9 DEF Next
  <1>5. QED BY <1>2, <1>3, <1>4

\* No step of the boot faults but one of the parser that reads out of bounds.
LEMMA SafeStep ==
    ASSUME Layout, DtbInv, FramesInv, ReadInv, RamLow, MapInv, BootNeverFaults, [Next]_vars
    PROVE  BootNeverFaults'
  <1> SUFFICES ASSUME Sized, step # "fault" PROVE step' # "fault"
    <2>1. Sized' <=> Sized
      BY BlobSame, SameBlob
    <2>2. QED BY <2>1 DEF BootNeverFaults
  <1>1. blob \in Blobs
    BY DEF DtbInv, ParserInv
  <1>2. CASE init_mmu
    BY <1>2 DEF init_mmu
  <1>3. CASE UNCHANGED vars
    BY <1>3 DEF vars, bootVars
  <1>4. CASE Next /\ ~ init_mmu
    <2>1. Started
      BY <1>1, <1>4 DEF Started, Next, CopyImage, ZeroBss, EnterKmain, Parse, ParseFailed, mm_init, fb_init,
                        InitDevices, MountFailed, CreateInit, ExecInit, MapUserPage, ForkCopy, mm_page_free
    <2>2. CASE CopyImage
      BY <2>1, <2>2, CopyEffect
    <2>3. CASE ZeroBss
      BY <2>1, <2>3, ZeroEffect
    <2>4. CASE EnterKmain
      BY <2>1, <2>4, EnterEffect
    <2>5. CASE Parse
      BY <2>1, <2>5, ParseSafe DEF Parsed
    <2>6. CASE mm_init
      BY <2>1, <2>6, MmInitEffect DEF Halt, Settled
    <2>7. CASE fb_init
      BY <2>1, <2>7, FbEffect DEF Screen
    <2>8. CASE InitDevices \/ ExecInit
      BY <2>1, <2>8, DevicesEffect, ExecEffect
    <2>9. CASE ParseFailed \/ MountFailed \/ CreateInit \/ MapUserPage \/ ForkCopy \/ mm_page_free
      BY <2>9 DEF ParseFailed, MountFailed, CreateInit, MapUserPage, ForkCopy, mm_page_free, Halt
    <2>10. QED BY <1>4, <2>2, <2>3, <2>4, <2>5, <2>6, <2>7, <2>8, <2>9 DEF Next
  <1>5. QED BY <1>2, <1>3, <1>4

\* MapInv and BootNeverFaults are inductive relative to the invariants of the
\* parser and of the page allocator.
THEOREM MapInductive ==
    ASSUME Layout
    PROVE  Spec /\ []RamLow => [](MapInv /\ BootNeverFaults)
  <1>1. Init => MapInv /\ BootNeverFaults /\ ReadInv
    BY MapStart, ReadStart DEF Init, BootNeverFaults
  <1>2. DtbInv /\ ReadInv /\ [Next]_vars => ReadInv'
    BY ReadStep
  <1>3. DtbInv /\ FramesInv /\ RamLow /\ MapInv /\ [Next]_vars => MapInv'
    BY MapStep
  <1>4. DtbInv /\ FramesInv /\ ReadInv /\ RamLow /\ MapInv /\ BootNeverFaults /\ [Next]_vars => BootNeverFaults'
    BY SafeStep
  <1>5. QED BY <1>1, <1>2, <1>3, <1>4, ParserInductive, FramesInductive, PTL DEF Spec

\* In the layout of the linker script and of the virt machine, with RAM that
\* starts low enough for a framebuffer, the boot never touches an unmapped page,
\* nor does the parser read one: for every blob whose numbers are in bounds
\* (Sized), however damaged it is otherwise, however large the RAM, wherever the
\* framebuffer and the frames of processes are allocated.
THEOREM MapAlwaysOK ==
    ASSUME Layout
    PROVE  Spec /\ []RamLow => []MapOK
  <1>1. DtbInv /\ FramesInv /\ MapInv /\ BootNeverFaults => MapOK
    <2> SUFFICES ASSUME DtbInv, FramesInv, MapInv, BootNeverFaults PROVE MapOK
      OBVIOUS
    <2>1. blob \in Blobs
      BY DEF DtbInv, ParserInv
    <2>2. PICK S \in Nat \ {0}, A \in Nat, D \in Nat, K \in Nat, bp \in Nat, most \in Nat :
                Ground(S, A, D, K, bp, most)
      BY <2>1, Grounds
    <2>3. kernel_phys_base \in 0 .. ADDR_PAGES - 1
      <3>1. K = Kphys /\ A = ADDR_PAGES /\ K < A
        BY <2>2 DEF Ground
      <3>2. kernel_phys_base = 0 \/ kernel_phys_base = K
        BY <3>1 DEF MapInv, StageInv
      <3>3. QED BY <3>1, <3>2
    <2>4. fb \cup user \subseteq DOMAIN mem
      <3>1. DOMAIN mem = 0 .. ADDR_PAGES - 1 /\ ADDR_PAGES \in Nat
        BY BootConstants DEF MapInv, StageInv
      <3>2. PICK base \in Nat, total \in Nat :
               base = pmm.base /\ total = pmm.total /\ base + total < ADDR_PAGES
        BY DEF MapInv, StageInv, FramesInv, PmmInv
      <3>3. \A f \in fb \cup user : f \in Nat /\ f - base \in 0 .. total - 1
        BY <3>2 DEF FramesInv, PmmInv
      <3>4. \A f \in fb \cup user : f \in 0 .. ADDR_PAGES - 1
        BY <3>1, <3>2, <3>3
      <3>5. QED BY <3>1, <3>4
    <2>5. ahead.depth \in 0 .. R - 1 /\ ahead.count \in 0 .. R - 1
      BY DEF DtbInv, ParserInv, AheadT
    <2>6. TypeOK
      BY <2>3, <2>4, <2>5 DEF TypeOK, MapInv, TranslationInv, StageInv, FramesInv, PmmInv, DtbInv, ParserInv
    <2>7. QED BY <2>6 DEF MapOK
  <1>2. QED BY <1>1, MapInductive, ParserInductive, FramesInductive, PTL

-----------------------------------------------------------------------------
(* What the pages hold.                                                    *)

\* The parts of the image and what lies behind it, as physical pages.
TextAt == Kphys .. Kphys + TEXT_END - 1
TableAt == Kphys + TEXT_END .. Kphys + TT_END - 1
BssAt == Kphys + TT_END .. Kphys + BSS_END - 1
HeapAt(n) == Kphys + BSS_END .. Kphys + BSS_END + n - 1
StackAt == {Kphys + SECTION - 2}
BitmapAt == {Dtb0 + blob.pages + EARLY_PAGES}
BlobAt == DtbPages \ FirstStack

\* mm_init leaves the image free, so a process or the framebuffer may get pages
\* of it.
Given == {"user", "pixels"}

Holds(m, pages, whats) == \A p \in pages : m[p] \in whats

TextHeld == step \notin {"reset", "copy"} => Holds(mem, TextAt, {"text"} \cup Given)
TableHeld == step # "reset" => Holds(mem, TableAt, {"table"} \cup Given)
StackHeld == step \in {"parse", "fb", "dev", "process", "user"} => Holds(mem, StackAt, {"stack"})
FirstHeld == step \in {"copy", "zero", "base"} => Holds(mem, FirstStack, {"stack0"})
BlobHeld == step \in {"reset", "copy", "zero", "base", "parse"} => Holds(mem, BlobAt, {"dtb"})
PoolsHeld ==
    /\ step \in {"reset", "copy", "zero", "base"} => early_heap_ptr = 0
    /\ step = "parse" /\ early_heap_ptr > 0 => Holds(mem, EarlyHeap, {"pools"})
RestHeld ==
    step \in {"fb", "dev", "process", "user"} =>
        /\ Holds(mem, HeapAt(heap_top), {"heap"})
        /\ Holds(mem, BitmapAt, {"bitmap"})
        /\ Holds(mem, fb, {"pixels"})

ContentInv == TextHeld /\ TableHeld /\ StackHeld /\ FirstHeld /\ BlobHeld /\ PoolsHeld /\ RestHeld

\* The parts lie in memory and apart from each other; the part of the heap in use
\* and the stack are frames mm_init keeps.
Apart ==
    /\ TextAt \cup TableAt \cup HeapAt(3) \cup StackAt \subseteq Kphys .. ADDR_PAGES - 1
    /\ DtbPages \cup EarlyHeap \cup BitmapAt \subseteq 0 .. ADDR_PAGES - 1
    /\ Kphys .. ADDR_PAGES - 1 \subseteq 0 .. ADDR_PAGES - 1
    /\ TextAt \cap (TableAt \cup BssAt \cup HeapAt(3) \cup StackAt) = {}
    /\ TableAt \cap (BssAt \cup HeapAt(3) \cup StackAt) = {}
    /\ StackAt \cap HeapAt(3) = {}
    /\ DtbPages \cup EarlyHeap \cup FirstStack \subseteq Dtb0 .. Kphys - 1
    /\ FirstStack \subseteq 0 .. ADDR_PAGES - 1
    /\ DtbPages \cap EarlyHeap = {}
    /\ BssAt \subseteq Kphys .. ADDR_PAGES - 1
    /\ (Dtb0 .. Kphys - 1) \cap (Kphys .. ADDR_PAGES - 1) = {}
    /\ HeapAt(3) \cup StackAt \subseteq HeapFrames

LEMMA AllApart ==
    ASSUME Layout, blob \in Blobs
    PROVE  Apart
  <1>1. PICK S \in Nat \ {0}, A \in Nat, D \in Nat, K \in Nat, bp \in Nat, most \in Nat :
              Ground(S, A, D, K, bp, most)
    BY Grounds
  <1>2. PICK t \in Nat, u \in Nat, b \in Nat, e \in Nat, h \in Nat, n \in Nat, kv \in Nat :
           /\ t = TEXT_END /\ u = TT_END /\ b = BSS_END /\ e = EARLY_PAGES /\ h = KHEAP_PAGES
           /\ n = FB_PAGES /\ kv = KV
    BY <1>1 DEF Ground
  <1>3. /\ 0 < D /\ D + bp + e + most <= K /\ K + b + h + n <= kv /\ kv + 4 * S <= A
        /\ 0 < t /\ t < u /\ u < b /\ b + 3 <= S - 2 /\ S - 2 < b + h
    BY <1>1, <1>2 DEF Ground
  <1>4. /\ TextAt = K .. K + t - 1 /\ TableAt = K + t .. K + u - 1 /\ BssAt = K + u .. K + b - 1
        /\ HeapAt(3) = K + b .. K + b + 2 /\ StackAt = {K + S - 2} /\ BitmapAt = {D + bp + e}
        /\ DtbPages = D .. D + bp - 1 /\ EarlyHeap = D + bp .. D + bp + e - 1
        /\ HeapFrames = K + b .. K + b + h - 1 /\ A = ADDR_PAGES /\ K = Kphys /\ D = Dtb0
    BY <1>1, <1>2 DEF Ground, TextAt, TableAt, BssAt, HeapAt, StackAt, BitmapAt, DtbPages, EarlyHeap,
                      HeapFrames
  <1>5. /\ K .. K + t - 1 \subseteq K .. A - 1 /\ K + t .. K + u - 1 \subseteq K .. A - 1
        /\ K + b .. K + b + 2 \subseteq K .. A - 1 /\ K + S - 2 \in K .. A - 1
        /\ K + u .. K + b - 1 \subseteq K .. A - 1
    BY <1>3
  <1>6. /\ D .. D + bp - 1 \subseteq D .. K - 1 /\ D + bp .. D + bp + e - 1 \subseteq D .. K - 1
        /\ D + bp + e \in 0 .. A - 1 /\ D .. K - 1 \subseteq 0 .. A - 1 /\ K .. A - 1 \subseteq 0 .. A - 1
        /\ (D .. D + bp - 1) \cap (D + bp .. D + bp + e - 1) = {}
        /\ (D .. K - 1) \cap (K .. A - 1) = {}
    BY <1>3
  <1>7. /\ (K .. K + t - 1) \cap (K + t .. K + u - 1) = {} /\ (K .. K + t - 1) \cap (K + u .. K + b - 1) = {}
        /\ (K .. K + t - 1) \cap (K + b .. K + b + 2) = {} /\ K + S - 2 \notin K .. K + t - 1
        /\ (K + t .. K + u - 1) \cap (K + u .. K + b - 1) = {}
        /\ (K + t .. K + u - 1) \cap (K + b .. K + b + 2) = {} /\ K + S - 2 \notin K + t .. K + u - 1
        /\ K + S - 2 \notin K + b .. K + b + 2
    BY <1>3
  <1>8. K + b .. K + b + 2 \subseteq K + b .. K + b + h - 1 /\ K + S - 2 \in K + b .. K + b + h - 1
    BY <1>3
  <1>9. /\ TextAt \cup TableAt \cup HeapAt(3) \cup StackAt \subseteq Kphys .. ADDR_PAGES - 1
        /\ BssAt \subseteq Kphys .. ADDR_PAGES - 1
        /\ Kphys .. ADDR_PAGES - 1 \subseteq 0 .. ADDR_PAGES - 1
    BY <1>4, <1>5, <1>6
  <1>10. /\ DtbPages \cup EarlyHeap \cup BitmapAt \subseteq 0 .. ADDR_PAGES - 1
         /\ DtbPages \cup EarlyHeap \cup FirstStack \subseteq Dtb0 .. Kphys - 1
         /\ FirstStack \subseteq 0 .. ADDR_PAGES - 1
         /\ DtbPages \cap EarlyHeap = {}
         /\ (Dtb0 .. Kphys - 1) \cap (Kphys .. ADDR_PAGES - 1) = {}
    BY <1>4, <1>6, FirstStackLow
  <1>11. /\ TextAt \cap (TableAt \cup BssAt \cup HeapAt(3) \cup StackAt) = {}
         /\ TableAt \cap (BssAt \cup HeapAt(3) \cup StackAt) = {}
         /\ StackAt \cap HeapAt(3) = {}
    <2>1. /\ TextAt \cap TableAt = {} /\ TextAt \cap BssAt = {} /\ TextAt \cap HeapAt(3) = {}
          /\ TableAt \cap BssAt = {} /\ TableAt \cap HeapAt(3) = {}
      BY <1>4, <1>7
    <2>2. TextAt \cap StackAt = {} /\ TableAt \cap StackAt = {} /\ StackAt \cap HeapAt(3) = {}
      <3>1. PICK s : s = K + S - 2 /\ StackAt = {s} /\ s \notin TextAt /\ s \notin TableAt /\ s \notin HeapAt(3)
        BY <1>4, <1>7
      <3>2. QED BY <3>1
    <2>3. QED BY <2>1, <2>2
  <1>12. HeapAt(3) \cup StackAt \subseteq HeapFrames
    BY <1>4, <1>8
  <1>13. QED BY <1>9, <1>10, <1>11, <1>12 DEF Apart

\* What a write leaves alone still holds what it held, what it covers holds what
\* was written.
LEMMA Untouched ==
    ASSUME NEW area, NEW what, mem' = Fill(area, what), NEW pages, pages \subseteq 0 .. ADDR_PAGES - 1,
           NEW whats, Holds(mem, pages, whats), pages \cap area = {} \/ what \in whats
    PROVE  Holds(mem', pages, whats)
  BY DEF Fill, Holds

LEMMA Covered ==
    ASSUME NEW area, NEW what, mem' = Fill(area, what), NEW pages, pages \subseteq 0 .. ADDR_PAGES - 1,
           pages \subseteq area
    PROVE  Holds(mem', pages, {what})
  BY DEF Fill, Holds

LEMMA PartsSame ==
    ASSUME blob' = blob
    PROVE  /\ TextAt' = TextAt /\ TableAt' = TableAt /\ StackAt' = StackAt /\ BitmapAt' = BitmapAt
           /\ BlobAt' = BlobAt /\ FirstStack' = FirstStack /\ EarlyHeap' = EarlyHeap
  BY DEF TextAt, TableAt, StackAt, BitmapAt, BlobAt, FirstStack, DtbPages, EarlyHeap, Kphys, Dtb0

LEMMA ContentStart ==
    ASSUME Layout, Init
    PROVE  ContentInv
  <1>1. blob \in Blobs /\ step = "reset" /\ early_heap_ptr = 0
    BY DEF Init, DtbInit
  <1>2. DtbPages \subseteq 0 .. ADDR_PAGES - 1
    BY <1>1, AllApart DEF Apart
  <1>3. Holds(mem, BlobAt, {"dtb"})
    BY <1>2 DEF Init, Holds, BlobAt
  <1>4. QED BY <1>1, <1>3 DEF ContentInv, TextHeld, TableHeld, StackHeld, FirstHeld, BlobHeld, PoolsHeld, RestHeld

\* The table is written at its physical address.
LEMMA TableContent ==
    ASSUME Layout, blob \in Blobs, MapInv, ContentInv, init_mmu
    PROVE  ContentInv'
  <1>1. /\ step = "reset" /\ step' = "copy" /\ UNCHANGED <<blob, early_heap_ptr>>
    BY DEF init_mmu, dtbVars
  <1>2. PICK S \in Nat \ {0}, A \in Nat, D \in Nat, K \in Nat, bp \in Nat, most \in Nat :
              Ground(S, A, D, K, bp, most)
    BY Grounds
  <1>3. mem' = [p \in 0 .. ADDR_PAGES - 1 |-> IF p \in TableAt THEN "table"
                                             ELSE IF p \in FirstStack THEN "stack0" ELSE mem[p]]
    <2>1. DOMAIN mem = 0 .. ADDR_PAGES - 1
      BY DEF MapInv, StageInv
    <2>2. \A p \in 0 .. ADDR_PAGES - 1 : p - Kphys + KV \in Table <=> p \in TableAt
      BY <1>2 DEF Ground, Table, TableAt
    <2>3. mem' = [p \in DOMAIN mem |-> IF p - Kphys + KV \in Table THEN "table"
                                       ELSE IF p \in FirstStack THEN "stack0" ELSE mem[p]]
      BY DEF init_mmu, map_sections
    <2>4. QED BY <2>1, <2>2, <2>3
  <1>4. /\ Apart
        /\ BlobAt \cap TableAt = {} /\ FirstStack \cap TableAt = {} /\ BlobAt \cap FirstStack = {}
        /\ TableAt \subseteq 0 .. ADDR_PAGES - 1 /\ FirstStack \subseteq 0 .. ADDR_PAGES - 1
        /\ BlobAt \subseteq 0 .. ADDR_PAGES - 1
    BY AllApart DEF Apart, BlobAt
  <1>5. Holds(mem', FirstStack, {"stack0"})
    BY <1>3, <1>4 DEF Holds
  <1>6. Holds(mem', TableAt, {"table"} \cup Given)
    BY <1>3, <1>4 DEF Holds
  <1>7. Holds(mem', BlobAt, {"dtb"})
    <2>1. Holds(mem, BlobAt, {"dtb"})
      BY <1>1 DEF ContentInv, BlobHeld
    <2>2. QED BY <1>3, <1>4, <2>1 DEF Holds
  <1>8. early_heap_ptr' = 0
    BY <1>1 DEF ContentInv, PoolsHeld
  <1>9. QED BY <1>1, <1>5, <1>6, <1>7, <1>8, PartsSame
              DEF ContentInv, TextHeld, TableHeld, StackHeld, FirstHeld, BlobHeld, PoolsHeld, RestHeld

\* kboot writes the image, clears .bss and sets the stack up.
LEMMA BootContent ==
    ASSUME Started, ContentInv, CopyImage \/ ZeroBss \/ EnterKmain
    PROVE  ContentInv'
  <1>1. Apart
    BY AllApart DEF Started
  <1>2. PICK area, what :
           /\ mem' = Fill(area, what)
           /\ \/ step = "copy" /\ step' = "zero" /\ area = TextAt /\ what = "text"
              \/ step = "zero" /\ step' = "base" /\ area = BssAt /\ what = "bss"
              \/ step = "base" /\ step' = "parse" /\ area = StackAt /\ what = "stack"
           /\ UNCHANGED <<blob, early_heap_ptr>>
    BY CopyEffect, ZeroEffect, EnterEffect DEF dtbVars, TextAt, BssAt, StackAt
  <1>3. Holds(mem', TextAt, {"text"} \cup Given)
    <2>1. CASE step = "copy"
      <3>1. Holds(mem', TextAt, {"text"})
        BY <1>1, <1>2, <2>1, Covered DEF Apart
      <3>2. QED BY <3>1 DEF Holds
    <2>2. CASE step # "copy"
      <3>1. Holds(mem, TextAt, {"text"} \cup Given) /\ TextAt \cap area = {} /\ TextAt \subseteq 0 .. ADDR_PAGES - 1
        BY <1>1, <1>2, <2>2 DEF ContentInv, TextHeld, Apart
      <3>2. QED BY <1>2, <3>1, Untouched
    <2>3. QED BY <2>1, <2>2
  <1>4. Holds(mem', TableAt, {"table"} \cup Given)
    <2>1. /\ Holds(mem, TableAt, {"table"} \cup Given) /\ TableAt \cap area = {}
          /\ TableAt \subseteq 0 .. ADDR_PAGES - 1
      BY <1>1, <1>2 DEF ContentInv, TableHeld, Apart
    <2>2. QED BY <1>2, <2>1, Untouched
  <1>5. Holds(mem', BlobAt, {"dtb"}) /\ Holds(mem', FirstStack, {"stack0"})
    <2>1. area \subseteq Kphys .. ADDR_PAGES - 1
      BY <1>1, <1>2 DEF Apart
    <2>2. Holds(mem, BlobAt, {"dtb"}) /\ BlobAt \cap area = {} /\ BlobAt \subseteq 0 .. ADDR_PAGES - 1
      BY <1>1, <1>2, <2>1 DEF ContentInv, BlobHeld, Apart, BlobAt
    <2>3. /\ Holds(mem, FirstStack, {"stack0"}) /\ FirstStack \cap area = {}
          /\ FirstStack \subseteq 0 .. ADDR_PAGES - 1
      BY <1>1, <1>2, <2>1 DEF ContentInv, FirstHeld, Apart
    <2>4. QED BY <1>2, <2>2, <2>3, Untouched
  <1>6. step' = "parse" => Holds(mem', StackAt, {"stack"})
    <2>1. ASSUME step' = "parse" PROVE Holds(mem', StackAt, {"stack"})
      <3>1. StackAt = area /\ what = "stack" /\ StackAt \subseteq 0 .. ADDR_PAGES - 1
        BY <1>1, <1>2, <2>1 DEF Apart
      <3>2. QED BY <1>2, <3>1, Covered
    <2>2. QED BY <2>1
  <1>7. early_heap_ptr' = 0
    BY <1>2 DEF ContentInv, PoolsHeld
  <1>8. QED BY <1>2, <1>3, <1>4, <1>5, <1>6, <1>7, PartsSame
              DEF ContentInv, TextHeld, TableHeld, StackHeld, FirstHeld, BlobHeld, PoolsHeld, RestHeld

\* The parser fills its pools.
LEMMA ParseContent ==
    ASSUME Started, ContentInv, Parse, Parsed
    PROVE  ContentInv'
  <1>1. Apart
    BY AllApart DEF Started
  <1>2. blob' = blob
    BY BlobSame DEF Next
  <1>3. /\ step = "parse" /\ step' = "parse"
        /\ mem' = IF early_heap_ptr' > 0 THEN Fill(EarlyHeap, "pools") ELSE mem
    BY ParseEffect DEF Parsed
  <1>4. /\ Holds(mem, TextAt, {"text"} \cup Given) /\ Holds(mem, TableAt, {"table"} \cup Given)
        /\ Holds(mem, StackAt, {"stack"}) /\ Holds(mem, BlobAt, {"dtb"})
    BY <1>3 DEF ContentInv, TextHeld, TableHeld, StackHeld, BlobHeld
  <1>5. /\ Holds(mem', TextAt, {"text"} \cup Given) /\ Holds(mem', TableAt, {"table"} \cup Given)
        /\ Holds(mem', StackAt, {"stack"}) /\ Holds(mem', BlobAt, {"dtb"})
        /\ early_heap_ptr' > 0 => Holds(mem', EarlyHeap, {"pools"})
    <2>1. CASE early_heap_ptr' > 0
      <3>1. mem' = Fill(EarlyHeap, "pools")
        BY <1>3, <2>1
      <3>2. /\ TextAt \cap EarlyHeap = {} /\ TableAt \cap EarlyHeap = {} /\ StackAt \cap EarlyHeap = {}
            /\ BlobAt \cap EarlyHeap = {}
        BY <1>1 DEF Apart, BlobAt
      <3>3. /\ TextAt \subseteq 0 .. ADDR_PAGES - 1 /\ TableAt \subseteq 0 .. ADDR_PAGES - 1
            /\ StackAt \subseteq 0 .. ADDR_PAGES - 1 /\ BlobAt \subseteq 0 .. ADDR_PAGES - 1
            /\ EarlyHeap \subseteq 0 .. ADDR_PAGES - 1
        BY <1>1 DEF Apart, BlobAt
      <3>4. Holds(mem', TextAt, {"text"} \cup Given) /\ Holds(mem', TableAt, {"table"} \cup Given)
        BY <1>4, <3>1, <3>2, <3>3, Untouched
      <3>5. Holds(mem', StackAt, {"stack"}) /\ Holds(mem', BlobAt, {"dtb"})
        BY <1>4, <3>1, <3>2, <3>3, Untouched
      <3>6. Holds(mem', EarlyHeap, {"pools"})
        BY <3>1, <3>3, Covered
      <3>7. QED BY <3>4, <3>5, <3>6
    <2>2. CASE ~ (early_heap_ptr' > 0)
      BY <1>3, <1>4, <2>2
    <2>3. QED BY <2>1, <2>2
  <1>6. QED BY <1>2, <1>3, <1>5, PartsSame
              DEF ContentInv, TextHeld, TableHeld, StackHeld, FirstHeld, BlobHeld, PoolsHeld, RestHeld

\* The heap grows from page to page.
LEMMA HeapPages ==
    ASSUME Layout, blob \in Blobs
    PROVE  /\ HeapAt(1) = {Kphys + BSS_END}
           /\ HeapAt(2) = HeapAt(1) \cup {Kphys + BSS_END + 1}
           /\ HeapAt(3) = HeapAt(2) \cup {Kphys + BSS_END + 2}
  <1>1. PICK h \in Nat : h = Kphys + BSS_END
    BY KphysNat, BootConstants
  <1>2. HeapAt(1) = h .. h + 1 - 1 /\ HeapAt(2) = h .. h + 2 - 1 /\ HeapAt(3) = h .. h + 3 - 1
    BY <1>1 DEF HeapAt
  <1>3. h .. h + 1 - 1 = {h} /\ h .. h + 2 - 1 = {h, h + 1} /\ h .. h + 3 - 1 = {h, h + 1, h + 2}
    OBVIOUS
  <1>4. QED BY <1>1, <1>2, <1>3

\* The bitmap's first page is kept.
LEMMA BitmapKept ==
    ASSUME FramesInv, blob \in Blobs, step \in {"fb", "dev", "process", "user"}
    PROVE  BitmapAt \subseteq Kept
  <1>1. PICK total \in Nat, ppb \in Nat \ {0} : total = pmm.total /\ total > 0 /\ ppb = PAGES_PER_BITMAP
    BY BootConstants DEF FramesInv, PmmInv, HeapInv
  <1>2. PICK pa \in Nat : pa = Dtb0 + blob.pages + EARLY_PAGES
    BY KphysNat, BootConstants
  <1>3. PICK x \in Nat : x = total + ppb - 1 /\ ppb <= x
    BY <1>1, total + ppb - 1 \in Nat
  <1>4. PICK pages \in Nat : pages = x \div ppb /\ 1 <= pages
    <2>1. ppb \div ppb = 1
      BY SectionRange
    <2>2. QED BY <1>3, <2>1, DivMonotone
  <1>5. BitmapFrames = pa .. pa + pages - 1
    BY <1>1, <1>2, <1>3, <1>4 DEF BitmapFrames
  <1>6. pa \in BitmapFrames
    BY <1>4, <1>5
  <1>7. QED BY <1>2, <1>6 DEF BitmapAt, Kept

\* A machine that halts or faults writes nothing more.
LEMMA HaltContent ==
    ASSUME Started, ContentInv, Halt \/ Fault, UNCHANGED dtbVars, step # "copy"
    PROVE  ContentInv'
  <1>1. blob' = blob /\ step' \in {"halt", "fault"} /\ mem' = mem
    BY DEF Halt, Fault, dtbVars
  <1>2. Holds(mem, TableAt, {"table"} \cup Given)
    BY DEF Started, ContentInv, TableHeld
  <1>3. Holds(mem, TextAt, {"text"} \cup Given)
    BY DEF Started, ContentInv, TextHeld
  <1>4. QED BY <1>1, <1>2, <1>3, PartsSame
              DEF ContentInv, TextHeld, TableHeld, StackHeld, FirstHeld, BlobHeld, PoolsHeld, RestHeld

\* mm_init writes the bitmap and the first page of the heap.
LEMMA MmInitContent ==
    ASSUME Started, ContentInv, DtbInv, FramesInv, RamLow, mm_init
    PROVE  ContentInv'
  <1>1. Apart /\ step = "parse" /\ fb = {} /\ Layout /\ blob \in Blobs
    BY AllApart DEF Started, mm_init, FramesInv, HeapInv
  <1>2. CASE Halt /\ UNCHANGED dtbVars
    BY <1>1, <1>2, HaltContent
  <1>3. ASSUME NEW area, Settled(area) PROVE ContentInv'
    <2>1. PICK h : h = Kphys + BSS_END
      OBVIOUS
    <2>2. /\ step' = "fb" /\ heap_top' = 1 /\ blob' = blob /\ fb' = fb
          /\ mem' = [p \in 0 .. ADDR_PAGES - 1 |-> IF p \in area THEN "bitmap"
                                                   ELSE IF p = h THEN "heap" ELSE mem[p]]
          /\ area \subseteq Dtb0 .. Kphys - 1 /\ BitmapAt \subseteq area
      BY <1>3, <2>1 DEF Settled, BitmapAt
    <2>3. HeapAt(1) = {h} /\ h \in HeapAt(3)
      BY <1>1, <2>1, HeapPages
    <2>4. ASSUME NEW pages, pages \subseteq Kphys .. ADDR_PAGES - 1, h \notin pages, NEW whats,
                 Holds(mem, pages, whats)
          PROVE  Holds(mem', pages, whats)
      <3>1. \A p \in pages : p \in 0 .. ADDR_PAGES - 1 /\ p \notin area /\ p # h
        BY <1>1, <2>2, <2>4 DEF Apart
      <3>2. QED BY <2>2, <2>4, <3>1 DEF Holds
    <2>5. /\ Holds(mem', TextAt, {"text"} \cup Given) /\ Holds(mem', TableAt, {"table"} \cup Given)
          /\ Holds(mem', StackAt, {"stack"})
      <3>1. /\ Holds(mem, TextAt, {"text"} \cup Given) /\ Holds(mem, TableAt, {"table"} \cup Given)
            /\ Holds(mem, StackAt, {"stack"})
        BY <1>1 DEF ContentInv, TextHeld, TableHeld, StackHeld
      <3>2. /\ TextAt \subseteq Kphys .. ADDR_PAGES - 1 /\ TableAt \subseteq Kphys .. ADDR_PAGES - 1
            /\ StackAt \subseteq Kphys .. ADDR_PAGES - 1
            /\ h \notin TextAt /\ h \notin TableAt /\ h \notin StackAt
        BY <1>1, <2>3 DEF Apart
      <3>3. QED BY <2>4, <3>1, <3>2
    <2>6. Holds(mem', HeapAt(1), {"heap"})
      <3>1. h \in 0 .. ADDR_PAGES - 1 /\ h \notin area
        BY <1>1, <2>2, <2>3 DEF Apart
      <3>2. QED BY <2>2, <2>3, <3>1 DEF Holds
    <2>7. Holds(mem', BitmapAt, {"bitmap"})
      BY <1>1, <2>2 DEF Apart, Holds
    <2>8. Holds(mem', fb', {"pixels"})
      BY <1>1, <2>2 DEF Holds
    <2>9. HeapAt(heap_top)' = HeapAt(1)
      BY <2>2 DEF HeapAt, Kphys, Dtb0
    <2>10. QED BY <2>2, <2>5, <2>6, <2>7, <2>8, <2>9, PartsSame
                DEF ContentInv, TextHeld, TableHeld, StackHeld, FirstHeld, BlobHeld, PoolsHeld, RestHeld
  <1>4. QED BY <1>2, <1>3, MmInitEffect

\* Frames that are given away are none of those kept, and of nobody else.
LEMMA GivenContent ==
    ASSUME Started, ContentInv, FramesInv, step \in {"fb", "dev", "process", "user"},
           step' \in {"dev", "process", "user", "fork_fault"}, UNCHANGED <<blob, heap_top>>,
           NEW area, NEW what \in Given, mem' = Fill(area, what), area \cap Kept = {},
           area \subseteq 0 .. ADDR_PAGES - 1,
           (what = "pixels" /\ fb' = area) \/ (fb' = fb /\ area \cap fb = {})
    PROVE  ContentInv'
  <1>1. Apart /\ Layout /\ blob \in Blobs
    BY AllApart DEF Started
  <1>2. heap_top \in {1, 2, 3}
    BY DEF Started, MapInv, StageInv
  <1>3. HeapAt(heap_top) \subseteq HeapAt(3)
    BY <1>1, <1>2, HeapPages
  <1>4. StackAt \cap area = {} /\ HeapAt(heap_top) \cap area = {} /\ BitmapAt \cap area = {}
    <2>1. HeapAt(3) \subseteq Kept /\ StackAt \subseteq Kept
      BY <1>1 DEF Apart, Kept
    <2>2. BitmapAt \subseteq Kept
      BY <1>1, BitmapKept
    <2>3. QED BY <1>3, <2>1, <2>2
  <1>5. /\ TextAt \subseteq 0 .. ADDR_PAGES - 1 /\ TableAt \subseteq 0 .. ADDR_PAGES - 1
        /\ StackAt \subseteq 0 .. ADDR_PAGES - 1 /\ BitmapAt \subseteq 0 .. ADDR_PAGES - 1
        /\ HeapAt(heap_top) \subseteq 0 .. ADDR_PAGES - 1
    BY <1>1, <1>3 DEF Apart
  <1>6. Holds(mem', TextAt, {"text"} \cup Given) /\ Holds(mem', TableAt, {"table"} \cup Given)
    <2>1. Holds(mem, TextAt, {"text"} \cup Given) /\ Holds(mem, TableAt, {"table"} \cup Given)
      BY DEF ContentInv, TextHeld, TableHeld
    <2>2. QED BY <1>5, <2>1, Untouched
  <1>7. /\ Holds(mem', StackAt, {"stack"}) /\ Holds(mem', HeapAt(heap_top), {"heap"})
        /\ Holds(mem', BitmapAt, {"bitmap"})
    <2>1. /\ Holds(mem, StackAt, {"stack"}) /\ Holds(mem, HeapAt(heap_top), {"heap"})
          /\ Holds(mem, BitmapAt, {"bitmap"})
      BY DEF ContentInv, StackHeld, RestHeld
    <2>2. QED BY <1>4, <1>5, <2>1, Untouched
  <1>8. Holds(mem', fb', {"pixels"})
    <2>1. CASE what = "pixels" /\ fb' = area
      BY <2>1, Covered
    <2>2. CASE fb' = fb /\ area \cap fb = {}
      <3>1. Holds(mem, fb, {"pixels"})
        BY DEF ContentInv, RestHeld
      <3>2. fb \subseteq 0 .. ADDR_PAGES - 1
        <4>1. PICK base \in Nat, total \in Nat : /\ base = pmm.base /\ total = pmm.total
                                                 /\ base + total < ADDR_PAGES /\ ADDR_PAGES \in Nat
          BY BootConstants DEF Started, MapInv, StageInv, FramesInv, PmmInv
        <4>2. \A f \in fb : f \in Nat /\ f - base \in 0 .. total - 1
          BY <4>1 DEF FramesInv, PmmInv
        <4>3. QED BY <4>1, <4>2
      <3>3. QED BY <2>2, <3>1, <3>2, Untouched
    <2>3. QED BY <2>1, <2>2
  <1>9. HeapAt(heap_top)' = HeapAt(heap_top)
    BY DEF HeapAt, Kphys, Dtb0
  <1>10. QED BY <1>6, <1>7, <1>8, <1>9, PartsSame
              DEF ContentInv, TextHeld, TableHeld, StackHeld, FirstHeld, BlobHeld, PoolsHeld, RestHeld

\* The heap grows by the page p; step moves on.
LEMMA GrowContent ==
    ASSUME Started, ContentInv, FramesInv, step \in {"dev", "process"}, step' \in {"process", "user"},
           UNCHANGED <<blob, fb>>, NEW p, mem' = Fill({p}, "heap"), p \in HeapAt(3),
           HeapAt(heap_top)' = HeapAt(heap_top) \cup {p}, HeapAt(heap_top) \subseteq HeapAt(3)
    PROVE  ContentInv'
  <1>1. Apart /\ Layout /\ blob \in Blobs
    BY AllApart DEF Started
  <1>2. p \notin TextAt /\ p \notin TableAt /\ p \notin StackAt /\ p \in Kept /\ p \in Kphys .. ADDR_PAGES - 1
    BY <1>1 DEF Apart, Kept
  <1>3. BitmapAt \subseteq Dtb0 .. Kphys - 1
    <2>1. BitmapAt \subseteq BitmapFrames \cup HeapFrames
      BY <1>1, BitmapKept DEF Kept
    <2>2. PICK S \in Nat \ {0}, A \in Nat, D \in Nat, K \in Nat, bp \in Nat, most \in Nat :
                Ground(S, A, D, K, bp, most)
      BY <1>1, Grounds
    <2>3. D = Dtb0 /\ K = Kphys /\ BitmapAt = {D + bp + EARLY_PAGES} /\ D + bp + EARLY_PAGES <= K
      BY <2>2 DEF Ground, BitmapAt
    <2>4. HeapFrames = K + BSS_END .. K + BSS_END + KHEAP_PAGES - 1 /\ BSS_END \in Nat /\ BSS_END > 0
      BY <2>2 DEF Ground, HeapFrames
    <2>5. BitmapAt \cap HeapFrames = {}
      BY <2>2, <2>3, <2>4 DEF Ground
    <2>6. BitmapFrames \subseteq Dtb0 .. Kphys - 1
      <3>1. PICK base \in Nat, total \in Nat : base = pmm.base /\ total = pmm.total /\ base + total < ADDR_PAGES
        BY DEF FramesInv, PmmInv, Started, MapInv, StageInv
      <3>2. total < ADDR_PAGES
        BY <3>1, BootConstants
      <3>3. QED BY <1>1, <3>1, <3>2, BitmapLow
    <2>7. QED BY <2>1, <2>5, <2>6
  <1>4. p \notin BitmapAt
    BY <1>1, <1>2, <1>3 DEF Apart
  <1>5. p \notin fb /\ fb \subseteq 0 .. ADDR_PAGES - 1
    <2>1. fb \cap Kept = {}
      BY DEF FramesInv, HeapInv
    <2>2. PICK base \in Nat, total \in Nat : /\ base = pmm.base /\ total = pmm.total
                                             /\ base + total < ADDR_PAGES /\ ADDR_PAGES \in Nat
      BY BootConstants DEF Started, MapInv, StageInv, FramesInv, PmmInv
    <2>3. \A f \in fb : f \in Nat /\ f - base \in 0 .. total - 1
      BY <2>2 DEF FramesInv, PmmInv
    <2>4. fb \subseteq 0 .. ADDR_PAGES - 1
      BY <2>2, <2>3
    <2>5. QED BY <1>2, <2>1, <2>4
  <1>6. /\ TextAt \subseteq 0 .. ADDR_PAGES - 1 /\ TableAt \subseteq 0 .. ADDR_PAGES - 1
        /\ StackAt \subseteq 0 .. ADDR_PAGES - 1 /\ BitmapAt \subseteq 0 .. ADDR_PAGES - 1
        /\ HeapAt(3) \subseteq 0 .. ADDR_PAGES - 1
    BY <1>1 DEF Apart
  <1>7. /\ TextAt \cap {p} = {} /\ TableAt \cap {p} = {} /\ StackAt \cap {p} = {} /\ BitmapAt \cap {p} = {}
        /\ fb \cap {p} = {}
    BY <1>2, <1>4, <1>5
  <1>8. /\ Holds(mem, TextAt, {"text"} \cup Given) /\ Holds(mem, TableAt, {"table"} \cup Given)
        /\ Holds(mem, StackAt, {"stack"}) /\ Holds(mem, BitmapAt, {"bitmap"}) /\ Holds(mem, fb, {"pixels"})
        /\ Holds(mem, HeapAt(heap_top), {"heap"})
    BY DEF ContentInv, TextHeld, TableHeld, StackHeld, RestHeld
  <1>9. Holds(mem', TextAt, {"text"} \cup Given) /\ Holds(mem', TableAt, {"table"} \cup Given)
    BY <1>6, <1>7, <1>8, Untouched
  <1>10. /\ Holds(mem', StackAt, {"stack"}) /\ Holds(mem', BitmapAt, {"bitmap"})
         /\ Holds(mem', fb, {"pixels"})
    BY <1>5, <1>6, <1>7, <1>8, Untouched
  <1>11. Holds(mem', HeapAt(heap_top)', {"heap"})
    <2>1. Holds(mem', HeapAt(heap_top), {"heap"})
      BY <1>6, <1>8, Untouched
    <2>2. Holds(mem', {p}, {"heap"})
      BY <1>6, Covered
    <2>3. QED BY <2>1, <2>2 DEF Holds
  <1>12. QED BY <1>9, <1>10, <1>11, PartsSame
              DEF ContentInv, TextHeld, TableHeld, StackHeld, FirstHeld, BlobHeld, PoolsHeld, RestHeld

LEMMA ContentStep ==
    ASSUME Layout, DtbInv, FramesInv, RamLow, MapInv, ContentInv, [Next]_vars
    PROVE  ContentInv'
  <1>1. blob \in Blobs /\ blob' = blob /\ Kphys' = Kphys
    BY BlobSame DEF DtbInv, ParserInv, Kphys, Dtb0
  <1>2. CASE init_mmu
    BY <1>1, <1>2, TableContent
  <1>3. CASE UNCHANGED vars
    <2>1. HeapAt(heap_top)' = HeapAt(heap_top) /\ UNCHANGED <<step, mem, heap_top, fb, early_heap_ptr>>
      BY <1>1, <1>3 DEF vars, bootVars, dtbVars, HeapAt
    <2>2. QED BY <1>1, <2>1, PartsSame
              DEF ContentInv, TextHeld, TableHeld, StackHeld, FirstHeld, BlobHeld, PoolsHeld, RestHeld
  <1>4. CASE Next /\ ~ init_mmu
    <2>1. Started
      BY <1>1, <1>4 DEF Started, Next, CopyImage, ZeroBss, EnterKmain, Parse, ParseFailed, mm_init, fb_init,
                        InitDevices, MountFailed, CreateInit, ExecInit, MapUserPage, ForkCopy, mm_page_free
    <2>2. CASE CopyImage \/ ZeroBss \/ EnterKmain
      BY <2>1, <2>2, BootContent
    <2>3. CASE Parse
      <3>1. step = "parse" /\ (Parsed \/ Broken)
        BY <2>1, <2>3, ParseEffect
      <3>2. CASE Parsed
        BY <2>1, <2>3, <3>2, ParseContent
      <3>3. CASE Broken
        BY <2>1, <3>1, <3>3, HaltContent DEF Broken
      <3>4. QED BY <3>1, <3>2, <3>3
    <2>4. CASE mm_init
      BY <2>1, <2>4, MmInitContent
    <2>5. CASE ParseFailed \/ MountFailed
      BY <2>1, <2>5, HaltContent DEF ParseFailed, MountFailed
    <2>6. CASE fb_init
      <3>1. step = "fb" /\ step' = "dev"
        BY <2>1, <2>6, FbEffect
      <3>2. CASE UNCHANGED <<dtbVars, l1, devices, mem, kernel_phys_base, pmm, heap_top, fb, user>>
        <4>1. HeapAt(heap_top)' = HeapAt(heap_top) /\ UNCHANGED <<mem, heap_top, fb>>
          BY <1>1, <3>2 DEF HeapAt
        <4>2. QED BY <1>1, <3>1, <4>1, PartsSame
                  DEF ContentInv, TextHeld, TableHeld, StackHeld, FirstHeld, BlobHeld, PoolsHeld, RestHeld
      <3>3. ASSUME NEW new, Screen(new) PROVE ContentInv'
        <4>1. /\ fb' = new /\ new \cap Kept = {} /\ new \subseteq 0 .. ADDR_PAGES - 1
              /\ mem' = Fill(new, "pixels") /\ UNCHANGED <<blob, heap_top>>
          BY <1>1, <3>3 DEF Screen
        <4>2. "pixels" \in Given
          BY DEF Given
        <4>3. QED BY <2>1, <3>1, <4>1, <4>2, GivenContent
      <3>4. QED BY <2>1, <2>6, <3>2, <3>3, FbEffect
    <2>7. CASE InitDevices
      <3>1. /\ step = "dev" /\ step' = "process" /\ heap_top = 1 /\ heap_top' = 2
            /\ mem' = Fill({Kphys + BSS_END + 1}, "heap") /\ fb' = fb
        BY <2>1, <2>7, DevicesEffect
      <3>2. PICK p : p = Kphys + BSS_END + 1
        OBVIOUS
      <3>3. HeapAt(heap_top)' = HeapAt(2) /\ HeapAt(heap_top) = HeapAt(1)
        BY <1>1, <3>1 DEF HeapAt
      <3>4. HeapAt(2) = HeapAt(1) \cup {p} /\ HeapAt(2) \subseteq HeapAt(3)
        BY <1>1, <3>2, HeapPages
      <3>5. HeapAt(heap_top)' = HeapAt(heap_top) \cup {p} /\ p \in HeapAt(3) /\ HeapAt(heap_top) \subseteq HeapAt(3)
        BY <3>3, <3>4
      <3>6. QED BY <1>1, <2>1, <3>1, <3>2, <3>5, GrowContent
    <2>8. CASE ExecInit
      <3>1. /\ step = "process" /\ step' = "user" /\ heap_top = 2 /\ heap_top' = 3
            /\ mem' = Fill({Kphys + BSS_END + 2}, "heap") /\ fb' = fb
        BY <2>1, <2>8, ExecEffect
      <3>2. PICK p : p = Kphys + BSS_END + 2
        OBVIOUS
      <3>3. HeapAt(heap_top)' = HeapAt(3) /\ HeapAt(heap_top) = HeapAt(2)
        BY <1>1, <3>1 DEF HeapAt
      <3>4. HeapAt(3) = HeapAt(2) \cup {p}
        BY <1>1, <3>2, HeapPages
      <3>5. HeapAt(heap_top)' = HeapAt(heap_top) \cup {p} /\ p \in HeapAt(3) /\ HeapAt(heap_top) \subseteq HeapAt(3)
        BY <3>3, <3>4
      <3>6. QED BY <1>1, <2>1, <3>1, <3>2, <3>5, GrowContent
    <2>9. ASSUME mm_page_alloc, step \in {"process", "user"}, step' \in {"process", "user", "fork_fault"},
                 UNCHANGED <<heap_top, fb>>
          PROVE  ContentInv'
      <3>1. PICK f : Handed(f)
        BY <1>1, <2>1, <2>9, AllocEffect
      <3>2. PICK area : area = {f}
        OBVIOUS
      <3>3. /\ mem' = Fill(area, "user") /\ area \cap Kept = {} /\ area \cap fb = {}
            /\ area \subseteq 0 .. ADDR_PAGES - 1 /\ "user" \in Given
        BY <3>1, <3>2 DEF Handed, Given
      <3>4. QED BY <1>1, <2>1, <2>9, <3>3, GivenContent
    <2>10. CASE CreateInit
      <3>1. CASE Halt
        BY <2>1, <2>10, <3>1, HaltContent DEF CreateInit
      <3>2. CASE ~ Halt
        BY <2>9, <2>10, <3>2 DEF CreateInit
      <3>3. QED BY <3>1, <3>2
    <2>11. CASE MapUserPage
      BY <2>9, <2>11 DEF MapUserPage
    <2>12. CASE ForkCopy
      BY <2>9, <2>12 DEF ForkCopy
    <2>13. CASE mm_page_free
      <3>1. step = "user" /\ step' = "user" /\ UNCHANGED <<mem, heap_top, fb>>
        BY <2>13 DEF mm_page_free
      <3>2. HeapAt(heap_top)' = HeapAt(heap_top)
        BY <1>1, <3>1 DEF HeapAt
      <3>3. QED BY <1>1, <3>1, <3>2, PartsSame
                DEF ContentInv, TextHeld, TableHeld, StackHeld, FirstHeld, BlobHeld, PoolsHeld, RestHeld
    <2>14. QED BY <1>4, <2>2, <2>3, <2>4, <2>5, <2>6, <2>7, <2>8, <2>10, <2>11, <2>12, <2>13 DEF Next
  <1>5. QED BY <1>2, <1>3, <1>4

\* ContentInv is inductive relative to the invariants of the parser, of the page
\* allocator and of the map.
THEOREM ContentInductive ==
    ASSUME Layout
    PROVE  Spec /\ []RamLow => []ContentInv
  <1>1. Init => ContentInv
    BY ContentStart
  <1>2. DtbInv /\ FramesInv /\ RamLow /\ MapInv /\ ContentInv /\ [Next]_vars => ContentInv'
    BY ContentStep
  <1>3. QED BY <1>1, <1>2, ParserInductive, FramesInductive, MapInductive, PTL DEF Spec

\* In that layout no step of the boot, and no frame given to the framebuffer or to
\* a process later, destroys code, table or the stack in use, the pools and all of
\* the blob but the page of the first stack while they are needed, or bitmap, heap
\* and framebuffer from mm_init on, unless the pages of the image, which mm_init
\* leaves free, were given away.
THEOREM AlwaysIntact ==
    ASSUME Layout
    PROVE  Spec /\ []RamLow => []Intact
  <1>1. DtbInv /\ MapInv /\ ContentInv => Intact
    <2> SUFFICES ASSUME DtbInv, MapInv, ContentInv, \A p \in Image : mem[p] \notin Given PROVE Intact
      BY DEF Intact, Given
    <2>1. blob \in Blobs
      BY DEF DtbInv, ParserInv
    <2>2. PICK S \in Nat \ {0}, A \in Nat, D \in Nat, K \in Nat, bp \in Nat, most \in Nat :
                Ground(S, A, D, K, bp, most)
      BY <2>1, Grounds
    <2>3. Apart /\ DOMAIN mem = 0 .. ADDR_PAGES - 1
      BY <2>1, AllApart DEF MapInv, StageInv
    <2>4. K = Kphys /\ KV \in Nat /\ TEXT_END \in Nat /\ TT_END \in Nat /\ BSS_END \in Nat
      BY <2>2 DEF Ground
    <2>5. ASSUME NEW v \in Text PROVE v - KV + Kphys \in TextAt /\ v - KV + Kphys \in Image
      <3>1. v - KV + K \in K .. K + TEXT_END - 1 /\ (v - KV + K) - K + KV = v
        BY <2>4 DEF Text
      <3>2. v - KV + Kphys \in TextAt
        BY <2>4, <3>1 DEF TextAt
      <3>3. QED BY <2>3, <2>4, <3>1, <3>2 DEF Apart, Image
    <2>6. ASSUME NEW v \in Table PROVE v - KV + Kphys \in TableAt /\ v - KV + Kphys \in Image
      <3>1. v - KV + K \in K + TEXT_END .. K + TT_END - 1 /\ (v - KV + K) - K + KV = v
        BY <2>4 DEF Table
      <3>2. v - KV + Kphys \in TableAt
        BY <2>4, <3>1 DEF TableAt
      <3>3. QED BY <2>3, <2>4, <3>1, <3>2 DEF Apart, Image
    <2>7. step \notin {"reset", "copy"} => \A v \in Text : mem[v - KV + Kphys] = "text"
      BY <2>5 DEF ContentInv, TextHeld, Holds
    <2>8. step # "reset" => \A v \in Table : mem[v - KV + Kphys] = "table"
      BY <2>6 DEF ContentInv, TableHeld, Holds
    <2>9. step \in {"parse", "fb", "dev", "process", "user"} =>
             \A v \in Stack : mem[v - KV + Kphys] = "stack"
      <3>1. \A v \in Stack : v - KV + Kphys \in StackAt
        BY <2>2 DEF Ground, Stack, StackAt
      <3>2. QED BY <3>1 DEF ContentInv, StackHeld, Holds
    <2>10. /\ step \in {"copy", "zero", "base"} => \A p \in FirstStack : mem[p] = "stack0"
           /\ step \in {"copy", "zero", "base", "parse"} => \A p \in DtbPages \ FirstStack : mem[p] = "dtb"
      BY DEF ContentInv, FirstHeld, BlobHeld, Holds, BlobAt
    <2>11. step \in {"parse"} /\ early_heap_ptr > 0 => \A p \in EarlyHeap : mem[p] = "pools"
      BY DEF ContentInv, PoolsHeld, Holds
    <2>12. ASSUME step \in {"fb", "dev", "process", "user"}
           PROVE  /\ \A i \in 0 .. heap_top - 1 : mem[HeapVa + i - KV + Kphys] = "heap"
                  /\ mem[Dtb0 + blob.pages + EARLY_PAGES] = "bitmap"
                  /\ \A f \in fb : mem[f] = "pixels"
      <3>1. PICK top \in Nat : top = heap_top
        BY <2>12 DEF MapInv, StageInv
      <3>2. ASSUME NEW i \in 0 .. top - 1 PROVE HeapVa + i - KV + Kphys \in HeapAt(top)
        <4>1. HeapVa + i - KV + K = K + BSS_END + i
          BY <2>4 DEF HeapVa
        <4>2. K + BSS_END + i \in K + BSS_END .. K + BSS_END + top - 1
          BY <2>4
        <4>3. QED BY <2>4, <4>1, <4>2 DEF HeapAt
      <3>3. QED BY <2>12, <3>1, <3>2 DEF ContentInv, RestHeld, Holds, BitmapAt
    <2>13. QED BY <2>7, <2>8, <2>9, <2>10, <2>11, <2>12 DEF Intact
  <1>2. QED BY <1>1, ContentInductive, MapInductive, ParserInductive, PTL
=============================================================================
