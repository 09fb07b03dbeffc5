------------------------- MODULE AddressSpaceProofs -------------------------
(***************************************************************************)
(* AddressSpace for every number of pages, objects, processes and table    *)
(* entries: every page and object has one owner (Accounted), no process    *)
(* changes what another one reads (Private), a fork copies the parent      *)
(* (ForkCopies) and a call that fails changes nothing (FailureHarmless).   *)
(***************************************************************************)
EXTENDS AddressSpace, FiniteSetTheorems, SequenceTheorems, WellFoundedInduction, TLAPS

Slots == 0 .. PROC_VA_MB - 1
SlotOf(va) == va[1]

\* b has a table for the page va.
Covers(b, va) == SlotOf(va) \in DOMAIN b.l2

\* f is a one-to-one function onto V.
Table(f, V) ==
    /\ f = [x \in DOMAIN f |-> f[x]]
    /\ Values(f) = V
    /\ \A x, y \in DOMAIN f : f[x] = f[y] => x = y

\* An address space under construction that began with the pages F and the
\* objects O: what the allocators no longer have is in its tables.
Built(b, F, O) ==
    /\ b = [free |-> b.free, objs |-> b.objs, l2 |-> b.l2, map |-> b.map, ok |-> b.ok]
    /\ b.ok \in BOOLEAN
    /\ b.free \subseteq F /\ b.objs \subseteq O
    /\ Table(b.l2, O \ b.objs) /\ DOMAIN b.l2 \subseteq Slots
    /\ Table(b.map, F \ b.free) /\ DOMAIN b.map \subseteq Pages
    /\ \A va \in DOMAIN b.map : Covers(b, va)

-----------------------------------------------------------------------------
(* Naturals.                                                               *)

\* A set of naturals has a least element.
LEMMA LeastNatural ==
    ASSUME NEW T \in SUBSET Nat, T # {}
    PROVE  \E x \in T : \A y \in T : x <= y
  <1> DEFINE Less == {ss \in Nat \X Nat : ss[1] < ss[2]}
  <1>1. IsWellFoundedOn(Less, Nat)
    BY NatLessThanWellFounded DEF OpToRel
  <1>2. PICK x \in T : \A y \in T : ~ (<<y, x>> \in Less)
    <2> HIDE DEF Less
    <2> QED BY <1>1, WFMin
  <1>3. \A y \in T : ~ (y < x)
    BY <1>2
  <1>4. QED BY <1>3

\* Induction, for a set in place of a predicate.
LEMMA Induction ==
    ASSUME NEW T, 0 \in T, \A k \in Nat : k \in T => k + 1 \in T
    PROVE  Nat \subseteq T
  <1> SUFFICES ASSUME NEW j \in Nat, j \notin T PROVE FALSE
    OBVIOUS
  <1> DEFINE M == {k \in Nat : k \notin T}
  <1>1. PICK x \in M : \A y \in M : x <= y
    BY LeastNatural
  <1>2. x - 1 \in Nat /\ x - 1 \notin M
    BY <1>1
  <1>3. QED BY <1>2

LEMMA MinIn ==
    ASSUME NEW T \in SUBSET Nat, T # {}
    PROVE  Min(T) \in T
  <1>1. \E x \in T : \A y \in T : x <= y
    BY LeastNatural
  <1>2. QED BY <1>1 DEF Min

\* The greatest of the numbers up to k.
LEMMA MaxUpTo ==
    ASSUME NEW k \in Nat, NEW s \in SUBSET (1 .. k), s # {}
    PROVE  Max(s) \in s /\ \A j \in s : j <= Max(s)
  <1> DEFINE U == {u \in Nat : \A j \in s : j <= u}
  <1>1. k \in U
    OBVIOUS
  <1>2. PICK x \in U : \A y \in U : x <= y
    BY <1>1, LeastNatural
  <1>3. x \in s
    <2> SUFFICES ASSUME x \notin s PROVE FALSE
      OBVIOUS
    <2>1. \A j \in s : j < x
      BY <1>2
    <2>2. x - 1 \in Nat
      <3>1. PICK j : j \in s
        OBVIOUS
      <3>2. j \in Nat /\ j >= 1 /\ j < x /\ x \in Nat
        BY <1>2, <2>1, <3>1
      <3>3. QED BY <3>2
    <2>3. x - 1 \in U
      BY <1>2, <2>1, <2>2
    <2>4. QED BY <1>2, <2>3
  <1>4. \E y \in s : \A j \in s : y >= j
    BY <1>2, <1>3
  <1>5. Max(s) \in s /\ \A j \in s : Max(s) >= j
    BY <1>4 DEF Max
  <1>6. QED BY <1>5

LEMMA MaxTop ==
    ASSUME NEW k \in Nat, NEW s \in SUBSET (1 .. k + 1), k + 1 \in s
    PROVE  Max(s) = k + 1
  <1>1. PICK j \in Nat : j = k + 1
    OBVIOUS
  <1>2. s \in SUBSET (1 .. j) /\ s # {} /\ j \in s
    BY <1>1
  <1>3. Max(s) \in s /\ j <= Max(s)
    BY <1>2, MaxUpTo
  <1>4. Max(s) \in 1 .. j
    BY <1>2, <1>3
  <1> DEFINE m == Max(s)
  <1> HIDE DEF m
  <1>5. m \in 1 .. j /\ j <= m
    BY <1>3, <1>4 DEF m
  <1>6. m = j
    BY <1>5
  <1>7. QED BY <1>1, <1>6 DEF m

-----------------------------------------------------------------------------
(* The steps of building an address space.                                 *)

\* A new entry of a table.
LEMMA BindTable ==
    ASSUME NEW f, NEW V, Table(f, V), NEW k, k \notin DOMAIN f, NEW v, v \notin V
    PROVE  /\ Table(Bind(f, k, v), V \cup {v})
           /\ DOMAIN Bind(f, k, v) = DOMAIN f \cup {k}
           /\ Bind(f, k, v)[k] = v /\ \A x \in DOMAIN f : Bind(f, k, v)[x] = f[x]
  <1>1. PICK g : g = Bind(f, k, v)
    OBVIOUS
  <1>2. /\ DOMAIN g = DOMAIN f \cup {k} /\ g = [x \in DOMAIN g |-> g[x]]
        /\ g[k] = v /\ \A x \in DOMAIN f : g[x] = f[x]
    BY <1>1 DEF Bind
  <1>3. \A x \in DOMAIN f : f[x] \in V
    BY DEF Table, Values
  <1>4. Values(g) = V \cup {v}
    BY <1>2 DEF Table, Values
  <1>5. \A x, y \in DOMAIN g : g[x] = g[y] => x = y
    BY <1>2, <1>3 DEF Table
  <1>6. QED BY <1>1, <1>2, <1>4, <1>5 DEF Table

LEMMA FailStep ==
    ASSUME NEW b, NEW F, NEW O, Built(b, F, O)
    PROVE  /\ Built(Fail(b), F, O) /\ ~ Fail(b).ok
           /\ Fail(b).map = b.map /\ Fail(b).l2 = b.l2
           /\ Fail(b).free = b.free /\ Fail(b).objs = b.objs
  <1>1. PICK c : c = Fail(b)
    OBVIOUS
  <1>2. c = [free |-> b.free, objs |-> b.objs, l2 |-> b.l2, map |-> b.map, ok |-> FALSE]
    BY <1>1 DEF Fail, Built
  <1>3. Built(c, F, O)
    BY <1>2 DEF Built, Covers
  <1>4. QED BY <1>1, <1>2, <1>3

LEMMA SetObjs ==
    ASSUME NEW F, NEW O, NEW b, Built(b, F, O), NEW x
    PROVE  [b EXCEPT !.objs = x]
             = [free |-> b.free, objs |-> x, l2 |-> b.l2, map |-> b.map, ok |-> b.ok]
  BY DEF Built

LEMMA TableStep ==
    ASSUME NEW F \in SUBSET Nat, NEW O \in SUBSET Nat, NEW b, Built(b, F, O), NEW mb \in Slots,
           NEW c, c = get_or_alloc_l2(b, mb)
    PROVE  /\ Built(c, F, O) /\ c.map = b.map /\ c.free = b.free
           /\ DOMAIN b.l2 \subseteq DOMAIN c.l2
           /\ c.ok => b.ok /\ mb \in DOMAIN c.l2
           /\ mb \in DOMAIN b.l2 => c = b
  <1>1. CASE mb \in DOMAIN b.l2
    BY <1>1 DEF get_or_alloc_l2
  <1>2. CASE mb \notin DOMAIN b.l2 /\ b.objs = {}
    <2>1. c = Fail(b)
      BY <1>2 DEF get_or_alloc_l2
    <2>2. QED BY <1>2, <2>1, FailStep
  <1>3. CASE mb \notin DOMAIN b.l2 /\ b.objs # {}
    <2>1. PICK o : o = Min(b.objs)
      OBVIOUS
    <2>2. o \in b.objs /\ o \in O
      BY <1>3, <2>1, MinIn DEF Built
    <2>3. c = [free |-> b.free, objs |-> b.objs \ {o}, l2 |-> Bind(b.l2, mb, o), map |-> b.map,
               ok |-> b.ok]
      BY <1>3, <2>1 DEF get_or_alloc_l2, Built
    <2>4. /\ Table(Bind(b.l2, mb, o), (O \ b.objs) \cup {o})
          /\ DOMAIN Bind(b.l2, mb, o) = DOMAIN b.l2 \cup {mb}
      <3>1. PICK V : V = O \ b.objs
        OBVIOUS
      <3>2. PICK f : f = b.l2
        OBVIOUS
      <3>3. Table(f, V) /\ mb \notin DOMAIN f /\ o \notin V
        BY <1>3, <2>2, <3>1, <3>2 DEF Built
      <3>4. Table(Bind(f, mb, o), V \cup {o}) /\ DOMAIN Bind(f, mb, o) = DOMAIN f \cup {mb}
        BY <3>3, BindTable
      <3>5. QED BY <3>1, <3>2, <3>4
    <2>5. (O \ b.objs) \cup {o} = O \ (b.objs \ {o})
      BY <2>2
    <2>6. Built(c, F, O)
      BY <2>3, <2>4, <2>5 DEF Built, Covers
    <2>7. QED BY <1>3, <2>3, <2>4, <2>6
  <1>4. QED BY <1>1, <1>2, <1>3

\* c is b with a page at va, or a failure.
Adds(b, va, c) ==
    \/ c.ok = FALSE /\ c.map = b.map
    \/ c.ok = b.ok /\ DOMAIN c.map = DOMAIN b.map \cup {va}

LEMMA PageStep ==
    ASSUME NEW F \in SUBSET Nat, NEW O \in SUBSET Nat, NEW b, Built(b, F, O),
           NEW va \in Pages, va \notin DOMAIN b.map, Covers(b, va),
           NEW c, c = mmu_map_page(b, va)
    PROVE  Built(c, F, O) /\ c.l2 = b.l2 /\ Adds(b, va, c)
  <1>1. CASE b.free = {}
    <2>1. c = Fail(b)
      BY <1>1 DEF mmu_map_page
    <2>2. QED BY <2>1, FailStep DEF Adds
  <1>2. CASE b.free # {}
    <2>1. PICK f : f = Min(b.free)
      OBVIOUS
    <2>2. f \in b.free /\ f \in F
      BY <1>2, <2>1, MinIn DEF Built
    <2>3. c = [free |-> b.free \ {f}, objs |-> b.objs, l2 |-> b.l2, map |-> Bind(b.map, va, f),
               ok |-> b.ok]
      BY <1>2, <2>1 DEF mmu_map_page, Built
    <2>4. /\ Table(Bind(b.map, va, f), (F \ b.free) \cup {f})
          /\ DOMAIN Bind(b.map, va, f) = DOMAIN b.map \cup {va}
      <3>1. PICK V : V = F \ b.free
        OBVIOUS
      <3>2. PICK g : g = b.map
        OBVIOUS
      <3>3. Table(g, V) /\ va \notin DOMAIN g /\ f \notin V
        BY <2>2, <3>1, <3>2 DEF Built
      <3>4. Table(Bind(g, va, f), V \cup {f}) /\ DOMAIN Bind(g, va, f) = DOMAIN g \cup {va}
        BY <3>3, BindTable
      <3>5. QED BY <3>1, <3>2, <3>4
    <2>5. (F \ b.free) \cup {f} = F \ (b.free \ {f})
      BY <2>2
    <2>6. Built(c, F, O)
      <3>1. PICK g : g = Bind(b.map, va, f)
        OBVIOUS
      <3>2. c = [free |-> b.free \ {f}, objs |-> b.objs, l2 |-> b.l2, map |-> g, ok |-> b.ok]
        BY <2>3, <3>1
      <3>3. Table(g, F \ (b.free \ {f})) /\ DOMAIN g = DOMAIN b.map \cup {va}
        BY <2>4, <2>5, <3>1
      <3>4. \A x \in DOMAIN g : Covers(b, x) /\ x \in Pages
        BY <3>3 DEF Built, Covers
      <3>5. QED BY <3>2, <3>3, <3>4 DEF Built, Covers
    <2>7. QED BY <2>3, <2>4, <2>6 DEF Adds
  <1>3. QED BY <1>1, <1>2

\* A turn of the loop of map_pages.
LEMMA MapStep ==
    ASSUME NEW F \in SUBSET Nat, NEW O \in SUBSET Nat, NEW b, Built(b, F, O), NEW va \in Pages,
           NEW c, c = map_page(b, va)
    PROVE  /\ Built(c, F, O)
           /\ DOMAIN b.map \subseteq DOMAIN c.map /\ DOMAIN c.map \subseteq DOMAIN b.map \cup {va}
           /\ c.ok => b.ok /\ va \in DOMAIN c.map
  <1>0. SlotOf(va) \in Slots
    BY DEF Pages, Slots, SlotOf
  <1>1. PICK d : d = get_or_alloc_l2(b, SlotOf(va))
    OBVIOUS
  <1>2. /\ Built(d, F, O) /\ d.map = b.map
        /\ d.ok => b.ok /\ Covers(d, va)
    <2>1. PICK mb \in Slots : mb = SlotOf(va)
      BY <1>0
    <2>2. d = get_or_alloc_l2(b, mb)
      BY <1>1, <2>1
    <2>3. /\ Built(d, F, O) /\ d.map = b.map
          /\ d.ok => b.ok /\ mb \in DOMAIN d.l2
      BY <2>2, TableStep
    <2>4. QED BY <2>1, <2>3 DEF Covers
  <1>3. CASE ~ b.ok
    BY <1>3 DEF map_page, SlotOf
  <1>4. CASE b.ok /\ (~ d.ok \/ va \in DOMAIN d.map)
    <2>1. c = d
      BY <1>1, <1>4 DEF map_page, SlotOf
    <2>2. QED BY <1>2, <1>4, <2>1
  <1>5. CASE b.ok /\ d.ok /\ va \notin DOMAIN d.map
    <2>1. c = mmu_map_page(d, va)
      BY <1>1, <1>5 DEF map_page, SlotOf
    <2>2. Built(d, F, O) /\ va \notin DOMAIN d.map /\ Covers(d, va)
      BY <1>2, <1>5
    <2>3. Built(c, F, O) /\ Adds(d, va, c)
      BY <2>1, <2>2, PageStep
    <2>4. QED BY <1>2, <1>5, <2>3 DEF Adds
  <1>6. QED BY <1>3, <1>4, <1>5

\* A turn of the loop of setup_initial_stack.
LEMMA StackStep ==
    ASSUME NEW F \in SUBSET Nat, NEW O \in SUBSET Nat, NEW b, Built(b, F, O), NEW va \in Pages,
           b.ok => va \notin DOMAIN b.map /\ Covers(b, va),
           NEW c, c = process_add_page(b, va)
    PROVE  /\ Built(c, F, O) /\ c.l2 = b.l2
           /\ DOMAIN c.map \subseteq DOMAIN b.map \cup {va}
           /\ c.ok => b.ok
  <1>1. CASE ~ b.ok
    BY <1>1 DEF process_add_page
  <1>2. CASE b.ok
    <2>1. c = mmu_map_page(b, va)
      BY <1>2 DEF process_add_page
    <2>2. va \notin DOMAIN b.map /\ Covers(b, va)
      BY <1>2
    <2>3. Built(c, F, O) /\ c.l2 = b.l2 /\ Adds(b, va, c)
      BY <2>1, <2>2, PageStep
    <2>4. QED BY <1>2, <2>3 DEF Adds
  <1>3. QED BY <1>1, <1>2

\* Every page of s has its table.
Covered(s) == \A x \in DOMAIN s.map : Covers(s, x)

\* c is b with a page at va if s has one there, or a failure.
Copies(s, b, va, c) ==
    /\ DOMAIN c.map \subseteq DOMAIN b.map \cup ({va} \cap DOMAIN s.map)
    /\ c.ok => b.ok /\ DOMAIN c.map = DOMAIN b.map \cup ({va} \cap DOMAIN s.map)

\* A turn of the loops of process_fork.
LEMMA CopyStep ==
    ASSUME NEW F \in SUBSET Nat, NEW O \in SUBSET Nat, NEW b, Built(b, F, O), NEW va \in Pages,
           va \notin DOMAIN b.map,
           NEW s, Covered(s), NEW c, c = copy_page(s, b, va)
    PROVE  Built(c, F, O) /\ Copies(s, b, va, c)
  <1>0. SlotOf(va) \in Slots
    BY DEF Pages, Slots, SlotOf
  <1>1. PICK d : d = get_or_alloc_l2(b, SlotOf(va))
    OBVIOUS
  <1>2. /\ Built(d, F, O) /\ d.map = b.map
        /\ d.ok => b.ok /\ Covers(d, va)
    <2>1. PICK mb \in Slots : mb = SlotOf(va)
      BY <1>0
    <2>2. d = get_or_alloc_l2(b, mb)
      BY <1>1, <2>1
    <2>3. /\ Built(d, F, O) /\ d.map = b.map
          /\ d.ok => b.ok /\ mb \in DOMAIN d.l2
      BY <2>2, TableStep
    <2>4. QED BY <2>1, <2>3 DEF Covers
  <1>3. CASE ~ b.ok \/ ~ Covers(s, va)
    <2>1. c = b
      BY <1>3 DEF copy_page, Covers, SlotOf
    <2>2. ~ Covers(s, va) => va \notin DOMAIN s.map
      BY DEF Covered
    <2>3. QED BY <1>3, <2>1, <2>2 DEF Copies
  <1>4. CASE b.ok /\ Covers(s, va) /\ (~ d.ok \/ va \notin DOMAIN s.map)
    <2>1. c = d
      BY <1>1, <1>4 DEF copy_page, Covers, SlotOf
    <2>2. QED BY <1>2, <1>4, <2>1 DEF Copies
  <1>5. CASE b.ok /\ Covers(s, va) /\ d.ok /\ va \in DOMAIN s.map
    <2>1. c = mmu_map_page(d, va)
      BY <1>1, <1>5 DEF copy_page, Covers, SlotOf
    <2>2. Built(d, F, O) /\ va \notin DOMAIN d.map /\ Covers(d, va)
      BY <1>2, <1>5
    <2>3. Built(c, F, O) /\ Adds(d, va, c)
      BY <2>1, <2>2, PageStep
    <2>4. QED BY <1>2, <1>5, <2>3 DEF Adds, Copies
  <1>6. QED BY <1>3, <1>4, <1>5

-----------------------------------------------------------------------------
(* The folds, as the sequence of the states their turns lead through.      *)

\* The loop of map_pages.
LEMMA MapTrace ==
    ASSUME NEW b, NEW n \in Nat, NEW list, DOMAIN list = 1 .. n
    PROVE  \E h : /\ h[0] = b /\ map_pages(b, list) = h[n]
                  /\ \A k \in 1 .. n : h[k] = map_page(h[k - 1], list[k])
  <1> DEFINE Turn(x, k) == map_page(x, list[k])
             Value(f, s) == IF s = {} THEN b ELSE Turn(f[s \ {Max(s)}], Max(s))
             Body(f) == [s \in SUBSET DOMAIN list |-> Value(f, s)]
             iter == CHOOSE f : f = Body(f)
             T == {k \in Nat : \E f : \A s \in SUBSET (1 .. k) : f[s] = Value(f, s)}
  <1>1. map_pages(b, list) = iter[DOMAIN list]
    BY DEF map_pages, FoldLeft, MapThenFoldSet
  <1> HIDE DEF Turn
  <1>2. 0 \in T
    <2> DEFINE f == [s \in SUBSET (1 .. 0) |-> b]
    <2>1. \A s \in SUBSET (1 .. 0) : s = {} /\ f[s] = b
      OBVIOUS
    <2>2. \A s \in SUBSET (1 .. 0) : f[s] = Value(f, s)
      BY <2>1
    <2> HIDE DEF f
    <2>3. QED BY <2>2
  <1>3. ASSUME NEW k \in Nat, k \in T PROVE k + 1 \in T
    <2>1. PICK f : \A s \in SUBSET (1 .. k) : f[s] = Value(f, s)
      BY <1>3
    <2> DEFINE g == [s \in SUBSET (1 .. k + 1) |->
                       IF k + 1 \in s THEN Turn(f[s \ {k + 1}], k + 1) ELSE f[s]]
    <2>2. ASSUME NEW s \in SUBSET (1 .. k + 1), k + 1 \in s PROVE g[s] = Value(g, s)
      <3>1. Max(s) = k + 1
        BY <2>2, MaxTop
      <3>2. s \ {k + 1} \in SUBSET (1 .. k + 1) /\ k + 1 \notin s \ {k + 1}
        OBVIOUS
      <3>3. g[s \ {k + 1}] = f[s \ {k + 1}] /\ g[s] = Turn(f[s \ {k + 1}], k + 1)
        BY <2>2, <3>2
      <3> HIDE DEF g
      <3>4. QED BY <2>2, <3>1, <3>3
    <2>3. ASSUME NEW s \in SUBSET (1 .. k + 1), k + 1 \notin s PROVE g[s] = Value(g, s)
      <3>1. s \in SUBSET (1 .. k)
        BY <2>3
      <3>2. s \ {Max(s)} \in SUBSET (1 .. k + 1) /\ k + 1 \notin s \ {Max(s)}
        BY <2>3
      <3>3. g[s] = f[s] /\ g[s \ {Max(s)}] = f[s \ {Max(s)}]
        BY <2>3, <3>2
      <3>4. f[s] = Value(f, s)
        BY <2>1, <3>1
      <3> HIDE DEF g
      <3>5. QED BY <3>3, <3>4
    <2> HIDE DEF g
    <2>4. \A s \in SUBSET (1 .. k + 1) : g[s] = Value(g, s)
      BY <2>2, <2>3
    <2> HIDE DEF Value
    <2>5. \E x : \A s \in SUBSET (1 .. k + 1) : x[s] = Value(x, s)
      BY <2>4
    <2>6. k + 1 \in Nat
      OBVIOUS
    <2>7. QED BY <2>5, <2>6, Zenon
  <1> HIDE DEF T
  <1>4. n \in T
    BY <1>2, <1>3, Induction
  <1>5. PICK f : \A s \in SUBSET (1 .. n) : f[s] = Value(f, s)
    BY <1>4 DEF T
  <1>6. \E g : g = Body(g)
    <2> DEFINE g == [s \in SUBSET DOMAIN list |-> f[s]]
    <2>1. \A s \in SUBSET DOMAIN list : g[s] = f[s] /\ g[s \ {Max(s)}] = f[s \ {Max(s)}]
      OBVIOUS
    <2>2. \A s \in SUBSET DOMAIN list : f[s] = Value(g, s)
      BY <1>5, <2>1
    <2>3. g = Body(g)
      BY <2>2
    <2> HIDE DEF g
    <2>4. QED BY <2>3
  <1>7. iter = Body(iter)
    <2> HIDE DEF Body
    <2>1. QED BY <1>6
  <1> HIDE DEF iter
  <1>8. \A s \in SUBSET (1 .. n) : iter[s] = Value(iter, s)
    BY <1>7
  <1> DEFINE h == [k \in 0 .. n |-> iter[1 .. k]]
  <1>9. h[0] = b
    <2>1. 1 .. 0 = {}
      OBVIOUS
    <2>2. iter[{}] = b
      BY <1>8
    <2>3. QED BY <2>1, <2>2
  <1>10. ASSUME NEW k \in 1 .. n PROVE h[k] = Turn(h[k - 1], k)
    <2>1. PICK j \in Nat : k = j + 1
      OBVIOUS
    <2>2. PICK s : s = 1 .. j + 1
      OBVIOUS
    <2>3. s \in SUBSET (1 .. n) /\ s # {} /\ Max(s) = j + 1
      BY <2>1, <2>2, MaxTop
    <2>4. s \ {j + 1} = 1 .. j
      BY <2>2
    <2>5. iter[s] = Turn(iter[s \ {j + 1}], j + 1)
      BY <1>8, <2>3
    <2>6. k \in 0 .. n /\ j \in 0 .. n /\ k - 1 = j
      BY <2>1
    <2>7. h[k] = iter[s] /\ h[j] = iter[s \ {j + 1}]
      BY <2>1, <2>2, <2>4, <2>6
    <2> HIDE DEF h
    <2>8. QED BY <2>1, <2>5, <2>6, <2>7
  <1>11. map_pages(b, list) = h[n]
    BY <1>1
  <1> HIDE DEF h
  <1>12. \A k \in 1 .. n : h[k] = map_page(h[k - 1], list[k])
    BY <1>10 DEF Turn
  <1>13. QED BY <1>9, <1>11, <1>12

\* The loop of setup_initial_stack.
AddPages(b, list) == FoldLeft(process_add_page, b, list)

LEMMA StackTrace ==
    ASSUME NEW b, NEW n \in Nat, NEW list, DOMAIN list = 1 .. n
    PROVE  \E h : /\ h[0] = b /\ AddPages(b, list) = h[n]
                  /\ \A k \in 1 .. n : h[k] = process_add_page(h[k - 1], list[k])
  <1> DEFINE Turn(x, k) == process_add_page(x, list[k])
             Value(f, s) == IF s = {} THEN b ELSE Turn(f[s \ {Max(s)}], Max(s))
             Body(f) == [s \in SUBSET DOMAIN list |-> Value(f, s)]
             iter == CHOOSE f : f = Body(f)
             T == {k \in Nat : \E f : \A s \in SUBSET (1 .. k) : f[s] = Value(f, s)}
  <1>1. AddPages(b, list) = iter[DOMAIN list]
    BY DEF AddPages, FoldLeft, MapThenFoldSet
  <1> HIDE DEF Turn
  <1>2. 0 \in T
    <2> DEFINE f == [s \in SUBSET (1 .. 0) |-> b]
    <2>1. \A s \in SUBSET (1 .. 0) : s = {} /\ f[s] = b
      OBVIOUS
    <2>2. \A s \in SUBSET (1 .. 0) : f[s] = Value(f, s)
      BY <2>1
    <2> HIDE DEF f
    <2>3. QED BY <2>2
  <1>3. ASSUME NEW k \in Nat, k \in T PROVE k + 1 \in T
    <2>1. PICK f : \A s \in SUBSET (1 .. k) : f[s] = Value(f, s)
      BY <1>3
    <2> DEFINE g == [s \in SUBSET (1 .. k + 1) |->
                       IF k + 1 \in s THEN Turn(f[s \ {k + 1}], k + 1) ELSE f[s]]
    <2>2. ASSUME NEW s \in SUBSET (1 .. k + 1), k + 1 \in s PROVE g[s] = Value(g, s)
      <3>1. Max(s) = k + 1
        BY <2>2, MaxTop
      <3>2. s \ {k + 1} \in SUBSET (1 .. k + 1) /\ k + 1 \notin s \ {k + 1}
        OBVIOUS
      <3>3. g[s \ {k + 1}] = f[s \ {k + 1}] /\ g[s] = Turn(f[s \ {k + 1}], k + 1)
        BY <2>2, <3>2
      <3> HIDE DEF g
      <3>4. QED BY <2>2, <3>1, <3>3
    <2>3. ASSUME NEW s \in SUBSET (1 .. k + 1), k + 1 \notin s PROVE g[s] = Value(g, s)
      <3>1. s \in SUBSET (1 .. k)
        BY <2>3
      <3>2. s \ {Max(s)} \in SUBSET (1 .. k + 1) /\ k + 1 \notin s \ {Max(s)}
        BY <2>3
      <3>3. g[s] = f[s] /\ g[s \ {Max(s)}] = f[s \ {Max(s)}]
        BY <2>3, <3>2
      <3>4. f[s] = Value(f, s)
        BY <2>1, <3>1
      <3> HIDE DEF g
      <3>5. QED BY <3>3, <3>4
    <2> HIDE DEF g
    <2>4. \A s \in SUBSET (1 .. k + 1) : g[s] = Value(g, s)
      BY <2>2, <2>3
    <2> HIDE DEF Value
    <2>5. \E x : \A s \in SUBSET (1 .. k + 1) : x[s] = Value(x, s)
      BY <2>4
    <2>6. k + 1 \in Nat
      OBVIOUS
    <2>7. QED BY <2>5, <2>6, Zenon
  <1> HIDE DEF T
  <1>4. n \in T
    BY <1>2, <1>3, Induction
  <1>5. PICK f : \A s \in SUBSET (1 .. n) : f[s] = Value(f, s)
    BY <1>4 DEF T
  <1>6. \E g : g = Body(g)
    <2> DEFINE g == [s \in SUBSET DOMAIN list |-> f[s]]
    <2>1. \A s \in SUBSET DOMAIN list : g[s] = f[s] /\ g[s \ {Max(s)}] = f[s \ {Max(s)}]
      OBVIOUS
    <2>2. \A s \in SUBSET DOMAIN list : f[s] = Value(g, s)
      BY <1>5, <2>1
    <2>3. g = Body(g)
      BY <2>2
    <2> HIDE DEF g
    <2>4. QED BY <2>3
  <1>7. iter = Body(iter)
    <2> HIDE DEF Body
    <2>1. QED BY <1>6
  <1> HIDE DEF iter
  <1>8. \A s \in SUBSET (1 .. n) : iter[s] = Value(iter, s)
    BY <1>7
  <1> DEFINE h == [k \in 0 .. n |-> iter[1 .. k]]
  <1>9. h[0] = b
    <2>1. 1 .. 0 = {}
      OBVIOUS
    <2>2. iter[{}] = b
      BY <1>8
    <2>3. QED BY <2>1, <2>2
  <1>10. ASSUME NEW k \in 1 .. n PROVE h[k] = Turn(h[k - 1], k)
    <2>1. PICK j \in Nat : k = j + 1
      OBVIOUS
    <2>2. PICK s : s = 1 .. j + 1
      OBVIOUS
    <2>3. s \in SUBSET (1 .. n) /\ s # {} /\ Max(s) = j + 1
      BY <2>1, <2>2, MaxTop
    <2>4. s \ {j + 1} = 1 .. j
      BY <2>2
    <2>5. iter[s] = Turn(iter[s \ {j + 1}], j + 1)
      BY <1>8, <2>3
    <2>6. k \in 0 .. n /\ j \in 0 .. n /\ k - 1 = j
      BY <2>1
    <2>7. h[k] = iter[s] /\ h[j] = iter[s \ {j + 1}]
      BY <2>1, <2>2, <2>4, <2>6
    <2> HIDE DEF h
    <2>8. QED BY <2>1, <2>5, <2>6, <2>7
  <1>11. AddPages(b, list) = h[n]
    BY <1>1
  <1> HIDE DEF h
  <1>12. \A k \in 1 .. n : h[k] = process_add_page(h[k - 1], list[k])
    BY <1>10 DEF Turn
  <1>13. QED BY <1>9, <1>11, <1>12

\* The loops of process_fork.
LEMMA CopyTrace ==
    ASSUME NEW b, NEW src, NEW n \in Nat, DOMAIN Entries = 1 .. n
    PROVE  \E h : /\ h[0] = b /\ copy_pages(b, src) = h[n]
                  /\ \A k \in 1 .. n : h[k] = copy_page(src, h[k - 1], Entries[k])
  <1> DEFINE Turn(x, k) == copy_page(src, x, Entries[k])
             Value(f, s) == IF s = {} THEN b ELSE Turn(f[s \ {Max(s)}], Max(s))
             Body(f) == [s \in SUBSET DOMAIN Entries |-> Value(f, s)]
             iter == CHOOSE f : f = Body(f)
             T == {k \in Nat : \E f : \A s \in SUBSET (1 .. k) : f[s] = Value(f, s)}
  <1>1. copy_pages(b, src) = iter[DOMAIN Entries]
    BY DEF copy_pages, FoldLeft, MapThenFoldSet
  <1> HIDE DEF Turn
  <1>2. 0 \in T
    <2> DEFINE f == [s \in SUBSET (1 .. 0) |-> b]
    <2>1. \A s \in SUBSET (1 .. 0) : s = {} /\ f[s] = b
      OBVIOUS
    <2>2. \A s \in SUBSET (1 .. 0) : f[s] = Value(f, s)
      BY <2>1
    <2> HIDE DEF f
    <2>3. QED BY <2>2
  <1>3. ASSUME NEW k \in Nat, k \in T PROVE k + 1 \in T
    <2>1. PICK f : \A s \in SUBSET (1 .. k) : f[s] = Value(f, s)
      BY <1>3
    <2> DEFINE g == [s \in SUBSET (1 .. k + 1) |->
                       IF k + 1 \in s THEN Turn(f[s \ {k + 1}], k + 1) ELSE f[s]]
    <2>2. ASSUME NEW s \in SUBSET (1 .. k + 1), k + 1 \in s PROVE g[s] = Value(g, s)
      <3>1. Max(s) = k + 1
        BY <2>2, MaxTop
      <3>2. s \ {k + 1} \in SUBSET (1 .. k + 1) /\ k + 1 \notin s \ {k + 1}
        OBVIOUS
      <3>3. g[s \ {k + 1}] = f[s \ {k + 1}] /\ g[s] = Turn(f[s \ {k + 1}], k + 1)
        BY <2>2, <3>2
      <3> HIDE DEF g
      <3>4. QED BY <2>2, <3>1, <3>3
    <2>3. ASSUME NEW s \in SUBSET (1 .. k + 1), k + 1 \notin s PROVE g[s] = Value(g, s)
      <3>1. s \in SUBSET (1 .. k)
        BY <2>3
      <3>2. s \ {Max(s)} \in SUBSET (1 .. k + 1) /\ k + 1 \notin s \ {Max(s)}
        BY <2>3
      <3>3. g[s] = f[s] /\ g[s \ {Max(s)}] = f[s \ {Max(s)}]
        BY <2>3, <3>2
      <3>4. f[s] = Value(f, s)
        BY <2>1, <3>1
      <3> HIDE DEF g
      <3>5. QED BY <3>3, <3>4
    <2> HIDE DEF g
    <2>4. \A s \in SUBSET (1 .. k + 1) : g[s] = Value(g, s)
      BY <2>2, <2>3
    <2> HIDE DEF Value
    <2>5. \E x : \A s \in SUBSET (1 .. k + 1) : x[s] = Value(x, s)
      BY <2>4
    <2>6. k + 1 \in Nat
      OBVIOUS
    <2>7. QED BY <2>5, <2>6, Zenon
  <1> HIDE DEF T
  <1>4. n \in T
    BY <1>2, <1>3, Induction
  <1>5. PICK f : \A s \in SUBSET (1 .. n) : f[s] = Value(f, s)
    BY <1>4 DEF T
  <1>6. \E g : g = Body(g)
    <2> DEFINE g == [s \in SUBSET DOMAIN Entries |-> f[s]]
    <2>1. \A s \in SUBSET DOMAIN Entries : g[s] = f[s] /\ g[s \ {Max(s)}] = f[s \ {Max(s)}]
      OBVIOUS
    <2>2. \A s \in SUBSET DOMAIN Entries : f[s] = Value(g, s)
      BY <1>5, <2>1
    <2>3. g = Body(g)
      BY <2>2
    <2> HIDE DEF g
    <2>4. QED BY <2>3
  <1>7. iter = Body(iter)
    <2> HIDE DEF Body
    <2>1. QED BY <1>6
  <1> HIDE DEF iter
  <1>8. \A s \in SUBSET (1 .. n) : iter[s] = Value(iter, s)
    BY <1>7
  <1> DEFINE h == [k \in 0 .. n |-> iter[1 .. k]]
  <1>9. h[0] = b
    <2>1. 1 .. 0 = {}
      OBVIOUS
    <2>2. iter[{}] = b
      BY <1>8
    <2>3. QED BY <2>1, <2>2
  <1>10. ASSUME NEW k \in 1 .. n PROVE h[k] = Turn(h[k - 1], k)
    <2>1. PICK j \in Nat : k = j + 1
      OBVIOUS
    <2>2. PICK s : s = 1 .. j + 1
      OBVIOUS
    <2>3. s \in SUBSET (1 .. n) /\ s # {} /\ Max(s) = j + 1
      BY <2>1, <2>2, MaxTop
    <2>4. s \ {j + 1} = 1 .. j
      BY <2>2
    <2>5. iter[s] = Turn(iter[s \ {j + 1}], j + 1)
      BY <1>8, <2>3
    <2>6. k \in 0 .. n /\ j \in 0 .. n /\ k - 1 = j
      BY <2>1
    <2>7. h[k] = iter[s] /\ h[j] = iter[s \ {j + 1}]
      BY <2>1, <2>2, <2>4, <2>6
    <2> HIDE DEF h
    <2>8. QED BY <2>1, <2>5, <2>6, <2>7
  <1>11. copy_pages(b, src) = h[n]
    BY <1>1
  <1> HIDE DEF h
  <1>12. \A k \in 1 .. n : h[k] = copy_page(src, h[k - 1], Entries[k])
    BY <1>10 DEF Turn
  <1>13. QED BY <1>9, <1>11, <1>12
-----------------------------------------------------------------------------
(* What the loops build.                                                   *)

LEMMA MapPages ==
    ASSUME NEW F \in SUBSET Nat, NEW O \in SUBSET Nat, NEW b, Built(b, F, O),
           NEW list \in Seq(Pages), NEW c, c = map_pages(b, list)
    PROVE  Built(c, F, O) /\ DOMAIN c.map \subseteq DOMAIN b.map \cup ToSet(list)
  <1>1. PICK n \in Nat : DOMAIN list = 1 .. n
    BY DOMAIN list = 1 .. Len(list), Len(list) \in Nat
  <1>2. PICK h : /\ h[0] = b /\ c = h[n]
                 /\ \A k \in 1 .. n : h[k] = map_page(h[k - 1], list[k])
    BY <1>1, MapTrace
  <1> DEFINE Good(x) == Built(x, F, O) /\ DOMAIN x.map \subseteq DOMAIN b.map \cup ToSet(list)
             T == {k \in Nat : k <= n => Good(h[k])}
  <1>3. 0 \in T
    BY <1>2
  <1>4. ASSUME NEW k \in Nat, k \in T PROVE k + 1 \in T
    <2> SUFFICES ASSUME k + 1 <= n PROVE Good(h[k + 1])
      OBVIOUS
    <2>1. k + 1 \in 1 .. n /\ k <= n /\ k + 1 - 1 = k
      OBVIOUS
    <2>2. PICK j \in 1 .. n : j = k + 1
      BY <2>1
    <2>3. h[j] = map_page(h[k], list[j])
      BY <1>2, <2>1, <2>2
    <2>4. PICK va \in Pages : va = list[j] /\ va \in ToSet(list)
      BY <1>1 DEF ToSet
    <2>5. PICK x : x = h[k] /\ Good(x)
      BY <1>4, <2>1
    <2>6. PICK y : y = h[j] /\ y = map_page(x, va)
      BY <2>3, <2>4, <2>5
    <2>7. Built(y, F, O) /\ DOMAIN y.map \subseteq DOMAIN x.map \cup {va}
      BY <2>5, <2>6, MapStep
    <2>8. Good(y)
      BY <2>4, <2>5, <2>7
    <2>9. QED BY <2>2, <2>6, <2>8
  <1> HIDE DEF Good
  <1>5. n \in T
    <2> HIDE DEF T
    <2>1. QED BY <1>3, <1>4, Induction
  <1>6. Good(c)
    BY <1>2, <1>5
  <1>7. QED BY <1>6 DEF Good

\* The buffer is taken from the heap and put back.
LEMMA LoadImage ==
    ASSUME NEW F \in SUBSET Nat, NEW O \in SUBSET Nat, NEW b, Built(b, F, O),
           NEW img, img.pages \in Seq(Pages), NEW c, c = load_user_image(b, img)
    PROVE  Built(c, F, O) /\ DOMAIN c.map \subseteq DOMAIN b.map \cup ToSet(img.pages)
  <1>1. CASE ~ img.found \/ b.objs = {}
    <2>1. c = Fail(b)
      BY <1>1 DEF load_user_image
    <2>2. QED BY <2>1, FailStep
  <1>2. CASE img.found /\ b.objs # {}
    <2>1. PICK buf : buf = Min(b.objs)
      OBVIOUS
    <2>2. buf \in b.objs /\ buf \in O
      BY <1>2, <2>1, MinIn DEF Built
    <2>3. PICK x : x = [free |-> b.free, objs |-> b.objs \ {buf}, l2 |-> b.l2, map |-> b.map,
                        ok |-> b.ok]
      OBVIOUS
    <2>4. x = [b EXCEPT !.objs = @ \ {buf}]
      BY <2>3, SetObjs
    <2>5. PICK P \in SUBSET Nat : P = O \ {buf}
      OBVIOUS
    <2>6. P \ x.objs = O \ b.objs
      BY <2>2, <2>3, <2>5
    <2>7. Built(x, F, P)
      BY <2>2, <2>3, <2>5, <2>6 DEF Built, Covers
    <2>8. PICK list \in Seq(Pages) : list = img.pages
      OBVIOUS
    <2>9. PICK y : y = map_pages(x, list)
      OBVIOUS
    <2>10. Built(y, F, P) /\ DOMAIN y.map \subseteq DOMAIN x.map \cup ToSet(list)
      BY <2>7, <2>9, MapPages
    <2>11. c = [y EXCEPT !.objs = @ \cup {buf}]
      BY <1>2, <2>1, <2>4, <2>8, <2>9 DEF load_user_image
    <2>12. c = [free |-> y.free, objs |-> y.objs \cup {buf}, l2 |-> y.l2, map |-> y.map,
                ok |-> y.ok]
      BY <2>10, <2>11 DEF Built
    <2>13. O \ c.objs = P \ y.objs
      BY <2>5, <2>12
    <2>14. Built(c, F, O)
      <3>1. c.objs \subseteq O
        BY <2>2, <2>5, <2>10, <2>12 DEF Built
      <3>2. Table(c.l2, O \ c.objs)
        <4>1. PICK V : V = P \ y.objs
          OBVIOUS
        <4>2. Table(y.l2, V)
          BY <2>10, <4>1 DEF Built
        <4>3. c.l2 = y.l2 /\ O \ c.objs = V
          BY <2>12, <2>13, <4>1
        <4>4. QED BY <4>2, <4>3, Zenon
      <3>3. \A va \in DOMAIN c.map : Covers(c, va)
        BY <2>10, <2>12 DEF Built, Covers
      <3>4. /\ c.free = y.free /\ c.map = y.map /\ c.l2 = y.l2 /\ c.ok = y.ok
            /\ c = [free |-> c.free, objs |-> c.objs, l2 |-> c.l2, map |-> c.map, ok |-> c.ok]
        BY <2>12
      <3>5. QED BY <2>10, <3>1, <3>2, <3>3, <3>4 DEF Built
    <2>15. QED BY <2>3, <2>8, <2>10, <2>12, <2>14
  <1>3. QED BY <1>1, <1>2

LEMMA InitialStack ==
    ASSUME NEW F \in SUBSET Nat, NEW O \in SUBSET Nat, NEW b, Built(b, F, O),
           DOMAIN b.map \cap ToSet(StackPages) = {}, NEW c, c = setup_initial_stack(b)
    PROVE  Built(c, F, O)
  <1>0. PICK list \in Seq(Pages) :
            /\ list = StackPages /\ list # <<>>
            /\ \A j, k \in DOMAIN list : list[j][1] = list[k][1] /\ (j # k => list[j] # list[k])
    BY SpaceConstants
  <1>1. PICK n \in Nat : DOMAIN list = 1 .. n /\ 1 \in 1 .. n
    <2>1. Len(list) \in Nat /\ Len(list) # 0
      BY <1>0, EmptySeq
    <2>2. PICK n : n = Len(list)
      OBVIOUS
    <2>3. n \in Nat /\ n # 0 /\ DOMAIN list = 1 .. n
      BY <2>1, <2>2, LenProperties
    <2>4. QED BY <2>3
  <1>2. PICK mb \in Slots : mb = list[1][1]
    <2>1. list[1] \in Pages
      BY <1>1
    <2>2. QED BY <2>1 DEF Pages, Slots
  <1>3. PICK d : d = get_or_alloc_l2(b, mb)
    OBVIOUS
  <1>4. Built(d, F, O) /\ d.map = b.map /\ (d.ok => mb \in DOMAIN d.l2)
    BY <1>3, TableStep
  <1>5. c = AddPages(d, list)
    BY <1>0, <1>2, <1>3 DEF setup_initial_stack, AddPages
  <1>6. PICK h : /\ h[0] = d /\ c = h[n]
                 /\ \A k \in 1 .. n : h[k] = process_add_page(h[k - 1], list[k])
    BY <1>1, <1>5, StackTrace
  <1> DEFINE Good(k, x) == /\ Built(x, F, O)
                           /\ DOMAIN x.map \subseteq DOMAIN b.map \cup {list[j] : j \in 1 .. k}
                           /\ x.ok => mb \in DOMAIN x.l2
             T == {k \in Nat : k <= n => Good(k, h[k])}
  <1>7. 0 \in T
    BY <1>4, <1>6
  <1>8. ASSUME NEW k \in Nat, k \in T PROVE k + 1 \in T
    <2> SUFFICES ASSUME k + 1 <= n PROVE Good(k + 1, h[k + 1])
      OBVIOUS
    <2>1. k + 1 \in 1 .. n /\ k <= n /\ k + 1 - 1 = k
      OBVIOUS
    <2>2. PICK j \in 1 .. n : j = k + 1
      BY <2>1
    <2>3. h[j] = process_add_page(h[k], list[j])
      BY <1>6, <2>1, <2>2
    <2>4. PICK va \in Pages : va = list[j]
      BY <1>1
    <2>5. PICK x : x = h[k] /\ Good(k, x)
      BY <1>8, <2>1
    <2>6. PICK y : y = h[j] /\ y = process_add_page(x, va)
      BY <2>3, <2>4, <2>5
    <2>7. va \notin DOMAIN x.map
      <3>1. va \in ToSet(StackPages)
        BY <1>0, <1>1, <2>4 DEF ToSet
      <3>2. \A i \in 1 .. k : list[i] # va
        BY <1>0, <1>1, <2>1, <2>2, <2>4
      <3>3. QED BY <2>5, <3>1, <3>2
    <2>8. SlotOf(va) = mb
      BY <1>0, <1>1, <1>2, <2>4 DEF SlotOf
    <2>9. x.ok => va \notin DOMAIN x.map /\ Covers(x, va)
      BY <2>5, <2>7, <2>8 DEF Covers
    <2>10. /\ Built(y, F, O) /\ y.l2 = x.l2
           /\ DOMAIN y.map \subseteq DOMAIN x.map \cup {va}
           /\ y.ok => x.ok
      <3>1. Built(x, F, O)
        BY <2>5
      <3>2. QED BY <2>6, <2>9, <3>1, StackStep
    <2>11. {list[i] : i \in 1 .. j} = {list[i] : i \in 1 .. k} \cup {va}
      <3>1. 1 .. j = (1 .. k) \cup {j}
        BY <2>2
      <3>2. PICK A : A = 1 .. k
        OBVIOUS
      <3>3. {list[i] : i \in A \cup {j}} = {list[i] : i \in A} \cup {list[j]}
        OBVIOUS
      <3>4. QED BY <2>4, <3>1, <3>2, <3>3, Zenon
    <2>12. Good(j, y)
      BY <2>5, <2>10, <2>11
    <2>13. QED BY <2>2, <2>6, <2>12
  <1> HIDE DEF Good
  <1>9. n \in T
    <2> HIDE DEF T
    <2>1. QED BY <1>7, <1>8, Induction
  <1>10. Good(n, c)
    BY <1>6, <1>9
  <1>11. QED BY <1>10 DEF Good

\* Division with remainder.
LEMMA Division ==
    ASSUME NEW E \in Nat \ {0}, NEW k \in Nat
    PROVE  /\ k \div E \in Nat /\ k % E \in 0 .. E - 1 /\ k = E * (k \div E) + (k % E)
  OBVIOUS

LEMMA DivisionUnique ==
    ASSUME NEW E \in Nat \ {0}, NEW q \in Nat, NEW r \in 0 .. E - 1,
           NEW x \in Nat, NEW y \in 0 .. E - 1, E * q + r = E * x + y
    PROVE  q = x /\ r = y
  <1>1. CASE q < x
    <2>1. PICK d \in Nat : x = q + 1 + d
      BY <1>1
    <2>2. E * x = E * q + E + E * d /\ E * d \in Nat /\ E * q \in Nat
      BY <2>1
    <2>3. QED BY <2>2
  <1>2. CASE x < q
    <2>1. PICK d \in Nat : q = x + 1 + d
      BY <1>2
    <2>2. E * q = E * x + E + E * d /\ E * d \in Nat /\ E * x \in Nat
      BY <2>1
    <2>3. QED BY <2>2
  <1>3. CASE q = x
    BY <1>3
  <1>4. QED BY <1>1, <1>2, <1>3

\* The deep copy of fork visits every page once.
LEMMA EntriesOnce ==
    \E n \in Nat :
        /\ DOMAIN Entries = 1 .. n
        /\ \A k \in 1 .. n : Entries[k] \in Pages
        /\ \A j, k \in 1 .. n : Entries[j] = Entries[k] => j = k
        /\ \A va \in Pages : \E k \in 1 .. n : Entries[k] = va
  <1>1. PICK M \in Nat \ {0}, E \in Nat \ {0} : M = PROC_VA_MB /\ E = L2_ENTRIES
    BY SpaceConstants
  <1>2. PICK n \in Nat : n = M * E
    OBVIOUS
  <1>3. DOMAIN Entries = 1 .. n
    BY <1>1, <1>2 DEF Entries
  <1>4. ASSUME NEW k \in 1 .. n
        PROVE  /\ Entries[k] = <<(k - 1) \div E, (k - 1) % E>>
               /\ (k - 1) \div E \in Nat /\ (k - 1) % E \in 0 .. E - 1
               /\ k - 1 = E * ((k - 1) \div E) + ((k - 1) % E)
    <2>1. Entries[k] = <<(k - 1) \div E, (k - 1) % E>>
      BY <1>1, <1>2 DEF Entries
    <2>2. k - 1 \in Nat
      OBVIOUS
    <2>3. QED BY <2>1, <2>2, Division
  <1>5. ASSUME NEW k \in 1 .. n PROVE Entries[k] \in Pages
    <2>1. PICK q \in Nat, r \in 0 .. E - 1 : Entries[k] = <<q, r>> /\ k - 1 = E * q + r
      BY <1>4
    <2>2. q < M
      <3> SUFFICES ASSUME q >= M PROVE FALSE
        OBVIOUS
      <3>1. PICK d \in Nat : q = M + d
        OBVIOUS
      <3>2. E * q = n + E * d /\ E * d \in Nat
        BY <1>2, <3>1
      <3>3. QED BY <2>1, <3>2
    <2>3. QED BY <1>1, <2>1, <2>2 DEF Pages
  <1>6. ASSUME NEW j \in 1 .. n, NEW k \in 1 .. n, Entries[j] = Entries[k] PROVE j = k
    <2>1. PICK q \in Nat, r \in 0 .. E - 1 : Entries[k] = <<q, r>> /\ k - 1 = E * q + r
      BY <1>4
    <2>2. PICK x \in Nat, y \in 0 .. E - 1 : Entries[j] = <<x, y>> /\ j - 1 = E * x + y
      BY <1>4
    <2>3. x = q /\ y = r
      BY <1>6, <2>1, <2>2
    <2>4. QED BY <2>1, <2>2, <2>3
  <1>7. ASSUME NEW va \in Pages PROVE \E k \in 1 .. n : Entries[k] = va
    <2>1. PICK x \in Nat, y \in 0 .. E - 1 : va = <<x, y>> /\ x < M
      BY <1>1 DEF Pages
    <2>2. PICK d \in Nat : M = x + 1 + d
      BY <2>1
    <2>3. /\ n = E * x + E + E * d
          /\ E * x \in Nat /\ E * d \in Nat
      BY <1>2, <2>2
    <2>4. PICK k \in 1 .. n : k - 1 = E * x + y
      <3>1. E * x + y + 1 \in 1 .. n
        BY <2>3
      <3>2. QED BY <2>3, <3>1
    <2>5. PICK q \in Nat, r \in 0 .. E - 1 : Entries[k] = <<q, r>> /\ k - 1 = E * q + r
      BY <1>4
    <2>6. q = x /\ r = y
      BY <2>4, <2>5, DivisionUnique
    <2>7. QED BY <2>1, <2>5, <2>6
  <1>8. QED BY <1>3, <1>5, <1>6, <1>7

\* What process_fork builds from the tables s, as far as it gets.
LEMMA CopyPages ==
    ASSUME NEW F \in SUBSET Nat, NEW O \in SUBSET Nat,
           NEW b, Built(b, F, O), DOMAIN b.map = {},
           NEW s, DOMAIN s.map \subseteq Pages, Covered(s),
           NEW c, c = copy_pages(b, s)
    PROVE  /\ Built(c, F, O)
           /\ DOMAIN c.map \subseteq DOMAIN s.map
           /\ c.ok => DOMAIN c.map = DOMAIN s.map
  <1>1. PICK n \in Nat :
            /\ DOMAIN Entries = 1 .. n
            /\ \A k \in 1 .. n : Entries[k] \in Pages
            /\ \A j, k \in 1 .. n : Entries[j] = Entries[k] => j = k
            /\ \A va \in Pages : \E k \in 1 .. n : Entries[k] = va
    BY EntriesOnce
  <1>2. PICK h : /\ h[0] = b /\ c = h[n]
                 /\ \A k \in 1 .. n : h[k] = copy_page(s, h[k - 1], Entries[k])
    BY <1>1, CopyTrace
  <1> DEFINE Seen(k) == {Entries[j] : j \in 1 .. k} \cap DOMAIN s.map
             Good(k, x) == /\ Built(x, F, O)
                           /\ DOMAIN x.map \subseteq Seen(k)
                           /\ x.ok => DOMAIN x.map = Seen(k)
             T == {k \in Nat : k <= n => Good(k, h[k])}
  <1>3. 0 \in T
    <2>1. Seen(0) = {}
      OBVIOUS
    <2>2. QED BY <1>2, <2>1
  <1>4. ASSUME NEW k \in Nat, k \in T PROVE k + 1 \in T
    <2> SUFFICES ASSUME k + 1 <= n PROVE Good(k + 1, h[k + 1])
      OBVIOUS
    <2>1. k + 1 \in 1 .. n /\ k <= n /\ k + 1 - 1 = k
      OBVIOUS
    <2>2. PICK j \in 1 .. n : j = k + 1
      BY <2>1
    <2>3. h[j] = copy_page(s, h[k], Entries[j])
      BY <1>2, <2>1, <2>2
    <2>4. PICK va \in Pages : va = Entries[j]
      BY <1>1
    <2>5. PICK x : x = h[k] /\ Good(k, x)
      BY <1>4, <2>1
    <2>6. PICK y : y = h[j] /\ y = copy_page(s, x, va)
      BY <2>3, <2>4, <2>5
    <2>7. va \notin {Entries[i] : i \in 1 .. k}
      BY <1>1, <2>1, <2>2, <2>4
    <2>8. Seen(j) = Seen(k) \cup ({va} \cap DOMAIN s.map)
      <3>1. 1 .. j = (1 .. k) \cup {j}
        BY <2>2
      <3>2. PICK A : A = 1 .. k
        OBVIOUS
      <3>3. {Entries[i] : i \in A \cup {j}} = {Entries[i] : i \in A} \cup {Entries[j]}
        OBVIOUS
      <3>4. {Entries[i] : i \in 1 .. j} = {Entries[i] : i \in 1 .. k} \cup {va}
        BY <2>4, <3>1, <3>2, <3>3, Zenon
      <3>5. QED BY <3>4
    <2>9. va \notin DOMAIN x.map
      BY <2>5, <2>7
    <2>10. Built(y, F, O) /\ Copies(s, x, va, y)
      <3>1. Built(x, F, O)
        BY <2>5
      <3>2. QED BY <2>6, <2>9, <3>1, CopyStep
    <2> HIDE DEF Seen
    <2>11. Good(j, y)
      BY <2>5, <2>8, <2>10 DEF Copies
    <2>12. QED BY <2>2, <2>6, <2>11
  <1> HIDE DEF Good
  <1>5. n \in T
    <2> HIDE DEF T
    <2>1. QED BY <1>3, <1>4, Induction
  <1>6. Good(n, c)
    BY <1>2, <1>5
  <1>7. Seen(n) = DOMAIN s.map
    BY <1>1
  <1>8. QED BY <1>6, <1>7 DEF Good

-----------------------------------------------------------------------------
(* The invariant.                                                          *)

FramesIn(s) == Values(s.map)
ObjsIn(s) == {s.self, s.pgd} \cup Values(s.l2)

\* The tables of a process: every page has a frame of its own and a table, and
\* the struct and the tables are different objects.
Tables(s) ==
    /\ s = [self |-> s.self, pgd |-> s.pgd, l2 |-> s.l2, map |-> s.map]
    /\ Table(s.l2, Values(s.l2)) /\ DOMAIN s.l2 \subseteq Slots
    /\ Table(s.map, Values(s.map)) /\ DOMAIN s.map \subseteq Pages
    /\ Covered(s)
    /\ s.self # s.pgd /\ s.self \notin Values(s.l2) /\ s.pgd \notin Values(s.l2)

\* Each member of U is free, lost or one of what a member of L owns.
Split(U, own, L, fr, lo) ==
    /\ fr \subseteq U /\ lo \subseteq U /\ fr \cap lo = {}
    /\ \A p \in L : own[p] \subseteq U /\ own[p] \cap fr = {} /\ own[p] \cap lo = {}
    /\ \A p, q \in L : p # q => own[p] \cap own[q] = {}
    /\ \A x \in U : x \in fr \/ x \in lo \/ \E p \in L : x \in own[p]

FrameOwner == [p \in Procs |-> FramesIn(space[p])]
ObjOwner == [p \in Procs |-> ObjsIn(space[p])]

SpaceInv ==
    /\ phase \in {"boot", "run", "off"} /\ (phase = "boot" => live = {})
    /\ disk \subseteq Images /\ live \subseteq Procs
    /\ space = [p \in Procs |-> space[p]]
    /\ \A p \in live : Tables(space[p])
    /\ Split(Frames, FrameOwner, live, free, lost.frames)
    /\ Split(Objs, ObjOwner, live, objs, lost.objs)
    /\ mem \in [Frames -> Vals]

-----------------------------------------------------------------------------
(* How the calls move pages and objects between owners.                    *)

\* p gets what has been taken since.
LEMMA SplitNew ==
    ASSUME NEW U, NEW own, NEW L, NEW fr, NEW lo, Split(U, own, L, fr, lo),
           NEW p, p \notin L, NEW M, M = L \cup {p}, NEW rest, rest \subseteq fr,
           NEW to, to[p] = fr \ rest, \A q \in L : to[q] = own[q]
    PROVE  Split(U, to, M, rest, lo)
  <1>1. /\ rest \subseteq U /\ rest \cap lo = {}
        /\ \A q \in L : to[q] \subseteq U /\ to[q] \cap rest = {} /\ to[q] \cap lo = {}
    BY DEF Split
  <1>2. to[p] \subseteq U /\ to[p] \cap rest = {} /\ to[p] \cap lo = {}
    BY DEF Split
  <1>3. \A q \in L : to[p] \cap to[q] = {} /\ \A r \in L : q # r => to[q] \cap to[r] = {}
    BY DEF Split
  <1>4. \A x \in U : x \in rest \/ x \in lo \/ \E q \in M : x \in to[q]
    BY DEF Split
  <1>5. QED BY <1>1, <1>2, <1>3, <1>4 DEF Split

\* p keeps some of what it has, gets what has been taken and gives back the rest.
LEMMA SplitReplace ==
    ASSUME NEW U, NEW own, NEW L, NEW fr, NEW lo, Split(U, own, L, fr, lo),
           NEW p \in L, NEW kept, kept \subseteq own[p], NEW rest, rest \subseteq fr,
           NEW to, to[p] = kept \cup (fr \ rest), \A q \in L \ {p} : to[q] = own[q],
           NEW now, now = rest \cup (own[p] \ kept)
    PROVE  Split(U, to, L, now, lo)
  <1>1. /\ now \subseteq U /\ now \cap lo = {}
    BY DEF Split
  <1>2. \A q \in L \ {p} : to[q] \subseteq U /\ to[q] \cap now = {} /\ to[q] \cap lo = {}
    BY DEF Split
  <1>3. to[p] \subseteq U /\ to[p] \cap now = {} /\ to[p] \cap lo = {}
    BY DEF Split
  <1>4. \A q \in L \ {p} : to[p] \cap to[q] = {} /\ \A r \in L \ {p} : q # r => to[q] \cap to[r] = {}
    BY DEF Split
  <1>5. ASSUME NEW x \in U PROVE x \in now \/ x \in lo \/ \E q \in L : x \in to[q]
    <2>1. x \in own[p] => x \in now \/ x \in to[p]
      OBVIOUS
    <2>2. x \in fr => x \in now \/ x \in to[p]
      OBVIOUS
    <2>3. x \in fr \/ x \in lo \/ x \in own[p] \/ \E q \in L \ {p} : x \in own[q]
      BY DEF Split
    <2>4. QED BY <2>1, <2>2, <2>3
  <1>6. QED BY <1>1, <1>2, <1>3, <1>4, <1>5 DEF Split

\* p gives back all it has.
LEMMA SplitExit ==
    ASSUME NEW U, NEW own, NEW L, NEW fr, NEW lo, Split(U, own, L, fr, lo),
           NEW p \in L, NEW M, M = L \ {p}, NEW to, \A q \in M : to[q] = own[q],
           NEW now, now = fr \cup own[p]
    PROVE  Split(U, to, M, now, lo)
  <1>1. /\ now \subseteq U /\ now \cap lo = {}
    BY DEF Split
  <1>2. \A q \in M : to[q] \subseteq U /\ to[q] \cap now = {} /\ to[q] \cap lo = {}
    BY DEF Split
  <1>3. \A q, r \in M : q # r => to[q] \cap to[r] = {}
    BY DEF Split
  <1>4. \A x \in U : x \in now \/ x \in lo \/ \E q \in M : x \in to[q]
    BY DEF Split
  <1>5. QED BY <1>1, <1>2, <1>3, <1>4 DEF Split

\* What has been taken is lost.
LEMMA SplitLose ==
    ASSUME NEW U, NEW own, NEW L, NEW fr, NEW lo, Split(U, own, L, fr, lo),
           NEW rest, rest \subseteq fr, NEW gone, gone = lo \cup (fr \ rest)
    PROVE  Split(U, own, L, rest, gone)
  <1>1. /\ rest \subseteq U /\ gone \subseteq U /\ rest \cap gone = {}
    BY DEF Split
  <1>2. \A q \in L : own[q] \subseteq U /\ own[q] \cap rest = {} /\ own[q] \cap gone = {}
    BY DEF Split
  <1>3. \A x \in U : x \in rest \/ x \in gone \/ \E q \in L : x \in own[q]
    BY DEF Split
  <1>4. QED BY <1>1, <1>2, <1>3 DEF Split

-----------------------------------------------------------------------------
(* A new address space.                                                    *)

LEMMA BlankBuilt ==
    ASSUME NEW F, NEW O
    PROVE  Built(Blank(F, O), F, O) /\ DOMAIN Blank(F, O).map = {}
  <1>1. PICK b : b = Blank(F, O)
    OBVIOUS
  <1>2. /\ b = [free |-> b.free, objs |-> b.objs, l2 |-> b.l2, map |-> b.map, ok |-> b.ok]
        /\ b.free = F /\ b.objs = O /\ b.l2 = Empty /\ b.map = Empty /\ b.ok = TRUE
    BY <1>1 DEF Blank
  <1>3. DOMAIN Empty = {} /\ Table(Empty, {})
    BY DEF Empty, Table, Values
  <1>4. F \ F = {} /\ O \ O = {}
    OBVIOUS
  <1>5. Built(b, F, O)
    BY <1>2, <1>3, <1>4 DEF Built
  <1>6. QED BY <1>1, <1>2, <1>3, <1>5

\* The image and the stack that create and exec build from F and O.
LEMMA ImageAndStack ==
    ASSUME NEW F \in SUBSET Nat, NEW O \in SUBSET Nat, NEW img \in Images,
           NEW c, c = load_user_image(Blank(F, O), img), NEW b, b = setup_initial_stack(c)
    PROVE  Built(c, F, O) /\ Built(b, F, O)
  <1>1. PICK x : x = Blank(F, O) /\ Built(x, F, O) /\ DOMAIN x.map = {}
    BY BlankBuilt
  <1>2. img.pages \in Seq(Pages) /\ ToSet(img.pages) \cap ToSet(StackPages) = {}
    BY SpaceConstants
  <1>3. c = load_user_image(x, img)
    BY <1>1
  <1>4. Built(c, F, O) /\ DOMAIN c.map \subseteq DOMAIN x.map \cup ToSet(img.pages)
    BY <1>1, <1>2, <1>3, LoadImage
  <1>5. DOMAIN c.map \cap ToSet(StackPages) = {}
    BY <1>1, <1>2, <1>4
  <1>6. Built(b, F, O)
    BY <1>4, <1>5, InitialStack
  <1>7. QED BY <1>4, <1>6

\* What is built of F and O is the rest, and frees to all of it.
LEMMA BuiltFrees ==
    ASSUME NEW F, NEW O, NEW b, Built(b, F, O)
    PROVE  /\ Values(b.map) = F \ b.free /\ Values(b.l2) = O \ b.objs
           /\ b.free \subseteq F /\ b.objs \subseteq O
           /\ b.free \cup Values(b.map) = F /\ b.objs \cup Values(b.l2) = O
  BY DEF Built, Table

LEMMA BuiltTables ==
    ASSUME NEW F, NEW O, NEW b, Built(b, F, O), NEW x, NEW y, x # y, x \notin O, y \notin O,
           NEW s, s = [self |-> x, pgd |-> y, l2 |-> b.l2, map |-> b.map]
    PROVE  Tables(s) /\ FramesIn(s) = F \ b.free /\ ObjsIn(s) = {x, y} \cup (O \ b.objs)
  <1>1. /\ s = [self |-> s.self, pgd |-> s.pgd, l2 |-> s.l2, map |-> s.map]
        /\ s.self = x /\ s.pgd = y /\ s.l2 = b.l2 /\ s.map = b.map
    OBVIOUS
  <1>2. Values(b.map) = F \ b.free /\ Values(b.l2) = O \ b.objs
    BY BuiltFrees
  <1>3. Table(s.l2, Values(s.l2)) /\ Table(s.map, Values(s.map))
    BY <1>1, <1>2 DEF Built
  <1>4. Covered(s) /\ DOMAIN s.l2 \subseteq Slots /\ DOMAIN s.map \subseteq Pages
    BY <1>1 DEF Built, Covered, Covers
  <1>5. x \notin Values(s.l2) /\ y \notin Values(s.l2)
    BY <1>1, <1>2
  <1>6. Tables(s)
    BY <1>1, <1>3, <1>4, <1>5 DEF Tables
  <1>7. QED BY <1>1, <1>2, <1>6 DEF FramesIn, ObjsIn

LEMMA TwoObjects ==
    ASSUME objs \subseteq Objs, Cardinality(objs) >= 2
    PROVE  self \in objs /\ pgd \in objs /\ self # pgd
  <1>1. IsFiniteSet(objs) /\ objs \in SUBSET Nat
    BY SpaceConstants, FS_Subset
  <1>2. objs # {}
    BY FS_EmptySet
  <1>3. self \in objs
    BY <1>1, <1>2, MinIn DEF self
  <1>4. PICK R \in SUBSET Nat : R = objs \ {self}
    BY <1>1
  <1>5. R # {}
    <2>1. Cardinality(R) = Cardinality(objs) - 1 /\ Cardinality(objs) \in Nat
      BY <1>1, <1>3, <1>4, FS_RemoveElement, FS_CardinalityType
    <2>2. QED BY <2>1, FS_EmptySet
  <1>6. pgd \in R
    BY <1>4, <1>5, MinIn DEF pgd
  <1>7. QED BY <1>3, <1>4, <1>6

-----------------------------------------------------------------------------
(* The contents of the pages.                                              *)

LEMMA LoadedMem ==
    ASSUME mem \in [Frames -> Vals], NEW c, NEW img, NEW V, Values(c.map) = V,
           NEW m, m = Loaded(c, img)
    PROVE  m \in [Frames -> Vals] /\ \A f \in Frames \ V : m[f] = mem[f]
  <1>1. ImageVal \in Vals
    BY SpaceConstants
  <1>2. m \in [Frames -> Vals]
    BY <1>1 DEF Loaded
  <1>3. ASSUME NEW f \in Frames \ V PROVE m[f] = mem[f]
    <2>1. ~ \E va \in ToSet(img.pages) : va \in DOMAIN c.map /\ c.map[va] = f
      BY DEF Values
    <2>2. QED BY <2>1 DEF Loaded
  <1>4. QED BY <1>2, <1>3

\* m is the memory with the pages of d copied to those of g, all in V.
PageCopies(m, g, d, V) ==
    /\ m \in [Frames -> Vals] /\ \A f \in Frames \ V : m[f] = mem[f]
    /\ \A va \in DOMAIN g : m[g[va]] = mem[d[va]]

LEMMA CopiedMem ==
    ASSUME mem \in [Frames -> Vals], NEW c, NEW g, g = c.map, NEW s, NEW d, d = s.map,
           NEW V, Table(g, V), V \subseteq Frames, DOMAIN g \subseteq DOMAIN d,
           Values(d) \subseteq Frames, NEW m, m = Copied(c, s)
    PROVE  PageCopies(m, g, d, V)
  <1>1. Values(g) = V
    BY DEF Table
  <1>2. \A f \in Frames : m[f] = IF f \in V
                                   THEN mem[d[CHOOSE va \in DOMAIN g : g[va] = f]]
                                   ELSE mem[f]
    BY <1>1 DEF Copied
  <1>3. ASSUME NEW va \in DOMAIN g
        PROVE  g[va] \in V /\ m[g[va]] = mem[d[va]] /\ mem[d[va]] \in Vals
    <2>1. PICK f : f = g[va]
      OBVIOUS
    <2>2. f \in V
      BY <1>1, <2>1 DEF Values
    <2>3. (CHOOSE x \in DOMAIN g : g[x] = f) = va
      BY <2>1 DEF Table
    <2>4. m[f] = mem[d[va]]
      BY <1>2, <2>2, <2>3
    <2>5. d[va] \in Frames
      BY DEF Values
    <2>6. QED BY <2>1, <2>2, <2>4, <2>5
  <1>4. ASSUME NEW f \in Frames PROVE m[f] \in Vals
    <2>1. CASE f \in V
      <3>1. PICK va \in DOMAIN g : g[va] = f
        BY <1>1, <2>1 DEF Values
      <3>2. QED BY <1>3, <3>1
    <2>2. CASE f \notin V
      BY <1>2, <2>2
    <2>3. QED BY <2>1, <2>2
  <1>5. m \in [Frames -> Vals]
    <2>1. m = [f \in Frames |-> m[f]]
      BY DEF Copied
    <2>2. QED BY <1>4, <2>1
  <1>6. QED BY <1>2, <1>3, <1>5 DEF PageCopies

-----------------------------------------------------------------------------
(* The calls preserve the invariant.                                       *)

\* What p reads is where and what it was.
Untouched(p) ==
    /\ space'[p].map = space[p].map
    /\ \A f \in Values(space[p].map) : mem'[f] = mem[f]

\* The types of the allocators' sets.
LEMMA Pools ==
    ASSUME SpaceInv
    PROVE  /\ free \in SUBSET Nat /\ free \subseteq Frames
           /\ objs \in SUBSET Nat /\ objs \subseteq Objs
           /\ \A p \in live : /\ p \in Procs /\ Tables(space[p])
                              /\ FramesIn(space[p]) \subseteq Frames
                              /\ FramesIn(space[p]) \cap free = {}
  <1>1. free \subseteq Frames /\ objs \subseteq Objs
    BY DEF SpaceInv, Split
  <1>2. free \in SUBSET Nat /\ objs \in SUBSET Nat
    BY <1>1, SpaceConstants
  <1>3. ASSUME NEW p \in live
        PROVE  /\ p \in Procs /\ Tables(space[p])
               /\ FramesIn(space[p]) \subseteq Frames /\ FramesIn(space[p]) \cap free = {}
    <2>1. p \in Procs /\ Tables(space[p])
      BY DEF SpaceInv
    <2>2. FrameOwner[p] = FramesIn(space[p])
      BY <2>1 DEF FrameOwner
    <2>3. QED BY <2>1, <2>2 DEF SpaceInv, Split
  <1>4. QED BY <1>1, <1>2, <1>3

\* A step that moves nothing.
LEMMA StayStep ==
    ASSUME SpaceInv, UNCHANGED <<disk, space, live, free, objs, lost>>,
           phase' \in {"boot", "run", "off"}, phase' = "boot" => phase = "boot",
           mem' \in [Frames -> Vals]
    PROVE  SpaceInv'
  <1>1. FrameOwner' = FrameOwner /\ ObjOwner' = ObjOwner
    BY DEF FrameOwner, ObjOwner
  <1>2. QED BY <1>1 DEF SpaceInv

\* A new process, made of what has been taken.
LEMMA NewStep ==
    ASSUME SpaceInv, NEW c \in Procs, c \notin live, NEW s, Tables(s),
           space' = [space EXCEPT ![c] = s], live' = live \cup {c},
           FramesIn(s) = free \ free', free' \subseteq free,
           ObjsIn(s) = objs \ objs', objs' \subseteq objs,
           lost' = lost, disk' = disk, phase' = "run", mem' \in [Frames -> Vals]
    PROVE  SpaceInv' /\ space'[c] = s /\ \A q \in live : space'[q] = space[q]
  <1>1. /\ space = [p \in Procs |-> space[p]] /\ live \subseteq Procs
        /\ \A p \in live : Tables(space[p])
    BY DEF SpaceInv
  <1>2. /\ space'[c] = s /\ \A q \in live : space'[q] = space[q]
        /\ space' = [p \in Procs |-> space'[p]]
    BY <1>1
  <1>3. \A p \in live' : Tables(space'[p])
    BY <1>1, <1>2
  <1>4. Split(Frames, FrameOwner', live', free', lost.frames)
    <2>1. PICK own, to : own = FrameOwner /\ to = FrameOwner'
      OBVIOUS
    <2>2. to[c] = free \ free' /\ \A q \in live : to[q] = own[q]
      BY <1>1, <1>2, <2>1 DEF FrameOwner
    <2>3. Split(Frames, own, live, free, lost.frames)
      BY <2>1 DEF SpaceInv
    <2>4. Split(Frames, to, live', free', lost.frames)
      BY <2>2, <2>3, SplitNew
    <2>5. QED BY <2>1, <2>4
  <1>5. Split(Objs, ObjOwner', live', objs', lost.objs)
    <2>1. PICK own, to : own = ObjOwner /\ to = ObjOwner'
      OBVIOUS
    <2>2. to[c] = objs \ objs' /\ \A q \in live : to[q] = own[q]
      BY <1>1, <1>2, <2>1 DEF ObjOwner
    <2>3. Split(Objs, own, live, objs, lost.objs)
      BY <2>1 DEF SpaceInv
    <2>4. Split(Objs, to, live', objs', lost.objs)
      BY <2>2, <2>3, SplitNew
    <2>5. QED BY <2>1, <2>4
  <1>6. /\ phase' \in {"boot", "run", "off"} /\ (phase' = "boot" => live' = {})
        /\ disk' \subseteq Images /\ live' \subseteq Procs
    BY <1>1 DEF SpaceInv
  <1>7. SpaceInv'
    BY <1>2, <1>3, <1>4, <1>5, <1>6 DEF SpaceInv
  <1>8. QED BY <1>2, <1>7

\* What fork or create took is freed when it fails.
LEMMA FreesAll ==
    ASSUME NEW b, Built(b, free, objs \ {self, pgd}), self \in objs, pgd \in objs,
           process_free(Shell(b), b.free, b.objs)
    PROVE  free' = free /\ objs' = objs
  <1>1. PICK F, O : F = free /\ O = objs \ {self, pgd}
    OBVIOUS
  <1>2. b.free \cup Values(b.map) = F /\ b.objs \cup Values(b.l2) = O
    BY <1>1, BuiltFrees
  <1>3. /\ Shell(b).self = self /\ Shell(b).pgd = pgd
        /\ Shell(b).l2 = b.l2 /\ Shell(b).map = b.map
    BY DEF Shell
  <1>4. free' = b.free \cup Values(b.map) /\ objs' = b.objs \cup {self} \cup Values(b.l2) \cup {pgd}
    BY <1>3 DEF process_free, FreeTables
  <1>5. QED BY <1>1, <1>2, <1>4

\* A call that fails harmlessly gives back what it took.
GivesBack == free' = free /\ objs' = objs

LEMMA CreateStep ==
    ASSUME SpaceInv, NEW p \in Procs, NEW img \in disk, process_create(p, img)
    PROVE  SpaceInv' /\ live = {} /\ (ret' = "fail" => live' = live /\ GivesBack)
  <1>1. live = {} /\ phase = "boot" /\ img \in Images /\ UNCHANGED disk
    BY DEF SpaceInv, process_create
  <1>2. /\ free \in SUBSET Nat /\ free \subseteq Frames
        /\ objs \in SUBSET Nat /\ objs \subseteq Objs
    BY Pools
  <1>3. PICK O \in SUBSET Nat : O = objs \ {self, pgd}
    BY <1>2
  <1>4. PICK c : c = load_user_image(Blank(free, O), img)
    OBVIOUS
  <1>5. PICK b : b = setup_initial_stack(c)
    OBVIOUS
  <1>6. Built(c, free, O) /\ Built(b, free, O)
    BY <1>1, <1>2, <1>4, <1>5, ImageAndStack
  <1>7. mem \in [Frames -> Vals] /\ Loaded(c, img) \in [Frames -> Vals]
    BY LoadedMem DEF SpaceInv
  <1>8. CASE /\ Cardinality(objs) < 2
             /\ phase' = "off" /\ Ends(0, "fail")
             /\ UNCHANGED <<free, objs, mem>>
    <2>1. UNCHANGED <<disk, space, live, free, objs, lost>> /\ mem' \in [Frames -> Vals]
      BY <1>1, <1>7, <1>8 DEF Ends
    <2>2. QED BY <1>1, <1>8, <2>1, StayStep DEF GivesBack
  <1>9. CASE /\ Cardinality(objs) >= 2 /\ ~ c.ok
             /\ process_free(Shell(c), c.free, c.objs)
             /\ phase' = "off" /\ Ends(0, "fail")
             /\ UNCHANGED mem
    <2>1. self \in objs /\ pgd \in objs
      BY <1>2, <1>9, TwoObjects
    <2>2. free' = free /\ objs' = objs
      BY <1>3, <1>6, <1>9, <2>1, FreesAll
    <2>3. UNCHANGED <<disk, space, live, free, objs, lost>> /\ mem' \in [Frames -> Vals]
      BY <1>1, <1>7, <1>9, <2>2 DEF Ends
    <2>4. QED BY <1>1, <1>9, <2>3, StayStep DEF GivesBack
  <1>10. CASE /\ Cardinality(objs) >= 2 /\ c.ok /\ ~ b.ok
              /\ process_free(Shell(b), b.free, b.objs)
              /\ mem' = Loaded(c, img)
              /\ phase' = "off" /\ Ends(0, "fail")
    <2>1. self \in objs /\ pgd \in objs
      BY <1>2, <1>10, TwoObjects
    <2>2. free' = free /\ objs' = objs
      BY <1>3, <1>6, <1>10, <2>1, FreesAll
    <2>3. UNCHANGED <<disk, space, live, free, objs, lost>> /\ mem' \in [Frames -> Vals]
      BY <1>1, <1>7, <1>10, <2>2 DEF Ends
    <2>4. QED BY <1>1, <1>10, <2>3, StayStep DEF GivesBack
  <1>11. CASE /\ Cardinality(objs) >= 2 /\ c.ok /\ b.ok
              /\ space' = [space EXCEPT ![p] = Shell(b)] /\ live' = {p}
              /\ free' = b.free /\ objs' = b.objs
              /\ mem' = Loaded(c, img)
              /\ phase' = "run" /\ actor' = p /\ ret' = "create"
              /\ UNCHANGED lost
    <2>1. self \in objs /\ pgd \in objs /\ self # pgd
      BY <1>2, <1>11, TwoObjects
    <2>2. PICK s : s = Shell(b)
      OBVIOUS
    <2>3. /\ Tables(s) /\ FramesIn(s) = free \ free' /\ free' \subseteq free
          /\ ObjsIn(s) = objs \ objs' /\ objs' \subseteq objs
      <3>1. PICK x, y : x = self /\ y = pgd
        OBVIOUS
      <3>2. x # y /\ x \notin O /\ y \notin O
        BY <1>3, <2>1, <3>1
      <3>3. s = [self |-> x, pgd |-> y, l2 |-> b.l2, map |-> b.map]
        BY <2>2, <3>1 DEF Shell
      <3>4. Tables(s) /\ FramesIn(s) = free \ b.free /\ ObjsIn(s) = {x, y} \cup (O \ b.objs)
        BY <1>6, <3>2, <3>3, BuiltTables
      <3>5. b.free \subseteq free /\ b.objs \subseteq O
        BY <1>6 DEF Built
      <3>6. {x, y} \cup (O \ b.objs) = objs \ b.objs
        BY <1>3, <2>1, <3>1, <3>5
      <3>7. QED BY <1>3, <1>11, <3>4, <3>5, <3>6
    <2>4. live' = live \cup {p} /\ p \notin live
      BY <1>1, <1>11
    <2>5. SpaceInv'
      <3>1. space' = [space EXCEPT ![p] = s] /\ mem' \in [Frames -> Vals]
        BY <1>7, <1>11, <2>2
      <3>2. QED BY <1>1, <1>11, <2>3, <2>4, <3>1, NewStep
    <2>6. QED BY <1>1, <1>11, <2>5
  <1>12. QED BY <1>3, <1>4, <1>5, <1>8, <1>9, <1>10, <1>11 DEF process_create

\* A store changes a page of the process that makes it.
LEMMA StoreStep ==
    ASSUME SpaceInv, NEW p \in Procs, Store(p)
    PROVE  /\ SpaceInv' /\ ret' = "store" /\ live' = live
           /\ \A q \in live : q # actor' => Untouched(q)
  <1>1. PICK va \in DOMAIN space[p].map, v \in Vals : mem' = [mem EXCEPT ![space[p].map[va]] = v]
    BY DEF Store
  <1>2. p \in live /\ actor' = p /\ ret' = "store"
        /\ UNCHANGED <<phase, disk, space, live, free, objs, lost>>
    BY DEF Store
  <1>3. mem \in [Frames -> Vals]
    BY DEF SpaceInv
  <1>4. PICK f : f = space[p].map[va] /\ f \in FramesIn(space[p])
    BY DEF FramesIn, Values
  <1>5. mem' = [mem EXCEPT ![f] = v]
    BY <1>1, <1>4
  <1>6. SpaceInv'
    <2>1. mem' \in [Frames -> Vals]
      BY <1>3, <1>5
    <2>2. QED BY <1>2, <2>1, StayStep DEF SpaceInv
  <1>7. ASSUME NEW q \in live, q # p PROVE Untouched(q)
    <2>1. FramesIn(space[q]) \cap FramesIn(space[p]) = {} /\ FramesIn(space[q]) \subseteq Frames
      <3>1. p \in Procs /\ q \in Procs /\ p \in live
        BY <1>2 DEF SpaceInv
      <3>2. FrameOwner[q] = FramesIn(space[q]) /\ FrameOwner[p] = FramesIn(space[p])
        BY <3>1 DEF FrameOwner
      <3>3. QED BY <1>7, <3>1, <3>2 DEF SpaceInv, Split
    <2>2. \A x \in FramesIn(space[q]) : x \in Frames /\ x # f
      BY <1>4, <2>1
    <2>3. \A x \in FramesIn(space[q]) : mem'[x] = mem[x]
      BY <1>3, <1>5, <2>2
    <2>4. QED BY <1>2, <2>3 DEF Untouched, FramesIn
  <1>8. QED BY <1>2, <1>6, <1>7

\* Exit gives back all the process has.
LEMMA ExitStep ==
    ASSUME SpaceInv, NEW p \in Procs, process_exit(p)
    PROVE  /\ SpaceInv' /\ ret' = "exit" /\ live' \subseteq live
           /\ \A q \in live : q # actor' => Untouched(q)
  <1>1. /\ phase = "run" /\ p \in live /\ live' = live \ {p}
        /\ space' = [space EXCEPT ![p] = NoSpace]
        /\ actor' = p /\ ret' = "exit" /\ UNCHANGED <<disk, lost, mem>>
    BY DEF process_exit
  <1>2. phase' \in {"run", "off"}
    BY DEF process_exit
  <1>3. free' = free \cup FramesIn(space[p]) /\ objs' = objs \cup ObjsIn(space[p])
    BY DEF process_exit, process_free, FreeTables, FramesIn, ObjsIn
  <1>4. /\ space = [q \in Procs |-> space[q]] /\ live \subseteq Procs
        /\ \A q \in live : Tables(space[q])
    BY DEF SpaceInv
  <1>5. /\ \A q \in live' : space'[q] = space[q] /\ q \in live
        /\ space' = [q \in Procs |-> space'[q]]
    BY <1>1, <1>4
  <1>6. Split(Frames, FrameOwner', live', free', lost.frames)
    <2>1. PICK own, to : own = FrameOwner /\ to = FrameOwner'
      OBVIOUS
    <2>2. own[p] = FramesIn(space[p]) /\ \A q \in live' : to[q] = own[q]
      BY <1>4, <1>5, <2>1 DEF FrameOwner
    <2>3. Split(Frames, own, live, free, lost.frames)
      BY <2>1 DEF SpaceInv
    <2>4. Split(Frames, to, live', free', lost.frames)
      BY <1>1, <1>3, <2>2, <2>3, SplitExit
    <2>5. QED BY <2>1, <2>4
  <1>7. Split(Objs, ObjOwner', live', objs', lost.objs)
    <2>1. PICK own, to : own = ObjOwner /\ to = ObjOwner'
      OBVIOUS
    <2>2. own[p] = ObjsIn(space[p]) /\ \A q \in live' : to[q] = own[q]
      BY <1>4, <1>5, <2>1 DEF ObjOwner
    <2>3. Split(Objs, own, live, objs, lost.objs)
      BY <2>1 DEF SpaceInv
    <2>4. Split(Objs, to, live', objs', lost.objs)
      BY <1>1, <1>3, <2>2, <2>3, SplitExit
    <2>5. QED BY <2>1, <2>4
  <1>8. SpaceInv'
    <2>1. \A q \in live' : Tables(space'[q])
      BY <1>4, <1>5
    <2>2. /\ disk' \subseteq Images /\ live' \subseteq Procs
          /\ mem' \in [Frames -> Vals] /\ lost' = lost
      BY <1>1, <1>4 DEF SpaceInv
    <2>3. QED BY <1>2, <1>5, <1>6, <1>7, <2>1, <2>2 DEF SpaceInv
  <1>9. \A q \in live : q # p => Untouched(q)
    BY <1>1, <1>4 DEF Untouched
  <1>10. QED BY <1>1, <1>8, <1>9

\* The new process c finds what p had.
CopyOf(c, p) ==
    /\ DOMAIN space'[c].map = DOMAIN space[p].map
    /\ \A va \in DOMAIN space[p].map : mem'[space'[c].map[va]] = mem[space[p].map[va]]

LEMMA ForkStep ==
    ASSUME SpaceInv, NEW p \in Procs, process_fork(p)
    PROVE  /\ SpaceInv' /\ actor' = p /\ p \in live /\ live \subseteq live'
           /\ \A q \in live : Untouched(q)
           /\ ret' = "fail" => live' = live /\ GivesBack
           /\ ret' # "fail_load"
           /\ \A c \in live' \ live : CopyOf(c, p)
  <1>1. phase = "run" /\ p \in live /\ UNCHANGED <<phase, disk>>
    BY DEF process_fork
  <1>2. /\ free \in SUBSET Nat /\ free \subseteq Frames
        /\ objs \in SUBSET Nat /\ objs \subseteq Objs
        /\ \A q \in live : /\ q \in Procs /\ Tables(space[q])
                           /\ FramesIn(space[q]) \subseteq Frames
                           /\ FramesIn(space[q]) \cap free = {}
    BY Pools
  <1>3. PICK O \in SUBSET Nat : O = objs \ {self, pgd}
    BY <1>2
  <1>4. PICK s : s = space[p]
    OBVIOUS
  <1>5. PICK a : a = Blank(free, O) /\ Built(a, free, O) /\ DOMAIN a.map = {}
    BY BlankBuilt
  <1>6. PICK b : b = copy_pages(a, s)
    OBVIOUS
  <1>7. DOMAIN s.map \subseteq Pages /\ Covered(s) /\ Values(s.map) \subseteq Frames
    BY <1>1, <1>2, <1>4 DEF Tables, FramesIn
  <1>8. /\ Built(b, free, O) /\ DOMAIN b.map \subseteq DOMAIN s.map
        /\ b.ok => DOMAIN b.map = DOMAIN s.map
    BY <1>2, <1>5, <1>6, <1>7, CopyPages, ZenonT(30)
  <1>9. mem \in [Frames -> Vals]
    BY DEF SpaceInv
  <1>10. PICK m : m = Copied(b, s)
    OBVIOUS
  <1>11. /\ m \in [Frames -> Vals] /\ \A f \in Frames \ free : m[f] = mem[f]
         /\ \A va \in DOMAIN b.map : m[b.map[va]] = mem[s.map[va]]
    <2>1. PICK V : V = free \ b.free
      OBVIOUS
    <2>2. Table(b.map, V) /\ V \subseteq Frames /\ V \subseteq free
      BY <1>2, <1>8, <2>1 DEF Built
    <2>3. /\ m \in [Frames -> Vals] /\ \A f \in Frames \ V : m[f] = mem[f]
          /\ \A va \in DOMAIN b.map : m[b.map[va]] = mem[s.map[va]]
      <3>1. PICK g, d : g = b.map /\ d = s.map
        OBVIOUS
      <3>2. Table(g, V) /\ DOMAIN g \subseteq DOMAIN d /\ Values(d) \subseteq Frames
        BY <1>7, <1>8, <2>2, <3>1
      <3>3. PageCopies(m, g, d, V)
        BY <1>9, <1>10, <2>2, <3>1, <3>2, CopiedMem
      <3>4. QED BY <3>1, <3>3 DEF PageCopies
    <2>4. QED BY <2>2, <2>3
  <1>12. CASE /\ Cardinality(objs) < 2
              /\ Ends(p, "fail") /\ UNCHANGED <<free, objs, mem>>
    <2>1. UNCHANGED <<disk, space, live, free, objs, lost>> /\ mem' \in [Frames -> Vals]
      BY <1>1, <1>9, <1>12 DEF Ends
    <2>2. SpaceInv'
      BY <1>1, <2>1, StayStep
    <2>3. \A q \in live : Untouched(q)
      BY <1>12, <2>1 DEF Untouched
    <2>4. QED BY <1>1, <1>12, <2>1, <2>2, <2>3 DEF Ends, GivesBack
  <1>13. CASE /\ Cardinality(objs) >= 2 /\ (~ b.ok \/ live = Procs)
              /\ process_free(Shell(b), b.free, b.objs)
              /\ mem' = m
              /\ Ends(p, "fail")
    <2>1. self \in objs /\ pgd \in objs
      BY <1>2, <1>13, TwoObjects
    <2>2. free' = free /\ objs' = objs
      BY <1>3, <1>8, <1>13, <2>1, FreesAll
    <2>3. UNCHANGED <<disk, space, live, free, objs, lost>> /\ mem' \in [Frames -> Vals]
      BY <1>1, <1>11, <1>13, <2>2 DEF Ends
    <2>4. SpaceInv'
      BY <1>1, <2>3, StayStep
    <2>5. \A q \in live : Untouched(q)
      BY <1>2, <1>11, <1>13, <2>3 DEF Untouched, FramesIn
    <2>6. QED BY <1>1, <1>13, <2>3, <2>4, <2>5 DEF Ends, GivesBack
  <1>14. CASE /\ Cardinality(objs) >= 2 /\ b.ok /\ live # Procs
              /\ LET c == Min(Procs \ live)
                 IN space' = [space EXCEPT ![c] = Shell(b)] /\ live' = live \cup {c}
              /\ free' = b.free /\ objs' = b.objs
              /\ mem' = m
              /\ actor' = p /\ ret' = "fork"
              /\ UNCHANGED lost
    <2>1. self \in objs /\ pgd \in objs /\ self # pgd
      BY <1>2, <1>14, TwoObjects
    <2>2. PICK n : n = Shell(b)
      OBVIOUS
    <2>3. PICK c : c = Min(Procs \ live)
      OBVIOUS
    <2>4. c \in Procs /\ c \notin live
      <3>1. PICK R \in SUBSET Nat : R = Procs \ live
        BY SpaceConstants
      <3>2. R # {}
        BY <1>2, <1>14, <3>1
      <3>3. Min(R) \in R
        BY <3>2, MinIn
      <3>4. QED BY <2>3, <3>1, <3>3
    <2>5. space' = [space EXCEPT ![c] = n] /\ live' = live \cup {c}
      BY <1>14, <2>2, <2>3
    <2>6. /\ Tables(n) /\ FramesIn(n) = free \ free' /\ free' \subseteq free
          /\ ObjsIn(n) = objs \ objs' /\ objs' \subseteq objs
      <3>1. PICK x, y : x = self /\ y = pgd
        OBVIOUS
      <3>2. x # y /\ x \notin O /\ y \notin O
        BY <1>3, <2>1, <3>1
      <3>3. n = [self |-> x, pgd |-> y, l2 |-> b.l2, map |-> b.map]
        BY <2>2, <3>1 DEF Shell
      <3>4. Tables(n) /\ FramesIn(n) = free \ b.free /\ ObjsIn(n) = {x, y} \cup (O \ b.objs)
        BY <1>8, <3>2, <3>3, BuiltTables
      <3>5. b.free \subseteq free /\ b.objs \subseteq O
        BY <1>8 DEF Built
      <3>6. {x, y} \cup (O \ b.objs) = objs \ b.objs
        BY <1>3, <2>1, <3>1, <3>5
      <3>7. QED BY <1>3, <1>14, <3>4, <3>5, <3>6
    <2>7. SpaceInv' /\ space'[c] = n /\ \A q \in live : space'[q] = space[q]
      <3>1. mem' \in [Frames -> Vals] /\ phase' = "run" /\ disk' = disk /\ lost' = lost
        BY <1>1, <1>11, <1>14
      <3>2. QED BY <2>4, <2>5, <2>6, <3>1, NewStep
    <2>8. ASSUME NEW q \in live PROVE Untouched(q)
      <3>1. \A f \in Values(space[q].map) : f \in Frames \ free
        BY <1>2 DEF FramesIn
      <3>2. \A f \in Values(space[q].map) : mem'[f] = mem[f]
        BY <1>11, <1>14, <3>1
      <3>3. QED BY <2>7, <3>2 DEF Untouched
    <2>9. CopyOf(c, p)
      <3>1. n.map = b.map
        BY <2>2 DEF Shell
      <3>2. PICK g, d : g = b.map /\ d = s.map
        OBVIOUS
      <3>3. DOMAIN g = DOMAIN d /\ \A va \in DOMAIN d : m[g[va]] = mem[d[va]]
        BY <1>8, <1>11, <1>14, <3>2
      <3>4. space'[c].map = g /\ space[p].map = d /\ mem' = m
        BY <1>4, <1>14, <2>7, <3>1, <3>2
      <3>5. QED BY <3>3, <3>4 DEF CopyOf
    <2>10. QED BY <1>1, <1>14, <2>5, <2>7, <2>8, <2>9
  <1>15. QED BY <1>3, <1>4, <1>5, <1>6, <1>10, <1>12, <1>13, <1>14 DEF process_fork

LEMMA NewTables ==
    ASSUME NEW s, s = [self |-> s.self, pgd |-> s.pgd, l2 |-> s.l2, map |-> s.map],
           NEW x, NEW y, NEW z, NEW n, n = [s EXCEPT !.pgd = x, !.l2 = y, !.map = z]
    PROVE  n = [self |-> s.self, pgd |-> x, l2 |-> y, map |-> z]
  OBVIOUS

LEMMA ReplaceStep ==
    ASSUME SpaceInv, NEW p \in Procs, NEW img \in disk, process_replace(p, img)
    PROVE  /\ SpaceInv' /\ live' = live /\ actor' = p
           /\ \A q \in live : q # p => Untouched(q)
           /\ ret' # "exec" => \A q \in live : Untouched(q)
           /\ ret' = "fail" => GivesBack
  <1>1. phase = "run" /\ p \in live /\ UNCHANGED <<phase, disk>> /\ img \in Images
    BY DEF process_replace, SpaceInv
  <1>2. /\ free \in SUBSET Nat /\ free \subseteq Frames
        /\ objs \in SUBSET Nat /\ objs \subseteq Objs
        /\ \A q \in live : /\ q \in Procs /\ Tables(space[q])
                           /\ FramesIn(space[q]) \subseteq Frames
                           /\ FramesIn(space[q]) \cap free = {}
    BY Pools
  <1>3. PICK y : y = Min(objs)
    OBVIOUS
  <1>4. objs # {} => y \in objs
    BY <1>2, <1>3, MinIn
  <1>5. PICK O \in SUBSET Nat : O = objs \ {y}
    BY <1>2
  <1>6. PICK c : c = load_user_image(Blank(free, O), img)
    OBVIOUS
  <1>7. PICK b : b = setup_initial_stack(c)
    OBVIOUS
  <1>8. Built(c, free, O) /\ Built(b, free, O)
    BY <1>1, <1>2, <1>6, <1>7, ImageAndStack
  <1>9. /\ Values(b.map) = free \ b.free /\ Values(b.l2) = O \ b.objs
        /\ b.free \subseteq free /\ b.objs \subseteq O
        /\ b.free \cup Values(b.map) = free /\ b.objs \cup Values(b.l2) = O
    BY <1>8, BuiltFrees
  <1>10. /\ Values(c.map) = free \ c.free /\ Values(c.l2) = O \ c.objs
         /\ c.free \subseteq free /\ c.objs \subseteq O
    BY <1>8, BuiltFrees
  <1>11. PICK s : s = space[p] /\ Tables(s)
    BY <1>1, <1>2
  <1>12. PICK n : n = [s EXCEPT !.pgd = y, !.l2 = b.l2, !.map = b.map]
    OBVIOUS
  <1>13. n = [self |-> s.self, pgd |-> y, l2 |-> b.l2, map |-> b.map]
    <2>1. s = [self |-> s.self, pgd |-> s.pgd, l2 |-> s.l2, map |-> s.map]
      BY <1>11 DEF Tables
    <2>2. QED BY <1>12, <2>1, NewTables
  <1>14. mem \in [Frames -> Vals]
    BY DEF SpaceInv
  <1>15. PICK m : m = Loaded(c, img)
    OBVIOUS
  <1>16. m \in [Frames -> Vals] /\ \A f \in Frames \ free : m[f] = mem[f]
    <2>1. m \in [Frames -> Vals] /\ \A f \in Frames \ (free \ c.free) : m[f] = mem[f]
      BY <1>10, <1>14, <1>15, LoadedMem
    <2>2. QED BY <2>1
  <1>17. CASE objs = {} /\ Ends(p, "fail") /\ UNCHANGED <<free, objs, mem>>
    <2>1. UNCHANGED <<disk, space, live, free, objs, lost>> /\ mem' \in [Frames -> Vals]
      BY <1>1, <1>14, <1>17 DEF Ends
    <2>2. SpaceInv'
      BY <1>1, <2>1, StayStep
    <2>3. \A q \in live : Untouched(q)
      BY <1>17, <2>1 DEF Untouched
    <2>4. QED BY <1>1, <1>17, <2>1, <2>2, <2>3 DEF Ends, GivesBack
  <1>18. CASE /\ objs # {} /\ ~ c.ok
              /\ free' = c.free /\ objs' = c.objs \cup {y}
              /\ lost' = [frames |-> lost.frames \cup Values(c.map),
                          objs |-> lost.objs \cup Values(c.l2)]
              /\ actor' = p /\ ret' = "fail_load"
              /\ UNCHANGED <<space, live, mem>>
    <2>1. FrameOwner' = FrameOwner /\ ObjOwner' = ObjOwner
      BY <1>18 DEF FrameOwner, ObjOwner
    <2>2. Split(Frames, FrameOwner, live, free', lost'.frames)
      <3>1. PICK own, lo, rest, gone :
                own = FrameOwner /\ lo = lost.frames /\ rest = free' /\ gone = lost'.frames
        OBVIOUS
      <3>2. Split(Frames, own, live, free, lo)
        BY <3>1 DEF SpaceInv
      <3>3. rest \subseteq free /\ gone = lo \cup (free \ rest)
        BY <1>10, <1>18, <3>1
      <3>4. Split(Frames, own, live, rest, gone)
        BY <3>2, <3>3, SplitLose
      <3>5. QED BY <3>1, <3>4
    <2>3. Split(Objs, ObjOwner, live, objs', lost'.objs)
      <3>1. PICK own, lo, rest, gone :
                own = ObjOwner /\ lo = lost.objs /\ rest = objs' /\ gone = lost'.objs
        OBVIOUS
      <3>2. Split(Objs, own, live, objs, lo)
        BY <3>1 DEF SpaceInv
      <3>3. rest \subseteq objs /\ objs \ rest = O \ c.objs /\ gone = lo \cup (O \ c.objs)
        BY <1>4, <1>5, <1>10, <1>18, <3>1
      <3>4. Split(Objs, own, live, rest, gone)
        BY <3>2, <3>3, SplitLose
      <3>5. QED BY <3>1, <3>4
    <2>4. SpaceInv'
      BY <1>1, <1>18, <2>1, <2>2, <2>3 DEF SpaceInv
    <2>5. \A q \in live : Untouched(q)
      BY <1>18 DEF Untouched
    <2>6. QED BY <1>18, <2>4, <2>5
  <1>19. CASE /\ objs # {} /\ c.ok /\ ~ b.ok
              /\ FreeTables(n, b.free, b.objs)
              /\ mem' = m
              /\ Ends(p, "fail")
    <2>1. n.map = b.map /\ n.l2 = b.l2 /\ n.pgd = y
      BY <1>13
    <2>2. free' = free /\ objs' = objs
      BY <1>4, <1>5, <1>9, <1>19, <2>1 DEF FreeTables
    <2>3. UNCHANGED <<disk, space, live, free, objs, lost>> /\ mem' \in [Frames -> Vals]
      BY <1>1, <1>16, <1>19, <2>2 DEF Ends
    <2>4. SpaceInv'
      BY <1>1, <2>3, StayStep
    <2>5. \A q \in live : Untouched(q)
      BY <1>2, <1>16, <1>19, <2>3 DEF Untouched, FramesIn
    <2>6. QED BY <1>1, <1>19, <2>3, <2>4, <2>5 DEF Ends, GivesBack
  <1>20. CASE /\ objs # {} /\ c.ok /\ b.ok
              /\ space' = [space EXCEPT ![p] = n]
              /\ FreeTables(s, b.free, b.objs)
              /\ mem' = m
              /\ actor' = p /\ ret' = "exec"
              /\ UNCHANGED <<live, lost>>
    <2>1. /\ space = [q \in Procs |-> space[q]] /\ live \subseteq Procs
          /\ \A q \in live : Tables(space[q])
      BY DEF SpaceInv
    <2>2. /\ space'[p] = n /\ \A q \in live \ {p} : space'[q] = space[q]
          /\ space' = [q \in Procs |-> space'[q]]
      BY <1>20, <2>1
    <2>3. s.self \in ObjOwner[p] /\ ObjOwner[p] = ObjsIn(s)
      BY <1>1, <1>11, <2>1 DEF ObjOwner, ObjsIn
    <2>4. PICK x : x = s.self
      OBVIOUS
    <2>5. x # y /\ x \notin O /\ y \notin O
      <3>1. x \notin objs
        BY <1>1, <2>3, <2>4 DEF SpaceInv, Split
      <3>2. QED BY <1>4, <1>5, <1>20, <3>1
    <2>6. Tables(n) /\ FramesIn(n) = free \ b.free /\ ObjsIn(n) = {x, y} \cup (O \ b.objs)
      BY <1>8, <1>13, <2>4, <2>5, BuiltTables
    <2>7. Split(Frames, FrameOwner', live, free', lost.frames)
      <3>1. PICK own, to, rest, now, kept :
                own = FrameOwner /\ to = FrameOwner' /\ rest = b.free /\ now = free' /\ kept = {}
        OBVIOUS
      <3>2. /\ own[p] = FramesIn(s) /\ to[p] = kept \cup (free \ rest)
            /\ \A q \in live \ {p} : to[q] = own[q]
        BY <1>1, <1>11, <2>1, <2>2, <2>6, <3>1 DEF FrameOwner
      <3>3. now = rest \cup (own[p] \ kept) /\ rest \subseteq free /\ kept \subseteq own[p]
        BY <1>9, <1>20, <3>1, <3>2 DEF FreeTables, FramesIn
      <3>4. Split(Frames, own, live, free, lost.frames)
        BY <3>1 DEF SpaceInv
      <3>5. Split(Frames, to, live, now, lost.frames)
        BY <1>1, <3>2, <3>3, <3>4, SplitReplace
      <3>6. QED BY <3>1, <3>5
    <2>8. Split(Objs, ObjOwner', live, objs', lost.objs)
      <3>1. PICK own, to, rest, now, kept :
                own = ObjOwner /\ to = ObjOwner' /\ rest = b.objs /\ now = objs' /\ kept = {x}
        OBVIOUS
      <3>2. /\ own[p] = ObjsIn(s) /\ to[p] = {x, y} \cup (O \ rest)
            /\ \A q \in live \ {p} : to[q] = own[q]
        BY <1>1, <1>11, <2>1, <2>2, <2>6, <3>1 DEF ObjOwner
      <3>3. rest \subseteq objs /\ kept \subseteq own[p] /\ to[p] = kept \cup (objs \ rest)
        BY <1>4, <1>5, <1>9, <1>20, <2>3, <2>4, <3>1, <3>2
      <3>4. now = rest \cup (own[p] \ kept)
        <4>1. now = rest \cup Values(s.l2) \cup {s.pgd}
          BY <1>20, <3>1 DEF FreeTables
        <4>2. own[p] \ kept = Values(s.l2) \cup {s.pgd}
          BY <1>11, <2>4, <3>1, <3>2 DEF Tables, ObjsIn
        <4>3. QED BY <4>1, <4>2
      <3>5. Split(Objs, own, live, objs, lost.objs)
        BY <3>1 DEF SpaceInv
      <3>6. Split(Objs, to, live, now, lost.objs)
        BY <1>1, <3>2, <3>3, <3>4, <3>5, SplitReplace
      <3>7. QED BY <3>1, <3>6
    <2>9. SpaceInv'
      <3>1. \A q \in live' : Tables(space'[q])
        BY <1>20, <2>1, <2>2, <2>6
      <3>2. /\ phase' \in {"boot", "run", "off"} /\ (phase' = "boot" => live' = {})
            /\ disk' \subseteq Images /\ live' \subseteq Procs /\ mem' \in [Frames -> Vals]
        BY <1>1, <1>16, <1>20, <2>1 DEF SpaceInv
      <3>3. QED BY <1>20, <2>2, <2>7, <2>8, <3>1, <3>2 DEF SpaceInv
    <2>10. ASSUME NEW q \in live, q # p PROVE Untouched(q)
      <3>1. \A f \in Values(space[q].map) : f \in Frames \ free
        BY <1>2 DEF FramesIn
      <3>2. \A f \in Values(space[q].map) : mem'[f] = mem[f]
        BY <1>16, <1>20, <3>1
      <3>3. QED BY <2>2, <2>10, <3>2 DEF Untouched
    <2>11. QED BY <1>20, <2>9, <2>10
  <1>21. QED BY <1>3, <1>5, <1>6, <1>7, <1>11, <1>12, <1>15, <1>17, <1>18, <1>19, <1>20
           DEF process_replace

-----------------------------------------------------------------------------
(* The theorems.                                                           *)

LEMMA SpaceInit == Init => SpaceInv
  <1> SUFFICES ASSUME Init PROVE SpaceInv
    OBVIOUS
  <1>1. free \subseteq Frames /\ objs \subseteq Objs /\ disk \subseteq Images
    BY SpaceConstants DEF Init
  <1>2. /\ phase = "boot" /\ live = {} /\ space = [p \in Procs |-> NoSpace]
        /\ lost.frames = Frames \ free /\ lost.objs = Objs \ objs
        /\ mem = [f \in Frames |-> ImageVal]
    BY DEF Init
  <1>3. mem \in [Frames -> Vals]
    BY <1>2, SpaceConstants
  <1>4. /\ Split(Frames, FrameOwner, live, free, lost.frames)
        /\ Split(Objs, ObjOwner, live, objs, lost.objs)
    BY <1>1, <1>2 DEF Split
  <1>5. QED BY <1>1, <1>2, <1>3, <1>4 DEF SpaceInv

LEMMA SpaceNext == SpaceInv /\ [Next]_vars => SpaceInv'
  <1> SUFFICES ASSUME SpaceInv, [Next]_vars PROVE SpaceInv'
    OBVIOUS
  <1>1. Min(Procs) \in Procs
    BY SpaceConstants, MinIn
  <1>2. CASE \E img \in disk : process_create(Min(Procs), img)
    BY <1>1, <1>2, CreateStep
  <1>3. CASE \E p \in Procs : process_fork(p)
    BY <1>3, ForkStep
  <1>4. CASE \E p \in Procs : process_exit(p)
    BY <1>4, ExitStep
  <1>5. CASE \E p \in Procs : Store(p)
    BY <1>5, StoreStep
  <1>6. CASE \E p \in Procs, img \in disk : process_replace(p, img)
    BY <1>6, ReplaceStep
  <1>7. CASE UNCHANGED vars
    BY <1>7 DEF vars, SpaceInv, FrameOwner, ObjOwner
  <1>8. QED BY <1>2, <1>3, <1>4, <1>5, <1>6, <1>7 DEF Next

\* Every state of the process memory satisfies SpaceInv: the pages and objects
\* are split between the allocators, the processes and the lost, and the tables
\* of each process are one-to-one.
THEOREM SpaceInductive == Spec => []SpaceInv
  BY SpaceInit, SpaceNext, PTL DEF Spec

LEMMA Mapped ==
    ASSUME SpaceInv
    PROVE  TypeOK
  <1>1. /\ free \subseteq Frames /\ objs \subseteq Objs
        /\ lost.frames \subseteq Frames /\ lost.objs \subseteq Objs
    BY DEF SpaceInv, Split
  <1>2. DOMAIN space = Procs
    BY DEF SpaceInv
  <1>3. ASSUME NEW p \in live
        PROVE  /\ DOMAIN space[p].l2 \subseteq 0 .. PROC_VA_MB - 1
               /\ DOMAIN space[p].map \subseteq Pages
               /\ Values(space[p].map) \subseteq Frames
               /\ {space[p].self, space[p].pgd} \cup Values(space[p].l2) \subseteq Objs
    <2>1. p \in Procs /\ Tables(space[p])
      BY DEF SpaceInv
    <2>2. FrameOwner[p] = FramesIn(space[p]) /\ ObjOwner[p] = ObjsIn(space[p])
      BY <2>1 DEF FrameOwner, ObjOwner
    <2>3. FramesIn(space[p]) \subseteq Frames /\ ObjsIn(space[p]) \subseteq Objs
      BY <2>2 DEF SpaceInv, Split
    <2>4. QED BY <2>1, <2>3 DEF Tables, FramesIn, ObjsIn, Slots
  <1>4. QED BY <1>1, <1>2, <1>3 DEF TypeOK, SpaceInv

\* A set of at most one element.
LEMMA OneOrNone ==
    /\ \A S : S = {} => Cardinality(S) = 0
    /\ \A S, x : S = {x} => Cardinality(S) = 1
  BY FS_EmptySet, FS_Singleton

\* The frames.
LEMMA FramesOnce ==
    ASSUME SpaceInv
    PROVE  FramesAccounted
  <1> SUFFICES ASSUME NEW f \in Frames
               PROVE  Cardinality({at \in live \X Pages :
                                      /\ at[2] \in DOMAIN space[at[1]].map
                                      /\ space[at[1]].map[at[2]] = f})
                        + Cardinality({f} \cap free) + Cardinality({f} \cap lost.frames) = 1
    BY DEF FramesAccounted
  <1> DEFINE At == {at \in live \X Pages :
                      at[2] \in DOMAIN space[at[1]].map /\ space[at[1]].map[at[2]] = f}
  <1>1. PICK own : own = FrameOwner /\ Split(Frames, own, live, free, lost.frames)
    BY DEF SpaceInv
  <1>2. \A p \in live : own[p] = Values(space[p].map) /\ Tables(space[p])
    BY <1>1 DEF SpaceInv, FrameOwner, FramesIn
  <1>3. \A p \in live, va \in Pages :
            <<p, va>> \in At <=> va \in DOMAIN space[p].map /\ space[p].map[va] = f
    OBVIOUS
  <1>4. \A at \in At : f \in own[at[1]]
    BY <1>2 DEF Values
  <1>5. CASE f \in free
    <2>1. At = {} /\ {f} \cap free = {f} /\ {f} \cap lost.frames = {}
      BY <1>1, <1>4, <1>5 DEF Split
    <2> HIDE DEF At
    <2>2. Cardinality(At) = 0 /\ Cardinality({f} \cap free) = 1 /\ Cardinality({f} \cap lost.frames) = 0
      BY <2>1, OneOrNone
    <2>3. QED BY <2>2 DEF At
  <1>6. CASE f \in lost.frames
    <2>1. At = {} /\ {f} \cap free = {} /\ {f} \cap lost.frames = {f}
      BY <1>1, <1>4, <1>6 DEF Split
    <2> HIDE DEF At
    <2>2. Cardinality(At) = 0 /\ Cardinality({f} \cap free) = 0 /\ Cardinality({f} \cap lost.frames) = 1
      BY <2>1, OneOrNone
    <2>3. QED BY <2>2 DEF At
  <1>7. CASE \E p \in live : f \in own[p]
    <2>1. PICK p \in live : f \in own[p]
      BY <1>7
    <2>2. {f} \cap free = {} /\ {f} \cap lost.frames = {}
      BY <1>1, <2>1 DEF Split
    <2>3. PICK g : g = space[p].map
      OBVIOUS
    <2>4. DOMAIN g \subseteq Pages /\ f \in Values(g) /\ Table(g, Values(g))
      BY <1>2, <2>1, <2>3 DEF Tables
    <2>5. PICK va \in DOMAIN g : g[va] = f
      BY <2>4 DEF Values
    <2>6. At = {<<p, va>>}
      <3>1. <<p, va>> \in At
        BY <1>3, <2>3, <2>4, <2>5
      <3>2. \A at \in At : at[1] = p
        BY <1>1, <1>4, <2>1 DEF Split
      <3>3. \A at \in At : at[2] \in DOMAIN g /\ g[at[2]] = f
        BY <2>3, <3>2
      <3>4. \A at \in At : at[2] = va
        BY <2>4, <2>5, <3>3 DEF Table
      <3>5. \A at \in At : at = <<at[1], at[2]>>
        OBVIOUS
      <3> HIDE DEF At
      <3>6. QED BY <3>1, <3>2, <3>4, <3>5
    <2> HIDE DEF At
    <2>7. Cardinality(At) = 1 /\ Cardinality({f} \cap free) = 0 /\ Cardinality({f} \cap lost.frames) = 0
      BY <2>2, <2>6, OneOrNone
    <2>8. QED BY <2>7 DEF At
  <1>8. QED BY <1>1, <1>5, <1>6, <1>7 DEF Split

\* The objects of the heap.
LEMMA ObjsOnce ==
    ASSUME SpaceInv
    PROVE  ObjsAccounted
  <1> SUFFICES ASSUME NEW o \in Objs
               PROVE  Cardinality({p \in live : space[p].self = o})
                        + Cardinality({p \in live : space[p].pgd = o})
                        + Cardinality({at \in live \X (0 .. PROC_VA_MB - 1) :
                                          /\ at[2] \in DOMAIN space[at[1]].l2
                                          /\ space[at[1]].l2[at[2]] = o})
                        + Cardinality({o} \cap objs) + Cardinality({o} \cap lost.objs) = 1
    BY DEF ObjsAccounted
  <1> DEFINE Self == {p \in live : space[p].self = o}
             Pgd == {p \in live : space[p].pgd = o}
             At == {at \in live \X (0 .. PROC_VA_MB - 1) :
                      at[2] \in DOMAIN space[at[1]].l2 /\ space[at[1]].l2[at[2]] = o}
  <1>1. PICK own : own = ObjOwner /\ Split(Objs, own, live, objs, lost.objs)
    BY DEF SpaceInv
  <1>2. \A p \in live : /\ own[p] = {space[p].self, space[p].pgd} \cup Values(space[p].l2)
                        /\ Tables(space[p])
    BY <1>1 DEF SpaceInv, ObjOwner, ObjsIn
  <1>3. /\ \A p \in live, mb \in 0 .. PROC_VA_MB - 1 :
               <<p, mb>> \in At <=> mb \in DOMAIN space[p].l2 /\ space[p].l2[mb] = o
        /\ \A at \in At : at[1] \in live
    OBVIOUS
  <1>4. \A at \in At : o \in Values(space[at[1]].l2)
    BY DEF Values
  <1>5. /\ \A p \in Self : o \in own[p] /\ p \in live
        /\ \A p \in Pgd : o \in own[p] /\ p \in live
        /\ \A at \in At : o \in own[at[1]] /\ at[1] \in live
    BY <1>2, <1>3, <1>4
  <1>6. CASE o \in objs
    <2>1. At = {} /\ Self = {} /\ Pgd = {} /\ {o} \cap objs = {o} /\ {o} \cap lost.objs = {}
      BY <1>1, <1>5, <1>6 DEF Split
    <2> HIDE DEF At, Self, Pgd
    <2>2. /\ Cardinality(At) = 0 /\ Cardinality(Self) = 0 /\ Cardinality(Pgd) = 0
          /\ Cardinality({o} \cap objs) = 1 /\ Cardinality({o} \cap lost.objs) = 0
      BY <2>1, OneOrNone
    <2>3. QED BY <2>2 DEF At, Self, Pgd
  <1>7. CASE o \in lost.objs
    <2>1. At = {} /\ Self = {} /\ Pgd = {} /\ {o} \cap objs = {} /\ {o} \cap lost.objs = {o}
      BY <1>1, <1>5, <1>7 DEF Split
    <2> HIDE DEF At, Self, Pgd
    <2>2. /\ Cardinality(At) = 0 /\ Cardinality(Self) = 0 /\ Cardinality(Pgd) = 0
          /\ Cardinality({o} \cap objs) = 0 /\ Cardinality({o} \cap lost.objs) = 1
      BY <2>1, OneOrNone
    <2>3. QED BY <2>2 DEF At, Self, Pgd
  <1>8. CASE \E p \in live : o \in own[p]
    <2>1. PICK p \in live : o \in own[p]
      BY <1>8
    <2>2. {o} \cap objs = {} /\ {o} \cap lost.objs = {}
      BY <1>1, <2>1 DEF Split
    <2>3. /\ \A q \in Self : q = p
          /\ \A q \in Pgd : q = p
          /\ \A at \in At : at[1] = p
      BY <1>1, <1>5, <2>1 DEF Split
    <2>4. PICK s : s = space[p] /\ Tables(s)
      BY <1>2
    <2>5. o = s.self \/ o = s.pgd \/ o \in Values(s.l2)
      BY <1>2, <2>1, <2>4
    <2>6. CASE o = s.self
      <3>1. At = {} /\ Self = {p} /\ Pgd = {}
        BY <1>4, <2>3, <2>4, <2>6 DEF Tables
      <3> HIDE DEF At, Self, Pgd
      <3>2. /\ Cardinality(At) = 0 /\ Cardinality(Self) = 1 /\ Cardinality(Pgd) = 0
            /\ Cardinality({o} \cap objs) = 0 /\ Cardinality({o} \cap lost.objs) = 0
        BY <2>2, <3>1, OneOrNone
      <3>3. QED BY <3>2 DEF At, Self, Pgd
    <2>7. CASE o = s.pgd
      <3>1. At = {} /\ Self = {} /\ Pgd = {p}
        BY <1>4, <2>3, <2>4, <2>7 DEF Tables
      <3> HIDE DEF At, Self, Pgd
      <3>2. /\ Cardinality(At) = 0 /\ Cardinality(Self) = 0 /\ Cardinality(Pgd) = 1
            /\ Cardinality({o} \cap objs) = 0 /\ Cardinality({o} \cap lost.objs) = 0
        BY <2>2, <3>1, OneOrNone
      <3>3. QED BY <3>2 DEF At, Self, Pgd
    <2>8. CASE o \in Values(s.l2)
      <3>1. Self = {} /\ Pgd = {}
        BY <2>3, <2>4, <2>8 DEF Tables
      <3>2. PICK g : g = space[p].l2
        OBVIOUS
      <3>3. DOMAIN g \subseteq 0 .. PROC_VA_MB - 1 /\ o \in Values(g) /\ Table(g, Values(g))
        BY <2>4, <2>8, <3>2 DEF Tables, Slots
      <3>4. PICK mb \in DOMAIN g : g[mb] = o
        BY <3>3 DEF Values
      <3>5. At = {<<p, mb>>}
        <4>1. <<p, mb>> \in At
          BY <1>3, <3>2, <3>3, <3>4
        <4>2. \A at \in At : at[1] = p
          BY <2>3
        <4>3. \A at \in At : at[2] \in DOMAIN g /\ g[at[2]] = o
          BY <3>2, <4>2
        <4>4. \A at \in At : at[2] = mb
          BY <3>3, <3>4, <4>3 DEF Table
        <4>5. \A at \in At : at = <<at[1], at[2]>>
          OBVIOUS
        <4> HIDE DEF At
        <4>6. QED BY <4>1, <4>2, <4>4, <4>5
      <3> HIDE DEF At, Self, Pgd
      <3>6. /\ Cardinality(At) = 1 /\ Cardinality(Self) = 0 /\ Cardinality(Pgd) = 0
            /\ Cardinality({o} \cap objs) = 0 /\ Cardinality({o} \cap lost.objs) = 0
        BY <2>2, <3>1, <3>5, OneOrNone
      <3>7. QED BY <3>6 DEF At, Self, Pgd
    <2>9. QED BY <2>5, <2>6, <2>7, <2>8
  <1>9. QED BY <1>1, <1>6, <1>7, <1>8 DEF Split

\* Every physical page and every object of the heap has one owner, whatever
\* process_create, process_fork, process_replace and process_exit do and however
\* they fail: nothing is shared, handed out twice or forgotten.
THEOREM AlwaysAccounted == Spec => []Accounted
  <1>1. SpaceInv => Accounted
    BY Mapped, FramesOnce, ObjsOnce DEF Accounted
  <1>2. QED BY <1>1, SpaceInductive, PTL

LEMMA SameView ==
    ASSUME NEW p, Untouched(p)
    PROVE  View(p)' = View(p)
  <1>1. PICK g : g = space[p].map /\ space'[p].map = g
    BY DEF Untouched
  <1>2. \A va \in DOMAIN g : g[va] \in Values(g)
    BY DEF Values
  <1>3. \A va \in DOMAIN g : mem'[g[va]] = mem[g[va]]
    BY <1>1, <1>2 DEF Untouched
  <1>4. View(p)' = [va \in DOMAIN g |-> mem'[g[va]]] /\ View(p) = [va \in DOMAIN g |-> mem[g[va]]]
    BY <1>1 DEF View
  <1>5. QED BY <1>3, <1>4

\* No call and no store of a process changes what another one reads.
THEOREM MemoryIsPrivate == Spec => Private
  <1>1. ASSUME SpaceInv, [Next]_vars, NEW p \in live \cap live', actor' # p
        PROVE  View(p)' = View(p)
    <2>1. CASE \E img \in disk : process_create(Min(Procs), img)
      <3>1. Min(Procs) \in Procs
        BY SpaceConstants, MinIn
      <3>2. QED BY <1>1, <2>1, <3>1, CreateStep
    <2>2. CASE \E q \in Procs : process_fork(q)
      BY <1>1, <2>2, ForkStep, SameView
    <2>3. CASE \E q \in Procs : process_exit(q)
      BY <1>1, <2>3, ExitStep, SameView
    <2>4. CASE \E q \in Procs : Store(q)
      BY <1>1, <2>4, StoreStep, SameView
    <2>5. CASE \E q \in Procs, img \in disk : process_replace(q, img)
      BY <1>1, <2>5, ReplaceStep, SameView
    <2>6. CASE UNCHANGED vars
      BY <2>6 DEF vars, View
    <2>7. QED BY <1>1, <2>1, <2>2, <2>3, <2>4, <2>5, <2>6 DEF Next
  <1>2. SpaceInv /\ [Next]_vars
          => [\A p \in live \cap live' : actor' # p => View(p)' = View(p)]_vars
    BY <1>1
  <1>3. QED BY <1>2, SpaceInductive, PTL DEF Spec, Private

\* A forked child finds the parent's memory, and so does the parent.
THEOREM ForkAlwaysCopies == Spec => ForkCopies
  <1>1. ASSUME SpaceInv, [Next]_vars, NEW c \in live' \ live, NEW p \in live, actor' = p
        PROVE  View(c)' = View(p) /\ View(p)' = View(p)
    <2>1. CASE \E img \in disk : process_create(Min(Procs), img)
      <3>1. Min(Procs) \in Procs
        BY SpaceConstants, MinIn
      <3>2. QED BY <1>1, <2>1, <3>1, CreateStep
    <2>2. CASE \E q \in Procs : process_fork(q)
      <3>1. CopyOf(c, p) /\ Untouched(p)
        BY <1>1, <2>2, ForkStep
      <3>2. PICK g, d : g = space'[c].map /\ d = space[p].map
        OBVIOUS
      <3>3. DOMAIN g = DOMAIN d /\ \A va \in DOMAIN d : mem'[g[va]] = mem[d[va]]
        BY <3>1, <3>2 DEF CopyOf
      <3>4. View(c)' = [va \in DOMAIN g |-> mem'[g[va]]] /\ View(p) = [va \in DOMAIN d |-> mem[d[va]]]
        BY <3>2 DEF View
      <3>5. View(c)' = View(p)
        BY <3>3, <3>4
      <3>6. QED BY <3>1, <3>5, SameView
    <2>3. CASE \E q \in Procs : process_exit(q)
      BY <1>1, <2>3, ExitStep
    <2>4. CASE \E q \in Procs : Store(q)
      BY <1>1, <2>4, StoreStep
    <2>5. CASE \E q \in Procs, img \in disk : process_replace(q, img)
      BY <1>1, <2>5, ReplaceStep
    <2>6. CASE UNCHANGED vars
      BY <1>1, <2>6 DEF vars
    <2>7. QED BY <1>1, <2>1, <2>2, <2>3, <2>4, <2>5, <2>6 DEF Next
  <1>2. SpaceInv /\ [Next]_vars
          => [\A c \in live' \ live, p \in live :
                 actor' = p => View(c)' = View(p) /\ View(p)' = View(p)]_vars
    BY <1>1
  <1>3. QED BY <1>2, SpaceInductive, PTL DEF Spec, ForkCopies

\* A call that fails changes nothing a process reads and, a failed load apart,
\* leaves both allocators with all they had.
THEOREM FailuresAreHarmless == Spec => FailureHarmless
  <1> DEFINE Harmless ==
        /\ ret' \in {"fail", "fail_load"} => live' = live /\ \A p \in live : View(p)' = View(p)
        /\ ret' = "fail" => free' = free /\ objs' = objs
  <1>1. ASSUME SpaceInv, Next PROVE Harmless
    <2>1. CASE \E img \in disk : process_create(Min(Procs), img)
      <3>1. Min(Procs) \in Procs
        BY SpaceConstants, MinIn
      <3>2. live = {} /\ (ret' = "fail" => live' = live /\ GivesBack)
        BY <1>1, <2>1, <3>1, CreateStep
      <3>3. ret' # "fail_load"
        BY <2>1 DEF process_create, Ends
      <3>4. QED BY <3>2, <3>3 DEF GivesBack
    <2>2. CASE \E q \in Procs : process_fork(q)
      BY <1>1, <2>2, ForkStep, SameView DEF GivesBack
    <2>3. CASE \E q \in Procs : process_exit(q)
      BY <1>1, <2>3, ExitStep
    <2>4. CASE \E q \in Procs : Store(q)
      BY <1>1, <2>4, StoreStep
    <2>5. CASE \E q \in Procs, img \in disk : process_replace(q, img)
      BY <1>1, <2>5, ReplaceStep, SameView DEF GivesBack
    <2>6. QED BY <1>1, <2>1, <2>2, <2>3, <2>4, <2>5 DEF Next
  <1>2. SpaceInv /\ [Next]_vars => [Harmless]_vars
    BY <1>1
  <1>3. QED BY <1>2, SpaceInductive, PTL DEF Spec, FailureHarmless

=============================================================================
