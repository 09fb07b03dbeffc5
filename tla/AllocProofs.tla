---------------------------- MODULE AllocProofs ----------------------------
(***************************************************************************)
(* Both allocators of src/kernel/mem/alloc.c.                              *)
(*                                                                         *)
(* PageAlloc hands out no page twice, and its bitmap and counter are exact,*)
(* for every amount of RAM, every reserved range, every set of run lengths *)
(* and alignments and any number of live allocations.                      *)
(*                                                                         *)
(* KHeap for every region, header and alignment size and every sequence of *)
(* calls: the blocks tile the region and the accounting is exact           *)
(* (BlocksOK), free neighbours are merged (Coalesced), nothing leaks       *)
(* (Reclaimed), and allocations stay inside their blocks (LiveInBlock).    *)
(***************************************************************************)
EXTENDS PageAlloc, KHeap, FiniteSetTheorems, SequenceTheorems, WellFoundedInduction, TLAPS

\* The inductive invariant: FreeCount speaks of a cardinality, so the bitmap
\* must be known to be finite; the frees keep BitmapExact only by NoSharing.
PageInv ==
    /\ PagesTyped
    /\ IsFiniteSet(bitmap)
    /\ NoSharing
    /\ BitmapExact
    /\ FreeCount

-----------------------------------------------------------------------------
\* A run of n pages has n pages.
LEMMA RunSize ==
    ASSUME NEW i \in Nat, NEW n \in Nat
    PROVE  /\ IsFiniteSet(Run(i, n)) /\ Cardinality(Run(i, n)) = n
           /\ Run(i, n) \subseteq Nat
<1>1. IsFiniteSet(i .. i + n - 1)
  BY FS_Interval
<1>2. Cardinality(i .. i + n - 1) = n
  BY FS_Interval
<1> QED BY <1>1, <1>2 DEF Run

\* Marking n free pages for an allocation that holds nothing.
LEMMA TakeInv ==
    ASSUME PageInv, NEW h \in Handles, held[h] = {},
           NEW i \in Nat, NEW n \in Nat, free_pages >= n,
           Run(i, n) \cap bitmap = {}, Take(h, i, n)
    PROVE  PageInv'
<1> USE PageConstants
<1>r. /\ IsFiniteSet(Run(i, n)) /\ Cardinality(Run(i, n)) = n
      /\ Run(i, n) \subseteq Nat
  BY RunSize
<1>h. held' = [g \in Handles |-> IF g = h THEN Run(i, n) ELSE held[g]]
  BY DEF Take, PageInv, PagesTyped
<1>1. PagesTyped'
  <2>1. (i + n) % TotalPages \in Pages
    BY DEF Pages
  <2>2. held' \in [Handles -> SUBSET Nat]
    BY <1>r, <1>h DEF PageInv, PagesTyped
  <2>3. free_pages' \in Nat
    BY DEF Take, PageInv, PagesTyped
  <2>4. bitmap' \subseteq Nat
    BY <1>r DEF Take, PageInv, PagesTyped
  <2>5. next_hint' \in Pages /\ reserved' = reserved /\ ret' = "ok"
    BY <2>1 DEF Take
  <2>6. reserved \subseteq Pages
    BY DEF PageInv, PagesTyped
  <2> QED BY <2>2, <2>3, <2>4, <2>5, <2>6 DEF PagesTyped, Pages
<1>2. IsFiniteSet(bitmap')
  BY <1>r, FS_Union DEF Take, PageInv
<1>3. Cardinality(bitmap') = Cardinality(bitmap) + n
  <2>1. Cardinality(bitmap \cap Run(i, n)) = 0
    BY FS_EmptySet
  <2>2. Cardinality(bitmap) \in Nat
    BY FS_CardinalityType DEF PageInv
  <2>3. IsFiniteSet(bitmap) /\ bitmap' = bitmap \cup Run(i, n)
    BY DEF Take, PageInv
  <2>4. Cardinality(bitmap \cup Run(i, n))
          = Cardinality(bitmap) + Cardinality(Run(i, n))
              - Cardinality(bitmap \cap Run(i, n))
    BY <1>r, <2>3, FS_Union
  <2> QED BY <1>r, <2>1, <2>2, <2>3, <2>4
<1>4. FreeCount'
  <2>1. Cardinality(bitmap) \in Nat
    BY FS_CardinalityType DEF PageInv
  <2> QED BY <1>3, <2>1 DEF Take, PageInv, FreeCount, PagesTyped
<1>5. NoSharing'
  BY <1>h DEF Take, PageInv, NoSharing, BitmapExact
<1>6. BitmapExact'
  BY <1>h DEF Take, PageInv, BitmapExact
<1> QED BY <1>1, <1>2, <1>4, <1>5, <1>6 DEF PageInv

\* Clearing the bits of pages that one allocation holds.
LEMMA ReleaseInv ==
    ASSUME PageInv, NEW h \in Handles, NEW STATE freed, freed \subseteq held[h],
           bitmap' = bitmap \ freed,
           free_pages' = free_pages + Cardinality(freed),
           held' = [held EXCEPT ![h] = @ \ freed],
           next_hint' \in Pages, reserved' = reserved,
           ret' \in {"ok", "oom", "oom_n", "err"}
    PROVE  PageInv'
<1> USE PageConstants
<1>h. held' = [g \in Handles |-> IF g = h THEN held[h] \ freed ELSE held[g]]
  BY DEF PageInv, PagesTyped
<1>f. freed \subseteq bitmap
  BY DEF PageInv, BitmapExact
<1>c. /\ IsFiniteSet(freed) /\ Cardinality(freed) \in Nat
      /\ Cardinality(bitmap) \in Nat
  BY <1>f, FS_Subset, FS_CardinalityType DEF PageInv
<1>1. PagesTyped'
  <2>1. held' \in [Handles -> SUBSET Nat]
    BY <1>h DEF PageInv, PagesTyped
  <2> QED BY <1>c, <2>1 DEF PageInv, PagesTyped
<1>2. /\ IsFiniteSet(bitmap')
      /\ Cardinality(bitmap') = Cardinality(bitmap) - Cardinality(freed)
  <2>1. bitmap \cap freed = freed
    BY <1>f
  <2>2. IsFiniteSet(bitmap)
    BY DEF PageInv
  <2>3. /\ IsFiniteSet(bitmap \ freed)
        /\ Cardinality(bitmap \ freed)
             = Cardinality(bitmap) - Cardinality(bitmap \cap freed)
    BY <2>2, FS_Difference, Zenon
  <2> QED BY <2>1, <2>3
<1>3. FreeCount'
  BY <1>c, <1>2 DEF PageInv, FreeCount, PagesTyped
<1>4. NoSharing'
  BY <1>h DEF PageInv, NoSharing
<1>5. BitmapExact'
  BY <1>h DEF PageInv, NoSharing, BitmapExact
<1> QED BY <1>1, <1>2, <1>3, <1>4, <1>5 DEF PageInv

\* A call that only reports an error.
LEMMA FailInv ==
    ASSUME PageInv, UNCHANGED <<bitmap, free_pages, next_hint, reserved, held>>,
           ret' \in {"ok", "oom", "oom_n", "err"}
    PROVE  PageInv'
BY DEF PageInv, PagesTyped, NoSharing, BitmapExact, FreeCount

\* What the search returns is a run of free pages.
LEMMA FoundIsFree ==
    ASSUME PagesTyped, NEW n \in Nat, NEW i \in Pages \cup {NoIdx}, i # NoIdx,
           bm_find_free_run(next_hint, n, i)
    PROVE  i \in Nat /\ Run(i, n) \cap bitmap = {}
<1> USE PageConstants
<1>1. i \in Nat
  BY DEF Pages
<1>2. Run(i, n) \cap bitmap = {}
  BY DEF bm_find_free_run, FirstRun
<1> QED BY <1>1, <1>2

-----------------------------------------------------------------------------
LEMMA InitInv == PagesInit => PageInv
<1> USE PageConstants
<1> SUFFICES ASSUME PagesInit PROVE PageInv
  OBVIOUS
<1>1. bitmap \subseteq Pages /\ reserved = bitmap
  BY DEF PagesInit, reserve_range
<1>2. IsFiniteSet(Pages) /\ Cardinality(Pages) = TotalPages
  BY FS_Interval DEF Pages
<1>3. /\ IsFiniteSet(bitmap) /\ Cardinality(bitmap) \in Nat
      /\ Cardinality(bitmap) <= TotalPages
  BY <1>1, <1>2, FS_Subset, FS_CardinalityType
<1>4. PagesTyped
  BY <1>1, <1>3 DEF PagesInit, PagesTyped, Pages
<1>5. NoSharing /\ BitmapExact
  BY DEF PagesInit, NoSharing, BitmapExact
<1>6. FreeCount
  BY <1>1 DEF PagesInit, FreeCount
<1> QED BY <1>3, <1>4, <1>5, <1>6 DEF PageInv

LEMMA NextInv == PageInv /\ [PagesNext]_pagesVars => PageInv'
<1> USE PageConstants
<1> SUFFICES ASSUME PageInv, [PagesNext]_pagesVars PROVE PageInv'
  OBVIOUS
<1>1. CASE Alloc
  <2>1. PICK h \in Handles : mm_page_alloc(h)
    BY <1>1 DEF Alloc
  <2>2. CASE Fail("oom")
    BY <2>2, FailInv DEF Fail
  <2>3. CASE ~ Fail("oom")
    <3>1. PICK i \in Pages \cup {NoIdx} :
             /\ bm_find_free_run(next_hint, 1, i) /\ i # NoIdx
             /\ Take(h, i, 1) /\ free_pages # 0 /\ held[h] = {}
      BY <2>1, <2>3 DEF mm_page_alloc
    <3>2. i \in Nat /\ Run(i, 1) \cap bitmap = {}
      BY <3>1, FoundIsFree DEF PageInv
    <3>3. free_pages >= 1
      BY <3>1 DEF PageInv, PagesTyped
    <3> QED BY <3>1, <3>2, <3>3, TakeInv
  <2> QED BY <2>2, <2>3
<1>2. CASE AllocN
  <2>1. PICK h \in Handles, n \in RunLengths : mm_page_alloc_n(h, n)
    BY <1>2 DEF AllocN
  <2>2. CASE Fail("oom_n")
    BY <2>2, FailInv DEF Fail
  <2>3. CASE ~ Fail("oom_n")
    <3>1. PICK i \in Pages \cup {NoIdx} :
             /\ bm_find_free_run(next_hint, n, i) /\ i # NoIdx
             /\ Take(h, i, n) /\ free_pages >= n /\ held[h] = {}
      BY <2>1, <2>3 DEF mm_page_alloc_n
    <3>2. i \in Nat /\ Run(i, n) \cap bitmap = {}
      BY <3>1, FoundIsFree DEF PageInv
    <3> QED BY <3>1, <3>2, TakeInv
  <2> QED BY <2>2, <2>3
<1>3. CASE AllocAligned
  <2>1. PICK h \in Handles, a \in Aligned : mm_page_alloc_aligned(h, a[1], a[2])
    BY <1>3 DEF AllocAligned
  <2>2. CASE Fail("oom_n")
    BY <2>2, FailInv DEF Fail
  <2>3. CASE ~ Fail("oom_n")
    <3> DEFINE n == a[1]
               align == a[2]
               q == (next_hint + align - 1) \div align
               hint_aligned == q * align
    <3>0. n \in Nat /\ align \in Nat
      OBVIOUS
    <3>1. PICK i \in Candidates(hint_aligned, TotalPages, n, align)
                    \cup Candidates(0, hint_aligned, n, align) :
             /\ Take(h, i, n) /\ align # 0 /\ free_pages >= n /\ held[h] = {}
      BY <2>1, <2>3 DEF mm_page_alloc_aligned
    <3>2. q \in Nat
      BY <3>0, <3>1 DEF PageInv, PagesTyped, Pages
    <3>3. hint_aligned \in Nat
      BY <3>0, <3>2
    <3> HIDE DEF hint_aligned, q, n, align
    <3>4. i \in Nat /\ Run(i, n) \cap bitmap = {}
      BY <3>0, <3>1, <3>3 DEF Candidates
    <3> QED BY <3>0, <3>1, <3>4, TakeInv
  <2> QED BY <2>2, <2>3
<1>4. CASE FreeOne
  <2>1. PICK h \in Handles : \E pg \in held[h] : mm_page_free(h, pg)
    BY <1>4 DEF FreeOne
  <2>2. PICK pg \in held[h] : mm_page_free(h, pg)
    BY <2>1
  <2>3. CASE pg \in Pages
    <3>1. pg \in bitmap
      BY DEF PageInv, BitmapExact
    <3>2. Cardinality({pg}) = 1
      BY FS_Singleton
    <3>3. next_hint' \in Pages
      BY <2>2, <2>3 DEF mm_page_free, PageInv, PagesTyped
    <3> QED BY <2>2, <2>3, <3>1, <3>2, <3>3, ReleaseInv DEF mm_page_free
  <2>4. CASE pg \notin Pages
    BY <2>2, <2>4, FailInv DEF mm_page_free
  <2> QED BY <2>3, <2>4
<1>5. CASE FreeRun
  <2>1. PICK h \in Handles, base \in Pages, n \in RunLengths :
           /\ Run(base, n) \subseteq held[h] \cup (Pages \ bitmap)
           /\ mm_page_free_n(h, base, n)
    BY <1>5 DEF FreeRun
  <2> DEFINE freed == {pg \in Run(base, n) : base .. pg \subseteq bitmap}
  <2>2. freed \subseteq held[h]
    <3>1. ASSUME NEW pg \in freed PROVE pg \in bitmap
      BY DEF Run, Pages
    <3> QED BY <2>1, <3>1
  <2>3. next_hint' \in Pages
    BY <2>1 DEF mm_page_free_n, PageInv, PagesTyped
  <2>4. ret' \in {"ok", "err"}
    BY <2>1 DEF mm_page_free_n
  <2>5. /\ bitmap' = bitmap \ freed
        /\ free_pages' = free_pages + Cardinality(freed)
        /\ held' = [held EXCEPT ![h] = @ \ freed]
        /\ reserved' = reserved
    BY <2>1 DEF mm_page_free_n
  <2> HIDE DEF freed
  <2> QED BY <2>2, <2>3, <2>4, <2>5, ReleaseInv
<1>6. CASE FreeAgain
  <2>1. PICK h \in Handles, pg \in Pages \ bitmap : mm_page_free(h, pg)
    BY <1>6 DEF FreeAgain
  <2> QED BY <2>1, FailInv DEF mm_page_free
<1>7. CASE UNCHANGED pagesVars
  BY <1>7, FailInv DEF pagesVars, PageInv, PagesTyped
<1> QED BY <1>1, <1>2, <1>3, <1>4, <1>5, <1>6, <1>7 DEF PagesNext

\* Whatever sequence of allocations and frees is made, on any amount of RAM:
\* the counters and the hint keep their types, no page has two owners, a page
\* is marked exactly when it has one, and free_pages counts the unmarked ones.
THEOREM PagesCorrect == PagesSpec => []PagesOK
<1>1. PageInv => PagesOK
  BY DEF PageInv, PagesOK
<1> QED BY InitInv, NextInv, <1>1, PTL DEF PagesSpec

-----------------------------------------------------------------------------
\* A run that both searches end before their limits lies in RAM, and giving it
\* to h leaves every allocation in RAM.
LEMMA TakeInside ==
    ASSUME PagesTyped, \A g \in Handles : held[g] \subseteq Pages,
           NEW h \in Handles, NEW i \in Nat, NEW n \in Nat, i + n <= TotalPages,
           Take(h, i, n)
    PROVE  \A g \in Handles : held'[g] \subseteq Pages
<1>1. Run(i, n) \subseteq Pages
  BY PageConstants DEF Run, Pages
<1> QED BY <1>1 DEF Take, PagesTyped

\* Rounding a page number below a multiple of align up to align stays at or
\* below that multiple.
LEMMA RoundUpBound ==
    ASSUME NEW total \in Nat, NEW align \in Nat \ {0}, total % align = 0,
           NEW hint \in Nat, hint < total
    PROVE  /\ (hint + align - 1) \div align \in Nat
           /\ ((hint + align - 1) \div align) * align <= total
<1> DEFINE q == (hint + align - 1) \div align
           t == total \div align
<1>1. q \in Nat /\ t \in Nat
  OBVIOUS
<1>2. total = t * align
  OBVIOUS
<1>3. q * align <= hint + align - 1
  OBVIOUS
<1> HIDE DEF q, t
<1>4. ASSUME q > t PROVE FALSE
  <2>1. q >= t + 1
    BY <1>1, <1>4
  <2>2. q * align >= (t + 1) * align
    BY <1>1, <2>1
  <2>3. (t + 1) * align = t * align + align
    BY <1>1
  <2>4. t * align \in Nat /\ q * align \in Nat
    BY <1>1
  <2> QED BY <1>2, <1>3, <2>2, <2>3, <2>4
<1>5. q * align <= t * align
  BY <1>1, <1>4
<1> QED BY <1>1, <1>2, <1>5 DEF q

LEMMA NextInside ==
    ASSUME PagesTyped, \A a \in Aligned : a[2] = 0 \/ TotalPages % a[2] = 0,
           \A g \in Handles : held[g] \subseteq Pages, [PagesNext]_pagesVars
    PROVE  \A g \in Handles : held'[g] \subseteq Pages
<1> USE PageConstants
<1>h. held \in [Handles -> SUBSET Nat] /\ next_hint \in Pages
  BY DEF PagesTyped
<1>s. ASSUME NEW n \in Nat, NEW i \in Pages \cup {NoIdx}, i # NoIdx,
             bm_find_free_run(next_hint, n, i)
      PROVE  i \in Nat /\ i + n <= TotalPages
  BY <1>h, <1>s DEF bm_find_free_run, FirstRun, Pages
<1>1. CASE Alloc
  <2>1. PICK h \in Handles : mm_page_alloc(h)
    BY <1>1 DEF Alloc
  <2>2. CASE Fail("oom")
    BY <2>2 DEF Fail
  <2>3. CASE ~ Fail("oom")
    <3>1. PICK i \in Pages \cup {NoIdx} :
             bm_find_free_run(next_hint, 1, i) /\ i # NoIdx /\ Take(h, i, 1)
      BY <2>1, <2>3 DEF mm_page_alloc
    <3>2. i \in Nat /\ i + 1 <= TotalPages
      BY <1>s, <3>1
    <3> QED BY <3>1, <3>2, TakeInside
  <2> QED BY <2>2, <2>3
<1>2. CASE AllocN
  <2>1. PICK h \in Handles, n \in RunLengths : mm_page_alloc_n(h, n)
    BY <1>2 DEF AllocN
  <2>2. CASE Fail("oom_n")
    BY <2>2 DEF Fail
  <2>3. CASE ~ Fail("oom_n")
    <3>1. PICK i \in Pages \cup {NoIdx} :
             bm_find_free_run(next_hint, n, i) /\ i # NoIdx /\ Take(h, i, n)
      BY <2>1, <2>3 DEF mm_page_alloc_n
    <3>2. i \in Nat /\ i + n <= TotalPages
      BY <1>s, <3>1
    <3> QED BY <3>1, <3>2, TakeInside
  <2> QED BY <2>2, <2>3
<1>3. CASE AllocAligned
  <2>1. PICK h \in Handles, a \in Aligned : mm_page_alloc_aligned(h, a[1], a[2])
    BY <1>3 DEF AllocAligned
  <2>2. CASE Fail("oom_n")
    BY <2>2 DEF Fail
  <2>3. CASE ~ Fail("oom_n")
    <3> DEFINE n == a[1]
               align == a[2]
               hint_aligned == ((next_hint + align - 1) \div align) * align
    <3>0. n \in Nat /\ align \in Nat
      OBVIOUS
    <3>1. PICK i \in Candidates(hint_aligned, TotalPages, n, align)
                    \cup Candidates(0, hint_aligned, n, align) :
             Take(h, i, n) /\ align # 0
      BY <2>1, <2>3 DEF mm_page_alloc_aligned
    <3>2. (next_hint + align - 1) \div align \in Nat /\ hint_aligned <= TotalPages
      <4> HIDE DEF align
      <4>1. align \in Nat \ {0} /\ TotalPages % align = 0
        BY <3>0, <3>1 DEF align
      <4>2. next_hint \in Nat /\ next_hint < TotalPages
        BY <1>h DEF Pages
      <4>3. TotalPages \in Nat
        OBVIOUS
      <4> QED BY <4>1, <4>2, <4>3, RoundUpBound, Zenon
    <3>3. hint_aligned \in Nat
      BY <3>0, <3>2
    <3> HIDE DEF hint_aligned, n, align
    <3>4. i \in Nat /\ i + n <= TotalPages
      BY <3>0, <3>1, <3>2, <3>3 DEF Candidates
    <3> QED BY <3>0, <3>1, <3>4, TakeInside
  <2> QED BY <2>2, <2>3
<1>4. CASE FreeOne \/ FreeAgain
  BY <1>h, <1>4 DEF FreeOne, FreeAgain, mm_page_free
<1>5. CASE FreeRun
  BY <1>h, <1>5 DEF FreeRun, mm_page_free_n
<1>6. CASE UNCHANGED pagesVars
  BY <1>6 DEF pagesVars
<1> QED BY <1>1, <1>2, <1>3, <1>4, <1>5, <1>6 DEF PagesNext

\* On any amount of RAM, whatever sequence of calls is made, no allocator hands
\* out a page past the end of RAM, if the alignments asked for divide it.
THEOREM PagesInside == PagesSpec => []InsideRam
<1> DEFINE Divides == \A a \in Aligned : a[2] = 0 \/ TotalPages % a[2] = 0
           In == PageInv /\ InsideRam
<1>1. PagesInit => In
  BY InitInv DEF PagesInit, InsideRam
<1>2. In /\ [PagesNext]_pagesVars => In'
  BY NextInv, NextInside DEF InsideRam, PageInv
<1> QED BY <1>1, <1>2, PTL DEF PagesSpec
-----------------------------------------------------------------------------
\* mm_page_alloc fails in a state where every page of RAM is marked: a counter
\* of zero means that, the marks being RAM's, and so does a search on either
\* side of the hint that finds no page.
LEMMA OomStep ==
    ASSUME PageInv, \A g \in Handles : held[g] \subseteq Pages, [PagesNext]_pagesVars, pagesVars' # pagesVars,
           ret' = "oom"
    PROVE  Pages \subseteq bitmap
<1> USE PageConstants
<1>1. PICK h \in Handles : mm_page_alloc(h)
  <2>1. ~ (AllocN \/ AllocAligned \/ FreeOne \/ FreeRun \/ FreeAgain)
    BY DEF AllocN, AllocAligned, FreeOne, FreeRun, FreeAgain, mm_page_alloc_n,
           mm_page_alloc_aligned, mm_page_free, mm_page_free_n, Take, Fail
  <2> QED BY <2>1 DEF PagesNext, Alloc
<1>2. CASE free_pages = 0
  <2>1. bitmap \subseteq Pages /\ IsFiniteSet(bitmap)
    BY DEF PageInv, PagesTyped, BitmapExact
  <2>2. IsFiniteSet(Pages) /\ Cardinality(Pages) = TotalPages
    BY FS_Interval DEF Pages
  <2>3. Cardinality(bitmap) = TotalPages
    <3>1. Cardinality(bitmap) \in Nat
      BY <2>1, FS_CardinalityType
    <3> QED BY <1>2, <3>1 DEF PageInv, FreeCount
  <2> QED BY <2>1, <2>2, <2>3, FS_Subset
<1>3. CASE free_pages # 0
  <2>1. NoRun(next_hint, TotalPages, 1) /\ NoRun(0, next_hint, 1)
    <3>1. PICK i \in Pages \cup {NoIdx} :
             /\ bm_find_free_run(next_hint, 1, i)
             /\ IF i = NoIdx THEN Fail("oom") ELSE Take(h, i, 1)
      BY <1>1, <1>3 DEF mm_page_alloc
    <3>2. i = NoIdx
      BY <3>1 DEF Take
    <3>3. ~ FirstRun(next_hint, TotalPages, 1, i) /\ ~ FirstRun(0, next_hint, 1, i)
      BY <3>2 DEF FirstRun, NoIdx, PageInv, PagesTyped, Pages
    <3> QED BY <3>1, <3>3 DEF bm_find_free_run
  <2>2. ASSUME NEW pg \in Pages PROVE pg \in bitmap
    <3>1. next_hint \in Nat /\ next_hint < TotalPages /\ pg \in Nat /\ pg < TotalPages
      BY DEF PageInv, PagesTyped, Pages
    <3>2. Run(pg, 1) = {pg}
      BY <3>1 DEF Run
    <3>3. pg \in next_hint .. TotalPages - 1 \/ pg \in 0 .. next_hint - 1
      BY <3>1
    <3> QED BY <2>1, <3>2, <3>3 DEF NoRun
  <2> QED BY <2>2
<1> QED BY <1>2, <1>3

\* On any amount of RAM that the alignments asked for divide, mm_page_alloc
\* fails only when every page of RAM is in use.
THEOREM OomIsAlwaysReal ==
    ASSUME \A a \in Aligned : a[2] = 0 \/ TotalPages % a[2] = 0
    PROVE  PagesSpec => OomIsReal
<1> DEFINE In == PageInv /\ InsideRam
<1>1. PagesInit => In
  BY InitInv DEF PagesInit, InsideRam
<1>2. In /\ [PagesNext]_pagesVars => In'
  BY NextInv, NextInside DEF InsideRam, PageInv
<1>3. In /\ [PagesNext]_pagesVars => [ret' = "oom" => Pages \subseteq bitmap]_pagesVars
  <2> SUFFICES ASSUME In, [PagesNext]_pagesVars, pagesVars' # pagesVars, ret' = "oom" PROVE Pages \subseteq bitmap
    OBVIOUS
  <2>1. \A g \in Handles : held[g] \subseteq Pages
    BY DEF InsideRam
  <2> QED BY <2>1, OomStep
<1> QED BY <1>1, <1>2, <1>3, PTL DEF PagesSpec, OomIsReal

-----------------------------------------------------------------------------
(* The kernel heap.                                                        *)

Header == [at : Nat, size : Nat]
Region == KHEAP_BASE .. KHEAP_BASE + KHEAP_SIZE - 1
End(b) == b.at + HDR_SIZE + b.size

\* One block ends where or before the other begins.
Apart(b, c) == End(b) <= c.at \/ End(c) <= b.at

\* The blocks of H lie in the region, do not overlap, and leave no word out.
Tiled(H) ==
    /\ \A b \in H : KHEAP_BASE <= b.at /\ End(b) <= KHEAP_BASE + KHEAP_SIZE
    /\ \A b, c \in H : b # c => Apart(b, c)
    /\ \A w \in Region : \E b \in H : b.at <= w /\ w < End(b)

\* In address order, and no two of them touch.
Ascending(list) == \A j, k \in 1 .. Len(list) : j < k => End(list[j]) < list[k].at

\* The words that the blocks of B lend to the clients.
Lent(B) == {w \in Region : \E b \in B : b.at + HDR_SIZE <= w /\ w < End(b)}

HeapOK(heap) ==
    /\ heap = [free_list |-> heap.free_list, blocks |-> heap.blocks, used |-> heap.used]
    /\ heap.free_list \in Seq(Header)
    /\ heap.blocks \subseteq Header /\ IsFiniteSet(heap.blocks)
    /\ Ascending(heap.free_list)
    /\ ToSet(heap.free_list) \cap heap.blocks = {}
    /\ Tiled(ToSet(heap.free_list) \cup heap.blocks)
    /\ heap.used = Cardinality(Lent(heap.blocks))

\* The live allocations and the used blocks are in one-to-one correspondence.
LiveOK(heap, allocs) ==
    /\ allocs \subseteq [ptr : Nat, raw : Nat, size : 0 .. U32 - 1]
    /\ IsFiniteSet(allocs)
    /\ \A a \in allocs : \E b \in heap.blocks : b.at + HDR_SIZE = a.raw
    /\ \A b \in heap.blocks : \E a \in allocs : b.at + HDR_SIZE = a.raw
    /\ \A a, c \in allocs : a.raw = c.raw => a = c

\* The inductive invariant of BlocksOK, Coalesced and Reclaimed.
Good(heap, allocs) ==
    HeapOK(heap) /\ LiveOK(heap, allocs) /\ Cardinality(heap.blocks) = Cardinality(allocs)
HeapInv == Good(g_kheap, live)

\* An allocation stays inside the data of its block: what LiveInBlock adds.
Fitted(a, b) == a.raw <= a.ptr /\ a.ptr + a.size <= End(b)
Inside(heap, allocs) ==
    \A a \in allocs, b \in heap.blocks : b.at + HDR_SIZE = a.raw => Fitted(a, b)
InsideInv == Inside(g_kheap, live)
-----------------------------------------------------------------------------
(* Naturals.                                                               *)

\* A set of naturals has a least element.
LEMMA LeastNatural ==
    ASSUME NEW T \in SUBSET Nat, T # {}
    PROVE  \E x \in T : \A y \in T : x <= y
  <1> DEFINE Less == {ss \in Nat \X Nat : ss[1] < ss[2]}
  <1>1. IsWellFoundedOn(Less, Nat)
    BY NatLessThanWellFounded DEF OpToRel
  <1>2. PICK x \in T : \A y \in T : ~ (<<y, x>> \in Less)
    <2> HIDE DEF Less
    <2> QED BY <1>1, WFMin
  <1>3. \A y \in T : ~ (y < x)
    BY <1>2
  <1>4. QED BY <1>3

LEMMA Constants ==
    /\ KHEAP_BASE \in Nat /\ KHEAP_SIZE \in Nat /\ HDR_SIZE \in Nat /\ KHEAP_ALIGN \in Nat
    /\ KHEAP_MIN_SPLIT \in Nat /\ META_SIZE \in Nat /\ U32 \in Nat
    /\ KHEAP_BASE > 0 /\ HDR_SIZE > 0 /\ KHEAP_ALIGN > 0 /\ META_SIZE > 0 /\ U32 > 0
    /\ KHEAP_SIZE > HDR_SIZE /\ KHEAP_BASE + KHEAP_SIZE <= U32
  BY HeapConstants

-----------------------------------------------------------------------------
(* Tilings.                                                                *)

\* Cutting a block in two leaves a tiling.
LEMMA TiledSplit ==
    ASSUME NEW H, H \subseteq Header, Tiled(H), NEW h \in H, NEW a \in Header, NEW b \in Header,
           a.at = h.at, End(a) = b.at, End(b) = End(h)
    PROVE  Tiled((H \ {h}) \cup {a, b}) /\ a \notin H \ {h} /\ b \notin H \ {h} /\ a # b
  <1> USE Constants DEF Header
  <1>0. \A x \in Header : x.at \in Nat /\ End(x) \in Nat /\ x.at < End(x)
    BY DEF End
  <1> DEFINE G == (H \ {h}) \cup {a, b}
  <1>1. \A x \in H \ {h} : Apart(x, h)
    BY DEF Tiled
  <1>2. \A x \in H \ {h} : Apart(x, a) /\ Apart(x, b) /\ Apart(a, x) /\ Apart(b, x)
    BY <1>0, <1>1 DEF Apart
  <1>3. Apart(a, b) /\ Apart(b, a)
    BY DEF Apart
  <1>4. \A x \in Header : ~ Apart(x, x)
    BY <1>0 DEF Apart
  <1>5. a \notin H \ {h} /\ b \notin H \ {h} /\ a # b
    BY <1>2, <1>3, <1>4
  <1>6. \A x \in G : KHEAP_BASE <= x.at /\ End(x) <= KHEAP_BASE + KHEAP_SIZE
    <2>1. \A x \in H : KHEAP_BASE <= x.at /\ End(x) <= KHEAP_BASE + KHEAP_SIZE
      BY DEF Tiled
    <2>2. QED BY <1>0, <2>1
  <1>7. \A x, y \in G : x # y => Apart(x, y)
    <2>1. \A x, y \in H : x # y => Apart(x, y)
      BY DEF Tiled
    <2>2. QED BY <1>2, <1>3, <2>1
  <1>8. ASSUME NEW w \in Region PROVE \E x \in G : x.at <= w /\ w < End(x)
    <2>1. PICK x \in H : x.at <= w /\ w < End(x)
      BY DEF Tiled
    <2>2. CASE x = h
      <3>1. (a.at <= w /\ w < End(a)) \/ (b.at <= w /\ w < End(b))
        BY <1>0, <2>1, <2>2 DEF Region
      <3>2. QED BY <3>1
    <2>3. CASE x # h
      BY <2>1, <2>3
    <2>4. QED BY <2>2, <2>3
  <1>9. QED BY <1>5, <1>6, <1>7, <1>8 DEF Tiled

\* So does putting two neighbours together.
LEMMA TiledMerge ==
    ASSUME NEW H, H \subseteq Header, Tiled(H), NEW a \in H, NEW b \in H, NEW c \in Header,
           End(a) = b.at, c.at = a.at, End(c) = End(b)
    PROVE  Tiled((H \ {a, b}) \cup {c}) /\ c \notin H \ {a, b}
  <1> USE Constants DEF Header
  <1>0. \A x \in Header : x.at \in Nat /\ End(x) \in Nat /\ x.at < End(x)
    BY DEF End
  <1> DEFINE G == (H \ {a, b}) \cup {c}
  <1>1. \A x \in H \ {a, b} : Apart(x, a) /\ Apart(x, b)
    BY DEF Tiled
  <1>2. \A x \in H \ {a, b} : Apart(x, c) /\ Apart(c, x)
    BY <1>0, <1>1 DEF Apart
  <1>3. \A x \in Header : ~ Apart(x, x)
    BY <1>0 DEF Apart
  <1>4. c \notin H \ {a, b}
    BY <1>2, <1>3
  <1>5. \A x \in G : KHEAP_BASE <= x.at /\ End(x) <= KHEAP_BASE + KHEAP_SIZE
    <2>1. \A x \in H : KHEAP_BASE <= x.at /\ End(x) <= KHEAP_BASE + KHEAP_SIZE
      BY DEF Tiled
    <2>2. QED BY <2>1
  <1>6. \A x, y \in G : x # y => Apart(x, y)
    <2>1. \A x, y \in H : x # y => Apart(x, y)
      BY DEF Tiled
    <2>2. QED BY <1>2, <2>1
  <1>7. ASSUME NEW w \in Region PROVE \E x \in G : x.at <= w /\ w < End(x)
    <2>1. PICK x \in H : x.at <= w /\ w < End(x)
      BY DEF Tiled
    <2>2. CASE x \in {a, b}
      <3>1. c.at <= w /\ w < End(c)
        BY <1>0, <2>1, <2>2 DEF Region
      <3>2. QED BY <3>1
    <2>3. CASE x \notin {a, b}
      BY <2>1, <2>3
    <2>4. QED BY <2>2, <2>3
  <1>8. QED BY <1>4, <1>5, <1>6, <1>7 DEF Tiled

-----------------------------------------------------------------------------
(* The words lent to the clients.                                          *)

LEMMA LentFinite ==
    ASSUME NEW B
    PROVE  IsFiniteSet(Lent(B)) /\ Cardinality(Lent(B)) \in 0 .. KHEAP_SIZE
  <1>1. IsFiniteSet(Region) /\ Cardinality(Region) = KHEAP_SIZE
    BY Constants, FS_Interval DEF Region
  <1>2. Lent(B) \subseteq Region
    BY DEF Lent
  <1>3. QED BY <1>1, <1>2, FS_Subset, FS_CardinalityType, Constants

\* A block more lends its size more.
LEMMA LentAdd ==
    ASSUME NEW B, B \subseteq Header, NEW b \in Header, b \notin B,
           KHEAP_BASE <= b.at, End(b) <= KHEAP_BASE + KHEAP_SIZE,
           \A c \in B : Apart(b, c)
    PROVE  Cardinality(Lent(B \cup {b})) = Cardinality(Lent(B)) + b.size
  <1> USE Constants DEF Header
  <1> DEFINE D == b.at + HDR_SIZE .. End(b) - 1
  <1>1. Lent(B \cup {b}) = Lent(B) \cup D
    BY DEF Lent, End, Region
  <1>2. Lent(B) \cap D = {}
    BY DEF Lent, End, Apart
  <1>3. b.at + HDR_SIZE \in Int /\ End(b) - 1 \in Int
        /\ b.size = IF b.at + HDR_SIZE > End(b) - 1 THEN 0 ELSE End(b) - 1 - (b.at + HDR_SIZE) + 1
    BY DEF End
  <1>4. IsFiniteSet(D) /\ Cardinality(D) = b.size
    BY <1>3, FS_Interval
  <1> HIDE DEF D
  <1>5. IsFiniteSet(Lent(B)) /\ Cardinality(Lent(B)) \in Nat
    BY LentFinite
  <1>6. Cardinality(Lent(B) \cup D) = Cardinality(Lent(B)) + Cardinality(D) - Cardinality(Lent(B) \cap D)
    BY <1>4, <1>5, FS_Union
  <1>7. Cardinality(Lent(B) \cap D) = 0
    BY <1>2, FS_EmptySet
  <1>8. b.size \in Nat
    OBVIOUS
  <1> DEFINE x == Cardinality(Lent(B))
             y == Cardinality(Lent(B) \cup D)
             z == Cardinality(Lent(B) \cap D)
             u == Cardinality(D)
  <1>9. x \in Nat /\ z = 0 /\ u = b.size /\ y = x + u - z
    BY <1>4, <1>5, <1>6, <1>7
  <1> HIDE DEF x, y, z, u
  <1>10. y = x + b.size
    BY <1>8, <1>9
  <1>11. QED BY <1>1, <1>10, Zenon DEF x, y
-----------------------------------------------------------------------------
(* The free list.                                                          *)

\* What a header is.
LEMMA HeaderFacts ==
    ASSUME NEW b \in Header
    PROVE  b.at \in Nat /\ b.size \in Nat /\ End(b) \in Nat /\ b.at < End(b)
  BY Constants DEF Header, End

\* A list in address order holds no header twice.
LEMMA Distinct ==
    ASSUME NEW list \in Seq(Header), Ascending(list)
    PROVE  \A j, k \in 1 .. Len(list) : list[j] = list[k] => j = k
  <1> SUFFICES ASSUME NEW j \in 1 .. Len(list), NEW k \in 1 .. Len(list), list[j] = list[k], j # k
               PROVE  FALSE
    OBVIOUS
  <1>1. list[j] \in Header /\ list[k] \in Header /\ Len(list) \in Nat
    OBVIOUS
  <1>2. End(list[j]) < list[k].at \/ End(list[k]) < list[j].at
    BY <1>1 DEF Ascending
  <1>3. QED BY <1>1, <1>2, HeaderFacts

\* Taking a block out of the list.
LEMMA RemoveList ==
    ASSUME NEW list \in Seq(Header), Ascending(list), NEW k \in 1 .. Len(list)
    PROVE  /\ RemoveAt(list, k) \in Seq(Header) /\ Ascending(RemoveAt(list, k))
           /\ ToSet(RemoveAt(list, k)) = ToSet(list) \ {list[k]}
  <1> DEFINE r == RemoveAt(list, k)
  <1>1. /\ r \in Seq(Header) /\ Len(list) \in Nat /\ Len(r) = Len(list) - 1
        /\ \A j \in 1 .. Len(list) - 1 : r[j] = IF j < k THEN list[j] ELSE list[j + 1]
    <2> DEFINE a == SubSeq(list, 1, k - 1)
               b == SubSeq(list, k + 1, Len(list))
    <2>1. Len(list) \in Nat /\ a \in Seq(Header) /\ b \in Seq(Header)
      OBVIOUS
    <2>2. Len(a) = k - 1 /\ \A j \in 1 .. k - 1 : a[j] = list[j]
      OBVIOUS
    <2>3. Len(b) = Len(list) - k /\ \A j \in 1 .. Len(list) - k : b[j] = list[k + j]
      OBVIOUS
    <2>4. r = a \o b
      BY DEF RemoveAt
    <2> HIDE DEF a, b, r
    <2>5. /\ r \in Seq(Header) /\ Len(r) = Len(a) + Len(b)
          /\ \A j \in 1 .. Len(a) + Len(b) : r[j] = IF j <= Len(a) THEN a[j] ELSE b[j - Len(a)]
      BY <2>1, <2>4
    <2>6. ASSUME NEW j \in 1 .. Len(list) - 1
          PROVE  r[j] = IF j < k THEN list[j] ELSE list[j + 1]
      <3>1. CASE j < k
        <4>1. j \in 1 .. k - 1 /\ j <= Len(a) /\ j \in 1 .. Len(a) + Len(b)
          BY <2>1, <2>2, <2>3, <3>1
        <4>2. QED BY <2>2, <2>5, <3>1, <4>1
      <3>2. CASE ~ (j < k)
        <4>1. j - Len(a) \in 1 .. Len(list) - k /\ k + (j - Len(a)) = j + 1 /\ ~ (j <= Len(a))
              /\ j \in 1 .. Len(a) + Len(b)
          BY <2>1, <2>2, <2>3, <3>2
        <4>2. QED BY <2>3, <2>5, <3>2, <4>1
      <3>3. QED BY <3>1, <3>2
    <2>7. QED BY <2>1, <2>2, <2>3, <2>5, <2>6
  <1> HIDE DEF r
  <1>2. Ascending(r)
    <2> SUFFICES ASSUME NEW i \in 1 .. Len(r), NEW j \in 1 .. Len(r), i < j
                 PROVE  End(r[i]) < r[j].at
      BY DEF Ascending
    <2>1. PICK x \in 1 .. Len(list), y \in 1 .. Len(list) : x < y /\ r[i] = list[x] /\ r[j] = list[y]
      <3> DEFINE At(m) == IF m < k THEN m ELSE m + 1
      <3>1. At(i) \in 1 .. Len(list) /\ At(j) \in 1 .. Len(list) /\ At(i) < At(j)
        BY <1>1
      <3>2. r[i] = list[At(i)] /\ r[j] = list[At(j)]
        BY <1>1
      <3> HIDE DEF At
      <3>3. QED BY <3>1, <3>2
    <2>2. QED BY <2>1 DEF Ascending
  <1>3. \A x : x \in ToSet(r) <=> x \in ToSet(list) \ {list[k]}
    <2>1. ASSUME NEW j \in 1 .. Len(r) PROVE r[j] \in ToSet(list) \ {list[k]}
      <3>1. PICK x \in 1 .. Len(list) : x # k /\ r[j] = list[x]
        <4> DEFINE at == IF j < k THEN j ELSE j + 1
        <4>1. at \in 1 .. Len(list) /\ at # k
          BY <1>1
        <4>2. r[j] = list[at]
          BY <1>1
        <4> HIDE DEF at
        <4>3. QED BY <4>1, <4>2
      <3>2. QED BY <3>1, Distinct DEF ToSet
    <2>2. ASSUME NEW x \in 1 .. Len(list), list[x] # list[k] PROVE list[x] \in ToSet(r)
      <3>1. PICK j \in 1 .. Len(r) : r[j] = list[x]
        <4>1. x # k
          BY <2>2
        <4>2. CASE x < k
          <5>1. x \in 1 .. Len(list) - 1 /\ r[x] = list[x]
            BY <1>1, <4>2
          <5>2. QED BY <1>1, <5>1
        <4>3. CASE x > k
          <5>1. x - 1 \in 1 .. Len(list) - 1 /\ r[x - 1] = list[x]
            BY <1>1, <4>3
          <5>2. QED BY <1>1, <5>1
        <4>4. QED BY <1>1, <4>1, <4>2, <4>3
      <3>2. QED BY <1>1, <3>1 DEF ToSet
    <2>3. DOMAIN r = 1 .. Len(r) /\ DOMAIN list = 1 .. Len(list)
      BY <1>1
    <2>4. QED BY <2>1, <2>2, <2>3, Zenon DEF ToSet
  <1>4. ToSet(r) = ToSet(list) \ {list[k]}
    BY <1>3
  <1>5. QED BY <1>1, <1>2, <1>4 DEF r

\* Putting another block in the place of one.
LEMMA ReplaceList ==
    ASSUME NEW list \in Seq(Header), Ascending(list), NEW k \in 1 .. Len(list),
           NEW t \in Header, list[k].at <= t.at,
           \A j \in 1 .. Len(list) : k < j => End(t) < list[j].at
    PROVE  /\ ReplaceAt(list, k, t) \in Seq(Header) /\ Ascending(ReplaceAt(list, k, t))
           /\ ToSet(ReplaceAt(list, k, t)) = (ToSet(list) \ {list[k]}) \cup {t}
  <1> DEFINE r == ReplaceAt(list, k, t)
  <1>1. /\ r \in Seq(Header) /\ Len(list) \in Nat /\ Len(r) = Len(list) /\ r[k] = t
        /\ \A j \in 1 .. Len(list) : j # k => r[j] = list[j]
    BY DEF ReplaceAt
  <1> HIDE DEF r
  <1>2. Ascending(r)
    <2> SUFFICES ASSUME NEW i \in 1 .. Len(r), NEW j \in 1 .. Len(r), i < j
                 PROVE  End(r[i]) < r[j].at
      BY DEF Ascending
    <2>1. list[i] \in Header /\ list[j] \in Header /\ list[k] \in Header
      BY <1>1
    <2>2. End(list[i]) < list[j].at
      BY <1>1 DEF Ascending
    <2>3. CASE i = k
      BY <1>1, <2>3
    <2>4. CASE j = k
      <3>1. End(list[i]) < list[k].at /\ r[i] = list[i] /\ r[j] = t
        BY <1>1, <2>2, <2>4
      <3>2. QED BY <2>1, <3>1, HeaderFacts, SMTT(30)
    <2>5. CASE i # k /\ j # k
      BY <1>1, <2>2, <2>5
    <2>6. QED BY <2>3, <2>4, <2>5
  <1>3. \A x : x \in ToSet(r) <=> x \in (ToSet(list) \ {list[k]}) \cup {t}
    <2>1. ASSUME NEW j \in 1 .. Len(r) PROVE r[j] \in (ToSet(list) \ {list[k]}) \cup {t}
      BY <1>1, Distinct DEF ToSet
    <2>2. ASSUME NEW x \in 1 .. Len(list), list[x] # list[k] PROVE list[x] \in ToSet(r)
      BY <1>1, <2>2 DEF ToSet
    <2>3. t \in ToSet(r)
      BY <1>1 DEF ToSet
    <2>4. QED BY <1>1, <2>1, <2>2, <2>3 DEF ToSet
  <1>4. ToSet(r) = (ToSet(list) \ {list[k]}) \cup {t}
    BY <1>3
  <1>5. QED BY <1>1, <1>2, <1>4 DEF r

\* Where a block that overlaps none of the list belongs.
LEMMA InsertPlace ==
    ASSUME NEW list \in Seq(Header), Ascending(list), NEW h \in Header,
           \A k \in 1 .. Len(list) : Apart(list[k], h)
    PROVE  \E p \in 0 .. Len(list) :
              /\ p = Cardinality({k \in DOMAIN list : \A j \in 1 .. k : list[j].at < h.at})
              /\ \A k \in 1 .. p : End(list[k]) <= h.at
              /\ \A k \in p + 1 .. Len(list) : End(h) <= list[k].at
  <1> DEFINE N == Len(list)
             T == {m \in 1 .. N + 1 : m = N + 1 \/ ~ (list[m].at < h.at)}
  <1>1. N \in Nat /\ DOMAIN list = 1 .. N /\ \A k \in 1 .. N : list[k] \in Header
    OBVIOUS
  <1> HIDE DEF N
  <1>2. PICK m \in T : \A y \in T : m <= y
    <2>1. T \in SUBSET Nat /\ N + 1 \in T
      BY <1>1
    <2> HIDE DEF T
    <2>2. QED BY <2>1, LeastNatural
  <1>3. PICK p \in 0 .. N : p = m - 1
    BY <1>1
  <1>4. \A k \in 1 .. p : list[k].at < h.at
    <2> SUFFICES ASSUME NEW k \in 1 .. p PROVE list[k].at < h.at
      OBVIOUS
    <2>1. k \notin T /\ k \in 1 .. N + 1 /\ k # N + 1
      BY <1>1, <1>2, <1>3
    <2>2. QED BY <2>1
  <1>5. ASSUME p < N PROVE ~ (list[p + 1].at < h.at)
    BY <1>1, <1>2, <1>3, <1>5
  <1>6. {k \in DOMAIN list : \A j \in 1 .. k : list[j].at < h.at} = 1 .. p
    <2>1. ASSUME NEW k \in 1 .. N, \A j \in 1 .. k : list[j].at < h.at PROVE k \in 1 .. p
      <3>1. ~ (p + 1 <= k)
        <4> SUFFICES ASSUME p + 1 <= k PROVE FALSE
          OBVIOUS
        <4>1. p < N /\ p + 1 \in 1 .. k
          BY <1>1
        <4>2. QED BY <1>5, <2>1, <4>1
      <3>2. QED BY <1>1, <3>1
    <2>2. ASSUME NEW k \in 1 .. p PROVE k \in 1 .. N /\ \A j \in 1 .. k : list[j].at < h.at
      BY <1>1, <1>4
    <2>3. QED BY <1>1, <2>1, <2>2
  <1>7. Cardinality(1 .. p) = p
    BY <1>1, FS_Interval
  <1>8. \A k \in 1 .. p : End(list[k]) <= h.at
    <2> SUFFICES ASSUME NEW k \in 1 .. p PROVE End(list[k]) <= h.at
      OBVIOUS
    <2>1. k \in 1 .. N /\ list[k].at < h.at /\ Apart(list[k], h)
      BY <1>1, <1>4 DEF N
    <2>2. QED BY <1>1, <2>1, HeaderFacts DEF Apart
  <1>9. \A k \in p + 1 .. N : End(h) <= list[k].at
    <2> SUFFICES ASSUME NEW k \in p + 1 .. N PROVE End(h) <= list[k].at
      OBVIOUS
    <2>1. k \in 1 .. N /\ p + 1 \in 1 .. N /\ p < N /\ Apart(list[k], h)
      BY <1>1 DEF N
    <2>2. list[p + 1].at <= list[k].at
      <3>1. CASE k = p + 1
        BY <1>1, <2>1, <3>1, HeaderFacts
      <3>2. CASE k # p + 1
        <4>1. End(list[p + 1]) < list[k].at
          BY <1>1, <2>1, <3>2 DEF Ascending, N
        <4>2. QED BY <1>1, <2>1, <4>1, HeaderFacts
      <3>3. QED BY <3>1, <3>2
    <2>3. ~ (list[k].at < h.at)
      BY <1>1, <1>5, <2>1, <2>2, HeaderFacts, SMTT(30)
    <2>4. QED BY <1>1, <2>1, <2>3, HeaderFacts DEF Apart
  <1>10. QED BY <1>6, <1>7, <1>8, <1>9 DEF N
\* The list with m in place of the blocks from p + 1 to q.
Splice(list, p, q, m) == (SubSeq(list, 1, p) \o <<m>>) \o SubSeq(list, q + 1, Len(list))

LEMMA SpliceSeq ==
    ASSUME NEW list \in Seq(Header), NEW p \in 0 .. Len(list), NEW q \in p .. Len(list), NEW m \in Header
    PROVE  LET r == Splice(list, p, q, m)
               N == Len(list)
           IN  /\ r \in Seq(Header) /\ Len(r) = p + 1 + (N - q)
               /\ \A k \in 1 .. p : r[k] = list[k]
               /\ r[p + 1] = m
               /\ \A k \in q + 1 .. N : r[p + 1 + (k - q)] = list[k]
               /\ \A j \in p + 2 .. p + 1 + (N - q) : r[j] = list[q + (j - p - 1)] /\ q + (j - p - 1) \in q + 1 .. N
  <1> DEFINE N == Len(list)
             a == SubSeq(list, 1, p)
             b == SubSeq(list, q + 1, N)
             c == a \o <<m>>
             r == Splice(list, p, q, m)
  <1>1. N \in Nat /\ p \in Nat /\ q \in Nat /\ p <= q /\ q <= N
    OBVIOUS
  <1>2. a \in Seq(Header) /\ Len(a) = p /\ \A k \in 1 .. p : a[k] = list[k]
    OBVIOUS
  <1>3. b \in Seq(Header) /\ Len(b) = N - q /\ \A k \in 1 .. N - q : b[k] = list[q + k]
    OBVIOUS
  <1> HIDE DEF a, b
  <1>4. /\ c \in Seq(Header) /\ Len(c) = p + 1 /\ c[p + 1] = m
        /\ \A k \in 1 .. p : c[k] = a[k]
    BY <1>1, <1>2
  <1> HIDE DEF c
  <1>5. r = c \o b
    BY DEF r, Splice, a, b, c, N
  <1> HIDE DEF r
  <1>6. /\ r \in Seq(Header) /\ Len(r) = p + 1 + (N - q)
        /\ \A k \in 1 .. p + 1 : r[k] = c[k]
        /\ \A k \in p + 2 .. p + 1 + (N - q) : r[k] = b[k - (p + 1)]
    <2>1. /\ r \in Seq(Header) /\ Len(r) = Len(c) + Len(b)
          /\ \A k \in 1 .. Len(c) + Len(b) : r[k] = IF k <= Len(c) THEN c[k] ELSE b[k - Len(c)]
      BY <1>3, <1>4, <1>5, ConcatProperties
    <2>2. \A k \in 1 .. p + 1 : k \in 1 .. Len(c) + Len(b) /\ k <= Len(c)
      BY <1>1, <1>3, <1>4
    <2>3. \A k \in p + 2 .. p + 1 + (N - q) : k \in 1 .. Len(c) + Len(b) /\ ~ (k <= Len(c))
      BY <1>1, <1>3, <1>4
    <2>4. QED BY <1>1, <1>3, <1>4, <2>1, <2>2, <2>3
  <1>7. \A k \in 1 .. p : k \in 1 .. p + 1
    BY <1>1
  <1>8. ASSUME NEW j \in p + 2 .. p + 1 + (N - q)
        PROVE  r[j] = list[q + (j - p - 1)] /\ q + (j - p - 1) \in q + 1 .. N
    <2>1. j - (p + 1) \in 1 .. N - q /\ q + (j - (p + 1)) = q + (j - p - 1)
      BY <1>1
    <2>2. r[j] = b[j - (p + 1)]
      BY <1>6
    <2>3. b[j - (p + 1)] = list[q + (j - (p + 1))]
      BY <1>3, <2>1
    <2>4. QED BY <1>1, <2>1, <2>2, <2>3, SMTT(30)
  <1>9. ASSUME NEW k \in q + 1 .. N PROVE r[p + 1 + (k - q)] = list[k]
    <2>1. p + 1 + (k - q) \in p + 2 .. p + 1 + (N - q) /\ q + ((p + 1 + (k - q)) - p - 1) = k
      BY <1>1
    <2>2. QED BY <1>8, <2>1
  <1>10. p + 1 \in 1 .. p + 1
    BY <1>1
  <1>11. QED BY <1>2, <1>4, <1>6, <1>7, <1>8, <1>9, <1>10 DEF r, N

\* Splicing a block between its neighbours keeps the order.
LEMMA SpliceList ==
    ASSUME NEW list \in Seq(Header), Ascending(list), NEW p \in 0 .. Len(list),
           NEW q \in p .. Len(list), NEW m \in Header,
           \A k \in 1 .. p : End(list[k]) < m.at,
           \A k \in q + 1 .. Len(list) : End(m) < list[k].at
    PROVE  /\ Splice(list, p, q, m) \in Seq(Header) /\ Ascending(Splice(list, p, q, m))
           /\ ToSet(Splice(list, p, q, m)) = (ToSet(list) \ {list[k] : k \in p + 1 .. q}) \cup {m}
  <1> DEFINE N == Len(list)
             r == Splice(list, p, q, m)
             R == p + 1 + (N - q)
  <1>1. N \in Nat /\ p \in Nat /\ q \in Nat /\ p <= q /\ q <= N /\ DOMAIN list = 1 .. N
    OBVIOUS
  <1>2. /\ r \in Seq(Header) /\ Len(r) = R
        /\ \A k \in 1 .. p : r[k] = list[k]
        /\ r[p + 1] = m
        /\ \A k \in q + 1 .. N : r[p + 1 + (k - q)] = list[k]
        /\ \A j \in p + 2 .. R : r[j] = list[q + (j - p - 1)] /\ q + (j - p - 1) \in q + 1 .. N
    BY SpliceSeq
  <1> HIDE DEF r
  <1>3. \A k \in 1 .. N : list[k] \in Header
    OBVIOUS
  <1>4. Ascending(r)
    <2> SUFFICES ASSUME NEW i \in 1 .. R, NEW j \in 1 .. R, i < j
                 PROVE  End(r[i]) < r[j].at
      BY <1>2 DEF Ascending
    <2> HIDE DEF N
    <2>1. CASE j <= p
      <3>1. i \in 1 .. p /\ j \in 1 .. p /\ i \in 1 .. N /\ j \in 1 .. N
        BY <1>1, <2>1
      <3>2. QED BY <1>2, <3>1 DEF Ascending, N
    <2>2. CASE j = p + 1
      <3>1. i \in 1 .. p
        BY <1>1, <2>2
      <3>2. QED BY <1>2, <2>2, <3>1
    <2>3. CASE j > p + 1
      <3>1. PICK y \in q + 1 .. N : r[j] = list[y] /\ y = q + (j - p - 1)
        BY <1>1, <1>2, <2>3
      <3>2. CASE i <= p
        <4>1. i \in 1 .. p /\ i \in 1 .. N /\ y \in 1 .. N /\ i < y
          BY <1>1, <3>2
        <4>2. QED BY <1>2, <3>1, <4>1 DEF Ascending, N
      <3>3. CASE i = p + 1
        BY <1>2, <3>1, <3>3 DEF N
      <3>4. CASE i > p + 1
        <4>1. i \in p + 2 .. R
          BY <1>1, <3>4
        <4>2. PICK x \in q + 1 .. N : r[i] = list[x] /\ x = q + (i - p - 1)
          BY <1>2, <4>1
        <4>3. x \in 1 .. N /\ y \in 1 .. N /\ x < y
          BY <1>1, <3>1, <4>2, SMTT(30)
        <4>4. QED BY <3>1, <4>2, <4>3 DEF Ascending, N
      <3>5. QED BY <1>1, <3>2, <3>3, <3>4
    <2>4. QED BY <1>1, <2>1, <2>2, <2>3
  <1> DEFINE Out == {list[k] : k \in p + 1 .. q}
             G == (ToSet(list) \ Out) \cup {m}
  <1>5. ASSUME NEW k \in 1 .. N PROVE list[k] \in Out <=> k \in p + 1 .. q
    <2>1. \A j \in p + 1 .. q : j \in 1 .. N
      BY <1>1
    <2>2. QED BY <2>1, Distinct
  <1>6. ASSUME NEW j \in 1 .. R PROVE r[j] \in G
    <2>1. CASE j <= p
      <3>1. j \in 1 .. p /\ j \in 1 .. N /\ j \notin p + 1 .. q
        BY <1>1, <2>1
      <3>2. list[j] \in ToSet(list) \ Out
        BY <1>1, <1>5, <3>1 DEF ToSet
      <3>3. QED BY <1>2, <3>1, <3>2
    <2>2. CASE j = p + 1
      BY <1>2, <2>2
    <2>3. CASE j > p + 1
      <3>0. j \in p + 2 .. R
        BY <1>1, <2>3
      <3>1. PICK y \in q + 1 .. N : r[j] = list[y]
        BY <1>2, <3>0
      <3>2. y \in 1 .. N /\ y \notin p + 1 .. q
        BY <1>1
      <3>3. list[y] \in ToSet(list) \ Out
        BY <1>1, <1>5, <3>2 DEF ToSet
      <3>4. QED BY <3>1, <3>3
    <2>4. QED BY <1>1, <2>1, <2>2, <2>3
  <1>7. DOMAIN r = 1 .. R
    BY <1>2
  <1>8. ASSUME NEW x \in G PROVE x \in ToSet(r)
    <2>1. CASE x = m
      <3>1. p + 1 \in 1 .. R
        BY <1>1
      <3>2. QED BY <1>2, <1>7, <2>1, <3>1 DEF ToSet
    <2>2. CASE x \in ToSet(list) \ Out
      <3>1. PICK k \in 1 .. N : x = list[k] /\ k \notin p + 1 .. q
        BY <1>1, <1>5, <2>2 DEF ToSet
      <3>2. CASE k <= p
        <4>1. k \in 1 .. p /\ k \in 1 .. R
          BY <1>1, <3>2
        <4>2. QED BY <1>2, <1>7, <3>1, <4>1 DEF ToSet
      <3>3. CASE k > q
        <4>1. k \in q + 1 .. N /\ p + 1 + (k - q) \in 1 .. R
          BY <1>1, <3>3
        <4>2. QED BY <1>2, <1>7, <3>1, <4>1 DEF ToSet
      <3>4. QED BY <1>1, <3>1, <3>2, <3>3
    <2>3. QED BY <2>1, <2>2
  <1>9. ToSet(r) = G
    <2>1. ToSet(r) \subseteq G
      BY <1>6, <1>7 DEF ToSet
    <2> HIDE DEF G
    <2>2. QED BY <1>8, <2>1
  <1>10. QED BY <1>2, <1>4, <1>9 DEF r
\* Two neighbours make one block.
LEMMA MergeFacts ==
    ASSUME NEW a \in Header, NEW b \in Header, Follows(a, b)
    PROVE  /\ Merge(a, b) \in Header /\ Merge(a, b).at = a.at
           /\ End(Merge(a, b)) = End(b) /\ End(a) = b.at
  BY Constants DEF Header, Follows, Merge, End

\* The blocks before and after a place in the list.
LEMMA Parts ==
    ASSUME NEW list \in Seq(Header), NEW p \in 0 .. Len(list)
    PROVE  LET before == SubSeq(list, 1, p)
               after == SubSeq(list, p + 1, Len(list))
           IN  /\ before \in Seq(Header) /\ after \in Seq(Header)
               /\ (after # <<>>) <=> p < Len(list)
               /\ p < Len(list) => /\ Head(after) = list[p + 1]
                                  /\ Tail(after) = SubSeq(list, p + 2, Len(list))
               /\ (before # <<>>) <=> p > 0
               /\ p > 0 => Last(before) = list[p] /\ Front(before) = SubSeq(list, 1, p - 1)
  <1> DEFINE N == Len(list)
             before == SubSeq(list, 1, p)
             after == SubSeq(list, p + 1, N)
  <1>1. N \in Nat /\ p \in Nat /\ p <= N
    OBVIOUS
  <1>2. before \in Seq(Header) /\ Len(before) = p /\ \A k \in 1 .. p : before[k] = list[k]
    OBVIOUS
  <1>3. after \in Seq(Header) /\ Len(after) = N - p
    OBVIOUS
  <1>4. (after # <<>>) <=> p < N
    <2> HIDE DEF after, N
    <2> QED BY <1>1, <1>3, EmptySeq
  <1>5. p < N => Head(after) = list[p + 1] /\ Tail(after) = SubSeq(list, p + 2, N)
    <2> SUFFICES ASSUME p < N PROVE Head(after) = list[p + 1] /\ Tail(after) = SubSeq(list, p + 2, N)
      OBVIOUS
    <2>1. p + 1 \in 1 .. Len(list) /\ N \in p + 1 .. Len(list) /\ (p + 1) + 1 = p + 2
      BY <1>1
    <2>2. Head(after) = list[p + 1] /\ Tail(after) = SubSeq(list, (p + 1) + 1, N)
      BY <2>1, HeadTailOfSubSeq
    <2>3. QED BY <2>1, <2>2
  <1>6. (before # <<>>) <=> p > 0
    <2> HIDE DEF before, N
    <2> QED BY <1>1, <1>2, EmptySeq
  <1>7. p > 0 => Last(before) = list[p]
    <2> HIDE DEF before, N
    <2> QED BY <1>1, <1>2 DEF Last
  <1>8. p > 0 => Front(before) = SubSeq(list, 1, p - 1)
    <2> SUFFICES ASSUME p > 0 PROVE SubSeq(before, 1, p - 1) = SubSeq(list, 1, p - 1)
      BY <1>2 DEF Front
    <2> DEFINE x == SubSeq(before, 1, p - 1)
               y == SubSeq(list, 1, p - 1)
    <2>1. y \in Seq(Header) /\ Len(y) = p - 1 /\ \A k \in 1 .. p - 1 : y[k] = list[k]
      BY <1>1
    <2>2. x \in Seq(Header) /\ Len(x) = p - 1 /\ \A k \in 1 .. p - 1 : x[k] = before[k]
      <3> HIDE DEF before
      <3> QED BY <1>1, <1>2
    <2>3. \A k \in 1 .. p - 1 : x[k] = y[k]
      BY <1>1, <1>2, <2>1, <2>2
    <2> HIDE DEF x, y
    <2>4. x = y
      BY <2>1, <2>2, <2>3, SeqEqual
    <2>5. QED BY <2>4 DEF x, y
  <1>9. QED BY <1>2, <1>3, <1>4, <1>5, <1>6, <1>7, <1>8

LEMMA Associative ==
    ASSUME NEW a \in Seq(Header), NEW b \in Seq(Header), NEW c \in Seq(Header)
    PROVE  (a \o b) \o c = a \o (b \o c)
  OBVIOUS

\* Insert is a splice: the block by itself, with the next one, with the previous
\* one or with both.
LEMMA InsertIsSplice ==
    ASSUME NEW list \in Seq(Header), NEW h \in Header, NEW p \in 0 .. Len(list),
           p = Cardinality({k \in DOMAIN list : \A j \in 1 .. k : list[j].at < h.at})
    PROVE  LET next == p < Len(list) /\ Follows(h, list[p + 1])
               prev == p > 0 /\ Follows(list[p], h)
               m == IF next THEN Merge(h, list[p + 1]) ELSE h
               q == IF next THEN p + 1 ELSE p
           IN  Insert(list, h) = IF prev THEN Splice(list, p - 1, q, Merge(list[p], m))
                                         ELSE Splice(list, p, q, m)
  <1> DEFINE N == Len(list)
             before == SubSeq(list, 1, p)
             after == SubSeq(list, p + 1, N)
             next == p < N /\ Follows(h, list[p + 1])
             prev == p > 0 /\ Follows(list[p], h)
             m == IF next THEN Merge(h, list[p + 1]) ELSE h
             q == IF next THEN p + 1 ELSE p
             rest == SubSeq(list, q + 1, N)
             withNext == IF after # <<>> /\ Follows(h, Head(after))
                           THEN <<Merge(h, Head(after))>> \o Tail(after)
                           ELSE <<h>> \o after
  <1>1. N \in Nat /\ p \in Nat /\ p <= N
    OBVIOUS
  <1>2. before \in Seq(Header) /\ after \in Seq(Header)
    BY Parts
  <1>3. (after # <<>>) <=> p < N
    BY Parts
  <1>4. p < N => Head(after) = list[p + 1] /\ Tail(after) = SubSeq(list, p + 2, N)
    BY Parts
  <1>5. (before # <<>>) <=> p > 0
    BY Parts
  <1>6. p > 0 => Last(before) = list[p] /\ Front(before) = SubSeq(list, 1, p - 1)
    BY Parts
  <1>7. withNext = <<m>> \o rest
    <2>1. CASE next
      <3>1. q + 1 = p + 2
        BY <1>1, <2>1
      <3>2. m = Merge(h, list[p + 1]) /\ rest = SubSeq(list, p + 2, N)
        BY <2>1, <3>1
      <3> HIDE DEF rest, m, after, q
      <3>3. after # <<>> /\ Follows(h, Head(after))
        BY <1>3, <1>4, <2>1
      <3>4. QED BY <1>4, <2>1, <3>2, <3>3
    <2>2. CASE ~ next
      <3>1. m = h /\ rest = after
        BY <2>2
      <3> HIDE DEF rest, m, after
      <3>2. ~ (after # <<>> /\ Follows(h, Head(after)))
        BY <1>3, <1>4, <2>2
      <3>3. QED BY <3>1, <3>2
    <2> HIDE DEF next
    <2>3. QED BY <2>1, <2>2
  <1>8. Insert(list, h) = IF before # <<>> /\ Follows(Last(before), h)
                            THEN Front(before) \o <<Merge(Last(before), Head(withNext))>> \o Tail(withNext)
                            ELSE before \o withNext
    BY DEF Insert
  <1>9. m \in Header /\ rest \in Seq(Header)
    <2>1. rest \in Seq(Header)
      <3>1. q \in Nat
        BY <1>1
      <3> HIDE DEF q
      <3>2. QED BY <3>1
    <2>2. CASE next
      <3>1. list[p + 1] \in Header
        BY <1>1, <2>2
      <3>2. QED BY <2>1, <2>2, <3>1, MergeFacts
    <2>3. CASE ~ next
      BY <2>1, <2>3
    <2> HIDE DEF next
    <2>4. QED BY <2>2, <2>3
  <1> HIDE DEF m, rest, withNext, before, q, next
  <1>10. Head(withNext) = m /\ Tail(withNext) = rest
    BY <1>7, <1>9
  <1>11. CASE prev
    <2>1. Insert(list, h) = Front(before) \o <<Merge(list[p], m)>> \o rest
      BY <1>5, <1>6, <1>8, <1>10, <1>11
    <2>2. Front(before) = SubSeq(list, 1, p - 1)
      BY <1>6, <1>11
    <2>3. Splice(list, p - 1, q, Merge(list[p], m)) = (SubSeq(list, 1, p - 1) \o <<Merge(list[p], m)>>) \o rest
      BY DEF Splice, rest, N
    <2>4. QED BY <1>11, <2>1, <2>2, <2>3 DEF m, q, next, N
  <1>12. CASE ~ prev
    <2>1. Insert(list, h) = before \o (<<m>> \o rest)
      <3>1. ~ (before # <<>> /\ Follows(Last(before), h))
        BY <1>5, <1>6, <1>12
      <3>2. QED BY <1>7, <1>8, <3>1
    <2>2. (before \o <<m>>) \o rest = before \o (<<m>> \o rest)
      <3> DEFINE one == <<m>>
      <3>1. before \in Seq(Header) /\ one \in Seq(Header) /\ rest \in Seq(Header)
        BY <1>2, <1>9
      <3> HIDE DEF one
      <3>2. (before \o one) \o rest = before \o (one \o rest)
        BY <3>1, Associative, Zenon
      <3>3. QED BY <3>2 DEF one
    <2>3. Splice(list, p, q, m) = (before \o <<m>>) \o rest
      BY DEF Splice, rest, before, N
    <2>4. QED BY <1>12, <2>1, <2>2, <2>3 DEF m, q, next, N
  <1> HIDE DEF prev
  <1>13. QED BY <1>11, <1>12 DEF m, q, next, prev, N
\* Insert keeps the order, merges what touches, and changes nothing else: what it
\* puts in the place of h and of its neighbours is as long as they were.
LEMMA InsertList ==
    ASSUME NEW list \in Seq(Header), Ascending(list), NEW h \in Header,
           \A k \in 1 .. Len(list) : Apart(list[k], h)
    PROVE  /\ Insert(list, h) \in Seq(Header) /\ Ascending(Insert(list, h))
           /\ \/ ToSet(Insert(list, h)) = ToSet(list) \cup {h}
              \/ \E x \in ToSet(list) :
                    Follows(h, x) /\ ToSet(Insert(list, h)) = (ToSet(list) \ {x}) \cup {Merge(h, x)}
              \/ \E y \in ToSet(list) :
                    Follows(y, h) /\ ToSet(Insert(list, h)) = (ToSet(list) \ {y}) \cup {Merge(y, h)}
              \/ \E x, y \in ToSet(list) :
                    /\ Follows(y, h) /\ Follows(h, x)
                    /\ ToSet(Insert(list, h)) = (ToSet(list) \ {x, y}) \cup {Merge(y, Merge(h, x))}
  <1> DEFINE N == Len(list)
             r == Insert(list, h)
  <1>1. PICK p \in 0 .. N :
           /\ p = Cardinality({k \in DOMAIN list : \A j \in 1 .. k : list[j].at < h.at})
           /\ \A k \in 1 .. p : End(list[k]) <= h.at
           /\ \A k \in p + 1 .. N : End(h) <= list[k].at
    BY InsertPlace
  <1> DEFINE next == p < N /\ Follows(h, list[p + 1])
             prev == p > 0 /\ Follows(list[p], h)
             m == IF next THEN Merge(h, list[p + 1]) ELSE h
             q == IF next THEN p + 1 ELSE p
  <1>2. r = IF prev THEN Splice(list, p - 1, q, Merge(list[p], m)) ELSE Splice(list, p, q, m)
    BY <1>1, InsertIsSplice
  <1> HIDE DEF r
  <1>3. /\ N \in Nat /\ p \in Nat /\ p <= N /\ DOMAIN list = 1 .. N
        /\ \A k \in 1 .. N : list[k] \in Header /\ list[k] \in ToSet(list)
    BY DEF ToSet
  <1>4. \A j, k \in 1 .. N : j < k => End(list[j]) < list[k].at
    BY DEF Ascending
  <1>5. \A k \in 1 .. p : End(list[k]) <= h.at
    BY <1>1
  <1>6. \A k \in p + 1 .. N : End(h) <= list[k].at
    BY <1>1
  <1> HIDE DEF N
  <1>7. \A a, b \in Header : Follows(a, b) <=> End(a) = b.at
    BY Constants DEF Follows, End, Header
  <1>8. \A b \in Header : b.at \in Nat /\ End(b) \in Nat /\ b.at < End(b)
    BY HeaderFacts
  \* Below h, and not touching it.
  <1>9. ASSUME ~ prev PROVE \A k \in 1 .. p : End(list[k]) < h.at
    <2> SUFFICES ASSUME NEW k \in 1 .. p PROVE End(list[k]) < h.at
      OBVIOUS
    <2>1. k \in 1 .. N /\ p \in 1 .. N /\ p > 0
      BY <1>3
    <2>2. CASE k = p
      BY <1>3, <1>5, <1>7, <1>8, <1>9, <2>1, <2>2
    <2>3. CASE k # p
      <3>1. End(list[k]) < list[p].at /\ End(list[p]) <= h.at
        BY <1>4, <1>5, <2>1, <2>3
      <3>2. QED BY <1>3, <1>8, <2>1, <3>1
    <2>4. QED BY <2>2, <2>3
  \* Above h, and not touching it.
  <1>10. ASSUME ~ next PROVE \A k \in p + 1 .. N : End(h) < list[k].at
    <2> SUFFICES ASSUME NEW k \in p + 1 .. N PROVE End(h) < list[k].at
      OBVIOUS
    <2>1. k \in 1 .. N /\ p + 1 \in 1 .. N /\ p < N /\ p + 1 \in p + 1 .. N
      BY <1>3
    <2>2. CASE k = p + 1
      BY <1>3, <1>6, <1>7, <1>8, <1>10, <2>1, <2>2
    <2>3. CASE k # p + 1
      <3>1. End(list[p + 1]) < list[k].at /\ End(h) <= list[p + 1].at
        BY <1>4, <1>6, <2>1, <2>3
      <3>2. QED BY <1>3, <1>8, <2>1, <3>1
    <2>4. QED BY <2>2, <2>3
  \* What becomes of h and the next block.
  <1>11. /\ m \in Header /\ m.at = h.at /\ q \in p .. N
         /\ \A k \in q + 1 .. N : End(m) < list[k].at
    <2>1. CASE next
      <3>1. p + 1 \in 1 .. N /\ list[p + 1] \in Header /\ m = Merge(h, list[p + 1]) /\ q = p + 1
        BY <1>3, <2>1
      <3>2. m \in Header /\ m.at = h.at /\ End(m) = End(list[p + 1])
        BY <2>1, <3>1, MergeFacts
      <3>3. ASSUME NEW k \in q + 1 .. N PROVE End(m) < list[k].at
        <4>1. k \in 1 .. N /\ p + 1 < k
          BY <1>3, <3>1
        <4>2. QED BY <1>4, <3>1, <3>2, <4>1
      <3>4. q \in p .. N
        BY <1>3, <3>1
      <3>5. QED BY <3>2, <3>3, <3>4
    <2>2. CASE ~ next
      <3>1. m = h /\ q = p
        BY <2>2
      <3>2. QED BY <1>3, <1>10, <2>2, <3>1
    <2> HIDE DEF next
    <2>3. QED BY <2>1, <2>2
  <1>12. CASE ~ prev
    <2>1. r = Splice(list, p, q, m)
      BY <1>2, <1>12
    <2>2. \A k \in 1 .. p : End(list[k]) < m.at
      BY <1>9, <1>11, <1>12
    <2>3. /\ r \in Seq(Header) /\ Ascending(r)
          /\ ToSet(r) = (ToSet(list) \ {list[k] : k \in p + 1 .. q}) \cup {m}
      <3> HIDE DEF m, q, next, prev
      <3>1. m \in Header /\ p \in 0 .. Len(list) /\ q \in p .. Len(list)
        BY <1>11, <1>3 DEF N
      <3>2. \A k \in q + 1 .. Len(list) : End(m) < list[k].at
        BY <1>11 DEF N
      <3>3. /\ Splice(list, p, q, m) \in Seq(Header) /\ Ascending(Splice(list, p, q, m))
            /\ ToSet(Splice(list, p, q, m)) = (ToSet(list) \ {list[k] : k \in p + 1 .. q}) \cup {m}
        BY <2>2, <3>1, <3>2, SpliceList
      <3>4. QED BY <2>1, <3>3
    <2>4. CASE next
      <3>1. p + 1 \in 1 .. N /\ m = Merge(h, list[p + 1]) /\ q = p + 1 /\ list[p + 1] \in ToSet(list)
        BY <1>3, <2>4
      <3>2. {list[k] : k \in p + 1 .. q} = {list[p + 1]}
        BY <1>3, <3>1
      <3>3. QED BY <2>3, <2>4, <3>1, <3>2 DEF r
    <2>5. CASE ~ next
      <3>1. m = h /\ {list[k] : k \in p + 1 .. q} = {}
        BY <1>3, <2>5
      <3>2. QED BY <2>3, <3>1 DEF r
    <2> HIDE DEF next
    <2>6. QED BY <2>4, <2>5
  <1>13. CASE prev
    <2> DEFINE y == list[p]
               g == Merge(y, m)
    <2>1. p \in 1 .. N /\ p - 1 \in 0 .. N /\ q \in p - 1 .. N /\ y \in Header /\ y \in ToSet(list)
      BY <1>3, <1>11, <1>13
    <2>2. Follows(y, m) /\ Follows(y, h)
      BY <1>11, <1>13 DEF Follows
    <2> HIDE DEF m, q, y
    <2>3. g \in Header /\ g.at = y.at /\ End(g) = End(m)
      BY <1>11, <2>1, <2>2, MergeFacts
    <2>4. r = Splice(list, p - 1, q, g)
      BY <1>2, <1>13 DEF y
    <2> HIDE DEF g
    <2>5. PICK o \in 0 .. N : o = p - 1
      BY <2>1
    <2>6. \A k \in 1 .. o : End(list[k]) < g.at
      <3> SUFFICES ASSUME NEW k \in 1 .. o PROVE End(list[k]) < g.at
        OBVIOUS
      <3>1. k \in 1 .. N /\ k < p
        BY <1>3, <2>1, <2>5
      <3>2. QED BY <1>4, <2>1, <2>3, <3>1 DEF y
    <2>7. /\ r \in Seq(Header) /\ Ascending(r)
          /\ ToSet(r) = (ToSet(list) \ {list[k] : k \in o + 1 .. q}) \cup {g}
      <3>1. \A k \in q + 1 .. N : End(g) < list[k].at
        BY <1>11, <2>3
      <3>2. q \in o .. N /\ r = Splice(list, o, q, g)
        BY <2>1, <2>4, <2>5
      <3>3. /\ Splice(list, o, q, g) \in Seq(Header) /\ Ascending(Splice(list, o, q, g))
            /\ ToSet(Splice(list, o, q, g)) = (ToSet(list) \ {list[k] : k \in o + 1 .. q}) \cup {g}
        BY <2>3, <2>6, <3>1, <3>2, SpliceList DEF N
      <3>4. QED BY <3>2, <3>3
    <2>8. CASE next
      <3>1. p + 1 \in 1 .. N /\ m = Merge(h, list[p + 1]) /\ q = p + 1 /\ list[p + 1] \in ToSet(list)
        BY <1>3, <2>8 DEF m, q
      <3>2. {list[k] : k \in o + 1 .. q} = {list[p + 1], y}
        <4>1. o + 1 .. q = {p, p + 1}
          BY <1>3, <2>5, <3>1
        <4>2. QED BY <4>1 DEF y
      <3>3. QED BY <2>1, <2>2, <2>7, <2>8, <3>1, <3>2 DEF r, g
    <2>9. CASE ~ next
      <3>1. m = h /\ q = p
        BY <2>9 DEF m, q
      <3>2. {list[k] : k \in o + 1 .. q} = {y}
        <4>1. o + 1 .. q = {p}
          BY <1>3, <2>5, <3>1
        <4>2. QED BY <4>1 DEF y
      <3>3. QED BY <2>1, <2>2, <2>7, <3>1, <3>2 DEF r, g
    <2> HIDE DEF next
    <2>10. QED BY <2>8, <2>9
  <1> HIDE DEF prev
  <1>14. QED BY <1>12, <1>13
-----------------------------------------------------------------------------
(* The operations on the heap.                                             *)

\* A block is known by its address.
LEMMA ByAddress ==
    ASSUME NEW H, H \subseteq Header, Tiled(H)
    PROVE  \A b, c \in H : b.at = c.at => b = c
  <1> SUFFICES ASSUME NEW b \in H, NEW c \in H, b.at = c.at, b # c PROVE FALSE
    OBVIOUS
  <1>1. Apart(b, c) /\ b \in Header /\ c \in Header
    BY DEF Tiled
  <1>2. QED BY <1>1, HeaderFacts DEF Apart

\* What holds of the headers of a good heap.
LEMMA HeapFacts ==
    ASSUME NEW heap, HeapOK(heap)
    PROVE  /\ ToSet(heap.free_list) \subseteq Header /\ heap.blocks \subseteq Header
           /\ heap.free_list \in Seq(Header) /\ Ascending(heap.free_list)
           /\ ToSet(heap.free_list) \cap heap.blocks = {}
           /\ Tiled(ToSet(heap.free_list) \cup heap.blocks)
           /\ IsFiniteSet(heap.blocks) /\ heap.used = Cardinality(Lent(heap.blocks))
           /\ DOMAIN heap.free_list = 1 .. Len(heap.free_list)
           /\ \A k \in 1 .. Len(heap.free_list) :
                 heap.free_list[k] \in ToSet(heap.free_list) /\ heap.free_list[k] \in Header
  BY DEF HeapOK, ToSet

\* A heap put together from good parts is good.
LEMMA MakeHeap ==
    ASSUME NEW list \in Seq(Header), NEW B, B \subseteq Header, IsFiniteSet(B), Ascending(list),
           ToSet(list) \cap B = {}, Tiled(ToSet(list) \cup B), NEW u, u = Cardinality(Lent(B))
    PROVE  HeapOK([free_list |-> list, blocks |-> B, used |-> u])
  BY DEF HeapOK

\* Granting block k keeps the heap good and adds one used block of its own.
LEMMA GrantOK ==
    ASSUME NEW heap, HeapOK(heap), NEW size \in Nat, NEW k \in Fits(heap, size)
    PROVE  /\ HeapOK(Grant(heap, k, size))
           /\ heap.free_list[k].at \in Nat
           /\ \E b \in Header :
                 /\ Grant(heap, k, size).blocks = heap.blocks \cup {b} /\ b \notin heap.blocks
                 /\ b.at = heap.free_list[k].at /\ b.size >= size
                 /\ \A c \in heap.blocks : c.at # b.at
  <1> DEFINE list == heap.free_list
             B == heap.blocks
             T == ToSet(list)
             H == T \cup B
             cur == list[k]
             splits == cur.size >= size + HDR_SIZE + KHEAP_MIN_SPLIT
             given == IF splits THEN size ELSE cur.size
             b == [at |-> cur.at, size |-> given]
             rest == IF splits THEN ReplaceAt(list, k, SplitTail(cur, size)) ELSE RemoveAt(list, k)
  <1>1. /\ T \subseteq Header /\ B \subseteq Header /\ list \in Seq(Header) /\ Ascending(list)
        /\ T \cap B = {} /\ Tiled(H) /\ IsFiniteSet(B) /\ heap.used = Cardinality(Lent(B))
    BY HeapFacts
  <1>2. k \in 1 .. Len(list) /\ cur \in T /\ cur \in Header /\ cur.size >= size
    BY HeapFacts DEF Fits
  <1>3. Grant(heap, k, size) = [free_list |-> rest, blocks |-> B \cup {b}, used |-> heap.used + given]
    BY DEF Grant
  <1> HIDE DEF list, B, T, H, cur
  <1>4. cur.at \in Nat /\ cur.size \in Nat
    BY <1>2, HeaderFacts
  <1>5. b \in Header /\ b.at = cur.at /\ b.size = given /\ given >= size /\ given \in Nat
    BY <1>2, <1>4 DEF Header
  <1> HIDE DEF b
  \* The list loses the block, or keeps its tail.
  <1>6. /\ rest \in Seq(Header) /\ Ascending(rest)
        /\ ToSet(rest) \cap (B \cup {b}) = {} /\ Tiled(ToSet(rest) \cup (B \cup {b}))
        /\ b \notin B
    <2>1. CASE splits
      <3> DEFINE t == SplitTail(cur, size)
      <3>1. /\ t \in Header /\ End(b) = t.at /\ End(t) = End(cur) /\ cur.at <= t.at
            /\ rest = ReplaceAt(list, k, t)
        BY <1>4, <1>5, <2>1, Constants DEF SplitTail, Header, End
      <3> HIDE DEF t
      <3>2. \A j \in 1 .. Len(list) : k < j => End(t) < list[j].at
        BY <1>1, <1>2, <3>1 DEF Ascending, cur
      <3>3. /\ rest \in Seq(Header) /\ Ascending(rest) /\ ToSet(rest) = (T \ {cur}) \cup {t}
        BY <1>1, <1>2, <3>1, <3>2, ReplaceList DEF cur, T
      <3>4. /\ Tiled((H \ {cur}) \cup {b, t}) /\ b \notin H \ {cur} /\ t \notin H \ {cur} /\ b # t
        <4>1. H \subseteq Header /\ cur \in H
          BY <1>1, <1>2 DEF H
        <4>2. QED BY <1>1, <1>5, <3>1, <4>1, TiledSplit
      <3>5. ToSet(rest) \cup (B \cup {b}) = (H \ {cur}) \cup {b, t}
        BY <1>1, <1>2, <3>3 DEF H
      <3>6. cur \notin B
        BY <1>1, <1>2
      <3>7. b \notin B /\ ToSet(rest) \cap (B \cup {b}) = {}
        BY <1>1, <3>3, <3>4, <3>6 DEF H
      <3>8. QED BY <3>3, <3>4, <3>5, <3>7
    <2>2. CASE ~ splits
      <3>1. b = cur
        BY <1>2, <2>2 DEF b, Header
      <3>2. rest \in Seq(Header) /\ Ascending(rest) /\ ToSet(rest) = T \ {cur}
        BY <1>1, <1>2, <2>2, RemoveList DEF cur, T
      <3>3. ToSet(rest) \cup (B \cup {b}) = H
        BY <1>2, <3>1, <3>2 DEF H
      <3>4. QED BY <1>1, <1>2, <3>1, <3>2, <3>3
    <2> HIDE DEF splits
    <2>3. QED BY <2>1, <2>2
  <1> HIDE DEF rest, given
  <1>7. \A c \in B : Apart(b, c)
    BY <1>6 DEF Tiled
  <1>8. heap.used + given = Cardinality(Lent(B \cup {b}))
    <2>1. KHEAP_BASE <= b.at /\ End(b) <= KHEAP_BASE + KHEAP_SIZE
      BY <1>6 DEF Tiled
    <2>2. QED BY <1>1, <1>5, <1>6, <1>7, <2>1, LentAdd
  <1>9. B \cup {b} \subseteq Header /\ IsFiniteSet(B \cup {b})
    BY <1>1, <1>5, FS_AddElement
  <1>10. HeapOK(Grant(heap, k, size))
    BY <1>3, <1>6, <1>8, <1>9, MakeHeap
  <1>11. \A c \in B : c.at # b.at
    BY <1>1, <1>5, <1>7, HeaderFacts DEF Apart
  <1>12. Grant(heap, k, size).blocks = B \cup {b}
    BY <1>3
  <1>13. QED BY <1>4, <1>5, <1>6, <1>10, <1>11, <1>12 DEF B, cur, list

\* Freeing a used block keeps the heap good and takes this block from it.
LEMMA FreeOK ==
    ASSUME NEW heap, HeapOK(heap), NEW h \in heap.blocks, NEW raw, raw = h.at + HDR_SIZE
    PROVE  /\ HeapOK(kfree(heap, raw)) /\ kfree(heap, raw).blocks = heap.blocks \ {h}
           /\ BlockOf(heap, raw) = h
  <1> DEFINE list == heap.free_list
             B == heap.blocks
             T == ToSet(list)
             H == T \cup B
             r == Insert(list, h)
             C == B \ {h}
  <1>1. /\ T \subseteq Header /\ B \subseteq Header /\ list \in Seq(Header) /\ Ascending(list)
        /\ T \cap B = {} /\ Tiled(H) /\ IsFiniteSet(B) /\ heap.used = Cardinality(Lent(B))
        /\ \A k \in 1 .. Len(list) : list[k] \in T
    BY HeapFacts
  <1>2. h \in Header /\ h.at \in Nat /\ h.size \in Nat /\ h \in H /\ H \subseteq Header /\ h \notin T
    BY <1>1, HeaderFacts
  <1>3. BlockOf(heap, raw) = h
    <2>1. raw - HDR_SIZE = h.at
      BY <1>2, Constants
    <2>2. \A b \in B : b.at = h.at => b = h
      BY <1>1, <1>2, ByAddress
    <2>3. QED BY <2>1, <2>2 DEF BlockOf
  <1>4. kfree(heap, raw) = [free_list |-> r, blocks |-> C, used |-> heap.used - h.size]
    BY <1>3 DEF kfree
  <1> HIDE DEF list, B, T, r
  <1>5. \A k \in 1 .. Len(list) : Apart(list[k], h)
    <2> SUFFICES ASSUME NEW k \in 1 .. Len(list) PROVE Apart(list[k], h)
      OBVIOUS
    <2>1. list[k] \in H /\ list[k] # h
      BY <1>1, <1>2
    <2>2. QED BY <1>1, <1>2, <2>1 DEF Tiled
  <1>6. /\ r \in Seq(Header) /\ Ascending(r)
        /\ \/ ToSet(r) = T \cup {h}
           \/ \E x \in T : Follows(h, x) /\ ToSet(r) = (T \ {x}) \cup {Merge(h, x)}
           \/ \E y \in T : Follows(y, h) /\ ToSet(r) = (T \ {y}) \cup {Merge(y, h)}
           \/ \E x, y \in T : /\ Follows(y, h) /\ Follows(h, x)
                              /\ ToSet(r) = (T \ {x, y}) \cup {Merge(y, Merge(h, x))}
    BY <1>1, <1>2, <1>5, InsertList DEF r, T
  <1>7. ToSet(r) \cap C = {} /\ Tiled(ToSet(r) \cup C)
    <2>1. CASE ToSet(r) = T \cup {h}
      <3>1. ToSet(r) \cup C = H
        BY <1>2, <2>1 DEF B
      <3>2. QED BY <1>1, <2>1, <3>1
    <2>2. ASSUME NEW x \in T, Follows(h, x), ToSet(r) = (T \ {x}) \cup {Merge(h, x)}
          PROVE  ToSet(r) \cap C = {} /\ Tiled(ToSet(r) \cup C)
      <3> DEFINE c == Merge(h, x)
      <3>1. x \in H /\ x \in Header /\ x \notin B
        BY <1>1
      <3>2. c \in Header /\ c.at = h.at /\ End(c) = End(x) /\ End(h) = x.at
        BY <1>2, <2>2, <3>1, MergeFacts
      <3> HIDE DEF c, H
      <3>3. Tiled((H \ {h, x}) \cup {c}) /\ c \notin H \ {h, x}
        BY <1>1, <1>2, <3>1, <3>2, TiledMerge
      <3>4. ToSet(r) = (T \ {x}) \cup {c}
        BY <2>2 DEF c
      <3>5. ToSet(r) \cup C = (H \ {h, x}) \cup {c}
        BY <1>2, <3>1, <3>4 DEF H
      <3>6. ToSet(r) \cap C = {}
        BY <1>1, <3>1, <3>3, <3>4 DEF H
      <3>7. QED BY <3>3, <3>5, <3>6
    <2>3. ASSUME NEW y \in T, Follows(y, h), ToSet(r) = (T \ {y}) \cup {Merge(y, h)}
          PROVE  ToSet(r) \cap C = {} /\ Tiled(ToSet(r) \cup C)
      <3> DEFINE c == Merge(y, h)
      <3>1. y \in H /\ y \in Header /\ y \notin B
        BY <1>1
      <3>2. c \in Header /\ c.at = y.at /\ End(c) = End(h) /\ End(y) = h.at
        BY <1>2, <2>3, <3>1, MergeFacts
      <3> HIDE DEF c, H
      <3>3. Tiled((H \ {y, h}) \cup {c}) /\ c \notin H \ {y, h}
        BY <1>1, <1>2, <3>1, <3>2, TiledMerge
      <3>4. ToSet(r) = (T \ {y}) \cup {c}
        BY <2>3 DEF c
      <3>5. ToSet(r) \cup C = (H \ {y, h}) \cup {c}
        BY <1>2, <3>1, <3>4 DEF H
      <3>6. ToSet(r) \cap C = {}
        BY <1>1, <3>1, <3>3, <3>4 DEF H
      <3>7. QED BY <3>3, <3>5, <3>6
    <2>4. ASSUME NEW x \in T, NEW y \in T, Follows(y, h), Follows(h, x),
                 ToSet(r) = (T \ {x, y}) \cup {Merge(y, Merge(h, x))}
          PROVE  ToSet(r) \cap C = {} /\ Tiled(ToSet(r) \cup C)
      <3> DEFINE c == Merge(h, x)
                 d == Merge(y, c)
                 G == (H \ {h, x}) \cup {c}
      <3>1. x \in H /\ x \in Header /\ x \notin B /\ y \in H /\ y \in Header /\ y \notin B
        BY <1>1
      <3>2. c \in Header /\ c.at = h.at /\ End(c) = End(x) /\ End(h) = x.at
        BY <1>2, <2>4, <3>1, MergeFacts
      <3>3. Follows(y, c)
        BY <2>4, <3>2 DEF Follows
      <3> HIDE DEF c
      <3>4. d \in Header /\ d.at = y.at /\ End(d) = End(c) /\ End(y) = c.at
        BY <3>1, <3>2, <3>3, MergeFacts
      <3>5. y # x /\ y # h
        BY <1>2, <3>1, <3>2, <3>4, HeaderFacts
      <3> HIDE DEF d, H
      <3>6. Tiled(G) /\ c \notin H \ {h, x} /\ G \subseteq Header /\ y \in G /\ c \in G
        BY <1>1, <1>2, <3>1, <3>2, <3>5, TiledMerge, SMTT(30)
      <3> HIDE DEF G
      <3>7. Tiled((G \ {y, c}) \cup {d}) /\ d \notin G \ {y, c}
        BY <3>4, <3>6, TiledMerge
      <3>8. ToSet(r) = (T \ {x, y}) \cup {d}
        BY <2>4 DEF d, c
      <3>9. G \ {y, c} = H \ {h, x, y}
        BY <3>6 DEF G
      <3>10. ToSet(r) \cup C = (H \ {h, x, y}) \cup {d}
        BY <1>2, <3>1, <3>8 DEF H
      <3>11. ToSet(r) \cap C = {}
        BY <1>1, <3>1, <3>7, <3>8, <3>9 DEF H
      <3>12. QED BY <3>7, <3>9, <3>10, <3>11
    <2>5. QED BY <1>6, <2>1, <2>2, <2>3, <2>4, Zenon
  <1>8. heap.used - h.size = Cardinality(Lent(C))
    <2>1. \A c \in C : Apart(h, c)
      BY <1>1, <1>2 DEF Tiled
    <2>2. KHEAP_BASE <= h.at /\ End(h) <= KHEAP_BASE + KHEAP_SIZE
      BY <1>1, <1>2 DEF Tiled
    <2>3. C \subseteq Header /\ h \notin C /\ C \cup {h} = B
      BY <1>1 DEF B
    <2> HIDE DEF C
    <2>4. Cardinality(Lent(C \cup {h})) = Cardinality(Lent(C)) + h.size
      BY <1>2, <2>1, <2>2, <2>3, LentAdd
    <2>5. Cardinality(Lent(C)) \in Nat
      BY LentFinite
    <2>6. heap.used = Cardinality(Lent(C)) + h.size
      BY <1>1, <2>3, <2>4
    <2>7. QED BY <1>2, <2>5, <2>6
  <1>9. C \subseteq Header /\ IsFiniteSet(C)
    BY <1>1, FS_RemoveElement
  <1>10. HeapOK(kfree(heap, raw))
    <2>1. r \in Seq(Header) /\ Ascending(r)
      BY <1>6
    <2> HIDE DEF C
    <2>2. PICK u : u = heap.used - h.size
      OBVIOUS
    <2>3. u = Cardinality(Lent(C))
      BY <1>8, <2>2
    <2>4. HeapOK([free_list |-> r, blocks |-> C, used |-> u])
      BY <1>7, <1>9, <2>1, <2>3, MakeHeap
    <2>5. QED BY <1>4, <2>2, <2>4, Zenon
  <1>11. kfree(heap, raw).blocks = C
    BY <1>4
  <1>12. QED BY <1>3, <1>10, <1>11 DEF B

\* The rounded size is a size, and no smaller unless it wraps.
LEMMA RoundFacts ==
    ASSUME NEW size \in 0 .. U32 - 1
    PROVE  /\ Round(size) \in Nat
           /\ size + KHEAP_ALIGN <= U32 => Round(size) >= size
  <1> DEFINE n == size + KHEAP_ALIGN - 1
             s == n % U32
  <1>1. n \in Nat /\ U32 \in Nat \ {0} /\ KHEAP_ALIGN \in Nat \ {0}
    BY Constants
  <1> HIDE DEF n
  <1>2. s \in Nat /\ (n < U32 => s = n)
    BY <1>1
  <1> HIDE DEF s
  <1>3. s % KHEAP_ALIGN \in 0 .. KHEAP_ALIGN - 1 /\ s % KHEAP_ALIGN <= s
    BY <1>1, <1>2
  <1>4. Round(size) = s - (s % KHEAP_ALIGN)
    BY DEF Round, s, n
  <1> DEFINE m == s % KHEAP_ALIGN
  <1> HIDE DEF m
  <1>5. m \in 0 .. KHEAP_ALIGN - 1 /\ m <= s /\ Round(size) = s - m
    BY <1>3, <1>4 DEF m
  <1>6. QED BY <1>1, <1>2, <1>5 DEF n

\* kmalloc returns nullptr and leaves the heap alone, or grants a new block
\* that holds the rounded size.
LEMMA MallocOK ==
    ASSUME NEW heap, HeapOK(heap), NEW request \in 0 .. U32 - 1, NEW m, m = kmalloc(heap, request)
    PROVE  \/ m.heap = heap /\ m.ptr = nullptr
           \/ /\ request # 0 /\ HeapOK(m.heap)
              /\ \E b \in Header :
                    /\ m.heap.blocks = heap.blocks \cup {b} /\ b \notin heap.blocks
                    /\ m.ptr = b.at + HDR_SIZE /\ b.size >= Round(request)
                    /\ \A c \in heap.blocks : c.at # b.at
  <1> DEFINE size == Round(request)
             fits == Fits(heap, size)
             k == Min(fits)
  <1>1. CASE request = 0 \/ fits = {}
    BY <1>1 DEF kmalloc
  <1>2. CASE request # 0 /\ fits # {}
    <2>1. fits \in SUBSET Nat
      <3> HIDE DEF size
      <3>1. DOMAIN heap.free_list = 1 .. Len(heap.free_list) /\ heap.free_list \in Seq(Header)
        BY HeapFacts
      <3>2. DOMAIN heap.free_list \subseteq Nat
        BY <3>1
      <3>3. fits \subseteq DOMAIN heap.free_list
        BY DEF Fits
      <3>4. QED BY <3>2, <3>3
    <2>2. size \in Nat
      BY RoundFacts
    <2>3. m = [heap |-> Grant(heap, k, size), ptr |-> heap.free_list[k].at + HDR_SIZE]
      BY <1>2 DEF kmalloc
    <2> HIDE DEF fits
    <2>4. \E x \in fits : \A y \in fits : x <= y
      BY <1>2, <2>1, LeastNatural
    <2>5. k \in fits
      BY <2>4 DEF Min
    <2> HIDE DEF k, size
    <2>6. k \in Fits(heap, size)
      BY <2>5 DEF fits
    <2>7. m.heap = Grant(heap, k, size) /\ m.ptr = heap.free_list[k].at + HDR_SIZE
      BY <2>3
    <2>8. HeapOK(m.heap)
      BY <2>2, <2>6, <2>7, GrantOK
    <2>9. PICK b \in Header : /\ Grant(heap, k, size).blocks = heap.blocks \cup {b}
                              /\ b \notin heap.blocks
                              /\ b.at = heap.free_list[k].at /\ b.size >= size
                              /\ \A c \in heap.blocks : c.at # b.at
      BY <2>2, <2>6, GrantOK
    <2>10. QED BY <1>2, <2>7, <2>8, <2>9 DEF size
  <1>3. QED BY <1>1, <1>2

-----------------------------------------------------------------------------
(* The live allocations.                                                   *)

LiveRecord == [ptr : Nat, raw : Nat, size : 0 .. U32 - 1]

\* A new allocation in a new block.
LEMMA LiveAdd ==
    ASSUME NEW heap, NEW allocs, Good(heap, allocs), NEW next, HeapOK(next), NEW b \in Header,
           next.blocks = heap.blocks \cup {b}, b \notin heap.blocks,
           \A c \in heap.blocks : c.at # b.at,
           NEW a \in LiveRecord, a.raw = b.at + HDR_SIZE
    PROVE  /\ Good(next, allocs \cup {a})
           /\ Inside(heap, allocs) /\ Fitted(a, b) => Inside(next, allocs \cup {a})
  <1>0. /\ HeapOK(heap) /\ LiveOK(heap, allocs) /\ Cardinality(heap.blocks) = Cardinality(allocs)
        /\ heap.blocks \subseteq Header /\ IsFiniteSet(heap.blocks) /\ IsFiniteSet(allocs)
    BY HeapFacts DEF Good, LiveOK
  <1>1. \A x \in Header : x.at \in Nat
    BY HeaderFacts
  <1>2. \A x \in heap.blocks : x.at + HDR_SIZE # a.raw
    BY <1>0, <1>1, Constants
  <1>3. \A x \in allocs : x.raw # a.raw /\ x \in LiveRecord
    BY <1>0, <1>2 DEF LiveOK, LiveRecord
  <1>4. a \notin allocs
    BY <1>3
  <1>5. LiveOK(next, allocs \cup {a})
    <2>1. IsFiniteSet(allocs \cup {a})
      BY <1>0, FS_AddElement
    <2>2. QED BY <1>0, <1>3, <2>1 DEF LiveOK, LiveRecord
  <1>6. Cardinality(next.blocks) = Cardinality(allocs \cup {a})
    <2>1. Cardinality(allocs \cup {a}) = Cardinality(allocs) + 1
      BY <1>0, <1>4, FS_AddElement
    <2>2. Cardinality(heap.blocks \cup {b}) = Cardinality(heap.blocks) + 1
      BY <1>0, FS_AddElement
    <2>3. QED BY <1>0, <2>1, <2>2
  <1>7. ASSUME Inside(heap, allocs), Fitted(a, b) PROVE Inside(next, allocs \cup {a})
    <2> SUFFICES ASSUME NEW x \in allocs \cup {a}, NEW y \in next.blocks, y.at + HDR_SIZE = x.raw
                 PROVE  Fitted(x, y)
      BY DEF Inside
    <2>1. CASE x = a
      BY <1>2, <1>7, <2>1
    <2>2. CASE x \in allocs
      <3>1. y # b
        BY <1>3, <2>2
      <3>2. QED BY <1>7, <2>2, <3>1 DEF Inside
    <2>3. QED BY <2>1, <2>2
  <1>8. QED BY <1>5, <1>6, <1>7 DEF Good

\* The block of a live allocation.
LEMMA LiveBlock ==
    ASSUME NEW heap, NEW allocs, Good(heap, allocs), NEW a \in allocs
    PROVE  /\ a \in LiveRecord
           /\ \E h \in heap.blocks : a.raw = h.at + HDR_SIZE /\ BlockOf(heap, a.raw) = h
  <1>1. a \in LiveRecord /\ HeapOK(heap)
    BY DEF Good, LiveOK, LiveRecord
  <1>2. PICK h \in heap.blocks : h.at + HDR_SIZE = a.raw
    BY DEF Good, LiveOK
  <1>3. BlockOf(heap, a.raw) = h
    BY <1>1, <1>2, FreeOK
  <1>4. QED BY <1>1, <1>2, <1>3

\* A live allocation freed.
LEMMA LiveFree ==
    ASSUME NEW heap, NEW allocs, Good(heap, allocs), NEW a \in allocs
    PROVE  /\ Good(kfree(heap, a.raw), allocs \ {a})
           /\ Inside(heap, allocs) => Inside(kfree(heap, a.raw), allocs \ {a})
  <1>0. /\ HeapOK(heap) /\ LiveOK(heap, allocs) /\ Cardinality(heap.blocks) = Cardinality(allocs)
        /\ heap.blocks \subseteq Header /\ IsFiniteSet(heap.blocks) /\ IsFiniteSet(allocs)
        /\ ToSet(heap.free_list) \subseteq Header /\ Tiled(ToSet(heap.free_list) \cup heap.blocks)
    BY HeapFacts DEF Good, LiveOK
  <1>1. PICK h \in heap.blocks : a.raw = h.at + HDR_SIZE
    BY LiveBlock
  <1>2. PICK next : next = kfree(heap, a.raw)
    OBVIOUS
  <1>3. HeapOK(next) /\ next.blocks = heap.blocks \ {h}
    BY <1>0, <1>1, <1>2, FreeOK
  <1>4. \A x \in heap.blocks : x.at + HDR_SIZE = a.raw => x = h
    <2> SUFFICES ASSUME NEW x \in heap.blocks, x.at + HDR_SIZE = a.raw PROVE x = h
      OBVIOUS
    <2>1. x.at \in Nat /\ h.at \in Nat
      BY <1>0, HeaderFacts
    <2>2. x.at = h.at
      BY <1>1, <2>1, Constants
    <2>3. QED BY <1>0, <2>2, ByAddress
  <1>5. LiveOK(next, allocs \ {a})
    <2>1. IsFiniteSet(allocs \ {a})
      BY <1>0, FS_RemoveElement
    <2>2. \A x \in allocs : \E b \in heap.blocks : b.at + HDR_SIZE = x.raw
      BY <1>0 DEF LiveOK
    <2>3. \A x \in allocs : x.raw = a.raw => x = a
      BY <1>0 DEF LiveOK
    <2>4. \A x \in allocs \ {a} : \E b \in next.blocks : b.at + HDR_SIZE = x.raw
      BY <1>1, <1>3, <2>2, <2>3
    <2>5. \A b \in next.blocks : \E x \in allocs \ {a} : b.at + HDR_SIZE = x.raw
      BY <1>0, <1>3, <1>4 DEF LiveOK
    <2>6. QED BY <1>0, <2>1, <2>4, <2>5 DEF LiveOK
  <1>6. Cardinality(next.blocks) = Cardinality(allocs \ {a})
    <2>1. Cardinality(allocs \ {a}) = Cardinality(allocs) - 1
      BY <1>0, FS_RemoveElement
    <2>2. Cardinality(heap.blocks \ {h}) = Cardinality(heap.blocks) - 1
      BY <1>0, FS_RemoveElement
    <2>3. QED BY <1>0, <1>3, <2>1, <2>2
  <1>7. Inside(heap, allocs) => Inside(next, allocs \ {a})
    BY <1>3 DEF Inside
  <1>8. QED BY <1>2, <1>3, <1>5, <1>6, <1>7 DEF Good

\* A live allocation resized in place.
LEMMA LiveResize ==
    ASSUME NEW heap, NEW allocs, Good(heap, allocs), NEW a \in allocs, NEW size \in 0 .. U32 - 1,
           NEW c, c = [a EXCEPT !.size = size]
    PROVE  /\ Good(heap, (allocs \ {a}) \cup {c})
           /\ Inside(heap, allocs) /\ Fitted(c, BlockOf(heap, a.raw))
                => Inside(heap, (allocs \ {a}) \cup {c})
  <1>0. /\ HeapOK(heap) /\ LiveOK(heap, allocs) /\ Cardinality(heap.blocks) = Cardinality(allocs)
        /\ IsFiniteSet(allocs)
    BY DEF Good, LiveOK
  <1>1. a \in LiveRecord /\ c \in LiveRecord /\ c.raw = a.raw /\ c.ptr = a.ptr
    BY LiveBlock DEF LiveRecord
  <1>2. \A x \in allocs : x.raw = a.raw => x = a
    BY <1>0 DEF LiveOK
  <1>3. c \notin allocs \ {a}
    BY <1>1, <1>2
  <1>4. IsFiniteSet(allocs \ {a}) /\ Cardinality(allocs \ {a}) = Cardinality(allocs) - 1
    BY <1>0, FS_RemoveElement
  <1>5. /\ IsFiniteSet((allocs \ {a}) \cup {c})
        /\ Cardinality((allocs \ {a}) \cup {c}) = Cardinality(allocs \ {a}) + 1
    BY <1>3, <1>4, FS_AddElement
  <1>6. Cardinality(allocs) \in Nat
    BY <1>0, FS_CardinalityType
  <1>7. Cardinality((allocs \ {a}) \cup {c}) = Cardinality(allocs)
    BY <1>4, <1>5, <1>6
  <1>8. LiveOK(heap, (allocs \ {a}) \cup {c})
    BY <1>0, <1>1, <1>2, <1>5 DEF LiveOK, LiveRecord
  <1>9. \A b \in heap.blocks : b.at + HDR_SIZE = a.raw => b = BlockOf(heap, a.raw)
    BY <1>0, FreeOK
  <1>10. QED BY <1>0, <1>1, <1>7, <1>8, <1>9 DEF Good, Inside

-----------------------------------------------------------------------------
(* The calls.                                                              *)

\* An allocation of kmalloc, aligned or not: nothing changes, or the heap has a
\* new block and the client an allocation that starts in it.
LEMMA CallMalloc ==
    ASSUME NEW heap, NEW allocs, Good(heap, allocs), NEW total \in 0 .. U32 - 1,
           NEW m, m = kmalloc(heap, total), NEW ptr, NEW size \in 0 .. U32 - 1,
           m.ptr = nullptr => ptr = nullptr,
           m.ptr # nullptr => ptr \in Nat /\ ptr >= m.ptr
    PROVE  /\ Good(m.heap, allocs \cup Given(ptr, m.ptr, size))
           /\ m.ptr # nullptr => \A a \in allocs : a.raw # m.ptr
           /\ /\ Inside(heap, allocs) /\ total + KHEAP_ALIGN <= U32
              /\ m.ptr # nullptr => ptr + size <= m.ptr + total
              => Inside(m.heap, allocs \cup Given(ptr, m.ptr, size))
  <1>0. HeapOK(heap)
    BY DEF Good
  <1>1. CASE m.heap = heap /\ m.ptr = nullptr
    <2>1. Given(ptr, m.ptr, size) = {}
      BY <1>1 DEF Given
    <2>2. allocs \cup Given(ptr, m.ptr, size) = allocs
      BY <2>1
    <2>3. QED BY <1>1, <2>2
  <1>2. ASSUME HeapOK(m.heap), NEW b \in Header,
               m.heap.blocks = heap.blocks \cup {b}, b \notin heap.blocks,
               m.ptr = b.at + HDR_SIZE, b.size >= Round(total),
               \A c \in heap.blocks : c.at # b.at
        PROVE  /\ Good(m.heap, allocs \cup Given(ptr, m.ptr, size))
               /\ \A a \in allocs : a.raw # m.ptr
               /\ /\ Inside(heap, allocs) /\ total + KHEAP_ALIGN <= U32
                  /\ m.ptr # nullptr => ptr + size <= m.ptr + total
                  => Inside(m.heap, allocs \cup Given(ptr, m.ptr, size))
    <2>1. b.at \in Nat /\ b.size \in Nat /\ m.ptr \in Nat /\ m.ptr > 0
      BY <1>2, HeaderFacts, Constants
    <2>2. ptr \in Nat /\ ptr >= m.ptr /\ m.ptr # nullptr
      BY <2>1 DEF nullptr
    <2> DEFINE a == [ptr |-> ptr, raw |-> m.ptr, size |-> size]
    <2>3. a \in LiveRecord /\ a.raw = b.at + HDR_SIZE /\ Given(ptr, m.ptr, size) = {a}
      BY <1>2, <2>1, <2>2 DEF LiveRecord, Given, nullptr
    <2>4. a.raw = m.ptr /\ a.ptr = ptr /\ a.size = size
      OBVIOUS
    <2> HIDE DEF a
    <2>5. ASSUME total + KHEAP_ALIGN <= U32, ptr + size <= m.ptr + total PROVE Fitted(a, b)
      <3>1. Round(total) >= total /\ Round(total) \in Nat
        BY <2>5, RoundFacts
      <3>2. QED BY <1>2, <2>1, <2>2, <2>4, <2>5, <3>1, Constants DEF Fitted, End
    <2>6. /\ Good(m.heap, allocs \cup {a})
          /\ Inside(heap, allocs) /\ Fitted(a, b) => Inside(m.heap, allocs \cup {a})
      BY <1>2, <2>3, LiveAdd
    <2>7. ASSUME NEW c \in allocs PROVE c.raw # m.ptr
      <3>1. PICK h \in heap.blocks : c.raw = h.at + HDR_SIZE
        BY LiveBlock
      <3>2. h.at \in Nat /\ h.at # b.at
        BY <1>0, <1>2, HeapFacts, HeaderFacts
      <3>3. QED BY <1>2, <2>1, <3>1, <3>2, Constants
    <2>8. QED BY <2>2, <2>3, <2>5, <2>6, <2>7
  <1>3. QED
    <2>1. \/ m.heap = heap /\ m.ptr = nullptr
          \/ /\ HeapOK(m.heap)
             /\ \E b \in Header :
                   /\ m.heap.blocks = heap.blocks \cup {b} /\ b \notin heap.blocks
                   /\ m.ptr = b.at + HDR_SIZE /\ b.size >= Round(total)
                   /\ \A c \in heap.blocks : c.at # b.at
      BY <1>0, MallocOK
    <2>2. QED BY <1>1, <1>2, <2>1

\* Rounding an address up moves it by less than the alignment.
LEMMA AlignFacts ==
    ASSUME NEW a \in Nat, NEW alignment \in Nat \ {0}
    PROVE  /\ AlignUp(a, alignment) \in Nat
           /\ a <= AlignUp(a, alignment) /\ AlignUp(a, alignment) < a + alignment
  <1> DEFINE n == a + alignment - 1
             q == n \div alignment
             r == n % alignment
  <1>1. n \in Nat
    OBVIOUS
  <1> HIDE DEF n
  <1>2. q \in Nat /\ r \in 0 .. alignment - 1 /\ n = alignment * q + r
    BY <1>1
  <1>3. AlignUp(a, alignment) = q * alignment
    BY DEF AlignUp, n
  <1> HIDE DEF q, r
  <1>4. q * alignment = alignment * q /\ alignment * q \in Nat
    BY <1>2
  <1> DEFINE p == alignment * q
  <1> HIDE DEF p
  <1>5. p \in Nat /\ n = p + r /\ AlignUp(a, alignment) = p
    BY <1>2, <1>3, <1>4 DEF p
  <1>6. QED BY <1>2, <1>5 DEF n

\* No request is so large that rounding it, or adding the padding and the
\* stored pointer to it, wraps at U32.
NoWrap ==
    /\ \A s \in Sizes : s + KHEAP_ALIGN <= U32
    /\ \A s \in AlignedSizes :
          s[1] + (IF s[2] < KHEAP_ALIGN THEN KHEAP_ALIGN ELSE s[2]) + META_SIZE + KHEAP_ALIGN <= U32

\* kmalloc's own pointer.
LEMMA PlainMalloc ==
    ASSUME NEW heap, NEW allocs, Good(heap, allocs), NEW size \in 0 .. U32 - 1,
           NEW m, m = kmalloc(heap, size)
    PROVE  /\ Good(m.heap, allocs \cup Given(m.ptr, m.ptr, size))
           /\ m.ptr # nullptr => \A a \in allocs : a.raw # m.ptr
           /\ Inside(heap, allocs) /\ size + KHEAP_ALIGN <= U32
                => Inside(m.heap, allocs \cup Given(m.ptr, m.ptr, size))
  <1>1. PICK ptr : ptr = m.ptr
    OBVIOUS
  <1>2. ptr \in Nat
    <2>1. HeapOK(heap)
      BY DEF Good
    <2>2. m.ptr = nullptr \/ \E b \in Header : m.ptr = b.at + HDR_SIZE
      BY <2>1, MallocOK
    <2>3. QED BY <1>1, <2>2, HeaderFacts, Constants DEF nullptr
  <1>3. ptr >= m.ptr /\ ptr + size <= m.ptr + size
    BY <1>1, <1>2
  <1>4. /\ Good(m.heap, allocs \cup Given(ptr, m.ptr, size))
        /\ m.ptr # nullptr => \A a \in allocs : a.raw # m.ptr
        /\ /\ Inside(heap, allocs) /\ size + KHEAP_ALIGN <= U32
           /\ m.ptr # nullptr => ptr + size <= m.ptr + size
           => Inside(m.heap, allocs \cup Given(ptr, m.ptr, size))
    BY <1>1, <1>2, <1>3, CallMalloc
  <1>5. Given(ptr, m.ptr, size) = Given(m.ptr, m.ptr, size)
    BY <1>1
  <1>6. QED BY <1>3, <1>4, <1>5

\* kmalloc
LEMMA MallocStep ==
    ASSUME HeapInv, NEW size \in Sizes, Malloc(size)
    PROVE  HeapInv' /\ (InsideInv /\ NoWrap => InsideInv')
  <1>1. PICK m : m = kmalloc(g_kheap, size)
    OBVIOUS
  <1>2. g_kheap' = m.heap /\ live' = live \cup Given(m.ptr, m.ptr, size)
    BY <1>1 DEF Malloc
  <1>3. size \in 0 .. U32 - 1 /\ Good(g_kheap, live)
    BY HeapConstants DEF HeapInv
  <1>4. /\ Good(m.heap, live \cup Given(m.ptr, m.ptr, size))
        /\ Inside(g_kheap, live) /\ size + KHEAP_ALIGN <= U32
             => Inside(m.heap, live \cup Given(m.ptr, m.ptr, size))
    BY <1>1, <1>3, PlainMalloc
  <1>5. QED BY <1>2, <1>4 DEF HeapInv, InsideInv, NoWrap

\* kmalloc_aligned
LEMMA AlignedStep ==
    ASSUME HeapInv, NEW s \in AlignedSizes, kmalloc_aligned(s[1], s[2])
    PROVE  HeapInv' /\ (InsideInv /\ NoWrap => InsideInv')
  <1> DEFINE size == s[1]
             asked == s[2]
             alignment == IF asked < KHEAP_ALIGN THEN KHEAP_ALIGN ELSE asked
             total == AlignedTotal(size, alignment)
  <1>0. size \in 0 .. U32 - 1 /\ asked \in 0 .. U32 - 1 /\ Good(g_kheap, live)
    BY HeapConstants DEF HeapInv
  <1>1. alignment \in Nat \ {0}
    BY <1>0, Constants
  <1>2. PICK m : m = kmalloc(g_kheap, total)
    OBVIOUS
  <1>3. PICK ptr : ptr = IF m.ptr = nullptr THEN nullptr ELSE AlignUp(m.ptr + META_SIZE, alignment)
    OBVIOUS
  <1>4. \/ UNCHANGED vars
        \/ g_kheap' = m.heap /\ live' = live \cup Given(ptr, m.ptr, size)
    BY <1>2, <1>3 DEF kmalloc_aligned
  <1>5. NoWrap => size + alignment + META_SIZE + KHEAP_ALIGN <= U32
    BY DEF NoWrap
  <1> HIDE DEF size, asked, alignment
  <1>6. total \in 0 .. U32 - 1 /\ (NoWrap => total = size + alignment + META_SIZE)
    BY <1>0, <1>1, <1>5, Constants DEF AlignedTotal
  <1> HIDE DEF total
  <1>7. m.ptr \in Nat
    <2>1. HeapOK(g_kheap)
      BY <1>0 DEF Good
    <2>2. m.ptr = nullptr \/ \E b \in Header : m.ptr = b.at + HDR_SIZE
      BY <1>2, <1>6, <2>1, MallocOK
    <2>3. QED BY <2>2, HeaderFacts, Constants DEF nullptr
  <1>8. m.ptr # nullptr => /\ ptr \in Nat /\ ptr >= m.ptr
                           /\ ptr < m.ptr + META_SIZE + alignment
    <2>1. m.ptr + META_SIZE \in Nat
      BY <1>7, Constants
    <2>2. /\ AlignUp(m.ptr + META_SIZE, alignment) \in Nat
          /\ m.ptr + META_SIZE <= AlignUp(m.ptr + META_SIZE, alignment)
          /\ AlignUp(m.ptr + META_SIZE, alignment) < m.ptr + META_SIZE + alignment
      BY <1>1, <2>1, AlignFacts
    <2>3. QED BY <1>1, <1>3, <1>7, <2>2, Constants
  <1>9. NoWrap /\ m.ptr # nullptr => ptr + size <= m.ptr + total
    BY <1>0, <1>1, <1>6, <1>7, <1>8, Constants
  <1>10. /\ Good(m.heap, live \cup Given(ptr, m.ptr, size))
         /\ Inside(g_kheap, live) /\ NoWrap => Inside(m.heap, live \cup Given(ptr, m.ptr, size))
    <2>1. m.ptr = nullptr => ptr = nullptr
      BY <1>3
    <2>2. NoWrap => total + KHEAP_ALIGN <= U32
      BY <1>5, <1>6
    <2>3. QED BY <1>0, <1>2, <1>6, <1>8, <1>9, <2>1, <2>2, CallMalloc
  <1>11. QED BY <1>4, <1>10 DEF HeapInv, InsideInv, vars

\* krealloc
LEMMA ReallocStep ==
    ASSUME HeapInv, NEW a \in live, NEW size \in Sizes, krealloc(a, size)
    PROVE  HeapInv' /\ (InsideInv /\ NoWrap /\ ~ ReallocAligned => InsideInv')
  <1>0. size \in 0 .. U32 - 1 /\ Good(g_kheap, live)
    BY HeapConstants DEF HeapInv
  <1>1. PICK m : m = kmalloc(g_kheap, size)
    OBVIOUS
  <1>2. CASE g_kheap' = kfree(g_kheap, a.raw) /\ live' = live \ {a}
    BY <1>0, <1>2, LiveFree DEF HeapInv, InsideInv
  <1>3. CASE /\ BlockOf(g_kheap, a.raw).size >= Round(size)
             /\ live' = (live \ {a}) \cup {[a EXCEPT !.size = size]}
             /\ UNCHANGED g_kheap
    <2>1. PICK c : c = [a EXCEPT !.size = size]
      OBVIOUS
    <2>2. a \in LiveRecord
      BY <1>0, LiveBlock
    <2>3. c.raw = a.raw /\ c.ptr = a.ptr /\ c.size = size /\ a.raw \in Nat
      BY <2>1, <2>2 DEF LiveRecord
    <2>4. ASSUME NoWrap, ~ ReallocAligned PROVE Fitted(c, BlockOf(g_kheap, a.raw))
      <3>1. PICK h \in g_kheap.blocks : a.raw = h.at + HDR_SIZE /\ BlockOf(g_kheap, a.raw) = h
        BY <1>0, LiveBlock
      <3>2. h \in Header
        BY <1>0, HeapFacts DEF Good
      <3>3. h.at \in Nat /\ h.size \in Nat
        BY <3>2, HeaderFacts
      <3>4. a.ptr = a.raw
        BY <2>4 DEF krealloc
      <3>5. Round(size) >= size /\ Round(size) \in Nat
        BY <1>0, <2>4, RoundFacts DEF NoWrap
      <3>6. h.size >= size
        BY <1>0, <1>3, <3>1, <3>3, <3>5
      <3>7. QED BY <1>0, <2>3, <3>1, <3>3, <3>4, <3>6, Constants DEF Fitted, End
    <2>5. /\ Good(g_kheap, (live \ {a}) \cup {c})
          /\ Inside(g_kheap, live) /\ Fitted(c, BlockOf(g_kheap, a.raw))
               => Inside(g_kheap, (live \ {a}) \cup {c})
      BY <1>0, <2>1, LiveResize
    <2>6. g_kheap' = g_kheap /\ live' = (live \ {a}) \cup {c}
      BY <1>3, <2>1
    <2>7. QED BY <2>4, <2>5, <2>6 DEF HeapInv, InsideInv
  <1>4. CASE UNCHANGED vars
    BY <1>4 DEF HeapInv, InsideInv, vars
  <1>5. CASE /\ m.ptr # nullptr
             /\ g_kheap' = kfree(m.heap, a.raw)
             /\ live' = (live \ {a}) \cup Given(m.ptr, m.ptr, size)
    <2>2. PICK both : both = live \cup Given(m.ptr, m.ptr, size)
      OBVIOUS
    <2>3. /\ Good(m.heap, both) /\ \A c \in live : c.raw # m.ptr
          /\ Inside(g_kheap, live) /\ size + KHEAP_ALIGN <= U32 => Inside(m.heap, both)
      BY <1>0, <1>1, <1>5, <2>2, PlainMalloc
    <2>4. live' = both \ {a} /\ a \in both
      BY <1>5, <2>2, <2>3 DEF Given
    <2>5. /\ Good(kfree(m.heap, a.raw), both \ {a})
          /\ Inside(m.heap, both) => Inside(kfree(m.heap, a.raw), both \ {a})
      BY <2>3, <2>4, LiveFree
    <2>6. NoWrap => size + KHEAP_ALIGN <= U32
      BY DEF NoWrap
    <2>7. QED BY <1>5, <2>3, <2>4, <2>5, <2>6 DEF HeapInv, InsideInv
  <1>6. QED BY <1>1, <1>2, <1>3, <1>4, <1>5 DEF krealloc, Moved

\* Any step.
LEMMA HeapStep ==
    HeapInv /\ [Next]_vars => HeapInv' /\ (InsideInv /\ NoWrap /\ ~ ReallocAligned => InsideInv')
  <1> SUFFICES ASSUME HeapInv, [Next]_vars
               PROVE  HeapInv' /\ (InsideInv /\ NoWrap /\ ~ ReallocAligned => InsideInv')
    OBVIOUS
  <1>1. ASSUME NEW size \in Sizes, Malloc(size)
        PROVE  HeapInv' /\ (InsideInv /\ NoWrap => InsideInv')
    BY <1>1, MallocStep
  <1>2. ASSUME NEW s \in AlignedSizes, kmalloc_aligned(s[1], s[2])
        PROVE  HeapInv' /\ (InsideInv /\ NoWrap => InsideInv')
    BY <1>2, AlignedStep
  <1>3. ASSUME NEW a \in live, Free(a) PROVE HeapInv' /\ (InsideInv => InsideInv')
    BY <1>3, LiveFree DEF Free, HeapInv, InsideInv
  <1>4. ASSUME NEW a \in live, NEW size \in Sizes, krealloc(a, size)
        PROVE  HeapInv' /\ (InsideInv /\ NoWrap /\ ~ ReallocAligned => InsideInv')
    BY <1>4, ReallocStep
  <1>5. CASE UNCHANGED vars
    BY <1>5 DEF HeapInv, InsideInv, vars
  <1>6. QED BY <1>1, <1>2, <1>3, <1>4, <1>5 DEF Next

\* The heap as it starts.
LEMMA HeapInit == Init => HeapInv /\ InsideInv
  <1> SUFFICES ASSUME Init PROVE HeapInv /\ InsideInv
    OBVIOUS
  <1> DEFINE h == [at |-> KHEAP_BASE, size |-> KHEAP_SIZE - HDR_SIZE]
  <1>1. g_kheap = [free_list |-> <<h>>, blocks |-> {}, used |-> 0] /\ live = {}
    BY DEF Init
  <1>2. h \in Header /\ h.at = KHEAP_BASE /\ End(h) = KHEAP_BASE + KHEAP_SIZE
    BY Constants DEF Header, End
  <1> HIDE DEF h
  <1>3. <<h>> \in Seq(Header) /\ Len(<<h>>) = 1 /\ ToSet(<<h>>) = {h}
    BY <1>2 DEF ToSet
  <1>4. Ascending(<<h>>)
    BY <1>3 DEF Ascending
  <1>5. Tiled({h} \cup {})
    BY <1>2, Constants DEF Tiled, Region
  <1>6. Lent({}) = {} /\ Cardinality({}) = 0 /\ IsFiniteSet({})
    BY FS_EmptySet DEF Lent
  <1>7. HeapOK([free_list |-> <<h>>, blocks |-> {}, used |-> 0])
    BY <1>3, <1>4, <1>5, <1>6, MakeHeap
  <1>8. LiveOK(g_kheap, live)
    BY <1>1, <1>6 DEF LiveOK
  <1>9. QED BY <1>1, <1>6, <1>7, <1>8 DEF HeapInv, InsideInv, Good, Inside

\* HeapInv is an inductive invariant of the heap: whatever the callers ask for
\* and in whatever order they free it.
THEOREM HeapInductive == Spec => []HeapInv
  <1>1. QED BY HeapInit, HeapStep, PTL DEF Spec

-----------------------------------------------------------------------------
(* What the runs check of the heap.                                        *)

\* The sum of the sizes of blocks that do not overlap is the number of words
\* they lend.
LEMMA SumOfSizes ==
    ASSUME NEW S, S \subseteq Header, IsFiniteSet(S),
           \A b \in S : KHEAP_BASE <= b.at /\ End(b) <= KHEAP_BASE + KHEAP_SIZE,
           \A b, c \in S : b # c => Apart(b, c)
    PROVE  MapThenSumSet(LAMBDA b : b.size, S) = Cardinality(Lent(S))
  <1> DEFINE Pick(s) == CHOOSE x \in s : TRUE
             Body(f) == [s \in SUBSET S |-> IF s = {} THEN 0 ELSE Pick(s).size + f[s \ {Pick(s)}]]
             iter == CHOOSE f : f = Body(f)
             g == [s \in SUBSET S |-> Cardinality(Lent(s))]
  <1>1. MapThenSumSet(LAMBDA b : b.size, S) = iter[S]
    BY DEF MapThenSumSet, MapThenFoldSet
  <1>2. \A s \in SUBSET S : s # {} => Pick(s) \in s
    OBVIOUS
  <1> HIDE DEF Pick
  <1>3. \A s \in SUBSET S : s # {} => g[s] = Pick(s).size + g[s \ {Pick(s)}]
    <2> SUFFICES ASSUME NEW s \in SUBSET S, s # {} PROVE g[s] = Pick(s).size + g[s \ {Pick(s)}]
      OBVIOUS
    <2>1. PICK x : x = Pick(s)
      OBVIOUS
    <2>2. x \in s /\ x \in Header /\ x.size \in Nat
      BY <1>2, <2>1, HeaderFacts
    <2>3. PICK t : t = s \ {x}
      OBVIOUS
    <2>4. t \in SUBSET S /\ t \subseteq Header /\ x \notin t /\ t \cup {x} = s
      BY <2>2, <2>3
    <2>5. \A c \in t : Apart(x, c)
      BY <2>2, <2>4
    <2>6. Cardinality(Lent(t \cup {x})) = Cardinality(Lent(t)) + x.size
      BY <2>2, <2>4, <2>5, LentAdd
    <2>7. Cardinality(Lent(t)) \in Nat
      BY LentFinite
    <2>8. g[s] = Cardinality(Lent(s)) /\ g[t] = Cardinality(Lent(t))
      BY <2>4
    <2> HIDE DEF g
    <2>9. g[s] = x.size + g[t]
      <3>1. PICK n : n = Cardinality(Lent(t))
        OBVIOUS
      <3>2. g[t] = n /\ n \in Nat
        BY <2>7, <2>8, <3>1
      <3>3. g[s] = n + x.size
        BY <2>4, <2>6, <2>8, <3>1, Zenon
      <3>4. QED BY <2>2, <3>2, <3>3
    <2>10. QED BY <2>1, <2>3, <2>9
  <1>4. g[{}] = 0
    <2>1. Lent({}) = {}
      BY DEF Lent
    <2>2. QED BY <2>1, FS_EmptySet
  <1>5. g = Body(g)
    BY <1>3, <1>4
  <1>6. iter = Body(iter)
    <2> HIDE DEF Body, g
    <2>1. \E f : f = Body(f)
      BY <1>5
    <2>2. QED BY <2>1
  <1> HIDE DEF iter, g
  <1>7. /\ iter[{}] = 0
        /\ \A s \in SUBSET S : s # {} => iter[s] = Pick(s).size + iter[s \ {Pick(s)}]
    BY <1>6
  <1> HIDE DEF Body
  <1> DEFINE Bad == {n \in Nat : \E s \in SUBSET S : Cardinality(s) = n /\ iter[s] # g[s]}
  <1>8. ASSUME Bad # {} PROVE FALSE
    <2>1. PICK n \in Bad : \A k \in Bad : n <= k
      BY <1>8, LeastNatural
    <2>2. PICK s \in SUBSET S : Cardinality(s) = n /\ iter[s] # g[s]
      BY <2>1
    <2>3. s # {} /\ IsFiniteSet(s) /\ n \in Nat
      BY <1>4, <1>7, <2>1, <2>2, FS_Subset
    <2>4. PICK x : x = Pick(s)
      OBVIOUS
    <2>5. PICK t : t = s \ {x}
      OBVIOUS
    <2>6. x \in s /\ t \in SUBSET S
      BY <1>2, <2>3, <2>4, <2>5
    <2>7. Cardinality(t) = n - 1 /\ Cardinality(t) \in Nat
      BY <2>2, <2>3, <2>5, <2>6, FS_RemoveElement, FS_CardinalityType
    <2>8. Cardinality(t) \notin Bad
      BY <2>1, <2>3, <2>7
    <2>9. iter[t] = g[t]
      BY <2>6, <2>7, <2>8
    <2>10. QED BY <1>3, <1>7, <2>2, <2>3, <2>4, <2>5, <2>9
  <1>9. Cardinality(S) \in Nat
    BY FS_CardinalityType
  <1>10. iter[S] = g[S]
    BY <1>8, <1>9
  <1>11. QED BY <1>1, <1>10 DEF g

\* A good heap tiles its region and counts the words in use.
LEMMA GoodBlocks == HeapInv => BlocksOK
  <1> SUFFICES ASSUME HeapInv PROVE BlocksOK
    OBVIOUS
  <1>1. HeapOK(g_kheap) /\ LiveOK(g_kheap, live)
    BY DEF HeapInv, Good
  <1> DEFINE H == Headers
  <1>2. /\ Tiled(H) /\ H \subseteq Header /\ g_kheap.blocks \subseteq H
        /\ g_kheap.blocks \subseteq Header /\ IsFiniteSet(g_kheap.blocks)
        /\ g_kheap.used = Cardinality(Lent(g_kheap.blocks)) /\ g_kheap.free_list \in Seq(Header)
    BY <1>1, HeapFacts DEF Headers
  <1> HIDE DEF H
  <1>3. TypeOK
    <2>1. g_kheap.used \in 0 .. KHEAP_SIZE
      BY <1>2, LentFinite
    <2>2. QED BY <1>1, <1>2, <2>1 DEF TypeOK, LiveOK, Header
  <1>4. \A b \in H : /\ Extent(b) \subseteq Region
                     /\ \A w \in Region : w \in Extent(b) <=> b.at <= w /\ w < End(b)
    <2> SUFFICES ASSUME NEW b \in H
                 PROVE  /\ Extent(b) \subseteq Region
                        /\ \A w \in Region : w \in Extent(b) <=> b.at <= w /\ w < End(b)
      OBVIOUS
    <2>1. b.at \in Nat /\ End(b) \in Nat /\ Extent(b) = b.at .. End(b) - 1
      <3>1. b.at \in Nat /\ b.size \in Nat /\ End(b) \in Nat
        BY <1>2, HeaderFacts
      <3>2. b.at + HDR_SIZE + b.size - 1 = End(b) - 1
        BY <3>1, Constants DEF End
      <3>3. QED BY <3>1, <3>2 DEF Extent
    <2>2. KHEAP_BASE <= b.at /\ End(b) <= KHEAP_BASE + KHEAP_SIZE
      BY <1>2 DEF Tiled
    <2>3. QED BY <2>1, <2>2, Constants DEF Region
  <1>5. ASSUME NEW w \in Region PROVE Cardinality({b \in H : w \in Extent(b)}) = 1
    <2>1. PICK b \in H : b.at <= w /\ w < End(b)
      BY <1>2 DEF Tiled
    <2>2. \A c \in H : w \in Extent(c) => c = b
      <3> SUFFICES ASSUME NEW c \in H, w \in Extent(c), c # b PROVE FALSE
        OBVIOUS
      <3>1. c.at <= w /\ w < End(c) /\ Apart(b, c) /\ w \in Int
        BY <1>2, <1>4, Constants DEF Tiled, Region
      <3>2. b.at \in Nat /\ End(b) \in Nat /\ c.at \in Nat /\ End(c) \in Nat
        BY <1>2, HeaderFacts
      <3>3. QED BY <2>1, <3>1, <3>2 DEF Apart
    <2>3. w \in Extent(b)
      BY <1>4, <2>1
    <2>4. {c \in H : w \in Extent(c)} = {b}
      BY <2>2, <2>3
    <2>5. QED BY <2>4, FS_Singleton
  <1>6. Tiling
    BY <1>4, <1>5 DEF Tiling, Region, H
  <1>7. UsedCount
    <2>1. /\ \A b \in g_kheap.blocks : KHEAP_BASE <= b.at /\ End(b) <= KHEAP_BASE + KHEAP_SIZE
          /\ \A b, c \in g_kheap.blocks : b # c => Apart(b, c)
      BY <1>2 DEF Tiled
    <2>2. PICK S : S = g_kheap.blocks
      OBVIOUS
    <2>3. MapThenSumSet(LAMBDA b : b.size, S) = Cardinality(Lent(S))
      BY <1>2, <2>1, <2>2, SumOfSizes
    <2>4. QED BY <1>2, <2>2, <2>3 DEF UsedCount
  <1>8. QED BY <1>3, <1>6, <1>7 DEF BlocksOK

\* Free blocks that tile the region alone are one block.
LEMMA OneBlock ==
    ASSUME NEW list \in Seq(Header), Ascending(list), Tiled(ToSet(list))
    PROVE  list = <<[at |-> KHEAP_BASE, size |-> KHEAP_SIZE - HDR_SIZE]>>
  <1> DEFINE T == ToSet(list)
             top == KHEAP_BASE + KHEAP_SIZE
  <1>1. /\ Len(list) \in Nat /\ \A x \in T : \E k \in 1 .. Len(list) : x = list[k]
        /\ \A k \in 1 .. Len(list) : list[k] \in T /\ list[k] \in Header
    BY DEF ToSet
  <1>2. \A x \in T : KHEAP_BASE <= x.at /\ End(x) <= top
    BY DEF Tiled
  <1>3. \A w \in Region : \E x \in T : x.at <= w /\ w < End(x)
    BY DEF Tiled
  <1> HIDE DEF T
  <1>4. \A w \in Region : \E k \in 1 .. Len(list) : list[k].at <= w /\ w < End(list[k])
    BY <1>1, <1>3
  <1>5. \A k \in 1 .. Len(list) : /\ list[k].at \in Nat /\ list[k].size \in Nat
                                  /\ End(list[k]) \in Nat /\ list[k].at < End(list[k])
                                  /\ KHEAP_BASE <= list[k].at /\ End(list[k]) <= top
    BY <1>1, <1>2, HeaderFacts
  <1>6. KHEAP_BASE \in Region /\ top - 1 \in Region
    BY Constants DEF Region
  <1>7. Len(list) >= 1
    BY <1>1, <1>4, <1>6
  <1>8. ASSUME Len(list) >= 2 PROVE FALSE
    <2>1. 1 \in 1 .. Len(list) /\ 2 \in 1 .. Len(list)
      BY <1>1, <1>8
    <2>2. End(list[1]) < list[2].at
      BY <2>1 DEF Ascending
    <2>3. End(list[1]) \in Region
      BY <1>5, <2>1, <2>2, Constants DEF Region
    <2>4. PICK k \in 1 .. Len(list) : list[k].at <= End(list[1]) /\ End(list[1]) < End(list[k])
      BY <1>4, <2>3
    <2>5. k # 1
      BY <1>5, <2>1, <2>4
    <2>6. End(list[1]) < list[k].at
      BY <1>1, <2>1, <2>5 DEF Ascending
    <2>7. QED BY <1>5, <2>1, <2>4, <2>6
  <1>9. Len(list) = 1
    <2>1. ~ (Len(list) >= 2)
      BY <1>8
    <2>2. PICK n \in Nat : n = Len(list)
      BY <1>1
    <2>3. QED BY <1>7, <2>1, <2>2
  <1>10. list[1].at = KHEAP_BASE /\ End(list[1]) = top
    <2>1. list[1].at <= KHEAP_BASE /\ top - 1 < End(list[1])
      BY <1>4, <1>6, <1>9
    <2>2. QED BY <1>5, <1>9, <2>1, Constants
  <1>11. list[1].size = KHEAP_SIZE - HDR_SIZE
    BY <1>5, <1>9, <1>10, Constants DEF End
  <1>12. list[1] = [at |-> KHEAP_BASE, size |-> KHEAP_SIZE - HDR_SIZE]
    BY <1>1, <1>9, <1>10, <1>11 DEF Header
  <1>13. list = <<list[1]>>
    BY <1>9
  <1>14. QED BY <1>12, <1>13

\* For every size of the region, the header and the alignment, and every
\* sequence of kmalloc, kmalloc_aligned, krealloc and kfree: the blocks tile the
\* region, and used is the sum of the used sizes (alloc.c's splits and merges
\* lose and share no word).
THEOREM BlocksAlwaysOK == Spec => []BlocksOK
  <1>1. QED BY HeapInductive, GoodBlocks, PTL

\* The free list is always in address order with no two blocks touching: kfree
\* merges a block with both neighbours in whatever order they are freed.
THEOREM AlwaysCoalesced == Spec => []Coalesced
  <1>1. HeapInv => Coalesced
    <2> SUFFICES ASSUME HeapInv, NEW k \in 1 .. Len(g_kheap.free_list) - 1
                 PROVE  End(g_kheap.free_list[k]) < g_kheap.free_list[k + 1].at
      BY DEF Coalesced, End
    <2>1. Ascending(g_kheap.free_list) /\ g_kheap.free_list \in Seq(Header)
      BY DEF HeapInv, Good, HeapOK
    <2>2. /\ k \in 1 .. Len(g_kheap.free_list) /\ k + 1 \in 1 .. Len(g_kheap.free_list)
          /\ k < k + 1
      BY <2>1
    <2>3. QED BY <2>1, <2>2 DEF Ascending
  <1>2. QED BY <1>1, HeapInductive, PTL

\* No call leaks a block, a krealloc that moves included: the used blocks are as
\* many as the live allocations, and freeing the last gives back the heap of
\* kheap_init.
THEOREM AlwaysReclaimed == Spec => []Reclaimed
  <1>1. HeapInv => Reclaimed
    <2> SUFFICES ASSUME HeapInv PROVE Reclaimed
      OBVIOUS
    <2>1. HeapOK(g_kheap) /\ Cardinality(g_kheap.blocks) = Cardinality(live)
      BY DEF HeapInv, Good
    <2>2. /\ g_kheap.free_list \in Seq(Header) /\ Ascending(g_kheap.free_list)
          /\ IsFiniteSet(g_kheap.blocks) /\ Tiled(ToSet(g_kheap.free_list) \cup g_kheap.blocks)
      BY <2>1, HeapFacts
    <2>3. ASSUME live = {}
          PROVE  g_kheap.free_list = <<[at |-> KHEAP_BASE, size |-> KHEAP_SIZE - HDR_SIZE]>>
      <3>1. g_kheap.blocks = {}
        BY <2>1, <2>2, <2>3, FS_EmptySet
      <3>2. Tiled(ToSet(g_kheap.free_list))
        BY <2>2, <3>1
      <3>3. QED BY <2>2, <3>2, OneBlock
    <2>4. QED BY <2>1, <2>3 DEF Reclaimed
  <1>2. QED BY <1>1, HeapInductive, PTL

\* When no request wraps at U32 and krealloc is called on kmalloc's pointers
\* only, every live allocation lies inside the data of a used block of its own.
THEOREM LiveAlwaysInBlock ==
    ASSUME NoWrap, ~ ReallocAligned
    PROVE  Spec => []LiveInBlock
  <1>1. HeapInv /\ InsideInv => LiveInBlock
    <2> SUFFICES ASSUME HeapInv, InsideInv, NEW a \in live
                 PROVE  /\ \E b \in g_kheap.blocks :
                              /\ b.at = a.raw - HDR_SIZE
                              /\ a.ptr .. a.ptr + a.size - 1 \subseteq DataOf(b)
                        /\ \A c \in live : c.raw = a.raw => c = a
      BY DEF LiveInBlock
    <2>1. Good(g_kheap, live)
      BY DEF HeapInv
    <2>2. PICK b \in g_kheap.blocks : a.raw = b.at + HDR_SIZE
      BY <2>1, LiveBlock
    <2>3. Fitted(a, b)
      BY <2>2 DEF InsideInv, Inside
    <2>4. a \in LiveRecord /\ b \in Header
      BY <2>1, <2>2, LiveBlock, HeapFacts DEF Good
    <2>5. b.at = a.raw - HDR_SIZE
      BY <2>2, <2>4, HeaderFacts, Constants
    <2>6. a.ptr .. a.ptr + a.size - 1 \subseteq DataOf(b)
      BY <2>2, <2>3, <2>4, Constants DEF Fitted, DataOf, End, LiveRecord, Header
    <2>7. \A c \in live : c.raw = a.raw => c = a
      BY <2>1 DEF Good, LiveOK
    <2>8. QED BY <2>5, <2>6, <2>7
  <1>2. HeapInv /\ InsideInv /\ [Next]_vars => (HeapInv /\ InsideInv)'
    BY HeapStep
  <1>3. QED BY <1>1, <1>2, HeapInit, PTL DEF Spec
=============================================================================
