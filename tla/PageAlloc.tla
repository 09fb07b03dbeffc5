----------------------------- MODULE PageAlloc -----------------------------
(***************************************************************************)
(* The physical page allocator of src/kernel/mem/alloc.c.                  *)
(*                                                                         *)
(* A page is its index from ram_base (pa_to_idx / idx_to_pa are the        *)
(* bijection between the two).  The bitmap is the set of indices whose bit *)
(* is 1.  It may grow past TotalPages: the code sets whatever bit its loops*)
(* compute.  The allocator keeps no record of who holds what; held is that *)
(* record, one set of pages for each allocation a client has in hand, and  *)
(* clients give back only pages they hold.  All callers run with IRQs      *)
(* masked, so each operation is one action.                                *)
(***************************************************************************)
EXTENDS Integers, FiniteSets

CONSTANTS
    TotalPages,    \* total_pages
    BitmapRange,   \* the pages mm_init reserves for the bitmap
    HeapRange,     \* and for the kernel heap; may reach past the end of RAM
    Handles,       \* allocations that can be live at once
    RunLengths,    \* the n of mm_page_alloc_n
    Aligned        \* the <<n, align_pages>> of mm_page_alloc_aligned

ASSUME PageConstants ==
    /\ TotalPages \in Nat /\ TotalPages >= 1
    /\ BitmapRange \subseteq Int /\ HeapRange \subseteq Int
    /\ RunLengths \subseteq Nat
    /\ Aligned \subseteq Nat \X Nat

Pages == 0 .. TotalPages - 1
NoIdx == -1              \* U32_MAX of bm_find_free_run

VARIABLES
    bitmap,      \* the pages whose bit is set
    free_pages,  \* the counter
    next_hint,   \* where the next search starts
    reserved,    \* the pages reserve_range marked; reserved_pages counts them
    held,        \* handle -> the pages it holds
    ret          \* how the last call ended

pagesVars == <<bitmap, free_pages, next_hint, reserved, held, ret>>

\* reserve_range: clipped to RAM.
reserve_range(range) == range \cap Pages

\* mm_init.  A page in both ranges is counted once: the bit is tested first.
PagesInit ==
    /\ reserved = reserve_range(BitmapRange) \cup reserve_range(HeapRange)
    /\ bitmap = reserved
    /\ free_pages = TotalPages - Cardinality(reserved)
    /\ next_hint = 0
    /\ held = [h \in Handles |-> {}]
    /\ ret = "ok"

\* The run of n pages that starts at i.
Run(i, n) == i .. i + n - 1

\* Mutant of FirstRun: only the first page of the run is tested.
FirstRunHead(lo, hi, n, i) ==
    /\ i \in lo .. hi - n
    /\ i \notin bitmap
    /\ \A k \in lo .. i - 1 : k \in bitmap

\* Mutant of FirstRun: the run may start anywhere below hi.
FirstRunOver(lo, hi, n, i) ==
    /\ i \in lo .. hi - 1
    /\ Run(i, n) \cap bitmap = {}
    /\ \A k \in lo .. i - 1 : Run(k, n) \cap bitmap # {}

\* i starts the first run of n free pages that lies in lo .. hi - 1.
FirstRun(lo, hi, n, i) ==
    /\ i \in lo .. hi - n
    /\ Run(i, n) \cap bitmap = {}
    /\ \A k \in lo .. i - 1 : Run(k, n) \cap bitmap # {}

NoRun(lo, hi, n) == \A i \in lo .. hi - n : Run(i, n) \cap bitmap # {}

\* Mutant of bm_find_free_run: the search does not wrap.
FindNoWrap(start, n, i) ==
    \/ FirstRun(start, TotalPages, n, i)
    \/ NoRun(start, TotalPages, n) /\ i = NoIdx

\* bm_find_free_run returns i: the first run at or after start, else the first
\* one below start, else none.  A run across start is never found.
bm_find_free_run(start, n, i) ==
    \/ FirstRun(start, TotalPages, n, i)
    \/ /\ NoRun(start, TotalPages, n)
       /\ \/ FirstRun(0, start, n, i)
          \/ NoRun(0, start, n) /\ i = NoIdx

\* Mark the run and move the hint behind it: the end of the three allocators.
Take(h, i, n) ==
    /\ bitmap' = bitmap \cup Run(i, n)
    /\ free_pages' = free_pages - n
    /\ next_hint' = (i + n) % TotalPages
    /\ held' = [held EXCEPT ![h] = Run(i, n)]
    /\ ret' = "ok"
    /\ UNCHANGED reserved

Fail(why) ==
    /\ ret' = why
    /\ UNCHANGED <<bitmap, free_pages, next_hint, reserved, held>>

mm_page_alloc(h) ==
    /\ held[h] = {}
    /\ \/ free_pages = 0 /\ Fail("oom")
       \/ /\ free_pages # 0
          /\ \E i \in Pages \cup {NoIdx} :
                /\ bm_find_free_run(next_hint, 1, i)
                /\ IF i = NoIdx THEN Fail("oom") ELSE Take(h, i, 1)

mm_page_alloc_n(h, n) ==
    /\ held[h] = {}
    /\ \/ (n = 0 \/ free_pages < n) /\ Fail("oom_n")
       \/ /\ n # 0 /\ free_pages >= n
          /\ \E i \in Pages \cup {NoIdx} :
                /\ bm_find_free_run(next_hint, n, i)
                /\ IF i = NoIdx THEN Fail("oom_n") ELSE Take(h, i, n)

\* The candidates of one pass of mm_page_alloc_aligned.
Candidates(lo, hi, n, align) ==
    {i \in lo .. hi - n : (i - lo) % align = 0 /\ Run(i, n) \cap bitmap = {}}

\* The second pass runs up to hint_aligned, which may lie past TotalPages.
mm_page_alloc_aligned(h, n, align) ==
    /\ held[h] = {}
    /\ LET hint_aligned == ((next_hint + align - 1) \div align) * align
           pass1 == Candidates(hint_aligned, TotalPages, n, align)
           pass2 == Candidates(0, hint_aligned, n, align)
           from  == IF pass1 # {} THEN pass1 ELSE pass2
       IN \/ /\ n = 0 \/ align = 0 \/ free_pages < n
             /\ Fail("oom_n")
          \/ /\ n # 0 /\ align # 0 /\ free_pages >= n
             /\ \/ from = {} /\ Fail("oom_n")
                \/ \E i \in from : (\A k \in from : i <= k) /\ Take(h, i, n)

\* Clear one bit and pull the hint back, on the page pg of handle h.  A page
\* outside RAM, or one whose bit is clear, is an error.
mm_page_free(h, pg) ==
    /\ IF pg \in Pages \cap bitmap
         THEN /\ bitmap' = bitmap \ {pg}
              /\ free_pages' = free_pages + 1
              /\ next_hint' = IF pg < next_hint THEN pg ELSE next_hint
              /\ held' = [held EXCEPT ![h] = @ \ {pg}]
              /\ ret' = "ok"
         ELSE /\ ret' = "err"
              /\ UNCHANGED <<bitmap, free_pages, next_hint, held>>
    /\ UNCHANGED reserved

\* mm_page_free_n on the n pages from base: stops at the first free one, with
\* the pages before it already freed and the hint left behind.
mm_page_free_n(h, base, n) ==
    /\ LET freed == {pg \in Run(base, n) : base .. pg \subseteq bitmap}
       IN /\ bitmap' = bitmap \ freed
          /\ free_pages' = free_pages + Cardinality(freed)
          /\ IF freed = Run(base, n)
               THEN /\ ret' = "ok"
                    /\ next_hint' = IF base < next_hint THEN base ELSE next_hint
               ELSE ret' = "err" /\ UNCHANGED next_hint
          /\ held' = [held EXCEPT ![h] = @ \ freed]
    /\ UNCHANGED reserved

\* A client frees one page of an allocation (process_free does so for each
\* page), or a run of pages some of which it may have freed before.
FreeOne == \E h \in Handles : \E pg \in held[h] : mm_page_free(h, pg)
FreeRun == \E h \in Handles, base \in Pages, n \in RunLengths :
               /\ Run(base, n) \cap held[h] # {}
               /\ Run(base, n) \subseteq held[h] \cup (Pages \ bitmap)
               /\ mm_page_free_n(h, base, n)

\* A page is freed again after it was given back: the call reports the error.
FreeAgain == \E h \in Handles, pg \in Pages \ bitmap : mm_page_free(h, pg)

Alloc == \E h \in Handles : mm_page_alloc(h)
AllocN == \E h \in Handles, n \in RunLengths : mm_page_alloc_n(h, n)
AllocAligned == \E h \in Handles, a \in Aligned : mm_page_alloc_aligned(h, a[1], a[2])

PagesNext == Alloc \/ AllocN \/ AllocAligned \/ FreeOne \/ FreeRun \/ FreeAgain

PagesSpec == PagesInit /\ [][PagesNext]_pagesVars

-----------------------------------------------------------------------------
(* Properties.                                                             *)

\* Every variable has its type; the hint never leaves RAM.
PagesTyped ==
    /\ bitmap \subseteq Nat
    /\ free_pages \in Nat
    /\ next_hint \in Pages
    /\ reserved \subseteq Pages
    /\ held \in [Handles -> SUBSET Nat]
    /\ ret \in {"ok", "oom", "oom_n", "err"}

\* No page belongs to two allocations or to an allocation and the reserved
\* memory, however allocations and frees of single pages, runs and aligned
\* runs alternate.
NoSharing ==
    /\ \A g, h \in Handles : g # h => held[g] \cap held[h] = {}
    /\ \A h \in Handles : held[h] \cap reserved = {}

\* The bitmap is exact: a page is marked if and only if it is reserved or held,
\* so nothing leaks and nothing in use is handed out.
BitmapExact == bitmap = reserved \cup UNION {held[h] : h \in Handles}

\* free_pages is the number of unmarked pages, so the early returns that trust
\* it ("free_pages == 0", "free_pages < n") are right.
FreeCount == free_pages = TotalPages - Cardinality(bitmap)

\* However allocations and frees alternate, no page has two owners, the bitmap
\* marks exactly the pages that have one, and the counter and the hint the
\* searches trust agree with it.
PagesOK == PagesTyped /\ NoSharing /\ BitmapExact /\ FreeCount

\* Every page handed out is a page of RAM, as long as the alignments asked for
\* divide the number of pages: the searches end n pages before their limit, on
\* either side of the hint, however allocations and frees have moved it.
InsideRam ==
    (\A a \in Aligned : a[2] = 0 \/ TotalPages % a[2] = 0)
        => \A h \in Handles : held[h] \subseteq Pages

\* mm_page_alloc fails only when every page of RAM is in use.
OomIsReal == [][ret' = "oom" => Pages \subseteq bitmap]_pagesVars
=============================================================================
