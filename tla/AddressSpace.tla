---------------------------- MODULE AddressSpace ----------------------------
(***************************************************************************)
(* The memory of processes: which pages and tables process_create, fork,   *)
(* exec and exit (src/kernel/process.c, llf.c, dev/mmu.c) allocate, map,   *)
(* copy and free, and what the programs find in their pages.               *)
(*                                                                         *)
(* A virtual page is <<mb, i>>: the L1 slot and the index in its L2 table. *)
(* free and objs are what the page allocator and the kernel heap have left.*)
(* Each struct, L1 table, L2 table or LLF buffer is one heap object; the   *)
(* heap fails when none is left.  Which of the free pages or objects an    *)
(* allocator returns makes no difference here: the lowest.  The contents   *)
(* of a page are one value.  The calls run with IRQs masked, one at a time.*)
(***************************************************************************)
EXTENDS Integers, Sequences, SequencesExt, FiniteSets, FiniteSetsExt

CONSTANTS
    Procs,          \* slots of the process table
    Frames, Objs,   \* physical pages, and objects the heap has room for
    Boots,          \* what the boot may have left of both, and the image files
    PROC_VA_MB,     \* L1 slots
    L2_ENTRIES,     \* entries of an L2 table
    StackPages,     \* the initial stack pages, in the order they are mapped
    Images,         \* what exec may be asked to load: is it found and readable,
                    \* and the pages of its segments in order
    Vals,           \* contents of a page
    ImageVal,       \* what llf_load puts there
    MaxDirty        \* bound on the frames that hold anything else after a store

Pages == (0 .. PROC_VA_MB - 1) \X (0 .. L2_ENTRIES - 1)

ASSUME SpaceConstants ==
    /\ Procs \subseteq Nat /\ Procs # {}
    /\ Frames \subseteq Nat /\ Objs \subseteq Nat /\ IsFiniteSet(Objs)
    /\ PROC_VA_MB \in Nat \ {0} /\ L2_ENTRIES \in Nat \ {0}
    /\ StackPages \in Seq(Pages) /\ StackPages # <<>>
    /\ \A j, k \in DOMAIN StackPages :
          StackPages[j][1] = StackPages[k][1] /\ (j # k => StackPages[j] # StackPages[k])
    /\ Images \subseteq [found : BOOLEAN, pages : Seq(Pages)]
    /\ \A img \in Images : ToSet(img.pages) \cap ToSet(StackPages) = {}   \* usr/linker_user.ld
    /\ Boots \subseteq [frames : SUBSET Frames, objs : SUBSET Objs, disk : SUBSET Images]
    /\ ImageVal \in Vals /\ MaxDirty \in Nat

VARIABLES
    phase,   \* "boot", "run" or "off"
    disk,    \* the images there are
    space,   \* slot -> [self, pgd, l2, map]: the struct, the L1 table, the L2
             \* table of each L1 slot and the frame of each page
    live,    \* the slots in use
    free, objs,
    lost,    \* frames and objects that the boot took, or that were allocated
             \* since and that no table leads to
    mem,     \* frame -> contents
    actor,   \* the process that made the last call
    ret      \* how it ended

vars == <<phase, disk, space, live, free, objs, lost, mem, actor, ret>>

Empty == [x \in {} |-> 0]
NoSpace == [self |-> 0, pgd |-> 0, l2 |-> Empty, map |-> Empty]
Bind(f, k, v) == [x \in DOMAIN f \cup {k} |-> IF x = k THEN v ELSE f[x]]
Values(f) == {f[x] : x \in DOMAIN f}

Init ==
    /\ phase = "boot"
    /\ live = {} /\ space = [p \in Procs |-> NoSpace]
    /\ \E boot \in Boots : free = boot.frames /\ objs = boot.objs /\ disk = boot.disk
    /\ lost = [frames |-> Frames \ free, objs |-> Objs \ objs]
    /\ mem = [f \in Frames |-> ImageVal]
    /\ actor = 0 /\ ret = "none"

-----------------------------------------------------------------------------
(* Building an address space.  b is one under construction, together with  *)
(* what the allocators have left; ok is cleared by the first failure, after*)
(* which nothing more is done.                                             *)

Fail(b) == [b EXCEPT !.ok = FALSE]
Blank(frames, objects) ==
    [free |-> frames, objs |-> objects, l2 |-> Empty, map |-> Empty, ok |-> TRUE]

get_or_alloc_l2(b, mb) ==
    CASE mb \in DOMAIN b.l2 -> b
      [] mb \notin DOMAIN b.l2 /\ b.objs = {} -> Fail(b)
      [] mb \notin DOMAIN b.l2 /\ b.objs # {} ->
           [b EXCEPT !.l2 = Bind(@, mb, Min(b.objs)), !.objs = @ \ {Min(b.objs)}]

\* mm_page_alloc and mmu_map_page.
mmu_map_page(b, va) ==
    IF b.free = {} THEN Fail(b)
    ELSE [b EXCEPT !.map = Bind(@, va, Min(b.free)), !.free = @ \ {Min(b.free)}]

\* One turn of the loop of map_pages: a page that is mapped already is skipped.
map_page(b, va) ==
    LET c == get_or_alloc_l2(b, va[1])
    IN IF ~ b.ok THEN b
       ELSE IF ~ c.ok \/ va \in DOMAIN c.map THEN c
       ELSE mmu_map_page(c, va)

map_pages(b, pages) == FoldLeft(map_page, b, pages)

\* load_user_image: the LLF buffer is on the heap while the pages are mapped.
load_user_image(b, img) ==
    IF ~ img.found \/ b.objs = {} THEN Fail(b)
    ELSE LET buf == Min(b.objs)
             c == map_pages([b EXCEPT !.objs = @ \ {buf}], img.pages)
         IN [c EXCEPT !.objs = @ \cup {buf}]

process_add_page(b, va) == IF b.ok THEN mmu_map_page(b, va) ELSE b

setup_initial_stack(b) ==
    FoldLeft(process_add_page, get_or_alloc_l2(b, StackPages[1][1]), StackPages)

\* Mutant of Loaded: TTBR0 is not switched, whoever's pages are there get it.
LoadedInPlace(b, img) ==
    [f \in Frames |->
        IF \E p \in live : \E va \in ToSet(img.pages) \cap DOMAIN space[p].map :
               space[p].map[va] = f
          THEN ImageVal ELSE mem[f]]

\* The contents after llf_load has written the segments of img into b.
Loaded(b, img) ==
    [f \in Frames |-> IF \E va \in ToSet(img.pages) : va \in DOMAIN b.map /\ b.map[va] = f
                        THEN ImageVal ELSE mem[f]]

\* Mutant of FreeTables: the L2 tables are not freed.
FreeTablesL1Only(s, frames, objects) ==
    /\ free' = frames \cup Values(s.map)
    /\ objs' = objects \cup {s.pgd}

\* The walk that frees every mapped page, the L2 tables and the L1 table of s,
\* on top of what the allocators have by then.
FreeTables(s, frames, objects) ==
    /\ free' = frames \cup Values(s.map)
    /\ objs' = objects \cup Values(s.l2) \cup {s.pgd}

\* Mutant of process_free: the struct is not freed.
ProcessFreeTables(s, frames, objects) == FreeTables(s, frames, objects)

\* process_free also frees the struct.
process_free(s, frames, objects) == FreeTables(s, frames, objects \cup {s.self})

\* A call by p that ends in res and leaves the processes alone.
Ends(p, res) == actor' = p /\ ret' = res /\ UNCHANGED <<space, live, lost>>

-----------------------------------------------------------------------------
(* The calls.                                                              *)

\* The struct and the L1 table are what fork and process_create take first.
self == Min(objs)
pgd == Min(objs \ {self})
Shell(b) == [self |-> self, pgd |-> pgd, l2 |-> b.l2, map |-> b.map]

process_create(p, img) ==
    /\ phase = "boot"
    /\ LET loaded == load_user_image(Blank(free, objs \ {self, pgd}), img)
           b == setup_initial_stack(loaded)
       IN \/ /\ Cardinality(objs) < 2                   \* no struct or no L1 table
             /\ phase' = "off" /\ Ends(0, "fail")
             /\ UNCHANGED <<free, objs, mem>>
          \/ /\ Cardinality(objs) >= 2 /\ ~ loaded.ok
             /\ process_free(Shell(loaded), loaded.free, loaded.objs)
             /\ phase' = "off" /\ Ends(0, "fail")
             /\ UNCHANGED mem
          \/ /\ Cardinality(objs) >= 2 /\ loaded.ok /\ ~ b.ok
             /\ process_free(Shell(b), b.free, b.objs)
             /\ mem' = Loaded(loaded, img)
             /\ phase' = "off" /\ Ends(0, "fail")
          \/ /\ Cardinality(objs) >= 2 /\ loaded.ok /\ b.ok
             /\ space' = [space EXCEPT ![p] = Shell(b)] /\ live' = {p}
             /\ free' = b.free /\ objs' = b.objs
             /\ mem' = Loaded(loaded, img)
             /\ phase' = "run" /\ actor' = p /\ ret' = "create"
             /\ UNCHANGED lost
    /\ UNCHANGED disk

\* The entries of the tables in the order the deep copy of fork visits them.
Entries ==
    [k \in 1 .. PROC_VA_MB * L2_ENTRIES |-> <<(k - 1) \div L2_ENTRIES, (k - 1) % L2_ENTRIES>>]

\* One turn of its loops: a table for every slot where s has one, a page for
\* every entry where s has one.
copy_page(s, b, va) ==
    LET c == get_or_alloc_l2(b, va[1])
    IN IF ~ b.ok \/ va[1] \notin DOMAIN s.l2 THEN b
       ELSE IF ~ c.ok \/ va \notin DOMAIN s.map THEN c
       ELSE mmu_map_page(c, va)

copy_pages(b, s) == FoldLeft(LAMBDA x, va : copy_page(s, x, va), b, Entries)

\* Mutant of Copied: the pages are mapped but not copied.
CopiedNothing(b, s) == mem

\* The contents after the pages of s have been copied to those of b.
Copied(b, s) ==
    [f \in Frames |-> IF f \in Values(b.map)
                        THEN mem[s.map[CHOOSE va \in DOMAIN b.map : b.map[va] = f]]
                        ELSE mem[f]]

\* process_fork by p, for the slot c; a full table is found out last.
process_fork(p) ==
    /\ phase = "run" /\ p \in live
    /\ LET b == copy_pages(Blank(free, objs \ {self, pgd}), space[p])
       IN \/ /\ Cardinality(objs) < 2
             /\ Ends(p, "fail") /\ UNCHANGED <<free, objs, mem>>
          \/ /\ Cardinality(objs) >= 2 /\ (~ b.ok \/ live = Procs)
             /\ process_free(Shell(b), b.free, b.objs)
             /\ mem' = Copied(b, space[p])
             /\ Ends(p, "fail")
          \/ /\ Cardinality(objs) >= 2 /\ b.ok /\ live # Procs
             /\ LET c == Min(Procs \ live)
                IN space' = [space EXCEPT ![c] = Shell(b)] /\ live' = live \cup {c}
             /\ free' = b.free /\ objs' = b.objs
             /\ mem' = Copied(b, space[p])
             /\ actor' = p /\ ret' = "fork"
             /\ UNCHANGED lost
    /\ UNCHANGED <<phase, disk>>

\* process_replace by p.  When the image does not load, only the L1 table is
\* freed: what was mapped until then is lost.
process_replace(p, img) ==
    /\ phase = "run" /\ p \in live
    /\ LET old == space[p]
           new_pgd == Min(objs)
           loaded == load_user_image(Blank(free, objs \ {new_pgd}), img)
           b == setup_initial_stack(loaded)
           new == [old EXCEPT !.pgd = new_pgd, !.l2 = b.l2, !.map = b.map]
       IN \/ objs = {} /\ Ends(p, "fail") /\ UNCHANGED <<free, objs, mem>>
          \/ /\ objs # {} /\ ~ loaded.ok
             /\ free' = loaded.free /\ objs' = loaded.objs \cup {new_pgd}
             /\ lost' = [frames |-> lost.frames \cup Values(loaded.map),
                         objs |-> lost.objs \cup Values(loaded.l2)]
             /\ actor' = p /\ ret' = "fail_load"
             /\ UNCHANGED <<space, live, mem>>
          \/ /\ objs # {} /\ loaded.ok /\ ~ b.ok
             /\ FreeTables(new, b.free, b.objs)
             /\ mem' = Loaded(loaded, img)
             /\ Ends(p, "fail")
          \/ /\ objs # {} /\ loaded.ok /\ b.ok
             /\ space' = [space EXCEPT ![p] = new]
             /\ FreeTables(old, b.free, b.objs)
             /\ mem' = Loaded(loaded, img)
             /\ actor' = p /\ ret' = "exec"
             /\ UNCHANGED <<live, lost>>
    /\ UNCHANGED <<phase, disk>>

\* process_exit by p; if nobody else can run, the others being suspended or
\* gone, the machine is switched off.
process_exit(p) ==
    /\ phase = "run" /\ p \in live
    /\ process_free(space[p], free, objs)
    /\ space' = [space EXCEPT ![p] = NoSpace] /\ live' = live \ {p}
    /\ phase' \in IF live = {p} THEN {"off"} ELSE {"run", "off"}
    /\ actor' = p /\ ret' = "exit"
    /\ UNCHANGED <<disk, lost, mem>>

\* The program of p stores into one of its pages.
Store(p) ==
    /\ phase = "run" /\ p \in live
    /\ \E va \in DOMAIN space[p].map, v \in Vals : mem' = [mem EXCEPT ![space[p].map[va]] = v]
    /\ Cardinality({f \in Frames : mem'[f] # ImageVal}) <= MaxDirty
    /\ actor' = p /\ ret' = "store"
    /\ UNCHANGED <<phase, disk, space, live, free, objs, lost>>

Next ==
    \/ \E img \in disk : process_create(Min(Procs), img)
    \/ \E p \in Procs : process_fork(p) \/ process_exit(p) \/ Store(p)
    \/ \E p \in Procs, img \in disk : process_replace(p, img)

Spec == Init /\ [][Next]_vars

-----------------------------------------------------------------------------
(* Properties.                                                             *)

\* Every variable has its type.
TypeOK ==
    /\ phase \in {"boot", "run", "off"}
    /\ disk \subseteq Images
    /\ live \subseteq Procs /\ DOMAIN space = Procs
    /\ \A p \in live :
          /\ DOMAIN space[p].l2 \subseteq 0 .. PROC_VA_MB - 1
          /\ DOMAIN space[p].map \subseteq Pages
          /\ Values(space[p].map) \subseteq Frames
          /\ {space[p].self, space[p].pgd} \cup Values(space[p].l2) \subseteq Objs
    /\ free \subseteq Frames /\ objs \subseteq Objs
    /\ lost.frames \subseteq Frames /\ lost.objs \subseteq Objs
    /\ mem \in [Frames -> Vals]

\* What p's program finds in its memory.
View(p) == [va \in DOMAIN space[p].map |-> mem[space[p].map[va]]]

\* Every frame is free, is mapped at one page of one process, or is one of
\* those the boot took or a failed load lost; never two of them.  So no two
\* processes share a frame, no mapped frame is handed out again, and exit, exec
\* and the failures of fork give back all there is to give back.
FramesAccounted ==
    \A f \in Frames :
        Cardinality({at \in live \X Pages :
                        at[2] \in DOMAIN space[at[1]].map /\ space[at[1]].map[at[2]] = f})
          + Cardinality({f} \cap free) + Cardinality({f} \cap lost.frames) = 1

\* The same for structs and tables on the heap.
ObjsAccounted ==
    \A o \in Objs :
        Cardinality({p \in live : space[p].self = o}) + Cardinality({p \in live : space[p].pgd = o})
          + Cardinality({at \in live \X (0 .. PROC_VA_MB - 1) :
                            at[2] \in DOMAIN space[at[1]].l2 /\ space[at[1]].l2[at[2]] = o})
          + Cardinality({o} \cap objs) + Cardinality({o} \cap lost.objs) = 1

\* Every frame and every object of the heap has one owner.
Accounted == TypeOK /\ FramesAccounted /\ ObjsAccounted

\* Memory is private: a call or a store of one process changes nothing that
\* another process can read.
Private == [][\A p \in live \cap live' : actor' # p => View(p)' = View(p)]_vars

\* A forked child finds what its parent had in its memory, at the same places,
\* and the parent finds it unchanged.
ForkCopies ==
    [][\A c \in live' \ live, p \in live :
          actor' = p => View(c)' = View(p) /\ View(p)' = View(p)]_vars

\* A call that fails changes nothing its caller can read, and, a failed load
\* apart, leaves the allocators with all they had.
FailureHarmless ==
    [][/\ ret' \in {"fail", "fail_load"} => live' = live /\ \A p \in live : View(p)' = View(p)
       /\ ret' = "fail" => free' = free /\ objs' = objs]_vars
=============================================================================
