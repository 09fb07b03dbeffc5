-------------------------------- MODULE Boot --------------------------------
(***************************************************************************)
(* From reset to the first process: boot.s and boot.c, the kernel's        *)
(* translation table (mmu.c), kmain.c with the device tree parser of       *)
(* module Dtb, mm_init (alloc.c), the framebuffer's memory (fb.c), and the *)
(* frames processes take afterwards.                                       *)
(*                                                                         *)
(* Addresses are page numbers; a section is SECTION pages.  l1 is the      *)
(* kernel's first-level table.  mem says what was last written to each     *)
(* physical page, so that a structure is intact while its pages still hold *)
(* it.  A step that touches a page l1 does not map ends in step "fault".   *)
(***************************************************************************)
EXTENDS Dtb

CONSTANTS
    SECTION,                    \* pages of 1 MB
    KERNEL_SEC, DEVICE_SEC,     \* sections of KERNEL_VA and DEVICE_VIRT_BLOCK
    ADDR_PAGES,                 \* pages of the 32-bit address space
    TEXT_END, TT_END, BSS_END,  \* layout of the kernel image, from KERNEL_VA
    EARLY_PAGES,                \* EARLY_HEAP_SIZE in pages
    KHEAP_PAGES, FB_PAGES,      \* KHEAP_SIZE and fb_pages
    PAGES_PER_BITMAP,           \* pages one page of bitmap describes
    INIT_PAGES,                 \* pages of the init process
    MaxUser                     \* bound on the frames processes take

ASSUME BootConstants ==
    /\ {SECTION, PAGES_PER_BITMAP} \subseteq Nat \ {0}
    /\ {KERNEL_SEC, DEVICE_SEC, ADDR_PAGES, TEXT_END, TT_END, BSS_END} \subseteq Nat
    /\ {EARLY_PAGES, KHEAP_PAGES, FB_PAGES, INIT_PAGES, MaxUser} \subseteq Nat
    /\ \A b \in Blobs : b.pages \in Nat /\ b.totalsize <= b.pages * PAGE_WORDS
    /\ W = ADDR_PAGES * PAGE_WORDS
    /\ 0 < TEXT_END /\ TEXT_END < TT_END /\ TT_END < BSS_END
    /\ BSS_END < SECTION - 2
    /\ 0 < INIT_PAGES /\ INIT_PAGES <= MaxUser

Sections == 0 .. (ADDR_PAGES \div SECTION) - 1
NoMap == -1
DevTable == -2
KV == KERNEL_SEC * SECTION
KPHYS_OFFSET == 2 * SECTION
AllDevices == {"uart", "gicd", "gicc", "rtc", "fwcfg"} \cup {"virtio0", "virtio1", "virtio2", "virtio3"}

\* Pages of the kernel's address space.
Text  == KV .. KV + TEXT_END - 1
Table == KV + TEXT_END .. KV + TT_END - 1
Bss   == KV + TT_END .. KV + BSS_END - 1
HeapVa == KV + BSS_END                     \* align_up(bss_end)
Stack == {KV + SECTION - 2}                \* below STACK_BOTTOM - 0x1000
PAGE_SIZE == 4 * PAGE_WORDS

VARIABLES
    step,               \* what boots next; "user" once init runs
    l1,                 \* section -> section, NoMap or DevTable
    devices,            \* the devices devices_page_table maps
    mem,                \* physical page -> what it holds
    kernel_phys_base,   \* lives in .bss
    pmm,                \* the page allocator: base, total, bitmap, hint
    heap_top,           \* pages of the heap in use
    fb, user            \* frames of the framebuffer and of processes

bootVars == <<step, l1, devices, mem, kernel_phys_base, pmm, heap_top, fb, user>>
vars == <<dtbVars, bootVars>>

Dtb0 == blob.dtb                                    \* the dtb pointer
DtbPages == Dtb0 .. Dtb0 + blob.pages - 1
Kphys == (Dtb0 \div SECTION) * SECTION + KPHYS_OFFSET
FirstStack == {Dtb0 + FIRST_STACK - 1}              \* below the blob's start + 64 KB
EarlyHeap == Dtb0 + blob.pages .. Dtb0 + blob.pages + EARLY_PAGES - 1
NoPmm == [base |-> 0, total |-> 0, bitmap |-> {}, hint |-> 0]

Init ==
    /\ DtbInit
    /\ step = "reset"
    /\ l1 = [s \in Sections |-> NoMap] /\ devices = {}
    /\ mem = [p \in 0 .. ADDR_PAGES - 1 |-> IF p \in DtbPages THEN "dtb" ELSE "junk"]
    /\ kernel_phys_base = 0 /\ pmm = NoPmm /\ heap_top = 0 /\ fb = {} /\ user = {}

-----------------------------------------------------------------------------
(* Translation.                                                            *)

Mapped(v) == v >= 0 /\ v < ADDR_PAGES /\ l1[v \div SECTION] >= 0
Pa(v) == l1[v \div SECTION] * SECTION + (v % SECTION)
CanTouch(vs) == \A v \in vs : Mapped(v)
CanUse(ds) == l1[DEVICE_SEC] = DevTable /\ ds \subseteq devices

\* mem after what has been written to the virtual pages vs.
Written(vs, what) == [p \in DOMAIN mem |-> IF \E v \in vs : Pa(v) = p THEN what ELSE mem[p]]

\* An access to an unmapped page: the abort handler panics.
Fault ==
    /\ step' = "fault"
    /\ UNCHANGED <<l1, devices, mem, kernel_phys_base, pmm, heap_top, fb, user>>

Halt ==
    /\ step' = "halt"
    /\ UNCHANGED <<l1, devices, mem, kernel_phys_base, pmm, heap_top, fb, user>>

\* virt_to_phys and phys_to_virt.
virt_to_phys(v) == IF v >= KV THEN kernel_phys_base + (v - KV) ELSE v
phys_to_virt(p) == p - kernel_phys_base + KV

-----------------------------------------------------------------------------
(* kboot.                                                                  *)

\* map_sections: flash, the devices, 4 sections of kernel, 4 from the blob.
map_sections ==
    /\ l1' = [s \in Sections |->
                CASE s = 0 -> 0
                  [] s = DEVICE_SEC -> DevTable
                  [] s \in KERNEL_SEC .. KERNEL_SEC + 3 -> Kphys \div SECTION + (s - KERNEL_SEC)
                  [] s \in Dtb0 \div SECTION .. Dtb0 \div SECTION + 3 -> s
                  [] OTHER -> NoMap]
    /\ devices' = AllDevices
    /\ mem' = [p \in DOMAIN mem |-> IF p - Kphys + KV \in Table THEN "table"
                                    ELSE IF p \in FirstStack THEN "stack0" ELSE mem[p]]

\* handle_reset, kboot and init_mmu: table and first stack are written with the
\* MMU still off.
init_mmu ==
    /\ step = "reset"
    /\ map_sections
    /\ step' = "copy"
    /\ UNCHANGED <<dtbVars, kernel_phys_base, pmm, heap_top, fb, user>>

\* kboot copies the image from flash.
CopyImage ==
    /\ step = "copy"
    /\ IF CanTouch(Text \cup {0} \cup FirstStack)
         THEN /\ mem' = Written(Text, "text")
              /\ step' = "zero"
              /\ UNCHANGED <<l1, devices, kernel_phys_base, pmm, heap_top, fb, user>>
         ELSE Fault
    /\ UNCHANGED dtbVars

\* Mutant of Cleared: everything behind the image is cleared.
ClearedBehindImage == Table \cup Bss

\* What kboot clears: .tt, between the image and .bss, is in use.
Cleared == Bss

\* kboot clears .bss, where kernel_phys_base lives.
ZeroBss ==
    /\ step = "zero"
    /\ IF CanTouch(Cleared \cup FirstStack)
         THEN /\ mem' = Written(Cleared, "bss")
              /\ kernel_phys_base' = 0
              /\ step' = "base"
              /\ UNCHANGED <<l1, devices, pmm, heap_top, fb, user>>
         ELSE Fault
    /\ UNCHANGED dtbVars

\* kernel_phys_base, the vector table and the stack pointer are set, flash is
\* removed from the table, and kmain is entered.
EnterKmain ==
    /\ step = "base"
    /\ IF CanTouch(Stack)
         THEN /\ kernel_phys_base' = Kphys
              /\ mem' = Written(Stack, "stack")
              /\ l1' = [l1 EXCEPT ![0] = NoMap]
              /\ step' = "parse"
              /\ UNCHANGED <<devices, pmm, heap_top, fb, user>>
         ELSE Fault
    /\ UNCHANGED dtbVars

-----------------------------------------------------------------------------
(* kmain.                                                                  *)

\* dtb_parse reads what Words says and fills the pools, at physical addresses.
Parse ==
    /\ step = "parse" /\ phase # "done"
    /\ IF CanTouch({PageOf(a) : a \in Words} \cup EarlyHeap)
         THEN /\ DtbNext
              /\ mem' = IF early_heap_ptr' > 0 THEN Written(EarlyHeap, "pools") ELSE mem
              /\ UNCHANGED <<step, l1, devices, kernel_phys_base, pmm, heap_top, fb, user>>
         ELSE Fault /\ UNCHANGED dtbVars

ParseFailed ==
    /\ step = "parse" /\ phase = "done"
    /\ err # "ok" \/ tree.memory = <<>>
    /\ Halt
    /\ UNCHANGED dtbVars

\* Mutant of Reserved: the heap is taken to start at kernel_phys_base.
ReservedLow(bitmap_pa, bitmap_pages) ==
    (bitmap_pa .. bitmap_pa + bitmap_pages - 1)
        \cup (kernel_phys_base .. kernel_phys_base + KHEAP_PAGES - 1)

\* The two ranges mm_init keeps from the page allocator: bitmap and heap.
Reserved(bitmap_pa, bitmap_pages) ==
    (bitmap_pa .. bitmap_pa + bitmap_pages - 1)
        \cup (virt_to_phys(HeapVa) .. virt_to_phys(HeapVa) + KHEAP_PAGES - 1)

\* reserve_range: bits for the pages that lie in RAM.
reserve_range(base, total, pages) == {p - base : p \in pages} \cap (0 .. total - 1)

\* kmain hands mm_init the low word of the base; mm_init rounds to whole pages
\* and stops at the last page of the address space.
RamBase(m) == (((m.base % R) + PAGE_SIZE - 1) \div PAGE_SIZE) % ADDR_PAGES
RamEnd(m) ==
    IF (m.base % R) + m.size > R - 1 THEN ADDR_PAGES - 1 ELSE ((m.base % R) + m.size) \div PAGE_SIZE

\* mm_init over the first memory range, and early_malloc_reset.  A failed
\* ASSERT panics.  The bitmap is written at its physical address.
mm_init ==
    /\ step = "parse" /\ phase = "done" /\ err = "ok" /\ tree.memory # <<>>
    /\ LET m == tree.memory[1]
           base == RamBase(m)
           total == RamEnd(m) - base
           bitmap_pa == Dtb0 + blob.pages + EARLY_PAGES
           bitmap_pages == (total + PAGES_PER_BITMAP - 1) \div PAGES_PER_BITMAP
           bitmap_va == bitmap_pa .. bitmap_pa + bitmap_pages - 1
       IN IF m.size = 0 \/ total <= 0 \/ bitmap_pa + bitmap_pages > RamEnd(m)
            THEN Halt /\ UNCHANGED dtbVars
          ELSE IF ~ CanTouch(bitmap_va \cup {HeapVa}) THEN Fault /\ UNCHANGED dtbVars
          ELSE /\ pmm' = [base |-> base, total |-> total, hint |-> 0,
                          bitmap |-> reserve_range(base, total, Reserved(bitmap_pa, bitmap_pages))]
               /\ mem' = [p \in DOMAIN mem |-> IF \E v \in bitmap_va : Pa(v) = p THEN "bitmap"
                                               ELSE IF Pa(HeapVa) = p THEN "heap" ELSE mem[p]]
               /\ heap_top' = 1
               /\ early_heap_ptr' = 0
               /\ step' = "fb"
               /\ UNCHANGED <<blob, phase, cur, ahead, stack, nodes, prop_used, err, tree>>
               /\ UNCHANGED <<l1, devices, kernel_phys_base, fb, user>>

\* bm_find_free_run: the first run of n free pages from the hint on, else the
\* first below it.
Runs(lo, hi, n) == {i \in lo .. hi - n : (i .. i + n - 1) \cap pmm.bitmap = {}}
FindRun(n) ==
    LET above == Runs(pmm.hint, pmm.total, n)
        below == Runs(0, pmm.hint, n)
        Lowest(S) == CHOOSE i \in S : \A j \in S : i <= j
    IN  IF above # {} THEN Lowest(above) ELSE IF below # {} THEN Lowest(below) ELSE -1

Taken(i, n) == [pmm EXCEPT !.bitmap = @ \cup (i .. i + n - 1), !.hint = (i + n) % pmm.total]
Frames(i, n) == pmm.base + i .. pmm.base + i + n - 1

\* Mutant of MapFramebuffer: the last section is left out.
MapFramebufferShort(frames) ==
    [s \in Sections |-> IF \E f \in frames : f \div SECTION = s /\ (f + SECTION) \in frames THEN s ELSE l1[s]]

\* mmu_map_identity of every section the framebuffer touches.
MapFramebuffer(frames) ==
    [s \in Sections |-> IF \E f \in frames : f \div SECTION = s THEN s ELSE l1[s]]

\* fwcfg_init and fb_init: without memory for it the kernel has no screen.
fb_init ==
    /\ step = "fb"
    /\ LET i == FindRun(FB_PAGES)
           frames == Frames(i, FB_PAGES)
       IN IF ~ CanUse({"fwcfg"}) THEN Fault
          ELSE IF i = -1
            THEN step' = "dev" /\ UNCHANGED <<l1, devices, mem, kernel_phys_base, pmm, heap_top, fb, user>>
          ELSE /\ pmm' = Taken(i, FB_PAGES)
               /\ l1' = MapFramebuffer(frames)
               /\ IF \A f \in frames : l1'[f \div SECTION] = f \div SECTION
                    THEN /\ mem' = [p \in DOMAIN mem |-> IF p \in frames THEN "pixels" ELSE mem[p]]
                         /\ fb' = frames /\ step' = "dev"
                    ELSE UNCHANGED <<mem, fb>> /\ step' = "fault"
               /\ UNCHANGED <<devices, kernel_phys_base, heap_top, user>>
    /\ UNCHANGED dtbVars

\* A page of the heap is used for the first time: the heap fills from below.
HeapPage == HeapVa + heap_top

\* pl011_setup, blk_init, fs_mount (which takes memory from the heap), kbd_init,
\* the GIC and the timer.  virtio_find_device reads every slot.
InitDevices ==
    /\ step = "dev"
    /\ IF ~ CanUse(AllDevices \ {"rtc"}) \/ ~ CanTouch({HeapPage}) THEN Fault
       ELSE /\ mem' = Written({HeapPage}, "heap")
            /\ heap_top' = heap_top + 1
            /\ step' = "process"
            /\ UNCHANGED <<l1, devices, kernel_phys_base, pmm, fb, user>>
    /\ UNCHANGED dtbVars

\* fs_mount fails.
MountFailed == step = "dev" /\ Halt /\ UNCHANGED dtbVars

\* mm_page_alloc for a process; it will write the frame through its own table.
mm_page_alloc ==
    LET i == FindRun(1)
        f == pmm.base + i
    IN  /\ Cardinality(user) < MaxUser
        /\ i # -1
        /\ pmm' = Taken(i, 1)
        /\ user' = user \cup {f}
        /\ mem' = [mem EXCEPT ![f] = "user"]

\* process_create takes the pages of init; without memory the machine halts.
CreateInit ==
    /\ step = "process" /\ Cardinality(user) < INIT_PAGES
    /\ \/ mm_page_alloc /\ UNCHANGED <<step, l1, devices, kernel_phys_base, heap_top, fb>>
       \/ FindRun(1) = -1 /\ Halt
    /\ UNCHANGED dtbVars

\* process_exec: init runs.  Its struct and tables are on the heap.
ExecInit ==
    /\ step = "process" /\ Cardinality(user) = INIT_PAGES
    /\ IF CanTouch({HeapPage})
         THEN /\ mem' = Written({HeapPage}, "heap")
              /\ heap_top' = heap_top + 1
              /\ step' = "user"
              /\ UNCHANGED <<l1, devices, kernel_phys_base, pmm, fb, user>>
         ELSE Fault
    /\ UNCHANGED dtbVars

\* A process maps one more page: a segment or a stack page of exec.
MapUserPage ==
    /\ step = "user"
    /\ mm_page_alloc
    /\ UNCHANGED <<dtbVars, step, l1, devices, kernel_phys_base, heap_top, fb>>

\* process_fork copies a page of the parent to a new frame, both of which it
\* reaches through phys_to_virt.
ForkCopy ==
    /\ step = "user"
    /\ mm_page_alloc
    /\ \E src \in user :
          step' = IF CanTouch({phys_to_virt(f) : f \in {src} \cup (user' \ user)})
                    THEN "user" ELSE "fork_fault"
    /\ UNCHANGED <<dtbVars, l1, devices, kernel_phys_base, heap_top, fb>>

\* A process exits and its frame is free again; the hint moves down to it.
mm_page_free ==
    /\ step = "user"
    /\ \E f \in user :
          /\ user' = user \ {f}
          /\ pmm' = [pmm EXCEPT !.bitmap = @ \ {f - pmm.base},
                                !.hint = IF f - pmm.base < @ THEN f - pmm.base ELSE @]
    /\ UNCHANGED <<dtbVars, step, l1, devices, mem, kernel_phys_base, heap_top, fb>>

Next ==
    \/ init_mmu \/ CopyImage \/ ZeroBss \/ EnterKmain
    \/ Parse \/ ParseFailed \/ mm_init \/ fb_init \/ InitDevices \/ MountFailed
    \/ CreateInit \/ ExecInit \/ MapUserPage \/ ForkCopy \/ mm_page_free

Spec == Init /\ [][Next]_vars

\* The boot is one thread that nothing stops until it halts or runs init.
Booting ==
    \/ init_mmu \/ CopyImage \/ ZeroBss \/ EnterKmain
    \/ Parse \/ ParseFailed \/ mm_init \/ fb_init \/ InitDevices \/ CreateInit \/ ExecInit

FairSpec == Spec /\ WF_vars(Booting)

-----------------------------------------------------------------------------
(* What the parser must return.  blob.tree is the tree firmware flattened  *)
(* into the blob; blob.complete says that its root is there to the end.    *)

\* The numbers the code takes on trust: no sum of the header wraps, no word
\* DTB_PROP is followed by a length of more than a section, and no cell count
\* is so large that an entry has 2^32 bytes or more.
Sized ==
    /\ blob.off_struct + blob.size_struct < W
    /\ blob.off_strings + blob.size_strings < W
    /\ \A p \in 0 .. blob.size_struct - 3 :
          be32_read(p) = DTB_PROP =>
            /\ be32_read(p + 1) <= SECTION * PAGE_SIZE
            /\ At(InStrings(be32_read(p + 2))).s \in {"#address-cells", "#size-cells"} =>
                  be32_read(p + 3) < R \div 8

\* The blob's own cells end below the page the first stack spoils.
Unspoiled == Len(blob.cells) <= (FIRST_STACK - 1) * PAGE_WORDS

\* The tree under node n, as it would be written down.
Rebuild ==
    LET of[n \in 1 .. Len(nodes)] ==
          [name  |-> nodes[n].name,
           props |-> [k \in DOMAIN nodes[n].props |->
                        [name |-> nodes[n].props[k].name, len |-> nodes[n].props[k].len,
                         type |-> nodes[n].props[k].type,
                         data |-> Data(nodes[n].props[k].at, nodes[n].props[k].len)]],
           kids  |-> [k \in DOMAIN nodes[n].kids |-> of[nodes[n].kids[k]]]]
    IN of[1]

\* An undamaged blob that fits the pools is parsed into exactly the tree it was
\* made from; one that does not fit is refused.
RoundTrip ==
    phase = "done" /\ blob.complete /\ Unspoiled =>
        IF blob.count.nodes <= DTB_MAX_NODES /\ blob.count.props <= DTB_MAX_PROPS
          THEN err = "ok" /\ Rebuild = blob.tree
          ELSE err = "corrupt"

\* dtb_parse succeeds only on a blob whose root node is closed, unless a length
\* carries the cursor round the address space.
RefusesDamage == err = "ok" /\ Sized /\ Unspoiled => blob.complete

\* The slots alloc_props reserves are the ones parse_node fills: a node that
\* has been left holds as many properties as the look-ahead counted, and the
\* pools are never overrun.
PoolsExact ==
    /\ Len(nodes) <= DTB_MAX_NODES /\ prop_used <= DTB_MAX_PROPS
    /\ \A n \in DOMAIN nodes :
          /\ Len(nodes[n].props) <= nodes[n].room
          /\ n \notin {stack[k] : k \in DOMAIN stack} => Len(nodes[n].props) = nodes[n].room

\* Slots are taken in document order.
IsFirst(n, hits) == IF hits = {} THEN n = NoNode ELSE n \in hits /\ \A m \in hits : n <= m

\* A lookup by phandle or by a compatible string returns the first node in
\* document order that has it, or none: for every phandle of a node and the one
\* after it, and for every text of the blob.
LookupsFirst ==
    err = "ok" =>
        /\ \A m \in DOMAIN nodes : \A ph \in {nodes[m].phandle, nodes[m].phandle + 1} \ {0} :
              IsFirst(dtb_find_phandle(ph), {n \in DOMAIN nodes : nodes[n].phandle = ph})
        /\ \A c \in {blob.cells[k].s : k \in DOMAIN blob.cells} :
              IsFirst(dtb_find_compatible(c), {n \in DOMAIN nodes : node_has_compat(n, c)})

\* The parsed tree answers queries about what was flattened: RAM is what the
\* memory nodes list, a reg entry is read with the cells of the parent, and a
\* path leads to the node it names.
QueriesExact ==
    err = "ok" /\ blob.complete /\ Unspoiled =>
        /\ tree.memory = blob.memory
        /\ \A n \in DOMAIN nodes : \A q \in blob.regs :
              q.name = nodes[n].name => dtb_reg_entry(n, q.index) = q.pair
        /\ \A q \in blob.paths : LET n == dtb_find_node(q.path) IN
              IF q.name = "" THEN n = NoNode ELSE n # NoNode /\ nodes[n].name = q.name

\* What dtb_parse returns is the tree in the blob, with right answers to queries,
\* or a refusal.
ParseExact == RoundTrip /\ RefusesDamage /\ QueriesExact

-----------------------------------------------------------------------------
(* The layout under which the boot is proved correct.                      *)

\* How linker.ld, memory.h and QEMU's virt machine lay out the memory: kernel
\* window and device section lie above RAM's start, the blob, the early heap and
\* any bitmap fit below the image, the part of the heap start-up uses ends below
\* the stack, which lies inside the heap's range, and a framebuffer behind the
\* heap ends below the kernel window.
Layout ==
    /\ ADDR_PAGES % SECTION = 0
    /\ KERNEL_SEC + 3 < DEVICE_SEC /\ DEVICE_SEC < ADDR_PAGES \div SECTION
    /\ BSS_END + 3 <= SECTION - 2 /\ SECTION - 2 < BSS_END + KHEAP_PAGES
    /\ FIRST_STACK <= SECTION /\ HEADER_SIZE <= PAGE_WORDS
    /\ \A b \in Blobs :
          /\ b.dtb >= SECTION /\ b.dtb \div SECTION + 6 <= KERNEL_SEC
          /\ (b.dtb % SECTION) + b.pages + EARLY_PAGES
               + (ADDR_PAGES + PAGES_PER_BITMAP - 1) \div PAGES_PER_BITMAP <= 2 * SECTION
          /\ (b.dtb \div SECTION + 2) * SECTION + BSS_END + KHEAP_PAGES + FB_PAGES <= KV

-----------------------------------------------------------------------------
(* What the boot must achieve.                                             *)

\* Every variable has its type.
TypeOK ==
    /\ step \in {"reset", "copy", "zero", "base", "parse", "fb", "dev", "process",
                 "user", "halt", "fault", "fork_fault"}
    /\ l1 \in [Sections -> Sections \cup {NoMap, DevTable}]
    /\ devices \subseteq AllDevices
    /\ kernel_phys_base \in 0 .. ADDR_PAGES - 1
    /\ pmm.bitmap \subseteq 0 .. pmm.total - 1
    /\ fb \cup user \subseteq DOMAIN mem
    /\ phase \in {"call", "root", "enter", "ahead", "body", "extract", "done"}
    /\ ahead.depth \in 0 .. R - 1 /\ ahead.count \in 0 .. R - 1
    /\ cur \in Nat /\ prop_used \in Nat /\ early_heap_ptr \in 0 .. EARLY_HEAP_SIZE

\* Nothing the kernel touches while it boots is unmapped: not the image before
\* flash is gone, nor what the parser reads of a blob whose numbers are in
\* bounds, the early heap and the bitmap at their physical addresses, the
\* devices, the kernel heap or the framebuffer.
BootNeverFaults == Sized => step # "fault"

\* The kernel map covers what the boot touches, and keeps its form.
MapOK == TypeOK /\ BootNeverFaults

Image == {p \in DOMAIN mem : p - Kphys + KV \in Text \cup Table \cup Bss}

\* No boot step destroys what another one needs: as long as no process or
\* framebuffer was given pages of the image, which mm_init leaves free, code,
\* translation table and stacks stay intact, the pools and all of the blob but the
\* page of the first stack do until mm_init is through, and bitmap, framebuffer
\* and heap from then on.
Intact ==
    (\A p \in Image : mem[p] \notin {"user", "pixels"}) =>
        /\ step \notin {"reset", "copy"} => \A v \in Text : mem[v - KV + Kphys] = "text"
        /\ step # "reset" => \A v \in Table : mem[v - KV + Kphys] = "table"
        /\ step \in {"parse", "fb", "dev", "process", "user"} =>
              \A v \in Stack : mem[v - KV + Kphys] = "stack"
        /\ step \in {"copy", "zero", "base"} => \A p \in FirstStack : mem[p] = "stack0"
        /\ step \in {"copy", "zero", "base", "parse"} =>
              \A p \in DtbPages \ FirstStack : mem[p] = "dtb"
        /\ step \in {"parse"} /\ early_heap_ptr > 0 => \A p \in EarlyHeap : mem[p] = "pools"
        /\ step \in {"fb", "dev", "process", "user"} =>
              /\ \A i \in 0 .. heap_top - 1 : mem[HeapVa + i - KV + Kphys] = "heap"
              /\ mem[Dtb0 + blob.pages + EARLY_PAGES] = "bitmap"
              /\ \A f \in fb : mem[f] = "pixels"

\* The frames that back the bitmap and the kernel heap.
BitmapFrames ==
    LET bitmap_pa == Dtb0 + blob.pages + EARLY_PAGES
    IN  bitmap_pa .. bitmap_pa + (pmm.total + PAGES_PER_BITMAP - 1) \div PAGES_PER_BITMAP - 1
HeapFrames == Kphys + BSS_END .. Kphys + BSS_END + KHEAP_PAGES - 1

\* The frames of processes and of the framebuffer are different ones, inside
\* RAM, and none of them backs the bitmap or the kernel heap.
FramesDisjoint ==
    /\ fb \cap user = {}
    /\ fb \cup user \subseteq pmm.base .. pmm.base + pmm.total - 1
    /\ step \in {"dev", "process", "user"} =>
          (fb \cup user) \cap (BitmapFrames \cup HeapFrames) = {}

\* The boot ends: the parser gets through every blob whose numbers are in bounds,
\* and init runs or the machine halts.
BootEnds == Sized => <>(step \in {"user", "halt"})
=============================================================================
