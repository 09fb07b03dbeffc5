# A TLA+ model of leg

leg is a small ARMv7-A kernel for one CPU: it boots under QEMU `virt` from a
device tree, manages physical pages and a heap, mounts a read-only file system
on a virtio disk, runs user processes with fork, exec, join and sleep, reads a
line-edited console fed by a UART and a virtio keyboard, and prints to a
framebuffer. This directory models it from reset to the shell, with the offline
tools that write the disk. Each module is translated from the C, assembly and
Python it names; the lines are in `PROJECT.json` under `map`. Paths below are
relative to the repository.

## The system

| Part | State | Operations | Hard behaviour |
|---|---|---|---|
| Scheduler (`src/kernel/scheduler.c`) | process table, `current_proc`, and of each process `suspended`, `wake_tick`, `join_target` | `sched_add`, `sched_remove`, `sched_get`, `sched_wake_joiners`, `sched_pick_next`, `sched_tick` | the tick runs in an interrupt and changes `current_proc`; a sleep and a join share the `suspended` flag |
| Processes and system calls (`process.c`, `syscall.c`, `llf.c`) | `next_pid`, the saved context and page table of each process | fork, exit, join, sleep, exec, getpid, read, getchar | handlers that fail half-way; structs that come unzeroed from the heap; two calls that unmask interrupts |
| Trampolines (`trampolines.s`, `context_switch.s`, `exceptions.c`) | CPU registers, TTBR0, mode | SVC entry and yield, IRQ entry and restore, wait loops | which struct registers are saved in, relative to a change of `current_proc` |
| Page allocator (`mem/alloc.c`) | bitmap, `free_pages`, `next_hint` | `mm_page_alloc`, `_n`, `_aligned`, `mm_page_free`, `_n` | searches that wrap at the hint; a free that stops half-way |
| Kernel heap (`mem/alloc.c`) | free list, headers, `used` | `kmalloc`, `kmalloc_aligned`, `kfree`, `krealloc` | splitting and merging in every order; pointers that are not the start of their block |
| Console (`tty.c`) | ring, `g_line_len`, `g_line_ready`, `g_line_start` | `tty_input`, `tty_readline`, `tty_getchar`, `tty_getchar_nb` | readers run with interrupts enabled and touch the ring in many separate accesses |
| Keyboard (`dev/kbd.c`) | virtio event queue, shift state | `setup_eventq`, `kbd_irq_handler` | the device writes the rings while the handler runs; indices wrap |
| Timer (`dev/rtc.c`) | tick period, callback | `rtc_timer_fired` | it must keep firing while everything sleeps |
| Address spaces (`dev/mmu.c`, `process.c`, `llf.c`) | L1 and L2 tables, page lists | map, unmap, copy, free | a load or fork that runs out of memory half-way |
| Boot (`boot.s`, `boot.c`, `kmain.c`, `dev/mmu.c`) | kernel translation table, the image, early heap, what each physical page holds | map, copy, clear, parse, `mm_init`, `fb_init`, first process | an order that must not destroy what a later step needs; one size wrong and two structures overlap |
| Device tree (`dtb.c`, `mem/bump.c`) | node and property pools, the tree | `dtb_parse`, lookups | two scans of the same bytes that must agree; damaged blobs; full pools |
| Filesystem and block device (`fs.c`, `dev/blk.c`, `dev/virtio.c`) | descriptors and names, one virtio request | mount, lookup, read | polled completion while the device works; a mount that fails between its passes |
| Image tools (`legfs/llf.py`, `legfs/mkfs.py`) | none | ELF to LLF, files to image | offsets computed in Python and used in C |
| Shell (`usr/hash.c`, `usr/init.c`) | the line, the blob it looks at | search, fork, exec, join | a child whose exec fails goes on as a second shell |
| Output (`libc/stdio.c`, `logs.c`, `dev/fb.c`, `syscall.c`) | cursor, screen, each writer's position in its format | `printf`, `pprintf`, `vkprintf`, `fb_putc`, clear, in-place output, echo | one system call per character; an echo in the middle of kmain's text |
| GIC, UART set-up, fw_cfg, RNG, graphics demos | see `PROJECT.json` | | sequential or numerical |

Who calls whom: user programs enter through `handle_svc` and `svc_dispatch`;
handlers call `process.c`, the scheduler and the console. The timer interrupt
calls `sched_tick`; the UART and keyboard interrupts call `tty_input`.
`process.c` takes structs and tables from the heap and pages from the page
allocator. Interrupts are masked in every system call except the two console
reads and in the wait loops, which is why most handlers are one action and
`Tty` is not.

## Modules

**Scheduler** holds the table and the scheduler's operators. A process is its
pid (pids are never reused). `wake_tick[p]` is the distance to the deadline
instead of an absolute counter value: 0 not sleeping, 1 due, k + 1 with k units
to go; `ClockAdvance` is the counter.

**Kernel** composes it with the trampolines and the system calls. Its variables
are the CPU (`mode`, `regs`, `ttbr0`), the saved contexts `ctx`, `next_pid` and
whether a console line waits (`line`). A register file is reduced to whose code
it resumes (`of`: pc, sp, lr, cpsr), `r0`, and one value for the registers a
call must preserve. Each action is a whole handler: e.g. `svc_exit` is
`process_exit` from the removal from the table to the switch to the next
process or the power-off; `TimerIrq` is the trampoline, `irq_dispatch`,
`sched_tick` and the restore. `svc_tail` and `svc_yield` are the shared ends of
`handle_svc`. A console read is two actions, with interrupts between them. What
an uninitialised `join_target` or `wake_tick` may hold is a constant
(`UninitJoin`, `UninitWake`), as is which calls the programs make (`Syscalls`)
and how exec can end (`ExecResults`; `"fail_stack"` is running out of memory
after `llf_load` has left the kernel table in TTBR0).

**Processes** is the abstract specification: each process is a virtual CPU
whose registers nobody else changes, apart from the result of a call, the exit
code given to a joiner, and exec. `Kernel` instantiates it with a refinement
mapping (`Promise`): the registers a process sees are those in the CPU if it
runs and those in its struct if not.

**PageAlloc** identifies pages with bitmap indices. `held` is a record of what
each client holds, which the code does not keep; clients free only what they
hold, or what is already free (the error path). Bits beyond the bitmap are
read as clear. **KHeap** keeps the headers (free ones in list order, used ones
as a set) in words of 4 bytes with the code's header, alignment and split
sizes; `live` is what callers were given.

**Tty** splits the two blocking readers into their accesses to the volatile
variables, any of which `tty_input` may come between; `g_line_len--` in
`tty_getchar` is a load and a store. The echo is left out. `want`, `asked`,
`rung`, `plain` and `clean` are history variables for the properties. **Kbd**
runs `kbd_irq_handler` against an external device; memory accesses take effect
in program order, as the code's barriers and the emulated device provide. The queue
length is the shorter of the driver's and the one the device offers (`QUEUE_NUM`).

**AddressSpace** is the memory of processes: which heap objects (structs, L1 and
L2 tables, the loader's buffer) and physical pages `process_create`,
`process_fork`, `process_replace` and `process_exit` allocate, map, copy and
free, with either allocator failing at any point, and what the programs then
read in their pages. It sees the two allocators only as what they have left
(`free`, `objs`): `PageAlloc` and `KHeap` check that they hand nothing out
twice. A virtual page is `<<L1 slot, L2 index>>`; the contents of a page are one
value, so the parts of a page that a segment does not cover are not told apart.
`lost` records what the boot took and what a failed load leaves behind. The
branch of `process_add_page` that crosses into another L1 slot cannot be taken
with the initial stack, its only caller. Scheduling is left to `Kernel`: any
process may make the next call, and an exit that leaves others behind may or may
not find one of them runnable.

**Dtb** is the parser as a machine that takes one loop iteration per step: the
recursion of `parse_node` is an explicit stack, and so are the rounds of the
look-ahead that counts properties (`LookAhead`, `Stopped`, `Onward`); pools and the
early heap run out where the code's do. Memory is `W` cells of 4 bytes, a name fills
one cell, so that padding is kept and characters are not, and offsets wrap as `u32`
arithmetic does: a length near 2^32 leads the cursor backwards, a sum in the header
or of cell counts comes out small. `Words` says which cells the next step reads,
inside the blob or not; the cells that are not the blob's are a constant
(`Around`), and so is what the parser finds in the page where the first stack was
(`Spoiled`). The queries (`dtb_find_node`, `dtb_find_phandle`,
`dtb_find_compatible`, `dtb_get_prop`, `dtb_reg_entry`) are operators on the pools.

**Boot** extends it with everything from `handle_reset` to the first process: `l1`
is the kernel's table in sections, `mem` says what was last written to each physical
page, by the first stack too, which `boot.s` puts 64 KB behind the start of the
blob. A step whose access `l1` does not map goes to `"fault"`, so missing mappings
are visible; for the parser that is every cell of `Words`. After start-up processes
take, copy and free frames, which shows what `mm_init` left free.

**DiskImage** holds what `llf.py` and `mkfs.py` write and how `llf_load` reads
it back, as operators on sequences of cells, one per field, character or word.
**Files** puts such an image on a disk and runs `blk_init`, `fs_mount`, the
loads, the shell and its children on it. The device is an actor of its own: it
takes the request, moves data, writes the status and publishes the index in
separate steps, and may fail any request or not be there. Processes form a chain
(each one waits in join for the next), which is all `hash` can build; a fork
fails when the chain has `MaxDepth` processes. Every `kmalloc` may fail. A
typed word is a sequence of characters; built-in commands other than exit change
nothing here and are left out. Programs make block requests with any sector and
count and a pointer that reaches their own memory or RAM (`svc_blk`); `written`
records which sectors they have written to. Where the code runs past a bound it does
not check, nothing is said of what follows and `pc` stays `"wild"`: a name that
overruns `kname` (`process_replace`), a file that does not describe memory it fits
in (`LlfFits`), a device that was told to write to RAM. An exec that runs out of
memory for the stack ends in `"fault"`.

**Libc** has the library's pure routines: number conversions, `memcpy` and
`memmove`, 64-bit division by long division, `str_split`. Powers are a recursive
function (`Pow`), as the provers know nothing of `^`. **Console** runs
writers on top: one step per character for programs (one system call each) and
for the log, `fb_putc` as a whole when interrupts are masked, and statement by
statement for kmain's welcome text, which is printed with interrupts on. There
the cursor is not volatile, so each statement may use the value in memory or the
one it loaded before, and two stores may swap. The screen is a grid of
characters; fonts and colours are left out. Where `fb_init` found no memory
(`fb_base`), characters go to the UART only and a program's first drawing call
ends in `"null"`.

The `MC*` modules give values to the constants; `KernelDocs` and `BootDocs` state
what comments of the repository promise and the code does not do;
the `*Proofs` modules hold the proofs: `AllocProofs` those of `PageAlloc` and
`KHeap`, `KernelProofs` those of `Scheduler` too, `BootProofs` those of `Dtb` too,
`FilesProofs` those of `DiskImage` too, `ConsoleProofs` those of `Libc` too, the others
those of the module they are named after. Names such as `ContextsOK` or
`BlocksOK` are conjunctions of the named parts above them.

## Runs

| Run | Shows | Bounds |
|---|---|---|
| `all` | `TypeOK`, `TableOK` with every call, every end of exec, uninitialised fields | 2 slots, 3 pids, sleep ≤ 1; 590,351 states |
| `masked` | `ContextsOK`: contexts are not mixed up; `WaitsOK`: waits are not lost; `ImplementsPromise`; `SleepersWake`: the wait loop ends if anyone sleeps | 3 slots, 3 pids, two register values; 244,344 states |
| `pages` | `PagesOK`: no sharing, exact bitmap and counter; `InsideRam`; `OomIsReal`: no false out-of-memory for single pages | 8 pages, 3 allocations, runs of 0, 1, 2, 4, alignments 2 and 4; 1,553 states |
| `heap` | `BlocksOK`: tiling and accounting; `Coalesced`; `LiveInBlock`; `Reclaimed`: no leak | 48 words, 3 live allocations; 32,132 states |
| `tty` | `InOrder`, `CleanLines`: order and exactness of lines; `NewlineWakes` | ring of 4, words modulo 8, 6 keys, 2 calls; 1,319,641 states |
| `kbd` | `QueueOK`: descriptor ownership; `CharsExact`; `Drains`: no lost interrupt | queue of 2 at a device that offers 3, indices modulo 4, 6 events; 136,417 states |
| `memory` | `Accounted`: every page and table has one owner or was lost by a failed load; `Private`; `ForkCopies`; `FailureHarmless` | 2 slots, up to 6 pages and 9 heap objects, 3 images; 81,293 states |
| `boot` | `ParseExact`: the tree in the blob, with the right memory, `reg` entries and paths (`QueriesExact`), or a refusal; `PoolsExact`; `LookupsFirst`: a lookup by phandle or compatible string returns the first node in document order; `MapOK`: nothing touched is unmapped; `Intact`: no step destroys what another needs; `FramesDisjoint`; `BootEnds` | 19 tree shapes, each with three cell counts, with and without padding, in blobs of a page and of a section; one with no cells; every cut of one blob, 6 damages, 7 with a number too large; one that the first stack spoils; 8-page sections; 12,559 states |
| `files` | `RequestOK`: one request at a time across the index wrap; `HeapBalanced`; `DirectoryExact`; `LoadedExact`: a program's memory is its ELF file; `PromptReturns` | 6 disks of up to 5 files, with and without a device, 8-cell sectors, indices modulo 4, names that fill the name buffers, requests of programs for 0 and 2 sectors at two places, 3 processes; 399,077 states |
| `output` | `CursorOK`: kmain against echoes; `PrintsExact`: output complete and in order; `ScreenExact`; `RoutinesExact` | 4 × 2 screen, 8-bit words (all 256 in five conversions), all lines up to 6 characters, division of all 5-bit numbers; with and without a framebuffer; 240,939 states |
| `round_robin` | refutes "round-robin" (`scheduler.h:23`) | 2 processes, fair |
| `image_frames` | refutes that the kernel image is reserved (`alloc.h:28`, `linker.ld:18`) | as `boot` |

Why the bounds are enough. Two slots fill the table with a pid to spare, so the
failing fork, and an exit that frees a slot for a new pid, both happen; three
slots are needed for a process with two joiners and for a round-robin turn that
skips somebody. Sleeps of 0 and 1 give deadlines that are due at once and later.
Eight pages with two reserved ones inside leave runs that do and do not straddle
the hint and one that ends with the RAM; the heap fits three blocks with a remainder above and below the split
limit. A ring of 4 holds three characters, so within six presses a key is dropped, a
line wraps around the end of the ring and `g_line_len` underflows; the ratio of word to ring size is a
whole number, as 2^32 to 256 is. Six events wrap 2-bit indices with a queue
of 2. In `memory`, six pages and nine objects let a process exec beside another
one and let a fork fail for want of a slot only; the boots that leave less make
fork, and the load and the stack of an exec, run out of either at various
points, and those that leave one object or page make `process_create` fail.
One page at a time may differ from what was loaded by a store (`MaxDirty`; fork
may copy it), which is enough to tell whose contents a page shows. The trees of `boot` have exactly as many nodes or properties as the pools
hold, and one more; RAM that is absent, too small for the framebuffer, full, or
past the end of the address space; and blobs of one page and of a whole section,
so that the early heap lands in another section. The numbers too large lead the
look-ahead round in a circle, lead the cursor back to the ends of other nodes, put
data behind the block and behind all that is mapped, put either block below the
blob, and make the size of an entry wrap to 0: the parser then loops, accepts a
block that is not closed, goes on, faults, or finds no memory, as the code does.
`Sized` excludes what the code takes on trust, sums of the header that wrap,
a length of more than a section, and cell counts of 2^29 and more; `Unspoiled`
excludes blobs whose contents reach into the first stack's page. Each property names
which of the two it needs; none does for `PoolsExact` and `LookupsFirst`. Sections of 8 pages keep the
proportions that matter: the heap spans more than one section, the framebuffer
starts inside one, the image is smaller than one. In `files` sectors of 8 cells
make headers, descriptors, names and programs end before, at and behind a sector
boundary; names are prefixes of one another, and some are as long as `kname` or
as the shell's buffer; three processes allow a shell in a
failed child to run another program. Programs ask for sectors in the middle of the
disk, which hold a file on some disks, and at its end, where two sectors fit exactly;
indices modulo 4 wrap. In `output` two rows
of four cells make every wrap and scroll happen within a few characters; the
divisors go to half the range, beyond which `__aeabi_uldivmod` drops a bit (see
below).

Deadlock is not checked where the system may stop: the machine can power
off, a typist or device may do nothing more, and key presses, events, frames and
jobs are bounded. `pages` and `heap` check it.

Fairness. `masked` and `round_robin` assume that the timer interrupt keeps being
delivered (`rtc_timer_fired` re-arms the comparator and every mode the model
knows has interrupts unmasked), that the counter counts, and that a wait loop
that can leave does. `tty` assumes that a reader that can take its next step
does so, as there is one kernel thread and every interrupt handler returns;
`kbd` that a pending interrupt is taken and its handler finishes. `boot` assumes that the
single thread of start-up goes on. `files` assumes that the kernel and the
device go on, that the shell does while it searches, and that a program ends
eventually, even if it keeps making block requests (strong fairness of its
exit); nobody has to type. A device need not answer a request with a buffer of no
bytes, and `PromptReturns` assumes that names fit `kname` (`NamesFit`) and that
programs keep their requests to sectors of no file, to their own memory and to one
sector at least (`Tame`): otherwise the code itself breaks the promise. `BootEnds`
is for blobs that are `Sized`. Otherwise nothing is assumed of user programs, of the
typist or of devices.

`masked` excludes the console reads because with them
`RunningIsCurrent` and `SavedContextIsOwn` fail: a tick during the read changes
`current_proc`. It uses zeroed structs because
with a stale `join_target` an exit overwrites `r0` of a process that never
joined (`TableOK` still holds then, which is what `all` checks).

## Proofs

All theorems hold for every value of the constants that meets the named
`ASSUME`s (`SchedConstants`, `KernelConstants`, `PageConstants`,
`HeapConstants`, `TtyConstants`, `KbdConstants`, `KbdOffered`, `SpaceConstants`,
`DtbConstants`, `BootConstants`, `FilesConstants`, `ConsoleConstants`). These
give types, say that sizes are not zero, and carry the facts that proofs rest on:

- a ring's size divides the range of its index words (`TtyConstants`,
  `KbdConstants`; 256 and 2^32, the queue length and 2^16);
- the kernel heap ends inside the address space;
- a program's image does not reach into its stack (`usr/linker_user.ld`;
  otherwise mapping the stack would lose a frame);
- a virtio device offers a queue at least as long as the driver's (`KbdOffered`;
  QEMU offers 1024 or 64): `setup_eventq` settles for a shorter one, but the handler
  goes on to count modulo its own;
- a sector holds the file system's header, and a disk its image;
- the ELF files given to `mkfs.py` are well formed: a segment has no more bytes
  than it is mapped to, loaded segments do not overlap, and a file that is no ELF
  file does not start with the magic of an LLF file;
- the logger `vkprintf` has one caller at a time (the kernel logs with interrupts
  masked), the welcome text has no control characters but newlines, divisors are not zero and
  at most half the range, and `memmove` is called inside its memory.

Further hypotheses are named with the theorem. Each inductive invariant was
first checked by TLC on the instance of the run.

Kernel:

- `TypeCorrect`: `Spec => []TypeOK`; inductive as it stands.
- `TableCorrect`: `Spec => []TableOK`, with reads, every end of exec and
  uninitialised fields. `TableOK` alone is not inductive: `TableInv` adds the
  types.
- `ContextsCorrect`: if no program makes a console read, `ContextsOK`, which is
  `RunningIsCurrent /\ SavedContextIsOwn`. `OwnInv` adds what holds while the
  kernel waits: outside user mode nobody's registers are in the CPU, so every
  process of the table has its own context saved. The key steps are that the
  interrupt saves before `sched_tick` may move `current_proc`, and that the tick
  never picks the slot it started from (`OtherSlot`).
- `WaitingCorrect`: with zeroed structs, `WaitsOK`, which is `BlockedIsSuspended /\
  JoinTargetsAlive`, console reads included. `BlockInv` adds that nobody both
  sleeps and joins; otherwise a tick would release a joiner.
- `KernelImplements`: without console reads and with zeroed structs, `Kernel`
  implements `Processes`. `RefInv` is `OwnInv /\ BlockInv`: the first says that
  the mapping finds a process's registers in one place only, the second that an
  exit writes the code into the registers of its joiners and of nobody else.
  There is one lemma per action; interrupts, switches and the wait loop map to
  stuttering.

Allocators and address spaces:

- `PagesCorrect`: `PagesOK` (`TypeOK`, `NoSharing`, `BitmapExact`, `FreeCount`)
  for any RAM and any requests. `PageInv` adds that the bitmap is finite, so that its
  cardinality means something; the frees keep `BitmapExact` only because of
  `NoSharing`.
- `PagesInside`: `InsideRam`; rests on `RoundUpBound`, that rounding the hint up
  to an alignment that divides the RAM does not leave it.
- `OomIsAlwaysReal`: `OomIsReal`, when the alignments divide the RAM. Without
  that, bits past the end would count as used pages and the counter could reach
  zero too early.
- `BlocksAlwaysOK`, `AlwaysCoalesced`, `AlwaysReclaimed`: for any heap, and for
  sizes that wrap too. `HeapInv` states the tiling by pairs of blocks (apart,
  inside, every word in one), and that live allocations and used blocks match
  one to one: kfree of a pointer that had no header would break everything else.
  Counting used words is `SumOfSizes`.
- `LiveAlwaysInBlock` needs `NoWrap` (rounding a size up does not wrap) and no
  `krealloc` of an aligned pointer; both fail in the code (see below), so they
  are hypotheses. `InsideInv` adds to `HeapInv` that an allocation ends before
  its block does.
- `AlwaysAccounted`, `MemoryIsPrivate`, `ForkAlwaysCopies`, `FailuresAreHarmless`:
  `SpaceInv` says that frames, and likewise heap objects, are split between the
  free ones, the lost ones and the processes (`Split`), and that each process's
  tables map different pages to different frames. The action properties follow
  from it: a step writes only frames of its actor and free ones, and no other
  process can reach those.

Devices and console:

- `QueueAlwaysOK`, `CharsAlwaysExact`: `KbdInv` numbers ring entries from the
  driver's index (`Entry`), so that a wrap changes nothing, says which
  descriptor stands in each, and that the events not yet handled are the last
  ones sent.
- `TtyTypeCorrect`, `ReadlineInOrder`, `ReadlineExact`: `TtyInv` describes the
  ring as the characters between `g_line_start` and its end while the reader is
  at each of its accesses. Order (`PlainInv`) holds because what lies in the
  ring was typed after all that was returned; exactness (`CleanInv`) because the
  reader's position in the line it copies is known.
- `RequestAlwaysOK`, `HeapAlwaysBalanced`: `FilesInv` says which blocks are live
  at each place of `fs_mount` and `load_user_image`, seen through the request
  that suspends them, and where each side of the queue stands.
- `DirectoryAlwaysExact`, `LoadedAlwaysExact`: for every list of files and every
  name, flag, segment and length. The files are reached through two chains of
  offsets, Python's and C's. `Sums` is the shape both have, a running sum of
  lengths, and gives the place of each part in `Concat` and `Offsets`; from it
  `Pictured` says what lies at each place `build_fs` fills, and `Stands` that the
  segments of an LLF file are the loadable headers of the ELF file, so that
  `llf_load` rebuilds its memory (`LoadIs`). `ImageInv` carries this to the
  running system: the disk holds the image but for the sectors that programs have
  written to (`HeldInv`, `Kept`), the buffer of
  a request that succeeded holds the sectors asked for (`DataInv`), at each place
  of `fs_mount` and `load_user_image` the request is for the sectors the next
  step reads (`AskedInv`), and a mounted table is the one `mkfs.py` wrote. What
  a file's buffer and the memory made from it hold is told of files nobody has
  written over (`Shown`, `Meant`).
  `FilesInv` is needed beside it: without one request at a time, a buffer could
  be that of another.
- `CursorAlwaysOK`: `CursorInv` bounds column and row at each statement of
  kmain's `fb_putc` (`ColOK`, `RowOK`). Between `cursor_col++` and the wrap the
  column may be one too large; then the value kmain holds is the one in memory,
  or an echo has brought that one back already, and either way the next
  statements do.
- `ScreenAlwaysExact`, for a machine that has a framebuffer: `ScreenInv` keeps, beside the screen, the sheet of paper
  without end that `Drawn` writes all output on; `Match` says that the grid is
  its last rows. Scrolling moves the window and not the ink.
- `PrintsAlwaysExact`: `PrintInv` says of each writer that what it has put out so
  far is what its format says up to the token it is at, less what is pending
  (`Progress`), whatever the others do in between, and that `%n` stored the count at
  its place (`Counted`). Digits that a conversion loop takes from the right are the
  numeral read from the left (`Figures`, `Count`).
- `RoutinesAlwaysExact`: one invariant per loop. The comparison of high and low
  words is that of the numbers (`AtLeastIs`). After k rounds of the long
  division the bits shifted in so far, divided by d, give the quotient and remainder
  at hand (`Round`); `memmove` reads no byte that it has written, in
  whichever direction it goes; from each place of the line on, `str_split` finds
  each beginning of a word, in order, until its room is used up (`Listed`).

Start-up:

- `PoolsAlwaysExact`: for every blob, whole or damaged, lengths that lead backwards
  included. `CountInv` says of each open node that the look-ahead, continued from
  the cursor, stops and has counted, with the properties read so far, as many as the
  node has room for. How it goes on is a finite path of its rounds (`Path`,
  `Leads`, `Counts`), so that nothing rests on the cursor moving forward:
  `parse_node` walks along the path the look-ahead went before it, or along what is
  left of it. An end-of-tree token inside a child splits this in two: the look-ahead
  stops there while `parse_node` goes on, and what holds behind it is that the nodes
  around the child are complete already.
- `LookupsAlwaysFirst`: for every blob, whole or damaged, whose tree `dtb_parse`
  returns. The scans walk the links between nodes; "first" is by the slot a node
  took from the pool. That the two agree rests on `TreeInv`, which says that some
  function `last` gives for each closed node the last slot below it, such that
  children lie one behind the other (`KidsInOrder`, `ClosedEnd`), what is below
  an open node ends before the next open one (`OpenEnd`), and the root has
  slot 1 (`Nested`). `last` is in no variable of the parser: a step that enters a
  node extends it, one that leaves a node sets it there (`EnterNested`,
  `LeaveNested`). From it `DocumentOrder` shows, by induction on the number of
  slots below a node, that `Preorder` is 1, 2, ... up to the last slot. `Preorder`
  is one recursive function inside another; `UptoRule` and `VisitRule` prove that
  both exist and obey their equations.
- `FramesAlwaysDisjoint`: `FramesInv` says that frames in use, and those of the
  bitmap and the heap that lie in RAM, are marked. It is inductive only
  with the types of `tree.memory` that `DtbInv` gives.
- `MapAlwaysOK`: `MapOK`, whose second half is for blobs that are `Sized`; on others
  the model faults where the code does. `dtb.c` compares
  neither a property's length nor its data with the block, so what it reads of them
  may lie behind it; the argument is that this is less than a section away. Each
  token and each head of a property is read after a test of the block's bounds;
  `ReadInv` says that every property kept begins in the block and that no cell
  count is so large that an entry wraps (`NodeNear`), so that the entries and the
  seed read later lie no farther away; four sections are mapped. There
  are two hypotheses. `Layout` (in `Boot`) orders the
  regions: blob, early heap and any bitmap end below the image, the stack lies
  inside the heap's range and above the pages of the heap start-up uses, and a
  framebuffer put behind the heap ends below the kernel window. `RamLow` says
  the same of a framebuffer put at the start of RAM. The code meets both on
  QEMU's virt machine: RAM and blob at 0x40000000, the blob at most 1 MB
  (`linker.ld:16`), an early heap of 128 KB, a bitmap of at most 32 pages,
  `KPHYS_OFFSET` 2 MB, a heap of 2 MB, `KERNEL_VA` 0xC0000000 and
  `DEVICE_VIRT_BLOCK` 0xCF000000. `MapInv` says what the table shows at every
  stage. The step that needs thought is `fb_init`, which maps sections anywhere
  in RAM and would take the kernel window away if its frames were there:
  `FirstFit` shows that they are the lowest ones free, because the hint is 0 and
  only bitmap and heap are marked, so they lie below it (`FbLow`). Without
  `RamLow` this fails.
- `AlwaysIntact`: `Intact`, from the same hypotheses, for every blob. The first
  stack is one of the regions: it is intact while it is in use, and the blob is
  but for that page. `ContentInv` lists what each
  region holds at each stage. Every stage is first reduced to the physical pages
  it writes (`Fill`), and the regions are shown to be apart (`AllApart`). It
  stands on `FramesInv`: frames given away later are none of bitmap and heap, and
  the stack lies inside the heap's range, without which nobody would reserve it.

TLC evaluates `Layout` in the run `boot` (`MCLayout`), and `RamLow` holds in all
its states, so the hypotheses describe the instance that is checked.

Where a proof needs induction (a least element, the sum of a set, a recursive
function) it is done on sets in place of predicates: `LeastNatural` from the
well-foundedness of the naturals, and `Induction` from that.

Only model-checked:

- liveness (`SleepersWake`, `NewlineWakes`, `Drains`, `BootEnds`,
  `PromptReturns`), which is out of the prover's reach;
- `ParseExact`, which compares a machine with a stack to a reference that
  flattens a tree by recursion on the tree, and memory, `reg` entries and paths to
  facts listed with each tree of the instance. A proof would need an induction
  over trees; `PoolsAlwaysExact` and `LookupsAlwaysFirst` are
  the parts that can be told by counting and by the order of the slots.

## Disagreements between code and comments

Two have a run (see `findings` in `PROJECT.json`). The rest were seen while
modelling and are described here only; where a model takes the code's way, its
step or value is named.

Processes:

- `scheduler.h:9` calls `current_proc` "the currently running process"; a tick
  during a blocking console read (`syscall.c:66`) makes it another one than the
  process whose call returns, which then saves its registers in the wrong
  struct at the next interrupt.
- `process.h:64` "Clone the current process": the child gets the registers its
  parent had at its last interrupt or yield, with r0, pc, sp and cpsr replaced
  (`process.c:208`). `fork` also reaches user frames through `phys_to_virt`
  (`process.c:202`), which maps only the heap's window: step `"fork_fault"` of
  `Boot`.
- `llf.c:82` "process_exec will reinstall the process table": when the stack
  cannot be allocated after a load, exec returns to user mode with the
  kernel's table (`process.c:285`), and the next fetch aborts, unless an interrupt
  comes first, whose return installs the process's table again (`"fail_stack"` in
  `Kernel`, `"fault"` in `Files`).
- `process.c:266` copies the program's name into `kname[64]` on the kernel's stack
  with `strcpy`; the shell passes names of up to 255 characters
  (`process_replace`, `"wild"`). `llf_load` checks the magic and trusts the rest of
  the file: a program header outside the buffer is read, and a segment outside user
  memory is mapped (`LlfFits`).
- Two processes that join each other, or one that joins itself, are suspended for
  good (`syscall.c:46`); nothing promises otherwise.
- `tty.h:13` "Block until a complete line is available": a newline that arrives
  after `g_line_len = 0` and before `g_line_ready = false` is not seen by the
  next reader (`tty.c:60`).
- `process.h:64` says a forked child is added "(suspended)"; `process.c:221`
  clears the flag. `process.h:48` says `join_target` is 0 when not waiting;
  nothing initialises it.
- `alloc.h:42`: `mm_page_alloc_n` reports out of memory although a long enough
  run lies across the hint (`alloc.c:87`). `alloc.h:28` counts the kernel image
  as reserved; `mm_init` does not reserve it. The second pass of
  `mm_page_alloc_aligned` can pass the end of RAM if the alignment does not
  divide it (`alloc.c:224`); nothing calls it yet.
- `alloc.h:59` promises 8-byte alignment, but the header has 12 bytes
  (`alloc.c:316`). Rounding a size near 2^32 wraps (`alloc.c:287`). `krealloc`
  of an aligned pointer compares the whole block, padding included
  (`alloc.c:430`); nothing calls it so, and `ReallocAligned` is `FALSE` in the
  run.
- `stdio.h:12` "Read one line ... (up to max bytes)": `tty_readline` returns
  all lines in the ring as one, copies `g_line_len` bytes whatever `max` is
  (`tty.c:54`), and keeps the newline when the length is exactly `max - 1`
  (`tty.c:52`). A backspace over a newline leaves the line ready (`tty.c:22`).
  `tty_getchar` can make `g_line_len` wrap (`tty.c:69`) and never reduces
  `g_line_start` modulo the ring (`tty.c:68`, `75`).
- `process.c:276`: an exec whose image does not load frees the L1 table only;
  the pages and L2 tables mapped until then stay allocated for ever, whereas the
  failure a few lines below takes care to "Free pages already mapped into
  new_pgd before bailing" (`process.c:287`). `lost` grows there, and
  `FramesAccounted` and `ObjsAccounted` show that nowhere else does anything leak.
- `kbd.c:90` accepts a queue shorter than 16, but posts 16 buffers and counts the
  rings modulo 16 (`KbdOffered` excludes it).
- `kbd.c`: releasing one shift key while the other is held clears the shift.
  `CharsExact` states the code's rule: the last shift event decides.

Start-up and devices:

- `linker.ld` names two identity-mapped sections for the device tree, the code
  maps four. The exception stacks lie at `STACK_BOTTOM`, inside the range of the
  2 MB heap that starts behind BSS (`kmain.c:63`); they survive because the heap
  is used from below. Flash is unmapped while kboot still runs in it, and the
  TLB is not flushed (`boot.c:35`).
- `dtb.h:113` "`blob` must remain valid for the lifetime of `tree`", and
  `linker.ld:16` has a blob of up to 1 MB: the first stack, whose top `boot.s:67` puts
  64 KB behind the start of the blob, writes over the page below that. `Intact`
  excepts that page, and `ParseExact` is for blobs that are whole without it
  (`Unspoiled`); the run `boot` has one that is not, and its tree is lost.
- `dtb.h:108` "structural inconsistency" is what a damaged blob is to be refused for.
  Sums wrap, however: a property length such as 0xFFFFFFF4 leads the look-ahead
  back to where it was, for ever (`dtb.c:136`), others lead `parse_node` back to the
  end of an earlier node, which then closes the root (`dtb.c:174`); a header with
  `off_struct` near 2^32 passes (`dtb.c:262`) and is then read below the blob; a cell
  count of 2^30 makes the size of an entry 0 (`dtb.c:226`, `436`). A length that is
  merely too large is read behind the block (`dtb.c:68`, `181`), up to memory that is
  not mapped. These are the seven wild blobs of the run `boot`; `Sized` excludes them
  where a property says what only others keep.
- `dtb.c:218` takes any node whose name starts with "memory" for RAM unless
  `device_type` says otherwise; a path component without unit address finds the
  first node with that base name; zero cells on both sides divide by zero
  (`dtb.c:227`), which on the Cortex-A15 gives 0 and leaves the node without
  regions. `DTB_ERR_OVERFLOW` and `DTB_ERR_VERSION` are never returned.
- Without a block device `blk_init` only warns, and the mount's first request
  writes to an unmapped register (`blk.c:82`; step `"fault"` of `Files`).
  `do_request` is "Safe for synchronous single-threaded use only": kmain loads
  init with interrupts enabled (`kmain.c:94`), but no handler makes a request.
- `svc_blk_read` and `svc_blk_write` pass the user's virtual address to
  `virt_to_phys`, so the transfer goes to other memory, for some pointers to the
  kernel's (`syscall.c:133`, `"wild"`). Sector and count are not checked either, so a
  program can write over the file system. A count of 0 makes a descriptor of no
  bytes; a device need not answer it, and `do_request` then polls for ever.
- `fs.c:108` "add a null terminator" is not done. A mount that fails after its
  first pass leaves `g_blob_count` set.
- `gic.c:12` divides the interrupt number by 4 and `gic.h:9` takes the result as a
  byte offset, so another interrupt's target is set.
- `fwcfg_dma_write` waits for ever if the device reports an error
  (`fwcfg.c:53`); `uart_putchar` does not test for a full FIFO.

Shell and output:

- `syscall.h:223` says `sys_fs_blob_info` returns the length of the name and
  stores the size of the data; it returns a kernel pointer, which the shell
  reads, and the length it copied (`syscall.c:145`).
- The shell compares only as many characters as the blob's name has
  (`hash.c:120`), so a longer word starts the shorter program. When `fork` fails
  it joins pid -1 and takes the command for executed; when `exec` fails in the
  child, the child goes on searching and prompts (`hash.c:77`).
- A format that ends in `%` is read past its end (`logs.c:47`). `printf` returns
  at an unknown conversion, `vkprintf` goes on.
- `__aeabi_uldivmod` loses the top bit of the shifted remainder for divisors
  above 2^63 (`builtins.c:61`); `DivExact` is checked and proved up to that. `memcpy`
  returns null when both pointers are equal.
- Without a framebuffer `fb_putc` returns at once (`fb.c:113`). `fb_clear`,
  `fb_putc_at` and the pixel calls lack the test, so a program that draws writes
  through a null pointer (`"null"` in `Console`).
- An echo in the middle of the welcome text can draw one glyph just below the
  screen; `CursorInside` shows that the cursor is always brought back.

## What is not modelled

Access bits, domains and caches, stack growth and data aborts; register set-up
of GIC, UART and fw_cfg (writes without protocol state); the random number
generator (no promise that a small word would keep); floating point (`atof`,
`mandelbrot.c`, `matrix.c`), drawing and fonts; hexdumps and tree printing; the
shell's built-in commands beyond their having no effect on files and processes.
The keyboard and the console line discipline are checked apart, joined by what
`tty_input` gets; the allocators and the address spaces likewise. `PROJECT.json`
gives the reason for each part.

Choices inside the models that leave something out:

- In `pages`, and in the theorems that say so, alignments divide the RAM; in `heap`
  no pointer of `kmalloc_aligned` is given to `krealloc`. The kernel calls neither
  in another way, and what would happen is listed above.
- `CleanLines` is about callers whose buffer is longer than the ring (`clean`). The
  shell's has 256 bytes (`hash.c:99`), as the ring has, so its longest line, which
  keeps its newline, is outside; `InOrder` covers it. The caller's buffer itself has
  no end in `Tty`: that `tty_readline` writes behind it (`tty.c:54`) is listed above.
- `TypeOK` of `Tty` admits every word, a `g_line_len` that has wrapped included; the
  properties to look at are `InOrder` and `CleanLines`.
- The parser's text is one cell per string: that `dtb.c` reads a name or a string
  without looking for its end in the block is seen only to the cell where it begins.

## Plan

1. Proofs: the half of `ParseExact` about a tree of two levels (a root and its
   children), where the induction is over one sequence.
2. Stack growth once the code calls it.
