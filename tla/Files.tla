------------------------------- MODULE Files -------------------------------
(***************************************************************************)
(* From the disk to a running program: the virtio block driver (blk.c,     *)
(* virtio.c) and its device, the file system (fs.c), the loader            *)
(* (process.c, llf.c), the block and file system calls (syscall.c), and    *)
(* the programs that start others: init.c and the shell hash.c.            *)
(*                                                                         *)
(* The kernel runs one thing at a time here: the mount and the system      *)
(* calls run with interrupts masked, and no handler touches any of this    *)
(* while kmain loads init with interrupts enabled.  What runs beside the   *)
(* kernel is the device, which takes requests from the ring and writes to  *)
(* memory on its own.                                                      *)
(***************************************************************************)
EXTENDS DiskImage

CONSTANTS
    FileLists,        \* the files mkfs.py may be given
    Capacity,         \* sectors of the disk
    SlotTypes,        \* what the virtio slots may hold: sequences of device ids
    IDX,              \* 2^16: ring indices wrap there
    NAME_BUF,         \* length of the shell's name buffers
    KNAME,            \* length of process_replace's
    Words,            \* first words a user may type that are no builtin
    UserSectors, UserCounts,  \* what programs ask the block calls for; of a count,
                              \* what is left of it in a descriptor's 32-bit length
    MaxDepth,         \* processes that can exist: fork fails beyond
    VAs               \* addresses of user memory

\* A sequence, of whatever.
Listed(s) == s \in Seq({s[k] : k \in DOMAIN s})

\* The addresses a segment is mapped to.
Mapped(p) == p.vaddr .. p.vaddr + p.memsz - 1

\* An ELF file: a segment holds no more than it is mapped to, and those that are
\* loaded lie in user memory and do not overlap.
ElfOK(elf) ==
    /\ elf.entry \in Int /\ Listed(elf.phdrs)
    /\ \A i \in DOMAIN elf.phdrs :
          LET p == elf.phdrs[i]
          IN  /\ {p.type, p.flags, p.vaddr, p.memsz} \subseteq Int
              /\ p.data \in Seq(Int) /\ Len(p.data) <= p.memsz
              /\ p.type = PT_LOAD => Mapped(p) \subseteq VAs
    /\ \A i, j \in DOMAIN elf.phdrs :
          elf.phdrs[i].type = PT_LOAD /\ elf.phdrs[j].type = PT_LOAD /\ i # j
            => Mapped(elf.phdrs[i]) \cap Mapped(elf.phdrs[j]) = {}

\* A file mkfs.py is given: one that is no ELF file is no LLF file either.
FileOK(f) ==
    /\ f.name \in Seq(Int) /\ f.flags \in Int
    /\ f.elf = <<>> => f.raw \in Seq(Int) /\ (f.raw = <<>> \/ f.raw[1] # LLF_MAGIC)
    /\ f.elf # <<>> => ElfOK(f.elf[1])

\* A sector holds a header, and the disk the image.
ASSUME FilesConstants ==
    /\ SECTOR \in Nat /\ SECTOR >= FS_HEADER /\ Capacity \in Nat \ {0}
    /\ IDX \in Nat /\ IDX >= 2 /\ MaxDepth \in Nat \ {0} /\ NAME_BUF \in Nat \ {0}
    /\ KNAME \in Nat /\ KNAME > 1 /\ UserSectors \subseteq Nat /\ UserCounts \subseteq Nat
    /\ Words \subseteq Seq(Int) /\ VAs \subseteq Int
    /\ \A fl \in FileLists :
          /\ Listed(fl) /\ \A i \in DOMAIN fl : FileOK(fl[i])
          /\ Len(build_fs(fl)) <= Capacity * SECTOR

VIRTIO_DEVICE_BLOCK == 2
InitName == <<1>>            \* "init" and "hash", one character each
HashName == <<2>>
NoProg == [name |-> <<>>, memory |-> [va \in VAs |-> -1], entry |-> -1]

VARIABLES
    files, slots,     \* what mkfs.py packed, and the machine
    disk,             \* cells of the disk
    written,          \* history: the sectors that programs have written to
    g_blk_base,       \* slot number of the device, from 1; 0 for none
    req,              \* descriptors 0 to 2: type, sector, count, buf; status
    avail_idx, used_idx, g_last_used_idx,
    dev_idx,          \* the device's own: requests it has served
    bufs,             \* buffer -> cells the device or the kernel put there
    heap,             \* the live kmalloc blocks
    g_blob_count, g_blobs, g_names,
    pc, ret,          \* where the kernel is, and where do_request returns to
    procs,            \* a process, its child, its child's child, ...
    prog              \* the program loaded last: name, memory and entry

ioVars == <<disk, written, g_blk_base, req, avail_idx, used_idx, g_last_used_idx, dev_idx, bufs, ret>>
fsVars == <<g_blob_count, g_blobs, g_names>>
vars == <<files, slots, ioVars, fsVars, heap, pc, procs, prog>>

Frame(kind, at, word, i, name) ==
    [kind |-> kind, at |-> at, word |-> word, i |-> i, name |-> name]
Simple(kind) == Frame(kind, "run", <<>>, 0, <<>>)
NoReq == [type |-> "none", sector |-> 0, count |-> 0, buf |-> "none", status |-> 255]

Init ==
    /\ files \in FileLists /\ slots \in SlotTypes
    /\ LET image == build_fs(files)
       IN disk = image \o [k \in 1 .. Capacity * SECTOR - Len(image) |-> 0]
    /\ written = {}
    /\ g_blk_base = 0 /\ req = NoReq
    /\ avail_idx = 0 /\ used_idx = 0 /\ g_last_used_idx = 0 /\ dev_idx = 0
    /\ bufs = [b \in {"hdr", "desc", "name", "blob", "user"} |-> <<>>]
    /\ heap = {} /\ g_blob_count = 0 /\ g_blobs = <<>> /\ g_names = <<>>
    /\ pc = "boot" /\ ret = "none" /\ procs = <<Simple("kmain")>> /\ prog = NoProg

-----------------------------------------------------------------------------
(* blk.c and virtio.c.                                                     *)

\* virtio_find_device: the first slot that holds such a device.
virtio_find_device(id) ==
    LET hits == {k \in DOMAIN slots : slots[k] = id}
    IN  IF hits = {} THEN 0 ELSE CHOOSE k \in hits : \A j \in hits : k <= j

\* blk_init and setup_requestq.  Without a device the kernel goes on.
blk_init ==
    /\ pc = "boot"
    /\ g_blk_base' = virtio_find_device(VIRTIO_DEVICE_BLOCK)
    /\ avail_idx' = 0 /\ used_idx' = 0
    /\ pc' = "mount"
    /\ UNCHANGED <<files, slots, disk, written, req, g_last_used_idx, dev_idx, bufs, ret, fsVars, heap, procs, prog>>

\* A u16 index of a ring.
NextIdx(i) == (i + 1) % IDX

\* do_request up to its polling loop.  Without a device the notification goes
\* to an unmapped address, and the data abort handler stops the machine.
do_request(type, sector, count, buf, next) ==
    /\ IF g_blk_base = 0
         THEN pc' = "fault" /\ UNCHANGED <<req, avail_idx, ret>>
         ELSE /\ req' = [type |-> type, sector |-> sector, count |-> count, buf |-> buf, status |-> 255]
              /\ avail_idx' = NextIdx(avail_idx)
              /\ ret' = next
              /\ pc' = "poll"
    /\ UNCHANGED <<disk, written, g_blk_base, used_idx, g_last_used_idx, dev_idx, bufs>>

\* Mutant of UsedMoved: the index is compared with the requests made.
UsedMovedEarly == avail_idx # g_last_used_idx

\* The condition that ends the polling loop.
UsedMoved == used_idx # g_last_used_idx

\* The end of do_request.
PollDone ==
    /\ pc = "poll" /\ UsedMoved
    /\ g_last_used_idx' = NextIdx(g_last_used_idx)
    /\ pc' = ret
    /\ UNCHANGED <<files, slots, disk, written, g_blk_base, req, avail_idx, used_idx, dev_idx, bufs, ret>>
    /\ UNCHANGED <<fsVars, heap, procs, prog>>

Ok == req.status = 0

\* The data of a request.  The driver passes a pointer below the kernel's for a
\* physical address: that of a user buffer reaches nothing.  One that does reach
\* RAM lets the device write over whatever lies there, and nothing is said of
\* what the machine does then ("wild").
DeviceMoves ==
    LET lo == req.sector * SECTOR
        hi == (req.sector + req.count) * SECTOR
    IN  IF req.type = "in"
          THEN /\ bufs' = IF req.buf \in {"user", "ram"} THEN bufs
                          ELSE [bufs EXCEPT ![req.buf] = SubSeq(disk, lo + 1, hi)]
               /\ pc' = IF req.buf = "ram" /\ req.count # 0 THEN "wild" ELSE pc
               /\ UNCHANGED <<disk, written>>
          ELSE /\ disk' = [k \in DOMAIN disk |-> IF k \in lo + 1 .. hi THEN 99 ELSE disk[k]]
               /\ written' = written \cup (req.sector .. req.sector + req.count - 1)
               /\ UNCHANGED <<bufs, pc>>

\* The device serves a request: it moves the data, unless the sectors are not
\* there or the medium fails, and then writes the status byte.
DeviceServes ==
    /\ dev_idx # avail_idx
    /\ dev_idx' = avail_idx
    /\ \/ /\ req.sector + req.count <= Capacity
          /\ req' = [req EXCEPT !.status = 0]
          /\ DeviceMoves
       \/ /\ req' = [req EXCEPT !.status = 1]
          /\ UNCHANGED <<disk, written, bufs, pc>>
    /\ UNCHANGED <<files, slots, g_blk_base, avail_idx, used_idx, g_last_used_idx, ret>>
    /\ UNCHANGED <<fsVars, heap, procs, prog>>

\* ... and publishes it in the used ring.
DevicePublishes ==
    /\ used_idx # dev_idx
    /\ used_idx' = dev_idx
    /\ UNCHANGED <<files, slots, disk, written, g_blk_base, req, avail_idx, g_last_used_idx, dev_idx, bufs>>
    /\ UNCHANGED ret
    /\ UNCHANGED <<fsVars, heap, pc, procs, prog>>

-----------------------------------------------------------------------------
(* fs.c.                                                                   *)

DescEnd(count) == FS_HEADER + count * FS_DESC

\* kmain stops when fs_mount fails.
MountFails == pc' = "halt" /\ UNCHANGED ioVars

\* fs_mount, pass 1: one sector, to a buffer on the stack.
fs_mount ==
    /\ pc = "mount"
    /\ g_blob_count' = 0 /\ g_blobs' = <<>> /\ g_names' = <<>>
    /\ do_request("in", 0, 1, "hdr", "header")
    /\ UNCHANGED <<files, slots, heap, procs, prog>>

\* The header is checked, and the descriptor table asked for.
ReadHeader ==
    /\ pc = "header"
    /\ UNCHANGED <<files, slots, g_blobs, g_names, procs, prog>>
    /\ LET hdr == bufs["hdr"]
       IN IF ~ Ok \/ hdr[1] # FS_MAGIC
            THEN MountFails /\ UNCHANGED <<g_blob_count, heap>>
          ELSE /\ g_blob_count' = hdr[2]
               /\ IF hdr[2] = 0 THEN pc' = "mounted" /\ UNCHANGED <<ioVars, heap>>
                  ELSE \/ MountFails /\ UNCHANGED heap
                       \/ /\ heap' = heap \cup {"desc"}
                          /\ do_request("in", 0, Sectors(DescEnd(hdr[2])), "desc", "descs")

\* The extent of the names, over all descriptors.
NamesSize(blobs) ==
    LET ends == {blobs[i].name_offset + blobs[i].name_size : i \in DOMAIN blobs} \cup {0}
    IN  CHOOSE n \in ends : \A m \in ends : m <= n

\* The descriptors as they lie behind the header in the buffer.
Descriptors(buf) ==
    [i \in 1 .. g_blob_count |->
       LET at == FS_HEADER + (i - 1) * FS_DESC
       IN [offset |-> buf[at + 1], size |-> buf[at + 2], name_offset |-> buf[at + 3],
           name_size |-> buf[at + 4], flags |-> buf[at + 5]]]

\* Pass 2: the table is copied and its buffer freed; pass 3 asks for the names.
\* Each kmalloc can fail.
ReadDescs ==
    /\ pc = "descs"
    /\ UNCHANGED <<files, slots, g_blob_count, g_names, procs, prog>>
    /\ \/ /\ heap' = heap \ {"desc"}           \* the read failed, or kmalloc(g_blobs)
          /\ MountFails /\ UNCHANGED g_blobs
       \/ /\ Ok
          /\ g_blobs' = Descriptors(bufs["desc"])
          /\ \/ heap' = heap \ {"desc"} /\ MountFails       \* kmalloc(name_buf)
             \/ /\ heap' = (heap \ {"desc"}) \cup {"blobs", "name"}
                /\ do_request("in", 0, Sectors(DescEnd(g_blob_count) + NamesSize(g_blobs')),
                              "name", "names")

\* Mutant of NamesFailed: the descriptors are forgotten.
NamesFailedLeak == heap' = heap \ {"name"}

\* What the error paths of pass 3 free.
NamesFailed == heap' = heap \ {"blobs", "name"}

\* Pass 3: the names are copied; no terminator is put between them.
ReadNames ==
    /\ pc = "names"
    /\ UNCHANGED <<files, slots, ioVars, g_blob_count, g_blobs, procs, prog>>
    /\ \/ NamesFailed /\ pc' = "halt" /\ UNCHANGED g_names
       \/ /\ Ok
          /\ g_names' = SubSeq(bufs["name"], DescEnd(g_blob_count) + 1,
                               DescEnd(g_blob_count) + NamesSize(g_blobs))
          /\ heap' = (heap \ {"name"}) \cup {"names"}
          /\ pc' = "mounted"

\* The n characters at fs_blob_name(b).
NameAt(b, n) == SubSeq(g_names, b.name_offset + 1, b.name_offset + n)

\* Mutant of fs_find: the length is not compared.
FsFindPrefix(name) ==
    LET hits == {i \in DOMAIN g_blobs :
                   /\ g_blobs[i].name_size <= Len(name)
                   /\ NameAt(g_blobs[i], g_blobs[i].name_size) = SubSeq(name, 1, g_blobs[i].name_size)}
    IN  IF hits = {} THEN 0 ELSE CHOOSE i \in hits : \A j \in hits : i <= j

\* fs_find: the first blob of that length and name, 0 for none.
fs_find(name) ==
    LET hits == {i \in DOMAIN g_blobs :
                   /\ g_blobs[i].name_size = Len(name)
                   /\ NameAt(g_blobs[i], Len(name)) = name}
    IN  IF hits = {} THEN 0 ELSE CHOOSE i \in hits : \A j \in hits : i <= j

-----------------------------------------------------------------------------
(* load_user_image: exec of the running process, procs' last.              *)

Top == procs[Len(procs)]
Below == SubSeq(procs, 1, Len(procs) - 1)
Hash(at, word, i) == Frame("hash", at, word, i, <<>>)

\* What the process goes on with.  init returns when it cannot become hash;
\* without processes the machine halts.
Loaded ==
    /\ procs' = Append(Below, CASE Top.kind = "kmain" -> Simple("init")
                                [] Top.kind = "init" -> Hash("prompt", <<>>, 0)
                                [] Top.kind = "hash" -> Simple("prog"))
    /\ pc' = "user"

NotLoaded ==
    /\ UNCHANGED prog
    /\ IF Top.kind = "hash"
         THEN procs' = Append(Below, Hash("search", Top.word, Top.i + 1)) /\ pc' = "user"
         ELSE procs' = Below /\ pc' = "halt"

\* The file is found and read into a block of whole sectors; kmalloc gives none
\* for an empty one.
load_user_image(name) ==
    /\ UNCHANGED <<files, slots, fsVars>>
    /\ LET i == fs_find(name)
           b == g_blobs[i]
       IN IF i = 0 THEN NotLoaded /\ UNCHANGED <<ioVars, heap>>
          ELSE IF b.flags # FS_TYPE_EXECUTABLE THEN NotLoaded /\ UNCHANGED <<ioVars, heap>>
          ELSE \/ NotLoaded /\ UNCHANGED <<ioVars, heap>>           \* kmalloc fails
               \/ /\ b.size # 0
                  /\ heap' = heap \cup {"blob"}
                  /\ do_request("in", b.offset \div SECTOR, Sectors(b.size), "blob", "load")
                  /\ procs' = Append(Below, [Top EXCEPT !.name = name]) /\ UNCHANGED prog

\* llf_load checks the magic only: program headers and data have to lie in the
\* buffer, and the segments in user memory.
LlfFits(buf) ==
    /\ buf[4] + buf[5] * LLF_PHDR <= Len(buf)
    /\ \A i \in 0 .. buf[5] - 1 :
          LET ph == Phdr(buf, i)
          IN  ph.type # LLF_SEG_NULL =>
                /\ Mapped(ph) \subseteq VAs
                /\ ph.type = LLF_SEG_LOAD => ph.filesz <= ph.memsz /\ ph.offset + ph.filesz <= Len(buf)

\* The file is loaded into the new address space, whose frames hold junk, and
\* the block is freed.  Any of the allocations of llf_load can fail, and so can
\* those of the stack behind it.  By then llf_load has left the kernel's table
\* installed: exec returns to a program that is not mapped, and its next fetch
\* aborts, unless an interrupt comes first, whose return installs its table
\* again.  With a file that does not fit, it writes and reads past its bounds.
LoadImage ==
    /\ pc = "load"
    /\ heap' = heap \ {"blob"}
    /\ UNCHANGED <<files, slots, ioVars, fsVars>>
    /\ \/ NotLoaded
       \/ /\ Ok /\ LlfValid(bufs["blob"])
          /\ IF ~ LlfFits(bufs["blob"]) THEN pc' = "wild" /\ UNCHANGED <<procs, prog>>
             ELSE \/ /\ prog' = [name |-> Top.name, entry |-> bufs["blob"][3],
                                 memory |-> llf_load([va \in VAs |-> 98], bufs["blob"])]
                     /\ Loaded
                  \/ Top.kind # "kmain" /\ pc' = "fault" /\ UNCHANGED <<procs, prog>>

\* process_replace: the name is copied to a buffer on the kernel's stack, without
\* a limit; what a longer one writes over decides what happens.
process_replace(name) ==
    IF Len(name) >= KNAME
      THEN pc' = "wild" /\ UNCHANGED <<files, slots, ioVars, fsVars, heap, procs, prog>>
      ELSE load_user_image(name)

\* kmain makes init, and init becomes hash.
ExecFirst ==
    \/ pc = "mounted" /\ load_user_image(InitName)
    \/ pc = "user" /\ Top.kind = "init" /\ process_replace(HashName)

-----------------------------------------------------------------------------
(* hash.c, and the system calls of programs.                               *)

Idle == UNCHANGED <<files, slots, ioVars, fsVars, heap>>
Running(kind, at) == pc = "user" /\ Top.kind = kind /\ Top.at = at
Becomes(frame) == procs' = Append(Below, frame) /\ UNCHANGED <<pc, prog>>

\* svc_fs_blob_info: the name, cut to the caller's buffer, and its length.
svc_fs_blob_info(i) ==
    LET b == g_blobs[i + 1]
        copy_len == IF NAME_BUF - 1 < b.name_size THEN NAME_BUF - 1 ELSE b.name_size
    IN  [name |-> NameAt(b, copy_len), size |-> copy_len, flags |-> b.flags]

\* strncmp(name, word, size) = 0
strncmp(name, word, size) == Len(word) >= size /\ SubSeq(word, 1, size) = SubSeq(name, 1, size)

\* A line is typed: an empty one and a builtin other than exit change nothing.
ReadLine ==
    /\ Running("hash", "prompt")
    /\ \E w \in Words : Becomes(Hash("search", w, 0))
    /\ Idle

\* Mutant of NextBlob: the search stays where it is.
NextBlobSame(frame) == frame.i

\* Where the search goes on when this blob is not the one.
NextBlob(frame) == frame.i + 1

\* One blob of the shell's search.  For a blob whose name the word starts with
\* the shell forks and joins; when fork fails it joins nothing and is done.
Search ==
    /\ Running("hash", "search")
    /\ Idle
    /\ IF Top.i >= g_blob_count THEN Becomes(Hash("prompt", <<>>, 0))    \* Unknown command
       ELSE LET b == svc_fs_blob_info(Top.i)
            IN IF ~ (b.flags = FS_TYPE_EXECUTABLE /\ strncmp(b.name, Top.word, b.size))
                 THEN Becomes(Hash("search", Top.word, NextBlob(Top)))
               ELSE IF Len(procs) >= MaxDepth THEN Becomes(Hash("prompt", <<>>, 0))
               ELSE /\ procs' = Below \o <<Hash("join", Top.word, Top.i), Hash("exec", Top.word, Top.i)>>
                    /\ UNCHANGED <<pc, prog>>

\* The child calls sys_exec.
ChildExec ==
    /\ Running("hash", "exec")
    /\ process_replace(svc_fs_blob_info(Top.i).name)

\* A program or a shell ends; the parent's join returns and it prompts again.
Exit ==
    /\ Running("prog", "run") \/ Running("hash", "prompt")
    /\ Idle
    /\ UNCHANGED prog
    /\ IF Len(procs) = 1 THEN procs' = <<>> /\ pc' = "halt"
       ELSE procs' = Append(SubSeq(procs, 1, Len(procs) - 2), Hash("prompt", <<>>, 0)) /\ UNCHANGED pc

\* svc_blk_read and svc_blk_write of a program, with whatever it passes: the
\* pointer to its own memory, or one that reaches RAM.
svc_blk ==
    /\ Running("prog", "run")
    /\ \E type \in {"in", "out"}, sector \in UserSectors, count \in UserCounts, buf \in {"user", "ram"} :
          do_request(type, sector, count, buf, "user")
    /\ UNCHANGED <<files, slots, fsVars, heap, procs, prog>>

Kernel == blk_init \/ fs_mount \/ ReadHeader \/ ReadDescs \/ ReadNames \/ LoadImage \/ PollDone
User == ExecFirst \/ Search \/ ChildExec
Device == DeviceServes \/ DevicePublishes

Next == Kernel \/ User \/ Device \/ ReadLine \/ Exit \/ svc_blk

Spec == Init /\ [][Next]_vars

\* The processor goes on, and so does the device, which need not answer a request
\* with a buffer of no bytes; programs end.  A user need not type.
FairSpec ==
    /\ Spec /\ WF_vars(Kernel) /\ WF_vars(User)
    /\ WF_vars(Device /\ req.count # 0) /\ SF_vars(Exit /\ Top.kind = "prog")

-----------------------------------------------------------------------------

\* Every variable has its type.
TypeOK ==
    /\ pc \in {"boot", "mount", "poll", "header", "descs", "names", "mounted", "load", "user",
               "halt", "fault", "wild"}
    /\ {avail_idx, used_idx, g_last_used_idx, dev_idx} \subseteq 0 .. IDX - 1
    /\ Len(disk) = Capacity * SECTOR
    /\ heap \subseteq {"desc", "blobs", "name", "names", "blob"}
    /\ Len(procs) <= MaxDepth

\* do_request returns when the device is through with the request: while one
\* is outstanding the kernel polls, and the buffer the device writes to is a
\* live block, the stack of fs_mount, or not the kernel's.
OneRequest ==
    /\ dev_idx # avail_idx => pc = "poll"
    /\ used_idx # dev_idx => pc \in {"poll", "wild"}
    /\ pc = "poll" /\ req.buf \notin {"hdr", "user", "ram"} => req.buf \in heap
    /\ pc \notin {"boot", "poll", "fault"} => req.status # 255 \/ req = NoReq

\* One request at a time, with indices that stay 16-bit words.
RequestOK == TypeOK /\ OneRequest

\* kmalloc and kfree of fs_mount and load_user_image balance on every path:
\* only descriptors and names of a mounted file system stay.
HeapBalanced ==
    /\ pc = "halt" /\ procs # <<>> /\ Top.kind = "kmain" => heap = {}
    /\ pc = "user" => heap = {"blobs", "names"}

\* What the tools packed under a name: the first file called so, 0 for none.
FileOf(name) ==
    LET hits == {i \in DOMAIN files : files[i].name = name}
    IN  IF hits = {} THEN 0 ELSE CHOOSE i \in hits : \A j \in hits : i <= j

\* A mounted file system has the files mkfs.py packed, in order: fs_find gets
\* the first of exactly that name though the names are stored without ends,
\* and svc_fs_blob_info each name as far as it fits.
DirectoryExact ==
    pc = "user" =>
        /\ g_blob_count = Len(files)
        /\ \A w \in Words \cup {InitName, HashName} : fs_find(w) = FileOf(w)
        /\ \A i \in DOMAIN files :
              LET info == svc_fs_blob_info(i - 1)
              IN  info.name = SubSeq(files[i].name, 1, info.size) /\ info.flags = files[i].flags

\* What the program headers of an ELF file say about an address.
ElfCell(elf, va) ==
    LET holds == {i \in DOMAIN elf.phdrs :
                    /\ elf.phdrs[i].type = PT_LOAD /\ va \in Mapped(elf.phdrs[i])}
    IN  IF holds = {} THEN 98
        ELSE LET p == elf.phdrs[CHOOSE i \in holds : TRUE]
             IN  IF va - p.vaddr < Len(p.data) THEN p.data[va - p.vaddr + 1] ELSE 0

\* The sectors of a file.
Extent(b) == b.offset \div SECTOR .. b.offset \div SECTOR + Sectors(b.size) - 1

\* A program that runs is the ELF file that was packed under its name, word
\* for word, its .bss cleared: through llf.py, mkfs.py, the disk, the ring,
\* fs_mount, fs_read and llf_load.  A program that has written over the file is
\* answered for by nobody.
LoadedExact ==
    prog # NoProg /\ written \cap Extent(g_blobs[fs_find(prog.name)]) = {} =>
        LET elf == files[FileOf(prog.name)].elf[1]
        IN  prog.entry = elf.entry /\ \A va \in VAs : prog.memory[va] = ElfCell(elf, va)

\* Somebody reads the next line, or there is nobody left.
Settled == pc \in {"halt", "fault"} \/ (pc = "user" /\ Top.kind = "hash" /\ Top.at = "prompt")

\* The names of the programs fit the buffer of process_replace.
NamesFit == \A i \in DOMAIN files : files[i].flags = FS_TYPE_EXECUTABLE => Len(files[i].name) < KNAME

\* No program has used the block calls to write over a file, to read into the
\* kernel's memory, or for no sectors at all.
Tame ==
    /\ \A i \in DOMAIN g_blobs : written \cap Extent(g_blobs[i]) = {}
    /\ pc = "poll" => req.count # 0 /\ ~ (req.type = "in" /\ req.buf = "ram")

\* The boot and every command line come to an end: a shell prompts again, be it
\* the child whose exec failed, or the machine halts.  Where the names fit and
\* programs keep to their sectors, nothing goes wild and no request waits.
PromptReturns == NamesFit /\ []Tame => []<>Settled
=============================================================================
