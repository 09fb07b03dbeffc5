----------------------------- MODULE DiskImage -----------------------------
(***************************************************************************)
(* The image tools of legfs/: llf.py, which turns an ELF file into an LLF  *)
(* file, and mkfs.py, which packs files into the image on the disk; and    *)
(* how the kernel reads an LLF file back (llf.c).                          *)
(*                                                                         *)
(* Memory and disk are sequences of cells, one for every field of the      *)
(* on-disk structures, every character of a name and every word of data;   *)
(* all of them are numbers.  Offsets and sizes count cells.                *)
(***************************************************************************)
EXTENDS Integers, Sequences

CONSTANT SECTOR              \* cells of a 512-byte sector

FS_MAGIC == 77
FS_HEADER == 2               \* magic, blob_count
FS_DESC == 5                 \* offset, size, name_offset, name_size, flags
FS_TYPE_EXECUTABLE == 1

LLF_MAGIC == 78
LLF_HEADER == 6              \* magic, version, entry, ph_off, ph_count, flags
LLF_PHDR == 7                \* type, flags, vaddr, memsz, filesz, offset, align
LLF_SEG_NULL == 0
LLF_SEG_LOAD == 1
LLF_SEG_NOBITS == 2
PT_LOAD == 1

Sectors(n) == (n + SECTOR - 1) \div SECTOR
align_up(n) == Sectors(n) * SECTOR
Pad(cells) == cells \o [k \in 1 .. align_up(Len(cells)) - Len(cells) |-> 0]

\* The parts one behind the other.
Concat(parts) ==
    LET upto[k \in 0 .. Len(parts)] == IF k = 0 THEN <<>> ELSE upto[k - 1] \o parts[k]
    IN  upto[Len(parts)]

\* Where each of them starts.
Offsets(lens, start) ==
    LET at[i \in DOMAIN lens] == IF i = 1 THEN start ELSE at[i - 1] + lens[i - 1]
    IN  at

-----------------------------------------------------------------------------
(* llf.py.  An ELF file is its entry and its program headers with the      *)
(* p_filesz cells each points to.                                          *)

Segment(p) ==
    [type |-> IF p.data = <<>> THEN LLF_SEG_NOBITS ELSE LLF_SEG_LOAD,
     flags |-> p.flags, vaddr |-> p.vaddr, memsz |-> p.memsz, data |-> p.data]

parse_elf(elf) ==
    LET segments[k \in 0 .. Len(elf.phdrs)] ==
          IF k = 0 THEN <<>>
          ELSE LET p == elf.phdrs[k]
               IN  IF p.type # PT_LOAD \/ p.memsz = 0 THEN segments[k - 1]
                   ELSE Append(segments[k - 1], Segment(p))
    IN  segments[Len(elf.phdrs)]

\* Mutant of DataOffsets: the offsets count from the end of the header.
DataOffsetsLow(segs) == Offsets([i \in DOMAIN segs |-> Len(segs[i].data)], LLF_HEADER)

\* The data of the segments follows the program headers.
DataOffsets(segs) ==
    Offsets([i \in DOMAIN segs |-> Len(segs[i].data)], LLF_HEADER + Len(segs) * LLF_PHDR)

to_llf_bytes(entry, segs) ==
    LET phdr(i) == <<segs[i].type, segs[i].flags, segs[i].vaddr, segs[i].memsz, Len(segs[i].data),
                     IF segs[i].data = <<>> THEN 0 ELSE DataOffsets(segs)[i], 0>>
    IN  <<LLF_MAGIC, 1, entry, LLF_HEADER, Len(segs), 0>>
          \o Concat([i \in DOMAIN segs |-> phdr(i)])
          \o Concat([i \in DOMAIN segs |-> segs[i].data])

-----------------------------------------------------------------------------
(* mkfs.py.  A file is [name, flags, elf, raw]; raw is the content of one  *)
(* that is not an ELF file.                                                *)

load_blob(file) ==
    IF file.elf = <<>> THEN file.raw ELSE to_llf_bytes(file.elf[1].entry, parse_elf(file.elf[1]))

build_fs(files) ==
    LET datas == [i \in DOMAIN files |-> load_blob(files[i])]
        lens == [i \in DOMAIN files |-> Len(files[i].name)]
        name_offsets == Offsets(lens, 0)
        names == Concat([i \in DOMAIN files |-> files[i].name])
        names_start == FS_HEADER + FS_DESC * Len(files)
        data_start == align_up(names_start + Len(names))
        blob_offsets == Offsets([i \in DOMAIN files |-> align_up(Len(datas[i]))], data_start)
    IN  Pad(<<FS_MAGIC, Len(files)>>
              \o Concat([i \in DOMAIN files |->
                           <<blob_offsets[i], Len(datas[i]), name_offsets[i], lens[i], files[i].flags>>])
              \o names)
          \o Concat([i \in DOMAIN files |-> Pad(datas[i])])

-----------------------------------------------------------------------------
(* llf_load.  buf is the buffer of the file, read with offsets from 0.     *)

Phdr(buf, i) ==
    LET at == buf[4] + i * LLF_PHDR
    IN  [type |-> buf[at + 1], vaddr |-> buf[at + 3], memsz |-> buf[at + 4],
         filesz |-> buf[at + 5], offset |-> buf[at + 6]]

LlfValid(buf) == Len(buf) >= LLF_HEADER /\ buf[1] = LLF_MAGIC

\* memclr of the segment, then memcpy of what the file holds.
WriteSegment(memory, buf, ph) ==
    [va \in DOMAIN memory |->
       IF ph.type = LLF_SEG_NULL \/ va \notin ph.vaddr .. ph.vaddr + ph.memsz - 1 THEN memory[va]
       ELSE IF ph.type = LLF_SEG_LOAD /\ va < ph.vaddr + ph.filesz
         THEN buf[ph.offset + (va - ph.vaddr) + 1] ELSE 0]

\* The memory of a process over memory, which is what its fresh frames hold.
llf_load(memory, buf) ==
    LET after[i \in 0 .. buf[5]] ==
          IF i = 0 THEN memory ELSE WriteSegment(after[i - 1], buf, Phdr(buf, i - 1))
    IN after[buf[5]]
=============================================================================
