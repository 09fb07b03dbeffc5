---------------------------- MODULE FilesProofs ----------------------------
(***************************************************************************)
(* Files for every machine, disk and list of files: do_request and the     *)
(* device never overlap (RequestOK), the heap blocks of fs_mount and       *)
(* load_user_image balance on every path (HeapBalanced), a mounted file    *)
(* system has the files mkfs.py packed (DirectoryExact), and a program     *)
(* that runs is the ELF file packed under its name (LoadedExact).          *)
(*                                                                         *)
(* For the last two: what Concat, Offsets, build_fs and to_llf_bytes put   *)
(* where, by the sums of the lengths; what llf_load makes of it; and that  *)
(* each buffer holds the sectors the code asked for.                       *)
(***************************************************************************)
EXTENDS Files, SequenceTheorems, WellFoundedInduction, TLAPS

-----------------------------------------------------------------------------
(* The inductive invariant.                                                *)

\* Where the kernel is, or where it goes on when the device is through.
At == IF pc = "poll" THEN ret ELSE pc

\* The buffers of the requests a place in the code waits for.
BufOf == [header |-> {"hdr"}, descs |-> {"desc"}, names |-> {"name"}, load |-> {"blob"},
          user |-> {"user", "ram"}]

\* The indices of the two sides agree but for the one request the kernel polls on.
RingInv ==
    /\ {avail_idx, used_idx, g_last_used_idx, dev_idx} \subseteq 0 .. IDX - 1
    /\ req = [type |-> req.type, sector |-> req.sector, count |-> req.count, buf |-> req.buf,
              status |-> req.status]
    /\ pc = "boot" => avail_idx = 0
    /\ pc # "poll" => dev_idx = avail_idx /\ (req.status # 255 \/ req = NoReq)
    /\ pc \notin {"poll", "wild"} => used_idx = avail_idx /\ g_last_used_idx = avail_idx
    /\ pc = "poll" =>
          /\ avail_idx = NextIdx(g_last_used_idx)
          /\ dev_idx \in {g_last_used_idx, avail_idx} /\ used_idx \in {g_last_used_idx, dev_idx}
          /\ dev_idx = avail_idx => req.status # 255
          /\ ret \in DOMAIN BufOf /\ req.buf \in BufOf[ret]

\* Who runs: kmain until init is loaded, and nobody beside it.
ProcInv ==
    /\ pc \in {"boot", "mount", "poll", "header", "descs", "names", "mounted", "load", "user",
               "halt", "fault", "wild"}
    /\ Listed(procs) /\ Len(procs) <= MaxDepth
    /\ \A k \in 1 .. Len(procs) :
          /\ procs[k].kind \in {"kmain", "init", "hash", "prog"}
          /\ procs[k].kind = "kmain" => Len(procs) = 1
    /\ At \in {"boot", "mount", "header", "descs", "names", "mounted"} =>
          Len(procs) = 1 /\ Top.kind = "kmain"
    /\ At = "load" => Len(procs) >= 1 /\ Top.kind # "prog"
    /\ At = "user" => Len(procs) >= 1 /\ Top.kind # "kmain"

\* The blocks that are live at each place.
HeapInv ==
    /\ heap \subseteq {"desc", "blobs", "name", "names", "blob"}
    /\ At \in {"boot", "mount", "header"} => heap = {}
    /\ At = "header" => g_blobs = <<>>
    /\ At = "descs" => heap = {"desc"}
    /\ At = "names" => heap = {"blobs", "name"}
    /\ At = "mounted" => heap = {"blobs", "names"} \/ (heap = {} /\ g_blobs = <<>>)
    /\ At = "load" => heap = {"blobs", "names", "blob"}
    /\ At = "user" => heap = {"blobs", "names"}
    /\ pc = "halt" /\ procs # <<>> /\ Top.kind = "kmain" => heap = {}

DiskInv == disk \in Seq(Int) /\ Len(disk) = Capacity * SECTOR

FilesInv == RingInv /\ ProcInv /\ HeapInv /\ DiskInv

-----------------------------------------------------------------------------
(* Sequences of whatever, and the chain of processes.                      *)

\* Append.
LEMMA AppendListed ==
    ASSUME NEW s, Listed(s), NEW x
    PROVE  /\ Listed(Append(s, x)) /\ Len(s) \in Nat /\ Len(Append(s, x)) = Len(s) + 1
           /\ \A k \in 1 .. Len(s) : Append(s, x)[k] = s[k]
           /\ Append(s, x)[Len(s) + 1] = x
  <1> DEFINE S == Range(s) \cup {x}
  <1>1. s \in Seq(S)
    <2>1. Range(s) \subseteq S
      OBVIOUS
    <2>2. QED BY <2>1, SeqMonotonic DEF Listed, Range
  <1>2. x \in S
    OBVIOUS
  <1> HIDE DEF S
  <1>3. /\ Append(s, x) \in Seq(S) /\ Len(Append(s, x)) = Len(s) + 1
        /\ \A k \in 1 .. Len(s) : Append(s, x)[k] = s[k]
        /\ Append(s, x)[Len(s) + 1] = x
    BY <1>1, <1>2, AppendProperties
  <1>4. Listed(Append(s, x))
    BY <1>3, SeqOfRange DEF Listed
  <1>5. Len(s) \in Nat
    BY <1>1, LenProperties
  <1>6. QED BY <1>3, <1>4, <1>5

\* A first part.
LEMMA PrefixListed ==
    ASSUME NEW s, Listed(s), NEW n \in Nat, n <= Len(s)
    PROVE  /\ Listed(SubSeq(s, 1, n)) /\ Len(SubSeq(s, 1, n)) = n
           /\ \A k \in 1 .. n : SubSeq(s, 1, n)[k] = s[k]
  <1> DEFINE S == Range(s)
             t == SubSeq(s, 1, n)
  <1>1. s \in Seq(S) /\ Len(s) \in Nat
    BY LenProperties DEF Listed, Range
  <1> HIDE DEF S
  <1>2. \A i \in 1 .. n : s[i] \in S
    BY <1>1, ElementOfSeq
  <1>3. /\ t \in Seq(S) /\ Len(t) = (IF 1 <= n THEN n - 1 + 1 ELSE 0)
        /\ \A i \in 1 .. n - 1 + 1 : t[i] = s[1 + i - 1]
    BY <1>2, SubSeqProperties
  <1> HIDE DEF t
  <1>4. Listed(t)
    BY <1>3, SeqOfRange DEF Listed
  <1>5. QED BY <1>3, <1>4 DEF t

\* What is below the running process, and another one in its place.
LEMMA TopReplaced ==
    ASSUME Listed(procs), Len(procs) >= 1, NEW f
    PROVE  /\ Len(procs) \in Nat
           /\ Listed(Below) /\ Len(Below) = Len(procs) - 1
           /\ \A k \in 1 .. Len(procs) - 1 : Below[k] = procs[k]
           /\ Listed(Append(Below, f)) /\ Len(Append(Below, f)) = Len(procs)
           /\ \A k \in 1 .. Len(procs) - 1 : Append(Below, f)[k] = procs[k]
           /\ Append(Below, f)[Len(procs)] = f
  <1>1. Len(procs) \in Nat
    BY LenProperties DEF Listed
  <1>2. /\ Listed(Below) /\ Len(Below) = Len(procs) - 1
        /\ \A k \in 1 .. Len(procs) - 1 : Below[k] = procs[k]
    <2>1. Len(procs) - 1 \in Nat /\ Len(procs) - 1 <= Len(procs)
      BY <1>1
    <2>2. QED BY <2>1, PrefixListed, Zenon DEF Below
  <1>3. /\ Listed(Append(Below, f)) /\ Len(Append(Below, f)) = Len(Below) + 1
        /\ \A k \in 1 .. Len(Below) : Append(Below, f)[k] = Below[k]
        /\ Append(Below, f)[Len(Below) + 1] = f
    BY <1>2, AppendListed
  <1>4. QED BY <1>1, <1>2, <1>3

-----------------------------------------------------------------------------
(* The ring.                                                               *)

\* Two consecutive indices differ, also where they wrap.
LEMMA NextIdxOK ==
    ASSUME NEW i \in 0 .. IDX - 1
    PROVE  NextIdx(i) \in 0 .. IDX - 1 /\ NextIdx(i) # i
  <1>1. CASE i + 1 < IDX
    BY <1>1, FilesConstants DEF NextIdx
  <1>2. CASE i + 1 = IDX
    <2>1. (i + 1) % IDX = 0
      BY <1>2, FilesConstants
    <2>2. QED BY <1>2, <2>1, FilesConstants DEF NextIdx
  <1>3. QED BY <1>1, <1>2, FilesConstants

\* do_request from a place that does not wait for the device.
LEMMA RequestMade ==
    ASSUME RingInv, DiskInv, pc \notin {"poll", "wild"}, NEW type, NEW sector, NEW count, NEW buf, NEW next,
           next \in DOMAIN BufOf, buf \in BufOf[next], do_request(type, sector, count, buf, next)
    PROVE  /\ RingInv' /\ DiskInv' /\ pc' \in {"poll", "fault"}
           /\ pc' = "poll" => At' = next
           /\ pc' = "fault" => At' = "fault"
  <1>1. DiskInv' /\ UNCHANGED <<used_idx, g_last_used_idx, dev_idx>>
    BY DEF do_request, DiskInv
  <1>2. CASE g_blk_base = 0
    <2>1. pc' = "fault" /\ UNCHANGED <<req, avail_idx, ret>>
      BY <1>2 DEF do_request
    <2>2. QED BY <1>1, <2>1 DEF RingInv, At
  <1>3. CASE g_blk_base # 0
    <2>1. /\ req' = [type |-> type, sector |-> sector, count |-> count, buf |-> buf, status |-> 255]
          /\ avail_idx' = NextIdx(avail_idx) /\ ret' = next /\ pc' = "poll"
      BY <1>3 DEF do_request
    <2>2. NextIdx(avail_idx) \in 0 .. IDX - 1 /\ NextIdx(avail_idx) # avail_idx
      BY NextIdxOK DEF RingInv
    <2>3. /\ req'.buf = buf
          /\ req' = [type |-> req'.type, sector |-> req'.sector, count |-> req'.count,
                      buf |-> req'.buf, status |-> req'.status]
      BY <2>1
    <2>4. RingInv'
      BY <1>1, <2>1, <2>2, <2>3 DEF RingInv
    <2>5. QED BY <1>1, <2>1, <2>4 DEF At
  <1>4. QED BY <1>2, <1>3

\* A step of the kernel or of a program that leaves the ring alone.
LEMMA RingUntouched ==
    ASSUME RingInv, DiskInv, pc \notin {"poll", "wild"}, pc' \notin {"boot", "poll"},
           UNCHANGED ioVars
    PROVE  RingInv' /\ DiskInv' /\ At' = pc'
  <1>1. UNCHANGED <<disk, req, avail_idx, used_idx, g_last_used_idx, dev_idx, ret>>
    BY DEF ioVars
  <1>2. QED BY <1>1 DEF RingInv, DiskInv, At

-----------------------------------------------------------------------------
(* fs_mount.                                                               *)

\* The processes stay and kmain goes on, waits, or stops.
LEMMA KmainGoesOn ==
    ASSUME ProcInv, At \in {"boot", "mount", "header", "descs", "names", "mounted"},
           procs' = procs,
           \/ At' \in {"mount", "header", "descs", "names", "mounted"} /\ pc' \in {"poll", At'}
           \/ At' \in {"halt", "fault"} /\ pc' = At'
    PROVE  ProcInv'
  <1>1. Top' = Top
    BY DEF Top
  <1>2. QED BY <1>1 DEF ProcInv

\* Every step of the mount leaves the blocks as the next place expects them.
LEMMA MountSteps ==
    ASSUME FilesInv, blk_init \/ fs_mount \/ ReadHeader \/ ReadDescs \/ ReadNames
    PROVE  FilesInv'
  <1> USE DEF FilesInv
  <1>1. CASE blk_init
    <2>1. pc = "boot" /\ pc' = "mount" /\ avail_idx' = 0 /\ used_idx' = 0
          /\ UNCHANGED <<disk, req, g_last_used_idx, dev_idx, ret, heap, procs>>
      BY <1>1 DEF blk_init
    <2>2. At = "boot" /\ At' = "mount"
      BY <2>1 DEF At
    <2>3. RingInv' /\ DiskInv'
      BY <2>1 DEF RingInv, DiskInv
    <2>4. ProcInv' /\ HeapInv'
      BY <2>1, <2>2, KmainGoesOn DEF HeapInv
    <2>5. QED BY <2>3, <2>4
  <1>2. CASE fs_mount
    <2>1. pc = "mount" /\ do_request("in", 0, 1, "hdr", "header") /\ g_blobs' = <<>>
          /\ UNCHANGED <<heap, procs>>
      BY <1>2 DEF fs_mount
    <2>2. /\ RingInv' /\ DiskInv' /\ pc' \in {"poll", "fault"} /\ At = "mount"
          /\ (pc' = "poll" => At' = "header") /\ (pc' = "fault" => At' = "fault")
      BY <2>1, RequestMade DEF BufOf, At
    <2>3. ProcInv' /\ HeapInv'
      BY <2>1, <2>2, KmainGoesOn DEF HeapInv
    <2>4. QED BY <2>2, <2>3
  <1>3. CASE ReadHeader
    <2>1. pc = "header" /\ At = "header" /\ heap = {} /\ g_blobs = <<>> /\ UNCHANGED <<g_blobs, procs>>
      BY <1>3 DEF ReadHeader, At, HeapInv
    <2>2. CASE pc' = "halt" /\ UNCHANGED ioVars /\ UNCHANGED heap
      <3>1. RingInv' /\ DiskInv' /\ At' = "halt"
        BY <2>1, <2>2, RingUntouched
      <3>2. QED BY <2>1, <2>2, <3>1, KmainGoesOn DEF HeapInv
    <2>3. CASE pc' = "mounted" /\ UNCHANGED <<ioVars, heap>>
      <3>1. RingInv' /\ DiskInv' /\ At' = "mounted"
        BY <2>1, <2>3, RingUntouched
      <3>2. QED BY <2>1, <2>3, <3>1, KmainGoesOn DEF HeapInv
    <2>4. CASE heap' = heap \cup {"desc"}
               /\ do_request("in", 0, Sectors(DescEnd(bufs["hdr"][2])), "desc", "descs")
      <3>1. /\ RingInv' /\ DiskInv' /\ pc' \in {"poll", "fault"}
            /\ (pc' = "poll" => At' = "descs") /\ (pc' = "fault" => At' = "fault")
        BY <2>1, <2>4, RequestMade DEF BufOf
      <3>2. QED BY <2>1, <2>4, <3>1, KmainGoesOn DEF HeapInv
    <2>5. QED BY <1>3, <2>2, <2>3, <2>4 DEF ReadHeader, MountFails
  <1>4. CASE ReadDescs
    <2>1. pc = "descs" /\ At = "descs" /\ heap = {"desc"} /\ UNCHANGED procs
      BY <1>4 DEF ReadDescs, At, HeapInv
    <2>2. CASE heap' = heap \ {"desc"} /\ MountFails
      <3>1. RingInv' /\ DiskInv' /\ At' = "halt" /\ pc' = "halt"
        BY <2>1, <2>2, RingUntouched DEF MountFails
      <3>2. heap' = {}
        BY <2>1, <2>2
      <3>3. QED BY <2>1, <3>1, <3>2, KmainGoesOn DEF HeapInv
    <2>3. CASE /\ heap' = (heap \ {"desc"}) \cup {"blobs", "name"}
               /\ do_request("in", 0, Sectors(DescEnd(g_blob_count) + NamesSize(g_blobs')),
                             "name", "names")
      <3>1. /\ RingInv' /\ DiskInv' /\ pc' \in {"poll", "fault"}
            /\ (pc' = "poll" => At' = "names") /\ (pc' = "fault" => At' = "fault")
        BY <2>1, <2>3, RequestMade DEF BufOf
      <3>2. heap' = {"blobs", "name"}
        BY <2>1, <2>3
      <3>3. QED BY <2>1, <3>1, <3>2, KmainGoesOn DEF HeapInv
    <2>4. QED BY <1>4, <2>2, <2>3 DEF ReadDescs
  <1>5. CASE ReadNames
    <2>1. pc = "names" /\ At = "names" /\ heap = {"blobs", "name"} /\ UNCHANGED procs
          /\ UNCHANGED ioVars
      BY <1>5 DEF ReadNames, At, HeapInv
    <2>2. CASE NamesFailed /\ pc' = "halt"
      <3>1. RingInv' /\ DiskInv' /\ At' = "halt"
        BY <2>1, <2>2, RingUntouched
      <3>2. heap' = {}
        BY <2>1, <2>2 DEF NamesFailed
      <3>3. QED BY <2>1, <2>2, <3>1, <3>2, KmainGoesOn DEF HeapInv
    <2>3. CASE heap' = (heap \ {"name"}) \cup {"names"} /\ pc' = "mounted"
      <3>1. RingInv' /\ DiskInv' /\ At' = "mounted"
        BY <2>1, <2>3, RingUntouched
      <3>2. heap' = {"blobs", "names"}
        BY <2>1, <2>3
      <3>3. QED BY <2>1, <2>3, <3>1, <3>2, KmainGoesOn DEF HeapInv
    <2>4. QED BY <1>5, <2>2, <2>3 DEF ReadNames
  <1>6. QED BY <1>1, <1>2, <1>3, <1>4, <1>5

-----------------------------------------------------------------------------
(* The device.                                                             *)

\* The device answers the request outstanding, and the kernel goes on with it.
LEMMA DeviceSteps ==
    ASSUME FilesInv, DeviceServes \/ DevicePublishes \/ PollDone
    PROVE  FilesInv'
  <1> USE DEF FilesInv
  <1>1. UNCHANGED <<g_blobs, heap, procs, ret>>
    BY DEF DeviceServes, DevicePublishes, PollDone, fsVars
  <1>2. pc = "poll" \/ (pc = "wild" /\ DevicePublishes)
    BY DEF DeviceServes, DevicePublishes, PollDone, RingInv
  <1>3. g_last_used_idx \in 0 .. IDX - 1 /\ NextIdx(g_last_used_idx) # g_last_used_idx
    BY NextIdxOK DEF RingInv
  <1>4. RingInv' /\ DiskInv' /\ (pc' = "poll" \/ pc' = ret \/ pc' = "wild")
    <2>1. CASE DeviceServes
      <3>0. pc = "poll"
        BY <1>2, <2>1 DEF DeviceServes, RingInv
      <3>1. dev_idx # avail_idx /\ dev_idx' = avail_idx /\ pc' \in {pc, "wild"}
            /\ UNCHANGED <<avail_idx, used_idx, g_last_used_idx>>
        BY <2>1 DEF DeviceServes, DeviceMoves
      <3>2. \E x \in {0, 1} : req' = [req EXCEPT !.status = x]
        BY <2>1 DEF DeviceServes
      <3>3. req'.status # 255 /\ req'.buf = req.buf
            /\ req' = [type |-> req'.type, sector |-> req'.sector, count |-> req'.count,
                       buf |-> req'.buf, status |-> req'.status]
        BY <3>2 DEF RingInv
      <3>4. RingInv'
        BY <1>1, <3>0, <3>1, <3>3 DEF RingInv
      <3>5. DiskInv'
        <4>1. \/ disk' = disk
              \/ \E S : disk' = [k \in DOMAIN disk |-> IF k \in S THEN 99 ELSE disk[k]]
          BY <2>1 DEF DeviceServes, DeviceMoves
        <4>2. ASSUME NEW S, disk' = [k \in DOMAIN disk |-> IF k \in S THEN 99 ELSE disk[k]]
              PROVE  DiskInv'
          <5>1. disk \in Seq(Int) /\ Len(disk) \in Nat /\ DOMAIN disk = 1 .. Len(disk)
                /\ \A k \in 1 .. Len(disk) : disk[k] \in Int
            BY LenProperties, ElementOfSeq DEF DiskInv
          <5>2. disk' \in Seq(Int) /\ Len(disk') = Len(disk)
            BY <4>2, <5>1
          <5>3. QED BY <5>2 DEF DiskInv
        <4>3. QED BY <4>1, <4>2 DEF DiskInv
      <3>6. QED BY <3>0, <3>1, <3>4, <3>5
    <2>2. CASE DevicePublishes
      BY <1>2, <2>2 DEF DevicePublishes, RingInv, DiskInv
    <2>3. CASE PollDone
      <3>0. pc = "poll"
        BY <2>3 DEF PollDone
      <3>1. used_idx # g_last_used_idx /\ g_last_used_idx' = NextIdx(g_last_used_idx) /\ pc' = ret
            /\ UNCHANGED <<disk, req, avail_idx, used_idx, dev_idx, ret>>
        BY <2>3 DEF PollDone, UsedMoved
      <3>2. ret \in DOMAIN BufOf
        BY <3>0 DEF RingInv
      <3>3. ret \notin {"boot", "poll", "wild"}
        BY <3>2 DEF BufOf
      <3>4. used_idx = avail_idx /\ dev_idx = avail_idx /\ g_last_used_idx' = avail_idx
            /\ req.status # 255
        BY <1>3, <3>0, <3>1 DEF RingInv
      <3>5. QED BY <3>1, <3>3, <3>4 DEF RingInv, DiskInv
    <2>4. QED BY <2>1, <2>2, <2>3
  <1>5. Top' = Top
    BY <1>1 DEF Top
  <1>6. CASE pc = "poll" /\ pc' # "wild"
    <2>1. At' = At /\ At = ret
      BY <1>1, <1>4, <1>6 DEF At
    <2>2. ret \in {"header", "descs", "names", "load", "user"}
      BY <1>6 DEF RingInv, BufOf
    <2>3. ProcInv' /\ HeapInv'
      BY <1>1, <1>4, <1>5, <1>6, <2>1, <2>2 DEF ProcInv, HeapInv
    <2>4. QED BY <1>4, <2>3
  <1>7. CASE pc' = "wild"
    <2>1. At' = "wild"
      BY <1>7 DEF At
    <2>2. ProcInv' /\ HeapInv'
      BY <1>1, <1>5, <1>7, <2>1 DEF ProcInv, HeapInv
    <2>3. QED BY <1>4, <2>2
  <1>8. CASE pc = "wild"
    <2>1. pc' = "wild"
      BY <1>2, <1>8 DEF DevicePublishes
    <2>2. QED BY <1>7, <2>1
  <1>9. QED BY <1>2, <1>6, <1>7, <1>8

-----------------------------------------------------------------------------
(* load_user_image.                                                        *)

\* A process goes on as another frame.
LEMMA TopGoesOn ==
    ASSUME ProcInv, Len(procs) >= 1, NEW f, procs' = Append(Below, f),
           f.kind \in {"kmain", "init", "hash", "prog"},
           f.kind = "kmain" => Top.kind = "kmain"
    PROVE  /\ Listed(procs') /\ Len(procs') = Len(procs) /\ Top' = f /\ procs' # <<>>
           /\ \A k \in 1 .. Len(procs') :
                 /\ procs'[k].kind \in {"kmain", "init", "hash", "prog"}
                 /\ procs'[k].kind = "kmain" => Len(procs') = 1
  <1>1. /\ Len(procs) \in Nat /\ Listed(procs') /\ Len(procs') = Len(procs)
        /\ \A k \in 1 .. Len(procs) - 1 : procs'[k] = procs[k]
        /\ procs'[Len(procs)] = f
    BY TopReplaced DEF ProcInv
  <1>2. Top' = f
    BY <1>1 DEF Top
  <1>3. procs' # <<>>
    BY <1>1
  <1>4. ASSUME NEW k \in 1 .. Len(procs)
        PROVE  /\ procs'[k].kind \in {"kmain", "init", "hash", "prog"}
               /\ procs'[k].kind = "kmain" => Len(procs) = 1
    <2>1. CASE k = Len(procs)
      <3>1. k \in 1 .. Len(procs) /\ procs[Len(procs)] = Top
        BY DEF Top
      <3>2. QED BY <1>1, <2>1, <3>1 DEF ProcInv
    <2>2. CASE k # Len(procs)
      <3>1. k \in 1 .. Len(procs) - 1
        BY <1>1, <2>2
      <3>2. QED BY <1>1, <3>1 DEF ProcInv
    <2>3. QED BY <2>1, <2>2
  <1>5. QED BY <1>1, <1>2, <1>3, <1>4

\* The program is not loaded, after its block was freed: the shell's child
\* searches on; kmain and init return, and the machine halts.
LEMMA NotLoadedOK ==
    ASSUME ProcInv, At \in {"mounted", "load", "user"}, Len(procs) >= 1,
           Top.kind # "prog", NotLoaded, At' = pc',
           heap' = {"blobs", "names"} \/ (At = "mounted" /\ heap' = {})
    PROVE  ProcInv' /\ HeapInv' /\ pc' \notin {"boot", "poll"}
  <1>1. CASE Top.kind = "hash"
    <2> DEFINE f == Hash("search", Top.word, Top.i + 1)
    <2>1. procs' = Append(Below, f) /\ pc' = "user" /\ f.kind = "hash"
      BY <1>1 DEF NotLoaded, Hash, Frame
    <2> HIDE DEF f
    <2>2. /\ Listed(procs') /\ Len(procs') = Len(procs) /\ Top' = f
          /\ \A k \in 1 .. Len(procs') :
                /\ procs'[k].kind \in {"kmain", "init", "hash", "prog"}
                /\ procs'[k].kind = "kmain" => Len(procs') = 1
      BY <2>1, TopGoesOn
    <2>3. At # "mounted"
      BY <1>1 DEF ProcInv
    <2>4. ProcInv'
      BY <2>1, <2>2 DEF ProcInv
    <2>5. HeapInv'
      BY <2>1, <2>3 DEF HeapInv
    <2>6. QED BY <2>1, <2>4, <2>5
  <1>2. CASE Top.kind # "hash"
    <2>1. procs' = Below /\ pc' = "halt"
      BY <1>2 DEF NotLoaded
    <2>2. /\ Len(procs) \in Nat /\ Listed(procs') /\ Len(procs') = Len(procs) - 1
          /\ \A k \in 1 .. Len(procs) - 1 : procs'[k] = procs[k]
      BY <2>1, TopReplaced DEF ProcInv
    <2>3. ASSUME NEW k \in 1 .. Len(procs')
          PROVE  procs'[k].kind \in {"init", "hash", "prog"}
      <3>1. k \in 1 .. Len(procs) /\ procs'[k] = procs[k] /\ Len(procs) # 1
        BY <2>2
      <3>2. QED BY <3>1 DEF ProcInv
    <2>4. ProcInv'
      <3>1. Len(procs') <= MaxDepth
        BY <2>2, FilesConstants DEF ProcInv
      <3>2. QED BY <2>1, <2>2, <2>3, <3>1 DEF ProcInv
    <2>5. procs' # <<>> => Top'.kind # "kmain"
      <3>1. ASSUME procs' # <<>> PROVE Len(procs') \in 1 .. Len(procs')
        BY <2>2, <3>1, EmptySeq DEF Listed
      <3>2. QED BY <2>3, <3>1 DEF Top
    <2>6. HeapInv'
      BY <2>1, <2>5 DEF HeapInv
    <2>7. QED BY <2>1, <2>4, <2>6
  <1>3. QED BY <1>1, <1>2

\* The file is looked up and asked for: an empty directory has none.
LEMMA LoadAsked ==
    ASSUME FilesInv, NEW name, load_user_image(name), pc \in {"mounted", "user"},
           Top.kind # "prog"
    PROVE  FilesInv'
  <1> USE DEF FilesInv
  <1>1. At = pc /\ pc \notin {"poll", "wild"} /\ Len(procs) >= 1
    BY DEF At, ProcInv
  <1>2. UNCHANGED <<g_blob_count, g_blobs, g_names>>
    BY DEF load_user_image, fsVars
  <1>3. CASE NotLoaded /\ UNCHANGED <<ioVars, heap>>
    <2>1. pc' \in {"user", "halt"}
      BY <1>3 DEF NotLoaded
    <2>2. RingInv' /\ DiskInv' /\ At' = pc'
      BY <1>1, <1>3, <2>1, RingUntouched
    <2>3. heap' = {"blobs", "names"} \/ (At = "mounted" /\ heap' = {})
      BY <1>1, <1>3 DEF HeapInv
    <2>4. QED BY <1>1, <1>3, <2>2, <2>3, NotLoadedOK
  <1>4. ASSUME NEW b, fs_find(name) # 0, heap' = heap \cup {"blob"},
               do_request("in", b.offset \div SECTOR, Sectors(b.size), "blob", "load"),
               procs' = Append(Below, [Top EXCEPT !.name = name])
        PROVE  FilesInv'
    <2>1. g_blobs # <<>>
      <3>1. ASSUME g_blobs = <<>> PROVE FALSE
        <4>1. DOMAIN g_blobs = {}
          BY <3>1
        <4>2. QED BY <1>4, <4>1 DEF fs_find
      <3>2. QED BY <3>1
    <2>2. heap = {"blobs", "names"}
      BY <1>1, <2>1 DEF HeapInv
    <2>3. heap' = {"blobs", "names", "blob"}
      BY <1>4, <2>2
    <2>4. /\ RingInv' /\ DiskInv' /\ pc' \in {"poll", "fault"}
          /\ (pc' = "poll" => At' = "load") /\ (pc' = "fault" => At' = "fault")
      BY <1>1, <1>4, RequestMade DEF BufOf
    <2> DEFINE f == [Top EXCEPT !.name = name]
    <2>5. f.kind = Top.kind /\ Top.kind \in {"kmain", "init", "hash", "prog"}
      <3>1. Len(procs) \in 1 .. Len(procs)
        BY <1>1, LenProperties DEF ProcInv, Listed
      <3>2. Top.kind \in {"kmain", "init", "hash", "prog"}
        BY <3>1 DEF ProcInv, Top
      <3>3. QED BY <3>2
    <2> HIDE DEF f
    <2>6. /\ Listed(procs') /\ Len(procs') = Len(procs) /\ Top' = f
          /\ \A k \in 1 .. Len(procs') :
                /\ procs'[k].kind \in {"kmain", "init", "hash", "prog"}
                /\ procs'[k].kind = "kmain" => Len(procs') = 1
      BY <1>1, <1>4, <2>5, TopGoesOn DEF f
    <2>7. ProcInv'
      BY <1>1, <2>4, <2>5, <2>6 DEF ProcInv
    <2>8. HeapInv'
      BY <2>3, <2>4 DEF HeapInv
    <2>9. QED BY <2>4, <2>7, <2>8
  <1>5. QED BY <1>3, <1>4 DEF load_user_image

\* The kernel's memory is written over, or a program that is not mapped goes on.
LEMMA StopsWild ==
    ASSUME FilesInv, pc \notin {"poll", "wild"}, pc' \in {"wild", "fault"}, UNCHANGED <<ioVars, procs>>,
           heap' \subseteq heap
    PROVE  FilesInv'
  <1> USE DEF FilesInv
  <1>1. RingInv' /\ DiskInv' /\ At' = pc'
    BY RingUntouched
  <1>2. ProcInv' /\ HeapInv'
    BY <1>1 DEF ProcInv, HeapInv
  <1>3. QED BY <1>1, <1>2

\* exec, whatever the name.
LEMMA ReplaceAsked ==
    ASSUME FilesInv, NEW name, process_replace(name), pc = "user", Top.kind # "prog"
    PROVE  FilesInv'
  <1>1. CASE load_user_image(name)
    BY <1>1, LoadAsked
  <1>2. CASE pc' = "wild" /\ UNCHANGED <<ioVars, heap, procs>>
    BY <1>2, StopsWild
  <1>3. QED BY <1>1, <1>2 DEF process_replace

\* The file is there, or not, and the block is freed.
LEMMA LoadDone ==
    ASSUME FilesInv, LoadImage
    PROVE  FilesInv'
  <1> USE DEF FilesInv
  <1>1. pc = "load" /\ At = "load" /\ Len(procs) >= 1 /\ Top.kind # "prog"
        /\ heap = {"blobs", "names", "blob"} /\ heap' = heap \ {"blob"} /\ UNCHANGED ioVars
    BY DEF LoadImage, At, ProcInv, HeapInv
  <1>2. heap' = {"blobs", "names"}
    BY <1>1
  <1>3. CASE NotLoaded
    <2>1. pc' \in {"user", "halt"}
      BY <1>3 DEF NotLoaded
    <2>2. RingInv' /\ DiskInv' /\ At' = pc'
      BY <1>1, <2>1, RingUntouched
    <2>3. QED BY <1>1, <1>2, <1>3, <2>2, NotLoadedOK
  <1>4. CASE Loaded
    <2> DEFINE f == CASE Top.kind = "kmain" -> Simple("init")
                      [] Top.kind = "init" -> Hash("prompt", <<>>, 0)
                      [] Top.kind = "hash" -> Simple("prog")
    <2>1. procs' = Append(Below, f) /\ pc' = "user"
      BY <1>4 DEF Loaded
    <2>2. Top.kind \in {"kmain", "init", "hash"}
      <3>1. Len(procs) \in 1 .. Len(procs)
        BY <1>1, LenProperties DEF ProcInv, Listed
      <3>2. QED BY <1>1, <3>1 DEF ProcInv, Top
    <2>3. f.kind \in {"init", "hash", "prog"}
      BY <2>2 DEF Simple, Hash, Frame
    <2> HIDE DEF f
    <2>4. RingInv' /\ DiskInv' /\ At' = "user"
      BY <1>1, <2>1, RingUntouched
    <2>5. /\ Listed(procs') /\ Len(procs') = Len(procs) /\ Top' = f
          /\ \A k \in 1 .. Len(procs') :
                /\ procs'[k].kind \in {"kmain", "init", "hash", "prog"}
                /\ procs'[k].kind = "kmain" => Len(procs') = 1
      BY <1>1, <2>1, <2>3, TopGoesOn
    <2>6. ProcInv'
      BY <1>1, <2>1, <2>3, <2>4, <2>5 DEF ProcInv
    <2>7. HeapInv'
      BY <1>2, <2>1, <2>4 DEF HeapInv
    <2>8. QED BY <2>4, <2>6, <2>7
  <1>5. CASE pc' \in {"wild", "fault"} /\ UNCHANGED procs
    BY <1>1, <1>5, StopsWild
  <1>6. QED BY <1>3, <1>4, <1>5 DEF LoadImage

-----------------------------------------------------------------------------
(* The shell and its children.                                             *)

\* Whatever the shell does, somebody runs and it is not kmain.
LEMMA UserGoesOn ==
    ASSUME FilesInv, pc = "user", pc' = "user", UNCHANGED <<ioVars, heap>>,
           Listed(procs'), Len(procs') \in 1 .. MaxDepth,
           \A k \in 1 .. Len(procs') : procs'[k].kind \in {"init", "hash", "prog"}
    PROVE  FilesInv'
  <1> USE DEF FilesInv
  <1>1. RingInv' /\ DiskInv' /\ At' = "user" /\ At = "user"
    BY RingUntouched DEF At
  <1>2. Len(procs') \in 1 .. Len(procs')
    BY LenProperties DEF Listed
  <1>3. Top'.kind # "kmain"
    BY <1>2 DEF Top
  <1>4. ProcInv'
    BY <1>1, <1>3, FilesConstants DEF ProcInv
  <1>5. HeapInv'
    BY <1>1 DEF HeapInv
  <1>6. QED BY <1>1, <1>4, <1>5

\* A command line, the search for its file, the fork and the exit.
LEMMA ShellSteps ==
    ASSUME FilesInv, ReadLine \/ Search \/ Exit
    PROVE  FilesInv'
  <1> USE DEF FilesInv
  <1> DEFINE n == Len(procs)
  <1>1. pc = "user" /\ UNCHANGED <<ioVars, heap>>
    BY DEF ReadLine, Search, Exit, Running, Idle
  <1>2. Listed(procs) /\ n \in Nat /\ n >= 1 /\ n <= MaxDepth /\ MaxDepth \in Nat
    BY <1>1, LenProperties, FilesConstants DEF ProcInv, Listed, At
  <1>3. \A k \in 1 .. n : procs[k].kind \in {"init", "hash", "prog"}
    <2>1. Top.kind # "kmain" /\ Top = procs[n]
      BY <1>1 DEF ProcInv, At, Top
    <2>2. QED BY <1>2, <2>1 DEF ProcInv
  <1> HIDE DEF n
  <1>4. ASSUME NEW f, f.kind = "hash", Becomes(f) PROVE FilesInv'
    <2>1. procs' = Append(Below, f) /\ pc' = "user"
      BY <1>1, <1>4 DEF Becomes
    <2>2. /\ Listed(procs') /\ Len(procs') = n /\ procs'[n] = f
          /\ \A k \in 1 .. n - 1 : procs'[k] = procs[k]
      BY <1>2, <2>1, TopReplaced DEF n
    <2>3. \A k \in 1 .. n : procs'[k].kind \in {"init", "hash", "prog"}
      <3>1. \A k \in 1 .. n : k \in 1 .. n - 1 \/ k = n
        BY <1>2
      <3>2. QED BY <1>3, <1>4, <2>2, <3>1
    <2>4. QED BY <1>1, <1>2, <2>1, <2>2, <2>3, UserGoesOn
  <1>5. \A at, w, i : Hash(at, w, i).kind = "hash"
    BY DEF Hash, Frame
  <1>6. CASE ReadLine
    BY <1>4, <1>5, <1>6 DEF ReadLine
  <1>7. CASE Search
    <2>1. CASE n < MaxDepth /\ pc' = "user"
               /\ procs' = Below \o <<Hash("join", Top.word, Top.i), Hash("exec", Top.word, Top.i)>>
      <3> DEFINE f == Hash("join", Top.word, Top.i)
                 g == Hash("exec", Top.word, Top.i)
      <3>1. f.kind = "hash" /\ g.kind = "hash"
        BY <1>5
      <3>2. procs' = Below \o <<f, g>>
        BY <2>1
      <3> HIDE DEF f, g
      <3>3. /\ Listed(Below) /\ Len(Below) = n - 1
            /\ \A k \in 1 .. n - 1 : Below[k] = procs[k]
        BY <1>2, TopReplaced DEF n
      <3> DEFINE S == Range(Below) \cup {f, g}
      <3>4. Below \in Seq(S)
        <4>1. Range(Below) \subseteq S
          OBVIOUS
        <4>2. QED BY <3>3, <4>1, SeqMonotonic DEF Listed, Range
      <3>5. <<f, g>> \in Seq(S) /\ Len(<<f, g>>) = 2 /\ <<f, g>>[1] = f /\ <<f, g>>[2] = g
        OBVIOUS
      <3> HIDE DEF S
      <3>6. /\ procs' \in Seq(S) /\ Len(procs') = n - 1 + 2
            /\ \A k \in 1 .. n - 1 + 2 :
                  procs'[k] = IF k <= n - 1 THEN Below[k] ELSE <<f, g>>[k - (n - 1)]
        BY <3>2, <3>3, <3>4, <3>5, ConcatProperties
      <3>7. Listed(procs')
        BY <3>6, SeqOfRange DEF Listed
      <3>8. ASSUME NEW k \in 1 .. Len(procs')
            PROVE  procs'[k].kind \in {"init", "hash", "prog"}
        <4>1. CASE k <= n - 1
          <5>1. k \in 1 .. n - 1 /\ k \in 1 .. n /\ k \in 1 .. n - 1 + 2
            BY <1>2, <3>6, <4>1
          <5>2. procs'[k] = procs[k]
            BY <3>3, <3>6, <4>1, <5>1
          <5>3. QED BY <1>3, <5>1, <5>2
        <4>2. CASE k = n
          <5>1. k \in 1 .. n - 1 + 2 /\ ~ k <= n - 1 /\ k - (n - 1) = 1
            BY <1>2, <4>2
          <5>2. QED BY <3>1, <3>5, <3>6, <5>1
        <4>3. CASE k = n + 1
          <5>1. k \in 1 .. n - 1 + 2 /\ ~ k <= n - 1 /\ k - (n - 1) = 2
            BY <1>2, <4>3
          <5>2. QED BY <3>1, <3>5, <3>6, <5>1
        <4>4. QED BY <1>2, <3>6, <4>1, <4>2, <4>3
      <3>9. Len(procs') \in 1 .. MaxDepth
        BY <1>2, <2>1, <3>6
      <3>10. QED BY <1>1, <2>1, <3>7, <3>8, <3>9, UserGoesOn
    <2>2. CASE \E at, w, i : Becomes(Hash(at, w, i))
      BY <1>4, <1>5, <2>2
    <2>3. QED BY <1>1, <1>2, <1>7, <2>1, <2>2 DEF Search, n
  <1>8. CASE Exit
    <2>1. CASE n = 1
      <3>1. procs' = <<>> /\ pc' = "halt"
        BY <1>8, <2>1 DEF Exit, n
      <3>2. RingInv' /\ DiskInv' /\ At' = "halt"
        BY <1>1, <3>1, RingUntouched
      <3>3. Listed(procs') /\ Len(procs') = 0
        BY <3>1 DEF Listed
      <3>4. ProcInv' /\ HeapInv'
        BY <1>1, <1>2, <3>1, <3>2, <3>3 DEF ProcInv, HeapInv
      <3>5. QED BY <3>2, <3>4
    <2>2. CASE n # 1
      <3> DEFINE s == SubSeq(procs, 1, n - 2)
                 f == Hash("prompt", <<>>, 0)
      <3>1. procs' = Append(s, f) /\ pc' = "user" /\ f.kind = "hash"
        BY <1>1, <1>5, <1>8, <2>2 DEF Exit, n
      <3>2. n - 2 \in Nat /\ n - 2 <= n
        BY <1>2, <2>2
      <3>3. Listed(s) /\ Len(s) = n - 2 /\ \A k \in 1 .. n - 2 : s[k] = procs[k]
        BY <1>2, <3>2, PrefixListed DEF n
      <3> HIDE DEF s, f
      <3>4. /\ Listed(procs') /\ Len(procs') = Len(s) + 1
            /\ \A k \in 1 .. Len(s) : procs'[k] = s[k]
            /\ procs'[Len(s) + 1] = f
        BY <3>1, <3>3, AppendListed
      <3>5. ASSUME NEW k \in 1 .. Len(procs')
            PROVE  procs'[k].kind \in {"init", "hash", "prog"}
        <4>1. CASE k = n - 1
          <5>1. Len(s) + 1 = k
            BY <1>2, <3>2, <3>3, <4>1
          <5>2. QED BY <3>1, <3>4, <5>1
        <4>2. CASE k # n - 1
          <5>1. k \in 1 .. n - 2 /\ k \in 1 .. n
            BY <1>2, <3>2, <3>3, <3>4, <4>2
          <5>2. procs'[k] = procs[k]
            BY <3>3, <3>4, <5>1
          <5>3. QED BY <1>3, <5>1, <5>2
        <4>3. QED BY <4>1, <4>2
      <3>6. Len(procs') \in 1 .. MaxDepth
        BY <1>2, <3>2, <3>3, <3>4
      <3>7. QED BY <1>1, <3>1, <3>4, <3>5, <3>6, UserGoesOn
    <2>3. QED BY <2>1, <2>2
  <1>9. QED BY <1>6, <1>7, <1>8

\* A program asks for whatever it likes.
LEMMA BlkStep ==
    ASSUME FilesInv, svc_blk
    PROVE  FilesInv'
  <1> USE DEF FilesInv
  <1>1. pc = "user" /\ Top.kind = "prog" /\ UNCHANGED <<g_blobs, heap, procs>>
    BY DEF svc_blk, Running, fsVars
  <1>2. PICK type \in {"in", "out"}, sector \in UserSectors, count \in UserCounts, buf \in {"user", "ram"} :
                do_request(type, sector, count, buf, "user")
    BY DEF svc_blk
  <1>3. /\ RingInv' /\ DiskInv' /\ pc' \in {"poll", "fault"}
        /\ (pc' = "poll" => At' = "user") /\ (pc' = "fault" => At' = "fault")
    BY <1>1, <1>2, RequestMade DEF BufOf
  <1>4. At = "user" /\ Top' = Top
    BY <1>1 DEF At, Top
  <1>5. ProcInv' /\ HeapInv'
    BY <1>1, <1>3, <1>4 DEF ProcInv, HeapInv
  <1>6. QED BY <1>3, <1>5

-----------------------------------------------------------------------------
(* Naturals and recursion.                                                 *)

\* A set of naturals has a least element.
LEMMA LeastNatural ==
    ASSUME NEW T \in SUBSET Nat, T # {}
    PROVE  \E x \in T : \A y \in T : x <= y
  <1> DEFINE Less == {ss \in Nat \X Nat : ss[1] < ss[2]}
  <1>1. IsWellFoundedOn(Less, Nat)
    BY NatLessThanWellFounded DEF OpToRel
  <1>2. PICK x \in T : \A y \in T : ~ (<<y, x>> \in Less)
    <2> HIDE DEF Less
    <2> QED BY <1>1, WFMin
  <1>3. \A y \in T : ~ (y < x)
    BY <1>2
  <1>4. QED BY <1>3

\* Induction, for a set in place of a predicate.
LEMMA Induction ==
    ASSUME NEW T, 0 \in T, \A k \in Nat : k \in T => k + 1 \in T
    PROVE  Nat \subseteq T
  <1> SUFFICES ASSUME NEW j \in Nat, j \notin T PROVE FALSE
    OBVIOUS
  <1> DEFINE M == {k \in Nat : k \notin T}
  <1>1. PICK x \in M : \A y \in M : x <= y
    BY LeastNatural
  <1>2. x - 1 \in Nat /\ x - 1 \notin M
    BY <1>1
  <1>3. QED BY <1>2

\* h starts with z and takes each value from the one before.
Follows(h, z, f, m) == h[0] = z /\ \A k \in 1 .. m : h[k] = f[<<k, h[k - 1]>>]

\* A function can be defined by recursion over 0 .. m.
LEMMA Recursion ==
    ASSUME NEW m \in Nat, NEW S, NEW z \in S, NEW f \in [(1 .. m) \X S -> S]
    PROVE  \E h \in [0 .. m -> S] : Follows(h, z, f, m)
  <1> DEFINE Upto(h, j) == h[0] = z /\ \A k \in 1 .. m : k <= j => h[k] = f[<<k, h[k - 1]>>]
             T == {j \in Nat : \E h \in [0 .. m -> S] : Upto(h, j)}
  <1>1. 0 \in T
    <2> DEFINE h == [k \in 0 .. m |-> z]
    <2>1. h \in [0 .. m -> S] /\ h[0] = z
      OBVIOUS
    <2>2. \A k \in 1 .. m : ~ (k <= 0)
      OBVIOUS
    <2> HIDE DEF h
    <2>3. QED BY <2>1, <2>2
  <1>2. ASSUME NEW j \in Nat, j \in T PROVE j + 1 \in T
    <2>1. PICK h \in [0 .. m -> S] : Upto(h, j)
      BY <1>2
    <2>2. CASE j + 1 \notin 1 .. m
      <3>1. \A k \in 1 .. m : k <= j + 1 => k <= j
        BY <2>2
      <3>2. \A k \in 1 .. m : k <= j + 1 => h[k] = f[<<k, h[k - 1]>>]
        BY <2>1, <3>1, Zenon
      <3>3. j + 1 \in Nat /\ Upto(h, j + 1)
        BY <2>1, <3>2
      <3>4. QED BY <3>3
    <2>3. CASE j + 1 \in 1 .. m
      <3>1. j \in 0 .. m /\ h[j] \in S
        BY <2>3
      <3>2. PICK v \in S : v = f[<<j + 1, h[j]>>]
        BY <2>3, <3>1
      <3>3. PICK g \in [0 .. m -> S] : g[j + 1] = v /\ \A k \in 0 .. m : k # j + 1 => g[k] = h[k]
        <4> DEFINE g0 == [k \in 0 .. m |-> IF k = j + 1 THEN v ELSE h[k]]
        <4>1. g0 \in [0 .. m -> S] /\ g0[j + 1] = v /\ \A k \in 0 .. m : k # j + 1 => g0[k] = h[k]
          BY <2>3
        <4> HIDE DEF g0
        <4>2. QED BY <4>1
      <3>4. ASSUME NEW k \in 1 .. m, k <= j + 1 PROVE g[k] = f[<<k, g[k - 1]>>]
        <4>1. k - 1 \in 0 .. m /\ k - 1 # j + 1 /\ g[k - 1] = h[k - 1]
          BY <3>3, <3>4
        <4>2. CASE k = j + 1
          <5>1. k - 1 = j
            BY <4>2
          <5>2. QED BY <3>2, <3>3, <4>1, <4>2, <5>1
        <4>3. CASE k # j + 1
          <5>1. k <= j /\ k \in 0 .. m /\ g[k] = h[k]
            BY <3>3, <3>4, <4>3
          <5>2. QED BY <2>1, <4>1, <5>1
        <4>4. QED BY <4>2, <4>3
      <3>5. g[0] = z
        BY <2>1, <3>3
      <3>6. j + 1 \in Nat /\ Upto(g, j + 1)
        BY <3>4, <3>5
      <3>7. QED BY <3>6
    <2>4. QED BY <2>2, <2>3
  <1> HIDE DEF T
  <1>3. m \in T
    BY <1>1, <1>2, Induction
  <1>4. PICK h \in [0 .. m -> S] : Upto(h, m)
    BY <1>3 DEF T
  <1>5. \A k \in 1 .. m : k <= m
    OBVIOUS
  <1>6. QED BY <1>4, <1>5 DEF Follows

\* Multiples keep their order, and what division yields.
LEMMA Multiples ==
    ASSUME NEW a \in Nat, NEW b \in Nat, a <= b, NEW s \in Nat
    PROVE  a * s <= b * s /\ a * s \in Nat /\ b * s \in Nat
  <1>1. PICK d \in Nat : b = a + d
    BY b - a \in Nat
  <1>2. b * s = a * s + d * s /\ d * s \in Nat /\ a * s \in Nat
    BY <1>1
  <1>3. QED BY <1>2

-----------------------------------------------------------------------------
(* Parts one behind the other.                                             *)

\* h[k] is where the first k of m parts of these lengths end.
Sums(h, m, lens, start) ==
    /\ h \in [0 .. m -> Nat] /\ h[0] = start
    /\ \A k \in 1 .. m : h[k] = h[k - 1] + lens[k]

LEMMA SumsExist ==
    ASSUME NEW m \in Nat, NEW lens \in [1 .. m -> Nat], NEW start \in Nat
    PROVE  \E h : Sums(h, m, lens, start)
  <1>1. PICK f : f = [at \in (1 .. m) \X Nat |-> at[2] + lens[at[1]]]
    OBVIOUS
  <1>2. f \in [(1 .. m) \X Nat -> Nat]
    BY <1>1
  <1>3. PICK h \in [0 .. m -> Nat] : Follows(h, start, f, m)
    BY <1>2, Recursion
  <1>4. ASSUME NEW k \in 1 .. m PROVE h[k] = h[k - 1] + lens[k]
    <2>1. h[k - 1] \in Nat
      OBVIOUS
    <2>2. f[<<k, h[k - 1]>>] = h[k - 1] + lens[k]
      BY <1>1, <2>1
    <2>3. QED BY <1>3, <2>2 DEF Follows
  <1>5. QED BY <1>3, <1>4 DEF Sums, Follows

\* Offsets are the ends of the parts before.
StartsAt(at, h, m) == \A k \in 1 .. m : at[k] = h[k - 1]

LEMMA OffsetsAre ==
    ASSUME NEW m \in Nat, NEW lens \in [1 .. m -> Nat], NEW start \in Nat,
           NEW h, Sums(h, m, lens, start)
    PROVE  StartsAt(Offsets(lens, start), h, m)
  <1> DEFINE Body(p) == [i \in DOMAIN lens |-> IF i = 1 THEN start ELSE p[i - 1] + lens[i - 1]]
             q == CHOOSE p : p = Body(p)
             g == [i \in 1 .. m |-> h[i - 1]]
  <1>1. Offsets(lens, start) = q
    BY DEF Offsets
  <1>2. ASSUME NEW i \in 1 .. m PROVE g[i] = IF i = 1 THEN start ELSE g[i - 1] + lens[i - 1]
    <2>1. CASE i = 1
      BY <2>1 DEF Sums
    <2>2. CASE i # 1
      <3>1. i - 1 \in 1 .. m /\ g[i] = h[i - 1] /\ g[i - 1] = h[(i - 1) - 1]
        BY <2>2
      <3>2. h[i - 1] = h[(i - 1) - 1] + lens[i - 1]
        BY <3>1, Zenon DEF Sums
      <3>3. QED BY <2>2, <3>1, <3>2
    <2>3. QED BY <2>1, <2>2
  <1>3. DOMAIN lens = 1 .. m
    OBVIOUS
  <1>4. g = Body(g)
    BY <1>2, <1>3, ZenonT(40)
  <1>5. q = Body(q)
    <2> HIDE DEF Body
    <2>1. QED BY <1>4, Zenon
  <1> HIDE DEF q
  <1>6. \A i \in 1 .. m : q[i] = IF i = 1 THEN start ELSE q[i - 1] + lens[i - 1]
    BY <1>3, <1>5
  <1> DEFINE T == {k \in Nat : k + 1 <= m => q[k + 1] = h[k]}
  <1>7. 0 \in T
    <2>1. ASSUME 1 <= m PROVE q[1] = h[0]
      BY <1>6, <2>1 DEF Sums
    <2>2. QED BY <2>1
  <1>8. ASSUME NEW k \in Nat, k \in T PROVE k + 1 \in T
    <2>1. ASSUME (k + 1) + 1 <= m PROVE q[(k + 1) + 1] = h[k + 1]
      <3>1. (k + 1) + 1 \in 1 .. m /\ (k + 1) + 1 # 1 /\ ((k + 1) + 1) - 1 = k + 1 /\ k + 1 \in 1 .. m /\ (k + 1) - 1 = k
        BY <2>1
      <3>2. q[(k + 1) + 1] = q[k + 1] + lens[k + 1]
        BY <1>6, <3>1
      <3>3. h[k + 1] = h[k] + lens[k + 1]
        BY <3>1 DEF Sums
      <3>4. q[k + 1] = h[k]
        BY <1>8, <3>1
      <3>5. QED BY <3>2, <3>3, <3>4
    <2>2. QED BY <2>1
  <1> HIDE DEF T
  <1>9. Nat \subseteq T
    BY <1>7, <1>8, Induction
  <1>10. ASSUME NEW k \in 1 .. m PROVE q[k] = h[k - 1]
    <2>1. k - 1 \in T /\ (k - 1) + 1 = k /\ k <= m
      BY <1>9
    <2>2. QED BY <2>1 DEF T
  <1>11. QED BY <1>1, <1>10 DEF StartsAt

\* A part lies before every later end.
LEMMA SumsOrder ==
    ASSUME NEW m \in Nat, NEW lens \in [1 .. m -> Nat], NEW start \in Nat,
           NEW h, Sums(h, m, lens, start)
    PROVE  \A k \in 0 .. m : \A i \in 0 .. k : h[i] <= h[k]
  <1> DEFINE T == {k \in Nat : k <= m => \A i \in 0 .. k : h[i] <= h[k]}
  <1>0. h \in [0 .. m -> Nat]
    BY DEF Sums
  <1>1. 0 \in T
    <2>1. h[0] <= h[0]
      BY <1>0
    <2>2. QED BY <2>1
  <1>2. ASSUME NEW k \in Nat, k \in T PROVE k + 1 \in T
    <2>1. ASSUME k + 1 <= m, NEW i \in 0 .. k + 1 PROVE h[i] <= h[k + 1]
      <3>1. k + 1 \in 1 .. m /\ (k + 1) - 1 = k
        BY <2>1
      <3>2. h[k + 1] = h[k] + lens[k + 1] /\ lens[k + 1] \in Nat
        BY <3>1 DEF Sums
      <3>3. h[k] \in Nat /\ h[i] \in Nat
        BY <1>0, <2>1, <3>1
      <3>4. CASE i \in 0 .. k
        <4>1. h[i] <= h[k]
          BY <1>2, <2>1, <3>4
        <4>2. QED BY <3>2, <3>3, <4>1
      <3>5. CASE i = k + 1
        BY <3>3, <3>5
      <3>6. QED BY <3>4, <3>5
    <2>2. QED BY <2>1
  <1> HIDE DEF T
  <1>3. Nat \subseteq T
    BY <1>1, <1>2, Induction
  <1>4. QED BY <1>3 DEF T

\* Further on, all starts by as much.
LEMMA SumsShift ==
    ASSUME NEW m \in Nat, NEW lens \in [1 .. m -> Nat], NEW start \in Nat, NEW more \in Nat,
           NEW h, Sums(h, m, lens, start)
    PROVE  Sums([k \in 0 .. m |-> more + h[k]], m, lens, more + start)
  <1>1. PICK g : g = [k \in 0 .. m |-> more + h[k]]
    OBVIOUS
  <1>2. h \in [0 .. m -> Nat] /\ h[0] = start
    BY DEF Sums
  <1>3. g \in [0 .. m -> Nat] /\ g[0] = more + start
    BY <1>1, <1>2
  <1>4. ASSUME NEW k \in 1 .. m PROVE g[k] = g[k - 1] + lens[k]
    <2>1. h[k] = h[k - 1] + lens[k]
      BY DEF Sums
    <2>2. g[k] = more + h[k] /\ g[k - 1] = more + h[k - 1] /\ h[k - 1] \in Nat /\ lens[k] \in Nat
      BY <1>1, <1>2
    <2>3. QED BY <2>1, <2>2
  <1>5. QED BY <1>1, <1>3, <1>4 DEF Sums

\* Two sequences that follow one rule from one value are one.
Alike(h, g, m) == h[0] = g[0] /\ \A k \in 1 .. m : h[k - 1] = g[k - 1] => h[k] = g[k]
Agree(h, g, m) == \A k \in 0 .. m : h[k] = g[k]
LEMMA SameFollows ==
    ASSUME NEW m \in Nat, NEW h, NEW g, Alike(h, g, m)
    PROVE  Agree(h, g, m)
  <1> DEFINE T == {k \in Nat : k <= m => h[k] = g[k]}
  <1>1. 0 \in T
    BY DEF Alike
  <1>2. ASSUME NEW k \in Nat, k \in T PROVE k + 1 \in T
    <2>1. ASSUME k + 1 <= m PROVE h[k + 1] = g[k + 1]
      <3>1. k + 1 \in 1 .. m /\ (k + 1) - 1 = k /\ k <= m
        BY <2>1
      <3>2. QED BY <1>2, <3>1 DEF Alike
    <2>2. QED BY <2>1
  <1> HIDE DEF T
  <1>3. Nat \subseteq T
    BY <1>1, <1>2, Induction
  <1>4. QED BY <1>3 DEF T, Agree

\* Concat takes the parts up one at a time.
TakesUp(u, parts, m, S) ==
    /\ u \in [0 .. m -> Seq(S)] /\ u[0] = <<>>
    /\ \A k \in 1 .. m : u[k] = u[k - 1] \o parts[k]

LEMMA ConcatTrace ==
    ASSUME NEW m \in Nat, NEW S, NEW parts \in [1 .. m -> Seq(S)]
    PROVE  \E u : TakesUp(u, parts, m, S) /\ Concat(parts) = u[m]
  <1> DEFINE Body(p) == [k \in 0 .. m |-> IF k = 0 THEN <<>> ELSE p[k - 1] \o parts[k]]
             q == CHOOSE p : p = Body(p)
  <1>0. Len(parts) = m
    OBVIOUS
  <1>1. Concat(parts) = q[m]
    BY <1>0 DEF Concat
  <1>2. PICK f : f = [at \in (1 .. m) \X Seq(S) |-> at[2] \o parts[at[1]]]
    OBVIOUS
  <1>3. f \in [(1 .. m) \X Seq(S) -> Seq(S)]
    <2>1. ASSUME NEW k \in 1 .. m, NEW s \in Seq(S) PROVE s \o parts[k] \in Seq(S)
      BY ConcatProperties
    <2>2. QED BY <1>2, <2>1
  <1>4. <<>> \in Seq(S)
    OBVIOUS
  <1>5. PICK h \in [0 .. m -> Seq(S)] : Follows(h, <<>>, f, m)
    BY <1>3, <1>4, Recursion
  <1>6. ASSUME NEW k \in 1 .. m PROVE h[k] = h[k - 1] \o parts[k]
    <2>1. PICK s \in Seq(S) : s = h[k - 1]
      OBVIOUS
    <2>2. <<k, s>> \in (1 .. m) \X Seq(S)
      OBVIOUS
    <2>3. f[<<k, s>>] = s \o parts[k]
      BY <1>2, <2>2
    <2>4. h[k] = f[<<k, s>>]
      BY <1>5, <2>1 DEF Follows
    <2>5. QED BY <2>1, <2>3, <2>4
  <1>7. \A k \in 0 .. m : h[k] = IF k = 0 THEN <<>> ELSE h[k - 1] \o parts[k]
    <2>1. h[0] = <<>>
      BY <1>5 DEF Follows
    <2>2. \A k \in 0 .. m : k = 0 \/ k \in 1 .. m
      OBVIOUS
    <2>3. QED BY <1>6, <2>1, <2>2, Zenon
  <1>8. h = Body(h)
    BY <1>7
  <1>9. q = Body(q)
    <2> HIDE DEF Body
    <2>1. QED BY <1>8, Zenon
  <1> HIDE DEF q
  <1>10. \A k \in 0 .. m : q[k] = IF k = 0 THEN <<>> ELSE q[k - 1] \o parts[k]
    <2>1. \A k \in 0 .. m : Body(q)[k] = IF k = 0 THEN <<>> ELSE q[k - 1] \o parts[k]
      OBVIOUS
    <2> HIDE DEF Body
    <2>2. QED BY <1>9, <2>1, Zenon
  <1>11. 0 \in 0 .. m /\ \A k \in 1 .. m : k \in 0 .. m /\ k # 0
    OBVIOUS
  <1>12. q[0] = <<>> /\ \A k \in 1 .. m : q[k] = q[k - 1] \o parts[k]
    BY <1>10, <1>11, Zenon
  <1>13. q[0] = h[0] /\ \A k \in 1 .. m : h[k - 1] = q[k - 1] => h[k] = q[k]
    BY <1>6, <1>7, <1>11, <1>12, Zenon
  <1>14. \A k \in 0 .. m : h[k] = q[k]
    <2>1. Alike(h, q, m)
      BY <1>13, Zenon DEF Alike
    <2>2. Agree(h, q, m)
      BY <2>1, SameFollows
    <2>3. QED BY <2>2, Zenon DEF Agree
  <1>15. q[m] = h[m] /\ m \in 0 .. m
    BY <1>14
  <1>16. h[0] = <<>>
    BY <1>7, <1>11, Zenon
  <1>17. TakesUp(h, parts, m, S)
    BY <1>6, <1>16, Zenon DEF TakesUp
  <1>18. QED BY <1>1, <1>15, <1>17, Zenon

\* The first k parts are in s, each where the sums say.
Parted(s, k, h, parts) ==
    /\ Len(s) = h[k]
    /\ \A i \in 1 .. k : \A j \in 1 .. Len(parts[i]) : s[h[i - 1] + j] = parts[i][j]

LensOf(parts, m) == [k \in 1 .. m |-> Len(parts[k])]

LEMMA WithinPart ==
    ASSUME NEW a \in Nat, NEW b \in Nat, NEW c \in Nat, NEW d \in Nat, c + d <= a, NEW j \in 1 .. d
    PROVE  c + j \in 1 .. a + b /\ c + j <= a
  OBVIOUS

LEMMA ConcatIs ==
    ASSUME NEW m \in Nat, NEW S, NEW parts \in [1 .. m -> Seq(S)],
           NEW h, Sums(h, m, LensOf(parts, m), 0)
    PROVE  Concat(parts) \in Seq(S) /\ Parted(Concat(parts), m, h, parts)
  <1>0. PICK u : TakesUp(u, parts, m, S) /\ Concat(parts) = u[m]
    BY ConcatTrace
  <1>1. /\ u \in [0 .. m -> Seq(S)] /\ u[0] = <<>> /\ Concat(parts) = u[m]
        /\ \A k \in 1 .. m : u[k] = u[k - 1] \o parts[k]
    BY <1>0, Zenon DEF TakesUp
  <1> DEFINE T == {k \in Nat : k <= m => Parted(u[k], k, h, parts)}
  <1>2. 0 \in T
    BY <1>1 DEF Parted, Sums
  <1>3. \A k \in 1 .. m : LensOf(parts, m)[k] = Len(parts[k]) /\ Len(parts[k]) \in Nat
    BY DEF LensOf
  <1>4. LensOf(parts, m) \in [1 .. m -> Nat]
    BY <1>3 DEF LensOf
  <1>5. \A k \in 0 .. m : \A i \in 0 .. k : h[i] <= h[k]
    BY <1>4, SumsOrder
  <1>6. ASSUME NEW k \in Nat, k \in T PROVE k + 1 \in T
    <2>1. ASSUME k + 1 <= m PROVE Parted(u[k + 1], k + 1, h, parts)
      <3>1. k + 1 \in 1 .. m /\ (k + 1) - 1 = k /\ k \in 0 .. m
        BY <2>1
      <3>2. PICK s \in Seq(S), t \in Seq(S) : s = u[k] /\ t = parts[k + 1] /\ u[k + 1] = s \o t
        BY <1>1, <3>1
      <3>3. Parted(s, k, h, parts)
        BY <1>6, <2>1, <3>2
      <3>4. h[k + 1] = h[k] + Len(t) /\ h[k] \in Nat /\ Len(t) \in Nat /\ Len(s) = h[k]
        <4>1. h[k + 1] = h[(k + 1) - 1] + LensOf(parts, m)[k + 1] /\ h[k] \in Nat
          BY <3>1 DEF Sums
        <4>2. LensOf(parts, m)[k + 1] = Len(t) /\ Len(t) \in Nat
          BY <1>3, <3>1, <3>2
        <4>3. QED BY <3>1, <3>3, <4>1, <4>2 DEF Parted
      <3>5. /\ Len(s \o t) = Len(s) + Len(t)
            /\ \A i \in 1 .. Len(s) + Len(t) : (s \o t)[i] = IF i <= Len(s) THEN s[i] ELSE t[i - Len(s)]
        BY ConcatProperties
      <3>6. ASSUME NEW i \in 1 .. k + 1, NEW j \in 1 .. Len(parts[i])
            PROVE  (s \o t)[h[i - 1] + j] = parts[i][j]
        <4>1. CASE i = k + 1
          <5>1. i - 1 = k /\ j \in 1 .. Len(t)
            BY <3>2, <4>1
          <5>2. h[k] + j \in 1 .. Len(s) + Len(t) /\ ~ (h[k] + j <= Len(s)) /\ (h[k] + j) - Len(s) = j
            <6>1. PICK a \in Nat, b \in Nat : a = Len(s) /\ b = Len(t) /\ h[k] = a
              BY <3>4
            <6>2. j \in 1 .. b
              BY <5>1, <6>1
            <6>3. QED BY <6>1, <6>2
          <5>3. (s \o t)[h[k] + j] = t[j]
            BY <3>5, <5>2
          <5>4. QED BY <3>2, <4>1, <5>1, <5>3
        <4>2. CASE i # k + 1
          <5>1. i \in 1 .. k /\ i \in 1 .. m /\ i \in 0 .. k /\ i - 1 \in 0 .. m
            BY <2>1, <4>2
          <5>2. h[i] = h[i - 1] + Len(parts[i]) /\ Len(parts[i]) \in Nat /\ h[i] <= h[k] /\ h[i - 1] \in Nat
            <6>1. h[i] = h[i - 1] + LensOf(parts, m)[i] /\ h[i - 1] \in Nat
              BY <5>1 DEF Sums
            <6>2. h[i] <= h[k]
              BY <1>5, <3>1, <5>1
            <6>3. QED BY <1>3, <5>1, <6>1, <6>2
          <5>3. h[i - 1] + j \in 1 .. Len(s) + Len(t) /\ h[i - 1] + j <= Len(s)
            <6>1. PICK a \in Nat, b \in Nat : a = Len(s) /\ b = Len(t) /\ h[k] = a
              BY <3>4
            <6>2. PICK c \in Nat, d \in Nat : c = h[i - 1] /\ d = Len(parts[i]) /\ c + d <= a
              BY <5>2, <6>1
            <6>3. j \in 1 .. d
              BY <6>2
            <6>4. c + j \in 1 .. a + b /\ c + j <= a
              BY <6>2, <6>3, WithinPart
            <6>5. QED BY <6>1, <6>2, <6>4, Zenon
          <5>4. (s \o t)[h[i - 1] + j] = s[h[i - 1] + j]
            BY <3>5, <5>3
          <5>5. QED BY <3>3, <5>1, <5>4 DEF Parted
        <4>3. QED BY <4>1, <4>2
      <3>7. Len(s \o t) = h[k + 1]
        BY <3>4, <3>5
      <3>8. QED BY <3>2, <3>6, <3>7 DEF Parted
    <2>2. QED BY <2>1
  <1> HIDE DEF T
  <1>7. Nat \subseteq T
    BY <1>2, <1>6, Induction
  <1>8. Parted(u[m], m, h, parts)
    BY <1>7 DEF T
  <1>9. u[m] \in Seq(S)
    BY <1>1
  <1>10. QED BY <1>1, <1>8, <1>9

\* Three parts.
Threefold(x, a, b, c) ==
    /\ Len(x) = Len(a) + Len(b) + Len(c)
    /\ \A k \in 1 .. Len(a) : x[k] = a[k]
    /\ \A k \in 1 .. Len(b) : x[Len(a) + k] = b[k]
    /\ \A k \in 1 .. Len(c) : x[Len(a) + Len(b) + k] = c[k]

LEMMA TwoParts ==
    ASSUME NEW S, NEW a \in Seq(S), NEW b \in Seq(S)
    PROVE  /\ a \o b \in Seq(S) /\ Len(a \o b) = Len(a) + Len(b)
           /\ \A k \in 1 .. Len(a) : (a \o b)[k] = a[k]
           /\ \A k \in 1 .. Len(b) : (a \o b)[Len(a) + k] = b[k]
  <1>1. PICK x : x = a \o b
    OBVIOUS
  <1>2. PICK m \in Nat, n \in Nat : m = Len(a) /\ n = Len(b)
    OBVIOUS
  <1>3. /\ x \in Seq(S) /\ Len(x) = m + n
        /\ \A i \in 1 .. m + n : x[i] = IF i <= m THEN a[i] ELSE b[i - m]
    BY <1>1, <1>2, ConcatProperties
  <1>4. ASSUME NEW k \in 1 .. m PROVE x[k] = a[k]
    <2>1. k \in 1 .. m + n /\ k <= m
      BY <1>2
    <2>2. QED BY <1>3, <2>1
  <1>5. ASSUME NEW k \in 1 .. n PROVE x[m + k] = b[k]
    <2>1. m + k \in 1 .. m + n /\ ~ (m + k <= m) /\ (m + k) - m = k
      BY <1>2
    <2>2. QED BY <1>3, <2>1
  <1>6. QED BY <1>1, <1>2, <1>3, <1>4, <1>5

LEMMA ThreeParts ==
    ASSUME NEW S, NEW a \in Seq(S), NEW b \in Seq(S), NEW c \in Seq(S)
    PROVE  (a \o b) \o c \in Seq(S) /\ Threefold((a \o b) \o c, a, b, c)
  <1>1. PICK d \in Seq(S) : d = a \o b
    BY TwoParts
  <1>2. PICK x \in Seq(S) : x = d \o c
    BY TwoParts
  <1>3. PICK l \in Nat, m \in Nat, n \in Nat : l = Len(a) /\ m = Len(b) /\ n = Len(c)
    OBVIOUS
  <1>4. /\ Len(d) = l + m /\ \A k \in 1 .. l : d[k] = a[k]
        /\ \A k \in 1 .. m : d[l + k] = b[k]
    BY <1>1, <1>3, TwoParts
  <1>5. /\ Len(x) = (l + m) + n /\ \A k \in 1 .. l + m : x[k] = d[k]
        /\ \A k \in 1 .. n : x[(l + m) + k] = c[k]
    <2>1. /\ Len(x) = Len(d) + Len(c) /\ \A k \in 1 .. Len(d) : x[k] = d[k]
          /\ \A k \in 1 .. Len(c) : x[Len(d) + k] = c[k]
      BY <1>2, TwoParts
    <2>2. Len(d) = l + m /\ Len(c) = n
      BY <1>3, <1>4
    <2>3. QED BY <2>1, <2>2, Zenon
  <1>6. ASSUME NEW k \in 1 .. l PROVE x[k] = a[k]
    <2>1. k \in 1 .. l + m
      BY <1>3
    <2>2. QED BY <1>4, <1>5, <2>1
  <1>7. ASSUME NEW k \in 1 .. m PROVE x[l + k] = b[k]
    <2>1. l + k \in 1 .. l + m
      BY <1>3
    <2>2. QED BY <1>4, <1>5, <2>1
  <1>8. Threefold(x, a, b, c)
    BY <1>3, <1>5, <1>6, <1>7, Zenon DEF Threefold
  <1>9. QED BY <1>1, <1>2, <1>8

\* Whole sectors.
LEMMA SectorsOf ==
    ASSUME NEW n \in Nat
    PROVE  /\ Sectors(n) \in Nat /\ align_up(n) \in Nat /\ align_up(n) = Sectors(n) * SECTOR
           /\ n <= align_up(n) /\ align_up(n) \div SECTOR = Sectors(n)
  <1>1. PICK s \in Nat \ {0} : s = SECTOR
    BY FilesConstants DEF FS_HEADER
  <1>2. PICK v \in Nat : v = n + s - 1
    BY <1>1
  <1>3. PICK d \in Nat : d = v \div s /\ d * s <= v /\ v < d * s + s /\ d * s \in Nat
    <2>1. /\ v \div s \in Nat /\ (v \div s) * s <= v /\ v < (v \div s) * s + s
      BY <1>1
    <2>2. QED BY <2>1
  <1>4. Sectors(n) = d /\ align_up(n) = d * s
    BY <1>1, <1>2, <1>3 DEF Sectors, align_up
  <1>5. n <= d * s
    BY <1>1, <1>2, <1>3
  <1>6. (d * s) \div s = d
    BY <1>1, <1>3
  <1>7. QED BY <1>1, <1>3, <1>4, <1>5, <1>6

\* Sectors that are put one behind the other start at sectors.
Whole(n) == \E q \in Nat : n = q * SECTOR

LEMMA WholeOf ==
    ASSUME NEW n \in Nat
    PROVE  Whole(align_up(n))
  BY SectorsOf DEF Whole

LEMMA WholeSum ==
    ASSUME NEW a, NEW b, Whole(a), Whole(b)
    PROVE  Whole(a + b)
  <1>1. PICK p \in Nat : a = p * SECTOR
    BY DEF Whole
  <1>2. PICK q \in Nat : b = q * SECTOR
    BY DEF Whole
  <1>3. SECTOR \in Nat
    BY FilesConstants
  <1>4. a + b = (p + q) * SECTOR /\ p + q \in Nat
    BY <1>1, <1>2, <1>3
  <1>5. QED BY <1>4 DEF Whole

LEMMA WholeSums ==
    ASSUME NEW m \in Nat, NEW lens \in [1 .. m -> Nat], NEW start \in Nat,
           NEW h, Sums(h, m, lens, start),
           Whole(start), \A k \in 1 .. m : Whole(lens[k])
    PROVE  \A k \in 0 .. m : Whole(h[k])
  <1> DEFINE T == {k \in Nat : k <= m => Whole(h[k])}
  <1>1. 0 \in T
    BY DEF Sums
  <1>2. ASSUME NEW k \in Nat, k \in T PROVE k + 1 \in T
    <2>1. ASSUME k + 1 <= m PROVE Whole(h[k + 1])
      <3>1. k + 1 \in 1 .. m /\ (k + 1) - 1 = k
        BY <2>1
      <3>2. h[k + 1] = h[k] + lens[k + 1]
        BY <3>1 DEF Sums
      <3>3. Whole(h[k]) /\ Whole(lens[k + 1])
        BY <1>2, <2>1, <3>1
      <3>4. QED BY <3>2, <3>3, WholeSum
    <2>2. QED BY <2>1
  <1> HIDE DEF T
  <1>3. Nat \subseteq T
    BY <1>1, <1>2, Induction
  <1>4. QED BY <1>3 DEF T

\* Padding.
LEMMA PadIs ==
    ASSUME NEW cells \in Seq(Int)
    PROVE  /\ Pad(cells) \in Seq(Int) /\ Len(Pad(cells)) = align_up(Len(cells))
           /\ \A k \in 1 .. Len(cells) : Pad(cells)[k] = cells[k]
  <1>1. PICK n \in Nat : n = Len(cells)
    OBVIOUS
  <1>2. PICK u \in Nat : u = align_up(n) /\ n <= u
    BY SectorsOf
  <1>3. PICK z \in Seq(Int) : z = [k \in 1 .. u - n |-> 0] /\ Len(z) = u - n
    <2>1. u - n \in Nat
      BY <1>2
    <2>2. [k \in 1 .. u - n |-> 0] \in Seq(Int) /\ Len([k \in 1 .. u - n |-> 0]) = u - n
      BY <2>1
    <2>3. QED BY <2>2
  <1>4. Pad(cells) = cells \o z
    BY <1>1, <1>2, <1>3 DEF Pad
  <1>5. n + (u - n) = u
    BY <1>2
  <1>6. QED BY <1>1, <1>2, <1>3, <1>4, <1>5, TwoParts

-----------------------------------------------------------------------------
(* llf.py.                                                                 *)

Segments == [type : Int, flags : Int, vaddr : Int, memsz : Nat, data : Seq(Int)]

PhdrOK(p) ==
    p.type \in Int /\ p.flags \in Int /\ p.vaddr \in Int /\ p.memsz \in Nat /\ p.data \in Seq(Int)
Loadable(p) == p.type = PT_LOAD /\ p.memsz # 0

\* No address is mapped by two segments.
Disjoint(ph, n) ==
    \A i, j \in 1 .. n :
       ph[i].type = PT_LOAD /\ ph[j].type = PT_LOAD /\ i # j => Mapped(ph[i]) \cap Mapped(ph[j]) = {}

LEMMA ElfFacts ==
    ASSUME NEW elf, ElfOK(elf), NEW ph, ph = elf.phdrs, NEW n, n = Len(ph)
    PROVE  /\ n \in Nat /\ elf.entry \in Int /\ DOMAIN ph = 1 .. n
           /\ \A i \in 1 .. n : PhdrOK(ph[i])
           /\ Disjoint(ph, n)
  <1>1. Listed(ph) /\ elf.entry \in Int
    BY DEF ElfOK
  <1>2. n \in Nat /\ DOMAIN ph = 1 .. n
    BY <1>1, LenProperties DEF Listed
  <1>3. ASSUME NEW i \in 1 .. n PROVE PhdrOK(ph[i])
    <2>1. i \in DOMAIN elf.phdrs
      BY <1>2
    <2>2. PICK p : p = elf.phdrs[i]
      OBVIOUS
    <2>3. {p.type, p.flags, p.vaddr, p.memsz} \subseteq Int /\ p.data \in Seq(Int) /\ Len(p.data) <= p.memsz
      BY <2>1, <2>2, Zenon DEF ElfOK
    <2>4. Len(p.data) \in Nat
      BY <2>3, LenProperties
    <2>5. PhdrOK(p)
      BY <2>3, <2>4 DEF PhdrOK
    <2>6. QED BY <2>2, <2>5
  <1>4. Disjoint(ph, n)
    BY <1>2, Zenon DEF ElfOK, Disjoint
  <1>5. QED BY <1>1, <1>2, <1>3, <1>4

LEMMA SegmentOK ==
    ASSUME NEW p, PhdrOK(p)
    PROVE  Segment(p) \in Segments
  BY DEF PhdrOK, Segment, Segments, LLF_SEG_NOBITS, LLF_SEG_LOAD

\* parse_elf, program header by program header.
Parses(s, ph, n) ==
    /\ s \in [0 .. n -> Seq(Segments)] /\ s[0] = <<>>
    /\ \A k \in 1 .. n : s[k] = IF Loadable(ph[k]) THEN Append(s[k - 1], Segment(ph[k])) ELSE s[k - 1]

LEMMA ParseTrace ==
    ASSUME NEW elf, ElfOK(elf), NEW ph, ph = elf.phdrs, NEW n, n = Len(ph)
    PROVE  \E s : Parses(s, ph, n) /\ parse_elf(elf) = s[n]
  <1> DEFINE Step(k, s) == IF Loadable(ph[k]) THEN Append(s, Segment(ph[k])) ELSE s
             Body(p) == [k \in 0 .. n |-> IF k = 0 THEN <<>> ELSE Step(k, p[k - 1])]
             Code(p) == [k \in 0 .. Len(elf.phdrs) |->
                           IF k = 0 THEN <<>>
                           ELSE IF elf.phdrs[k].type # PT_LOAD \/ elf.phdrs[k].memsz = 0 THEN p[k - 1]
                                ELSE Append(p[k - 1], Segment(elf.phdrs[k]))]
             c == CHOOSE p : p = Code(p)
             q == CHOOSE p : p = Body(p)
  <1>1. n \in Nat /\ \A i \in 1 .. n : PhdrOK(ph[i])
    BY ElfFacts
  <1>2. parse_elf(elf) = q[n]
    <2>1. parse_elf(elf) = c[n]
      BY DEF parse_elf
    <2>2. \A p : Code(p) = Body(p)
      BY DEF Loadable
    <2> HIDE DEF Code, Body
    <2>3. QED BY <2>1, <2>2
  <1>3. PICK f : f = [at \in (1 .. n) \X Seq(Segments) |-> Step(at[1], at[2])]
    OBVIOUS
  <1>4. f \in [(1 .. n) \X Seq(Segments) -> Seq(Segments)]
    <2>1. ASSUME NEW k \in 1 .. n, NEW s \in Seq(Segments) PROVE Step(k, s) \in Seq(Segments)
      <3>1. Segment(ph[k]) \in Segments
        BY <1>1, SegmentOK
      <3>2. Append(s, Segment(ph[k])) \in Seq(Segments)
        BY <3>1, AppendProperties
      <3>3. QED BY <3>2
    <2> HIDE DEF Step
    <2>2. QED BY <1>3, <2>1
  <1>5. <<>> \in Seq(Segments)
    OBVIOUS
  <1>6. PICK h \in [0 .. n -> Seq(Segments)] : Follows(h, <<>>, f, n)
    BY <1>1, <1>4, <1>5, Recursion
  <1> HIDE DEF Step
  <1>7. ASSUME NEW k \in 1 .. n PROVE h[k] = Step(k, h[k - 1])
    <2>1. PICK s \in Seq(Segments) : s = h[k - 1]
      BY <1>1
    <2>2. <<k, s>> \in (1 .. n) \X Seq(Segments)
      OBVIOUS
    <2>3. f[<<k, s>>] = Step(k, s)
      BY <1>3, <2>2
    <2>4. h[k] = f[<<k, s>>]
      BY <1>6, <2>1 DEF Follows
    <2>5. QED BY <2>1, <2>3, <2>4
  <1>8. h[0] = <<>>
    BY <1>6 DEF Follows
  <1>9. 0 \in 0 .. n /\ (\A k \in 0 .. n : k = 0 \/ k \in 1 .. n) /\ \A k \in 1 .. n : k \in 0 .. n /\ k # 0
    BY <1>1
  <1>10. \A k \in 0 .. n : h[k] = IF k = 0 THEN <<>> ELSE Step(k, h[k - 1])
    BY <1>7, <1>8, <1>9, Zenon
  <1>11. h = Body(h)
    BY <1>10
  <1>12. q = Body(q)
    <2> HIDE DEF Body
    <2>1. QED BY <1>11, Zenon
  <1> HIDE DEF q
  <1>13. \A k \in 0 .. n : q[k] = IF k = 0 THEN <<>> ELSE Step(k, q[k - 1])
    <2>1. \A k \in 0 .. n : Body(q)[k] = IF k = 0 THEN <<>> ELSE Step(k, q[k - 1])
      OBVIOUS
    <2> HIDE DEF Body
    <2>2. QED BY <1>12, <2>1, Zenon
  <1> HIDE DEF Body
  <1>14. h[0] = q[0] /\ \A k \in 1 .. n : h[k - 1] = q[k - 1] => h[k] = q[k]
    BY <1>7, <1>8, <1>9, <1>13, Zenon
  <1>15. \A k \in 0 .. n : h[k] = q[k]
    <2>1. Alike(h, q, n)
      BY <1>14, Zenon DEF Alike
    <2>2. Agree(h, q, n)
      BY <1>1, <2>1, SameFollows
    <2>3. QED BY <2>2, Zenon DEF Agree
  <1>16. q[n] = h[n]
    BY <1>1, <1>15
  <1>17. Parses(h, ph, n)
    BY <1>6, <1>7, <1>8, Zenon DEF Parses, Step
  <1>18. QED BY <1>2, <1>16, <1>17, Zenon

\* The segments are those of the program headers that are loaded.
Taken(s, ph, k) ==
    /\ \A i \in 1 .. Len(s) : \E j \in 1 .. k : Loadable(ph[j]) /\ s[i] = Segment(ph[j])
    /\ \A j \in 1 .. k : Loadable(ph[j]) => \E i \in 1 .. Len(s) : s[i] = Segment(ph[j])

LEMMA TakenMore ==
    ASSUME NEW s \in Seq(Segments), NEW ph, NEW k \in Nat, Taken(s, ph, k), PhdrOK(ph[k + 1])
    PROVE  Taken(IF Loadable(ph[k + 1]) THEN Append(s, Segment(ph[k + 1])) ELSE s, ph, k + 1)
  <1>1. CASE Loadable(ph[k + 1])
    <2>1. PICK e \in Segments : e = Segment(ph[k + 1])
      BY SegmentOK
    <2>2. PICK t \in Seq(Segments), l \in Nat :
             /\ t = Append(s, e) /\ l = Len(s) /\ Len(t) = l + 1
             /\ \A i \in 1 .. l : t[i] = s[i]
             /\ t[l + 1] = e
      <3>1. /\ Append(s, e) \in Seq(Segments) /\ Len(s) \in Nat /\ Len(Append(s, e)) = Len(s) + 1
            /\ \A i \in 1 .. Len(s) : Append(s, e)[i] = s[i]
            /\ Append(s, e)[Len(s) + 1] = e
        BY AppendProperties, LenProperties
      <3>2. QED BY <3>1, Zenon
    <2>3. ASSUME NEW i \in 1 .. l + 1
          PROVE  \E j \in 1 .. k + 1 : Loadable(ph[j]) /\ t[i] = Segment(ph[j])
      <3>1. CASE i = l + 1
        <4>1. k + 1 \in 1 .. k + 1
          OBVIOUS
        <4>2. QED BY <1>1, <2>1, <2>2, <3>1, <4>1, Zenon
      <3>2. CASE i # l + 1
        <4>1. i \in 1 .. l
          BY <3>2
        <4>2. PICK j \in 1 .. k : Loadable(ph[j]) /\ s[i] = Segment(ph[j])
          BY <2>2, <4>1, Zenon DEF Taken
        <4>3. j \in 1 .. k + 1
          OBVIOUS
        <4>4. QED BY <2>2, <4>1, <4>2, <4>3, Zenon
      <3>3. QED BY <3>1, <3>2
    <2>4. ASSUME NEW j \in 1 .. k + 1, Loadable(ph[j])
          PROVE  \E i \in 1 .. l + 1 : t[i] = Segment(ph[j])
      <3>1. CASE j = k + 1
        <4>1. l + 1 \in 1 .. l + 1
          OBVIOUS
        <4>2. QED BY <2>1, <2>2, <3>1, <4>1, Zenon
      <3>2. CASE j # k + 1
        <4>1. j \in 1 .. k
          BY <3>2
        <4>2. PICK i \in 1 .. l : s[i] = Segment(ph[j])
          BY <2>2, <2>4, <4>1, Zenon DEF Taken
        <4>3. i \in 1 .. l + 1
          OBVIOUS
        <4>4. QED BY <2>2, <4>2, <4>3, Zenon
      <3>3. QED BY <3>1, <3>2
    <2>5. Taken(t, ph, k + 1)
      BY <2>2, <2>3, <2>4, Zenon DEF Taken
    <2>6. QED BY <1>1, <2>1, <2>2, <2>5
  <1>2. CASE ~ Loadable(ph[k + 1])
    <2>1. \A j \in 1 .. k + 1 : j \in 1 .. k \/ j = k + 1
      OBVIOUS
    <2>2. \A j \in 1 .. k : j \in 1 .. k + 1
      OBVIOUS
    <2>3. Taken(s, ph, k + 1)
      BY <1>2, <2>1, <2>2, Zenon DEF Taken
    <2>4. QED BY <1>2, <2>3
  <1>3. QED BY <1>1, <1>2

LEMMA ParseIs ==
    ASSUME NEW elf, ElfOK(elf)
    PROVE  parse_elf(elf) \in Seq(Segments) /\ Taken(parse_elf(elf), elf.phdrs, Len(elf.phdrs))
  <1>1. PICK ph, n : ph = elf.phdrs /\ n = Len(ph)
    OBVIOUS
  <1>2. n \in Nat /\ \A i \in 1 .. n : PhdrOK(ph[i])
    BY <1>1, ElfFacts
  <1>3. PICK s : Parses(s, ph, n) /\ parse_elf(elf) = s[n]
    BY <1>1, ParseTrace
  <1> DEFINE T == {k \in Nat : k <= n => Taken(s[k], ph, k)}
  <1>4. 0 \in T
    <2>1. s[0] = <<>>
      BY <1>3 DEF Parses
    <2>2. Taken(<<>>, ph, 0)
      BY DEF Taken
    <2>3. QED BY <2>1, <2>2
  <1>5. ASSUME NEW k \in Nat, k \in T PROVE k + 1 \in T
    <2>1. ASSUME k + 1 <= n PROVE Taken(s[k + 1], ph, k + 1)
      <3>1. k + 1 \in 1 .. n /\ (k + 1) - 1 = k /\ k \in 0 .. n
        BY <1>2, <2>1
      <3>2. PICK r \in Seq(Segments) : r = s[k]
        BY <1>3, <3>1 DEF Parses
      <3>3. s[k + 1] = IF Loadable(ph[k + 1]) THEN Append(r, Segment(ph[k + 1])) ELSE r
        <4>1. s[k + 1] = IF Loadable(ph[k + 1]) THEN Append(s[(k + 1) - 1], Segment(ph[k + 1])) ELSE s[(k + 1) - 1]
          BY <1>3, <3>1, Zenon DEF Parses
        <4>2. QED BY <3>1, <3>2, <4>1
      <3>4. Taken(r, ph, k) /\ PhdrOK(ph[k + 1])
        BY <1>2, <1>5, <2>1, <3>1, <3>2
      <3>5. Taken(IF Loadable(ph[k + 1]) THEN Append(r, Segment(ph[k + 1])) ELSE r, ph, k + 1)
        BY <3>4, TakenMore
      <3>6. QED BY <3>3, <3>5
    <2>2. QED BY <2>1
  <1> HIDE DEF T
  <1>6. Nat \subseteq T
    BY <1>4, <1>5, Induction
  <1>7. Taken(s[n], ph, n)
    BY <1>2, <1>6 DEF T
  <1>8. s[n] \in Seq(Segments)
    BY <1>2, <1>3 DEF Parses
  <1>9. QED BY <1>1, <1>3, <1>7, <1>8

\* What llf_load reads of a file it is given.
Holds(buf, i, seg) ==
    LET ph == Phdr(buf, i - 1)
    IN  /\ ph.type = seg.type /\ ph.vaddr = seg.vaddr /\ ph.memsz = seg.memsz
        /\ ph.filesz = Len(seg.data) /\ ph.offset \in Int
        /\ \A j \in 1 .. Len(seg.data) : buf[ph.offset + j] = seg.data[j]

LlfOf(buf, entry, segs) ==
    /\ buf[1] = LLF_MAGIC /\ buf[3] = entry /\ buf[4] = LLF_HEADER /\ buf[5] = Len(segs)
    /\ \A i \in 1 .. Len(segs) : Holds(buf, i, segs[i])

\* buf begins with x.
Begins(buf, x) == \A k \in 1 .. Len(x) : buf[k] = x[k]

\* The cells of a program header.
PhdrCells(segs, i) ==
    <<segs[i].type, segs[i].flags, segs[i].vaddr, segs[i].memsz, Len(segs[i].data),
      IF segs[i].data = <<>> THEN 0 ELSE DataOffsets(segs)[i], 0>>

LEMMA SevenCells ==
    ASSUME NEW a \in Int, NEW b \in Int, NEW c \in Int, NEW d \in Int, NEW e \in Int, NEW f \in Int, NEW g \in Int
    PROVE  <<a, b, c, d, e, f, g>> \in Seq(Int) /\ Len(<<a, b, c, d, e, f, g>>) = 7
  OBVIOUS

\* Parts of one length.
LEMMA EvenSums ==
    ASSUME NEW m \in Nat, NEW w \in Nat, NEW lens, \A k \in 1 .. m : lens[k] = w
    PROVE  Sums([k \in 0 .. m |-> k * w], m, lens, 0)
  <1>1. PICK h : h = [k \in 0 .. m |-> k * w]
    OBVIOUS
  <1>2. h \in [0 .. m -> Nat] /\ h[0] = 0
    BY <1>1
  <1>3. ASSUME NEW k \in 1 .. m PROVE h[k] = h[k - 1] + lens[k]
    <2>1. h[k] = k * w /\ h[k - 1] = (k - 1) * w
      BY <1>1
    <2>2. k * w = (k - 1) * w + w
      OBVIOUS
    <2>3. QED BY <2>1, <2>2
  <1>4. QED BY <1>1, <1>2, <1>3 DEF Sums

\* Where the data of the segments lies.
DataAt(h, segs, m) ==
    /\ Sums(h, m, LensOf([i \in 1 .. m |-> segs[i].data], m), 0)
    /\ \A i \in 1 .. m : DataOffsets(segs)[i] = (LLF_HEADER + m * LLF_PHDR) + h[i - 1]

LEMMA DataOffsetsAre ==
    ASSUME NEW segs \in Seq(Segments), NEW m, m = Len(segs)
    PROVE  \E h : DataAt(h, segs, m)
  <1>1. m \in Nat /\ DOMAIN segs = 1 .. m /\ \A i \in 1 .. m : segs[i].data \in Seq(Int)
    <2>1. m \in Nat /\ DOMAIN segs = 1 .. m /\ \A i \in 1 .. m : segs[i] \in Segments
      OBVIOUS
    <2>2. QED BY <2>1 DEF Segments
  <1>2. PICK lens : lens = LensOf([i \in 1 .. m |-> segs[i].data], m)
    OBVIOUS
  <1>3. lens = [i \in DOMAIN segs |-> Len(segs[i].data)]
    BY <1>1, <1>2 DEF LensOf
  <1>4. lens \in [1 .. m -> Nat]
    <2>1. \A i \in 1 .. m : Len(segs[i].data) \in Nat
      BY <1>1, LenProperties
    <2>2. QED BY <1>1, <1>3, <2>1
  <1>5. PICK h : Sums(h, m, lens, 0)
    BY <1>1, <1>4, SumsExist
  <1>6. PICK b \in Nat : b = LLF_HEADER + m * LLF_PHDR
    BY <1>1 DEF LLF_HEADER, LLF_PHDR
  <1>7. PICK g : g = [k \in 0 .. m |-> b + h[k]]
    OBVIOUS
  <1>8. Sums(g, m, lens, b)
    <2>1. Sums(g, m, lens, b + 0)
      BY <1>1, <1>4, <1>5, <1>7, SumsShift
    <2>2. QED BY <2>1
  <1>9. DataOffsets(segs) = Offsets(lens, b)
    BY <1>3, <1>6 DEF DataOffsets
  <1>10. ASSUME NEW i \in 1 .. m PROVE DataOffsets(segs)[i] = b + h[i - 1]
    <2>0. StartsAt(Offsets(lens, b), g, m)
      BY <1>1, <1>4, <1>6, <1>8, OffsetsAre
    <2>1. Offsets(lens, b)[i] = g[i - 1]
      BY <2>0 DEF StartsAt
    <2>2. g[i - 1] = b + h[i - 1]
      BY <1>1, <1>7
    <2>3. QED BY <1>9, <2>1, <2>2
  <1>11. DataAt(h, segs, m)
    BY <1>2, <1>5, <1>6, <1>10, Zenon DEF DataAt
  <1>12. QED BY <1>11, Zenon

LEMMA ToLlfIs ==
    ASSUME NEW segs \in Seq(Segments), NEW entry \in Int
    PROVE  /\ to_llf_bytes(entry, segs) \in Seq(Int) /\ Len(to_llf_bytes(entry, segs)) >= LLF_HEADER
           /\ \A buf : Begins(buf, to_llf_bytes(entry, segs)) => LlfOf(buf, entry, segs)
  <1>1. PICK m \in Nat : m = Len(segs) /\ DOMAIN segs = 1 .. m
    OBVIOUS
  <1>2. PICK pd : pd = [i \in 1 .. m |-> segs[i].data]
    OBVIOUS
  <1>3. ASSUME NEW i \in 1 .. m
        PROVE  /\ segs[i].type \in Int /\ segs[i].flags \in Int /\ segs[i].vaddr \in Int
               /\ segs[i].memsz \in Nat /\ segs[i].data \in Seq(Int) /\ pd[i] = segs[i].data
    <2>1. segs[i] \in Segments
      BY <1>1
    <2>2. QED BY <1>2, <2>1 DEF Segments
  <1>4. pd \in [1 .. m -> Seq(Int)]
    BY <1>2, <1>3
  <1>0. PICK h : DataAt(h, segs, m)
    BY <1>1, DataOffsetsAre
  <1>5. /\ Sums(h, m, LensOf(pd, m), 0)
        /\ \A i \in 1 .. m : DataOffsets(segs)[i] = (LLF_HEADER + m * LLF_PHDR) + h[i - 1]
    BY <1>0, <1>2, Zenon DEF DataAt
  <1>6. PICK D \in Seq(Int) : D = Concat(pd) /\ Parted(D, m, h, pd)
    BY <1>4, <1>5, ConcatIs
  <1>7. PICK pp : pp = [i \in 1 .. m |-> PhdrCells(segs, i)]
    OBVIOUS
  <1>8. ASSUME NEW i \in 1 .. m
        PROVE  /\ pp[i] = PhdrCells(segs, i) /\ pp[i] \in Seq(Int) /\ Len(pp[i]) = 7
               /\ DataOffsets(segs)[i] \in Int
    <2>1. DataOffsets(segs)[i] \in Int
      <3>1. i - 1 \in 0 .. m /\ h[i - 1] \in Nat
        BY <1>5 DEF Sums
      <3>2. DataOffsets(segs)[i] = (LLF_HEADER + m * LLF_PHDR) + h[i - 1]
        BY <1>5
      <3>3. QED BY <3>1, <3>2 DEF LLF_HEADER, LLF_PHDR
    <2>2. PICK x : x = IF segs[i].data = <<>> THEN 0 ELSE DataOffsets(segs)[i]
      OBVIOUS
    <2>3. x \in Int
      BY <2>1, <2>2
    <2>4. Len(segs[i].data) \in Int /\ segs[i].memsz \in Int
      BY <1>3, LenProperties
    <2>5. PhdrCells(segs, i) \in Seq(Int) /\ Len(PhdrCells(segs, i)) = 7
      BY <1>3, <2>2, <2>3, <2>4, SevenCells DEF PhdrCells
    <2>6. QED BY <1>7, <2>1, <2>5
  <1>9. pp \in [1 .. m -> Seq(Int)]
    BY <1>7, <1>8
  <1>10. PICK hp : hp = [k \in 0 .. m |-> k * 7] /\ Sums(hp, m, LensOf(pp, m), 0)
    <2>1. \A k \in 1 .. m : LensOf(pp, m)[k] = 7
      BY <1>8 DEF LensOf
    <2>2. QED BY <2>1, EvenSums
  <1>11. PICK P \in Seq(Int) : P = Concat(pp) /\ Parted(P, m, hp, pp)
    BY <1>9, <1>10, ConcatIs
  <1>12. PICK H : H = <<LLF_MAGIC, 1, entry, LLF_HEADER, Len(segs), 0>>
    OBVIOUS
  <1>13. /\ H \in Seq(Int) /\ Len(H) = 6
         /\ H[1] = LLF_MAGIC /\ H[3] = entry /\ H[4] = LLF_HEADER /\ H[5] = m
    BY <1>1, <1>12 DEF LLF_MAGIC, LLF_HEADER
  <1>14. PICK x \in Seq(Int) : x = to_llf_bytes(entry, segs) /\ Threefold(x, H, P, D)
    <2>1. to_llf_bytes(entry, segs) = (H \o P) \o D
      <3>1. pp = [i \in DOMAIN segs |-> PhdrCells(segs, i)] /\ pd = [i \in DOMAIN segs |-> segs[i].data]
        BY <1>1, <1>2, <1>7
      <3>2. QED BY <1>6, <1>11, <1>12, <3>1 DEF to_llf_bytes, PhdrCells
    <2>2. (H \o P) \o D \in Seq(Int) /\ Threefold((H \o P) \o D, H, P, D)
      BY <1>13, ThreeParts
    <2>3. QED BY <2>1, <2>2
  <1>15. Len(P) = m * 7 /\ Len(D) \in Nat /\ Len(D) = h[m]
    BY <1>6, <1>10, <1>11 DEF Parted
  <1>16. Len(x) = 6 + m * 7 + Len(D)
    BY <1>13, <1>14, <1>15 DEF Threefold
  <1>17. PICK d \in Nat : d = Len(D) /\ Len(x) = 6 + m * 7 + d
    BY <1>15, <1>16
  <1>18. ASSUME NEW buf, Begins(buf, x) PROVE LlfOf(buf, entry, segs)
    <2>1. ASSUME NEW k \in 1 .. 6 PROVE buf[k] = H[k]
      <3>1. k \in 1 .. Len(x) /\ k \in 1 .. Len(H)
        BY <1>13, <1>17, SMTT(30)
      <3>2. QED BY <1>14, <1>18, <3>1, Zenon DEF Threefold, Begins
    <2>2. buf[1] = LLF_MAGIC /\ buf[3] = entry /\ buf[4] = LLF_HEADER /\ buf[5] = m
      BY <1>13, <2>1
    <2>3. ASSUME NEW i \in 1 .. m, NEW c \in 1 .. 7 PROVE buf[(6 + (i - 1) * 7) + c] = PhdrCells(segs, i)[c]
      <3>1. hp[i - 1] = (i - 1) * 7 /\ c \in 1 .. Len(pp[i])
        <4>1. i - 1 \in 0 .. m
          OBVIOUS
        <4>2. hp[i - 1] = (i - 1) * 7
          BY <1>10, <4>1
        <4>3. Len(pp[i]) = 7
          BY <1>8
        <4>4. QED BY <4>2, <4>3
      <3>2. P[(i - 1) * 7 + c] = pp[i][c]
        BY <1>11, <3>1, Zenon DEF Parted
      <3>3. PICK k \in 1 .. m * 7 : k = (i - 1) * 7 + c /\ (6 + (i - 1) * 7) + c = 6 + k /\ 6 + k \in 1 .. Len(x)
        <4>1. PICK k \in Nat : k = (i - 1) * 7 + c
          OBVIOUS
        <4>2. k \in 1 .. m * 7 /\ (6 + (i - 1) * 7) + c = 6 + k
          BY <4>1
        <4>3. 6 + k \in 1 .. Len(x)
          BY <1>17, <4>2
        <4>4. QED BY <4>1, <4>2, <4>3
      <3>4. x[Len(H) + k] = P[k]
        BY <1>14, <1>15, <3>3, Zenon DEF Threefold
      <3>5. x[6 + k] = P[k]
        BY <1>13, <3>4
      <3>6. buf[6 + k] = x[6 + k]
        BY <1>18, <3>3, Zenon DEF Begins
      <3>7. QED BY <1>8, <3>2, <3>3, <3>5, <3>6
    <2>4. ASSUME NEW i \in 1 .. m PROVE Holds(buf, i, segs[i])
      <3>1. PICK a \in Nat : a = 6 + (i - 1) * 7
        OBVIOUS
      <3>2. Phdr(buf, i - 1) = [type |-> buf[a + 1], vaddr |-> buf[a + 3], memsz |-> buf[a + 4],
                                filesz |-> buf[a + 5], offset |-> buf[a + 6]]
        BY <2>2, <3>1 DEF Phdr, LLF_HEADER, LLF_PHDR
      <3>3. \A c \in 1 .. 7 : buf[a + c] = PhdrCells(segs, i)[c]
        BY <2>3, <3>1
      <3>4. /\ buf[a + 1] = PhdrCells(segs, i)[1] /\ buf[a + 3] = PhdrCells(segs, i)[3]
            /\ buf[a + 4] = PhdrCells(segs, i)[4] /\ buf[a + 5] = PhdrCells(segs, i)[5]
            /\ buf[a + 6] = PhdrCells(segs, i)[6]
        BY <3>3
      <3>5. PICK ph : ph = Phdr(buf, i - 1)
        OBVIOUS
      <3>6. /\ ph.type = segs[i].type /\ ph.vaddr = segs[i].vaddr /\ ph.memsz = segs[i].memsz
            /\ ph.filesz = Len(segs[i].data)
            /\ ph.offset = IF segs[i].data = <<>> THEN 0 ELSE DataOffsets(segs)[i]
        BY <3>2, <3>4, <3>5, SMTT(30) DEF PhdrCells
      <3>7. ASSUME NEW j \in 1 .. Len(segs[i].data) PROVE buf[ph.offset + j] = segs[i].data[j]
        <4>1. segs[i].data # <<>>
          BY <1>3, <3>7
        <4>2. PICK b \in Nat : b = h[i - 1] /\ ph.offset = 6 + m * 7 + b
          <5>1. h[i - 1] \in Nat
            BY <1>5 DEF Sums
          <5>2. DataOffsets(segs)[i] = (LLF_HEADER + m * LLF_PHDR) + h[i - 1]
            BY <1>5
          <5>3. QED BY <3>6, <4>1, <5>1, <5>2 DEF LLF_HEADER, LLF_PHDR
        <4>3. D[b + j] = segs[i].data[j]
          <5>1. pd[i] = segs[i].data
            BY <1>3
          <5>2. D[h[i - 1] + j] = pd[i][j]
            BY <1>6, <5>1, <3>7, Zenon DEF Parted
          <5>3. QED BY <4>2, <5>1, <5>2
        <4>4. b + j \in 1 .. d
          <5>1. \A k \in 0 .. m : \A e \in 0 .. k : h[e] <= h[k]
            <6>1. LensOf(pd, m) \in [1 .. m -> Nat]
              <7>1. \A k \in 1 .. m : Len(pd[k]) \in Nat
                BY <1>4, LenProperties
              <7>2. QED BY <7>1 DEF LensOf
            <6>2. QED BY <1>5, <6>1, SumsOrder
          <5>2. h[i] <= h[m] /\ h[i] \in Nat /\ h[m] \in Nat
            BY <1>5, <5>1 DEF Sums
          <5>3. h[i] = h[i - 1] + Len(segs[i].data)
            <6>1. h[i] = h[i - 1] + LensOf(pd, m)[i]
              BY <1>5 DEF Sums
            <6>2. LensOf(pd, m)[i] = Len(segs[i].data)
              BY <1>3 DEF LensOf
            <6>3. QED BY <6>1, <6>2
          <5>4. PICK l \in Nat : l = Len(segs[i].data) /\ j \in 1 .. l
            BY <1>3, <3>7, LenProperties
          <5>5. b + l <= d
            BY <1>15, <1>17, <4>2, <5>2, <5>3, <5>4
          <5>6. QED BY <5>4, <5>5, WithinPart
        <4>5. PICK k \in 1 .. d : k = b + j
          BY <4>4
        <4>6. x[Len(H) + Len(P) + k] = D[k]
          BY <1>14, <1>17, <4>5, Zenon DEF Threefold
        <4>7. Len(H) + Len(P) + k = 6 + m * 7 + k /\ 6 + m * 7 + k \in 1 .. Len(x)
          <5>1. PICK w \in Nat : w = m * 7 /\ Len(P) = w /\ Len(x) = 6 + w + d
            BY <1>15, <1>17
          <5>2. 6 + w + k \in 1 .. 6 + w + d
            BY <5>1
          <5>3. QED BY <1>13, <5>1, <5>2
        <4>8. buf[6 + m * 7 + k] = D[k]
          BY <1>18, <4>6, <4>7, Zenon DEF Begins
        <4>9. ph.offset + j = 6 + m * 7 + k
          BY <4>2, <4>5
        <4>10. QED BY <4>3, <4>5, <4>8, <4>9
      <3>8. ph.offset \in Int
        BY <1>8, <3>6
      <3>9. QED BY <3>5, <3>6, <3>7, <3>8, Zenon DEF Holds
    <2>5. QED BY <1>1, <2>2, <2>4 DEF LlfOf
  <1>19. Len(x) >= LLF_HEADER
    BY <1>17 DEF LLF_HEADER
  <1>20. QED BY <1>14, <1>18, <1>19

-----------------------------------------------------------------------------
(* llf_load.                                                               *)

\* What a segment puts at an address it is mapped to.
CellOf(seg, va) == IF va - seg.vaddr < Len(seg.data) THEN seg.data[va - seg.vaddr + 1] ELSE 0

Typed(seg) ==
    /\ seg \in Segments
    /\ seg.data = <<>> => seg.type = LLF_SEG_NOBITS
    /\ seg.data # <<>> => seg.type = LLF_SEG_LOAD

LEMMA CellInt ==
    ASSUME NEW seg, seg \in Segments, NEW va \in Mapped(seg)
    PROVE  CellOf(seg, va) \in Int
  <1>1. seg.vaddr \in Int /\ seg.memsz \in Nat /\ seg.data \in Seq(Int)
    BY DEF Segments
  <1>2. PICK a \in Int, l \in Nat : a = seg.vaddr /\ l = Len(seg.data)
    BY <1>1, LenProperties
  <1>3. va \in Int /\ a <= va
    BY <1>1, <1>2 DEF Mapped
  <1>4. CASE va - a < l
    <2>1. va - a + 1 \in 1 .. l
      BY <1>2, <1>3, <1>4
    <2>2. seg.data[va - a + 1] \in Int
      BY <1>1, <1>2, <2>1, ElementOfSeq
    <2>3. QED BY <1>2, <1>4, <2>2 DEF CellOf
  <1>5. CASE ~ (va - a < l)
    BY <1>2, <1>5 DEF CellOf
  <1>6. QED BY <1>4, <1>5

\* A round of the loop of llf_load.
Written(memory, seg) ==
    [va \in VAs |-> IF va \in Mapped(seg) THEN CellOf(seg, va) ELSE memory[va]]

LEMMA WriteIs ==
    ASSUME NEW buf, NEW i, NEW seg, Typed(seg), Holds(buf, i, seg), NEW memory \in [VAs -> Int]
    PROVE  WriteSegment(memory, buf, Phdr(buf, i - 1)) = Written(memory, seg)
  <1>1. PICK ph : ph = Phdr(buf, i - 1)
    OBVIOUS
  <1>2. /\ ph.type = seg.type /\ ph.vaddr = seg.vaddr /\ ph.memsz = seg.memsz
        /\ ph.filesz = Len(seg.data) /\ ph.offset \in Int
        /\ \A j \in 1 .. Len(seg.data) : buf[ph.offset + j] = seg.data[j]
    BY <1>1, Zenon DEF Holds
  <1>3. PICK a \in Int, b \in Nat, l \in Nat, o \in Int :
          a = seg.vaddr /\ b = seg.memsz /\ l = Len(seg.data) /\ o = ph.offset
    <2>1. seg.vaddr \in Int /\ seg.memsz \in Nat /\ seg.data \in Seq(Int)
      BY DEF Segments, Typed
    <2>2. Len(seg.data) \in Nat
      BY <2>1, LenProperties
    <2>3. QED BY <1>2, <2>1, <2>2
  <1>4. ph.type # LLF_SEG_NULL /\ (ph.type = LLF_SEG_LOAD <=> seg.data # <<>>)
    BY <1>2 DEF Typed, LLF_SEG_NULL, LLF_SEG_LOAD, LLF_SEG_NOBITS
  <1>5. ASSUME NEW va \in VAs
        PROVE  (IF ph.type = LLF_SEG_NULL \/ va \notin ph.vaddr .. ph.vaddr + ph.memsz - 1 THEN memory[va]
                ELSE IF ph.type = LLF_SEG_LOAD /\ va < ph.vaddr + ph.filesz
                  THEN buf[ph.offset + (va - ph.vaddr) + 1] ELSE 0)
               = IF va \in Mapped(seg) THEN CellOf(seg, va) ELSE memory[va]
    <2>1. Mapped(seg) = a .. a + b - 1 /\ ph.vaddr .. ph.vaddr + ph.memsz - 1 = a .. a + b - 1
      BY <1>2, <1>3 DEF Mapped
    <2>2. CASE va \notin a .. a + b - 1
      BY <2>1, <2>2
    <2>3. CASE va \in a .. a + b - 1
      <3>1. va \in Int /\ a <= va
        BY <2>3
      <3>2. CASE va - a < l
        <4>1. va - a + 1 \in 1 .. l /\ va < a + l /\ 0 < l
          BY <1>3, <3>1, <3>2
        <4>2. seg.data # <<>>
          BY <1>3, <4>1
        <4>3. buf[o + (va - a + 1)] = seg.data[va - a + 1]
          BY <1>2, <1>3, <4>1
        <4>4. CellOf(seg, va) = seg.data[va - a + 1]
          BY <1>3, <3>2 DEF CellOf
        <4>5. o + (va - a + 1) = o + (va - a) + 1
          BY <1>3, <3>1
        <4>6. QED BY <1>2, <1>3, <1>4, <2>1, <2>3, <4>1, <4>2, <4>3, <4>4, <4>5
      <3>3. CASE ~ (va - a < l)
        <4>1. ~ (va < a + l)
          BY <1>3, <3>1, <3>3
        <4>2. CellOf(seg, va) = 0
          BY <1>3, <3>3 DEF CellOf
        <4>3. QED BY <1>2, <1>3, <1>4, <2>1, <2>3, <4>1, <4>2
      <3>4. QED BY <3>2, <3>3
    <2>4. QED BY <2>2, <2>3
  <1>6. DOMAIN memory = VAs
    OBVIOUS
  <1>7. QED BY <1>1, <1>5, <1>6 DEF WriteSegment, Written

\* What a program header says of an address it maps.
LEMMA ElfCellIn ==
    ASSUME NEW elf, ElfOK(elf), NEW j \in 1 .. Len(elf.phdrs), elf.phdrs[j].type = PT_LOAD,
           NEW va \in Mapped(elf.phdrs[j])
    PROVE  ElfCell(elf, va) = CellOf(elf.phdrs[j], va)
  <1>1. PICK ph, n : ph = elf.phdrs /\ n = Len(ph)
    OBVIOUS
  <1>2. DOMAIN ph = 1 .. n /\ Disjoint(ph, n)
    BY <1>1, ElfFacts
  <1>3. PICK hit : hit = {i \in DOMAIN ph : ph[i].type = PT_LOAD /\ va \in Mapped(ph[i])}
    OBVIOUS
  <1>4. j \in hit
    BY <1>1, <1>2, <1>3
  <1>5. \A i \in hit : i = j
    BY <1>1, <1>2, <1>3, <1>4 DEF Disjoint
  <1>6. hit = {i \in DOMAIN elf.phdrs : elf.phdrs[i].type = PT_LOAD /\ va \in Mapped(elf.phdrs[i])}
    BY <1>1, <1>3
  <1>7. (CHOOSE i \in hit : TRUE) = j /\ hit # {}
    BY <1>4, <1>5
  <1>8. ElfCell(elf, va) = IF hit = {} THEN 98 ELSE CellOf(elf.phdrs[CHOOSE i \in hit : TRUE], va)
    BY <1>6 DEF ElfCell, CellOf
  <1>9. QED BY <1>7, <1>8

LEMMA ElfCellOut ==
    ASSUME NEW elf, ElfOK(elf), NEW va,
           \A j \in 1 .. Len(elf.phdrs) : elf.phdrs[j].type = PT_LOAD => va \notin Mapped(elf.phdrs[j])
    PROVE  ElfCell(elf, va) = 98
  <1>1. PICK ph, n : ph = elf.phdrs /\ n = Len(ph)
    OBVIOUS
  <1>2. DOMAIN ph = 1 .. n
    BY <1>1, ElfFacts
  <1>3. {i \in DOMAIN elf.phdrs : elf.phdrs[i].type = PT_LOAD /\ va \in Mapped(elf.phdrs[i])} = {}
    BY <1>1, <1>2
  <1>4. QED BY <1>3 DEF ElfCell

\* A segment is its program header, as far as the memory goes.
LEMMA SegmentIs ==
    ASSUME NEW p, PhdrOK(p)
    PROVE  /\ Typed(Segment(p)) /\ Mapped(Segment(p)) = Mapped(p)
           /\ \A va : CellOf(Segment(p), va) = CellOf(p, va)
  <1>1. PICK s : s = Segment(p)
    OBVIOUS
  <1>2. s.vaddr = p.vaddr /\ s.memsz = p.memsz /\ s.data = p.data
        /\ s.type = IF p.data = <<>> THEN LLF_SEG_NOBITS ELSE LLF_SEG_LOAD
    BY <1>1 DEF Segment
  <1>3. s \in Segments
    BY <1>1, SegmentOK
  <1>4. Typed(s)
    BY <1>2, <1>3 DEF Typed
  <1>5. Mapped(s) = Mapped(p)
    BY <1>2 DEF Mapped
  <1>6. \A va : CellOf(s, va) = CellOf(p, va)
    BY <1>2 DEF CellOf
  <1>7. QED BY <1>1, <1>4, <1>5, <1>6

\* The segments llf.py makes: what they map, and what they put there.
Stands(segs, elf) ==
    /\ segs \in Seq(Segments)
    /\ \A i \in 1 .. Len(segs) :
          Typed(segs[i]) /\ \A va \in Mapped(segs[i]) : ElfCell(elf, va) = CellOf(segs[i], va)
    /\ \A va : (\A i \in 1 .. Len(segs) : va \notin Mapped(segs[i])) => ElfCell(elf, va) = 98

LEMMA ParseStands ==
    ASSUME NEW elf, ElfOK(elf)
    PROVE  Stands(parse_elf(elf), elf)
  <1>1. PICK ph, n : ph = elf.phdrs /\ n = Len(elf.phdrs)
    OBVIOUS
  <1>2. n \in Nat /\ \A j \in 1 .. n : PhdrOK(ph[j])
    BY <1>1, ElfFacts
  <1>3. PICK segs \in Seq(Segments) : segs = parse_elf(elf) /\ Taken(segs, ph, n)
    BY <1>1, ParseIs
  <1>4. ASSUME NEW i \in 1 .. Len(segs)
        PROVE  Typed(segs[i]) /\ \A va \in Mapped(segs[i]) : ElfCell(elf, va) = CellOf(segs[i], va)
    <2>1. PICK j \in 1 .. n : Loadable(ph[j]) /\ segs[i] = Segment(ph[j])
      BY <1>3, Zenon DEF Taken
    <2>2. PhdrOK(ph[j]) /\ ph[j].type = PT_LOAD
      BY <1>2, <2>1 DEF Loadable
    <2>3. Typed(segs[i]) /\ Mapped(segs[i]) = Mapped(ph[j]) /\ \A va : CellOf(segs[i], va) = CellOf(ph[j], va)
      BY <2>1, <2>2, SegmentIs
    <2>4. ASSUME NEW va \in Mapped(ph[j]) PROVE ElfCell(elf, va) = CellOf(ph[j], va)
      BY <1>1, <2>2, ElfCellIn
    <2>5. QED BY <2>3, <2>4
  <1>5. ASSUME NEW va, \A i \in 1 .. Len(segs) : va \notin Mapped(segs[i])
        PROVE  ElfCell(elf, va) = 98
    <2>1. ASSUME NEW j \in 1 .. n, ph[j].type = PT_LOAD PROVE va \notin Mapped(ph[j])
      <3>1. SUFFICES ASSUME va \in Mapped(ph[j]) PROVE FALSE
        OBVIOUS
      <3>2. ph[j].memsz # 0
        <4>1. PhdrOK(ph[j])
          BY <1>2
        <4>2. QED BY <3>1, <4>1 DEF Mapped, PhdrOK
      <3>3. PICK i \in 1 .. Len(segs) : segs[i] = Segment(ph[j])
        BY <1>3, <2>1, <3>2, Zenon DEF Taken, Loadable
      <3>4. Mapped(segs[i]) = Mapped(ph[j])
        BY <1>2, <3>3, SegmentIs
      <3>5. QED BY <1>5, <3>1, <3>4
    <2>2. QED BY <1>1, <2>1, ElfCellOut
  <1>6. QED BY <1>3, <1>4, <1>5 DEF Stands

\* The memory after the first k segments.
Shows(memory, k, segs, elf) ==
    memory = [va \in VAs |-> IF \E i \in 1 .. k : va \in Mapped(segs[i]) THEN ElfCell(elf, va) ELSE 98]

LEMMA ShowsMore ==
    ASSUME NEW elf, NEW segs, Stands(segs, elf), NEW buf, NEW entry, LlfOf(buf, entry, segs),
           NEW k \in Nat, k + 1 <= Len(segs), NEW memory \in [VAs -> Int], Shows(memory, k, segs, elf)
    PROVE  /\ Shows(WriteSegment(memory, buf, Phdr(buf, k)), k + 1, segs, elf)
           /\ WriteSegment(memory, buf, Phdr(buf, k)) \in [VAs -> Int]
  <1>1. Len(segs) \in Nat
    BY LenProperties DEF Stands
  <1>2. PICK i \in 1 .. Len(segs) : i = k + 1 /\ i - 1 = k
    <2>1. k + 1 \in 1 .. Len(segs) /\ (k + 1) - 1 = k
      BY <1>1
    <2>2. QED BY <2>1
  <1>3. PICK seg : seg = segs[i]
    OBVIOUS
  <1>4. Typed(seg) /\ \A va \in Mapped(seg) : ElfCell(elf, va) = CellOf(seg, va)
    BY <1>2, <1>3, Zenon DEF Stands
  <1>5. Holds(buf, i, seg)
    BY <1>2, <1>3, Zenon DEF LlfOf
  <1>6. WriteSegment(memory, buf, Phdr(buf, k)) =
          [va \in VAs |-> IF va \in Mapped(seg) THEN CellOf(seg, va) ELSE memory[va]]
    <2>1. WriteSegment(memory, buf, Phdr(buf, i - 1)) = Written(memory, seg)
      BY <1>4, <1>5, WriteIs, Zenon
    <2>2. QED BY <1>2, <2>1 DEF Written
  <1>7. ASSUME NEW va \in VAs
        PROVE  (IF va \in Mapped(seg) THEN CellOf(seg, va) ELSE memory[va])
               = IF \E e \in 1 .. k + 1 : va \in Mapped(segs[e]) THEN ElfCell(elf, va) ELSE 98
    <2>1. CASE va \in Mapped(seg)
      <3>1. k + 1 \in 1 .. k + 1
        OBVIOUS
      <3>2. \E e \in 1 .. k + 1 : va \in Mapped(segs[e])
        BY <1>2, <1>3, <2>1, <3>1
      <3>3. ElfCell(elf, va) = CellOf(seg, va)
        BY <1>4, <2>1
      <3>4. QED BY <2>1, <3>2, <3>3
    <2>2. CASE va \notin Mapped(seg)
      <3>1. memory[va] = IF \E e \in 1 .. k : va \in Mapped(segs[e]) THEN ElfCell(elf, va) ELSE 98
        BY DEF Shows
      <3>2. \A e \in 1 .. k + 1 : e \in 1 .. k \/ e = i
        BY <1>2
      <3>3. \A e \in 1 .. k : e \in 1 .. k + 1
        OBVIOUS
      <3>4. (\E e \in 1 .. k : va \in Mapped(segs[e])) <=> (\E e \in 1 .. k + 1 : va \in Mapped(segs[e]))
        BY <1>3, <2>2, <3>2, <3>3, Zenon
      <3>5. QED BY <2>2, <3>1, <3>4
    <2>3. QED BY <2>1, <2>2
  <1>8. ASSUME NEW va \in VAs
        PROVE  (IF va \in Mapped(seg) THEN CellOf(seg, va) ELSE memory[va]) \in Int
    <2>1. CASE va \in Mapped(seg)
      BY <1>4, <2>1, CellInt DEF Typed
    <2>2. CASE va \notin Mapped(seg)
      BY <2>2
    <2>3. QED BY <2>1, <2>2
  <1>9. Shows(WriteSegment(memory, buf, Phdr(buf, k)), k + 1, segs, elf)
    BY <1>6, <1>7 DEF Shows
  <1>10. WriteSegment(memory, buf, Phdr(buf, k)) \in [VAs -> Int]
    BY <1>6, <1>8
  <1>11. QED BY <1>9, <1>10

\* The loop.
Writes(s, buf, memory, m) ==
    /\ s = [k \in 0 .. m |-> s[k]] /\ s[0] = memory
    /\ \A k \in 1 .. m : s[k] = WriteSegment(s[k - 1], buf, Phdr(buf, k - 1))

LEMMA LoadTrace ==
    ASSUME NEW buf, NEW m \in Nat, m = buf[5], NEW memory, NEW h, Writes(h, buf, memory, m)
    PROVE  llf_load(memory, buf) = h[m]
  <1> DEFINE Body(p) == [k \in 0 .. m |-> IF k = 0 THEN memory ELSE WriteSegment(p[k - 1], buf, Phdr(buf, k - 1))]
             q == CHOOSE p : p = Body(p)
  <1>1. llf_load(memory, buf) = q[m]
    BY DEF llf_load
  <1>2. \A k \in 0 .. m : k = 0 \/ k \in 1 .. m
    OBVIOUS
  <1>3. \A k \in 0 .. m : h[k] = IF k = 0 THEN memory ELSE WriteSegment(h[k - 1], buf, Phdr(buf, k - 1))
    BY <1>2, Zenon DEF Writes
  <1>4. h = Body(h)
    <2>1. h = [k \in 0 .. m |-> h[k]]
      BY DEF Writes
    <2>2. [k \in 0 .. m |-> h[k]] = Body(h)
      BY <1>3
    <2> HIDE DEF Body
    <2>3. QED BY <2>1, <2>2, Zenon
  <1>5. q = Body(q)
    <2> HIDE DEF Body
    <2>1. QED BY <1>4, Zenon
  <1> HIDE DEF q
  <1>6. \A k \in 0 .. m : q[k] = IF k = 0 THEN memory ELSE WriteSegment(q[k - 1], buf, Phdr(buf, k - 1))
    <2>1. \A k \in 0 .. m : Body(q)[k] = IF k = 0 THEN memory ELSE WriteSegment(q[k - 1], buf, Phdr(buf, k - 1))
      OBVIOUS
    <2> HIDE DEF Body
    <2>2. QED BY <1>5, <2>1, Zenon
  <1> HIDE DEF Body
  <1>7. 0 \in 0 .. m /\ \A k \in 1 .. m : k \in 0 .. m /\ k # 0
    OBVIOUS
  <1>8. h[0] = q[0] /\ \A k \in 1 .. m : h[k - 1] = q[k - 1] => h[k] = q[k]
    BY <1>3, <1>6, <1>7, Zenon
  <1>9. \A k \in 0 .. m : h[k] = q[k]
    <2>1. Alike(h, q, m)
      BY <1>8, Zenon DEF Alike
    <2>2. Agree(h, q, m)
      BY <2>1, SameFollows
    <2>3. QED BY <2>2, Zenon DEF Agree
  <1>10. QED BY <1>1, <1>9

\* What llf_load makes of an LLF file is what the ELF file says.
LEMMA LoadIs ==
    ASSUME NEW elf, NEW segs, Stands(segs, elf), NEW buf, NEW entry, LlfOf(buf, entry, segs)
    PROVE  \A va \in VAs : llf_load([x \in VAs |-> 98], buf)[va] = ElfCell(elf, va)
  <1>1. PICK m \in Nat : m = Len(segs) /\ m = buf[5]
    BY LenProperties DEF Stands, LlfOf
  <1>2. PICK S : S = [VAs -> Int]
    OBVIOUS
  <1>3. PICK z \in S : z = [x \in VAs |-> 98]
    <2>1. [x \in VAs |-> 98] \in S
      BY <1>2
    <2>2. QED BY <2>1
  <1> DEFINE Round(k, s) == LET w == WriteSegment(s, buf, Phdr(buf, k - 1)) IN IF w \in S THEN w ELSE z
  <1>4. PICK f : f = [at \in (1 .. m) \X S |-> Round(at[1], at[2])]
    OBVIOUS
  <1>5. f \in [(1 .. m) \X S -> S]
    <2>1. \A k, s : Round(k, s) \in S
      OBVIOUS
    <2> HIDE DEF Round
    <2>2. QED BY <1>4, <2>1
  <1>6. PICK h \in [0 .. m -> S] : Follows(h, z, f, m)
    BY <1>3, <1>5, Recursion
  <1> DEFINE T == {k \in Nat : k <= m => Shows(h[k], k, segs, elf)}
  <1>7. 0 \in T
    <2>1. h[0] = z
      BY <1>6 DEF Follows
    <2>2. \A va : ~ \E i \in 1 .. 0 : va \in Mapped(segs[i])
      OBVIOUS
    <2>3. Shows(z, 0, segs, elf)
      BY <1>3, <2>2 DEF Shows
    <2>4. QED BY <2>1, <2>3
  <1>8. ASSUME NEW k \in Nat, k + 1 <= m, Shows(h[k], k, segs, elf)
        PROVE  Shows(h[k + 1], k + 1, segs, elf) /\ h[k + 1] = WriteSegment(h[k], buf, Phdr(buf, k))
    <2>1. k + 1 \in 1 .. m /\ (k + 1) - 1 = k /\ k \in 0 .. m
      BY <1>8
    <2>2. PICK s \in S : s = h[k]
      BY <2>1, <1>6
    <2>3. PICK w : w = WriteSegment(s, buf, Phdr(buf, k))
      OBVIOUS
    <2>4. Shows(w, k + 1, segs, elf) /\ w \in S
      BY <1>1, <1>2, <1>8, <2>2, <2>3, ShowsMore
    <2>5. h[k + 1] = f[<<k + 1, s>>]
      BY <1>6, <2>1, <2>2 DEF Follows
    <2>6. f[<<k + 1, s>>] = Round(k + 1, s)
      <3>1. <<k + 1, s>> \in (1 .. m) \X S
        BY <2>1, <2>2
      <3> HIDE DEF Round
      <3>2. QED BY <1>4, <3>1
    <2>7. Round(k + 1, s) = w
      BY <2>1, <2>3, <2>4
    <2>8. QED BY <2>2, <2>3, <2>4, <2>5, <2>6, <2>7
  <1>9. \A k \in Nat : k \in T => k + 1 \in T
    <2>1. ASSUME NEW k \in Nat, k \in T PROVE k + 1 \in T
      <3>1. CASE k + 1 <= m
        BY <1>8, <2>1, <3>1
      <3>2. CASE ~ (k + 1 <= m)
        BY <3>2
      <3>3. QED BY <3>1, <3>2
    <2>2. QED BY <2>1
  <1> HIDE DEF T
  <1>10. Nat \subseteq T
    BY <1>7, <1>9, Induction
  <1>11. \A k \in 0 .. m : Shows(h[k], k, segs, elf)
    BY <1>10 DEF T
  <1>12. ASSUME NEW k \in 1 .. m PROVE h[k] = WriteSegment(h[k - 1], buf, Phdr(buf, k - 1))
    <2>1. PICK j \in Nat : j = k - 1 /\ j + 1 = k /\ j \in 0 .. m /\ j + 1 <= m
      <3>1. k - 1 \in Nat /\ (k - 1) + 1 = k /\ k - 1 \in 0 .. m /\ (k - 1) + 1 <= m
        OBVIOUS
      <3>2. QED BY <3>1
    <2>2. Shows(h[j], j, segs, elf)
      BY <1>11, <2>1
    <2>3. h[j + 1] = WriteSegment(h[j], buf, Phdr(buf, j))
      BY <1>8, <2>1, <2>2
    <2>4. QED BY <2>1, <2>3
  <1>13. Writes(h, buf, z, m)
    BY <1>6, <1>12 DEF Writes, Follows
  <1>14. llf_load(z, buf) = h[m]
    BY <1>1, <1>6, <1>13, LoadTrace
  <1>15. Shows(h[m], m, segs, elf)
    BY <1>11
  <1>16. ASSUME NEW va \in VAs PROVE h[m][va] = ElfCell(elf, va)
    <2>1. h[m][va] = IF \E i \in 1 .. m : va \in Mapped(segs[i]) THEN ElfCell(elf, va) ELSE 98
      BY <1>15 DEF Shows
    <2>2. (~ \E i \in 1 .. m : va \in Mapped(segs[i])) => ElfCell(elf, va) = 98
      BY <1>1, ZenonT(30) DEF Stands
    <2>3. QED BY <2>1, <2>2
  <1>17. QED BY <1>3, <1>14, <1>16

-----------------------------------------------------------------------------
(* mkfs.py.                                                                *)

\* The parts of an image: the names, the files, and the descriptors.
Names(fl) == [i \in 1 .. Len(fl) |-> fl[i].name]
AllNames(fl) == Concat(Names(fl))
Blobs(fl) == [i \in 1 .. Len(fl) |-> load_blob(fl[i])]
Padded(fl) == [i \in 1 .. Len(fl) |-> Pad(Blobs(fl)[i])]
DataStart(fl) == align_up(DescEnd(Len(fl)) + Len(AllNames(fl)))

Table(fl) ==
    [i \in 1 .. Len(fl) |->
       [offset |-> Offsets([k \in 1 .. Len(fl) |-> align_up(Len(Blobs(fl)[k]))], DataStart(fl))[i],
        size |-> Len(Blobs(fl)[i]),
        name_offset |-> Offsets([k \in 1 .. Len(fl) |-> Len(fl[k].name)], 0)[i],
        name_size |-> Len(fl[i].name), flags |-> fl[i].flags]]

LEMMA BlobOK ==
    ASSUME NEW f, FileOK(f)
    PROVE  load_blob(f) \in Seq(Int)
  <1>1. CASE f.elf = <<>>
    BY <1>1 DEF FileOK, load_blob
  <1>2. CASE f.elf # <<>>
    <2>1. PICK elf : elf = f.elf[1]
      OBVIOUS
    <2>2. ElfOK(elf)
      BY <1>2, <2>1 DEF FileOK
    <2>3. parse_elf(elf) \in Seq(Segments) /\ elf.entry \in Int
      BY <2>2, ParseIs, ElfFacts
    <2>4. to_llf_bytes(elf.entry, parse_elf(elf)) \in Seq(Int)
      BY <2>3, ToLlfIs
    <2>5. QED BY <1>2, <2>1, <2>4 DEF load_blob
  <1>3. QED BY <1>1, <1>2

Parts(fl, n) ==
    /\ n = Len(fl) /\ n \in Nat /\ DOMAIN fl = 1 .. n
    /\ \A i \in 1 .. n : FileOK(fl[i]) /\ fl[i].name \in Seq(Int) /\ fl[i].flags \in Int
    /\ Names(fl) \in [1 .. n -> Seq(Int)]
    /\ Blobs(fl) \in [1 .. n -> Seq(Int)]
    /\ Padded(fl) \in [1 .. n -> Seq(Int)]

LEMMA PartsOK ==
    ASSUME NEW fl \in FileLists
    PROVE  \E n \in Nat : Parts(fl, n)
  <1>1. PICK S : S = {fl[k] : k \in DOMAIN fl}
    OBVIOUS
  <1>2. fl \in Seq(S) /\ \A i \in DOMAIN fl : FileOK(fl[i])
    BY <1>1, FilesConstants DEF Listed
  <1>3. PICK n \in Nat : n = Len(fl) /\ DOMAIN fl = 1 .. n
    BY <1>2, LenProperties
  <1>4. \A i \in 1 .. n : FileOK(fl[i]) /\ fl[i].name \in Seq(Int) /\ fl[i].flags \in Int
    BY <1>2, <1>3 DEF FileOK
  <1>5. Names(fl) \in [1 .. n -> Seq(Int)]
    BY <1>3, <1>4 DEF Names
  <1>6. \A i \in 1 .. n : load_blob(fl[i]) \in Seq(Int)
    BY <1>4, BlobOK
  <1>7. Blobs(fl) \in [1 .. n -> Seq(Int)]
    BY <1>3, <1>6 DEF Blobs
  <1>8. \A i \in 1 .. n : Pad(Blobs(fl)[i]) \in Seq(Int)
    BY <1>7, PadIs
  <1>9. Padded(fl) \in [1 .. n -> Seq(Int)]
    BY <1>3, <1>8 DEF Padded
  <1>10. QED BY <1>3, <1>4, <1>5, <1>7, <1>9, Zenon DEF Parts

\* Where each name lies among the names.
NamesOK(fl, n) ==
    /\ AllNames(fl) \in Seq(Int) /\ Len(AllNames(fl)) \in Nat
    /\ \A i \in 1 .. n :
          /\ Table(fl)[i].name_offset \in Nat /\ Table(fl)[i].name_size \in Nat
          /\ Table(fl)[i].name_size = Len(fl[i].name)
          /\ Table(fl)[i].name_offset + Table(fl)[i].name_size <= Len(AllNames(fl))
          /\ \A j \in 1 .. Table(fl)[i].name_size :
                AllNames(fl)[Table(fl)[i].name_offset + j] = fl[i].name[j]
    /\ n = 0 => Len(AllNames(fl)) = 0
    /\ n # 0 => Table(fl)[n].name_offset + Table(fl)[n].name_size = Len(AllNames(fl))

LEMMA NamesAre ==
    ASSUME NEW fl, NEW n \in Nat, Parts(fl, n)
    PROVE  NamesOK(fl, n)
  <1>1. PICK parts \in [1 .. n -> Seq(Int)] : parts = Names(fl)
    BY DEF Parts
  <1>2. n = Len(fl) /\ \A i \in 1 .. n : parts[i] = fl[i].name
    BY <1>1 DEF Parts, Names
  <1>3. \A i \in 1 .. n : Len(parts[i]) \in Nat
    BY LenProperties
  <1>4. PICK lens \in [1 .. n -> Nat] : lens = LensOf(parts, n) /\ \A i \in 1 .. n : lens[i] = Len(parts[i])
    <2>1. LensOf(parts, n) \in [1 .. n -> Nat] /\ \A i \in 1 .. n : LensOf(parts, n)[i] = Len(parts[i])
      BY <1>3 DEF LensOf
    <2>2. QED BY <2>1
  <1>5. PICK h : Sums(h, n, lens, 0)
    BY <1>4, SumsExist
  <1>6. PICK all \in Seq(Int) : all = AllNames(fl) /\ Parted(all, n, h, parts)
    BY <1>1, <1>4, <1>5, ConcatIs DEF AllNames
  <1>7. StartsAt(Offsets(lens, 0), h, n)
    BY <1>4, <1>5, OffsetsAre
  <1>8. lens = [k \in 1 .. Len(fl) |-> Len(fl[k].name)]
    BY <1>2, <1>4
  <1>9. h \in [0 .. n -> Nat] /\ h[0] = 0 /\ \A k \in 1 .. n : h[k] = h[k - 1] + lens[k]
    BY <1>5 DEF Sums
  <1>10. \A k \in 0 .. n : \A i \in 0 .. k : h[i] <= h[k]
    BY <1>4, <1>5, SumsOrder
  <1>11. Len(all) = h[n] /\ Len(all) \in Nat
    BY <1>6, LenProperties DEF Parted
  <1>12. ASSUME NEW i \in 1 .. n
         PROVE  /\ Table(fl)[i].name_offset = h[i - 1] /\ Table(fl)[i].name_size = lens[i]
                /\ lens[i] = Len(fl[i].name) /\ h[i - 1] \in Nat /\ lens[i] \in Nat /\ h[i] = h[i - 1] + lens[i]
    <2>1. Table(fl)[i].name_offset = Offsets(lens, 0)[i] /\ Table(fl)[i].name_size = Len(fl[i].name)
      BY <1>2, <1>8 DEF Table
    <2>2. Offsets(lens, 0)[i] = h[i - 1]
      BY <1>7 DEF StartsAt
    <2>3. i - 1 \in 0 .. n
      OBVIOUS
    <2>4. QED BY <1>2, <1>4, <1>9, <2>1, <2>2, <2>3
  <1>13. ASSUME NEW i \in 1 .. n
         PROVE  /\ h[i - 1] + lens[i] <= Len(all)
                /\ \A j \in 1 .. lens[i] : all[h[i - 1] + j] = fl[i].name[j]
    <2>1. i \in 0 .. n /\ n \in 0 .. n
      OBVIOUS
    <2>2. h[i] <= h[n]
      BY <1>10, <2>1
    <2>3. \A j \in 1 .. Len(parts[i]) : all[h[i - 1] + j] = parts[i][j]
      BY <1>6, Zenon DEF Parted
    <2>4. QED BY <1>2, <1>4, <1>11, <1>12, <2>2, <2>3
  <1>14. n = 0 => Len(all) = 0
    BY <1>9, <1>11
  <1>15. n # 0 => h[n - 1] + lens[n] = Len(all) /\ n \in 1 .. n
    BY <1>9, <1>11
  <1>16. n # 0 => Table(fl)[n].name_offset + Table(fl)[n].name_size = Len(all)
    BY <1>12, <1>15
  <1>17. ASSUME NEW i \in 1 .. n
         PROVE  /\ Table(fl)[i].name_offset \in Nat /\ Table(fl)[i].name_size \in Nat
                /\ Table(fl)[i].name_size = Len(fl[i].name)
                /\ Table(fl)[i].name_offset + Table(fl)[i].name_size <= Len(all)
                /\ \A j \in 1 .. Table(fl)[i].name_size : all[Table(fl)[i].name_offset + j] = fl[i].name[j]
    <2>1. PICK a \in Nat, b \in Nat : a = h[i - 1] /\ b = lens[i]
      BY <1>12
    <2>2. Table(fl)[i].name_offset = a /\ Table(fl)[i].name_size = b /\ b = Len(fl[i].name)
      BY <1>12, <2>1
    <2>3. a + b <= Len(all) /\ \A j \in 1 .. b : all[a + j] = fl[i].name[j]
      BY <1>13, <2>1
    <2>4. QED BY <2>1, <2>2, <2>3
  <1>18. QED BY <1>6, <1>11, <1>14, <1>16, <1>17, Zenon DEF NamesOK

\* The extent of the names is what fs_mount computes from the table.
LEMMA NamesSizeIs ==
    ASSUME NEW fl, NEW n \in Nat, Parts(fl, n)
    PROVE  NamesSize(Table(fl)) = Len(AllNames(fl))
  <1>1. NamesOK(fl, n) /\ DOMAIN Table(fl) = 1 .. n
    BY NamesAre DEF Parts, Table
  <1>2. PICK l \in Nat : l = Len(AllNames(fl))
    <2>1. Len(AllNames(fl)) \in Nat
      BY <1>1 DEF NamesOK
    <2>2. QED BY <2>1
  <1>3. PICK t : t = Table(fl)
    OBVIOUS
  <1>4. PICK ends : ends = {t[i].name_offset + t[i].name_size : i \in DOMAIN t} \cup {0}
    OBVIOUS
  <1>5. \A i \in 1 .. n : t[i].name_offset + t[i].name_size \in Nat /\ t[i].name_offset + t[i].name_size <= l
    BY <1>3, <1>1, <1>2 DEF NamesOK
  <1>6. l \in ends
    <2>1. CASE n = 0
      BY <1>1, <1>2, <1>4, <2>1 DEF NamesOK
    <2>2. CASE n # 0
      <3>1. n \in 1 .. n
        BY <2>2
      <3>2. t[n].name_offset + t[n].name_size = l
        BY <1>3, <1>1, <1>2, <2>2 DEF NamesOK
      <3>3. n \in DOMAIN t
        BY <1>3, <1>1, <3>1
      <3>4. QED BY <1>4, <3>2, <3>3
    <2>3. QED BY <2>1, <2>2
  <1>7. \A e \in ends : e \in Nat /\ e <= l
    BY <1>3, <1>1, <1>2, <1>4, <1>5
  <1>8. (CHOOSE e \in ends : \A d \in ends : d <= e) = l
    <2>1. \A e \in ends : (\A d \in ends : d <= e) => e = l
      BY <1>6, <1>7
    <2>2. \A d \in ends : d <= l
      BY <1>7
    <2>3. \E e \in ends : \A d \in ends : d <= e
      BY <1>6, <2>2, Zenon
    <2>4. PICK e : e = CHOOSE x \in ends : \A d \in ends : d <= x
      OBVIOUS
    <2>5. e \in ends /\ \A d \in ends : d <= e
      BY <2>3, <2>4, Zenon
    <2>6. QED BY <2>1, <2>4, <2>5, Zenon
  <1>9. NamesSize(t) = CHOOSE e \in ends : \A d \in ends : d <= e
    BY <1>4 DEF NamesSize
  <1>10. QED BY <1>2, <1>3, <1>8, <1>9

\* Where each file lies behind the names.
FilesAt(fl, n, rest) ==
    /\ rest \in Seq(Int) /\ Len(rest) \in Nat
    /\ \A i \in 1 .. n :
          /\ Whole(Table(fl)[i].offset) /\ Table(fl)[i].offset \in Nat
          /\ Table(fl)[i].size = Len(Blobs(fl)[i]) /\ Table(fl)[i].size \in Nat
          /\ DataStart(fl) <= Table(fl)[i].offset
          /\ Table(fl)[i].offset - DataStart(fl) + align_up(Table(fl)[i].size) <= Len(rest)
          /\ \A j \in 1 .. align_up(Table(fl)[i].size) :
                rest[(Table(fl)[i].offset - DataStart(fl)) + j] = Pad(Blobs(fl)[i])[j]

LEMMA FilesAre ==
    ASSUME NEW fl, NEW n \in Nat, Parts(fl, n)
    PROVE  FilesAt(fl, n, Concat(Padded(fl)))
  <1>1. PICK parts \in [1 .. n -> Seq(Int)] : parts = Padded(fl)
    BY DEF Parts
  <1>2. n = Len(fl) /\ \A i \in 1 .. n : parts[i] = Pad(Blobs(fl)[i])
    BY <1>1 DEF Parts, Padded
  <1>3. \A i \in 1 .. n : Len(Blobs(fl)[i]) \in Nat /\ Len(parts[i]) = align_up(Len(Blobs(fl)[i]))
    <2>1. ASSUME NEW i \in 1 .. n
          PROVE  Len(Blobs(fl)[i]) \in Nat /\ Len(parts[i]) = align_up(Len(Blobs(fl)[i]))
      <3>1. Blobs(fl)[i] \in Seq(Int)
        BY DEF Parts
      <3>2. QED BY <1>2, <3>1, PadIs, LenProperties
    <2>2. QED BY <2>1
  <1>4. PICK lens \in [1 .. n -> Nat] :
           lens = LensOf(parts, n) /\ \A i \in 1 .. n : lens[i] = align_up(Len(Blobs(fl)[i])) /\ Whole(lens[i])
    <2>1. \A i \in 1 .. n : Len(parts[i]) \in Nat
      BY LenProperties
    <2>2. LensOf(parts, n) \in [1 .. n -> Nat] /\ \A i \in 1 .. n : LensOf(parts, n)[i] = Len(parts[i])
      BY <2>1 DEF LensOf
    <2>3. \A i \in 1 .. n : Whole(align_up(Len(Blobs(fl)[i])))
      BY <1>3, WholeOf
    <2>4. \A i \in 1 .. n : LensOf(parts, n)[i] = align_up(Len(Blobs(fl)[i])) /\ Whole(LensOf(parts, n)[i])
      BY <1>3, <2>2, <2>3
    <2>5. QED BY <2>2, <2>4
  <1>5. PICK h : Sums(h, n, lens, 0)
    BY <1>4, SumsExist
  <1>6. PICK rest \in Seq(Int) : rest = Concat(Padded(fl)) /\ Parted(rest, n, h, parts)
    BY <1>1, <1>4, <1>5, ConcatIs
  <1>7. PICK start \in Nat : start = DataStart(fl) /\ Whole(start)
    <2>1. DescEnd(Len(fl)) + Len(AllNames(fl)) \in Nat
      <3>1. Len(AllNames(fl)) \in Nat
        BY NamesAre DEF NamesOK
      <3>2. DescEnd(Len(fl)) \in Nat
        BY <1>2 DEF DescEnd, FS_HEADER, FS_DESC
      <3>3. QED BY <3>1, <3>2
    <2>2. DataStart(fl) \in Nat /\ Whole(DataStart(fl))
      BY <2>1, SectorsOf, WholeOf DEF DataStart
    <2>3. QED BY <2>2
  <1>8. PICK g : g = [k \in 0 .. n |-> start + h[k]] /\ Sums(g, n, lens, start)
    <2>1. Sums([k \in 0 .. n |-> start + h[k]], n, lens, start + 0)
      BY <1>4, <1>5, <1>7, SumsShift
    <2>2. start + 0 = start
      OBVIOUS
    <2>3. QED BY <2>1, <2>2
  <1>9. StartsAt(Offsets(lens, start), g, n)
    BY <1>4, <1>7, <1>8, OffsetsAre
  <1>10. \A k \in 0 .. n : Whole(g[k])
    BY <1>4, <1>7, <1>8, WholeSums
  <1>11. lens = [k \in 1 .. Len(fl) |-> align_up(Len(Blobs(fl)[k]))]
    BY <1>2, <1>4
  <1>12. h \in [0 .. n -> Nat] /\ \A k \in 1 .. n : h[k] = h[k - 1] + lens[k]
    BY <1>5 DEF Sums
  <1>13. \A k \in 0 .. n : \A i \in 0 .. k : h[i] <= h[k]
    BY <1>4, <1>5, SumsOrder
  <1>14. Len(rest) = h[n] /\ Len(rest) \in Nat
    BY <1>6, LenProperties DEF Parted
  <1>15. ASSUME NEW i \in 1 .. n
         PROVE  /\ Table(fl)[i].offset = start + h[i - 1] /\ h[i - 1] \in Nat /\ Whole(start + h[i - 1])
                /\ Table(fl)[i].size = Len(Blobs(fl)[i]) /\ align_up(Table(fl)[i].size) = lens[i]
    <2>1. Table(fl)[i].offset = Offsets(lens, start)[i] /\ Table(fl)[i].size = Len(Blobs(fl)[i])
      BY <1>2, <1>7, <1>11 DEF Table
    <2>2. Offsets(lens, start)[i] = g[i - 1]
      BY <1>9 DEF StartsAt
    <2>3. i - 1 \in 0 .. n
      OBVIOUS
    <2>4. g[i - 1] = start + h[i - 1] /\ h[i - 1] \in Nat /\ Whole(g[i - 1])
      BY <1>8, <1>10, <1>12, <2>3
    <2>5. QED BY <1>4, <2>1, <2>2, <2>4
  <1>16. ASSUME NEW i \in 1 .. n
         PROVE  /\ h[i - 1] + lens[i] <= Len(rest)
                /\ \A j \in 1 .. lens[i] : rest[h[i - 1] + j] = Pad(Blobs(fl)[i])[j]
    <2>1. i \in 0 .. n /\ n \in 0 .. n
      OBVIOUS
    <2>2. h[i] <= h[n]
      BY <1>13, <2>1
    <2>3. \A j \in 1 .. Len(parts[i]) : rest[h[i - 1] + j] = parts[i][j]
      BY <1>6, Zenon DEF Parted
    <2>4. h[i] = h[i - 1] + lens[i] /\ lens[i] = Len(parts[i]) /\ parts[i] = Pad(Blobs(fl)[i])
      BY <1>2, <1>3, <1>4, <1>12
    <2>5. QED BY <1>14, <2>2, <2>3, <2>4
  <1>17. ASSUME NEW i \in 1 .. n
         PROVE  /\ Whole(Table(fl)[i].offset) /\ Table(fl)[i].offset \in Nat
                /\ Table(fl)[i].size = Len(Blobs(fl)[i]) /\ Table(fl)[i].size \in Nat
                /\ DataStart(fl) <= Table(fl)[i].offset
                /\ Table(fl)[i].offset - DataStart(fl) + align_up(Table(fl)[i].size) <= Len(rest)
                /\ \A j \in 1 .. align_up(Table(fl)[i].size) :
                      rest[(Table(fl)[i].offset - DataStart(fl)) + j] = Pad(Blobs(fl)[i])[j]
    <2>1. PICK a \in Nat, b \in Nat, o \in Nat, s \in Nat :
            /\ a = h[i - 1] /\ b = lens[i] /\ o = Table(fl)[i].offset /\ s = Table(fl)[i].size
            /\ o = start + a /\ b = align_up(s)
      <3>1. lens[i] \in Nat
        BY <1>4
      <3>2. h[i - 1] \in Nat
        BY <1>15
      <3>3. start + h[i - 1] \in Nat
        BY <1>7, <3>2
      <3>4. Table(fl)[i].size \in Nat
        BY <1>3, <1>15, Zenon
      <3>5. QED BY <1>15, <3>1, <3>2, <3>3, <3>4, ZenonT(40)
    <2>2. s = Len(Blobs(fl)[i]) /\ Whole(o)
      BY <1>15, <2>1
    <2>3. a + b <= Len(rest) /\ \A j \in 1 .. b : rest[a + j] = Pad(Blobs(fl)[i])[j]
      BY <1>16, <2>1
    <2>4. o - start = a /\ start <= o
      BY <2>1, SMTT(30)
    <2>5. o - start + b <= Len(rest) /\ \A j \in 1 .. b : rest[(o - start) + j] = Pad(Blobs(fl)[i])[j]
      BY <2>3, <2>4
    <2>6. QED BY <1>7, <2>1, <2>2, <2>4, <2>5
  <1>18. QED BY <1>6, <1>14, <1>17, Zenon DEF FilesAt

\* The descriptors, and the image from its parts.
DescCells(d) == <<d.offset, d.size, d.name_offset, d.name_size, d.flags>>
Descs(fl) == [i \in 1 .. Len(fl) |-> DescCells(Table(fl)[i])]
Header(n) == <<FS_MAGIC, n>>

LEMMA BuildIs ==
    ASSUME NEW fl, NEW n \in Nat, Parts(fl, n)
    PROVE  build_fs(fl) =
             Pad((Header(n) \o Concat(Descs(fl))) \o AllNames(fl)) \o Concat(Padded(fl))
  <1> DEFINE datas == [i \in DOMAIN fl |-> load_blob(fl[i])]
             lens == [i \in DOMAIN fl |-> Len(fl[i].name)]
             names == Concat([i \in DOMAIN fl |-> fl[i].name])
             start == align_up(FS_HEADER + FS_DESC * Len(fl) + Len(names))
             offs == Offsets([i \in DOMAIN fl |-> align_up(Len(datas[i]))], start)
             descs == [i \in DOMAIN fl |->
                         <<offs[i], Len(datas[i]), Offsets(lens, 0)[i], lens[i], fl[i].flags>>]
  <1>1. n = Len(fl) /\ DOMAIN fl = 1 .. n
    BY DEF Parts
  <1>2. build_fs(fl) = Pad(<<FS_MAGIC, Len(fl)>> \o Concat(descs) \o names)
                         \o Concat([i \in DOMAIN fl |-> Pad(datas[i])])
    BY Zenon DEF build_fs
  <1>3. datas = Blobs(fl)
    BY <1>1 DEF Blobs
  <1>4. lens = [k \in 1 .. Len(fl) |-> Len(fl[k].name)]
    BY <1>1
  <1>5. names = AllNames(fl)
    <2>1. [i \in DOMAIN fl |-> fl[i].name] = Names(fl)
      BY <1>1 DEF Names
    <2>2. QED BY <2>1, Zenon DEF AllNames
  <1>6. start = DataStart(fl)
    <2> HIDE DEF names
    <2>1. FS_HEADER + FS_DESC * Len(fl) = DescEnd(Len(fl))
      BY <1>1 DEF DescEnd, FS_HEADER, FS_DESC
    <2>2. QED BY <1>5, <2>1, Zenon DEF DataStart
  <1> HIDE DEF start, names, datas
  <1>7. offs = Offsets([k \in 1 .. Len(fl) |-> align_up(Len(Blobs(fl)[k]))], DataStart(fl))
    <2>1. [i \in DOMAIN fl |-> align_up(Len(datas[i]))]
            = [k \in 1 .. Len(fl) |-> align_up(Len(Blobs(fl)[k]))]
      BY <1>1, <1>3, Zenon
    <2>2. QED BY <1>6, <2>1, Zenon
  <1>8. descs = Descs(fl)
    <2> HIDE DEF offs, lens
    <2>1. \A i \in 1 .. Len(fl) :
             <<offs[i], Len(datas[i]), Offsets(lens, 0)[i], lens[i], fl[i].flags>> = DescCells(Table(fl)[i])
      <3>1. ASSUME NEW i \in 1 .. Len(fl)
            PROVE  <<offs[i], Len(datas[i]), Offsets(lens, 0)[i], lens[i], fl[i].flags>> = DescCells(Table(fl)[i])
        <4>1. lens[i] = Len(fl[i].name)
          BY <1>4
        <4>2. Table(fl)[i] = [offset |-> offs[i], size |-> Len(datas[i]), name_offset |-> Offsets(lens, 0)[i],
                              name_size |-> Len(fl[i].name), flags |-> fl[i].flags]
          BY <1>3, <1>4, <1>7 DEF Table
        <4>3. QED BY <4>1, <4>2 DEF DescCells
      <3>2. QED BY <3>1
    <2>2. QED BY <1>1, <2>1 DEF Descs
  <1>9. [i \in DOMAIN fl |-> Pad(datas[i])] = Padded(fl)
    BY <1>1, <1>3 DEF Padded
  <1> HIDE DEF descs
  <1>10. QED BY <1>1, <1>2, <1>5, <1>8, <1>9, Zenon DEF Header

\* What is where on an image.
Pictured(fl, n, img) ==
    /\ img \in Seq(Int) /\ Len(img) \in Nat
    /\ img[1] = FS_MAGIC /\ img[2] = n /\ FS_HEADER <= Len(img)
    /\ DescEnd(n) + Len(AllNames(fl)) <= Len(img)
    /\ \A i \in 1 .. n : \A c \in 1 .. FS_DESC :
          img[(FS_HEADER + (i - 1) * FS_DESC) + c] = DescCells(Table(fl)[i])[c]
    /\ \A j \in 1 .. Len(AllNames(fl)) : img[DescEnd(n) + j] = AllNames(fl)[j]
    /\ \A i \in 1 .. n :
          /\ Table(fl)[i].offset + align_up(Table(fl)[i].size) <= Len(img)
          /\ \A j \in 1 .. align_up(Table(fl)[i].size) :
                img[Table(fl)[i].offset + j] = Pad(Blobs(fl)[i])[j]

LEMMA FiveCells ==
    ASSUME NEW a \in Int, NEW b \in Int, NEW c \in Int, NEW d \in Int, NEW e \in Int
    PROVE  <<a, b, c, d, e>> \in Seq(Int) /\ Len(<<a, b, c, d, e>>) = 5
  OBVIOUS

\* The descriptors, each of five cells.
DescsOK(fl, n, D) ==
    /\ D \in Seq(Int) /\ Len(D) = n * 5
    /\ \A i \in 1 .. n : \A c \in 1 .. 5 : D[(i - 1) * 5 + c] = DescCells(Table(fl)[i])[c]

LEMMA DescsAre ==
    ASSUME NEW fl, NEW n \in Nat, Parts(fl, n)
    PROVE  DescsOK(fl, n, Concat(Descs(fl)))
  <1>1. PICK t : t = Table(fl)
    OBVIOUS
  <1>2. n = Len(fl) /\ \A i \in 1 .. n : fl[i].flags \in Int /\ t[i].flags = fl[i].flags
    BY <1>1 DEF Parts, Table
  <1>3. \A i \in 1 .. n : t[i].name_offset \in Nat /\ t[i].name_size \in Nat
    BY <1>1, NamesAre DEF NamesOK
  <1>4. \A i \in 1 .. n : t[i].offset \in Nat /\ t[i].size \in Nat
    BY <1>1, FilesAre DEF FilesAt
  <1>5. PICK parts : parts = Descs(fl)
    OBVIOUS
  <1>6. \A i \in 1 .. n : parts[i] = DescCells(t[i])
    BY <1>1, <1>2, <1>5 DEF Descs
  <1>7. ASSUME NEW i \in 1 .. n PROVE parts[i] \in Seq(Int) /\ Len(parts[i]) = 5
    <2>1. /\ t[i].offset \in Int /\ t[i].size \in Int /\ t[i].name_offset \in Int /\ t[i].name_size \in Int
          /\ t[i].flags \in Int
      BY <1>2, <1>3, <1>4
    <2>2. DescCells(t[i]) \in Seq(Int) /\ Len(DescCells(t[i])) = 5
      BY <2>1, FiveCells DEF DescCells
    <2>3. QED BY <1>6, <2>2
  <1>8. parts \in [1 .. n -> Seq(Int)]
    BY <1>2, <1>5, <1>7 DEF Descs
  <1>9. PICK h : h = [k \in 0 .. n |-> k * 5] /\ Sums(h, n, LensOf(parts, n), 0)
    <2>1. \A k \in 1 .. n : LensOf(parts, n)[k] = 5
      BY <1>7 DEF LensOf
    <2>2. QED BY <2>1, EvenSums
  <1>10. PICK D \in Seq(Int) : D = Concat(Descs(fl)) /\ Parted(D, n, h, parts)
    BY <1>5, <1>8, <1>9, ConcatIs
  <1>11. Len(D) = n * 5
    BY <1>9, <1>10 DEF Parted
  <1>12. ASSUME NEW i \in 1 .. n, NEW c \in 1 .. 5 PROVE D[(i - 1) * 5 + c] = DescCells(Table(fl)[i])[c]
    <2>1. i - 1 \in 0 .. n
      OBVIOUS
    <2>2. h[i - 1] = (i - 1) * 5
      BY <1>9, <2>1
    <2>3. c \in 1 .. Len(parts[i])
      BY <1>7
    <2>4. D[h[i - 1] + c] = parts[i][c]
      BY <1>10, <2>3, Zenon DEF Parted
    <2>5. QED BY <1>1, <1>6, <2>2, <2>4
  <1>13. QED BY <1>10, <1>11, <1>12, Zenon DEF DescsOK

LEMMA ImageIs ==
    ASSUME NEW fl, NEW n \in Nat, Parts(fl, n)
    PROVE  Pictured(fl, n, build_fs(fl))
  <1>1. PICK H : H = Header(n)
    OBVIOUS
  <1>2. H \in Seq(Int) /\ Len(H) = 2 /\ H[1] = FS_MAGIC /\ H[2] = n
    BY <1>1 DEF Header, FS_MAGIC
  <1>3. PICK D \in Seq(Int) : D = Concat(Descs(fl)) /\ DescsOK(fl, n, D)
    BY DescsAre DEF DescsOK
  <1>4. PICK N \in Seq(Int) : N = AllNames(fl) /\ Len(N) \in Nat
    BY NamesAre DEF NamesOK
  <1>5. PICK R \in Seq(Int) : R = Concat(Padded(fl)) /\ FilesAt(fl, n, R) /\ Len(R) \in Nat
    <2>1. FilesAt(fl, n, Concat(Padded(fl)))
      BY FilesAre
    <2>2. Concat(Padded(fl)) \in Seq(Int) /\ Len(Concat(Padded(fl))) \in Nat
      BY <2>1, Zenon DEF FilesAt
    <2>3. QED BY <2>1, <2>2
  <1>6. PICK x \in Seq(Int) : x = (H \o D) \o N /\ Threefold(x, H, D, N)
    BY <1>2, ThreeParts
  <1>7. Len(x) = 2 + n * 5 + Len(N) /\ Len(x) \in Nat
    BY <1>2, <1>3, <1>4, <1>6 DEF Threefold, DescsOK
  <1>8. PICK y \in Seq(Int) : y = Pad(x) /\ Len(y) = align_up(Len(x)) /\ \A k \in 1 .. Len(x) : y[k] = x[k]
    BY PadIs
  <1>9. PICK img \in Seq(Int) : /\ img = y \o R /\ Len(img) = Len(y) + Len(R)
                                /\ \A k \in 1 .. Len(y) : img[k] = y[k]
                                /\ \A k \in 1 .. Len(R) : img[Len(y) + k] = R[k]
    <2>1. /\ y \o R \in Seq(Int) /\ Len(y \o R) = Len(y) + Len(R)
          /\ \A k \in 1 .. Len(y) : (y \o R)[k] = y[k]
          /\ \A k \in 1 .. Len(R) : (y \o R)[Len(y) + k] = R[k]
      BY TwoParts
    <2>2. QED BY <2>1
  <1>10. img = build_fs(fl)
    BY <1>1, <1>3, <1>4, <1>5, <1>6, <1>8, <1>9, BuildIs, Zenon
  <1>11. DescEnd(n) = 2 + n * 5
    BY DEF DescEnd, FS_HEADER, FS_DESC
  <1>12. PICK nl \in Nat, start \in Nat, rl \in Nat :
           /\ nl = Len(N) /\ start = Len(y) /\ rl = Len(R) /\ 2 + n * 5 + nl <= start
           /\ Len(x) = 2 + n * 5 + nl /\ Len(img) = start + rl
    <2>1. align_up(Len(x)) \in Nat /\ Len(x) <= align_up(Len(x))
      BY <1>7, SectorsOf
    <2>2. QED BY <1>4, <1>5, <1>7, <1>8, <1>9, <2>1
  <1>13. start = DataStart(fl)
    <2>1. n = Len(fl)
      BY DEF Parts
    <2>2. DataStart(fl) = align_up((2 + n * 5) + Len(N))
      BY <1>4, <1>11, <2>1, Zenon DEF DataStart
    <2>3. Len(x) = (2 + n * 5) + Len(N)
      BY <1>7
    <2>4. QED BY <1>8, <1>12, <2>2, <2>3
  <1>14. ASSUME NEW k \in 1 .. 2 + n * 5 + nl PROVE img[k] = x[k]
    <2>1. k \in 1 .. Len(x) /\ k \in 1 .. Len(y)
      BY <1>12
    <2>2. QED BY <1>8, <1>9, <2>1
  <1>15. img[1] = FS_MAGIC /\ img[2] = n
    <2>1. x[1] = H[1] /\ x[2] = H[2]
      BY <1>2, <1>6 DEF Threefold
    <2>2. img[1] = x[1] /\ img[2] = x[2]
      BY <1>14
    <2>3. QED BY <1>2, <2>1, <2>2
  <1>16. ASSUME NEW i \in 1 .. n, NEW c \in 1 .. 5
         PROVE  img[(2 + (i - 1) * 5) + c] = DescCells(Table(fl)[i])[c]
    <2>1. PICK k \in 1 .. n * 5 : k = (i - 1) * 5 + c /\ (2 + (i - 1) * 5) + c = 2 + k
      <3>1. PICK k \in Nat : k = (i - 1) * 5 + c
        OBVIOUS
      <3>2. k \in 1 .. n * 5 /\ (2 + (i - 1) * 5) + c = 2 + k
        BY <3>1
      <3>3. QED BY <3>1, <3>2
    <2>2. img[2 + k] = x[2 + k]
      BY <1>14
    <2>3. k \in 1 .. Len(D)
      BY <1>3 DEF DescsOK
    <2>4. x[2 + k] = D[k]
      BY <1>2, <1>6, <2>3 DEF Threefold
    <2>5. D[(i - 1) * 5 + c] = DescCells(Table(fl)[i])[c]
      BY <1>3, Zenon DEF DescsOK
    <2>6. QED BY <2>1, <2>2, <2>4, <2>5
  <1>17. ASSUME NEW j \in 1 .. nl PROVE img[(2 + n * 5) + j] = AllNames(fl)[j]
    <2>1. img[(2 + n * 5) + j] = x[(2 + n * 5) + j]
      BY <1>14
    <2>2. x[Len(H) + Len(D) + j] = N[j] /\ Len(H) + Len(D) = 2 + n * 5
      BY <1>2, <1>3, <1>6, <1>12 DEF Threefold, DescsOK
    <2>3. QED BY <1>4, <2>1, <2>2
  <1>18. ASSUME NEW i \in 1 .. n
         PROVE  /\ Table(fl)[i].offset + align_up(Table(fl)[i].size) <= Len(img)
                /\ \A j \in 1 .. align_up(Table(fl)[i].size) :
                      img[Table(fl)[i].offset + j] = Pad(Blobs(fl)[i])[j]
    <2>1. PICK o : o = Table(fl)[i].offset
      OBVIOUS
    <2>2. PICK s : s = align_up(Table(fl)[i].size)
      OBVIOUS
    <2>3. /\ o \in Nat /\ s \in Nat /\ start <= o /\ o - start + s <= rl
          /\ \A j \in 1 .. s : R[(o - start) + j] = Pad(Blobs(fl)[i])[j]
      <3>1. Table(fl)[i].size \in Nat
        BY <1>5 DEF FilesAt
      <3>2. s \in Nat
        BY <2>2, <3>1, SectorsOf
      <3>3. o \in Nat /\ DataStart(fl) <= o /\ o - DataStart(fl) + s <= Len(R)
            /\ \A j \in 1 .. s : R[(o - DataStart(fl)) + j] = Pad(Blobs(fl)[i])[j]
        BY <1>5, <2>1, <2>2, Zenon DEF FilesAt
      <3>4. QED BY <1>12, <1>13, <3>2, <3>3
    <2>4. ASSUME NEW j \in 1 .. s PROVE img[o + j] = Pad(Blobs(fl)[i])[j]
      <3>1. PICK k \in 1 .. rl : k = (o - start) + j /\ start + k = o + j
        <4>1. (o - start) + j \in 1 .. rl /\ start + ((o - start) + j) = o + j
          BY <2>3, SMTT(30)
        <4>2. QED BY <4>1
      <3>2. img[start + k] = R[k]
        BY <1>9, <1>12
      <3>3. QED BY <2>3, <3>1, <3>2
    <2>5. o + s <= Len(img)
      BY <1>12, <2>3
    <2>6. QED BY <2>1, <2>2, <2>4, <2>5
  <1>19. DescEnd(n) + Len(AllNames(fl)) <= Len(img) /\ Len(img) \in Nat /\ FS_HEADER <= Len(img)
    <2>1. Len(AllNames(fl)) = nl /\ DescEnd(n) = 2 + n * 5 /\ Len(img) = start + rl
      BY <1>4, <1>11, <1>12
    <2>2. 2 + n * 5 + nl <= start + rl /\ start + rl \in Nat /\ 2 <= start + rl
      <3>1. 2 + n * 5 + nl <= start /\ nl \in Nat /\ start \in Nat /\ rl \in Nat
        BY <1>12
      <3>2. n * 5 \in Nat
        OBVIOUS
      <3>3. QED BY <3>1, <3>2
    <2>3. QED BY <2>1, <2>2 DEF FS_HEADER
  <1>20. \A i \in 1 .. n : \A c \in 1 .. FS_DESC :
            img[(FS_HEADER + (i - 1) * FS_DESC) + c] = DescCells(Table(fl)[i])[c]
    BY <1>16 DEF FS_HEADER, FS_DESC
  <1>21. \A j \in 1 .. Len(AllNames(fl)) : img[DescEnd(n) + j] = AllNames(fl)[j]
    BY <1>4, <1>11, <1>12, <1>17
  <1>22. Pictured(fl, n, img)
    BY <1>15, <1>18, <1>19, <1>20, <1>21, Zenon DEF Pictured
  <1>23. QED BY <1>10, <1>22

-----------------------------------------------------------------------------
(* What is read from the disk.                                             *)

Reads(buf, sector, count) ==
    /\ sector + count <= Capacity
    /\ buf = SubSeq(disk, sector * SECTOR + 1, (sector + count) * SECTOR)

\* A cell of a sector that no program has written to.
Kept(k) == \A w \in written : k \notin w * SECTOR + 1 .. (w + 1) * SECTOR

HoldsImage == \A k \in 1 .. Len(build_fs(files)) : Kept(k) => disk[k] = build_fs(files)[k]

LEMMA ReadIs ==
    ASSUME DiskInv, NEW sector \in Nat, NEW count \in Nat, NEW buf, Reads(buf, sector, count)
    PROVE  /\ Len(buf) = count * SECTOR
           /\ \A k \in 1 .. count * SECTOR : buf[k] = disk[sector * SECTOR + k]
  <1>1. PICK s \in Nat : s = SECTOR
    BY FilesConstants
  <1>2. PICK a \in Nat, c \in Nat, t \in Nat : a = sector * s /\ c = count * s /\ t = Capacity * s
    BY FilesConstants
  <1>3. (sector + count) * s = a + c
    BY <1>2
  <1>4. a + c <= t
    <2>1. sector + count \in Nat /\ Capacity \in Nat /\ sector + count <= Capacity
      BY FilesConstants DEF Reads
    <2>2. (sector + count) * s <= Capacity * s
      BY <2>1, Multiples
    <2>3. QED BY <1>2, <1>3, <2>2
  <1>5. disk \in Seq(Int) /\ Len(disk) = t
    BY <1>1, <1>2 DEF DiskInv
  <1>6. \A i \in a + 1 .. a + c : disk[i] \in Int
    <2>1. \A i \in a + 1 .. a + c : i \in 1 .. Len(disk)
      BY <1>4, <1>5
    <2>2. QED BY <1>5, <2>1, ElementOfSeq
  <1>7. buf = SubSeq(disk, a + 1, a + c)
    BY <1>1, <1>2, <1>3 DEF Reads
  <1>8. /\ Len(buf) = (IF a + 1 <= a + c THEN (a + c) - (a + 1) + 1 ELSE 0)
        /\ \A i \in 1 .. (a + c) - (a + 1) + 1 : buf[i] = disk[(a + 1) + i - 1]
    BY <1>6, <1>7, SubSeqProperties
  <1>9. Len(buf) = c
    BY <1>8
  <1>10. ASSUME NEW k \in 1 .. c PROVE buf[k] = disk[a + k]
    <2>1. k \in 1 .. (a + c) - (a + 1) + 1 /\ (a + 1) + k - 1 = a + k
      OBVIOUS
    <2>2. buf[k] = disk[(a + 1) + k - 1]
      BY <1>8, <2>1
    <2>3. QED BY <2>1, <2>2
  <1>11. QED BY <1>1, <1>2, <1>9, <1>10

\* The sectors before the end of the image hold it.
LEMMA ReadImage ==
    ASSUME DiskInv, HoldsImage, NEW n \in Nat, Parts(files, n),
           NEW sector \in Nat, NEW count \in Nat, NEW buf, Reads(buf, sector, count),
           NEW k \in 1 .. count * SECTOR, sector * SECTOR + k <= Len(build_fs(files)),
           Kept(sector * SECTOR + k)
    PROVE  buf[k] = build_fs(files)[sector * SECTOR + k]
  <1>1. buf[k] = disk[sector * SECTOR + k]
    BY ReadIs
  <1>2. PICK l \in Nat : l = Len(build_fs(files))
    <2>1. Len(build_fs(files)) \in Nat
      BY ImageIs DEF Pictured
    <2>2. QED BY <2>1
  <1>3. sector * SECTOR + k \in 1 .. l
    <2>1. PICK a \in Nat : a = sector * SECTOR
      BY FilesConstants
    <2>2. a + k <= l /\ k \in Nat /\ k >= 1
      BY <1>2, <2>1, FilesConstants
    <2>3. QED BY <2>1, <2>2
  <1>4. QED BY <1>1, <1>2, <1>3 DEF HoldsImage

\* From the first sector.
LEMMA ReadFirst ==
    ASSUME DiskInv, HoldsImage, written = {}, NEW n \in Nat, Parts(files, n),
           NEW count \in Nat, NEW buf, Reads(buf, 0, count)
    PROVE  \A k \in 1 .. count * SECTOR : k <= Len(build_fs(files)) => buf[k] = build_fs(files)[k]
  <1>1. ASSUME NEW k \in 1 .. count * SECTOR, k <= Len(build_fs(files))
        PROVE  buf[k] = build_fs(files)[k]
    <2>1. 0 * SECTOR + k = k
      BY FilesConstants
    <2>2. Kept(0 * SECTOR + k)
      BY DEF Kept
    <2>3. buf[k] = build_fs(files)[0 * SECTOR + k]
      BY <1>1, <2>1, <2>2, ReadImage
    <2>4. QED BY <2>1, <2>3
  <1>2. QED BY <1>1

LEMMA HeaderRead ==
    ASSUME DiskInv, HoldsImage, written = {}, NEW n \in Nat, Parts(files, n),
           NEW buf, Reads(buf, 0, 1)
    PROVE  buf[1] = FS_MAGIC /\ buf[2] = n
  <1>1. PICK img : img = build_fs(files)
    OBVIOUS
  <1>2. img[1] = FS_MAGIC /\ img[2] = n /\ 2 <= Len(img)
    BY <1>1, ImageIs DEF Pictured, FS_HEADER
  <1>3. 1 \in 1 .. 1 * SECTOR /\ 2 \in 1 .. 1 * SECTOR
    BY FilesConstants DEF FS_HEADER
  <1>4. \A k \in 1 .. 1 * SECTOR : k <= Len(img) => buf[k] = img[k]
    BY <1>1, ReadFirst
  <1>5. 1 <= Len(img)
    <2>1. Len(img) \in Nat
      BY <1>1, ImageIs DEF Pictured
    <2>2. QED BY <1>2, <2>1
  <1>6. QED BY <1>2, <1>3, <1>4, <1>5

LEMMA DescsRead ==
    ASSUME DiskInv, HoldsImage, written = {}, NEW n \in Nat, Parts(files, n), g_blob_count = n,
           NEW buf, Reads(buf, 0, Sectors(DescEnd(n)))
    PROVE  Descriptors(buf) = Table(files)
  <1>1. PICK img : img = build_fs(files)
    OBVIOUS
  <1>2. PICK e \in Nat : e = DescEnd(n) /\ e = 2 + n * 5
    BY DEF DescEnd, FS_HEADER, FS_DESC
  <1>3. PICK c \in Nat : c = Sectors(e) /\ e <= c * SECTOR
    BY SectorsOf
  <1>4. PICK nl \in Nat, l \in Nat : nl = Len(AllNames(files)) /\ l = Len(img) /\ e + nl <= l
    <2>1. Len(AllNames(files)) \in Nat
      BY NamesAre DEF NamesOK
    <2>2. Len(img) \in Nat /\ e + Len(AllNames(files)) <= Len(img)
      BY <1>1, <1>2, ImageIs DEF Pictured
    <2>3. QED BY <2>1, <2>2
  <1>5. PICK cs \in Nat : cs = c * SECTOR
    BY FilesConstants
  <1>6. \A k \in 1 .. cs : k <= l => buf[k] = img[k]
    BY <1>1, <1>2, <1>3, <1>4, <1>5, ReadFirst
  <1>7. ASSUME NEW i \in 1 .. n, NEW f \in 1 .. 5
        PROVE  buf[(2 + (i - 1) * 5) + f] = DescCells(Table(files)[i])[f]
    <2>1. PICK k \in Nat : k = (2 + (i - 1) * 5) + f
      OBVIOUS
    <2>2. k >= 1 /\ k <= e
      BY <1>2, <2>1
    <2>3. k \in 1 .. cs /\ k <= l
      BY <1>3, <1>4, <1>5, <2>2
    <2>4. buf[k] = img[k]
      BY <1>6, <2>3
    <2>5. \A j \in 1 .. FS_DESC : img[(FS_HEADER + (i - 1) * FS_DESC) + j] = DescCells(Table(files)[i])[j]
      <3>1. Pictured(files, n, img)
        BY <1>1, ImageIs
      <3>2. QED BY <3>1, Zenon DEF Pictured
    <2>6. img[(2 + (i - 1) * 5) + f] = DescCells(Table(files)[i])[f]
      BY <2>5 DEF FS_HEADER, FS_DESC
    <2>7. QED BY <2>1, <2>4, <2>6
  <1>8. ASSUME NEW i \in 1 .. n PROVE Descriptors(buf)[i] = Table(files)[i]
    <2>1. PICK a : a = 2 + (i - 1) * 5
      OBVIOUS
    <2>2. Descriptors(buf)[i] = [offset |-> buf[a + 1], size |-> buf[a + 2], name_offset |-> buf[a + 3],
                                 name_size |-> buf[a + 4], flags |-> buf[a + 5]]
      BY <2>1 DEF Descriptors, FS_HEADER, FS_DESC
    <2>3. PICK d : d = Table(files)[i]
      OBVIOUS
    <2>4. \A f \in 1 .. 5 : buf[a + f] = DescCells(d)[f]
      BY <1>7, <2>1, <2>3
    <2>5. /\ buf[a + 1] = d.offset /\ buf[a + 2] = d.size /\ buf[a + 3] = d.name_offset
          /\ buf[a + 4] = d.name_size /\ buf[a + 5] = d.flags
      BY <2>4 DEF DescCells
    <2>6. d = [offset |-> d.offset, size |-> d.size, name_offset |-> d.name_offset,
               name_size |-> d.name_size, flags |-> d.flags]
      <3>1. n = Len(files)
        BY DEF Parts
      <3>2. QED BY <2>3, <3>1 DEF Table
    <2>7. QED BY <2>2, <2>3, <2>5, <2>6
  <1>9. QED
    <2>1. n = Len(files)
      BY DEF Parts
    <2>2. Descriptors(buf) = [i \in 1 .. n |-> Descriptors(buf)[i]]
      BY DEF Descriptors
    <2>3. Table(files) = [i \in 1 .. n |-> Table(files)[i]]
      BY <2>1 DEF Table
    <2>4. QED BY <1>8, <2>2, <2>3

LEMMA NamesRead ==
    ASSUME DiskInv, HoldsImage, written = {}, NEW n \in Nat, Parts(files, n),
           NEW buf, Reads(buf, 0, Sectors(DescEnd(n) + Len(AllNames(files))))
    PROVE  SubSeq(buf, DescEnd(n) + 1, DescEnd(n) + Len(AllNames(files))) = AllNames(files)
  <1>1. PICK img : img = build_fs(files)
    OBVIOUS
  <1>2. PICK e \in Nat : e = DescEnd(n)
    BY DEF DescEnd, FS_HEADER, FS_DESC
  <1>3. PICK N \in Seq(Int) : N = AllNames(files)
    BY NamesAre DEF NamesOK
  <1>4. PICK nl \in Nat : nl = Len(N)
    BY LenProperties
  <1>5. PICK c \in Nat, cs \in Nat : c = Sectors(e + nl) /\ cs = c * SECTOR /\ e + nl <= cs
    <2>1. e + nl \in Nat
      OBVIOUS
    <2>2. QED BY <2>1, SectorsOf
  <1>6. PICK l \in Nat : l = Len(img) /\ e + nl <= l
    BY <1>1, <1>2, <1>3, <1>4, ImageIs DEF Pictured
  <1>7. \A k \in 1 .. cs : k <= l => buf[k] = img[k]
    BY <1>1, <1>2, <1>3, <1>4, <1>5, <1>6, ReadFirst
  <1>8. ASSUME NEW j \in 1 .. nl PROVE buf[e + j] = N[j]
    <2>1. e + j \in 1 .. cs /\ e + j <= l
      BY <1>5, <1>6
    <2>2. buf[e + j] = img[e + j]
      BY <1>7, <2>1
    <2>3. \A k \in 1 .. Len(AllNames(files)) : img[DescEnd(n) + k] = AllNames(files)[k]
      <3>1. Pictured(files, n, img)
        BY <1>1, ImageIs
      <3>2. QED BY <3>1, Zenon DEF Pictured
    <2>4. QED BY <1>2, <1>3, <1>4, <2>2, <2>3
  <1>9. \A i \in e + 1 .. e + nl : buf[i] \in Int
    <2>1. ASSUME NEW i \in e + 1 .. e + nl PROVE buf[i] \in Int
      <3>1. PICK j \in 1 .. nl : i = e + j
        <4>1. i - e \in 1 .. nl /\ i = e + (i - e)
          OBVIOUS
        <4>2. QED BY <4>1
      <3>2. N[j] \in Int
        BY <1>4, ElementOfSeq
      <3>3. QED BY <1>8, <3>1, <3>2
    <2>2. QED BY <2>1
  <1>10. PICK t : t = SubSeq(buf, e + 1, e + nl)
    OBVIOUS
  <1>11. /\ t \in Seq(Int) /\ Len(t) = (IF e + 1 <= e + nl THEN (e + nl) - (e + 1) + 1 ELSE 0)
         /\ \A i \in 1 .. (e + nl) - (e + 1) + 1 : t[i] = buf[(e + 1) + i - 1]
    BY <1>9, <1>10, SubSeqProperties
  <1>12. Len(t) = nl
    BY <1>11
  <1>13. ASSUME NEW j \in 1 .. nl PROVE t[j] = N[j]
    <2>1. j \in 1 .. (e + nl) - (e + 1) + 1 /\ (e + 1) + j - 1 = e + j
      OBVIOUS
    <2>2. t[j] = buf[(e + 1) + j - 1]
      BY <1>11, <2>1
    <2>3. QED BY <1>8, <2>1, <2>2
  <1>14. t = N
    BY <1>4, <1>11, <1>12, <1>13, SeqEqual
  <1>15. QED BY <1>2, <1>3, <1>4, <1>10, <1>14

\* The cells of sectors that are not written to.
LEMMA ExtentKept ==
    ASSUME written \subseteq Nat, NEW q \in Nat, NEW c \in Nat, written \cap (q .. q + c - 1) = {},
           NEW k \in 1 .. c * SECTOR
    PROVE  Kept(q * SECTOR + k)
  <1>1. SECTOR \in Nat
    BY FilesConstants
  <1>2. ASSUME NEW w \in written PROVE q * SECTOR + k \notin w * SECTOR + 1 .. (w + 1) * SECTOR
    <2>1. w \in Nat /\ (w < q \/ w >= q + c)
      BY <1>2
    <2>2. PICK o \in Nat, a \in Nat, lo \in Nat, hi \in Nat :
             o = q * SECTOR /\ a = c * SECTOR /\ lo = w * SECTOR /\ hi = (w + 1) * SECTOR
      BY <1>1, <2>1
    <2>3. CASE w < q
      <3>1. w + 1 \in Nat /\ w + 1 <= q
        BY <2>1, <2>3
      <3>2. hi <= o
        BY <1>1, <2>2, <3>1, Multiples
      <3>3. QED BY <2>2, <3>2
    <2>4. CASE w >= q + c
      <3>1. (q + c) * SECTOR <= w * SECTOR
        BY <1>1, <2>1, <2>4, Multiples
      <3>2. (q + c) * SECTOR = o + a
        BY <1>1, <2>2
      <3>3. QED BY <2>2, <3>1, <3>2
    <2>5. QED BY <2>1, <2>3, <2>4
  <1>3. QED BY <1>2 DEF Kept

\* The blob of a file begins its buffer, and an empty one has an empty buffer.
LEMMA BlobRead ==
    ASSUME DiskInv, HoldsImage, written \subseteq Nat, NEW n \in Nat, Parts(files, n),
           NEW i \in 1 .. n, written \cap Extent(Table(files)[i]) = {}, NEW buf,
           Reads(buf, Table(files)[i].offset \div SECTOR, Sectors(Table(files)[i].size))
    PROVE  /\ Table(files)[i].offset \div SECTOR \in Nat /\ Sectors(Table(files)[i].size) \in Nat
           /\ Begins(buf, Blobs(files)[i])
           /\ Len(Blobs(files)[i]) = 0 => Len(buf) = 0
  <1>1. PICK s \in Nat \ {0} : s = SECTOR
    BY FilesConstants DEF FS_HEADER
  <1>2. PICK x \in Seq(Int) : x = Blobs(files)[i]
    BY DEF Parts
  <1>3. PICK z \in Nat : z = Len(x)
    BY LenProperties
  <1>4. PICK o : o = Table(files)[i].offset
    OBVIOUS
  <1>5. FilesAt(files, n, Concat(Padded(files))) /\ Pictured(files, n, build_fs(files))
    BY FilesAre, ImageIs
  <1>6. Table(files)[i].size = z /\ o \in Nat /\ Whole(o)
    BY <1>2, <1>3, <1>4, <1>5 DEF FilesAt
  <1>7. PICK q \in Nat : o = q * s /\ o \div s = q
    <2>1. PICK q \in Nat : o = q * s
      BY <1>1, <1>6 DEF Whole
    <2>2. (q * s) \div s = q
      BY <1>1
    <2>3. QED BY <2>1, <2>2
  <1>8. PICK c \in Nat, a \in Nat : c = Sectors(z) /\ a = align_up(z) /\ a = c * s /\ z <= a
    BY <1>1, <1>3, SectorsOf
  <1>9. PICK img : img = build_fs(files)
    OBVIOUS
  <1>10. Len(img) \in Nat /\ o + a <= Len(img) /\ \A j \in 1 .. a : img[o + j] = Pad(x)[j]
    <2>1. Pictured(files, n, img)
      BY <1>5, <1>9
    <2>2. /\ Len(img) \in Nat /\ o + align_up(Table(files)[i].size) <= Len(img)
          /\ \A j \in 1 .. align_up(Table(files)[i].size) : img[o + j] = Pad(Blobs(files)[i])[j]
      BY <1>4, <2>1, Zenon DEF Pictured
    <2>3. QED BY <1>2, <1>6, <1>8, <2>2
  <1>11. Reads(buf, q, c)
    BY <1>1, <1>4, <1>6, <1>7, <1>8
  <1>12. ASSUME NEW k \in 1 .. z PROVE buf[k] = x[k]
    <2>1. k \in 1 .. a /\ o + k <= Len(img)
      <3>1. PICK l \in Nat : l = Len(img) /\ o + a <= l
        BY <1>10
      <3>2. k <= a /\ o \in Nat /\ a \in Nat
        BY <1>6, <1>8
      <3>3. QED BY <3>1, <3>2
    <2>2. k \in 1 .. c * SECTOR /\ q * SECTOR + k = o + k
      BY <1>1, <1>7, <1>8, <2>1
    <2>3. Kept(q * SECTOR + k)
      <3>1. written \cap (q .. q + c - 1) = {}
        BY <1>1, <1>4, <1>6, <1>7, <1>8 DEF Extent
      <3>2. QED BY <2>2, <3>1, ExtentKept
    <2>4. buf[k] = build_fs(files)[q * SECTOR + k]
      BY <1>9, <1>11, <2>1, <2>2, <2>3, ReadImage
    <2>5. buf[k] = img[o + k]
      BY <1>9, <2>2, <2>4
    <2>6. Pad(x)[k] = x[k]
      BY <1>3, PadIs
    <2>7. QED BY <1>10, <2>1, <2>5, <2>6
  <1>13. z = 0 => Len(buf) = 0
    <2>1. ASSUME z = 0 PROVE Len(buf) = 0
      <3>1. Sectors(z) = (s - 1) \div s
        BY <1>1, <2>1 DEF Sectors
      <3>2. (s - 1) \div s = 0
        <4>1. PICK d \in Nat : d = (s - 1) \div s /\ d * s <= s - 1
          <5>1. (s - 1) \div s \in Nat /\ ((s - 1) \div s) * s <= s - 1
            BY <1>1
          <5>2. QED BY <5>1
        <4>2. 1 <= d => 1 * s <= d * s
          BY <1>1, Multiples
        <4>3. d * s \in Nat
          BY <1>1
        <4>4. QED BY <4>1, <4>2, <4>3
      <3>3. Len(buf) = c * SECTOR
        BY <1>11, ReadIs
      <3>4. QED BY <1>8, <3>1, <3>2, <3>3, FilesConstants
    <2>2. QED BY <2>1
  <1>14. Begins(buf, x)
    BY <1>3, <1>12 DEF Begins
  <1>15. QED BY <1>1, <1>2, <1>3, <1>4, <1>6, <1>7, <1>8, <1>13, <1>14

\* What llf_load makes of the file in its buffer is what its ELF file says; a
\* file that was none is refused.
LEMMA BlobLoaded ==
    ASSUME DiskInv, HoldsImage, written \subseteq Nat, NEW n \in Nat, Parts(files, n),
           NEW i \in 1 .. n, written \cap Extent(Table(files)[i]) = {}, NEW buf,
           Reads(buf, Table(files)[i].offset \div SECTOR, Sectors(Table(files)[i].size)),
           LlfValid(buf), NEW elf, elf = files[i].elf[1]
    PROVE  /\ buf[3] = elf.entry
           /\ \A va \in VAs : llf_load([v \in VAs |-> 98], buf)[va] = ElfCell(elf, va)
  <1>1. Begins(buf, Blobs(files)[i]) /\ (Len(Blobs(files)[i]) = 0 => Len(buf) = 0)
    BY BlobRead
  <1>2. PICK f : f = files[i]
    OBVIOUS
  <1>3. FileOK(f) /\ Blobs(files)[i] = load_blob(f)
    BY <1>2 DEF Parts, Blobs
  <1>4. f.elf # <<>>
    <2>1. ASSUME f.elf = <<>> PROVE FALSE
      <3>1. PICK raw \in Seq(Int) : raw = f.raw /\ (raw = <<>> \/ raw[1] # LLF_MAGIC)
        BY <1>3, <2>1 DEF FileOK
      <3>2. Blobs(files)[i] = raw
        BY <1>3, <2>1, <3>1 DEF load_blob
      <3>3. CASE raw = <<>>
        <4>1. Len(raw) = 0
          BY <3>3
        <4>2. Len(buf) = 0
          BY <1>1, <3>2, <4>1
        <4>3. QED BY <4>2 DEF LlfValid, LLF_HEADER
      <3>4. CASE raw # <<>>
        <4>1. 1 \in 1 .. Len(raw)
          BY <3>1, <3>4, EmptySeq, LenProperties
        <4>2. buf[1] = raw[1]
          BY <1>1, <3>2, <4>1 DEF Begins
        <4>3. QED BY <3>1, <3>4, <4>2 DEF LlfValid
      <3>5. QED BY <3>3, <3>4
    <2>2. QED BY <2>1
  <1>5. ElfOK(elf) /\ Blobs(files)[i] = to_llf_bytes(elf.entry, parse_elf(elf))
    BY <1>2, <1>3, <1>4 DEF FileOK, load_blob
  <1>6. PICK segs \in Seq(Segments) : segs = parse_elf(elf)
    BY <1>5, ParseIs
  <1>7. elf.entry \in Int
    BY <1>5 DEF ElfOK
  <1>8. LlfOf(buf, elf.entry, segs)
    <2>1. Begins(buf, to_llf_bytes(elf.entry, segs))
      BY <1>1, <1>5, <1>6
    <2>2. QED BY <1>7, <2>1, ToLlfIs
  <1>9. Stands(segs, elf)
    BY <1>5, <1>6, ParseStands
  <1>10. buf[3] = elf.entry
    BY <1>8 DEF LlfOf
  <1>11. QED BY <1>8, <1>9, <1>10, LoadIs

-----------------------------------------------------------------------------
(* The directory.                                                          *)

Mounted == g_blobs = Table(files) /\ g_names = AllNames(files)

\* The first cells of a name.
LEMMA NameIs ==
    ASSUME NEW n \in Nat, Parts(files, n), Mounted, NEW i \in 1 .. n,
           NEW k \in Nat, k <= Len(files[i].name)
    PROVE  NameAt(Table(files)[i], k) = SubSeq(files[i].name, 1, k)
  <1>1. PICK w \in Seq(Int) : w = files[i].name
    BY DEF Parts
  <1>2. PICK z \in Nat : z = Len(w) /\ k <= z
    BY <1>1, LenProperties
  <1>3. PICK N : N = AllNames(files)
    OBVIOUS
  <1>4. PICK o \in Nat : o = Table(files)[i].name_offset /\ \A j \in 1 .. z : N[o + j] = w[j]
    <2>1. NamesOK(files, n)
      BY NamesAre
    <2>2. /\ Table(files)[i].name_offset \in Nat /\ Table(files)[i].name_size = Len(files[i].name)
          /\ \A j \in 1 .. Table(files)[i].name_size :
                AllNames(files)[Table(files)[i].name_offset + j] = files[i].name[j]
      BY <2>1, Zenon DEF NamesOK
    <2>3. PICK o \in Nat : o = Table(files)[i].name_offset
      BY <2>2
    <2>4. Table(files)[i].name_size = z
      BY <1>1, <1>2, <2>2
    <2>5. \A j \in 1 .. z : N[o + j] = w[j]
      BY <1>1, <1>3, <2>2, <2>3, <2>4
    <2>6. QED BY <2>3, <2>5
  <1>5. \A j \in 1 .. z : w[j] \in Int
    BY <1>2, ElementOfSeq
  <1>6. PICK t : t = SubSeq(N, o + 1, o + k)
    OBVIOUS
  <1>7. \A j \in o + 1 .. o + k : N[j] \in Int
    <2>1. ASSUME NEW j \in o + 1 .. o + k PROVE N[j] \in Int
      <3>1. PICK d \in 1 .. z : j = o + d
        <4>1. j - o \in 1 .. z /\ j = o + (j - o)
          BY <1>2
        <4>2. QED BY <4>1
      <3>2. QED BY <1>4, <1>5, <3>1
    <2>2. QED BY <2>1
  <1>8. /\ t \in Seq(Int) /\ Len(t) = (IF o + 1 <= o + k THEN (o + k) - (o + 1) + 1 ELSE 0)
        /\ \A j \in 1 .. (o + k) - (o + 1) + 1 : t[j] = N[(o + 1) + j - 1]
    BY <1>6, <1>7, SubSeqProperties
  <1>9. Len(t) = k
    BY <1>8
  <1>10. ASSUME NEW j \in 1 .. k PROVE t[j] = w[j]
    <2>1. j \in 1 .. (o + k) - (o + 1) + 1 /\ (o + 1) + j - 1 = o + j /\ j \in 1 .. z
      BY <1>2
    <2>2. t[j] = N[(o + 1) + j - 1]
      BY <1>8, <2>1
    <2>3. QED BY <1>4, <2>1, <2>2
  <1>11. PICK u : u = SubSeq(w, 1, k)
    OBVIOUS
  <1>12. /\ u \in Seq(Int) /\ Len(u) = (IF 1 <= k THEN k - 1 + 1 ELSE 0)
         /\ \A j \in 1 .. k - 1 + 1 : u[j] = w[1 + j - 1]
    <2>1. \A j \in 1 .. k : w[j] \in Int
      BY <1>2, <1>5
    <2>2. QED BY <1>11, <2>1, SubSeqProperties
  <1>13. Len(u) = k
    BY <1>12
  <1>14. ASSUME NEW j \in 1 .. k PROVE u[j] = w[j]
    <2>1. j \in 1 .. k - 1 + 1 /\ 1 + j - 1 = j
      OBVIOUS
    <2>2. u[j] = w[1 + j - 1]
      BY <1>12, <2>1
    <2>3. QED BY <2>1, <2>2
  <1>15. t = u
    BY <1>8, <1>9, <1>10, <1>12, <1>13, <1>14, SeqEqual
  <1>16. NameAt(Table(files)[i], k) = t
    BY <1>3, <1>4, <1>6 DEF NameAt, Mounted
  <1>17. QED BY <1>1, <1>11, <1>15, <1>16

\* A whole one.
LEMMA WholeName ==
    ASSUME NEW n \in Nat, Parts(files, n), Mounted, NEW i \in 1 .. n
    PROVE  NameAt(Table(files)[i], Len(files[i].name)) = files[i].name
  <1>1. PICK w \in Seq(Int) : w = files[i].name
    BY DEF Parts
  <1>2. Len(w) \in Nat /\ Len(w) <= Len(w)
    BY LenProperties
  <1>3. NameAt(Table(files)[i], Len(w)) = SubSeq(w, 1, Len(w))
    BY <1>1, <1>2, NameIs
  <1>4. SubSeq(w, 1, Len(w)) = w
    BY SubSeqFull
  <1>5. QED BY <1>1, <1>3, <1>4

\* fs_find.
LEMMA FindIs ==
    ASSUME NEW n \in Nat, Parts(files, n), Mounted, NEW w \in Seq(Int)
    PROVE  fs_find(w) = FileOf(w)
  <1>1. PICK t : t = Table(files)
    OBVIOUS
  <1>2. DOMAIN t = 1 .. n /\ DOMAIN files = 1 .. n /\ g_blobs = t
    BY <1>1 DEF Parts, Table, Mounted
  <1>3. ASSUME NEW i \in 1 .. n
        PROVE  (t[i].name_size = Len(w) /\ NameAt(t[i], Len(w)) = w) <=> files[i].name = w
    <2>1. t[i].name_size = Len(files[i].name)
      BY <1>1 DEF Parts, Table
    <2>2. NameAt(t[i], Len(files[i].name)) = files[i].name
      BY <1>1, WholeName
    <2>3. QED BY <2>1, <2>2
  <1>4. PICK hits : hits = {i \in 1 .. n : t[i].name_size = Len(w) /\ NameAt(t[i], Len(w)) = w}
    OBVIOUS
  <1>5. hits = {i \in 1 .. n : files[i].name = w}
    BY <1>3, <1>4
  <1>6. fs_find(w) = IF hits = {} THEN 0 ELSE CHOOSE i \in hits : \A j \in hits : i <= j
    <2> DEFINE S == {i \in DOMAIN g_blobs :
                        /\ g_blobs[i].name_size = Len(w)
                        /\ NameAt(g_blobs[i], Len(w)) = w}
    <2>1. S = hits
      BY <1>2, <1>4
    <2>2. fs_find(w) = IF S = {} THEN 0 ELSE CHOOSE i \in S : \A j \in S : i <= j
      BY DEF fs_find
    <2> HIDE DEF S
    <2>3. QED BY <2>1, <2>2
  <1>7. FileOf(w) = IF hits = {} THEN 0 ELSE CHOOSE i \in hits : \A j \in hits : i <= j
    <2> DEFINE S == {i \in DOMAIN files : files[i].name = w}
    <2>1. S = hits
      BY <1>2, <1>5
    <2>2. FileOf(w) = IF S = {} THEN 0 ELSE CHOOSE i \in S : \A j \in S : i <= j
      BY DEF FileOf
    <2> HIDE DEF S
    <2>3. QED BY <2>1, <2>2
  <1>8. QED BY <1>6, <1>7

LEMMA FileOfIs ==
    ASSUME NEW n \in Nat, Parts(files, n), NEW w, FileOf(w) # 0
    PROVE  FileOf(w) \in 1 .. n
  <1>1. DOMAIN files = 1 .. n
    BY DEF Parts
  <1>2. PICK hits : hits = {i \in 1 .. n : files[i].name = w}
    OBVIOUS
  <1>3. FileOf(w) = IF hits = {} THEN 0 ELSE CHOOSE i \in hits : \A j \in hits : i <= j
    <2> DEFINE S == {i \in DOMAIN files : files[i].name = w}
    <2>1. S = hits
      BY <1>1, <1>2
    <2>2. FileOf(w) = IF S = {} THEN 0 ELSE CHOOSE i \in S : \A j \in S : i <= j
      BY DEF FileOf
    <2> HIDE DEF S
    <2>3. QED BY <2>1, <2>2
  <1>4. hits # {} /\ hits \in SUBSET Nat
    BY <1>2, <1>3
  <1>5. \E i \in hits : \A j \in hits : i <= j
    BY <1>4, LeastNatural
  <1>6. FileOf(w) \in hits
    BY <1>3, <1>4, <1>5, Zenon
  <1>7. QED BY <1>2, <1>6

\* svc_fs_blob_info.
LEMMA InfoIs ==
    ASSUME NEW n \in Nat, Parts(files, n), Mounted, NEW i \in 1 .. n
    PROVE  /\ svc_fs_blob_info(i - 1).name = SubSeq(files[i].name, 1, svc_fs_blob_info(i - 1).size)
           /\ svc_fs_blob_info(i - 1).flags = files[i].flags
           /\ svc_fs_blob_info(i - 1).name \in Seq(Int)
  <1>1. PICK t : t = Table(files)[i]
    OBVIOUS
  <1>2. PICK w \in Seq(Int) : w = files[i].name
    BY DEF Parts
  <1>3. t.name_size = Len(w) /\ t.flags = files[i].flags
    BY <1>1, <1>2 DEF Parts, Table
  <1>4. PICK z \in Nat : z = Len(w)
    BY LenProperties
  <1>5. PICK c \in Nat : c = (IF NAME_BUF - 1 < z THEN NAME_BUF - 1 ELSE z) /\ c <= z
    BY <1>4, FilesConstants
  <1>6. svc_fs_blob_info(i - 1) = [name |-> NameAt(t, c), size |-> c, flags |-> t.flags]
    <2>1. g_blobs[(i - 1) + 1] = t
      BY <1>1 DEF Mounted
    <2>2. QED BY <1>3, <1>4, <1>5, <2>1 DEF svc_fs_blob_info
  <1>7. NameAt(t, c) = SubSeq(w, 1, c)
    BY <1>1, <1>2, <1>4, <1>5, NameIs
  <1>8. SubSeq(w, 1, c) \in Seq(Int)
    <2>1. \A j \in 1 .. c : w[j] \in Int
      BY <1>4, <1>5, ElementOfSeq
    <2>2. QED BY <2>1, SubSeqProperties
  <1>9. PICK info : info = svc_fs_blob_info(i - 1)
    OBVIOUS
  <1>10. info.name = SubSeq(w, 1, c) /\ info.size = c /\ info.flags = t.flags
    BY <1>6, <1>7, <1>9
  <1>11. QED BY <1>2, <1>3, <1>8, <1>9, <1>10

-----------------------------------------------------------------------------
(* What was asked for at each place, and what it is to hold.               *)

\* FileOf of any files.
FirstNamed(fl, w) ==
    LET hits == {i \in DOMAIN fl : fl[i].name = w}
    IN  IF hits = {} THEN 0 ELSE CHOOSE i \in hits : \A j \in hits : i <= j

\* A program is what its file says, unless programs have written over that.
Meant(p, fl, wr) ==
    wr \cap Extent(Table(fl)[FirstNamed(fl, p.name)]) = {} =>
        LET elf == fl[FirstNamed(fl, p.name)].elf[1]
        IN  p.entry = elf.entry /\ \A va \in VAs : p.memory[va] = ElfCell(elf, va)

\* Nothing is loaded before the mount.
Shown(p) == p # NoProg => Mounted /\ p.name \in Seq(Int) /\ Meant(p, files, written)

\* A frame; the child of a search has found a file.
FrameOK(f, n) ==
    \E kind, at, word, i, name :
       f = Frame(kind, at, word, i, name) /\ i \in Nat /\ (at = "exec" => i < n)

FramesOK == \A k \in 1 .. Len(procs) : FrameOK(procs[k], Len(files))

\* The disk holds what mkfs.py wrote, but for what programs have written since.
HeldInv == files \in FileLists /\ HoldsImage /\ written \subseteq Nat

\* The buffer of a request that succeeded holds its sectors.
DataInv ==
    /\ DOMAIN bufs = {"hdr", "desc", "name", "blob", "user"}
    /\ req.type \in {"in", "out"} \/ (req.type = "none" /\ req.buf = "none")
    /\ req.status = 0 /\ req.type = "in" /\ req.buf \notin {"user", "ram"} =>
          Reads(bufs[req.buf], req.sector, req.count)
    /\ req.type = "out" => req.sector \in Nat /\ req.count \in Nat

Asked(sector, count, buf) ==
    req.type = "in" /\ req.sector = sector /\ req.count = count /\ req.buf = buf

\* The program the kernel waits for.
BlobAsked ==
    /\ FirstNamed(files, Top.name) # 0 /\ Top.name \in Seq(Int)
    /\ LET b == Table(files)[FirstNamed(files, Top.name)]
       IN  Asked(b.offset \div SECTOR, Sectors(b.size), "blob")

AskedInv ==
    /\ At \in {"boot", "mount", "header", "descs", "names"} => written = {} /\ prog = NoProg
    /\ At = "header" => Asked(0, 1, "hdr") /\ g_names = <<>>
    /\ At = "descs" => Asked(0, Sectors(DescEnd(Len(files))), "desc")
    /\ At = "names" => Asked(0, Sectors(DescEnd(Len(files)) + Len(AllNames(files))), "name")
    /\ At \in {"descs", "names", "mounted", "load", "user"} => g_blob_count = Len(files)
    /\ At = "names" => g_blobs = Table(files)
    /\ At \in {"mounted", "load", "user"} => Mounted
    /\ At = "load" => BlobAsked

ImageInv == HeldInv /\ DataInv /\ FramesOK /\ AskedInv /\ Shown(prog)

LEMMA FileOfFirst == \A w : FileOf(w) = FirstNamed(files, w)
  BY DEF FileOf, FirstNamed

LEMMA ShownLoaded == HeldInv /\ Shown(prog) => LoadedExact
  <1> SUFFICES ASSUME HeldInv, Shown(prog), prog # NoProg,
                      written \cap Extent(g_blobs[fs_find(prog.name)]) = {},
                      NEW elf, elf = files[FileOf(prog.name)].elf[1]
               PROVE  prog.entry = elf.entry /\ \A va \in VAs : prog.memory[va] = ElfCell(elf, va)
    BY Zenon DEF LoadedExact
  <1>1. elf = files[FirstNamed(files, prog.name)].elf[1]
    BY FileOfFirst
  <1>2. Mounted /\ prog.name \in Seq(Int) /\ Meant(prog, files, written)
    BY DEF Shown
  <1>3. PICK n \in Nat : Parts(files, n)
    BY PartsOK DEF HeldInv
  <1>4. fs_find(prog.name) = FirstNamed(files, prog.name)
    BY <1>2, <1>3, FindIs, FileOfFirst
  <1>5. written \cap Extent(Table(files)[FirstNamed(files, prog.name)]) = {}
    BY <1>2, <1>4 DEF Mounted
  <1>6. QED BY <1>1, <1>2, <1>5, Zenon DEF Meant

\* A step that leaves the program, the directory and the files alone.
LEMMA ShownKept ==
    ASSUME Shown(prog'), UNCHANGED <<files, g_blobs, g_names, written>>
    PROVE  Shown(prog)'
  BY DEF Shown, Mounted

\* A step of which the disk is no part.
LEMMA DataKept ==
    ASSUME HeldInv, DataInv, UNCHANGED <<files, disk, written, req, bufs>>
    PROVE  HeldInv' /\ DataInv'
  BY DEF HeldInv, DataInv, HoldsImage, Kept, Reads

\* A request.
LEMMA DataAsked ==
    ASSUME HeldInv, DataInv, UNCHANGED files,
           NEW type, NEW sector, NEW count, NEW buf, NEW next, do_request(type, sector, count, buf, next),
           type \in {"in", "out"}, type = "out" => sector \in Nat /\ count \in Nat
    PROVE  /\ HeldInv' /\ DataInv' /\ UNCHANGED written
           /\ \/ At' = "fault"
              \/ /\ At' = next
                 /\ req' = [type |-> type, sector |-> sector, count |-> count, buf |-> buf, status |-> 255]
  <1>1. UNCHANGED <<disk, written, bufs>>
    BY DEF do_request
  <1>2. CASE g_blk_base = 0
    <2>1. pc' = "fault" /\ req' = req
      BY <1>2 DEF do_request
    <2>2. QED BY <1>1, <2>1, DataKept DEF At
  <1>3. CASE g_blk_base # 0
    <2>1. /\ req' = [type |-> type, sector |-> sector, count |-> count, buf |-> buf, status |-> 255]
          /\ ret' = next /\ pc' = "poll"
      BY <1>3 DEF do_request
    <2>2. At' = next
      BY <2>1 DEF At
    <2>3. HeldInv'
      BY <1>1 DEF HeldInv, HoldsImage, Kept
    <2>4. req'.status = 255 /\ req'.type = type /\ req'.sector = sector /\ req'.count = count
      BY <2>1
    <2>5. DataInv'
      BY <1>1, <2>4 DEF DataInv
    <2>6. QED BY <1>1, <2>1, <2>2, <2>3, <2>5
  <1>4. QED BY <1>2, <1>3

\* The frames of the next chain are frames of this one, or new.
From(s, new) == \A k \in 1 .. Len(s) : s[k] \in new \/ \E j \in 1 .. Len(procs) : s[k] = procs[j]

LEMMA FramesFrom ==
    ASSUME FramesOK, UNCHANGED files, NEW new, From(procs', new),
           \A f \in new : FrameOK(f, Len(files))
    PROVE  FramesOK'
  <1>1. ASSUME NEW k \in 1 .. Len(procs') PROVE FrameOK(procs'[k], Len(files))
    BY DEF From, FramesOK
  <1>2. QED BY <1>1 DEF FramesOK

LEMMA BelowFrom ==
    ASSUME Listed(procs), Len(procs) >= 1, NEW f, NEW g
    PROVE  /\ From(Below, {}) /\ From(Append(Below, f), {f})
           /\ From(Below \o <<f, g>>, {f, g})
           /\ Len(procs) >= 2 => From(Append(SubSeq(procs, 1, Len(procs) - 2), f), {f})
  <1>1. PICK n \in Nat : n = Len(procs) /\ n >= 1
    BY LenProperties DEF Listed
  <1>2. PICK b : b = Below /\ Listed(b) /\ Len(b) = n - 1 /\ \A k \in 1 .. n - 1 : b[k] = procs[k]
    BY <1>1, TopReplaced
  <1>3. \A k \in 1 .. n - 1 : k \in 1 .. n
    BY <1>1
  <1>4. From(b, {})
    BY <1>1, <1>2, <1>3 DEF From
  <1>5. From(Append(b, f), {f})
    <2>1. PICK s : s = Append(b, f) /\ Len(s) = n /\ s[n] = f /\ \A k \in 1 .. n - 1 : s[k] = procs[k]
      <3>1. /\ Len(Append(Below, f)) = Len(procs) /\ Append(Below, f)[Len(procs)] = f
            /\ \A k \in 1 .. Len(procs) - 1 : Append(Below, f)[k] = procs[k]
        BY TopReplaced
      <3>2. PICK s : s = Append(b, f)
        OBVIOUS
      <3>3. QED BY <1>1, <1>2, <3>1, <3>2
    <2>2. \A k \in 1 .. n : k = n \/ k \in 1 .. n - 1
      BY <1>1
    <2>3. QED BY <1>1, <1>3, <2>1, <2>2 DEF From
  <1>6. From(b \o <<f, g>>, {f, g})
    <2>1. PICK S : S = Range(b) \cup {f, g}
      OBVIOUS
    <2>2. b \in Seq(S)
      <3>1. Range(b) \subseteq S
        BY <2>1
      <3>2. QED BY <1>2, <3>1, SeqMonotonic DEF Listed, Range
    <2>3. PICK e : e = <<f, g>>
      OBVIOUS
    <2>4. e \in Seq(S) /\ Len(e) = 2 /\ e[1] = f /\ e[2] = g
      BY <2>1, <2>3
    <2>5. PICK s : s = b \o e
      OBVIOUS
    <2>6. /\ Len(s) = n - 1 + 2
          /\ \A k \in 1 .. n - 1 : s[k] = b[k]
          /\ \A k \in 1 .. 2 : s[n - 1 + k] = e[k]
      <3>1. /\ Len(b \o e) = Len(b) + Len(e)
            /\ \A k \in 1 .. Len(b) : (b \o e)[k] = b[k]
            /\ \A k \in 1 .. Len(e) : (b \o e)[Len(b) + k] = e[k]
        BY <2>2, <2>4, TwoParts, SMTT(30)
      <3>2. QED BY <1>2, <2>4, <2>5, <3>1
    <2>7. ASSUME NEW k \in 1 .. Len(s) PROVE s[k] \in {f, g} \/ \E j \in 1 .. n : s[k] = procs[j]
      <3>1. CASE k <= n - 1
        <4>1. k \in 1 .. n - 1 /\ k \in 1 .. n
          BY <1>1, <2>6, <3>1
        <4>2. QED BY <1>2, <2>6, <4>1
      <3>2. CASE ~ k <= n - 1
        <4>1. PICK j \in 1 .. 2 : k = n - 1 + j
          <5>1. k - (n - 1) \in 1 .. 2 /\ k = n - 1 + (k - (n - 1))
            BY <1>1, <2>6, <3>2
          <5>2. QED BY <5>1
        <4>2. s[k] = e[j] /\ (j = 1 \/ j = 2)
          BY <2>6, <4>1
        <4>3. QED BY <2>4, <4>2
      <3>3. QED BY <3>1, <3>2
    <2>8. QED BY <1>1, <2>3, <2>5, <2>7 DEF From
  <1>7. Len(procs) >= 2 => From(Append(SubSeq(procs, 1, Len(procs) - 2), f), {f})
    <2>1. SUFFICES ASSUME n >= 2 PROVE From(Append(SubSeq(procs, 1, n - 2), f), {f})
      BY <1>1
    <2>2. n - 2 \in Nat /\ n - 2 <= n
      BY <2>1
    <2>3. PICK s : s = SubSeq(procs, 1, n - 2) /\ Listed(s) /\ Len(s) = n - 2
                   /\ \A k \in 1 .. n - 2 : s[k] = procs[k]
      <3>1. /\ Listed(SubSeq(procs, 1, n - 2)) /\ Len(SubSeq(procs, 1, n - 2)) = n - 2
            /\ \A k \in 1 .. n - 2 : SubSeq(procs, 1, n - 2)[k] = procs[k]
        BY <1>1, <2>2, PrefixListed
      <3>2. QED BY <3>1
    <2>4. PICK t : t = Append(s, f) /\ Len(t) = n - 1 /\ (\A k \in 1 .. n - 2 : t[k] = s[k]) /\ t[n - 1] = f
      <3>1. n - 2 + 1 = n - 1
        BY <2>2
      <3>2. /\ Len(Append(s, f)) = Len(s) + 1 /\ Append(s, f)[Len(s) + 1] = f
            /\ \A k \in 1 .. Len(s) : Append(s, f)[k] = s[k]
        BY <2>3, AppendListed
      <3>3. PICK t : t = Append(s, f)
        OBVIOUS
      <3>4. QED BY <2>3, <3>1, <3>2, <3>3
    <2>5. \A k \in 1 .. n - 1 : k = n - 1 \/ (k \in 1 .. n - 2 /\ k \in 1 .. n)
      BY <2>2
    <2>6. QED BY <1>1, <2>3, <2>4, <2>5 DEF From
  <1>8. QED BY <1>2, <1>4, <1>5, <1>6, <1>7

\* A frame the code makes.
LEMMA FrameMade ==
    ASSUME NEW n \in Nat
    PROVE  /\ \A kind : FrameOK(Simple(kind), n)
           /\ \A at, word : \A i \in Nat : at # "exec" \/ i < n => FrameOK(Hash(at, word, i), n)
           /\ \A f, name : FrameOK(f, n) => FrameOK([f EXCEPT !.name = name], n)
                                            /\ [f EXCEPT !.name = name].name = name
           /\ \A f : FrameOK(f, n) => f.i \in Nat /\ (f.at = "exec" => f.i < n)
  <1>1. ASSUME NEW kind, NEW at, NEW word, NEW i \in Nat, NEW name, at # "exec" \/ i < n
        PROVE  FrameOK(Frame(kind, at, word, i, name), n)
    BY <1>1 DEF FrameOK
  <1>2. ASSUME NEW kind PROVE FrameOK(Simple(kind), n)
    BY <1>1 DEF Simple
  <1>3. ASSUME NEW at, NEW word, NEW i \in Nat, at # "exec" \/ i < n PROVE FrameOK(Hash(at, word, i), n)
    BY <1>1, <1>3 DEF Hash
  <1>4. ASSUME NEW f, NEW name, FrameOK(f, n)
        PROVE  /\ FrameOK([f EXCEPT !.name = name], n) /\ [f EXCEPT !.name = name].name = name
               /\ f.i \in Nat /\ (f.at = "exec" => f.i < n)
    <2>1. PICK kind, at, word, i, old :
             f = Frame(kind, at, word, i, old) /\ i \in Nat /\ (at = "exec" => i < n)
      BY <1>4 DEF FrameOK
    <2>2. f = [kind |-> kind, at |-> at, word |-> word, i |-> i, name |-> old]
      BY <2>1 DEF Frame
    <2>3. f.i = i /\ f.at = at
      BY <2>2
    <2>4. [f EXCEPT !.name = name] = [kind |-> kind, at |-> at, word |-> word, i |-> i, name |-> name]
      BY <2>2
    <2>5. [f EXCEPT !.name = name] = Frame(kind, at, word, i, name)
      BY <2>4 DEF Frame
    <2>6. FrameOK([f EXCEPT !.name = name], n)
      BY <1>1, <2>1, <2>5
    <2>7. [f EXCEPT !.name = name].name = name
      BY <2>4
    <2>8. QED BY <2>1, <2>3, <2>6, <2>7
  <1>5. QED BY <1>2, <1>3, <1>4

-----------------------------------------------------------------------------
(* The steps.                                                              *)

\* The answer to a request that succeeded.
LEMMA Answered ==
    ASSUME DataInv, Ok, NEW sector, NEW count, NEW buf, Asked(sector, count, buf),
           buf \notin {"user", "ram"}
    PROVE  Reads(bufs[buf], sector, count)
  BY DEF DataInv, Ok, Asked

\* The mount, as far as the directory goes.
LEMMA MountImage ==
    ASSUME FilesInv, ImageInv, blk_init \/ fs_mount \/ ReadHeader \/ ReadDescs \/ ReadNames
    PROVE  ImageInv'
  <1> USE DEF ImageInv
  <1>0. written = {} /\ prog = NoProg
    <2>1. At \in {"boot", "mount", "header", "descs", "names"}
      BY DEF blk_init, fs_mount, ReadHeader, ReadDescs, ReadNames, At
    <2>2. QED BY <2>1 DEF AskedInv
  <1>1. UNCHANGED <<files, procs, prog>> /\ written' = {} /\ prog' = NoProg
    BY <1>0 DEF blk_init, fs_mount, ReadHeader, ReadDescs, ReadNames, do_request, MountFails, ioVars
  <1>2. FramesOK' /\ Shown(prog)'
    BY <1>1 DEF FramesOK, Shown
  <1>3. PICK n \in Nat : Parts(files, n)
    BY PartsOK DEF HeldInv
  <1>4. n = Len(files) /\ n = Len(files')
    BY <1>1, <1>3 DEF Parts
  <1>5. DiskInv /\ HoldsImage
    BY DEF FilesInv, HeldInv
  <1>6. ASSUME MountFails PROVE ImageInv'
    <2>1. pc' = "halt" /\ UNCHANGED ioVars
      BY <1>6 DEF MountFails
    <2>2. HeldInv' /\ DataInv'
      BY <1>1, <2>1, DataKept DEF ioVars
    <2>3. At' = "halt"
      BY <2>1 DEF At
    <2>4. AskedInv'
      BY <2>3 DEF AskedInv
    <2>5. QED BY <1>2, <2>2, <2>4
  <1>7. CASE blk_init
    <2>1. UNCHANGED <<disk, written, req, bufs>> /\ pc' = "mount"
      BY <1>7 DEF blk_init
    <2>2. HeldInv' /\ DataInv' /\ At' = "mount"
      BY <1>1, <2>1, DataKept DEF At
    <2>3. AskedInv'
      BY <1>1, <2>2 DEF AskedInv
    <2>4. QED BY <1>2, <2>2, <2>3
  <1>8. CASE fs_mount
    <2>1. g_names' = <<>> /\ do_request("in", 0, 1, "hdr", "header")
      BY <1>8 DEF fs_mount
    <2>2. /\ HeldInv' /\ DataInv'
          /\ \/ At' = "fault"
             \/ /\ At' = "header"
                /\ req' = [type |-> "in", sector |-> 0, count |-> 1, buf |-> "hdr", status |-> 255]
      BY <1>1, <2>1, DataAsked
    <2>3. AskedInv'
      BY <1>1, <2>1, <2>2 DEF AskedInv, Asked
    <2>4. QED BY <1>2, <2>2, <2>3
  <1>9. CASE ReadHeader
    <2>1. pc = "header" /\ At = "header" /\ UNCHANGED <<g_blobs, g_names>>
      BY <1>9 DEF ReadHeader, At
    <2>2. Asked(0, 1, "hdr") /\ g_names = <<>> /\ g_blobs = <<>>
      BY <2>1 DEF AskedInv, FilesInv, HeapInv
    <2>3. PICK hdr : hdr = bufs["hdr"]
      OBVIOUS
    <2>4. ASSUME Ok PROVE hdr[1] = FS_MAGIC /\ hdr[2] = n
      <3>1. Reads(hdr, 0, 1)
        BY <2>2, <2>3, <2>4, Answered
      <3>2. QED BY <1>3, <1>5, <1>0, <3>1, HeaderRead
    <2>5. CASE Ok /\ n = 0 /\ g_blob_count' = n /\ pc' = "mounted" /\ UNCHANGED ioVars
      <3>1. HeldInv' /\ DataInv'
        BY <1>1, <2>5, DataKept DEF ioVars
      <3>2. At' = "mounted"
        BY <2>5 DEF At
      <3>3. Table(files) = <<>>
        BY <1>4, <2>5 DEF Table
      <3>4. AllNames(files) = <<>>
        <4>1. AllNames(files) \in Seq(Int) /\ Len(AllNames(files)) = 0
          BY <1>3, <2>5, NamesAre DEF NamesOK
        <4>2. QED BY <4>1, EmptySeq
      <3>5. Mounted'
        BY <1>1, <2>1, <2>2, <3>3, <3>4 DEF Mounted
      <3>6. AskedInv'
        BY <1>4, <2>5, <3>2, <3>5 DEF AskedInv
      <3>7. QED BY <1>2, <3>1, <3>6
    <2>6. CASE g_blob_count' = n /\ do_request("in", 0, Sectors(DescEnd(n)), "desc", "descs")
      <3>1. /\ HeldInv' /\ DataInv'
            /\ \/ At' = "fault"
               \/ /\ At' = "descs"
                  /\ req' = [type |-> "in", sector |-> 0, count |-> Sectors(DescEnd(n)), buf |-> "desc",
                             status |-> 255]
        BY <1>1, <2>6, DataAsked
      <3>2. AskedInv'
        BY <1>1, <1>4, <2>6, <3>1 DEF AskedInv, Asked
      <3>3. QED BY <1>2, <3>1, <3>2
    <2>7. CASE ~ (~ Ok \/ hdr[1] # FS_MAGIC)
      <3>1. hdr[2] = n /\ Ok
        BY <2>4, <2>7
      <3>2. /\ g_blob_count' = hdr[2]
            /\ IF hdr[2] = 0 THEN pc' = "mounted" /\ UNCHANGED <<ioVars, heap>>
               ELSE \/ MountFails /\ UNCHANGED heap
                    \/ do_request("in", 0, Sectors(DescEnd(hdr[2])), "desc", "descs")
        BY <1>9, <2>3, <2>7 DEF ReadHeader
      <3>3. QED BY <1>6, <2>5, <2>6, <3>1, <3>2
    <2>8. CASE ~ Ok \/ hdr[1] # FS_MAGIC
      <3>1. MountFails
        BY <1>9, <2>3, <2>8 DEF ReadHeader
      <3>2. QED BY <1>6, <3>1
    <2>9. QED BY <2>7, <2>8
  <1>10. CASE ReadDescs
    <2>1. pc = "descs" /\ At = "descs" /\ UNCHANGED g_blob_count
      BY <1>10 DEF ReadDescs, At
    <2>2. Asked(0, Sectors(DescEnd(n)), "desc") /\ g_blob_count = n
      BY <1>4, <2>1 DEF AskedInv
    <2>3. ASSUME Ok, g_blobs' = Descriptors(bufs["desc"]) PROVE g_blobs' = Table(files)
      <3>1. Reads(bufs["desc"], 0, Sectors(DescEnd(n)))
        BY <2>2, <2>3, Answered
      <3>2. QED BY <1>3, <1>5, <2>2, <2>3, <1>0, <3>1, DescsRead
    <2>4. CASE /\ g_blobs' = Table(files)
               /\ do_request("in", 0, Sectors(DescEnd(g_blob_count) + NamesSize(g_blobs')), "name", "names")
      <3>1. PICK c : c = Sectors(DescEnd(n) + Len(AllNames(files)))
        OBVIOUS
      <3>2. do_request("in", 0, c, "name", "names")
        BY <1>3, <2>2, <2>4, <3>1, NamesSizeIs
      <3>3. /\ HeldInv' /\ DataInv'
            /\ \/ At' = "fault"
               \/ /\ At' = "names"
                  /\ req' = [type |-> "in", sector |-> 0, count |-> c, buf |-> "name", status |-> 255]
        BY <1>1, <3>2, DataAsked
      <3>4. AskedInv'
        BY <1>1, <1>4, <2>1, <2>2, <2>4, <3>1, <3>3 DEF AskedInv, Asked
      <3>5. QED BY <1>2, <3>3, <3>4
    <2>5. \/ MountFails
          \/ /\ Ok /\ g_blobs' = Descriptors(bufs["desc"])
             /\ do_request("in", 0, Sectors(DescEnd(g_blob_count) + NamesSize(g_blobs')), "name", "names")
      BY <1>10 DEF ReadDescs
    <2>6. QED BY <1>6, <2>3, <2>4, <2>5
  <1>11. CASE ReadNames
    <2>1. pc = "names" /\ At = "names" /\ UNCHANGED <<ioVars, g_blob_count, g_blobs>>
      BY <1>11 DEF ReadNames, At
    <2>2. HeldInv' /\ DataInv'
      BY <1>1, <2>1, DataKept DEF ioVars
    <2>3. Asked(0, Sectors(DescEnd(n) + Len(AllNames(files))), "name") /\ g_blob_count = n
          /\ g_blobs = Table(files)
      BY <1>4, <2>1 DEF AskedInv
    <2>4. CASE pc' = "halt"
      <3>1. At' = "halt"
        BY <2>4 DEF At
      <3>2. QED BY <1>2, <2>2, <3>1 DEF AskedInv
    <2>5. CASE /\ Ok /\ pc' = "mounted"
               /\ g_names' = SubSeq(bufs["name"], DescEnd(g_blob_count) + 1,
                                    DescEnd(g_blob_count) + NamesSize(g_blobs))
      <3>1. Reads(bufs["name"], 0, Sectors(DescEnd(n) + Len(AllNames(files))))
        BY <2>3, <2>5, Answered
      <3>2. SubSeq(bufs["name"], DescEnd(n) + 1, DescEnd(n) + Len(AllNames(files))) = AllNames(files)
        BY <1>3, <1>5, <1>0, <3>1, NamesRead
      <3>3. NamesSize(g_blobs) = Len(AllNames(files))
        BY <1>3, <2>3, NamesSizeIs
      <3>4. g_names' = AllNames(files)
        BY <2>3, <2>5, <3>2, <3>3
      <3>5. At' = "mounted" /\ Mounted'
        BY <1>1, <2>1, <2>3, <2>5, <3>4 DEF At, Mounted
      <3>6. AskedInv'
        BY <1>4, <2>1, <2>3, <3>5 DEF AskedInv
      <3>7. QED BY <1>2, <2>2, <3>6
    <2>6. QED BY <1>11, <2>4, <2>5 DEF ReadNames
  <1>12. QED BY <1>7, <1>8, <1>9, <1>10, <1>11

\* What a program writes: the cells of its sectors count as written to.
LEMMA WrittenOver ==
    ASSUME HeldInv, DiskInv, UNCHANGED files, NEW first \in Nat, NEW n \in Nat,
           disk' = [k \in DOMAIN disk |->
                      IF k \in first * SECTOR + 1 .. (first + n) * SECTOR THEN 99 ELSE disk[k]],
           written' = written \cup (first .. first + n - 1)
    PROVE  HeldInv'
  <1>1. PICK S \in Nat \ {0} : S = SECTOR
    BY FilesConstants DEF FS_HEADER
  <1>2. PICK l \in Nat : l = Len(build_fs(files)) /\ l <= Len(disk) /\ DOMAIN disk = 1 .. Len(disk)
    <2>1. PICK m \in Nat : Parts(files, m)
      BY PartsOK DEF HeldInv
    <2>2. Len(build_fs(files)) \in Nat
      BY <2>1, ImageIs DEF Pictured
    <2>3. Len(build_fs(files)) <= Capacity * SECTOR
      BY FilesConstants DEF HeldInv
    <2>4. QED BY <2>2, <2>3, LenProperties DEF DiskInv
  <1>3. PICK lo \in Nat, hi \in Nat : lo = first * S /\ hi = (first + n) * S
    BY <1>1
  <1>4. ASSUME NEW k \in 1 .. l, Kept(k)' PROVE disk'[k] = build_fs(files)[k]
    <2>1. \A w \in written' : k \notin w * S + 1 .. (w + 1) * S
      BY <1>1, <1>4 DEF Kept
    <2>2. Kept(k)
      BY <1>1, <2>1 DEF Kept
    <2>3. k \notin lo + 1 .. hi
      <3>1. SUFFICES ASSUME k \in lo + 1 .. hi PROVE FALSE
        OBVIOUS
      <3>2. PICK w \in Nat : w * S <= k - 1 /\ k - 1 < w * S + S
        <4>1. k - 1 \in Nat
          OBVIOUS
        <4>2. (k - 1) \div S \in Nat /\ ((k - 1) \div S) * S <= k - 1 /\ k - 1 < ((k - 1) \div S) * S + S
          BY <1>1, <4>1
        <4>3. QED BY <4>2
      <3>3. (w + 1) * S = w * S + S /\ w * S \in Nat
        BY <1>1
      <3>4. k \in w * S + 1 .. (w + 1) * S
        BY <3>2, <3>3
      <3>5. w >= first
        <4>1. w + 1 <= first => (w + 1) * S <= first * S
          BY <1>1, Multiples
        <4>2. QED BY <1>3, <3>1, <3>2, <3>3, <4>1
      <3>6. w < first + n
        <4>1. first + n <= w => (first + n) * S <= w * S
          BY <1>1, Multiples
        <4>2. QED BY <1>3, <3>1, <3>2, <3>3, <4>1
      <3>7. w \in first .. first + n - 1
        BY <3>5, <3>6
      <3>8. QED BY <2>1, <3>4, <3>7
    <2>4. k \in DOMAIN disk
      BY <1>2, LenProperties DEF DiskInv
    <2>5. disk'[k] = disk[k]
      BY <1>1, <1>3, <2>3, <2>4
    <2>6. QED BY <1>2, <2>2, <2>5 DEF HeldInv, HoldsImage
  <1>5. HoldsImage'
    BY <1>2, <1>4 DEF HoldsImage
  <1>6. written' \subseteq Nat
    BY DEF HeldInv
  <1>7. QED BY <1>5, <1>6 DEF HeldInv

\* The device: what it writes to a buffer is what the disk holds there.
LEMMA DeviceImage ==
    ASSUME FilesInv, ImageInv, DeviceServes \/ DevicePublishes \/ PollDone
    PROVE  ImageInv'
  <1> USE DEF ImageInv
  <1>1. UNCHANGED <<files, procs, prog, g_blob_count, g_blobs, g_names, ret>> /\ written \subseteq written'
    BY DEF DeviceServes, DeviceMoves, DevicePublishes, PollDone, fsVars
  <1>2. At' = At \/ At' = "wild"
    BY <1>1 DEF DeviceServes, DeviceMoves, DevicePublishes, PollDone, At
  <1>3. Top' = Top /\ FramesOK' /\ Shown(prog)'
    <2>1. Top' = Top /\ FramesOK'
      BY <1>1 DEF FramesOK, Top
    <2>2. CASE prog = NoProg
      <3>1. prog' = NoProg
        BY <1>1, <2>2
      <3>2. QED BY <2>1, <3>1 DEF Shown
    <2>3. CASE prog # NoProg
      <3>1. Mounted' /\ prog'.name \in Seq(Int)
        BY <1>1, <2>3 DEF Shown, Mounted
      <3>2. Meant(prog, files, written)
        BY <2>3 DEF Shown
      <3>3. PICK e : e = Extent(Table(files)[FirstNamed(files, prog.name)])
        OBVIOUS
      <3>4. written' \cap e = {} => written \cap e = {}
        BY <1>1
      <3>5. Meant(prog, files, written')
        BY <3>2, <3>3, <3>4, Zenon DEF Meant
      <3>6. QED BY <1>1, <2>1, <3>1, <3>5 DEF Shown
    <2>4. QED BY <2>1, <2>2, <2>3
  <1>4. ASSUME req'.type = req.type, req'.sector = req.sector, req'.count = req.count, req'.buf = req.buf,
               UNCHANGED written \/ req.type = "out"
        PROVE  AskedInv'
    <2>1. CASE At' = "wild"
      BY <2>1 DEF AskedInv
    <2>2. CASE At' = At
      <3>1. At \in {"boot", "mount", "header", "descs", "names"} => UNCHANGED written
        <4>1. At \in {"header", "descs", "names"} => req.type = "in"
          BY DEF AskedInv, Asked
        <4>2. At \notin {"boot", "mount"}
          <5>1. pc = "poll" \/ pc = "wild"
            BY DEF DeviceServes, DevicePublishes, PollDone, FilesInv, RingInv
          <5>2. pc = "poll" => ret \in DOMAIN BufOf
            BY DEF FilesInv, RingInv
          <5>3. QED BY <5>1, <5>2 DEF At, BufOf
        <4>3. QED BY <1>4, <4>1, <4>2
      <3>2. At' = At /\ Top' = Top
        BY <1>3, <2>2
      <3>3. QED BY <1>1, <1>4, <3>1, <3>2 DEF AskedInv, Asked, BlobAsked, Mounted
    <2>3. QED BY <1>2, <2>1, <2>2
  <1>5. CASE UNCHANGED <<disk, written, req, bufs>>
    BY <1>1, <1>3, <1>4, <1>5, DataKept
  <1>6. CASE DeviceServes
    <2>1. pc = "poll" /\ ret \in DOMAIN BufOf /\ req.buf \in BufOf[ret]
      BY <1>6 DEF DeviceServes, FilesInv, RingInv
    <2>2. req.buf \in {"hdr", "desc", "name", "blob", "user", "ram"}
      BY <2>1 DEF BufOf
    <2>3. req.type = "out" \/ req.type = "in"
      BY <2>2 DEF DataInv
    <2>4. PICK x \in {0, 1} : req' = [req EXCEPT !.status = x]
      BY <1>6 DEF DeviceServes
    <2>5. req'.type = req.type /\ req'.sector = req.sector /\ req'.count = req.count /\ req'.buf = req.buf
          /\ req'.status = x
      BY <2>4 DEF FilesInv, RingInv
    <2>6. CASE req' = [req EXCEPT !.status = 1] /\ UNCHANGED <<disk, written, bufs>>
      <3>1. req'.status = 1
        BY <2>6 DEF FilesInv, RingInv
      <3>2. HeldInv' /\ DataInv'
        BY <1>1, <2>5, <2>6, <3>1 DEF HeldInv, HoldsImage, Kept, DataInv
      <3>3. AskedInv'
        BY <1>4, <2>5, <2>6
      <3>4. QED BY <1>3, <3>2, <3>3
    <2>7. CASE req.sector + req.count <= Capacity /\ DeviceMoves /\ req.type = "in"
      <3>1. /\ bufs' = IF req.buf \in {"user", "ram"} THEN bufs
                        ELSE [bufs EXCEPT ![req.buf] = SubSeq(disk, req.sector * SECTOR + 1,
                                                              (req.sector + req.count) * SECTOR)]
            /\ UNCHANGED <<disk, written>>
        BY <2>7 DEF DeviceMoves
      <3>2. HeldInv'
        BY <1>1, <3>1 DEF HeldInv, HoldsImage, Kept
      <3>3. DOMAIN bufs' = DOMAIN bufs
        BY <3>1
      <3>4. req.buf \notin {"user", "ram"} => Reads(bufs[req.buf], req.sector, req.count)'
        BY <2>2, <2>5, <2>7, <3>1 DEF Reads, DataInv
      <3>5. DataInv'
        BY <2>5, <2>7, <3>3, <3>4 DEF DataInv
      <3>6. AskedInv'
        BY <1>4, <2>5, <3>1
      <3>7. QED BY <1>3, <3>2, <3>5, <3>6
    <2>8. CASE DeviceMoves /\ req.type = "out"
      <3>1. PICK first \in Nat, n \in Nat : first = req.sector /\ n = req.count
        BY <2>8 DEF DataInv
      <3>2. /\ disk' = [k \in DOMAIN disk |->
                           IF k \in first * SECTOR + 1 .. (first + n) * SECTOR THEN 99 ELSE disk[k]]
            /\ written' = written \cup (first .. first + n - 1) /\ UNCHANGED bufs
        BY <2>8, <3>1 DEF DeviceMoves
      <3>3. HeldInv'
        BY <1>1, <3>2, WrittenOver DEF FilesInv
      <3>4. DataInv'
        BY <2>5, <2>8, <3>2 DEF DataInv
      <3>5. AskedInv'
        BY <1>4, <2>5, <2>8
      <3>6. QED BY <1>3, <3>3, <3>4, <3>5
    <2>9. \/ req.sector + req.count <= Capacity /\ DeviceMoves
          \/ req' = [req EXCEPT !.status = 1] /\ UNCHANGED <<disk, written, bufs>>
      BY <1>6 DEF DeviceServes
    <2>10. QED BY <2>3, <2>6, <2>7, <2>8, <2>9
  <1>7. DevicePublishes \/ PollDone => UNCHANGED <<disk, written, req, bufs>>
    BY DEF DevicePublishes, PollDone
  <1>8. QED BY <1>5, <1>6, <1>7

\* A step behind the mount that leaves disk and directory alone.
LEMMA ImageIdle ==
    ASSUME ImageInv, At \in {"mounted", "load", "user"},
           pc' \in {"user", "halt", "fault", "wild"},
           UNCHANGED <<files, ioVars, fsVars>>, NEW new, From(procs', new),
           \A f \in new : FrameOK(f, Len(files)), Shown(prog')
    PROVE  ImageInv'
  <1>1. UNCHANGED <<disk, written, req, bufs, g_blob_count, g_blobs, g_names>>
    BY DEF ioVars, fsVars
  <1>2. HeldInv' /\ DataInv'
    BY <1>1, DataKept DEF ImageInv
  <1>3. FramesOK'
    BY FramesFrom DEF ImageInv
  <1>4. g_blob_count = Len(files) /\ Mounted
    BY DEF ImageInv, AskedInv
  <1>5. At' \in {"user", "halt", "fault", "wild"}
    BY DEF At
  <1>6. AskedInv'
    BY <1>1, <1>4, <1>5 DEF AskedInv, Mounted
  <1>7. Shown(prog)'
    BY <1>1, ShownKept
  <1>8. QED BY <1>2, <1>3, <1>6, <1>7 DEF ImageInv

\* ... nor the processes, when the kernel's memory is written over or the
\* program that runs is not mapped.
LEMMA StopsImage ==
    ASSUME ImageInv, At \in {"mounted", "load", "user"}, pc' \in {"fault", "wild"},
           UNCHANGED <<files, ioVars, fsVars, procs, prog>>
    PROVE  ImageInv'
  <1>1. From(procs', {})
    BY DEF From
  <1>2. Shown(prog')
    BY DEF ImageInv
  <1>3. QED BY <1>1, <1>2, ImageIdle

\* The running process has a frame.
LEMMA TopOK ==
    ASSUME ProcInv, FramesOK, Len(procs) >= 1
    PROVE  /\ Listed(procs) /\ Len(procs) \in Nat /\ Len(files) = Len(files)
           /\ FrameOK(Top, Len(files))
  <1>1. Listed(procs) /\ Len(procs) \in Nat
    BY LenProperties DEF ProcInv, Listed
  <1>2. Len(procs) \in 1 .. Len(procs)
    BY <1>1
  <1>3. QED BY <1>1, <1>2 DEF FramesOK, Top

\* The program is not loaded.
LEMMA NotLoadedImage ==
    ASSUME ProcInv, ImageInv, Len(procs) >= 1, At \in {"mounted", "load", "user"}, NotLoaded,
           UNCHANGED <<files, ioVars, fsVars>>
    PROVE  ImageInv'
  <1>1. PICK n \in Nat : n = Len(files)
    BY PartsOK DEF ImageInv, HeldInv, Parts
  <1>2. Listed(procs) /\ FrameOK(Top, n)
    BY <1>1, TopOK DEF ImageInv
  <1>3. Shown(prog')
    BY DEF NotLoaded, ImageInv
  <1>4. CASE Top.kind = "hash"
    <2>1. PICK f : f = Hash("search", Top.word, Top.i + 1)
      OBVIOUS
    <2>2. procs' = Append(Below, f) /\ pc' = "user"
      BY <1>4, <2>1 DEF NotLoaded
    <2>3. FrameOK(f, n)
      <3>1. Top.i \in Nat
        BY <1>2, FrameMade
      <3>2. Top.i + 1 \in Nat
        BY <3>1
      <3>3. QED BY <2>1, <3>2, FrameMade
    <2>4. From(procs', {f})
      BY <1>2, <2>2, BelowFrom
    <2>5. QED BY <1>1, <1>3, <2>2, <2>3, <2>4, ImageIdle
  <1>5. CASE Top.kind # "hash"
    <2>1. procs' = Below /\ pc' = "halt"
      BY <1>5 DEF NotLoaded
    <2>2. From(procs', {})
      BY <1>2, <2>1, BelowFrom
    <2>3. QED BY <1>3, <2>1, <2>2, ImageIdle
  <1>6. QED BY <1>4, <1>5

\* The file asked for is the first of that name.
LEMMA AskedImage ==
    ASSUME FilesInv, ImageInv, NEW name \in Seq(Int), load_user_image(name), pc \in {"mounted", "user"}
    PROVE  ImageInv'
  <1>1. At = pc /\ Len(procs) >= 1 /\ ProcInv
    <2>1. At = pc /\ ProcInv
      BY DEF At, FilesInv
    <2>2. Len(procs) >= 1
      <3>1. CASE pc = "user"
        BY <2>1, <3>1 DEF ProcInv
      <3>2. CASE pc = "mounted"
        <4>1. Len(procs) = 1
          BY <2>1, <3>2 DEF ProcInv
        <4>2. QED BY <4>1
      <3>3. QED BY <3>1, <3>2
    <2>3. QED BY <2>1, <2>2
  <1>2. UNCHANGED <<files, g_blob_count, g_blobs, g_names>>
    BY DEF load_user_image, fsVars
  <1>3. PICK n \in Nat : Parts(files, n) /\ n = Len(files)
    BY PartsOK DEF ImageInv, HeldInv, Parts
  <1>4. g_blob_count = Len(files) /\ Mounted
    BY <1>1 DEF ImageInv, AskedInv
  <1>5. fs_find(name) = FirstNamed(files, name)
    BY <1>3, <1>4, FindIs, FileOfFirst
  <1>6. CASE NotLoaded /\ UNCHANGED ioVars
    <2>1. UNCHANGED <<files, ioVars, fsVars>>
      BY <1>2, <1>6 DEF fsVars
    <2>2. QED BY <1>1, <1>6, <2>1, NotLoadedImage
  <1>7. ASSUME fs_find(name) # 0,
               do_request("in", g_blobs[fs_find(name)].offset \div SECTOR,
                          Sectors(g_blobs[fs_find(name)].size), "blob", "load"),
               procs' = Append(Below, [Top EXCEPT !.name = name]), UNCHANGED prog
        PROVE  ImageInv'
    <2>1. PICK i : i = fs_find(name)
      OBVIOUS
    <2>2. PICK b : b = Table(files)[i] /\ b = g_blobs[i]
      BY <1>4 DEF Mounted
    <2>3. PICK sector, count : sector = b.offset \div SECTOR /\ count = Sectors(b.size)
      OBVIOUS
    <2>4. do_request("in", sector, count, "blob", "load")
      BY <1>7, <2>1, <2>2, <2>3
    <2>5. /\ HeldInv' /\ DataInv' /\ UNCHANGED written
          /\ \/ At' = "fault"
             \/ /\ At' = "load"
                /\ req' = [type |-> "in", sector |-> sector, count |-> count, buf |-> "blob", status |-> 255]
      BY <1>2, <2>4, DataAsked DEF ImageInv
    <2>6. PICK f : f = [Top EXCEPT !.name = name]
      OBVIOUS
    <2>7. Listed(procs) /\ FrameOK(Top, n)
      BY <1>1, <1>3, TopOK DEF ImageInv
    <2>8. FrameOK(f, n) /\ f.name = name
      BY <2>6, <2>7, FrameMade
    <2>9. From(procs', {f}) /\ Top' = f
      <3>1. procs' = Append(Below, f)
        BY <1>7, <2>6
      <3>2. From(procs', {f})
        BY <2>7, <1>1, <3>1, BelowFrom
      <3>3. Len(procs') = Len(procs) /\ procs'[Len(procs)] = f
        BY <1>1, <2>7, <3>1, TopReplaced
      <3>4. QED BY <3>2, <3>3 DEF Top
    <2>10. FramesOK'
      BY <1>2, <1>3, <2>8, <2>9, FramesFrom DEF ImageInv
    <2>11. At' = "load" => BlobAsked'
      <3>1. FirstNamed(files', Top'.name) = i /\ i # 0
        BY <1>2, <1>5, <1>7, <2>1, <2>8, <2>9
      <3>2. ASSUME At' = "load" PROVE Asked(sector, count, "blob")'
        BY <2>5, <3>2 DEF Asked
      <3>3. Table(files')[i] = b
        BY <1>2, <2>2
      <3>4. Top'.name \in Seq(Int)
        BY <2>8, <2>9
      <3>5. QED BY <2>3, <3>1, <3>2, <3>3, <3>4 DEF BlobAsked, Asked
    <2>12. AskedInv'
      BY <1>2, <1>4, <2>5, <2>11 DEF AskedInv, Mounted
    <2>13. Shown(prog)'
      BY <1>2, <1>7, <2>5, ShownKept DEF ImageInv
    <2>14. QED BY <2>5, <2>10, <2>12, <2>13 DEF ImageInv
  <1>8. QED BY <1>6, <1>7, Zenon DEF load_user_image

\* exec, whatever the name.
LEMMA ReplaceImage ==
    ASSUME FilesInv, ImageInv, NEW name \in Seq(Int), process_replace(name), pc = "user"
    PROVE  ImageInv'
  <1>1. CASE load_user_image(name)
    BY <1>1, AskedImage
  <1>2. CASE pc' = "wild" /\ UNCHANGED <<files, ioVars, fsVars, procs, prog>>
    BY <1>2, StopsImage DEF At
  <1>3. QED BY <1>1, <1>2 DEF process_replace

\* What is loaded is what was packed.
LEMMA LoadImageImage ==
    ASSUME FilesInv, ImageInv, LoadImage
    PROVE  ImageInv'
  <1>1. pc = "load" /\ At = "load" /\ Len(procs) >= 1 /\ ProcInv /\ DiskInv
        /\ UNCHANGED <<files, ioVars, fsVars>>
    BY DEF LoadImage, At, FilesInv, ProcInv
  <1>2. CASE NotLoaded
    BY <1>1, <1>2, NotLoadedImage
  <1>3. CASE /\ Ok /\ LlfValid(bufs["blob"]) /\ Loaded
             /\ prog' = [name |-> Top.name, entry |-> bufs["blob"][3],
                         memory |-> llf_load([va \in VAs |-> 98], bufs["blob"])]
    <2>1. PICK n \in Nat : Parts(files, n) /\ n = Len(files)
      BY PartsOK DEF ImageInv, HeldInv, Parts
    <2>2. PICK i : i = FirstNamed(files, Top.name)
      OBVIOUS
    <2>3. BlobAsked
      BY <1>1 DEF ImageInv, AskedInv
    <2>4. i \in 1 .. n
      BY <2>1, <2>2, <2>3, FileOfIs, FileOfFirst DEF BlobAsked
    <2>5. Asked(Table(files)[i].offset \div SECTOR, Sectors(Table(files)[i].size), "blob")
      BY <2>2, <2>3 DEF BlobAsked
    <2>6. PICK buf : buf = bufs["blob"]
      OBVIOUS
    <2>7. Reads(buf, Table(files)[i].offset \div SECTOR, Sectors(Table(files)[i].size))
      BY <1>3, <2>5, <2>6, Answered DEF ImageInv
    <2>8. PICK elf : elf = files[i].elf[1]
      OBVIOUS
    <2>9. PICK memory : memory = llf_load([va \in VAs |-> 98], buf)
      OBVIOUS
    <2>10. ASSUME written \cap Extent(Table(files)[i]) = {}
           PROVE  buf[3] = elf.entry /\ \A va \in VAs : memory[va] = ElfCell(elf, va)
      BY <2>10, <1>1, <1>3, <2>1, <2>4, <2>6, <2>7, <2>8, <2>9, BlobLoaded DEF ImageInv, HeldInv
    <2>11. prog'.name = Top.name /\ prog'.entry = buf[3] /\ prog'.memory = memory
      BY <1>3, <2>6, <2>9
    <2>12. Shown(prog')
      <3>1. /\ files[FirstNamed(files, prog'.name)].elf[1] = elf
            /\ Table(files)[FirstNamed(files, prog'.name)] = Table(files)[i]
        BY <2>2, <2>8, <2>11
      <3>2. Meant(prog', files, written)
        BY <2>10, <2>11, <3>1, Zenon DEF Meant
      <3>3. Mounted /\ prog'.name \in Seq(Int)
        BY <1>1, <2>3, <2>11 DEF ImageInv, AskedInv, BlobAsked
      <3>4. QED BY <3>2, <3>3 DEF Shown
    <2>13. PICK f : f = CASE Top.kind = "kmain" -> Simple("init")
                          [] Top.kind = "init" -> Hash("prompt", <<>>, 0)
                          [] Top.kind = "hash" -> Simple("prog")
      OBVIOUS
    <2>14. procs' = Append(Below, f) /\ pc' = "user"
      BY <1>3, <2>13 DEF Loaded
    <2>15. Top.kind \in {"kmain", "init", "hash"}
      <3>1. Len(procs) \in 1 .. Len(procs)
        BY <1>1, LenProperties DEF ProcInv, Listed
      <3>2. QED BY <1>1, <3>1 DEF ProcInv, Top
    <2>16. FrameOK(f, n)
      <3>1. f = Simple("init") \/ f = Hash("prompt", <<>>, 0) \/ f = Simple("prog")
        BY <2>13, <2>15
      <3>2. QED BY <3>1, FrameMade
    <2>17. From(procs', {f})
      BY <1>1, <2>14, BelowFrom DEF ProcInv
    <2>18. QED BY <1>1, <2>1, <2>12, <2>14, <2>16, <2>17, ImageIdle
  <1>4. CASE pc' \in {"wild", "fault"} /\ UNCHANGED <<procs, prog>>
    BY <1>1, <1>4, StopsImage
  <1>5. QED BY <1>2, <1>3, <1>4 DEF LoadImage

\* The shell.
LEMMA ShellImage ==
    ASSUME FilesInv, ImageInv, ReadLine \/ Search \/ Exit
    PROVE  ImageInv'
  <1>1. /\ pc = "user" /\ At = "user" /\ Len(procs) >= 1 /\ ProcInv /\ Listed(procs)
        /\ UNCHANGED <<files, ioVars, fsVars, prog>>
    BY DEF ReadLine, Search, Exit, Running, Idle, Becomes, At, FilesInv, ProcInv
  <1>2. PICK n \in Nat : Parts(files, n) /\ n = Len(files)
    BY PartsOK DEF ImageInv, HeldInv, Parts
  <1>3. FrameOK(Top, n) /\ Top.i \in Nat
    BY <1>1, <1>2, TopOK, FrameMade DEF ImageInv
  <1>4. Shown(prog')
    BY <1>1 DEF ImageInv
  <1>5. ASSUME NEW at, NEW word, NEW i \in Nat, at # "exec", Becomes(Hash(at, word, i)) PROVE ImageInv'
    <2>1. PICK f : f = Hash(at, word, i)
      OBVIOUS
    <2>2. procs' = Append(Below, f) /\ pc' = "user"
      BY <1>1, <1>5, <2>1 DEF Becomes
    <2>3. FrameOK(f, n)
      BY <1>5, <2>1, FrameMade
    <2>4. From(procs', {f})
      BY <1>1, <2>2, BelowFrom
    <2>5. QED BY <1>1, <1>2, <1>4, <2>2, <2>3, <2>4, ImageIdle
  <1>6. CASE ReadLine
    <2>1. PICK w \in Words : Becomes(Hash("search", w, 0))
      BY <1>6 DEF ReadLine
    <2>2. QED BY <1>5, <2>1
  <1>7. CASE Search
    <2>1. CASE Becomes(Hash("prompt", <<>>, 0))
      BY <1>5, <2>1
    <2>2. CASE Becomes(Hash("search", Top.word, NextBlob(Top)))
      <3>1. NextBlob(Top) \in Nat
        BY <1>3 DEF NextBlob
      <3>2. QED BY <1>5, <2>2, <3>1
    <2>3. CASE /\ Top.i < n /\ UNCHANGED pc
               /\ procs' = Below \o <<Hash("join", Top.word, Top.i), Hash("exec", Top.word, Top.i)>>
      <3>1. PICK f, g : f = Hash("join", Top.word, Top.i) /\ g = Hash("exec", Top.word, Top.i)
        OBVIOUS
      <3>2. FrameOK(f, n) /\ FrameOK(g, n)
        BY <1>3, <2>3, <3>1, FrameMade
      <3>3. From(procs', {f, g})
        BY <1>1, <2>3, <3>1, BelowFrom
      <3>4. pc' = "user"
        BY <1>1, <2>3
      <3>5. QED BY <1>1, <1>2, <1>4, <3>2, <3>3, <3>4, ImageIdle
    <2>4. g_blob_count = n
      BY <1>1, <1>2 DEF ImageInv, AskedInv
    <2>5. Top.i < n \/ Top.i >= n
      BY <1>3
    <2>6. QED BY <1>7, <2>1, <2>2, <2>3, <2>4, <2>5 DEF Search
  <1>8. CASE Exit
    <2>1. CASE Len(procs) = 1
      <3>1. procs' = <<>> /\ pc' = "halt"
        BY <1>8, <2>1 DEF Exit
      <3>2. From(procs', {})
        BY <3>1 DEF From
      <3>3. QED BY <1>1, <1>4, <3>1, <3>2, ImageIdle
    <2>2. CASE Len(procs) # 1
      <3>1. PICK f : f = Hash("prompt", <<>>, 0)
        OBVIOUS
      <3>2. procs' = Append(SubSeq(procs, 1, Len(procs) - 2), f) /\ pc' = "user"
        BY <1>1, <1>8, <2>2, <3>1 DEF Exit
      <3>3. Len(procs) >= 2
        <4>1. Len(procs) \in Nat
          BY <1>1, LenProperties DEF Listed
        <4>2. PICK d \in Nat : d = Len(procs)
          BY <4>1
        <4>3. d >= 1 /\ d # 1
          BY <1>1, <2>2, <4>2
        <4>4. QED BY <4>2, <4>3
      <3>4. From(procs', {f})
        BY <1>1, <3>2, <3>3, BelowFrom
      <3>5. FrameOK(f, n)
        BY <3>1, FrameMade
      <3>6. QED BY <1>1, <1>2, <1>4, <3>2, <3>4, <3>5, ImageIdle
    <2>3. QED BY <2>1, <2>2
  <1>9. QED BY <1>6, <1>7, <1>8

\* A program may ask for the sectors of a file.
LEMMA BlkImage ==
    ASSUME FilesInv, ImageInv, svc_blk
    PROVE  ImageInv'
  <1>1. pc = "user" /\ At = "user"
        /\ UNCHANGED <<files, g_blob_count, g_blobs, g_names, procs, prog>>
    BY DEF svc_blk, Running, fsVars, At
  <1>2. PICK type \in {"in", "out"}, sector \in UserSectors, count \in UserCounts, buf \in {"user", "ram"} :
                do_request(type, sector, count, buf, "user")
    BY DEF svc_blk
  <1>3. sector \in Nat /\ count \in Nat
    BY FilesConstants
  <1>4. HeldInv' /\ DataInv' /\ UNCHANGED written /\ At' \in {"fault", "user"}
    BY <1>1, <1>2, <1>3, DataAsked DEF ImageInv
  <1>5. FramesOK' /\ Shown(prog)'
    BY <1>1, <1>4, ShownKept DEF FramesOK, ImageInv
  <1>6. g_blob_count = Len(files) /\ Mounted
    BY <1>1 DEF ImageInv, AskedInv
  <1>7. AskedInv'
    BY <1>1, <1>4, <1>6 DEF AskedInv, Mounted
  <1>8. QED BY <1>4, <1>5, <1>7 DEF ImageInv

-----------------------------------------------------------------------------
(* The theorems.                                                           *)

\* The image fits the disk, and nothing is allocated or asked for.
LEMMA FilesInit == Init => FilesInv
  <1> SUFFICES ASSUME Init PROVE FilesInv
    OBVIOUS
  <1> USE FilesConstants
  <1>1. RingInv
    BY DEF Init, RingInv, NoReq
  <1>2. procs = <<Simple("kmain")>> /\ pc = "boot" /\ At = "boot"
    BY DEF Init, At
  <1>3. Listed(procs) /\ Len(procs) = 1 /\ procs[1] = Simple("kmain")
    <2>1. procs \in Seq({Simple("kmain")}) /\ Len(procs) = 1 /\ procs[1] = Simple("kmain")
      BY <1>2
    <2>2. QED BY <2>1, SeqOfRange DEF Listed
  <1>4. Simple("kmain").kind = "kmain"
    BY DEF Simple, Frame
  <1>5. ProcInv
    BY <1>2, <1>3, <1>4 DEF ProcInv, Top
  <1>6. HeapInv
    BY <1>2 DEF Init, HeapInv
  <1>7. DiskInv
    <2> DEFINE image == build_fs(files)
               m == Capacity * SECTOR - Len(image)
               rest == [k \in 1 .. m |-> 0]
    <2>1. disk = image \o rest /\ image \in Seq(Int) /\ Len(image) <= Capacity * SECTOR
      <3>1. disk = image \o rest /\ files \in FileLists
        BY DEF Init
      <3>2. PICK n \in Nat : Parts(files, n)
        BY <3>1, PartsOK
      <3>3. image \in Seq(Int) /\ Len(image) \in Nat
        BY <3>2, ImageIs, Zenon DEF Pictured
      <3>4. Len(image) <= Capacity * SECTOR
        BY <3>1
      <3> HIDE DEF image
      <3>5. QED BY <3>1, <3>3, <3>4
    <2> HIDE DEF image
    <2>2. m \in Nat /\ Len(image) \in Nat /\ Len(image) + m = Capacity * SECTOR
      <3>1. Len(image) \in Nat /\ Capacity * SECTOR \in Nat
        BY <2>1, LenProperties
      <3>2. QED BY <2>1, <3>1
    <2> HIDE DEF m
    <2>3. rest \in Seq(Int) /\ Len(rest) = m
      BY <2>2
    <2> HIDE DEF rest
    <2>4. disk \in Seq(Int) /\ Len(disk) = Len(image) + m
      BY <2>1, <2>3, ConcatProperties
    <2>5. QED BY <2>2, <2>4 DEF DiskInv
  <1>8. QED BY <1>1, <1>5, <1>6, <1>7 DEF FilesInv

\* The disk starts as the image, and no request was made.
LEMMA ImageInit == Init => ImageInv
  <1> SUFFICES ASSUME Init PROVE ImageInv
    OBVIOUS
  <1>1. /\ files \in FileLists /\ req = NoReq /\ pc = "boot" /\ prog = NoProg /\ written = {}
        /\ procs = <<Simple("kmain")>> /\ DOMAIN bufs = {"hdr", "desc", "name", "blob", "user"}
    BY DEF Init
  <1>2. PICK n \in Nat : Parts(files, n) /\ n = Len(files)
    BY <1>1, PartsOK DEF Parts
  <1>3. HoldsImage
    <2>1. PICK img \in Seq(Int) : img = build_fs(files)
      <3>1. build_fs(files) \in Seq(Int)
        BY <1>2, ImageIs DEF Pictured
      <3>2. QED BY <3>1
    <2>2. PICK m : m = Capacity * SECTOR - Len(img)
      OBVIOUS
    <2>3. m \in Nat
      <3>1. Len(img) <= Capacity * SECTOR
        BY <1>1, <2>1, FilesConstants
      <3>2. Capacity * SECTOR \in Nat
        BY FilesConstants
      <3>3. Len(img) \in Nat
        BY LenProperties
      <3>4. QED BY <2>2, <3>1, <3>2, <3>3
    <2>4. PICK rest : rest = [k \in 1 .. m |-> 0]
      OBVIOUS
    <2>5. disk = img \o rest
      BY <2>1, <2>2, <2>4 DEF Init
    <2>6. rest \in Seq(Int)
      BY <2>3, <2>4
    <2>7. \A k \in 1 .. Len(img) : disk[k] = img[k]
      BY <2>5, <2>6, TwoParts
    <2>8. QED BY <2>1, <2>7 DEF HoldsImage
  <1>4. DataInv
    BY <1>1 DEF DataInv, NoReq
  <1>5. FramesOK
    <2>1. FrameOK(Simple("kmain"), n)
      BY FrameMade
    <2>2. Len(procs) = 1 /\ procs[1] = Simple("kmain")
      BY <1>1
    <2>3. QED BY <1>2, <2>1, <2>2 DEF FramesOK
  <1>6. AskedInv
    <2>1. At = "boot"
      BY <1>1 DEF At
    <2>2. QED BY <1>1, <2>1 DEF AskedInv
  <1>7. Shown(prog)
    BY <1>1 DEF Shown
  <1>8. QED BY <1>1, <1>3, <1>4, <1>5, <1>6, <1>7 DEF ImageInv, HeldInv

\* FilesInv is inductive: at each place in fs_mount, load_user_image and the
\* system calls the live blocks, the processes and the ring are what the code
\* behind it expects, whatever fails and however slow the device is.
THEOREM FilesInductive == Spec => []FilesInv
  <1>1. FilesInv /\ [Next]_vars => FilesInv'
    <2> SUFFICES ASSUME FilesInv, [Next]_vars PROVE FilesInv'
      OBVIOUS
    <2>1. CASE Kernel
      BY <2>1, MountSteps, LoadDone, DeviceSteps DEF Kernel
    <2>2. CASE Device
      BY <2>2, DeviceSteps DEF Device
    <2>3. CASE ExecFirst
      <3>1. pc = "mounted" => Top.kind # "prog"
        BY DEF FilesInv, ProcInv, At
      <3>2. QED BY <2>3, <3>1, LoadAsked, ReplaceAsked DEF ExecFirst
    <2>4. CASE ChildExec
      BY <2>4, ReplaceAsked DEF ChildExec, Running
    <2>5. CASE ReadLine \/ Search \/ Exit
      BY <2>5, ShellSteps
    <2>6. CASE svc_blk
      BY <2>6, BlkStep
    <2>7. CASE UNCHANGED vars
      <3>1. /\ UNCHANGED <<req, avail_idx, used_idx, g_last_used_idx, dev_idx, disk, ret>>
            /\ UNCHANGED <<g_blobs, heap, pc, procs>>
        BY <2>7 DEF vars, ioVars, fsVars
      <3>2. At' = At /\ Top' = Top
        BY <3>1 DEF At, Top
      <3>3. QED BY <3>1, <3>2 DEF FilesInv, RingInv, ProcInv, HeapInv, DiskInv
    <2>8. QED BY <2>1, <2>2, <2>3, <2>4, <2>5, <2>6, <2>7 DEF Next, User
  <1>2. QED BY <1>1, FilesInit, PTL DEF Spec

\* do_request and the device never overlap, and the buffer of an outstanding
\* request is live, for every index width, disk and list of files.
THEOREM RequestAlwaysOK == Spec => []RequestOK
  <1>1. FilesInv => RequestOK
    <2> SUFFICES ASSUME FilesInv PROVE RequestOK
      OBVIOUS
    <2>1. TypeOK
      BY DEF FilesInv, RingInv, ProcInv, HeapInv, DiskInv, TypeOK
    <2>2. pc = "poll" /\ req.buf \notin {"hdr", "user", "ram"} => req.buf \in heap
      BY DEF FilesInv, RingInv, HeapInv, BufOf, At
    <2>3. QED BY <2>1, <2>2 DEF FilesInv, RingInv, OneRequest, RequestOK
  <1>2. QED BY <1>1, FilesInductive, PTL

\* kmalloc and kfree balance on every path of fs_mount and load_user_image.
THEOREM HeapAlwaysBalanced == Spec => []HeapBalanced
  <1>1. FilesInv => HeapBalanced
    BY DEF FilesInv, HeapInv, At, HeapBalanced
  <1>2. QED BY <1>1, FilesInductive, PTL

\* ImageInv is inductive beside FilesInv: the disk holds the image but for the
\* sectors programs wrote to, the buffer of a request that succeeded holds the
\* sectors the code asked for, table and names are what mkfs.py packed, and the
\* program is where nobody wrote over its file.
THEOREM ImageInductive == Spec => [](FilesInv /\ ImageInv)
  <1>1. FilesInv /\ ImageInv /\ [Next]_vars => ImageInv'
    <2> SUFFICES ASSUME FilesInv, ImageInv, [Next]_vars PROVE ImageInv'
      OBVIOUS
    <2>1. CASE Kernel
      BY <2>1, MountImage, LoadImageImage, DeviceImage DEF Kernel
    <2>2. CASE Device
      BY <2>2, DeviceImage DEF Device
    <2>3. CASE ExecFirst
      <3>1. InitName \in Seq(Int) /\ HashName \in Seq(Int)
        BY DEF InitName, HashName
      <3>2. QED BY <2>3, <3>1, AskedImage, ReplaceImage DEF ExecFirst
    <2>4. CASE ChildExec
      <3>1. pc = "user" /\ At = "user" /\ Top.at = "exec" /\ process_replace(svc_fs_blob_info(Top.i).name)
        BY <2>4 DEF ChildExec, Running, At
      <3>2. PICK n \in Nat : Parts(files, n) /\ n = Len(files)
        BY PartsOK DEF ImageInv, HeldInv, Parts
      <3>3. Top.i \in Nat /\ Top.i < n
        <4>1. Len(procs) >= 1 /\ ProcInv /\ FramesOK
          BY <3>1 DEF FilesInv, ProcInv, ImageInv
        <4>2. FrameOK(Top, n)
          BY <3>2, <4>1, TopOK
        <4>3. QED BY <3>1, <4>2, FrameMade
      <3>4. PICK i \in 1 .. n : Top.i = i - 1
        <4>1. Top.i + 1 \in 1 .. n /\ Top.i = (Top.i + 1) - 1
          BY <3>3
        <4>2. QED BY <4>1
      <3>5. Mounted
        BY <3>1 DEF ImageInv, AskedInv
      <3>6. svc_fs_blob_info(Top.i).name \in Seq(Int)
        BY <3>2, <3>4, <3>5, InfoIs
      <3>7. QED BY <3>1, <3>6, ReplaceImage
    <2>5. CASE ReadLine \/ Search \/ Exit
      BY <2>5, ShellImage
    <2>6. CASE svc_blk
      BY <2>6, BlkImage
    <2>7. CASE UNCHANGED vars
      <3>1. UNCHANGED <<files, disk, written, req, bufs, g_blob_count, g_blobs, g_names, pc, ret, procs, prog>>
        BY <2>7 DEF vars, ioVars, fsVars
      <3>2. At' = At /\ Top' = Top
        BY <3>1 DEF At, Top
      <3>3. HeldInv' /\ DataInv'
        BY <3>1, DataKept DEF ImageInv
      <3>4. FramesOK' /\ Shown(prog)'
        BY <3>1, ShownKept DEF FramesOK, ImageInv
      <3>5. AskedInv'
        BY <3>1, <3>2 DEF ImageInv, AskedInv, Asked, BlobAsked, Mounted
      <3>6. QED BY <3>3, <3>4, <3>5 DEF ImageInv
    <2>8. QED BY <2>1, <2>2, <2>3, <2>4, <2>5, <2>6, <2>7 DEF Next, User
  <1>2. QED BY <1>1, ImageInit, FilesInductive, PTL DEF Spec

\* A mounted file system has the files mkfs.py packed: fs_find gets the first
\* of exactly that name and svc_fs_blob_info each name as far as it fits, for
\* every list of files and every length of their names.
THEOREM DirectoryAlwaysExact == Spec => []DirectoryExact
  <1>1. FilesInv /\ ImageInv => DirectoryExact
    <2> SUFFICES ASSUME ImageInv, pc = "user" PROVE
          /\ g_blob_count = Len(files)
          /\ \A w \in Words \cup {InitName, HashName} : fs_find(w) = FileOf(w)
          /\ \A i \in DOMAIN files :
                LET info == svc_fs_blob_info(i - 1)
                IN  info.name = SubSeq(files[i].name, 1, info.size) /\ info.flags = files[i].flags
      BY DEF DirectoryExact
    <2>1. PICK n \in Nat : Parts(files, n) /\ DOMAIN files = 1 .. n
      BY PartsOK DEF ImageInv, HeldInv, Parts
    <2>2. At = "user"
      BY DEF At
    <2>3. g_blob_count = Len(files) /\ Mounted
      BY <2>2 DEF ImageInv, AskedInv
    <2>4. \A w \in Words \cup {InitName, HashName} : w \in Seq(Int)
      <3>1. InitName \in Seq(Int) /\ HashName \in Seq(Int)
        BY DEF InitName, HashName
      <3>2. Words \subseteq Seq(Int)
        BY FilesConstants
      <3>3. QED BY <3>1, <3>2
    <2>5. \A w \in Words \cup {InitName, HashName} : fs_find(w) = FileOf(w)
      BY <2>1, <2>3, <2>4, FindIs
    <2>6. ASSUME NEW i \in 1 .. n
          PROVE  /\ svc_fs_blob_info(i - 1).name = SubSeq(files[i].name, 1, svc_fs_blob_info(i - 1).size)
                 /\ svc_fs_blob_info(i - 1).flags = files[i].flags
      BY <2>1, <2>3, InfoIs
    <2>7. QED BY <2>1, <2>3, <2>5, <2>6
  <1>2. QED BY <1>1, ImageInductive, PTL

\* A program that runs is the ELF file that was packed under its name, word
\* for word, its .bss cleared, for every ELF file, memory and sector size, as
\* long as no program has written to the sectors of that file.
THEOREM LoadedAlwaysExact == Spec => []LoadedExact
  <1>1. FilesInv /\ ImageInv => LoadedExact
    BY ShownLoaded DEF ImageInv
  <1>2. QED BY <1>1, ImageInductive, PTL
=============================================================================
