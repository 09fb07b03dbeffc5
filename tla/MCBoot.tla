------------------------------- MODULE MCBoot -------------------------------
(***************************************************************************)
(* Instances of Boot for TLC: device trees, flattened the way firmware     *)
(* flattens them, whole and damaged, at two sizes of the blob.  A page of   *)
(* 100 cells keeps a doubleword within TLC's integers.                     *)
(***************************************************************************)
EXTENDS Boot, TLC, SequencesExt

RAM_PAGES == 56
RAM_BASE == SECTION

-----------------------------------------------------------------------------
(* Trees.                                                                  *)

\* A property with the type it should be given: zero cells look like strings.
CellsProp(name, vs) ==
    [name |-> name, len |-> 4 * Len(vs), data |-> [k \in DOMAIN vs |-> Num(vs[k])],
     type |-> IF name \in U32Names THEN "u32"
              ELSE IF \A k \in DOMAIN vs : vs[k] = 0 THEN "strings" ELSE "cells"]
TextProp(name, ss) ==
    [name |-> name, len |-> 4 * Len(ss), data |-> [k \in DOMAIN ss |-> Str(ss[k])],
     type |-> IF Len(ss) = 1 THEN "string" ELSE "strings"]
SeedProp == [name |-> "rng-seed", len |-> 6, data |-> <<Num(3), Num(9)>>, type |-> "bytes"]
EmptyProp == [name |-> "ranges", len |-> 0, data |-> <<>>, type |-> "empty"]
Node(name, props, kids) == [name |-> name, props |-> props, kids |-> kids]

\* A value as n cells, most significant first.
Encode(v, n) == [k \in 1 .. n |-> IF k = n THEN v % R ELSE IF k = n - 1 THEN v \div R ELSE 0]
EncodeAll(pairs, ac, sc) ==
    FoldLeft(LAMBDA cells, p : cells \o Encode(p.base, ac) \o Encode(p.size, sc), <<>>, pairs)

Pair(b, s) == [base |-> b, size |-> s]
Pages(b, s) == Pair(b * PAGE_SIZE, s * PAGE_SIZE)
Ram == Pages(RAM_BASE, RAM_PAGES)

\* A base above 2^32 where there are cells for it.
PicBase(ac) == IF ac = 2 THEN R + 8 ELSE 8

\* RAM that begins and ends inside a page, above 2^32 where there are cells for it.
HighRam(ac) == Pair((IF ac = 2 THEN R ELSE 0) + Ram.base - 8, Ram.size + 12)

\* The children a root may have, built for the cells of the root.
Child(kind, ac, sc) ==
    CASE kind = "mem"   -> Node("memory@0", <<TextProp("device_type", <<"memory">>),
                                   CellsProp("reg", EncodeAll(<<Ram>>, ac, sc))>>, <<>>)
      [] kind = "mem2"  -> Node("memory@1", <<CellsProp("reg", EncodeAll(<<Ram, Pages(90, 4)>>, ac, sc))>>, <<>>)
      [] kind = "ctl"   -> Node("memory-controller@2", <<CellsProp("reg", EncodeAll(<<Pages(94, 1)>>, ac, sc))>>, <<>>)
      [] kind = "other" -> Node("memory@9", <<CellsProp("reg", EncodeAll(<<Pair(1, 1)>>, ac, sc)),
                                   TextProp("device_type", <<"rom">>)>>, <<>>)
      [] kind = "huge"  -> Node("memory@3", <<CellsProp("reg", EncodeAll(<<Pages(RAM_BASE, ADDR_PAGES - 2)>>, ac, sc))>>, <<>>)
      [] kind = "none"  -> Node("memory@4", <<CellsProp("reg", EncodeAll(<<Pages(RAM_BASE, 0)>>, ac, sc))>>, <<>>)
      [] kind = "small"  -> Node("memory@5", <<CellsProp("reg", EncodeAll(<<Pages(RAM_BASE, 30)>>, ac, sc))>>, <<>>)
      [] kind = "full"  -> Node("memory@6", <<CellsProp("reg", EncodeAll(<<Pages(27, 16)>>, ac, sc))>>, <<>>)
      [] kind = "high"  -> Node("memory@7", <<CellsProp("reg", EncodeAll(<<HighRam(ac)>>, ac, sc))>>, <<>>)
      [] kind = "chosen" -> Node("chosen", <<SeedProp, EmptyProp>>, <<>>)
      [] kind = "cpus"  -> Node("cpus", <<CellsProp("#address-cells", <<1>>), CellsProp("#size-cells", <<0>>)>>,
                              <<Node("cpu@0", <<CellsProp("reg", <<0>>), CellsProp("phandle", <<1>>)>>, <<>>),
                                Node("cpu@1", <<CellsProp("reg", <<1>>), CellsProp("phandle", <<2>>)>>, <<>>)>>)
      [] kind = "pic"   -> Node("pic@8", <<TextProp("compatible", <<"a", "gic">>),
                                   CellsProp("reg", EncodeAll(<<Pair(PicBase(ac), 2)>>, ac, sc)),
                                   CellsProp("#address-cells", <<1>>), CellsProp("linux,phandle", <<2>>)>>, <<>>)

\* The ranges a child adds to the RAM of the tree.
RamOf(kind, ac) ==
    CASE kind = "mem" -> <<Ram>> [] kind = "mem2" -> <<Ram, Pages(90, 4)>>
      [] kind = "ctl" -> <<Pages(94, 1)>> [] kind = "huge" -> <<Pages(RAM_BASE, ADDR_PAGES - 2)>>
      [] kind = "none" -> <<Pages(RAM_BASE, 0)>> [] kind = "full" -> <<Pages(27, 16)>>
      [] kind = "small" -> <<Pages(RAM_BASE, 30)>> [] kind = "high" -> <<HighRam(ac)>>
      [] OTHER -> <<>>

\* The root without #address-cells and #size-cells gets 2 and 1.
Root(kinds, ac, sc) ==
    Node("", (IF ac = 2 /\ sc = 1 THEN <<>>
              ELSE <<CellsProp("#address-cells", <<ac>>), CellsProp("#size-cells", <<sc>>)>>)
             \o <<TextProp("compatible", <<"virt">>)>>,
         [k \in DOMAIN kinds |-> Child(kinds[k], ac, sc)])

Kinds == {"mem", "mem2", "ctl", "other", "huge", "none", "small", "full", "high", "chosen", "cpus", "pic"}
Names == {Child(k, 1, 1).name : k \in Kinds} \cup {"", "cpu@0", "cpu@1"}

-----------------------------------------------------------------------------
(* Flattening.                                                             *)

StringList == <<"#address-cells", "#size-cells", "compatible", "device_type", "reg",
                "rng-seed", "ranges", "phandle", "linux,phandle">>
NameOff(name) == 4 * ((CHOOSE k \in DOMAIN StringList : StringList[k] = name) - 1)

\* The concatenation of the parts, and their sum.
Join(parts) == FoldLeft(LAMBDA a, b : a \o b, <<>>, parts)
Total(parts) == FoldLeft(LAMBDA a, b : a + b, 0, parts)

FlatProps(props) ==
    Join([k \in DOMAIN props |->
            <<Num(DTB_PROP), Num(props[k].len), Num(NameOff(props[k].name))>> \o props[k].data])

\* A node whose children are flattened by flat; a tree has three levels at most.
\* pad is a sequence of no-ops put before the children.
FlatOver(node, pad, flat(_)) ==
    <<Num(DTB_BEGIN_NODE), Str(node.name)>> \o FlatProps(node.props)
      \o Join([k \in DOMAIN node.kids |-> pad \o flat(node.kids[k])]) \o <<Num(DTB_END_NODE)>>
Leaf(pad, node) == FlatOver(node, pad, LAMBDA n : <<>>)
Inner(pad, node) == FlatOver(node, pad, LAMBDA n : Leaf(pad, n))
Flat(node, pad) == FlatOver(node, pad, LAMBDA n : Inner(pad, n))

CountNodes(root) == 1 + Total([k \in DOMAIN root.kids |-> 1 + Len(root.kids[k].kids)])
CountProps(root) ==
    LET Below(n) == Total([k \in DOMAIN n.kids |-> Len(n.kids[k].props)])
    IN  Len(root.props) + Below(root) + Total([k \in DOMAIN root.kids |-> Below(root.kids[k])])

-----------------------------------------------------------------------------
(* Blobs.                                                                  *)

In(kind, kinds) == \E k \in DOMAIN kinds : kinds[k] = kind

AllRam(kinds, ac) ==
    LET all == Join([k \in DOMAIN kinds |-> RamOf(kinds[k], ac)])
    IN  SubSeq(all, 1, IF Len(all) < MEMORY_MAX THEN Len(all) ELSE MEMORY_MAX)

Regs(kinds, ac, sc) ==
    (IF In("pic", kinds)
       THEN {[name |-> "pic@8", index |-> 0, pair |-> <<Pair(PicBase(ac), 2)>>],
             [name |-> "pic@8", index |-> 1, pair |-> <<>>]} ELSE {})
    \cup (IF In("cpus", kinds)
            THEN {[name |-> "cpu@1", index |-> 0, pair |-> <<Pair(1, 0)>>]} ELSE {})

Paths(kinds) ==
    {[path |-> <<"nobody">>, name |-> ""], [path |-> <<"memory", "reg">>, name |-> ""],
     [path |-> <<"chosen">>, name |-> IF In("chosen", kinds) THEN "chosen" ELSE ""]}
    \cup (IF In("cpus", kinds)
            THEN {[path |-> <<"cpus", "cpu@1">>, name |-> "cpu@1"],
                  [path |-> <<"", "cpus", "", "cpu">>, name |-> "cpu@0"],
                  [path |-> <<"cpu@0">>, name |-> ""]} ELSE {})

\* The blob of a structure block: header, block and names, one behind the other,
\* padded to whole pages, and to least pages.
Blob(struct, least) ==
    LET cells == [k \in 1 .. HEADER_SIZE |-> Num(0)] \o struct
                   \o [k \in DOMAIN StringList |-> Str(StringList[k])]
        pages == Max({least, (Len(cells) + PAGE_WORDS - 1) \div PAGE_WORDS})
    IN  [cells |-> cells, magic |-> TRUE, totalsize |-> pages * PAGE_WORDS,
         off_struct |-> HEADER_SIZE, size_struct |-> Len(struct),
         off_strings |-> HEADER_SIZE + Len(struct), size_strings |-> Len(StringList),
         dtb |-> RAM_BASE, pages |-> pages]

\* The blob of a root node whose cells are said to be ac and sc.
BlobOf(root, kinds, ac, sc, pad, pages) ==
    Blob(Append(pad \o Flat(root, pad), Num(DTB_END)), pages)
      @@ [complete |-> TRUE, tree |-> root, memory |-> AllRam(kinds, ac), regs |-> Regs(kinds, ac, sc),
          paths |-> Paths(kinds),
          count |-> [nodes |-> CountNodes(root), props |-> CountProps(root)]]
Whole(kinds, ac, sc, pad, pages) == BlobOf(Root(kinds, ac, sc), kinds, ac, sc, pad, pages)

\* Damage: the block is cut to n cells, or a cell of it replaced.
Cut(b, n) == [b EXCEPT !.size_struct = n, !.complete = n >= b.size_struct - 1]
Patch(b, n, v) == [b EXCEPT !.cells[HEADER_SIZE + n] = Num(v), !.complete = FALSE]

Shapes == <<<<"mem">>, <<"chosen", "mem">>, <<"mem2", "ctl">>, <<"cpus", "mem">>, <<"pic", "mem">>,
            <<"mem", "cpus", "pic">>, <<"other", "mem">>, <<"other">>, <<>>, <<"mem2", "mem2">>,
            <<"huge">>, <<"none">>, <<"full">>, <<"small">>, <<"mem", "pic", "chosen", "other">>,
            <<"high">>, <<"ctl", "cpus", "mem2">>, <<"mem", "pic", "chosen", "ctl">>, <<"cpus", "pic">>>>
CellCounts == <<<<2, 2>>, <<2, 1>>, <<1, 1>>>>
Pads == <<<<>>, <<Num(DTB_NOP)>>>>
Sizes == <<1, SECTION>>

\* Every shape with every pair of cell counts, the padding and size alternating.
WholeBlobs ==
    [i \in 1 .. 2 * 3 * Len(Shapes) |->
       LET k == (i - 1) \div 6
           c == CellCounts[((i - 1) % 3) + 1]
           alt == ((i - 1) \div 3) % 2
       IN  Whole(Shapes[k + 1], c[1], c[2], Pads[((alt + k) % 2) + 1], Sizes[alt + 1])]

Victim == Whole(<<"cpus", "mem">>, 2, 2, <<>>, 1)
CutBlobs == [n \in 1 .. Victim.size_struct + 1 |-> Cut(Victim, n - 1)]
Bad(b) == [b EXCEPT !.complete = FALSE]
DamagedBlobs ==
    <<Bad([Victim EXCEPT !.magic = FALSE]),
      Bad([Victim EXCEPT !.totalsize = 5]),
      Bad([Victim EXCEPT !.size_struct = PAGE_WORDS]),
      Bad([Victim EXCEPT !.size_strings = PAGE_WORDS]),
      Patch(Victim, 1, DTB_END), Patch(Victim, 5, 4 * 20)>>

\* The block's cell, from 1, of the first property with that many bytes of data.
Prop1(b, len) ==
    CHOOSE n \in 1 .. b.size_struct - 2 :
        b.cells[HEADER_SIZE + n].v = DTB_PROP /\ b.cells[HEADER_SIZE + n + 1].v = len

\* Numbers too large: a length that leads back to the property before it, one that
\* leads back to the ends of two other nodes; data behind the block, and behind
\* all memory that is mapped; a block and a strings block that begin below the
\* blob; a cell count of 2^30.
Below == W - (RAM_BASE - 1) * PAGE_WORDS
WildBlobs ==
    <<Patch(Victim, Prop1(Victim, 16) + 1, R - 28),
      Patch(Victim, Prop1(Victim, 16) + 1, R - 44),
      Patch(Victim, Prop1(Victim, 16) + 1, 2 * SECTION * PAGE_SIZE),
      Patch(Victim, Prop1(Victim, 16) + 1, 5 * SECTION * PAGE_SIZE),
      Bad([Victim EXCEPT !.off_struct = Below, !.size_struct = W - Below + 20]),
      Bad([Victim EXCEPT !.off_strings = Below, !.size_strings = W - Below + 20]),
      Patch(Victim, Prop1(Victim, 4) + 3, W)>>

\* A tree whose block lies where the first stack was.
Sunken ==
    LET b == Whole(<<"mem">>, 2, 2, <<>>, SECTION)
        gap == [k \in 1 .. (FIRST_STACK - 1) * PAGE_WORDS |-> Num(0)]
    IN  [b EXCEPT !.cells = gap \o @, !.off_struct = @ + Len(gap), !.off_strings = @ + Len(gap)]

\* A root that says its children have neither address nor size cells.
NoCells ==
    LET cells == <<CellsProp("#address-cells", <<0>>), CellsProp("#size-cells", <<0>>)>>
    IN  [BlobOf(Node("", cells, <<Child("mem", 1, 1)>>), <<"mem">>, 1, 1, <<>>, 1)
          EXCEPT !.memory = <<>>]

MCBlobs == ToSet(WholeBlobs \o CutBlobs \o DamagedBlobs \o WildBlobs \o <<Sunken, NoCells>>)
MCAround == [a \in 0 .. W - 1 |-> Num(0)]

MCBaseName == [n \in Names |->
                 CASE n \in {"memory@0", "memory@1", "memory@3", "memory@4", "memory@5", "memory@6", "memory@7", "memory@9"} -> "memory"
                   [] n = "memory-controller@2" -> "memory-controller"
                   [] n \in {"cpu@0", "cpu@1"} -> "cpu"
                   [] n = "pic@8" -> "pic"
                   [] OTHER -> n]
MCMemoryNames == {n \in Names : MCBaseName[n] \in {"memory", "memory-controller"}}

\* The instance has the layout of the linker script and of the virt machine.
ASSUME MCLayout == Layout
=============================================================================
