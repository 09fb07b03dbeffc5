-------------------------------- MODULE Dtb --------------------------------
(***************************************************************************)
(* The device tree parser of src/kernel/dtb.c and the early heap it takes  *)
(* its pools from (src/kernel/mem/bump.c).                                 *)
(*                                                                         *)
(* Memory is W cells of 4 bytes, and all offsets are taken modulo its size,*)
(* as u32 arithmetic does.  A cell is its value as a big-endian word and   *)
(* the string it holds when it is read as characters: a name or a string   *)
(* fills one cell with its NUL.  Offsets and sizes of the header are in    *)
(* cells, lengths of properties and offsets of names in bytes.             *)
(* parse_node is recursive in the code; here stack holds the nodes whose   *)
(* calls have not returned, and every iteration of a loop is a step.       *)
(* Words is what the next step reads: the code looks at the bounds of the  *)
(* structure block, never at those of the data.                            *)
(***************************************************************************)
EXTENDS Integers, Sequences, FiniteSets

CONSTANTS
    DTB_MAX_NODES, DTB_MAX_PROPS,
    MEMORY_MAX,          \* length of dtb_tree_t.memory
    W, PAGE_WORDS,       \* cells of the address space and of a page
    HEADER_SIZE,         \* sizeof(struct dtb_header) in cells
    FIRST_STACK,         \* page past the blob's start below which the first stack lies
    NODE_POOL, PROP_POOL,   \* bytes of the two pools
    EARLY_HEAP_SIZE,
    Blobs,               \* the blobs firmware may hand over
    Around,              \* the cells of memory that are not the blob's
    BaseName,            \* node name -> the part before '@'
    MemoryNames          \* the node names that start with "memory"

R == 4 * W               \* 2^32: a cell and an address are below R
CellT == [v : 0 .. R - 1, s : STRING]

ASSUME DtbConstants ==
    /\ {DTB_MAX_NODES, DTB_MAX_PROPS, MEMORY_MAX, HEADER_SIZE} \subseteq Nat
    /\ {NODE_POOL, PROP_POOL, EARLY_HEAP_SIZE} \subseteq Nat
    /\ {W, PAGE_WORDS, FIRST_STACK} \subseteq Nat \ {0}
    /\ W > 2 /\ DTB_MAX_NODES < R /\ DTB_MAX_PROPS < R
    /\ Around \in [0 .. W - 1 -> CellT]
    /\ \A b \in Blobs :
          /\ b.cells \in Seq(CellT)
          /\ {b.dtb, b.totalsize} \subseteq Nat
          /\ {b.off_struct, b.size_struct, b.off_strings, b.size_strings} \subseteq 0 .. W - 1

DTB_BEGIN_NODE == 1
DTB_END_NODE   == 2
DTB_PROP       == 3
DTB_NOP        == 4
DTB_END        == 9

NotToken == R - 1
Num(v) == [v |-> v, s |-> ""]
Str(s) == [v |-> NotToken, s |-> s]
NoNode == 0

VARIABLES
    blob,             \* the blob this boot got
    phase,            \* where dtb_parse is
    cur,              \* the cursor, in cells from the start of the structure block
    ahead,            \* the look-ahead of the node on top of the stack
    stack,            \* nodes being parsed, innermost last
    nodes,            \* the node pool: nodes[i] is slot i - 1
    prop_used,
    early_heap_ptr,   \* bytes of the early heap handed out
    err,              \* the result of dtb_parse
    tree              \* root, memory and compatible of dtb_tree_t

dtbVars == <<blob, phase, cur, ahead, stack, nodes, prop_used, early_heap_ptr, err, tree>>

Top == stack[Len(stack)]
ScanFrom(pos) == [pos |-> pos, depth |-> 0, count |-> 0]
EmptyTree == [root |-> NoNode, memory |-> <<>>, compatible |-> ""]

DtbInit ==
    /\ blob \in Blobs
    /\ phase = "call" /\ cur = 0 /\ ahead = ScanFrom(0)
    /\ stack = <<>> /\ nodes = <<>> /\ prop_used = 0
    /\ early_heap_ptr = 0 /\ err = "none" /\ tree = EmptyTree

-----------------------------------------------------------------------------
(* Reading memory.                                                         *)

\* The cells, from the blob's start, of the page where the first stack was.
Spoiled == (FIRST_STACK - 1) * PAGE_WORDS .. FIRST_STACK * PAGE_WORDS - 1

\* The cell a cells behind the start of the blob, and its page.
At(a) == IF a < Len(blob.cells) /\ a \notin Spoiled THEN blob.cells[a + 1] ELSE Around[a]
PageOf(a) == ((blob.dtb * PAGE_WORDS + a) % W) \div PAGE_WORDS

\* Places in the structure block and in the strings block.
InBlock(pos) == (blob.off_struct + pos) % W
InStrings(nameoff) == (blob.off_strings + (nameoff \div 4)) % W

Cell(pos) == At(InBlock(pos))
be32_read(pos) == Cell(pos).v

\* n whole cells from pos lie in the structure block, which must not wrap.
in_struct(pos, n) ==
    /\ ((blob.dtb * PAGE_WORDS + blob.off_struct) % W) + blob.size_struct < W
    /\ pos + n <= blob.size_struct

\* Cells that len bytes occupy once padded.
Padded(len) == (len + 3) \div 4
Data(pos, len) == [k \in 1 .. Padded(len) |-> Cell(pos + k - 1)]

\* Where the cursor goes on behind plen bytes of data at pos.
Skip(pos, plen) == ((4 * pos + plen + 3) % R) \div 4

U32Names == {"#address-cells", "#size-cells", "#interrupt-cells", "interrupt-parent",
             "phandle", "linux,phandle", "clock-frequency", "timebase-frequency",
             "virtual-reg", "cache-line-size", "cache-sets", "cache-size"}

\* A cell is text when it holds a string with its NUL or only NUL bytes.
IsText(cell) == cell.s # "" \/ cell.v = 0

\* guess_type: more than one NUL makes a list.
guess_type(name, data, len) ==
    IF len = 0 THEN "empty"
    ELSE IF name \in U32Names /\ len = 4 THEN "u32"
    ELSE IF name = "clock-output-names" /\ len = 8 THEN "u64"
    ELSE IF \A k \in DOMAIN data : IsText(data[k])
      THEN IF Len(data) = 1 /\ data[1].s # "" THEN "string" ELSE "strings"
    ELSE IF len % 4 = 0 THEN "cells" ELSE "bytes"

\* The cells guess_type reads: all of the data, or up to the first that is no text.
Guessed(pos, len) ==
    {k \in 0 .. Padded(len) - 1 : \A j \in 0 .. k - 1 : IsText(Cell(pos + j))}

-----------------------------------------------------------------------------
(* Queries on a parsed tree.                                               *)

\* dtb_get_prop: the index of the first property of that name, 0 for none.
dtb_get_prop(n, name) ==
    LET hits == {k \in DOMAIN nodes[n].props : nodes[n].props[k].name = name}
    IN  IF hits = {} THEN 0 ELSE CHOOSE k \in hits : \A j \in hits : k <= j

Prop(n, name) == nodes[n].props[dtb_get_prop(n, name)]
Has(n, name) == dtb_get_prop(n, name) # 0

\* count big-endian cells at pos as one u64: what does not fit is shifted out.
Cells(pos, count) ==
    CASE count = 0 -> 0
      [] count = 1 -> be32_read(pos)
      [] OTHER -> be32_read(pos + count - 2) * R + be32_read(pos + count - 1)

\* The reg entry at pos with ac address and sc size cells.
RegPair(pos, ac, sc) == [base |-> Cells(pos, ac), size |-> Cells(pos + ac, sc)]

entry_bytes(ac, sc) == ((ac + sc) * 4) % R

\* Mutant of dtb_reg_entry: the cells of the node itself are used.
RegOwnCells(n, i) ==
    LET bytes == entry_bytes(nodes[n].ac, nodes[n].sc)
    IN  IF ~ Has(n, "reg") \/ bytes = 0 \/ ((i + 1) * bytes) % R > Prop(n, "reg").len THEN <<>>
        ELSE <<RegPair(Prop(n, "reg").at + i * (bytes \div 4), nodes[n].ac, nodes[n].sc)>>

\* dtb_reg_entry: the pair in a sequence of its own, or the empty sequence.
dtb_reg_entry(n, i) ==
    LET up == nodes[n].parent
        ac == IF up = NoNode THEN 2 ELSE nodes[up].ac
        sc == IF up = NoNode THEN 1 ELSE nodes[up].sc
        bytes == entry_bytes(ac, sc)
    IN  IF ~ Has(n, "reg") \/ bytes = 0 \/ ((i + 1) * bytes) % R > Prop(n, "reg").len THEN <<>>
        ELSE <<RegPair(Prop(n, "reg").at + i * (bytes \div 4), ac, sc)>>

\* find_in_children: the first child called segment, or segment@something.
find_in_children(n, segment) ==
    LET kids == nodes[n].kids
        hits == {k \in DOMAIN kids : segment \in {nodes[kids[k]].name, BaseName[nodes[kids[k]].name]}}
    IN  IF hits = {} THEN NoNode ELSE kids[CHOOSE k \in hits : \A j \in hits : k <= j]

\* dtb_find_node: path is the sequence of segments; empty ones are skipped.
dtb_find_node(path) ==
    LET at[k \in 0 .. Len(path)] ==
          IF k = 0 THEN tree.root
          ELSE IF at[k - 1] = NoNode \/ path[k] = "" THEN at[k - 1]
          ELSE find_in_children(at[k - 1], path[k])
    IN at[Len(path)]

\* The scans of dtb_find_phandle and dtb_find_compatible: depth first, a node
\* before its children, children in order.  fuel bounds the depth.
Preorder(root) ==
    LET visit[fuel \in 0 .. Len(nodes)] ==
          [n \in 1 .. Len(nodes) |->
             LET kids == nodes[n].kids
                 upto[k \in 0 .. Len(kids)] ==
                   IF k = 0 THEN <<n>> ELSE upto[k - 1] \o visit[fuel - 1][kids[k]]
             IN  IF fuel = 0 THEN <<n>> ELSE upto[Len(kids)]]
    IN visit[Len(nodes)][root]

First(test(_)) ==
    LET order == Preorder(tree.root)
        hits == {k \in DOMAIN order : test(order[k])}
    IN  IF hits = {} THEN NoNode ELSE order[CHOOSE k \in hits : \A j \in hits : k <= j]

dtb_find_phandle(ph) ==
    IF ph = 0 THEN NoNode ELSE First(LAMBDA n : nodes[n].phandle = ph)

node_has_compat(n, c) ==
    /\ Has(n, "compatible")
    /\ \E k \in 1 .. Padded(Prop(n, "compatible").len) :
          Cell(Prop(n, "compatible").at + k - 1).s = c

dtb_find_compatible(c) == First(LAMBDA n : node_has_compat(n, c))

-----------------------------------------------------------------------------
(* Parsing.                                                                *)

Return(e) ==
    /\ phase' = "done" /\ err' = e
    /\ UNCHANGED <<blob, cur, ahead, stack, nodes, prop_used, early_heap_ptr, tree>>

\* early_malloc: whether size bytes fit, and the pointer afterwards.
early_malloc(ptr, size) ==
    IF ptr + size > EARLY_HEAP_SIZE THEN [ok |-> FALSE, ptr |-> ptr]
                                    ELSE [ok |-> TRUE, ptr |-> ptr + size]

\* The pools are asked for one after the other, and checked together.
AllocPools ==
    LET node_pool == early_malloc(early_heap_ptr, NODE_POOL)
        prop_pool == early_malloc(node_pool.ptr, PROP_POOL)
    IN  /\ early_heap_ptr' = prop_pool.ptr
        /\ IF node_pool.ok /\ prop_pool.ok
             THEN phase' = "root" /\ UNCHANGED err
             ELSE phase' = "done" /\ err' = "nomem"
        /\ UNCHANGED <<blob, cur, ahead, stack, nodes, prop_used, tree>>

\* What is wrong with the header.  kmain passes totalsize as the blob's length, so
\* the comparison of the two never fails; the sums are taken modulo 2^32.
HeaderError ==
    IF blob.totalsize < HEADER_SIZE THEN "truncated"
    ELSE IF ~ blob.magic THEN "magic"
    ELSE IF \/ (blob.off_struct + blob.size_struct) % W > blob.totalsize
            \/ (blob.off_strings + blob.size_strings) % W > blob.totalsize THEN "truncated"
    ELSE "none"

dtb_parse ==
    /\ phase = "call"
    /\ IF HeaderError # "none" THEN Return(HeaderError) ELSE AllocPools

\* Mutant of FindRoot: a no-op is not stepped over.
FindRootStuck ==
    /\ phase = "root"
    /\ IF in_struct(cur, 1) /\ be32_read(cur) \in {DTB_NOP, DTB_BEGIN_NODE}
         THEN /\ be32_read(cur) = DTB_BEGIN_NODE
              /\ phase' = "enter"
              /\ cur' = cur + 1
              /\ UNCHANGED <<blob, ahead, stack, nodes, prop_used, early_heap_ptr, err, tree>>
         ELSE Return("corrupt")

\* Look for the first DTB_BEGIN_NODE: only no-ops may come before it.
FindRoot ==
    /\ phase = "root"
    /\ IF in_struct(cur, 1) /\ be32_read(cur) \in {DTB_NOP, DTB_BEGIN_NODE}
         THEN /\ phase' = IF be32_read(cur) = DTB_NOP THEN "root" ELSE "enter"
              /\ cur' = cur + 1
              /\ UNCHANGED <<blob, ahead, stack, nodes, prop_used, early_heap_ptr, err, tree>>
         ELSE Return("corrupt")

\* alloc_node, and the fields the start of parse_node sets: a child starts
\* with the cells of its parent.
NewNode(parent) ==
    [name |-> Cell(cur).s, parent |-> parent, kids |-> <<>>, props |-> <<>>,
     phandle |-> 0, room |-> 0,
     ac |-> IF parent = NoNode THEN 2 ELSE nodes[parent].ac,
     sc |-> IF parent = NoNode THEN 1 ELSE nodes[parent].sc]

\* The start of parse_node: the name, and alloc_node.
EnterNode ==
    /\ phase = "enter"
    /\ IF Len(nodes) >= DTB_MAX_NODES
         THEN Return("corrupt")
         ELSE /\ nodes' = Append(nodes, NewNode(IF stack = <<>> THEN NoNode ELSE Top))
              /\ stack' = Append(stack, Len(nodes) + 1)
              /\ cur' = cur + 1 /\ ahead' = ScanFrom(cur + 1)
              /\ phase' = "ahead"
              /\ UNCHANGED <<blob, prop_used, early_heap_ptr, err, tree>>

\* The look-ahead stops at the end of its node, at DTB_END and out of bounds.
Stopped(a) ==
    \/ ~ in_struct(a.pos, 1)
    \/ be32_read(a.pos) = DTB_END
    \/ be32_read(a.pos) = DTB_END_NODE /\ a.depth = 0
    \/ be32_read(a.pos) = DTB_PROP /\ ~ in_struct(a.pos + 1, 2)

\* One round of its loop: it counts the properties of its own node.
Onward(a) ==
    CASE be32_read(a.pos) = DTB_END_NODE -> [a EXCEPT !.pos = @ + 1, !.depth = @ - 1]
      [] be32_read(a.pos) = DTB_BEGIN_NODE -> [a EXCEPT !.pos = @ + 2, !.depth = (@ + 1) % R]
      [] be32_read(a.pos) = DTB_PROP ->
           [a EXCEPT !.pos = Skip(@ + 3, be32_read(@ + 1)),
                     !.count = IF a.depth = 0 THEN (@ + 1) % R ELSE @]
      [] OTHER -> [a EXCEPT !.pos = @ + 1]

LookAhead ==
    /\ phase = "ahead" /\ ~ Stopped(ahead)
    /\ ahead' = Onward(ahead)
    /\ UNCHANGED <<blob, phase, cur, stack, nodes, prop_used, early_heap_ptr, err, tree>>

\* Mutant of NoProps: the slots asked for are not counted.
NoPropsLate(count) == prop_used > DTB_MAX_PROPS

\* alloc_props fails.
NoProps(count) == (prop_used + count) % R > DTB_MAX_PROPS

\* alloc_props: the slots of the node are the next count of the pool.
AllocProps ==
    /\ phase = "ahead" /\ Stopped(ahead)
    /\ IF NoProps(ahead.count)
         THEN Return("corrupt")
         ELSE /\ nodes' = [nodes EXCEPT ![Top].room = ahead.count]
              /\ prop_used' = (prop_used + ahead.count) % R
              /\ phase' = "body"
              /\ UNCHANGED <<blob, cur, ahead, stack, early_heap_ptr, err, tree>>

\* The pool after the property at the cursor has been read into node n.
AddProp(n, name, plen) ==
    LET v == be32_read(cur + 3)
        p == [name |-> name, at |-> cur + 3, len |-> plen,
              type |-> guess_type(name, Data(cur + 3, plen), plen)]
    IN  [nodes EXCEPT ![n].props = Append(@, p),
                      ![n].ac = IF name = "#address-cells" /\ plen = 4 THEN v ELSE @,
                      ![n].sc = IF name = "#size-cells" /\ plen = 4 THEN v ELSE @,
                      ![n].phandle = IF name \in {"phandle", "linux,phandle"} /\ plen = 4
                                       THEN v ELSE @]

\* The property at the cursor is cut short, has no name, or was not counted.
BadProp ==
    \/ ~ in_struct(cur + 1, 2)
    \/ be32_read(cur + 2) >= 4 * blob.size_strings
    \/ Len(nodes[Top].props) >= nodes[Top].room

\* case DTB_PROP of parse_node.
ReadProp ==
    /\ phase = "body" /\ in_struct(cur, 1) /\ be32_read(cur) = DTB_PROP
    /\ LET plen == be32_read(cur + 1)
           nameoff == be32_read(cur + 2)
       IN IF BadProp
            THEN Return("corrupt")
            ELSE /\ nodes' = AddProp(Top, At(InStrings(nameoff)).s, plen)
                 /\ cur' = Skip(cur + 3, plen)
                 /\ UNCHANGED <<blob, phase, ahead, stack, prop_used, early_heap_ptr, err, tree>>

\* Mutant of LeaveNode: a child becomes the first of its siblings.
LeaveNodeFront ==
    /\ phase = "body" /\ in_struct(cur, 1) /\ be32_read(cur) \in {DTB_END_NODE, DTB_END}
    /\ cur' = cur + 1
    /\ stack' = SubSeq(stack, 1, Len(stack) - 1)
    /\ IF stack' = <<>>
         THEN phase' = "extract" /\ UNCHANGED nodes
         ELSE /\ nodes' = [nodes EXCEPT ![nodes[Top].parent].kids = <<Top>> \o @]
              /\ UNCHANGED phase
    /\ UNCHANGED <<blob, ahead, prop_used, early_heap_ptr, err, tree>>

\* DTB_END_NODE or DTB_END: parse_node returns; its caller appends the node to
\* the children.
LeaveNode ==
    /\ phase = "body" /\ in_struct(cur, 1) /\ be32_read(cur) \in {DTB_END_NODE, DTB_END}
    /\ cur' = cur + 1
    /\ stack' = SubSeq(stack, 1, Len(stack) - 1)
    /\ IF stack' = <<>>
         THEN phase' = "extract" /\ UNCHANGED nodes
         ELSE /\ nodes' = [nodes EXCEPT ![nodes[Top].parent].kids = Append(@, Top)]
              /\ UNCHANGED phase
    /\ UNCHANGED <<blob, ahead, prop_used, early_heap_ptr, err, tree>>

\* A child begins; no-ops and unknown words are skipped.
OtherToken ==
    /\ phase = "body" /\ in_struct(cur, 1)
    /\ be32_read(cur) \notin {DTB_PROP, DTB_END_NODE, DTB_END}
    /\ phase' = IF be32_read(cur) = DTB_BEGIN_NODE THEN "enter" ELSE "body"
    /\ cur' = cur + 1
    /\ UNCHANGED <<blob, ahead, stack, nodes, prop_used, early_heap_ptr, err, tree>>

\* The block ends inside a node.
OutOfBlock == phase = "body" /\ ~ in_struct(cur, 1) /\ Return("corrupt")

\* extract_memory skips a child that says it is some other device.
IsMemory(n) ==
    LET dt == IF Has(n, "device_type") THEN "device_type" ELSE "device-type"
    IN  /\ nodes[n].name \in MemoryNames
        /\ Has(n, dt) => Prop(n, dt).len # 0 /\ Cell(Prop(n, dt).at).s = "memory"
        /\ Has(n, "reg")

\* The whole entries of every memory node, at most MEMORY_MAX, by their places.
\* Without any cells there are none: a Cortex-A15 divides by zero to zero.
MemoryEntries(root) ==
    LET kids == nodes[root].kids
        bytes == entry_bytes(nodes[root].ac, nodes[root].sc)
        count(n) == IF bytes = 0 THEN 0 ELSE Prop(n, "reg").len \div bytes
        entries(n) == [i \in 1 .. count(n) |-> Prop(n, "reg").at + (i - 1) * (bytes \div 4)]
        found[k \in 0 .. Len(kids)] ==
          IF k = 0 THEN <<>>
          ELSE found[k - 1] \o IF IsMemory(kids[k]) THEN entries(kids[k]) ELSE <<>>
        all == found[Len(kids)]
    IN  SubSeq(all, 1, IF Len(all) < MEMORY_MAX THEN Len(all) ELSE MEMORY_MAX)

extract_memory(root) ==
    LET places == MemoryEntries(root)
    IN  [i \in 1 .. Len(places) |-> RegPair(places[i], nodes[root].ac, nodes[root].sc)]

\* The rest of dtb_parse.
Extract ==
    /\ phase = "extract"
    /\ tree' = [root |-> 1,
                memory |-> extract_memory(1),
                compatible |-> IF Has(1, "compatible") /\ Prop(1, "compatible").len > 0
                                 THEN Cell(Prop(1, "compatible").at).s ELSE ""]
    /\ phase' = "done" /\ err' = "ok"
    /\ UNCHANGED <<blob, cur, ahead, stack, nodes, prop_used, early_heap_ptr>>

DtbNext ==
    \/ dtb_parse \/ FindRoot \/ EnterNode \/ LookAhead \/ AllocProps
    \/ ReadProp \/ LeaveNode \/ OtherToken \/ OutOfBlock \/ Extract

-----------------------------------------------------------------------------
(* What a step reads, in cells from the start of the blob.                 *)

Token(pos) == {InBlock(p) : p \in {q \in {pos} : in_struct(q, 1)}}

\* A property at pos in the block, up to its data.
PropHead(pos) ==
    IF in_struct(pos, 1) /\ be32_read(pos) = DTB_PROP /\ in_struct(pos + 1, 2)
      THEN {InBlock(pos + 1), InBlock(pos + 2)} ELSE {}

\* The name and the data of the property at the cursor.
PropData ==
    IF in_struct(cur, 1) /\ be32_read(cur) = DTB_PROP /\ ~ BadProp
      THEN {InStrings(be32_read(cur + 2))}
             \cup {InBlock(cur + 3 + k) : k \in Guessed(cur + 3, be32_read(cur + 1))}
      ELSE {}

\* The entries extract_memory takes; what else it reads, guess_type has read.
Ranges ==
    {InBlock(MemoryEntries(1)[i] + c) :
        i \in DOMAIN MemoryEntries(1), c \in 0 .. nodes[1].ac + nodes[1].sc - 1}

\* kmain then finds /chosen and reads all of rng-seed.
Seed ==
    LET n == find_in_children(1, "chosen")
    IN  IF n # NoNode /\ Has(n, "rng-seed")
          THEN {InBlock(Prop(n, "rng-seed").at + k) : k \in 0 .. (Prop(n, "rng-seed").len \div 4) - 1}
          ELSE {}

Words ==
    CASE phase = "call"    -> 0 .. HEADER_SIZE - 1
      [] phase = "root"    -> Token(cur)
      [] phase = "enter"   -> Token(cur)
      [] phase = "ahead"   -> Token(ahead.pos) \cup PropHead(ahead.pos)
      [] phase = "body"    -> Token(cur) \cup PropHead(cur) \cup PropData
      [] phase = "extract" -> Ranges \cup Seed
      [] OTHER             -> {}
=============================================================================
