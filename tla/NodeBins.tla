------------------------------ MODULE NodeBins ------------------------------
(***************************************************************************)
(* The small-object bins of the page allocator, as addresses: pages cut    *)
(* into units of one size, a header in front of each, and node_free, which *)
(* tells pages from units by alignment.  The page allocator is a customer  *)
(* of its own bins: the node of each block on its free lists is a unit,    *)
(* which buddy_alloc and buddy_free draw from bins[1] and free to bins[0]. *)
(*                                                                         *)
(* Addresses count cells.  Which pages make up a free block is left open:  *)
(* Buddy has the blocks, here any free page may come from buddy_alloc, as  *)
(* long as there can be so many blocks.                                    *)
(***************************************************************************)
EXTENDS Integers, SequencesExt, FiniteSets

CONSTANTS
  NPages,      \* pages of the allocator
  PageSize,    \* cells of a page (4096 bytes)
  HeaderSize,  \* sizeof(struct node_alloc_node) (16 bytes)
  BinSize,     \* binsize (16, 64, 128, 256 bytes)
  Requests,    \* sizes asked for, at most a page
  MaxLive      \* bound: blocks handed out at a time

ASSUME BinsAssumption ==
  /\ NPages \in Nat /\ PageSize \in Nat \ {0} /\ HeaderSize \in Nat \ {0}
  /\ BinSize \in Seq(Nat \ {0}) /\ Len(BinSize) >= 2
  /\ \A i, j \in DOMAIN BinSize : i < j => BinSize[i] < BinSize[j]
  /\ PageSize % HeaderSize = 0 /\ \A i \in DOMAIN BinSize : BinSize[i] % HeaderSize = 0
  /\ Requests \subseteq 1 .. PageSize

VARIABLES
  page,    \* what each page is: "free", "bin", "user", or "cur": of the block being freed
  head,    \* bins[i]: its page's first unit, which is never handed out
  list,    \* the units behind bins[i], by the address of their header
  size,    \* the size field of each header written
  nodes,   \* units that hold the nodes of the blocks on the free lists
  node,    \* n of buddy_free: the unit of the node of the block being freed, or NONE
  found,   \* c of buddy_free: the unit of the neighbor's node, or NONE
  want,    \* what buddy_alloc is called for: the request and its bin, or bin 0
  live,    \* blocks handed out: [ptr, asked, unit]
  dropped, \* ghost: units of bins[0] that a refill has cut off
  spilt,   \* ghost: a unit that leaves its page has been handed out
  pc       \* where the allocator is, "run" when nowhere; see Phases

vars == <<page, head, list, size, nodes, node, found, want, live, dropped, spilt, pc>>

\* "alloc": in buddy_alloc; "free": buddy_free draws its node; "merge": at the
\* test of its while; "unlink": it has found the neighbor's node; "bug": at a
\* while(1); "wild": it has freed a page that is not free to be freed, or followed
\* a node that was.
Phases == {"run", "alloc", "free", "merge", "unlink", "bug", "wild"}

Pages == 0 .. NPages - 1
Bins  == DOMAIN BinSize
NONE  == -1
Free  == {p \in Pages : page[p] = "free"}
Cur   == {p \in Pages : page[p] = "cur"}

----------------------------------------------------------------------------
(* Units *)

Full(s) == HeaderSize + s

\* How many turns the loop of node_alloc_init makes, the first unit included:
\* while i < size, whether the last unit fits or not.
UnitCount(s) == (PageSize + Full(s) - 1) \div Full(s)

\* node_alloc_init: the units of size s in page p, linked in order.
Units(p, s) == [k \in 1 .. UnitCount(s) |-> p * PageSize + (k - 1) * Full(s)]

Sized(p, s) ==
  [a \in DOMAIN size \cup ToSet(Units(p, s)) |-> IF a \in ToSet(Units(p, s)) THEN s ELSE size[a]]

Payload(a) == a + HeaderSize

\* Mutant: the header is forgotten.
SamePlace(ptr) == ptr

HeaderOf(ptr) == ptr - HeaderSize

\* Whether a unit of size s at a leaves its page.
Spills(a, s) == (a % PageSize) + Full(s) > PageSize

\* sizeof(struct buddy_alloc_node) is the size of bins[0], which the strict test
\* of buddy_malloc takes for too small: nodes are drawn from bins[1].
NodeSize == BinSize[1]
NodeBin  == 2

\* As many blocks on the free lists as there are nodes: one of them may be, or all
\* may be larger than, a single page.
HasOnePage == nodes # {} /\ (Cardinality(nodes) = 1 => Cardinality(Free) = 1)
NoOnePage  == Cardinality(Free) >= 2 * Cardinality(nodes)

\* buddy_malloc_init: a page for each bin; bins[0], the allocator's own from the
\* start, has given the nodes of k blocks.
Init ==
  /\ head \in [Bins -> {p * PageSize : p \in Pages}]
  /\ \A b, d \in Bins : b # d => head[b] # head[d]
  /\ page = [p \in Pages |-> IF p * PageSize \in Range(head) THEN "bin" ELSE "free"]
  /\ \E k \in 0 .. Cardinality(Free) :
       LET units(b) == Tail(Units(head[b] \div PageSize, BinSize[b]))
       IN /\ k <= Len(units(1)) /\ (k = 0 => Free = {})
          /\ nodes = {units(1)[i] : i \in 1 .. k}
          /\ list = [b \in Bins |-> IF b = 1 THEN SubSeq(units(1), k + 1, Len(units(1))) ELSE units(b)]
  /\ size = [a \in UNION {ToSet(Units(head[b] \div PageSize, BinSize[b])) : b \in Bins} |->
               BinSize[CHOOSE b \in Bins : a \in ToSet(Units(head[b] \div PageSize, BinSize[b]))]]
  /\ node = NONE /\ found = NONE /\ want = [size |-> 0, bin |-> 0]
  /\ live = {} /\ dropped = {} /\ pc = "run"
  /\ spilt = \E a \in nodes : Spills(a, NodeSize)

----------------------------------------------------------------------------
(* buddy_malloc *)

\* Mutant: what is asked for is compared with the unit and its header.
WithHeader(x, b) == Full(BinSize[b]) >= x

Holds(x, b) == BinSize[b] > x

\* The first bin whose units are larger than x.
Serves(b, x) == Holds(x, b) /\ \A d \in Bins : d < b => ~Holds(x, d)

Grant(ptr, x, unit) == live' = live \cup {[ptr |-> ptr, asked |-> x, unit |-> unit]}

Asks(x) == pc = "run" /\ Cardinality(live) < MaxLive

\* Handing out a unit of size s at a.
Lend(a, s) == spilt' = (spilt \/ Spills(a, s))

\* node_alloc(bins[b])
UnitMalloc(x) ==
  /\ Asks(x)
  /\ \E b \in Bins :
       /\ Serves(b, x) /\ list[b] # <<>>
       /\ Grant(Payload(Head(list[b])), x, TRUE)
       /\ list' = [list EXCEPT ![b] = Tail(@)]
       /\ Lend(Head(list[b]), size[Head(list[b])])
  /\ UNCHANGED <<page, head, size, nodes, node, found, want, dropped, pc>>

\* buddy_alloc is called for a request of a page, or by rejuv_node_alloc.
Begin(x, b) ==
  /\ Asks(x) /\ nodes # {}
  /\ want' = [size |-> x, bin |-> b] /\ pc' = "alloc"
  /\ UNCHANGED <<page, head, list, size, nodes, node, found, live, dropped, spilt>>

Rejuvenate(x) == \E b \in Bins : Serves(b, x) /\ list[b] = <<>> /\ Begin(x, b)
PageMalloc(x) == (\A b \in Bins : ~Holds(x, b)) /\ Begin(x, 0)

\* CANT REJUV BINS: there is no block.
MallocBug(x) ==
  /\ Asks(x) /\ nodes = {}
  /\ \E b \in Bins : Serves(b, x) /\ list[b] = <<>>
  /\ pc' = "bug"
  /\ UNCHANGED <<page, head, list, size, nodes, node, found, want, live, dropped, spilt>>

----------------------------------------------------------------------------
(* buddy_alloc *)

\* A block is split in two: their nodes n1 and n2 come from bins[1], its own goes to
\* bins[0].
Split ==
  /\ pc = "alloc" /\ NoOnePage /\ Len(list[NodeBin]) >= 2
  /\ LET n1 == Head(list[NodeBin])
         n2 == Head(Tail(list[NodeBin]))
     IN \E m \in nodes :
          /\ nodes' = (nodes \ {m}) \cup {n1, n2}
          /\ list' = [list EXCEPT ![NodeBin] = Tail(Tail(@)), ![1] = <<m>> \o @]
          /\ spilt' = (spilt \/ Spills(n1, size[n1]) \/ Spills(n2, size[n2]))
  /\ UNCHANGED <<page, head, size, node, found, want, live, dropped, pc>>

\* bins[1] runs out in the middle of a split: its refill has to split as well, and
\* so on until no block is left.  So it does in buddy_free, before a split.
NodeBug ==
  /\ \/ pc = "alloc" /\ Len(list[NodeBin]) < 2
     \/ pc \in {"free", "unlink"} /\ list[NodeBin] = <<>>
  /\ NoOnePage
  /\ pc' = "bug"
  /\ UNCHANGED <<page, head, list, size, nodes, node, found, want, live, dropped, spilt>>

\* A block of one page is taken, and its node m goes to bins[0].
TakePage(m, p) ==
  /\ want.bin = 0
  /\ page' = [page EXCEPT ![p] = "user"]
  /\ list' = [list EXCEPT ![1] = <<m>> \o @]
  /\ Grant(p * PageSize, want.size, FALSE)
  /\ UNCHANGED <<size, dropped, spilt>>

\* rejuv_node_alloc: the page is cut into units of the size that the head says, the
\* first of them handed out at once.  The list that bins[0] had by then is lost.
TakeUnits(m, p) ==
  /\ want.bin # 0
  /\ LET b == want.bin
         s == size[head[b]]
         units == Units(p, s)
     IN /\ page' = [page EXCEPT ![p] = "bin"]
        /\ size' = Sized(p, s)
        /\ \/ /\ b = 1
              /\ list' = [list EXCEPT ![1] = Tail(units)]
              /\ dropped' = dropped \cup ToSet(list[1]) \cup {m}
           \/ /\ b # 1
              /\ list' = [list EXCEPT ![b] = Tail(units), ![1] = <<m>> \o @]
              /\ UNCHANGED dropped
        /\ Grant(Payload(Head(units)), want.size, TRUE)
        /\ Lend(Head(units), s)

Take ==
  /\ pc = "alloc" /\ HasOnePage
  /\ \E m \in nodes, p \in Free :
       nodes' = nodes \ {m} /\ (TakePage(m, p) \/ TakeUnits(m, p))
  /\ pc' = "run" /\ want' = [size |-> 0, bin |-> 0]
  /\ UNCHANGED <<head, node, found>>

----------------------------------------------------------------------------
(* node_free, buddy_free *)

\* __builtin_ctzll(ptr) >= 12
IsPage(ptr) == ptr % PageSize = 0

\* nfree into the bin of the size that the header says.
UnitFree(g) ==
  /\ pc = "run" /\ ~IsPage(g.ptr)
  /\ live' = live \ {g}
  /\ \E b \in Bins :
       /\ size[g.ptr - HeaderSize] = BinSize[b]
       /\ list' = [list EXCEPT ![b] = <<HeaderOf(g.ptr)>> \o @]
  /\ UNCHANGED <<page, head, size, nodes, node, found, want, dropped, spilt, pc>>

\* buddy_free is called with what is aligned as a page.  What follows when it was
\* the payload of a unit is not modelled.
PageFree(g) ==
  /\ pc = "run" /\ IsPage(g.ptr)
  /\ live' = live \ {g}
  /\ IF g.unit
       THEN pc' = "wild" /\ UNCHANGED page
       ELSE pc' = "free" /\ page' = [page EXCEPT ![g.ptr \div PageSize] = "cur"]
  /\ UNCHANGED <<head, list, size, nodes, node, found, want, dropped, spilt>>

\* A node for the block.
FreeNode ==
  /\ pc = "free" /\ list[NodeBin] # <<>>
  /\ node' = Head(list[NodeBin])
  /\ list' = [list EXCEPT ![NodeBin] = Tail(@)]
  /\ Lend(node', size[node'])
  /\ pc' = "merge"
  /\ UNCHANGED <<page, head, size, nodes, found, want, live, dropped>>

\* The neighbor is free, as large as the block, and its node found.
MergeFind ==
  /\ pc = "merge"
  /\ IF Cardinality(nodes) = 1 THEN Cardinality(Free) = Cardinality(Cur)
       ELSE Cardinality(Free) - Cardinality(Cur) >= Cardinality(nodes) - 1
  /\ found' \in nodes /\ pc' = "unlink"
  /\ UNCHANGED <<page, head, list, size, nodes, node, want, live, dropped, spilt>>

\* The merged block gets a node of its own; those of its halves go to bins[0].
Unlink ==
  /\ pc = "unlink" /\ list[NodeBin] # <<>>
  /\ node' = Head(list[NodeBin]) /\ found' = NONE
  /\ nodes' = nodes \ {found}
  /\ list' = [list EXCEPT ![NodeBin] = Tail(@), ![1] = <<found>> \o (<<node>> \o @)]
  /\ Lend(node', size[node'])
  /\ \E S \in SUBSET Free :
       /\ Cardinality(S) = Cardinality(Cur)
       /\ page' = [p \in Pages |-> IF p \in S THEN "cur" ELSE page[p]]
  /\ pc' = "merge"
  /\ UNCHANGED <<head, size, want, live, dropped>>

\* bins[1] runs out in buddy_free, and a block of one page is there to refill it.
\* If that is the neighbor found, or the one in front of it in the list, what
\* follows is not modelled.
NodeRefill ==
  /\ pc \in {"free", "unlink"} /\ list[NodeBin] = <<>> /\ HasOnePage
  /\ \E m \in nodes, p \in Free :
       LET s == size[head[NodeBin]]
       IN /\ nodes' = nodes \ {m}
          /\ page' = [page EXCEPT ![p] = "bin"]
          /\ size' = Sized(p, s)
          /\ list' = [list EXCEPT ![NodeBin] = Units(p, s), ![1] = <<m>> \o @]
          /\ pc' \in IF m = found THEN {"wild"} ELSE IF found = NONE THEN {pc} ELSE {pc, "wild"}
  /\ UNCHANGED <<head, node, found, want, live, dropped, spilt>>

\* The block goes to the head of its list.
FreeDone ==
  /\ pc = "merge"
  /\ nodes' = nodes \cup {node} /\ node' = NONE
  /\ page' = [p \in Pages |-> IF p \in Cur THEN "free" ELSE page[p]]
  /\ pc' = "run"
  /\ UNCHANGED <<head, list, size, found, want, live, dropped, spilt>>

----------------------------------------------------------------------------
Next ==
  \/ \E x \in Requests : UnitMalloc(x) \/ Rejuvenate(x) \/ PageMalloc(x) \/ MallocBug(x)
  \/ Split \/ NodeBug \/ Take
  \/ \E g \in live : UnitFree(g) \/ PageFree(g)
  \/ FreeNode \/ MergeFind \/ Unlink \/ NodeRefill \/ FreeDone

Spec == Init /\ [][Next]_vars

----------------------------------------------------------------------------
(* Properties *)

Cells(g) == g.ptr .. g.ptr + g.asked - 1

\* The units that have a node of the allocator in them.
NodeUnits == nodes \cup ({node} \ {NONE})

Users == {g.ptr - HeaderSize : g \in {h \in live : h.unit}}
Lists == UNION {ToSet(list[b]) : b \in Bins}

\* What node_alloc_init writes and node_alloc reads, and the nodes of the free
\* lists.
Headers   == {a + i : a \in Range(head) \cup Lists \cup Users \cup NodeUnits, i \in 0 .. HeaderSize - 1}
NodeCells == {Payload(a) + i : a \in NodeUnits, i \in 0 .. NodeSize - 1}

\* No two blocks handed out share a cell, and none covers a header, or a node of
\* the allocator's own lists.
GrantsApart ==
  LET theirs == Headers \cup NodeCells
  IN \A g \in live :
       /\ Cells(g) \cap theirs = {}
       /\ \A h \in live : h # g => Cells(g) \cap Cells(h) = {}

\* As long as no unit that leaves its page is in use: whatever is asked for,
\* returned and refilled in whatever order, pages, units and the allocator's own
\* nodes stay apart.
ApartUnlessSpilt == ~spilt => GrantsApart

\* bins[0] also gets the nodes of bins[1] that the allocator frees.
Belongs(a, b) == size[a] = BinSize[b] \/ (b = 1 /\ size[a] = BinSize[NodeBin])

\* As long as no such unit is in use, every unit of a page cut into units is in one
\* place only: a bin's head, on one list of a size it can serve, with a caller, with
\* the allocator as a node, or among those that refills of bins[0] have cut off.
\* Such a page is never given back.
UnitsKept ==
  ~spilt =>
    LET used   == Users
        listed == Lists
        own    == Range(head) \cup NodeUnits \cup dropped
    IN /\ used \cup listed \cup own = DOMAIN size
       /\ used \cap listed = {} /\ (used \cup listed) \cap own = {}
       /\ Range(head) \cap (NodeUnits \cup dropped) = {} /\ NodeUnits \cap dropped = {}
       /\ node \notin nodes
       /\ \A b \in Bins : \A i \in DOMAIN list[b] :
            /\ Belongs(list[b][i], b)
            /\ \A j \in 1 .. i - 1 : list[b][j] # list[b][i]
       /\ \A b, d \in Bins : b < d => ToSet(list[b]) \cap ToSet(list[d]) = {}
       /\ \A a \in DOMAIN size : page[a \div PageSize] = "bin"
=============================================================================
