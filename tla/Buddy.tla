------------------------------- MODULE Buddy -------------------------------
(***************************************************************************)
(* The page frame allocator of lab5/shell/allocator.c: the table entries,  *)
(* one free list per order, the nodes the lists are made of, the boot-time *)
(* carving of memory into blocks, and buddy_alloc / buddy_free as driven   *)
(* by buddy_malloc and node_free.  The nodes matter: a split or a merge    *)
(* asks buddy_malloc(16) for them, and that call may take a page from the  *)
(* very lists that are being changed.                                      *)
(*                                                                         *)
(* A page is a number below NPages, a block a first page and an order.     *)
(* Units of the small bins are counted, their addresses are not modelled   *)
(* here.  bins[2] and bins[3] never serve nodes; they appear as the pages  *)
(* they take.                                                              *)
(***************************************************************************)
EXTENDS Integers, SequencesExt, FiniteSets

CONSTANTS
  NPages,     \* header->size / header->page_size
  MaxOrder,   \* header->order, after buddy_alloc_init lowered it
  TopOrder,   \* an order no block can have: bounds the lists of the model
  Size,       \* Size[k] is 1 << k, in pages
  Layouts,    \* the sets of pages buddy_alloc_reserve may have marked: the
              \* places of the archive and of the device tree vary
  BootUnits,  \* units node_alloc_init cuts out of the first page (nhead)
  PageUnits,  \* PageUnits[b]: units of a page that refills bin b (b = 0, 1)
  Requests,   \* sizes asked of buddy_malloc, in pages
  MaxLent     \* bound: small units of one bin in callers' hands

Pages  == 0 .. NPages - 1
Orders == 0 .. TopOrder
Bins   == {0, 1}
NONE   == -1
CHILD  == -9999              \* IS_CHILD

ASSUME SizeAssumption ==
  /\ NPages \in Nat /\ MaxOrder \in Nat /\ TopOrder \in Nat
  /\ NPages < 9999 /\ MaxOrder < TopOrder /\ TopOrder < 9000
  /\ Size \in [Orders -> Nat \ {0}]
  /\ Size[0] = 1
  /\ \A k \in 0 .. TopOrder - 1 : Size[k + 1] = 2 * Size[k]
  /\ Size[MaxOrder] <= NPages /\ NPages < Size[TopOrder]
ASSUME LayoutAssumption ==
  /\ Layouts \subseteq SUBSET Pages
  /\ \A R \in Layouts : NPages - 1 \notin R
ASSUME UnitsAssumption ==
  /\ BootUnits \in Nat /\ MaxLent \in Nat
  /\ PageUnits \in [Bins -> Nat] /\ \A b \in Bins : PageUnits[b] >= 2
ASSUME RequestsAssumption ==
  /\ Requests \subseteq Nat
  /\ \A p \in Requests : \E h \in 0 .. TopOrder - 1 : Size[h] <= p /\ p < Size[h + 1]

VARIABLES
  entries,   \* header->entries
  freelist,  \* header->freelist, the idx fields in list order
  frame,     \* buddy_alloc_init's frame
  pool,      \* units on the list of bins[0] (= nhead) and of bins[1]
  lent,      \* units of each bin in callers' hands
  dropped,   \* units bins[0]->next = next has cut off (history)
  held,      \* blocks that are on no list, with their owner
  made,      \* how many of bins[1..3] buddy_malloc_init has made
  pc,        \* where the running operation is
  req,       \* the buddy_alloc in progress
  cur,       \* the block buddy_free is returning (n and order)
  found      \* buddy_free's c and the node before it

vars == <<entries, freelist, frame, pool, lent, dropped, held, made, pc, req, cur, found>>

\* Blocks [i, i + Size[k]) and [j, j + Size[l]) have no page in common.
Apart(i, k, j, l) == i + Size[k] <= j \/ j + Size[l] <= i

\* idx ^ (1 << order)
Buddy(i, k) == IF (i \div Size[k]) % 2 = 0 THEN i + Size[k] ELSE i - Size[k]

MinOf(a, b) == IF a <= b THEN a ELSE b

\* 63 - clz(p)
Log(p) == CHOOSE h \in 0 .. TopOrder - 1 : Size[h] <= p /\ p < Size[h + 1]

\* The order buddy_alloc computes for a request of p pages.
OrderFor(p) == MinOf(IF p > Size[Log(p)] THEN Log(p) + 1 ELSE Log(p), MaxOrder)

Takers   == {"page", "bin0", "bin1", "user"}      \* who calls buddy_alloc
Owners   == Takers \cup {"reserved", "lost"}
PCs      == {"carve", "bins", "idle", "split", "free", "merge", "unlink",
             "cantrejuv", "lostmerge", "wild", "corrupt"}
Terminal == {"cantrejuv", "lostmerge", "wild", "corrupt"}
Freeing  == {"free", "merge", "unlink"}

Held(i, k, p, o) == [idx |-> i, order |-> k, pages |-> p, owner |-> o]
NoReq  == [pages |-> 0, order |-> 0, c |-> 0, for |-> "user"]
NoCur  == [idx |-> 0, order |-> 0]
NoFind == [idx |-> NONE, prev |-> NONE]

\* balloc_nalloc: internal_node_alloc (nhead) during the boot, buddy_malloc
\* of 16 bytes afterwards, which skips bins[0] because binsize[0] > 16 fails.
Booted  == made = 3
NodeBin == IF Booted THEN 1 ELSE 0

\* Mutant: the nfree calls are missing.
UseNodesOnly(n, back) ==
  pool' = [b \in Bins |-> pool[b] - (IF b = NodeBin THEN n ELSE 0)]

\* n nodes drawn from where balloc_nalloc finds them, back nodes nfree'd to nhead.
UseNodes(n, back) ==
  pool' = [b \in Bins |-> pool[b] - (IF b = NodeBin THEN n ELSE 0)
                                  + (IF b = 0 THEN back ELSE 0)]

----------------------------------------------------------------------------
(* Boot *)

\* p is the first page buddy_alloc_init finds unreserved: it becomes nhead.
FirstFree(R, p) == p \notin R /\ \A q \in 0 .. p - 1 : q \in R

Init ==
  /\ \E R \in Layouts, p \in Pages :
       /\ FirstFree(R, p)
       /\ entries = [q \in Pages |-> IF q \in R \cup {p} THEN -1 ELSE 0]
       /\ held = {Held(q, 0, 1, "reserved") : q \in R \cup {p}}
       /\ frame = p + 1
  /\ freelist = [k \in Orders |-> <<>>]
  /\ pool = [b \in Bins |-> IF b = 0 THEN BootUnits ELSE 0]
  /\ lent = [b \in Bins |-> 0] /\ dropped = 0
  /\ made = 0 /\ pc = "carve"
  /\ req = NoReq /\ cur = NoCur /\ found = NoFind

CarveSkip ==
  /\ pc = "carve" /\ frame < NPages /\ entries[frame] < 0
  /\ frame' = frame + 1
  /\ UNCHANGED <<entries, freelist, pool, lent, held, made, pc, req, cur, found, dropped>>

\* A block of order k fits before the next reserved page.
Fits(k) ==
  /\ frame + Size[k] <= NPages
  /\ \A p \in frame .. frame + Size[k] - 1 : entries[p] >= 0

\* The largest block that fits, at the tail of its list.  When the nhead page
\* has no unit left node_alloc returns NULL: the node is written at address 0
\* and *cur = NULL leaves the block on no list, with its order in entries.
CarveBlock ==
  /\ pc = "carve" /\ frame < NPages /\ entries[frame] >= 0
  /\ \E k \in 0 .. MaxOrder :
       /\ Fits(k)
       /\ k < MaxOrder => ~Fits(k + 1)
       /\ entries' = [p \in Pages |-> IF p = frame THEN k
                                      ELSE IF p \in frame + 1 .. frame + Size[k] - 1 THEN CHILD
                                      ELSE entries[p]]
       /\ frame' = frame + Size[k]
       /\ IF pool[0] > 0
          THEN /\ freelist' = [freelist EXCEPT ![k] = Append(@, frame)]
               /\ UseNodes(1, 0)
               /\ UNCHANGED held
          ELSE /\ held' = held \cup {Held(frame, k, Size[k], "lost")}
               /\ UNCHANGED <<freelist, pool>>
  /\ UNCHANGED <<lent, made, pc, req, cur, found, dropped>>

CarveDone ==
  /\ pc = "carve" /\ frame = NPages
  /\ pc' = "bins"
  /\ UNCHANGED <<entries, freelist, frame, pool, lent, held, made, req, cur, found, dropped>>

----------------------------------------------------------------------------
(* buddy_alloc *)

NoneFor(p) == \A c \in OrderFor(p) .. MaxOrder : freelist[c] = <<>>

\* next_lowest_avail_order is found; the loop that splits begins.
StartAlloc(p, o) ==
  /\ \E c \in OrderFor(p) .. MaxOrder :
       /\ freelist[c] # <<>>
       /\ \A d \in OrderFor(p) .. c - 1 : freelist[d] = <<>>
       /\ req' = [pages |-> p, order |-> OrderFor(p), c |-> c, for |-> o]
  /\ pc' = "split"
  /\ UNCHANGED <<entries, freelist, frame, pool, lent, held, made, cur, found, dropped>>

\* A caller that cannot live without the page: buddy_malloc_init uses NULL as
\* a page, buddy_malloc prints CANT REJUV BINS and stops.
StartOr(p, o, stop) ==
  \/ StartAlloc(p, o)
  \/ /\ NoneFor(p)
     /\ pc' = stop
     /\ UNCHANGED <<entries, freelist, frame, pool, lent, held, made, req, cur, found, dropped>>

BootBin == pc = "bins" /\ StartOr(1, IF made = 0 THEN "bin1" ELSE "page", "wild")

Malloc(p) == pc = "idle" /\ StartAlloc(p, "user")

\* buddy_alloc returns NULL to the caller of buddy_malloc.
MallocFails(p) == pc = "idle" /\ NoneFor(p) /\ UNCHANGED vars

\* A request below 16 bytes (bin 0) or below 64 bytes (bin 1).
UnitMalloc(b) ==
  /\ pc = "idle" /\ lent[b] < MaxLent /\ pool[b] > 0
  /\ pool' = [pool EXCEPT ![b] = @ - 1]
  /\ lent' = [lent EXCEPT ![b] = @ + 1]
  /\ UNCHANGED <<entries, freelist, frame, held, made, pc, req, cur, found, dropped>>

UnitMallocRefill(b) ==
  /\ pc = "idle" /\ lent[b] < MaxLent /\ pool[b] = 0
  /\ StartOr(1, IF b = 0 THEN "bin0" ELSE "bin1", "cantrejuv")

\* A request for bins[2] or bins[3] that finds its list empty.
PageMalloc == pc = "idle" /\ StartOr(1, "page", "cantrejuv")

\* node_free returns a unit to the bin that its header's size names.  A request
\* of bins[0] may have got a unit of 64 bytes, which was a node before and was
\* nfree'd to nhead: it goes to bins[1].
UnitFree(b) ==
  /\ pc = "idle" /\ lent[b] > 0
  /\ \E home \in b .. 1 : pool' = [pool EXCEPT ![home] = @ + 1]
  /\ lent' = [lent EXCEPT ![b] = @ - 1]
  /\ UNCHANGED <<entries, freelist, frame, held, made, pc, req, cur, found, dropped>>

\* Nodes the running operation is about to draw.
Needed == IF pc = "split" /\ req.c > req.order THEN 2
          ELSE IF pc \in {"free", "unlink"} THEN 1 ELSE 0

\* n1->idx and n2->idx, in list order.
Halves(i, c) == <<i, i + Size[c - 1]>>

\* One turn of the splitting loop: n is replaced by its two halves.
Split ==
  /\ pc = "split" /\ req.c > req.order
  /\ pool[NodeBin] >= 2
  /\ LET c == req.c
         i == Head(freelist[c])
     IN /\ freelist' = [k \in Orders |-> IF k = c THEN Tail(freelist[c])
                                         ELSE IF k = c - 1 THEN Halves(i, c) \o freelist[k]
                                         ELSE freelist[k]]
        /\ entries' = [p \in Pages |-> IF p \in {i, i + Size[c - 1]} THEN c - 1 ELSE entries[p]]
        /\ req' = [req EXCEPT !.c = c - 1]
  /\ UseNodes(2, 1)
  /\ UNCHANGED <<frame, lent, held, made, pc, cur, found, dropped>>

\* During the boot internal_node_alloc hands out NULL and the halves are
\* written through it.
SplitWild ==
  /\ pc = "split" /\ req.c > req.order
  /\ ~Booted /\ pool[0] < 2
  /\ pc' = "wild"
  /\ UNCHANGED <<entries, freelist, frame, pool, lent, held, made, req, cur, found, dropped>>

\* rejuv_node_alloc(1) inside a split or a free: buddy_alloc(4096) takes the
\* head of freelist[0].
RefillNodes ==
  /\ Booted /\ pool[1] < Needed /\ freelist[0] # <<>>
  /\ LET i == Head(freelist[0])
     IN /\ freelist' = [freelist EXCEPT ![0] = Tail(@)]
        /\ entries' = [entries EXCEPT ![i] = -@ - 1]
        /\ held' = held \cup {Held(i, 0, 1, "bin1")}
  /\ pool' = [b \in Bins |-> IF b = 0 THEN pool[0] + 1 ELSE pool[1] + PageUnits[1]]
  /\ UNCHANGED <<frame, lent, made, pc, req, cur, found, dropped>>

\* With freelist[0] empty that buddy_alloc must split, which needs nodes, which
\* asks rejuv_node_alloc again: every turn pops one more block until NULL comes
\* back and buddy_malloc stops at CANT REJUV BINS.
NodeHang ==
  /\ Booted /\ pool[1] < Needed /\ freelist[0] = <<>>
  /\ pc' = "cantrejuv"
  /\ UNCHANGED <<entries, freelist, frame, pool, lent, held, made, req, cur, found, dropped>>

\* Mutant: freelist[order] = n.
WithHead(k) == freelist[k]

\* freelist[order] = n->next
WithoutHead(k) == Tail(freelist[k])

\* The block is popped, its entry set to -order-1, its node nfree'd; then the
\* caller uses it.  bins[0]->next = next drops what nfree just put on nhead.
TakeBlock ==
  /\ pc = "split" /\ req.c = req.order
  /\ LET k == req.order
         i == Head(freelist[k])
     IN /\ freelist' = [freelist EXCEPT ![k] = WithoutHead(k)]
        /\ entries' = [entries EXCEPT ![i] = -@ - 1]
        /\ held' = held \cup {Held(i, k, req.pages, req.for)}
  /\ pool' = [b \in Bins |->
                IF b = 0
                THEN IF req.for = "bin0" THEN PageUnits[0] - 1 ELSE pool[0] + 1
                ELSE IF req.for = "bin1" THEN pool[1] + PageUnits[1] - 1 ELSE pool[1]]
  /\ lent' = [b \in Bins |->
                IF Booted /\ req.for = (IF b = 0 THEN "bin0" ELSE "bin1")
                THEN lent[b] + 1 ELSE lent[b]]
  /\ dropped' = IF req.for = "bin0" THEN dropped + pool[0] + 1 ELSE dropped
  /\ made' = IF Booted THEN made ELSE made + 1
  /\ pc' = IF made < 2 THEN "bins" ELSE "idle"
  /\ req' = NoReq
  /\ UNCHANGED <<frame, cur, found>>

----------------------------------------------------------------------------
(* buddy_free *)

\* Mutant: the sign is lost.
OrderUnsigned(b) == entries[b.idx] + 1

\* The order entries remembers for a block in use.
OrderOf(b) == -(entries[b.idx] + 1)

Free(b) ==
  /\ pc = "idle" /\ b.owner = "user"
  /\ cur' = [idx |-> b.idx, order |-> OrderOf(b)]
  /\ held' = held \ {b}
  /\ pc' = "free"
  /\ UNCHANGED <<entries, freelist, frame, pool, lent, made, req, found, dropped>>

FreeNode ==
  /\ pc = "free" /\ pool[1] >= 1
  /\ UseNodes(1, 0)
  /\ pc' = "merge"
  /\ UNCHANGED <<entries, freelist, frame, lent, held, made, req, cur, found, dropped>>

\* entries[neighbor_idx] == order.  The code reads past the table when the
\* neighbour is beyond it; such a read is taken not to match.
Neighbor == Buddy(cur.idx, cur.order)
Matches  == Neighbor \in Pages /\ entries[Neighbor] = cur.order

\* Mutant: c = c->next is missing.
SearchForever == pc = "merge" /\ Matches /\ UNCHANGED vars

\* c and prev_slot are found; nothing has changed yet.
MergeFind ==
  /\ pc = "merge" /\ Matches
  /\ LET list == freelist[cur.order]
     IN \E n \in DOMAIN list :
          /\ list[n] = Neighbor
          /\ found' = [idx |-> Neighbor, prev |-> IF n = 1 THEN NONE ELSE list[n - 1]]
  /\ pc' = "unlink"
  /\ UNCHANGED <<entries, freelist, frame, pool, lent, held, made, req, cur, dropped>>

\* The neighbour is on no list: while(1) after the search.
MergeLost ==
  /\ pc = "merge" /\ Matches
  /\ Neighbor \notin Range(freelist[cur.order])
  /\ pc' = "lostmerge"
  /\ UNCHANGED <<entries, freelist, frame, pool, lent, held, made, req, cur, found, dropped>>

Linked == /\ found.idx \in Range(freelist[cur.order])
          /\ found.prev = NONE \/ found.prev \in Range(freelist[cur.order])

\* Mutant: MIN is missing.
KeptIdx == cur.idx

\* merged->idx
MergedIdx == MinOf(cur.idx, found.idx)

\* Mutant: IS_CHILD is not written.
KeptEntries == entries

\* entries[neighbor_idx] = IS_CHILD
ChildEntries == [entries EXCEPT ![found.idx] = CHILD]

\* The node for the merged block came (perhaps after RefillNodes); c is taken
\* off the list through prev_slot and both old nodes are nfree'd.
MergeStep ==
  /\ pc = "unlink" /\ pool[1] >= 1
  /\ entries' = ChildEntries
  /\ cur' = [idx |-> MergedIdx, order |-> cur.order + 1]
  /\ found' = NoFind
  /\ UseNodes(1, 2)
  /\ UNCHANGED <<frame, lent, held, made, req, dropped>>

Unlink ==
  /\ Linked
  /\ MergeStep
  /\ \E n \in DOMAIN freelist[cur.order] :
       /\ freelist[cur.order][n] = found.idx
       /\ freelist' = [freelist EXCEPT ![cur.order] = RemoveAt(@, n)]
  /\ pc' = "merge"

\* RefillNodes popped c or the node prev_slot points into: the store through
\* prev_slot leaves the list as it is and c's page is merged all the same.
UnlinkStale ==
  /\ ~Linked
  /\ MergeStep
  /\ pc' = "corrupt"
  /\ UNCHANGED freelist

\* Mutant: a block of an order that buddy_alloc never looks at is not listed.
OnlyUsable(k) == IF k <= MaxOrder THEN <<cur.idx>> \o freelist[k] ELSE freelist[k]

\* freelist[order] = n, however large the merges have made it
Returned(k) == <<cur.idx>> \o freelist[k]

FreeDone ==
  /\ pc = "merge" /\ ~Matches
  /\ freelist' = [freelist EXCEPT ![cur.order] = Returned(cur.order)]
  /\ entries' = [entries EXCEPT ![cur.idx] = cur.order]
  /\ pc' = "idle" /\ cur' = NoCur
  /\ UNCHANGED <<frame, pool, lent, held, made, req, found, dropped>>

\* while(1), and what the model does not follow further.
Spin == pc \in Terminal /\ UNCHANGED vars

----------------------------------------------------------------------------
Boot == CarveSkip \/ CarveBlock \/ CarveDone \/ BootBin

Call == \/ \E p \in Requests : Malloc(p) \/ MallocFails(p)
        \/ \E b \in Bins : UnitMalloc(b) \/ UnitMallocRefill(b) \/ UnitFree(b)
        \/ PageMalloc
        \/ \E b \in held : Free(b)

Alloc == Split \/ SplitWild \/ RefillNodes \/ NodeHang \/ TakeBlock

Release == FreeNode \/ MergeFind \/ MergeLost \/ Unlink \/ UnlinkStale \/ FreeDone

Next == Boot \/ Call \/ Alloc \/ Release \/ Spin

Spec     == Init /\ [][Next]_vars
FairSpec == Spec /\ WF_vars(Boot \/ Alloc \/ Release)

----------------------------------------------------------------------------
(* Properties *)

TypeOK ==
  /\ entries \in [Pages -> Int]
  /\ freelist \in [Orders -> Seq(Pages)]
  /\ frame \in 1 .. NPages
  /\ pool \in [Bins -> Nat] /\ lent \in [Bins -> Nat] /\ dropped \in Nat
  /\ held \subseteq [idx : Pages, order : Orders, pages : Nat, owner : Owners]
  /\ made \in 0 .. 3 /\ pc \in PCs
  /\ req \in [pages : Nat, order : 0 .. MaxOrder, c : 0 .. MaxOrder, for : Takers]
  /\ cur \in [idx : Pages, order : Orders]
  /\ found \in [idx : Pages \cup {NONE}, prev : Pages \cup {NONE}]

FreeApart ==
  \A k, l \in Orders : \A i \in Range(freelist[k]), j \in Range(freelist[l]) :
    (i = j /\ k = l) \/ Apart(i, k, j, l)
HeldApart ==
  \A a, b \in held : a = b \/ Apart(a.idx, a.order, b.idx, b.order)
FreeHeldApart ==
  \A k \in Orders : \A i \in Range(freelist[k]) : \A b \in held : Apart(i, k, b.idx, b.order)
CurApart ==
  pc \in Freeing =>
    /\ \A b \in held : Apart(cur.idx, cur.order, b.idx, b.order)
    /\ \A k \in Orders : \A i \in Range(freelist[k]) : Apart(cur.idx, cur.order, i, k)
NoDup == \A k \in Orders : IsInjective(freelist[k])

\* Free blocks, blocks in use and the block being freed never share a page and
\* no block is listed twice, up to the moment a refill pulls a node from under
\* a merge (pc = "corrupt"): the lists of buddy_alloc and buddy_free.
Disjoint ==
  pc # "corrupt" => FreeApart /\ HeldApart /\ FreeHeldApart /\ CurApart /\ NoDup

Covers(i, k, p) == i <= p /\ p < i + Size[k]

Owned(o) == {b \in held : b.owner = o}

OnList(p)   == \E k \in Orders : \E i \in Range(freelist[k]) : Covers(i, k, p)
InUse(p)    == \E b \in held \ Owned("lost") : Covers(b.idx, b.order, p)
OnItsWay(p) == pc \in Freeing \cup Terminal /\ Covers(cur.idx, cur.order, p)
NotTaken(p) == \E b \in Owned("lost") : Covers(b.idx, b.order, p)

\* A page is on a list, in use or on its way back to a list, however blocks are
\* split, taken for nodes, or merged into blocks larger than buddy_alloc looks
\* for.  The exception is a block that buddy_alloc_init could not list, and it
\* gives up a block only when no node of the first page is left.
Coverage ==
  /\ \A p \in 0 .. frame - 1 : OnList(p) \/ InUse(p) \/ OnItsWay(p) \/ NotTaken(p)
  /\ pc = "carve" /\ Owned("lost") # {} => pool[0] = 0

\* What buddy_free believes: an order in entries means the block is on that
\* list, unless the boot lost it; every listed block has its order there; and
\* the entry of a block in use still says the order it was taken with, whatever
\* was split or merged since.
EntriesMatch ==
  pc # "corrupt" =>
    /\ \A k \in Orders : \A i \in Range(freelist[k]) : entries[i] = k
    /\ \A p \in 0 .. frame - 1 : entries[p] >= 0 =>
         \/ entries[p] \in Orders /\ p \in Range(freelist[entries[p]])
         \/ \E b \in held : b.owner = "lost" /\ b.idx = p /\ b.order = entries[p]
    /\ \A b \in held : b.owner # "lost" => entries[b.idx] = -b.order - 1

Listed    == UNION {{k} \X DOMAIN freelist[k] : k \in Orders}
InFlight  == IF pc \in {"merge", "unlink", "lostmerge"} THEN 1 ELSE 0

UnitsLeft == pool[0] + pool[1] + lent[0] + lent[1] + Cardinality(Listed) + InFlight
UnitsMade == BootUnits + PageUnits[0] * Cardinality(Owned("bin0"))
                       + PageUnits[1] * Cardinality(Owned("bin1"))
                       - (IF made > 0 THEN 1 ELSE 0)

\* Every 16- or 64-byte unit that nodes are made of is on a bin's list, on a
\* free list or in a caller's hands, once, or was cut off when bins[0] was
\* refilled: no path of buddy_alloc or buddy_free leaks one or nfree's one
\* twice.  rejuv_node_alloc(0) overwrites bins[0]->next, where buddy_alloc has
\* just nfree'd the page's node, against its comment "assumption:
\* bins[order]->next = NULL": those units are the ones in dropped.
NodesKept == pc \notin {"corrupt", "cantrejuv"} => UnitsLeft + dropped = UnitsMade

\* Why a call may stop for ever: the boot gave up a block, no page is left for
\* nodes or units, or the boot itself had no node; "corrupt" is the merge
\* whose block a refill took.
Stopped ==
  \/ pc = "lostmerge" /\ Owned("lost") # {}
  \/ pc = "cantrejuv" /\ freelist[0] = <<>>
  \/ pc = "wild" /\ ~Booted
  \/ pc = "corrupt"

\* Every call of the allocator returns, or stops for one of these reasons.
OpReturns == (pc # "idle") ~> (pc = "idle" \/ Stopped)

\* "find it from freelist": c is still on the list when it is taken off.
FoundStaysLinked == pc = "unlink" => Linked

=============================================================================
