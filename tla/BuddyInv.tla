------------------------------ MODULE BuddyInv ------------------------------
(***************************************************************************)
(* The inductive invariant behind Buddy's type correctness, Disjoint and   *)
(* EntriesMatch.  Disjointness alone is not inductive: buddy_free takes    *)
(* the order of a block from entries, merges whatever neighbour entries    *)
(* points at, and buddy_alloc splits a head it never compares with         *)
(* anything, so the entries of listed and of held blocks, the bounds of    *)
(* every block and what the carving has not reached belong to it.          *)
(***************************************************************************)
EXTENDS Buddy

Control ==
  /\ pc = "carve" => made = 0
  /\ pc \in {"idle"} \cup Freeing => made = 3
  /\ pc = "split" => req.order <= req.c /\ freelist[req.c] # <<>>
  /\ pc = "unlink" => found.idx = Neighbor /\ found.idx + Size[cur.order] <= NPages
                        /\ found.idx \in Pages

InTable ==
  /\ \A k \in Orders : \A i \in Range(freelist[k]) : i + Size[k] <= NPages
  /\ \A b \in held : b.idx + Size[b.order] <= NPages
  /\ pc \in Freeing => cur.idx + Size[cur.order] <= NPages

FreeEntries == \A k \in Orders : \A i \in Range(freelist[k]) : entries[i] = k
HeldEntries ==
  \A b \in held : entries[b.idx] = IF b.owner = "lost" THEN b.order ELSE -b.order - 1
EntrySound ==
  \A p \in Pages : p < frame /\ entries[p] >= 0 =>
    \/ entries[p] \in Orders /\ p \in Range(freelist[entries[p]])
    \/ \E b \in held : b.owner = "lost" /\ b.idx = p /\ b.order = entries[p]

\* Blocks are behind the frame, reserved pages may be ahead of it.
Carved ==
  pc = "carve" =>
    /\ \A k \in Orders : \A i \in Range(freelist[k]) : i + Size[k] <= frame
    /\ \A b \in held : \/ b.idx + Size[b.order] <= frame
                       \/ b.idx >= frame /\ b.order = 0 /\ b.owner = "reserved"

Heap ==
  /\ NoDup /\ FreeApart /\ HeldApart /\ FreeHeldApart /\ CurApart
  /\ InTable /\ FreeEntries /\ HeldEntries /\ EntrySound /\ Carved

IInv == TypeOK /\ Control /\ (pc # "corrupt" => Heap)

\* The pages the carving has not reached are marked if and only if somebody
\* keeps them, and once it is over none is left: what Coverage needs besides.
Ahead ==
  /\ pc # "carve" => frame = NPages
  /\ pc = "carve" => \A p \in frame .. NPages - 1 :
       entries[p] < 0 => \E b \in held : b.idx = p /\ b.order = 0

\* Where the pages the carving has reached are: somebody holds them if they are
\* not free, be it the ghost owner of what the boot gave up.
HeldPage(p) == \E b \in held : Covers(b.idx, b.order, p)
Behind      == \A p \in 0 .. frame - 1 : OnList(p) \/ HeldPage(p) \/ OnItsWay(p)

CoverInv == Ahead /\ Behind

\* Once a block is given up no node comes back before the carving is over.
GivenUp == pc = "carve" /\ Owned("lost") # {} => pool[0] = 0

\* The first page the boot asks for refills bins[1], and what NodesKept counts
\* is finite.
BootFor == pc = "split" /\ ~Booted => req.for = IF made = 0 THEN "bin1" ELSE "page"

NodeInv == IsFiniteSet(held) /\ IsFiniteSet(Listed) /\ BootFor /\ NodesKept

=============================================================================
