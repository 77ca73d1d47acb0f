---------------------------- MODULE BuddyProofs ----------------------------
(***************************************************************************)
(* Buddy's inductive invariant holds, and what follows from it: the types, *)
(* that blocks never overlap, that the table agrees with the lists.  Then  *)
(* what buddy_alloc_init, buddy_alloc and buddy_free account for: every    *)
(* page is listed, in use or on its way back (Coverage), what callers see  *)
(* is a page frame allocator (FramesSpec), and the units the nodes are     *)
(* made of are neither leaked nor freed twice (NodesKept).                 *)
(***************************************************************************)
EXTENDS BuddyFrames, BuddyInv, FiniteSetTheorems, TLAPS

----------------------------------------------------------------------------
(* Which pages a free list holds after a node is popped, pushed, appended or
   unlinked, for any list without duplicates. *)

\* freelist[k] = n->next
LEMMA TailFacts ==
  ASSUME NEW S, NEW s \in Seq(S), s # <<>>, IsInjective(s)
  PROVE  /\ Head(s) \in Range(s) /\ Head(s) \in S
         /\ Tail(s) \in Seq(S) /\ Len(Tail(s)) = Len(s) - 1
         /\ Range(Tail(s)) = Range(s) \ {Head(s)}
         /\ IsInjective(Tail(s))
<1>1. Len(s) \in Nat \ {0} /\ DOMAIN s = 1 .. Len(s)
  OBVIOUS
<1>2. Tail(s) \in Seq(S) /\ Len(Tail(s)) = Len(s) - 1
      /\ \A n \in 1 .. Len(s) - 1 : Tail(s)[n] = s[n + 1]
  BY <1>1
<1>3. DOMAIN Tail(s) = 1 .. Len(s) - 1
  BY <1>1, <1>2
<1>4. Head(s) = s[1] /\ s[1] \in S
  BY <1>1
<1>5. Range(Tail(s)) \subseteq Range(s) \ {Head(s)}
  BY <1>1, <1>2, <1>3, <1>4 DEF Range, IsInjective
<1>6. ASSUME NEW x \in Range(s), x # Head(s) PROVE x \in Range(Tail(s))
  <2>1. PICK n \in 1 .. Len(s) : x = s[n]
    BY <1>1 DEF Range
  <2>2. n # 1
    BY <2>1, <1>4, <1>6
  <2>3. n - 1 \in DOMAIN Tail(s) /\ Tail(s)[n - 1] = x
    BY <1>2, <1>3, <2>1, <2>2
  <2> QED BY <2>3 DEF Range
<1>7. IsInjective(Tail(s))
  BY <1>1, <1>2, <1>3 DEF IsInjective
<1>8. Head(s) \in Range(s)
  BY <1>1, <1>4 DEF Range
<1> QED BY <1>2, <1>4, <1>5, <1>6, <1>7, <1>8

\* n->next = freelist[k]; freelist[k] = n
LEMMA PushFacts ==
  ASSUME NEW S, NEW s \in Seq(S), NEW x \in S, x \notin Range(s), IsInjective(s)
  PROVE  /\ <<x>> \o s \in Seq(S) /\ Len(<<x>> \o s) = Len(s) + 1
         /\ <<x>> \o s # <<>>
         /\ Range(<<x>> \o s) = Range(s) \cup {x}
         /\ IsInjective(<<x>> \o s)
<1> DEFINE t == <<x>> \o s
<1>1. t \in Seq(S) /\ Len(t) = Len(s) + 1 /\ Len(s) \in Nat
  OBVIOUS
<1>2. DOMAIN t = 1 .. Len(s) + 1 /\ DOMAIN s = 1 .. Len(s)
  BY <1>1
<1>3. t[1] = x /\ \A n \in 1 .. Len(s) : t[n + 1] = s[n]
  BY <1>1
<1>4. \A n \in 2 .. Len(s) + 1 : n - 1 \in 1 .. Len(s) /\ t[n] = s[n - 1]
  BY <1>1, <1>3
<1>5. Range(t) = Range(s) \cup {x}
  <2>1. \A y \in Range(t) : y \in Range(s) \cup {x}
    BY <1>1, <1>2, <1>3, <1>4 DEF Range
  <2>2. ASSUME NEW y \in Range(s) PROVE y \in Range(t)
    <3>1. PICK n \in 1 .. Len(s) : y = s[n]
      BY <1>2 DEF Range
    <3>2. n + 1 \in DOMAIN t /\ t[n + 1] = y
      BY <3>1, <1>1, <1>2, <1>3
    <3> HIDE DEF t
    <3> QED BY <3>2 DEF Range
  <2>3. x \in Range(t)
    BY <1>1, <1>2, <1>3 DEF Range
  <2> QED BY <2>1, <2>2, <2>3
<1>6. IsInjective(t)
  BY <1>1, <1>2, <1>3, <1>4 DEF IsInjective, Range
<1> QED BY <1>1, <1>5, <1>6

\* Pushing two nodes is pushing one after the other.
LEMMA PushTwo ==
  ASSUME NEW S, NEW s \in Seq(S), NEW x \in S, NEW y \in S
  PROVE  <<x, y>> \o s = <<x>> \o (<<y>> \o s)
<1> DEFINE a == <<x, y>> \o s
           b == <<x>> \o (<<y>> \o s)
<1>1. a \in Seq(S) /\ b \in Seq(S) /\ Len(a) = Len(s) + 2 /\ Len(b) = Len(s) + 2
  OBVIOUS
<1>2. \A n \in 1 .. Len(s) + 2 : a[n] = b[n]
  OBVIOUS
<1> HIDE DEF a, b
<1>3. a = b
  BY <1>1, <1>2
<1> QED BY <1>3 DEF a, b

\* *cur = n at the tail of the list
LEMMA AppendFacts ==
  ASSUME NEW S, NEW s \in Seq(S), NEW x \in S, x \notin Range(s), IsInjective(s)
  PROVE  /\ Append(s, x) \in Seq(S) /\ Len(Append(s, x)) = Len(s) + 1
         /\ Range(Append(s, x)) = Range(s) \cup {x}
         /\ IsInjective(Append(s, x))
<1> DEFINE t == Append(s, x)
<1>1. t \in Seq(S) /\ Len(t) = Len(s) + 1 /\ Len(s) \in Nat
  OBVIOUS
<1>2. DOMAIN t = 1 .. Len(s) + 1 /\ DOMAIN s = 1 .. Len(s)
  BY <1>1
<1>3. t[Len(s) + 1] = x /\ \A n \in 1 .. Len(s) : t[n] = s[n]
  BY <1>1
<1>5. Range(t) = Range(s) \cup {x}
  <2>1. \A y \in Range(t) : y \in Range(s) \cup {x}
    BY <1>1, <1>2, <1>3 DEF Range
  <2>2. \A y \in Range(s) : y \in Range(t)
    BY <1>1, <1>2, <1>3 DEF Range
  <2>3. x \in Range(t)
    BY <1>1, <1>2, <1>3 DEF Range
  <2> QED BY <2>1, <2>2, <2>3
<1>6. IsInjective(t)
  BY <1>1, <1>2, <1>3 DEF IsInjective, Range
<1> QED BY <1>1, <1>5, <1>6

\* *prev_slot = c->next
LEMMA RemoveFacts ==
  ASSUME NEW S, NEW s \in Seq(S), NEW n \in DOMAIN s, IsInjective(s)
  PROVE  /\ RemoveAt(s, n) \in Seq(S) /\ Len(RemoveAt(s, n)) = Len(s) - 1
         /\ Range(RemoveAt(s, n)) = Range(s) \ {s[n]}
         /\ IsInjective(RemoveAt(s, n))
<1> DEFINE t == RemoveAt(s, n)
           a == SubSeq(s, 1, n - 1)
           b == SubSeq(s, n + 1, Len(s))
<1>1. Len(s) \in Nat /\ DOMAIN s = 1 .. Len(s) /\ n \in 1 .. Len(s)
  OBVIOUS
<1>2. a \in Seq(S) /\ Len(a) = n - 1 /\ \A m \in 1 .. n - 1 : a[m] = s[m]
  BY <1>1
<1>3. b \in Seq(S) /\ Len(b) = Len(s) - n /\ \A m \in 1 .. Len(s) - n : b[m] = s[n + m]
  BY <1>1
<1>4. t = a \o b
  BY DEF RemoveAt
<1>5. t \in Seq(S) /\ Len(t) = Len(s) - 1 /\ DOMAIN t = 1 .. Len(s) - 1
  <2>1. t \in Seq(S) /\ Len(t) = Len(a) + Len(b)
    BY <1>2, <1>3, <1>4
  <2> QED BY <2>1, <1>1, <1>2, <1>3
<1>6. \A m \in 1 .. Len(s) - 1 : t[m] = s[IF m < n THEN m ELSE m + 1]
  <2> SUFFICES ASSUME NEW m \in 1 .. Len(s) - 1
               PROVE  (a \o b)[m] = s[IF m < n THEN m ELSE m + 1]
    BY <1>4
  <2> HIDE DEF a, b
  <2>1. CASE m < n
    BY <2>1, <1>1, <1>2, <1>3
  <2>2. CASE m >= n
    <3>1. m - (n - 1) \in 1 .. Len(s) - n /\ n + (m - (n - 1)) = m + 1
      BY <2>2, <1>1
    <3>2. (a \o b)[m] = b[m - (n - 1)]
      BY <2>2, <3>1, <1>1, <1>2, <1>3
    <3>3. b[m - (n - 1)] = s[m + 1]
      BY <3>1, <1>3
    <3>4. ~(m < n)
      BY <2>2, <1>1
    <3> QED BY <3>2, <3>3, <3>4
  <2>3. m < n \/ m >= n
    BY <1>1
  <2> QED BY <2>1, <2>2, <2>3, Zenon
<1> HIDE DEF t
<1>7. Range(t) = Range(s) \ {s[n]}
  <2>1. \A y \in Range(t) : y \in Range(s) \ {s[n]}
    BY <1>1, <1>5, <1>6 DEF Range, IsInjective
  <2>2. ASSUME NEW y \in Range(s), y # s[n] PROVE y \in Range(t)
    <3>1. PICK m \in 1 .. Len(s) : y = s[m] /\ m # n
      BY <1>1, <2>2 DEF Range
    <3>2. CASE m < n
      BY <3>1, <3>2, <1>1, <1>5, <1>6 DEF Range
    <3>3. CASE m > n
      <4>1. m - 1 \in 1 .. Len(s) - 1 /\ t[m - 1] = y
        BY <3>1, <3>3, <1>1, <1>6
      <4> QED BY <4>1, <1>5 DEF Range
    <3> QED BY <3>1, <3>2, <3>3, <1>1
  <2> QED BY <2>1, <2>2
<1>8. IsInjective(t)
  <2> SUFFICES ASSUME NEW x \in 1 .. Len(s) - 1, NEW y \in 1 .. Len(s) - 1, t[x] = t[y]
               PROVE  x = y
    BY <1>5, Zenon DEF IsInjective
  <2> DEFINE g(m) == IF m < n THEN m ELSE m + 1
  <2>1. s[g(x)] = s[g(y)]
    BY <1>6
  <2>2. g(x) \in DOMAIN s /\ g(y) \in DOMAIN s
    BY <1>1
  <2>3. g(x) = g(y)
    <3> HIDE DEF g
    <3> QED BY <2>1, <2>2 DEF IsInjective
  <2> QED BY <2>3, <1>1
<1> QED BY <1>5, <1>7, <1>8 DEF t

----------------------------------------------------------------------------
(* Sizes, neighbours, types. *)

\* Sizes are positive, double from one order to the next, and no block of the
\* table has the largest order.
LEMMA SizeFacts ==
  /\ NPages \in Nat /\ MaxOrder \in Nat /\ TopOrder \in Nat /\ MaxOrder < TopOrder
  /\ Size[0] = 1 /\ 0 \in Orders
  /\ \A k \in Orders : Size[k] \in Nat /\ Size[k] >= 1
  /\ \A k \in Orders : k > 0 => k - 1 \in Orders /\ Size[k] = 2 * Size[k - 1]
  /\ \A k \in Orders : Size[k] <= NPages =>
       k < TopOrder /\ k + 1 \in Orders /\ Size[k + 1] = 2 * Size[k]
  /\ \A k \in 0 .. MaxOrder : k \in Orders
BY SizeAssumption DEF Orders

\* A requested size has an order.
LEMMA OrderInRange ==
  /\ OrderFor(1) \in 0 .. MaxOrder
  /\ \A p \in Requests : OrderFor(p) \in 0 .. MaxOrder
<1>1. ASSUME NEW p, \E h \in 0 .. TopOrder - 1 : Size[h] <= p /\ p < Size[h + 1]
      PROVE  OrderFor(p) \in 0 .. MaxOrder
  <2>1. Log(p) \in 0 .. TopOrder - 1
    BY <1>1 DEF Log
  <2>2. Log(p) \in Nat /\ MaxOrder \in Nat
    BY <2>1, SizeFacts
  <2> QED BY <2>2 DEF OrderFor, MinOf
<1>2. Size[0] <= 1 /\ 1 < Size[0 + 1] /\ 0 \in 0 .. TopOrder - 1
  BY SizeFacts, SizeAssumption DEF Orders
<1> QED BY <1>1, <1>2, RequestsAssumption

\* The neighbour of a block is the block of its size before or after it.
LEMMA NeighborAdjacent ==
  ASSUME NEW i, NEW k \in Orders
  PROVE  Buddy(i, k) = i + Size[k] \/ Buddy(i, k) = i - Size[k]
BY DEF Buddy

\* Apart is symmetric, and blocks that are apart start at different pages.
LEMMA ApartFacts ==
  ASSUME NEW i \in Nat, NEW j \in Nat, NEW k \in Orders, NEW l \in Orders, Apart(i, k, j, l)
  PROVE  Apart(j, l, i, k) /\ i # j
BY SizeFacts DEF Apart

\* What is apart from a block is apart from its halves.
LEMMA HalvesApart ==
  ASSUME NEW i \in Nat, NEW c \in Orders, c > 0
  PROVE  /\ Apart(i, c - 1, i + Size[c - 1], c - 1)
         /\ \A j \in Nat, l \in Orders : Apart(i, c, j, l) =>
              Apart(i, c - 1, j, l) /\ Apart(i + Size[c - 1], c - 1, j, l)
BY SizeFacts DEF Apart

\* What is apart from two buddies is apart from the block they make.
LEMMA MergedApart ==
  ASSUME NEW i \in Nat, NEW j \in Nat, NEW k \in Orders, k + 1 \in Orders,
         Size[k + 1] = 2 * Size[k], j = i + Size[k] \/ j = i - Size[k],
         NEW m \in Nat, NEW l \in Orders, Apart(i, k, m, l), Apart(j, k, m, l)
  PROVE  Apart(MinOf(i, j), k + 1, m, l)
BY SizeFacts DEF Apart, MinOf

\* What the types say of listed and of held blocks.
LEMMA TypeFacts ==
  ASSUME TypeOK
  PROVE  /\ \A k \in Orders : freelist[k] \in Seq(Pages)
         /\ \A k \in Orders : \A i \in Range(freelist[k]) : i \in Pages /\ i \in Nat
         /\ \A b \in held : b.idx \in Pages /\ b.idx \in Nat /\ b.order \in Orders
         /\ \A p \in Pages : entries[p] \in Int /\ p \in Nat
         /\ cur.idx \in Nat /\ cur.idx \in Pages /\ cur.order \in Orders
         /\ \A b \in Bins : pool[b] \in Nat /\ lent[b] \in Nat
         /\ frame \in Nat /\ 0 \in Bins /\ 1 \in Bins
<1>1. \A p \in Pages : p \in Nat
  BY SizeFacts DEF Pages
<1>2. \A k \in Orders : freelist[k] \in Seq(Pages)
  BY DEF TypeOK
<1>3. \A k \in Orders : \A i \in Range(freelist[k]) : i \in Pages
  <2> TAKE k \in Orders
  <2> TAKE i \in Range(freelist[k])
  <2>1. PICK n \in DOMAIN freelist[k] : i = freelist[k][n]
    BY DEF Range
  <2> QED BY <2>1, <1>2
<1>4. \A b \in held : b.idx \in Pages /\ b.order \in Orders
  BY DEF TypeOK
<1>5. /\ cur.idx \in Pages /\ cur.order \in Orders
      /\ \A b \in Bins : pool[b] \in Nat /\ lent[b] \in Nat
      /\ frame \in Nat
  BY SizeFacts DEF TypeOK
<1>6. \A p \in Pages : entries[p] \in Int
  BY DEF TypeOK
<1>7. 0 \in Bins /\ 1 \in Bins
  BY DEF Bins
<1> QED BY <1>1, <1>2, <1>3, <1>4, <1>5, <1>6, <1>7

LEMMA InitInv == Init => IInv
<1> SUFFICES ASSUME Init PROVE IInv
  OBVIOUS
<1>1. PICK R \in Layouts, p \in Pages :
        /\ entries = [q \in Pages |-> IF q \in R \cup {p} THEN -1 ELSE 0]
        /\ held = {Held(q, 0, 1, "reserved") : q \in R \cup {p}}
        /\ frame = p + 1
        /\ FirstFree(R, p)
  BY DEF Init
<1>2. \A k \in Orders : freelist[k] = <<>> /\ Range(freelist[k]) = {} /\ IsInjective(freelist[k])
  BY DEF Init, Range, IsInjective
<1>3. /\ pc = "carve" /\ made = 0 /\ req = NoReq /\ cur = NoCur /\ found = NoFind
      /\ pool = [b \in Bins |-> IF b = 0 THEN BootUnits ELSE 0] /\ lent = [b \in Bins |-> 0]
      /\ freelist = [k \in Orders |-> <<>>]
  BY DEF Init
<1>4. p \in Nat /\ p + 1 \in 1 .. NPages /\ R \subseteq Pages
  BY SizeFacts, LayoutAssumption DEF Pages
<1>5. \A b \in held : /\ b \in [idx : Pages, order : Orders, pages : Nat, owner : Owners]
                      /\ b.order = 0 /\ b.owner = "reserved" /\ b.idx \in R \cup {p}
                      /\ b = Held(b.idx, 0, 1, "reserved")
  BY <1>1, <1>4, SizeFacts DEF Held, Owners
<1>6. TypeOK
  <2>1. freelist \in [Orders -> Seq(Pages)]
    BY <1>3
  <2>2. entries \in [Pages -> Int] /\ frame \in 1 .. NPages
    BY <1>1, <1>4
  <2>3. pool \in [Bins -> Nat] /\ lent \in [Bins -> Nat] /\ dropped \in Nat
    BY <1>3, UnitsAssumption DEF Init
  <2>4. req \in [pages : Nat, order : 0 .. MaxOrder, c : 0 .. MaxOrder, for : Takers]
    BY <1>3, SizeFacts DEF NoReq, Takers
  <2>5. /\ cur \in [idx : Pages, order : Orders]
        /\ found \in [idx : Pages \cup {NONE}, prev : Pages \cup {NONE}]
    BY <1>3, <1>4, SizeFacts DEF NoCur, NoFind, Pages
  <2> QED BY <2>1, <2>2, <2>3, <2>4, <2>5, <1>3, <1>5 DEF TypeOK, PCs
<1>7. Control
  BY <1>3 DEF Control, Freeing
<1>8. \A q \in Pages : q \in R => q < p \/ q > p
  BY <1>1, <1>4 DEF FirstFree, Pages
<1>9. Heap
  <2>1. NoDup /\ FreeApart /\ FreeHeldApart /\ FreeEntries
    BY <1>2 DEF NoDup, FreeApart, FreeHeldApart, FreeEntries
  <2>2. HeldApart
    BY <1>5, <1>4, SizeFacts DEF HeldApart, Apart, Pages
  <2>3. CurApart
    BY <1>3 DEF CurApart, Freeing
  <2>4. InTable
    BY <1>2, <1>3, <1>4, <1>5, SizeFacts DEF InTable, Freeing, Pages
  <2>5. HeldEntries
    BY <1>1, <1>4, <1>5 DEF HeldEntries
  <2>6. EntrySound
    <3> SUFFICES ASSUME NEW q \in Pages, q < frame PROVE ~(entries[q] >= 0)
      BY DEF EntrySound
    <3>1. q \in R \cup {p}
      BY <1>1, <1>4 DEF FirstFree, Pages
    <3> QED BY <3>1, <1>1
  <2>7. Carved
    <3>1. \A b \in held : b.idx \in Nat /\ b.order = 0 /\ b.owner = "reserved" /\ Size[b.order] = 1
      BY <1>4, <1>5, SizeFacts DEF Pages
    <3>2. \A b \in held : b.idx + Size[b.order] <= frame \/ b.idx >= frame
      BY <3>1, <1>1, <1>4
    <3>3. \A k \in Orders : \A i \in Range(freelist[k]) : i + Size[k] <= frame
      BY <1>2
    <3> QED BY <3>1, <3>2, <3>3 DEF Carved
  <2> QED BY <2>1, <2>2, <2>3, <2>4, <2>5, <2>6, <2>7 DEF Heap
<1> QED BY <1>6, <1>7, <1>9 DEF IInv

----------------------------------------------------------------------------
(* Steps that leave the table, the lists and the owners alone. *)

LEMMA HeapFrame ==
  ASSUME Heap, UNCHANGED <<entries, freelist, held, frame, cur>>,
         pc' = "carve" => pc = "carve", pc' \in Freeing => pc \in Freeing
  PROVE  Heap'
BY DEF Heap, NoDup, FreeApart, HeldApart, FreeHeldApart, CurApart, InTable,
       FreeEntries, HeldEntries, EntrySound, Carved, Apart, Range, IsInjective

LEMMA CarveSkipInv == IInv /\ CarveSkip => IInv'
<1> SUFFICES ASSUME IInv, CarveSkip PROVE IInv'
  OBVIOUS
<1>1. TypeOK /\ Control /\ Heap /\ pc = "carve" /\ pc' = pc /\ frame \in Nat /\ frame < NPages
  <2>1. TypeOK /\ Control /\ Heap
    BY DEF IInv, CarveSkip
  <2>2. pc = "carve" /\ pc' = pc /\ frame < NPages
    BY DEF CarveSkip
  <2> QED BY <2>1, <2>2, TypeFacts
<1>2. TypeOK'
  <2>1. frame' \in 1 .. NPages
    BY <1>1, SizeFacts DEF CarveSkip
  <2>2. UNCHANGED <<entries, freelist, pool, lent, held, made, pc, req, cur, found, dropped>>
    BY DEF CarveSkip
  <2> QED BY <1>1, <2>1, <2>2 DEF TypeOK
<1>3. Control'
  BY <1>1 DEF Control, CarveSkip, Neighbor, Freeing
<1>4. EntrySound'
  <2> SUFFICES ASSUME NEW p \in Pages, p < frame + 1, entries[p] >= 0
               PROVE  \/ entries[p] \in Orders /\ p \in Range(freelist[entries[p]])
                      \/ \E b \in held : b.owner = "lost" /\ b.idx = p /\ b.order = entries[p]
    BY DEF EntrySound, CarveSkip
  <2>1. p # frame /\ p \in Nat
    BY <1>1, TypeFacts DEF CarveSkip
  <2>2. p < frame
    BY <2>1, <1>1
  <2> QED BY <2>2, <1>1 DEF Heap, EntrySound
<1>5. Carved'
  <2>1. \A b \in held : b.idx \in Nat /\ b.order \in Orders /\ Size[b.order] \in Nat
    <3> TAKE b \in held
    <3>1. b.idx \in Nat /\ b.order \in Orders
      BY <1>1, TypeFacts
    <3> QED BY <3>1, SizeFacts
  <2>2. \A b \in held : \/ b.idx + Size[b.order] <= frame + 1
                        \/ b.idx >= frame + 1 /\ b.order = 0 /\ b.owner = "reserved"
    <3> TAKE b \in held
    <3>1. \/ b.idx + Size[b.order] <= frame
          \/ b.idx >= frame /\ b.order = 0 /\ b.owner = "reserved"
      BY <1>1 DEF Heap, Carved
    <3>2. b.idx \in Nat /\ Size[b.order] \in Nat
      BY <2>1
    <3>3. b.order = 0 => Size[b.order] = 1
      BY SizeFacts
    <3> QED BY <3>1, <3>2, <3>3, <1>1
  <2>3. \A k \in Orders : \A i \in Range(freelist[k]) : i + Size[k] <= frame + 1
    <3> TAKE k \in Orders
    <3> TAKE i \in Range(freelist[k])
    <3>1. i \in Nat /\ Size[k] \in Nat
      BY <1>1, TypeFacts, SizeFacts
    <3>2. i + Size[k] <= frame
      BY <1>1 DEF Heap, Carved
    <3> QED BY <3>1, <3>2, <1>1
  <2> QED BY <2>2, <2>3 DEF Carved, CarveSkip
<1>6. Heap'
  BY <1>1, <1>4, <1>5 DEF CarveSkip, Heap, NoDup, FreeApart, HeldApart, FreeHeldApart, CurApart,
     InTable, FreeEntries, HeldEntries, Freeing
<1> QED BY <1>2, <1>3, <1>6 DEF IInv

LEMMA StartInv ==
  ASSUME IInv, NEW p \in Nat, OrderFor(p) \in 0 .. MaxOrder, NEW o \in Takers,
         pc # "corrupt", StartAlloc(p, o)
  PROVE  IInv'
<1>1. TypeOK /\ Control /\ Heap
  BY DEF IInv
<1>2. PICK c \in OrderFor(p) .. MaxOrder :
        freelist[c] # <<>> /\ req' = [pages |-> p, order |-> OrderFor(p), c |-> c, for |-> o]
  BY DEF StartAlloc
<1>3. c \in 0 .. MaxOrder /\ OrderFor(p) <= c
  BY SizeFacts
<1>4. TypeOK'
  BY <1>1, <1>2, <1>3 DEF TypeOK, StartAlloc, PCs
<1>5. Control'
  BY <1>2, <1>3 DEF Control, StartAlloc, Freeing
<1>6. Heap'
  BY <1>1, HeapFrame DEF StartAlloc, Freeing
<1> QED BY <1>4, <1>5, <1>6 DEF IInv

LEMMA StopInv ==
  ASSUME IInv, pc # "corrupt", pc' \in {"wild", "cantrejuv", "lostmerge"},
         UNCHANGED <<entries, freelist, frame, pool, lent, held, made, req, cur, found, dropped>>
  PROVE  IInv'
<1>1. TypeOK /\ Heap
  BY DEF IInv
<1>2. TypeOK'
  BY <1>1 DEF TypeOK, PCs
<1>3. Control'
  BY DEF Control, Freeing
<1>4. Heap'
  BY <1>1, HeapFrame DEF Freeing
<1> QED BY <1>2, <1>3, <1>4 DEF IInv

LEMMA UnitsInv ==
  ASSUME IInv, pc = "idle", pc' = "idle", pool' \in [Bins -> Nat], lent' \in [Bins -> Nat],
         UNCHANGED <<entries, freelist, frame, held, made, req, cur, found, dropped>>
  PROVE  IInv'
<1>1. TypeOK /\ Control /\ Heap
  BY DEF IInv
<1>2. TypeOK'
  BY <1>1 DEF TypeOK
<1>3. Control'
  BY <1>1 DEF Control, Freeing
<1>4. Heap'
  BY <1>1, HeapFrame
<1> QED BY <1>2, <1>3, <1>4 DEF IInv

LEMMA CallInv == IInv /\ (BootBin \/ CarveDone \/ Call) /\ ~(\E b \in held : Free(b)) => IInv'
<1> SUFFICES ASSUME IInv, BootBin \/ CarveDone \/ Call, ~(\E b \in held : Free(b)) PROVE IInv'
  OBVIOUS
<1>1. TypeOK /\ Control
  BY DEF IInv
<1>2. ASSUME NEW o \in Takers, NEW stop \in {"wild", "cantrejuv"}, pc # "corrupt", StartOr(1, o, stop)
      PROVE  IInv'
  BY <1>2, StartInv, StopInv, OrderInRange DEF StartOr
<1>3. CASE BootBin
  BY <1>2, <1>3 DEF BootBin, Takers
<1>4. CASE CarveDone
  <2>1. TypeOK'
    BY <1>1, <1>4 DEF TypeOK, CarveDone, PCs
  <2>2. Control'
    BY <1>4 DEF Control, CarveDone, Freeing
  <2>3. Heap'
    BY <1>4, HeapFrame DEF IInv, CarveDone, Freeing
  <2> QED BY <2>1, <2>2, <2>3 DEF IInv
<1>5. ASSUME NEW p \in Requests, Malloc(p) PROVE IInv'
  BY <1>5, StartInv, OrderInRange, RequestsAssumption DEF Malloc, Takers
<1>6. ASSUME NEW p \in Requests, MallocFails(p) PROVE IInv'
  <2>1. UNCHANGED vars
    BY <1>6 DEF MallocFails
  <2> QED BY <2>1, UnitsInv, <1>1, <1>6 DEF vars, MallocFails, TypeOK
<1>7. ASSUME NEW b \in Bins, UnitMalloc(b) \/ UnitFree(b) PROVE IInv'
  <2>1. pool' \in [Bins -> Nat] /\ lent' \in [Bins -> Nat]
    <3>1. /\ pool \in [Bins -> Nat] /\ lent \in [Bins -> Nat]
          /\ pool[b] \in Nat /\ lent[b] \in Nat
      BY <1>1 DEF TypeOK
    <3>2. CASE UnitMalloc(b)
      <4>1. pool[b] - 1 \in Nat /\ lent[b] + 1 \in Nat
        BY <3>1, <3>2 DEF UnitMalloc
      <4> QED BY <3>1, <3>2, <4>1 DEF UnitMalloc
    <3>3. CASE UnitFree(b)
      <4>1. PICK home \in b .. 1 : pool' = [pool EXCEPT ![home] = pool[home] + 1]
        BY <3>3 DEF UnitFree
      <4>2. lent' = [lent EXCEPT ![b] = lent[b] - 1] /\ lent[b] > 0
        BY <3>3 DEF UnitFree
      <4>3. home \in Bins
        BY <4>1 DEF Bins
      <4>4. pool[home] + 1 \in Nat /\ lent[b] - 1 \in Nat
        BY <3>1, <4>2, <4>3
      <4> QED BY <3>1, <4>1, <4>2, <4>4
    <3> QED BY <3>2, <3>3, <1>7
  <2> QED BY <2>1, <1>7, UnitsInv DEF UnitMalloc, UnitFree
<1>8. ASSUME NEW b \in Bins, UnitMallocRefill(b) PROVE IInv'
  BY <1>2, <1>8 DEF UnitMallocRefill, Takers
<1>9. CASE PageMalloc
  BY <1>2, <1>9 DEF PageMalloc, Takers
<1> QED BY <1>3, <1>4, <1>5, <1>6, <1>7, <1>8, <1>9 DEF Call

LEMMA NodeStepInv == IInv /\ (SplitWild \/ NodeHang \/ FreeNode \/ MergeFind \/ MergeLost \/ Spin) => IInv'
<1> SUFFICES ASSUME IInv, SplitWild \/ NodeHang \/ FreeNode \/ MergeFind \/ MergeLost \/ Spin PROVE IInv'
  OBVIOUS
<1>1. TypeOK /\ Control
  BY DEF IInv
<1>2. CASE SplitWild
  BY <1>2, StopInv DEF SplitWild
<1>3. CASE NodeHang
  <2>1. pc # "corrupt"
    BY <1>1, <1>3, TypeFacts DEF NodeHang, Needed
  <2> QED BY <2>1, <1>3, StopInv DEF NodeHang
<1>4. CASE MergeLost
  BY <1>4, StopInv DEF MergeLost
<1>5. CASE FreeNode
  <2>1. pc = "free" /\ pc' = "merge" /\ made = 3 /\ made' = 3
    BY <1>1, <1>5 DEF FreeNode, Control, Freeing
  <2>2. pool' \in [Bins -> Nat]
    BY <1>1, <1>5, <2>1 DEF FreeNode, UseNodes, NodeBin, Booted, TypeOK, Bins
  <2>3. TypeOK'
    BY <1>1, <1>5, <2>1, <2>2 DEF FreeNode, TypeOK, PCs
  <2>4. Control'
    BY <2>1 DEF Control, Freeing
  <2>5. Heap'
    BY <1>5, <2>1, HeapFrame DEF IInv, FreeNode, Freeing
  <2> QED BY <2>3, <2>4, <2>5 DEF IInv
<1>6. CASE MergeFind
  <2>1. Heap /\ pc = "merge" /\ pc' = "unlink" /\ made' = 3 /\ cur.order \in Orders
    BY <1>1, <1>6 DEF IInv, MergeFind, Control, Freeing, TypeOK
  <2>2. PICK n \in DOMAIN freelist[cur.order] :
          /\ freelist[cur.order][n] = Neighbor
          /\ found' = [idx |-> Neighbor,
                       prev |-> IF n = 1 THEN NONE ELSE freelist[cur.order][n - 1]]
    BY <1>6 DEF MergeFind
  <2>3. Neighbor \in Pages /\ Neighbor \in Range(freelist[cur.order])
    BY <1>6, <2>2 DEF MergeFind, Matches, Range
  <2>4. n # 1 => freelist[cur.order][n - 1] \in Pages
    BY <1>1, <2>1, <2>2 DEF TypeOK
  <2>5. found' \in [idx : Pages \cup {NONE}, prev : Pages \cup {NONE}]
    BY <2>2, <2>3, <2>4
  <2>6. TypeOK'
    BY <1>1, <1>6, <2>1, <2>5 DEF TypeOK, MergeFind, PCs
  <2>7. Neighbor' = Neighbor /\ cur' = cur
    BY <1>6 DEF Neighbor, MergeFind
  <2>8. Control'
    BY <2>1, <2>2, <2>3, <2>7 DEF Control, Heap, InTable
  <2>9. Heap'
    BY <1>6, <2>1, HeapFrame DEF MergeFind, Freeing
  <2> QED BY <2>6, <2>8, <2>9 DEF IInv
<1>7. CASE Spin
  <2>1. UNCHANGED vars
    BY <1>7 DEF Spin
  <2>2. TypeOK' /\ Control'
    BY <1>1, <2>1 DEF TypeOK, Control, vars, Neighbor
  <2>3. (pc # "corrupt" => Heap)'
    BY <2>1, HeapFrame DEF vars, IInv
  <2> QED BY <2>2, <2>3 DEF IInv
<1> QED BY <1>2, <1>3, <1>4, <1>5, <1>6, <1>7

----------------------------------------------------------------------------
(* Blocks that change hands. *)

LEMMA PopInv ==
  ASSUME TypeOK, Heap, pc # "carve", pc' # "carve", pc' \in Freeing => pc \in Freeing,
         NEW k \in Orders, freelist[k] # <<>>,
         NEW h \in [idx : Pages, order : Orders, pages : Nat, owner : Takers],
         h.idx = Head(freelist[k]), h.order = k,
         freelist' = [freelist EXCEPT ![k] = Tail(freelist[k])],
         entries' = [entries EXCEPT ![h.idx] = -entries[h.idx] - 1],
         held' = held \cup {h}, frame' = frame, cur' = cur
  PROVE  /\ Heap'
         /\ entries' \in [Pages -> Int] /\ freelist' \in [Orders -> Seq(Pages)]
         /\ held' \subseteq [idx : Pages, order : Orders, pages : Nat, owner : Owners]
<1> DEFINE i == h.idx
<1>1. /\ i \in Pages /\ i \in Nat /\ i \in Range(freelist[k]) /\ freelist \in [Orders -> Seq(Pages)]
      /\ Tail(freelist[k]) \in Seq(Pages)
      /\ Range(Tail(freelist[k])) = Range(freelist[k]) \ {i}
      /\ IsInjective(Tail(freelist[k]))
  <2>1. freelist[k] \in Seq(Pages) /\ IsInjective(freelist[k]) /\ i = Head(freelist[k])
    BY TypeFacts DEF Heap, NoDup
  <2>2. \A q \in Pages : q \in Nat
    BY TypeFacts
  <2>3. freelist \in [Orders -> Seq(Pages)]
    BY DEF TypeOK
  <2> QED BY <2>1, <2>2, <2>3, TailFacts
<1>2. \A l \in Orders : /\ freelist'[l] \in Seq(Pages) /\ IsInjective(freelist'[l])
                        /\ Range(freelist'[l]) = Range(freelist[l]) \ (IF l = k THEN {i} ELSE {})
  BY <1>1 DEF Heap, NoDup, TypeOK
<1>3. /\ entries[i] = k /\ entries'[i] = -k - 1 /\ k \in Nat
      /\ entries' \in [Pages -> Int] /\ \A p \in Pages : p # i => entries'[p] = entries[p]
  <2>1. entries \in [Pages -> Int] /\ k \in Nat /\ k \in Int
    BY SizeFacts DEF TypeOK, Orders
  <2>2. entries[i] = k
    BY <1>1 DEF Heap, FreeEntries
  <2> QED BY <1>1, <2>1, <2>2
<1>4. \A l \in Orders : \A j \in Range(freelist'[l]) :
        /\ j \in Range(freelist[l]) /\ j \in Nat /\ j \in Pages
        /\ Apart(j, l, i, k) /\ j # i
  <2> TAKE l \in Orders
  <2> TAKE j \in Range(freelist'[l])
  <2>1. j \in Range(freelist[l]) /\ ~(i = j /\ k = l)
    BY <1>2
  <2>2. Apart(j, l, i, k) /\ j \in Nat /\ j \in Pages
    BY <2>1, <1>1, TypeFacts DEF Heap, FreeApart
  <2> QED BY <2>1, <2>2, <1>1, ApartFacts
<1>5. \A b \in held : Apart(i, k, b.idx, b.order) /\ Apart(b.idx, b.order, i, k) /\ b.idx # i
  BY <1>1, TypeFacts, ApartFacts DEF Heap, FreeHeldApart
<1>6. NoDup' /\ FreeApart'
  BY <1>2, <1>4 DEF NoDup, FreeApart, Heap, Apart
<1>7. HeldApart'
  BY <1>5 DEF HeldApart, Heap, Apart
<1>8. FreeHeldApart'
  BY <1>4 DEF FreeHeldApart, Heap, Apart
<1>9. CurApart'
  BY <1>1, <1>4 DEF CurApart, Heap, Apart
<1>10. InTable'
  BY <1>1, <1>4 DEF InTable, Heap
<1>11. FreeEntries'
  BY <1>3, <1>4 DEF FreeEntries, Heap
<1>12. HeldEntries'
  <2>1. h.owner # "lost"
    BY DEF Takers
  <2>2. \A b \in held : entries'[b.idx] = entries[b.idx]
    BY <1>3, <1>5, TypeFacts
  <2> QED BY <1>3, <2>1, <2>2 DEF HeldEntries, Heap
<1>13. EntrySound'
  <2> SUFFICES ASSUME NEW p \in Pages, p < frame, entries'[p] >= 0
               PROVE  \/ entries'[p] \in Orders /\ p \in Range(freelist'[entries'[p]])
                      \/ \E b \in held' : b.owner = "lost" /\ b.idx = p /\ b.order = entries'[p]
    BY DEF EntrySound
  <2>1. p # i /\ entries'[p] = entries[p]
    BY <1>3
  <2>2. \/ entries[p] \in Orders /\ p \in Range(freelist[entries[p]])
        \/ \E b \in held : b.owner = "lost" /\ b.idx = p /\ b.order = entries[p]
    BY <2>1 DEF Heap, EntrySound
  <2> QED BY <2>1, <2>2, <1>2
<1>14. Carved'
  BY DEF Carved
<1>15. held' \subseteq [idx : Pages, order : Orders, pages : Nat, owner : Owners]
  BY DEF TypeOK, Owners
<1>16. freelist' \in [Orders -> Seq(Pages)]
  BY <1>1
<1> QED BY <1>3, <1>6, <1>7, <1>8, <1>9, <1>10, <1>11, <1>12, <1>13, <1>14, <1>15, <1>16 DEF Heap

LEMMA RefillInv == IInv /\ RefillNodes => IInv'
<1> SUFFICES ASSUME IInv, RefillNodes PROVE IInv'
  OBVIOUS
<1> DEFINE h == Held(Head(freelist[0]), 0, 1, "bin1")
<1>1. TypeOK /\ Control /\ pool[1] \in Nat
  BY TypeFacts DEF IInv
<1>2. /\ pc \in {"split", "free", "unlink"} /\ pc' = pc /\ made = 3 /\ made' = 3
      /\ pc = "split" => req.c > req.order
  BY <1>1 DEF RefillNodes, Needed, Booted
<1>3. Heap
  BY <1>2 DEF IInv
<1>4. freelist[0] # <<>> /\ freelist[0] \in Seq(Pages) /\ Head(freelist[0]) \in Pages
  BY <1>1, TypeFacts, SizeFacts DEF RefillNodes
<1>5. /\ h \in [idx : Pages, order : Orders, pages : Nat, owner : Takers]
      /\ h.idx = Head(freelist[0]) /\ h.order = 0
  BY <1>4, SizeFacts DEF Held, Takers
<1>6. /\ freelist' = [freelist EXCEPT ![0] = Tail(freelist[0])]
      /\ entries' = [entries EXCEPT ![h.idx] = -entries[h.idx] - 1]
      /\ held' = held \cup {h} /\ frame' = frame /\ cur' = cur
  BY <1>5, <1>4, <1>1 DEF RefillNodes, TypeOK
<1>7. /\ Heap'
      /\ entries' \in [Pages -> Int] /\ freelist' \in [Orders -> Seq(Pages)]
      /\ held' \subseteq [idx : Pages, order : Orders, pages : Nat, owner : Owners]
  BY <1>1, <1>2, <1>3, <1>4, <1>5, <1>6, PopInv, SizeFacts
<1>8. pool' \in [Bins -> Nat]
  <2>1. pool[0] + 1 \in Nat /\ PageUnits[1] \in Nat
    BY <1>1, TypeFacts, UnitsAssumption DEF Bins
  <2>2. pool[1] + PageUnits[1] \in Nat
    BY <2>1, <1>1
  <2> QED BY <2>1, <2>2 DEF RefillNodes
<1>9. TypeOK'
  BY <1>1, <1>2, <1>7, <1>8 DEF TypeOK, RefillNodes
<1>10. Control'
  <2>1. pc = "split" => req.c # 0 /\ req.c \in Orders
    BY <1>1, <1>2, SizeFacts DEF TypeOK
  <2>2. pc = "split" => freelist'[req.c] = freelist[req.c]
    BY <2>1, <1>6, <1>1 DEF TypeOK
  <2>3. req' = req /\ found' = found /\ Neighbor' = Neighbor
    BY DEF RefillNodes, Neighbor
  <2> QED BY <1>1, <1>2, <1>6, <2>2, <2>3 DEF Control
<1> QED BY <1>7, <1>9, <1>10 DEF IInv

LEMMA TakeInv == IInv /\ TakeBlock => IInv'
<1> SUFFICES ASSUME IInv, TakeBlock PROVE IInv'
  OBVIOUS
<1> DEFINE k == req.order
           h == Held(Head(freelist[k]), k, req.pages, req.for)
<1>1. TypeOK /\ Control /\ Heap /\ pc = "split"
  BY DEF IInv, TakeBlock
<1>2. k \in Orders /\ freelist[k] # <<>> /\ freelist[k] \in Seq(Pages) /\ Head(freelist[k]) \in Pages
  BY <1>1, TypeFacts, SizeFacts DEF TakeBlock, Control, TypeOK
<1>3. /\ h \in [idx : Pages, order : Orders, pages : Nat, owner : Takers]
      /\ h.idx = Head(freelist[k]) /\ h.order = k
  BY <1>1, <1>2 DEF Held, TypeOK
<1>4. /\ freelist' = [freelist EXCEPT ![k] = Tail(freelist[k])]
      /\ entries' = [entries EXCEPT ![h.idx] = -entries[h.idx] - 1]
      /\ held' = held \cup {h} /\ frame' = frame /\ cur' = cur
  BY <1>1, <1>2, <1>3 DEF TakeBlock, TypeOK, WithoutHead
<1>5. /\ pc' \in {"bins", "idle"} /\ made' \in 0 .. 3
      /\ pc' = "idle" => made' = 3
  BY <1>1 DEF TakeBlock, Booted, TypeOK
<1>6. /\ Heap'
      /\ entries' \in [Pages -> Int] /\ freelist' \in [Orders -> Seq(Pages)]
      /\ held' \subseteq [idx : Pages, order : Orders, pages : Nat, owner : Owners]
  <2>1. pc # "carve" /\ pc' # "carve" /\ ~(pc' \in Freeing)
    BY <1>1, <1>5 DEF Freeing
  <2> QED BY <1>1, <1>2, <1>3, <1>4, <2>1, PopInv
<1>7. pool' \in [Bins -> Nat] /\ lent' \in [Bins -> Nat]
  <2>1. PageUnits[0] - 1 \in Nat /\ PageUnits[1] - 1 \in Nat /\ PageUnits[1] \in Nat
    BY UnitsAssumption DEF Bins
  <2>2. pool[0] \in Nat /\ pool[1] \in Nat /\ \A b \in Bins : lent[b] \in Nat
    BY <1>1, TypeFacts
  <2>3. pool[1] + PageUnits[1] - 1 \in Nat
    BY <2>1, <2>2
  <2>4. pool' \in [Bins -> Nat]
    BY <2>1, <2>2, <2>3 DEF TakeBlock
  <2>5. lent' \in [Bins -> Nat]
    BY <2>2 DEF TakeBlock
  <2> QED BY <2>4, <2>5
<1>8. TypeOK'
  <2>1. pc' \in PCs
    BY <1>5 DEF PCs
  <2>2. req' \in [pages : Nat, order : 0 .. MaxOrder, c : 0 .. MaxOrder, for : Takers]
    BY <1>1, SizeFacts DEF TypeOK, TakeBlock, NoReq, Takers
  <2>3. found' \in [idx : Pages \cup {NONE}, prev : Pages \cup {NONE}]
    BY <1>1 DEF TypeOK, TakeBlock
  <2>4. cur' \in [idx : Pages, order : Orders] /\ frame' \in 1 .. NPages
    BY <1>1, <1>4 DEF TypeOK
  <2>5. dropped' \in Nat
    <3>1. pool[0] \in Nat /\ dropped \in Nat
      BY <1>1, TypeFacts DEF TypeOK
    <3> QED BY <3>1 DEF TakeBlock
  <2> QED BY <2>1, <2>2, <2>3, <2>4, <2>5, <1>5, <1>6, <1>7 DEF TypeOK
<1>9. Control'
  BY <1>5 DEF Control, Freeing
<1> QED BY <1>6, <1>8, <1>9 DEF IInv

LEMMA FreeInv == ASSUME IInv, NEW b \in held, Free(b) PROVE IInv'
<1>1. TypeOK /\ Control /\ Heap /\ pc = "idle" /\ pc' = "free" /\ made = 3 /\ made' = 3
  BY DEF IInv, Free, Control
<1>2. /\ b.idx \in Pages /\ b.idx \in Nat /\ b.order \in Orders /\ b.order \in Int
      /\ b.owner = "user"
  BY <1>1, TypeFacts, SizeFacts DEF Free, Orders
<1>3. entries[b.idx] = -b.order - 1
  BY <1>1, <1>2 DEF Heap, HeldEntries
<1>4. OrderOf(b) = b.order
  BY <1>2, <1>3 DEF OrderOf
<1>5. /\ cur' = [idx |-> b.idx, order |-> b.order] /\ held' = held \ {b}
      /\ UNCHANGED <<entries, freelist, frame, pool, lent, made, req, found, dropped>>
  BY <1>4 DEF Free
<1>6. TypeOK'
  BY <1>1, <1>2, <1>5 DEF TypeOK, PCs
<1>7. Control'
  BY <1>1 DEF Control, Freeing
<1>8. CurApart'
  <2>1. \A a \in held' : Apart(b.idx, b.order, a.idx, a.order)
    BY <1>1, <1>5 DEF Heap, HeldApart
  <2>2. \A k \in Orders : \A i \in Range(freelist[k]) : Apart(b.idx, b.order, i, k)
    BY <1>1, <1>2, TypeFacts, ApartFacts DEF Heap, FreeHeldApart
  <2> QED BY <1>5, <2>1, <2>2 DEF CurApart, Apart
<1>9. EntrySound'
  BY <1>1, <1>2, <1>5 DEF EntrySound, Heap
<1>10. Heap'
  BY <1>1, <1>5, <1>8, <1>9 DEF Heap, NoDup, FreeApart, HeldApart, FreeHeldApart, InTable,
     FreeEntries, HeldEntries, Carved, Apart
<1> QED BY <1>6, <1>7, <1>10 DEF IInv

LEMMA FreeDoneInv == IInv /\ FreeDone => IInv'
<1> SUFFICES ASSUME IInv, FreeDone PROVE IInv'
  OBVIOUS
<1> DEFINE i == cur.idx
           k == cur.order
<1>1. TypeOK /\ Control /\ Heap /\ pc = "merge" /\ pc' = "idle" /\ made = 3 /\ made' = 3
  BY DEF IInv, FreeDone, Control, Freeing
<1>2. /\ i \in Pages /\ i \in Nat /\ k \in Orders /\ k \in Nat
      /\ freelist[k] \in Seq(Pages) /\ IsInjective(freelist[k])
  BY <1>1, TypeFacts, SizeFacts DEF Orders, Heap, NoDup
<1>3. /\ freelist' = [freelist EXCEPT ![k] = <<i>> \o freelist[k]]
      /\ entries' = [entries EXCEPT ![i] = k] /\ cur' = NoCur
      /\ UNCHANGED <<frame, pool, lent, held, made, req, found, dropped>>
  BY <1>1, <1>2 DEF FreeDone, TypeOK, Returned
<1>4. \A l \in Orders : \A j \in Range(freelist[l]) :
        /\ j \in Nat /\ j \in Pages /\ j # i
        /\ Apart(i, k, j, l) /\ Apart(j, l, i, k)
  BY <1>1, <1>2, TypeFacts, ApartFacts DEF Heap, CurApart, Freeing
<1>5. /\ <<i>> \o freelist[k] \in Seq(Pages) /\ IsInjective(<<i>> \o freelist[k])
      /\ Range(<<i>> \o freelist[k]) = Range(freelist[k]) \cup {i}
  <2>1. i \notin Range(freelist[k])
    BY <1>2, <1>4
  <2> HIDE DEF i, k
  <2> QED BY <2>1, <1>2, PushFacts
<1>6. freelist \in [Orders -> Seq(Pages)] /\ entries \in [Pages -> Int]
  BY <1>1 DEF TypeOK
<1>7. \A l \in Orders : /\ IsInjective(freelist'[l])
                        /\ Range(freelist'[l]) = Range(freelist[l]) \cup (IF l = k THEN {i} ELSE {})
  BY <1>1, <1>3, <1>5, <1>6 DEF Heap, NoDup
<1>8. \A b \in held : /\ Apart(i, k, b.idx, b.order) /\ b.idx # i /\ b.idx \in Pages
  BY <1>1, <1>2, TypeFacts, ApartFacts DEF Heap, CurApart, Freeing
<1>9. entries'[i] = k /\ \A p \in Pages : p # i => entries'[p] = entries[p]
  BY <1>2, <1>3, <1>6
<1>10. TypeOK'
  <2>1. freelist' \in [Orders -> Seq(Pages)] /\ entries' \in [Pages -> Int]
    BY <1>2, <1>3, <1>5, <1>6
  <2>2. cur' \in [idx : Pages, order : Orders]
    BY <1>2, <1>3, SizeFacts DEF NoCur, Pages
  <2> QED BY <1>1, <1>3, <2>1, <2>2 DEF TypeOK, PCs
<1>11. Control'
  BY <1>1 DEF Control, Freeing
<1>12. NoDup' /\ FreeApart'
  <2>1. NoDup'
    BY <1>7 DEF NoDup
  <2>2. ASSUME NEW l \in Orders, NEW m \in Orders,
               NEW x \in Range(freelist'[l]), NEW y \in Range(freelist'[m])
        PROVE  (x = y /\ l = m) \/ Apart(x, l, y, m)
    <3>1. CASE x \in Range(freelist[l]) /\ y \in Range(freelist[m])
      BY <3>1, <1>1 DEF Heap, FreeApart
    <3>2. CASE x = i /\ l = k
      BY <3>2, <1>4, <1>7
    <3>3. CASE y = i /\ m = k
      BY <3>3, <1>4, <1>7
    <3> QED BY <3>1, <3>2, <3>3, <1>7
  <2> QED BY <2>1, <2>2 DEF FreeApart, Apart
<1>13. FreeHeldApart' /\ HeldApart'
  BY <1>1, <1>3, <1>7, <1>8 DEF FreeHeldApart, HeldApart, Heap, Apart
<1>14. CurApart' /\ Carved'
  BY <1>1 DEF CurApart, Carved, Freeing
<1>15. InTable'
  BY <1>1, <1>3, <1>7 DEF InTable, Heap, Freeing
<1>16. FreeEntries'
  BY <1>1, <1>4, <1>7, <1>9 DEF FreeEntries, Heap
<1>17. HeldEntries'
  BY <1>1, <1>3, <1>8, <1>9 DEF HeldEntries, Heap
<1>18. EntrySound'
  <2> SUFFICES ASSUME NEW p \in Pages, p < frame, entries'[p] >= 0
               PROVE  \/ entries'[p] \in Orders /\ p \in Range(freelist'[entries'[p]])
                      \/ \E b \in held : b.owner = "lost" /\ b.idx = p /\ b.order = entries'[p]
    BY <1>3 DEF EntrySound
  <2>1. CASE p = i
    BY <2>1, <1>2, <1>7, <1>9
  <2>2. CASE p # i
    <3>1. entries'[p] = entries[p]
      BY <2>2, <1>9
    <3>2. \/ entries[p] \in Orders /\ p \in Range(freelist[entries[p]])
          \/ \E b \in held : b.owner = "lost" /\ b.idx = p /\ b.order = entries[p]
      BY <3>1, <1>1 DEF Heap, EntrySound
    <3> QED BY <3>1, <3>2, <1>7
  <2> QED BY <2>1, <2>2
<1>19. Heap'
  BY <1>12, <1>13, <1>14, <1>15, <1>16, <1>17, <1>18 DEF Heap
<1> QED BY <1>10, <1>11, <1>19 DEF IInv

\* What both ways of taking the neighbour off its list do.
LEMMA MergeTypes ==
  ASSUME IInv, pc = "unlink", MergeStep
  PROVE  /\ TypeOK /\ Heap /\ made = 3 /\ made' = 3
         /\ pool' \in [Bins -> Nat] /\ entries' \in [Pages -> Int]
         /\ cur' \in [idx : Pages, order : Orders] /\ found' = NoFind
         /\ cur' = [idx |-> MinOf(cur.idx, found.idx), order |-> cur.order + 1]
         /\ cur.order + 1 \in Orders /\ Size[cur.order + 1] = 2 * Size[cur.order]
         /\ found.idx \in Pages
         /\ found.idx = cur.idx + Size[cur.order] \/ found.idx = cur.idx - Size[cur.order]
         /\ cur'.idx + Size[cur.order + 1] <= NPages
         /\ UNCHANGED <<frame, lent, held, made, req, dropped>>
<1>1. TypeOK /\ Control /\ Heap /\ made = 3
  BY DEF IInv, Control, Freeing
<1>2. /\ cur.idx \in Nat /\ cur.idx \in Pages /\ cur.order \in Orders /\ Size[cur.order] \in Nat
      /\ cur.idx + Size[cur.order] <= NPages /\ Size[cur.order] <= NPages
  BY <1>1, TypeFacts, SizeFacts DEF Heap, InTable, Freeing
<1>3. cur.order + 1 \in Orders /\ Size[cur.order + 1] = 2 * Size[cur.order]
  BY <1>2, SizeFacts
<1>4. /\ found.idx \in Pages /\ found.idx \in Nat /\ found.idx + Size[cur.order] <= NPages
      /\ found.idx = cur.idx + Size[cur.order] \/ found.idx = cur.idx - Size[cur.order]
  BY <1>1, <1>2, TypeFacts, NeighborAdjacent DEF Control, Neighbor
<1>5. cur' = [idx |-> MinOf(cur.idx, found.idx), order |-> cur.order + 1]
  BY DEF MergeStep, MergedIdx
<1>6. MinOf(cur.idx, found.idx) \in Pages /\ MinOf(cur.idx, found.idx) + Size[cur.order + 1] <= NPages
  <2>1. MinOf(cur.idx, found.idx) \in Pages
    BY <1>2, <1>4 DEF MinOf
  <2>2. MinOf(cur.idx, found.idx) + 2 * Size[cur.order] <= NPages
    BY <1>2, <1>4, SizeFacts DEF MinOf
  <2> QED BY <2>1, <2>2, <1>3
<1>7. pool' \in [Bins -> Nat]
  <2>1. pool[0] \in Nat /\ pool[1] \in Nat /\ pool[1] >= 1
    BY <1>1, TypeFacts DEF MergeStep
  <2> QED BY <1>1, <2>1 DEF MergeStep, UseNodes, NodeBin, Booted, Bins
<1>8. entries' \in [Pages -> Int]
  BY <1>1, <1>4 DEF MergeStep, ChildEntries, TypeOK, CHILD
<1>9. cur' \in [idx : Pages, order : Orders]
  BY <1>3, <1>5, <1>6
<1> QED BY <1>1, <1>3, <1>4, <1>5, <1>6, <1>7, <1>8, <1>9 DEF MergeStep

LEMMA UnlinkStaleInv == IInv /\ UnlinkStale => IInv'
<1> SUFFICES ASSUME IInv, UnlinkStale PROVE IInv'
  OBVIOUS
<1>1. pc = "unlink" /\ MergeStep /\ pc' = "corrupt" /\ freelist' = freelist
  BY DEF UnlinkStale, MergeStep
<1>2. TypeOK'
  <2>1. /\ TypeOK /\ made' = 3
        /\ pool' \in [Bins -> Nat] /\ entries' \in [Pages -> Int]
        /\ cur' \in [idx : Pages, order : Orders] /\ found' = NoFind
        /\ UNCHANGED <<frame, lent, held, made, req, dropped>>
    BY <1>1, MergeTypes
  <2>2. found' \in [idx : Pages \cup {NONE}, prev : Pages \cup {NONE}]
    BY <2>1 DEF NoFind
  <2>3. pc' \in PCs
    BY <1>1 DEF PCs
  <2> QED BY <1>1, <2>1, <2>2, <2>3 DEF TypeOK
<1> QED BY <1>1, <1>2 DEF IInv, Control, Freeing

LEMMA UnlinkInv == IInv /\ Unlink => IInv'
<1> SUFFICES ASSUME IInv, Unlink PROVE IInv'
  OBVIOUS
<1> DEFINE k == cur.order
           j == found.idx
<1>1. pc = "unlink" /\ MergeStep /\ pc' = "merge" /\ Linked
  BY DEF Unlink, MergeStep
<1>2. /\ TypeOK /\ Heap /\ made = 3 /\ made' = 3
      /\ cur' = [idx |-> MinOf(cur.idx, j), order |-> k + 1]
      /\ k + 1 \in Orders /\ Size[k + 1] = 2 * Size[k]
      /\ j \in Pages
      /\ j = cur.idx + Size[k] \/ j = cur.idx - Size[k]
      /\ cur'.idx + Size[k + 1] <= NPages
      /\ UNCHANGED <<frame, lent, held, made, req>>
  BY <1>1, MergeTypes
<1>3. /\ j \in Nat /\ k \in Orders /\ cur.idx \in Nat /\ freelist \in [Orders -> Seq(Pages)]
      /\ entries \in [Pages -> Int]
  BY <1>2, TypeFacts DEF TypeOK
<1>4. PICK n \in DOMAIN freelist[k] :
        freelist[k][n] = j /\ freelist' = [freelist EXCEPT ![k] = RemoveAt(freelist[k], n)]
  BY <1>3 DEF Unlink
<1>5. /\ RemoveAt(freelist[k], n) \in Seq(Pages) /\ IsInjective(RemoveAt(freelist[k], n))
      /\ Range(RemoveAt(freelist[k], n)) = Range(freelist[k]) \ {j}
      /\ j \in Range(freelist[k])
  <2>1. freelist[k] \in Seq(Pages) /\ IsInjective(freelist[k])
    BY <1>2, <1>3 DEF Heap, NoDup
  <2>2. j \in Range(freelist[k])
    BY <1>4 DEF Range
  <2> HIDE DEF k, j
  <2> QED BY <2>1, <2>2, <1>4, RemoveFacts
<1>6. \A l \in Orders : /\ IsInjective(freelist'[l])
                        /\ Range(freelist'[l]) = Range(freelist[l]) \ (IF l = k THEN {j} ELSE {})
  BY <1>2, <1>3, <1>4, <1>5 DEF Heap, NoDup
<1>7. \A l \in Orders : \A m \in Range(freelist'[l]) :
        /\ m \in Range(freelist[l]) /\ m \in Nat /\ m \in Pages
        /\ Apart(j, k, m, l) /\ m # j /\ Apart(cur.idx, k, m, l)
  <2> TAKE l \in Orders
  <2> TAKE m \in Range(freelist'[l])
  <2>1. m \in Range(freelist[l]) /\ ~(j = m /\ k = l)
    BY <1>6
  <2>2. Apart(j, k, m, l) /\ m \in Nat /\ m \in Pages
    BY <1>2, <1>3, <1>5, <2>1, TypeFacts DEF Heap, FreeApart
  <2>3. Apart(cur.idx, k, m, l)
    BY <1>1, <1>2, <2>1 DEF Heap, CurApart, Freeing
  <2> QED BY <1>3, <2>1, <2>2, <2>3, ApartFacts
<1>8. \A b \in held : /\ Apart(j, k, b.idx, b.order) /\ Apart(cur.idx, k, b.idx, b.order)
                      /\ b.idx # j /\ b.idx \in Nat /\ b.idx \in Pages /\ b.order \in Orders
  BY <1>1, <1>2, <1>3, <1>5, TypeFacts, ApartFacts DEF Heap, FreeHeldApart, CurApart, Freeing
<1>9. entries'[j] = CHILD /\ \A p \in Pages : p # j => entries'[p] = entries[p]
  BY <1>1, <1>2, <1>3 DEF MergeStep, ChildEntries
<1>10. TypeOK'
  <2>1. freelist' \in [Orders -> Seq(Pages)]
    BY <1>3, <1>4, <1>5
  <2>2. /\ pool' \in [Bins -> Nat] /\ entries' \in [Pages -> Int]
        /\ cur' \in [idx : Pages, order : Orders] /\ found' = NoFind /\ dropped' = dropped
    BY <1>1, MergeTypes
  <2>3. found' \in [idx : Pages \cup {NONE}, prev : Pages \cup {NONE}]
    BY <2>2 DEF NoFind
  <2>4. pc' \in PCs
    BY <1>1 DEF PCs
  <2> QED BY <1>2, <2>1, <2>2, <2>3, <2>4 DEF TypeOK
<1>11. Control'
  BY <1>1, <1>2 DEF Control, Freeing
<1>12. NoDup' /\ FreeApart'
  BY <1>2, <1>6, <1>7 DEF NoDup, FreeApart, Heap, Apart
<1>13. FreeHeldApart' /\ HeldApart'
  BY <1>2, <1>7 DEF FreeHeldApart, HeldApart, Heap, Apart
<1>14. CurApart'
  <2>1. \A l \in Orders : \A m \in Range(freelist'[l]) : Apart(MinOf(cur.idx, j), k + 1, m, l)
    BY <1>2, <1>3, <1>7, MergedApart
  <2>2. \A b \in held : Apart(MinOf(cur.idx, j), k + 1, b.idx, b.order)
    BY <1>2, <1>3, <1>8, MergedApart
  <2> QED BY <2>1, <2>2, <1>2 DEF CurApart, Apart
<1>15. InTable' /\ Carved'
  BY <1>1, <1>2, <1>7 DEF InTable, Heap, Carved
<1>16. FreeEntries'
  BY <1>2, <1>7, <1>9 DEF FreeEntries, Heap
<1>17. HeldEntries'
  BY <1>2, <1>8, <1>9 DEF HeldEntries, Heap
<1>18. EntrySound'
  <2> SUFFICES ASSUME NEW p \in Pages, p < frame, entries'[p] >= 0
               PROVE  \/ entries'[p] \in Orders /\ p \in Range(freelist'[entries'[p]])
                      \/ \E b \in held : b.owner = "lost" /\ b.idx = p /\ b.order = entries'[p]
    BY <1>2 DEF EntrySound
  <2>1. p # j /\ entries'[p] = entries[p]
    BY <1>9 DEF CHILD
  <2>2. \/ entries[p] \in Orders /\ p \in Range(freelist[entries[p]])
        \/ \E b \in held : b.owner = "lost" /\ b.idx = p /\ b.order = entries[p]
    BY <2>1, <1>2 DEF Heap, EntrySound
  <2> QED BY <2>1, <2>2, <1>6
<1>19. Heap'
  BY <1>12, <1>13, <1>14, <1>15, <1>16, <1>17, <1>18 DEF Heap
<1> QED BY <1>1, <1>10, <1>11, <1>19 DEF IInv

LEMMA SplitInv == IInv /\ Split => IInv'
<1> SUFFICES ASSUME IInv, Split PROVE IInv'
  OBVIOUS
<1> DEFINE c == req.c
           i == Head(freelist[c])
           j == i + Size[c - 1]
<1>1. TypeOK /\ Control /\ Heap /\ pc = "split" /\ pc' = "split" /\ made' = made
  BY DEF IInv, Split
<1>2. /\ c \in Orders /\ c > 0 /\ c \in Nat /\ c - 1 \in Orders /\ Size[c] = 2 * Size[c - 1]
      /\ req.order <= c - 1 /\ req.order \in 0 .. MaxOrder /\ c - 1 \in 0 .. MaxOrder
      /\ Size[c - 1] \in Nat /\ Size[c - 1] >= 1
  <2>1. req.order \in 0 .. MaxOrder /\ c \in 0 .. MaxOrder /\ c > req.order
    BY <1>1 DEF Split, TypeOK
  <2>2. MaxOrder \in Nat /\ c \in Orders
    BY <2>1, SizeFacts
  <2>3. /\ c \in Nat /\ c > 0 /\ req.order <= c - 1 /\ c - 1 \in 0 .. MaxOrder
    BY <2>1, <2>2
  <2> QED BY <2>1, <2>2, <2>3, SizeFacts
<1>3. freelist \in [Orders -> Seq(Pages)] /\ entries \in [Pages -> Int]
  BY <1>1 DEF TypeOK
<1>4. /\ freelist[c] # <<>> /\ freelist[c] \in Seq(Pages) /\ IsInjective(freelist[c])
      /\ freelist[c - 1] \in Seq(Pages) /\ IsInjective(freelist[c - 1])
  BY <1>1, <1>2, <1>3 DEF Control, Heap, NoDup
<1>5. /\ i \in Range(freelist[c]) /\ Tail(freelist[c]) \in Seq(Pages)
      /\ Range(Tail(freelist[c])) = Range(freelist[c]) \ {i} /\ IsInjective(Tail(freelist[c]))
  BY <1>4, TailFacts
<1>6. /\ i \in Pages /\ i \in Nat /\ i + Size[c] <= NPages
      /\ j \in Pages /\ j \in Nat /\ j + Size[c - 1] <= NPages /\ i # j
  <2>1. i \in Pages /\ i \in Nat /\ i + Size[c] <= NPages
    BY <1>1, <1>2, <1>5, TypeFacts DEF Heap, InTable
  <2> QED BY <2>1, <1>2, SizeFacts DEF Pages
<1>7. /\ freelist' = [k \in Orders |-> IF k = c THEN Tail(freelist[c])
                                       ELSE IF k = c - 1 THEN <<i, j>> \o freelist[k]
                                       ELSE freelist[k]]
      /\ entries' = [p \in Pages |-> IF p \in {i, j} THEN c - 1 ELSE entries[p]]
      /\ req' = [req EXCEPT !.c = c - 1]
      /\ UNCHANGED <<frame, lent, held, made, pc, cur, found>>
  BY DEF Split, Halves
\* What is apart from the block is apart from its halves.
<1>8. /\ Apart(i, c - 1, j, c - 1) /\ Apart(j, c - 1, i, c - 1)
      /\ \A m \in Nat, l \in Orders : Apart(i, c, m, l) =>
           /\ Apart(i, c - 1, m, l) /\ Apart(j, c - 1, m, l)
           /\ Apart(m, l, i, c - 1) /\ Apart(m, l, j, c - 1) /\ m # i /\ m # j
  <2>1. /\ Apart(i, c - 1, j, c - 1)
        /\ \A m \in Nat, l \in Orders : Apart(i, c, m, l) =>
             Apart(i, c - 1, m, l) /\ Apart(j, c - 1, m, l)
    BY <1>2, <1>6, HalvesApart
  <2> HIDE DEF i, j, c
  <2> QED BY <2>1, <1>2, <1>6, ApartFacts
<1>9. \A l \in Orders : \A m \in Range(freelist[l]) : m # i \/ l # c =>
        /\ m \in Nat /\ m \in Pages /\ m # i /\ m # j /\ Apart(i, c, m, l)
  <2> TAKE l \in Orders
  <2> TAKE m \in Range(freelist[l])
  <2> SUFFICES ASSUME m # i \/ l # c
               PROVE  m \in Nat /\ m \in Pages /\ m # i /\ m # j /\ Apart(i, c, m, l)
    OBVIOUS
  <2>1. Apart(i, c, m, l) /\ m \in Nat /\ m \in Pages
    BY <1>1, <1>2, <1>5, TypeFacts DEF Heap, FreeApart
  <2> QED BY <2>1, <1>8
<1>10. /\ <<i, j>> \o freelist[c - 1] \in Seq(Pages) /\ IsInjective(<<i, j>> \o freelist[c - 1])
       /\ Range(<<i, j>> \o freelist[c - 1]) = Range(freelist[c - 1]) \cup {i, j}
       /\ <<i, j>> \o freelist[c - 1] # <<>>
  <2> DEFINE s == freelist[c - 1]
             t == <<j>> \o s
  <2>1. i \notin Range(s) /\ j \notin Range(s) /\ s \in Seq(Pages) /\ IsInjective(s)
    <3>1. c - 1 # c /\ c - 1 \in Orders
      BY <1>2
    <3> HIDE DEF i, j, c
    <3> QED BY <3>1, <1>4, <1>9
  <2>2. i \in Pages /\ j \in Pages /\ i # j
    BY <1>6
  <2> HIDE DEF i, j, s
  <2>3. t \in Seq(Pages) /\ Range(t) = Range(s) \cup {j} /\ IsInjective(t)
    BY <2>1, <2>2, PushFacts
  <2>4. i \notin Range(t)
    BY <2>1, <2>2, <2>3
  <2>5. <<i, j>> \o s = <<i>> \o t
    BY <2>1, <2>2, PushTwo
  <2> HIDE DEF t
  <2>6. /\ <<i>> \o t \in Seq(Pages) /\ Range(<<i>> \o t) = Range(t) \cup {i}
        /\ IsInjective(<<i>> \o t) /\ <<i>> \o t # <<>>
    BY <2>2, <2>3, <2>4, PushFacts
  <2>7. /\ <<i, j>> \o s \in Seq(Pages) /\ Range(<<i, j>> \o s) = Range(s) \cup {i, j}
        /\ IsInjective(<<i, j>> \o s) /\ <<i, j>> \o s # <<>>
    BY <2>3, <2>5, <2>6
  <2> QED BY <2>7 DEF s
<1>11. \A l \in Orders : /\ IsInjective(freelist'[l]) /\ freelist'[l] \in Seq(Pages)
                         /\ Range(freelist'[l]) = IF l = c THEN Range(freelist[l]) \ {i}
                                                  ELSE IF l = c - 1 THEN Range(freelist[l]) \cup {i, j}
                                                  ELSE Range(freelist[l])
  BY <1>1, <1>3, <1>5, <1>7, <1>10 DEF Heap, NoDup
\* A listed block is one of the halves or was listed and is apart from the split one.
<1>12. \A l \in Orders : \A m \in Range(freelist'[l]) :
         \/ m = i /\ l = c - 1
         \/ m = j /\ l = c - 1
         \/ m \in Range(freelist[l]) /\ m \in Nat /\ m \in Pages /\ m # i /\ m # j /\ Apart(i, c, m, l)
  <2> HIDE DEF i, j, c
  <2> QED BY <1>9, <1>11
<1>13. \A b \in held : /\ Apart(i, c, b.idx, b.order) /\ b.idx # i /\ b.idx # j
                       /\ b.idx \in Nat /\ b.idx \in Pages /\ b.order \in Orders
  <2>1. \A b \in held : b.idx \in Nat /\ b.idx \in Pages /\ b.order \in Orders
    BY <1>1, TypeFacts
  <2>2. \A b \in held : Apart(i, c, b.idx, b.order)
    BY <1>1, <1>2, <1>5 DEF Heap, FreeHeldApart
  <2> HIDE DEF i, j, c
  <2> QED BY <1>8, <2>1, <2>2
<1>14. entries'[i] = c - 1 /\ entries'[j] = c - 1 /\ \A p \in Pages \ {i, j} : entries'[p] = entries[p]
  BY <1>6, <1>7
<1>15. TypeOK'
  <2>1. freelist' \in [Orders -> Seq(Pages)]
    BY <1>7, <1>11
  <2>2. entries' \in [Pages -> Int]
    BY <1>2, <1>3, <1>7
  <2>3. req' \in [pages : Nat, order : 0 .. MaxOrder, c : 0 .. MaxOrder, for : Takers]
    BY <1>1, <1>2, <1>7 DEF TypeOK
  <2>4. pool' \in [Bins -> Nat]
    <3>1. pool[0] \in Nat /\ pool[1] \in Nat /\ pool[NodeBin] >= 2
      BY <1>1, TypeFacts DEF Split
    <3>2. UseNodes(2, 1)
      BY DEF Split
    <3> QED BY <3>1, <3>2 DEF UseNodes, NodeBin, Bins
  <2>5. dropped' = dropped
    BY DEF Split
  <2> QED BY <1>1, <1>7, <2>1, <2>2, <2>3, <2>4, <2>5 DEF TypeOK
<1>16. Control'
  <2>1. req'.order = req.order /\ req'.c = c - 1 /\ freelist'[c - 1] # <<>>
    BY <1>1, <1>2, <1>7, <1>10 DEF TypeOK
  <2> QED BY <1>1, <1>2, <2>1 DEF Control, Freeing
<1> HIDE DEF c, i, j
<1>17. NoDup' /\ FreeApart'
  <2>1. NoDup'
    BY <1>11 DEF NoDup
  <2>2. ASSUME NEW l \in Orders, NEW m \in Orders,
               NEW x \in Range(freelist'[l]), NEW y \in Range(freelist'[m])
        PROVE  (x = y /\ l = m) \/ Apart(x, l, y, m)
    <3>1. CASE /\ x \in Range(freelist[l]) /\ x \in Nat /\ Apart(i, c, x, l)
               /\ y \in Range(freelist[m]) /\ y \in Nat /\ Apart(i, c, y, m)
      BY <3>1, <1>1 DEF Heap, FreeApart
    <3>2. CASE x \in {i, j} /\ l = c - 1 /\ y \in {i, j} /\ m = c - 1
      BY <3>2, <1>8
    <3>3. CASE x \in {i, j} /\ l = c - 1 /\ y \in Nat /\ Apart(i, c, y, m)
      BY <3>3, <1>8
    <3>4. CASE y \in {i, j} /\ m = c - 1 /\ x \in Nat /\ Apart(i, c, x, l)
      BY <3>4, <1>8
    <3> QED BY <3>1, <3>2, <3>3, <3>4, <1>12
  <2> QED BY <2>1, <2>2 DEF FreeApart, Apart
<1>18. HeldApart' /\ Carved'
  BY <1>1, <1>7 DEF HeldApart, Heap, Apart, Carved
<1>19. FreeHeldApart'
  <2> SUFFICES ASSUME NEW l \in Orders, NEW m \in Range(freelist'[l]), NEW b \in held
               PROVE  Apart(m, l, b.idx, b.order)
    BY <1>7 DEF FreeHeldApart, Apart
  <2>1. CASE m \in {i, j} /\ l = c - 1
    BY <2>1, <1>8, <1>13
  <2>2. CASE m \in Range(freelist[l])
    BY <2>2, <1>1 DEF Heap, FreeHeldApart
  <2> QED BY <2>1, <2>2, <1>12
<1>20. CurApart'
  BY <1>1 DEF CurApart, Freeing
<1>21. InTable'
  <2>1. i + Size[c - 1] <= NPages /\ j + Size[c - 1] <= NPages
    BY <1>2, <1>6, SizeFacts
  <2>2. \A l \in Orders : \A m \in Range(freelist'[l]) : m + Size[l] <= NPages
    BY <2>1, <1>1, <1>12 DEF InTable, Heap
  <2>3. \A b \in held : b.idx + Size[b.order] <= NPages
    BY <1>1 DEF InTable, Heap
  <2> QED BY <2>2, <2>3, <1>1, <1>7 DEF InTable, Freeing
<1>22. FreeEntries'
  BY <1>1, <1>12, <1>14 DEF FreeEntries, Heap
<1>23. HeldEntries'
  BY <1>1, <1>7, <1>13, <1>14 DEF HeldEntries, Heap
<1>24. EntrySound'
  <2> SUFFICES ASSUME NEW p \in Pages, p < frame, entries'[p] >= 0
               PROVE  \/ entries'[p] \in Orders /\ p \in Range(freelist'[entries'[p]])
                      \/ \E b \in held : b.owner = "lost" /\ b.idx = p /\ b.order = entries'[p]
    BY <1>7 DEF EntrySound
  <2>1. CASE p \in {i, j}
    <3>1. entries'[p] = c - 1
      BY <2>1, <1>14
    <3>2. c - 1 # c
      BY <1>2
    <3>3. p \in Range(freelist'[c - 1])
      BY <2>1, <3>2, <1>2, <1>11
    <3> QED BY <3>1, <3>3, <1>2
  <2>2. CASE p \notin {i, j}
    <3>1. entries'[p] = entries[p]
      BY <2>2, <1>14
    <3>2. \/ entries[p] \in Orders /\ p \in Range(freelist[entries[p]])
          \/ \E b \in held : b.owner = "lost" /\ b.idx = p /\ b.order = entries[p]
      BY <3>1, <1>1 DEF Heap, EntrySound
    <3>3. entries[p] \in Orders /\ p \in Range(freelist[entries[p]]) => p \in Range(freelist'[entries[p]])
      BY <2>2, <1>11
    <3> QED BY <3>1, <3>2, <3>3
  <2> QED BY <2>1, <2>2
<1>25. Heap'
  BY <1>17, <1>18, <1>19, <1>20, <1>21, <1>22, <1>23, <1>24 DEF Heap
<1> QED BY <1>15, <1>16, <1>25 DEF IInv

LEMMA CarveBlockInv == IInv /\ CarveBlock => IInv'
<1> SUFFICES ASSUME IInv, CarveBlock PROVE IInv'
  OBVIOUS
<1>1. TypeOK /\ Control /\ Heap /\ pc = "carve" /\ pc' = "carve" /\ made = 0 /\ made' = 0
  BY DEF IInv, CarveBlock, Control
<1>2. PICK k \in 0 .. MaxOrder :
        /\ Fits(k)
        /\ entries' = [p \in Pages |-> IF p = frame THEN k
                                       ELSE IF p \in frame + 1 .. frame + Size[k] - 1 THEN CHILD
                                       ELSE entries[p]]
        /\ frame' = frame + Size[k]
        /\ IF pool[0] > 0
           THEN /\ freelist' = [freelist EXCEPT ![k] = Append(freelist[k], frame)]
                /\ UseNodes(1, 0)
                /\ UNCHANGED held
           ELSE /\ held' = held \cup {Held(frame, k, Size[k], "lost")}
                /\ UNCHANGED <<freelist, pool>>
  BY <1>1 DEF CarveBlock, TypeOK
<1>3. /\ k \in Orders /\ k \in Nat /\ Size[k] \in Nat /\ Size[k] >= 1 /\ frame \in Nat /\ frame \in Pages
      /\ frame + Size[k] <= NPages /\ frame < NPages
      /\ \A p \in frame .. frame + Size[k] - 1 : entries[p] >= 0
      /\ UNCHANGED <<lent, req, cur, found>>
  BY <1>1, <1>2, SizeFacts, TypeFacts DEF Fits, CarveBlock, Pages
<1>4. freelist \in [Orders -> Seq(Pages)] /\ entries \in [Pages -> Int]
  BY <1>1 DEF TypeOK
\* Everything carved so far, and everything reserved, is apart from the block.
<1>5. \A l \in Orders : \A m \in Range(freelist[l]) :
        /\ m \in Nat /\ m \in Pages /\ m < frame /\ m + Size[l] <= frame
        /\ Apart(m, l, frame, k) /\ Apart(frame, k, m, l)
  <2> TAKE l \in Orders
  <2> TAKE m \in Range(freelist[l])
  <2>1. m \in Nat /\ m \in Pages /\ Size[l] >= 1 /\ Size[l] \in Nat
    BY <1>1, TypeFacts, SizeFacts
  <2>2. m + Size[l] <= frame
    BY <1>1 DEF Heap, Carved
  <2> QED BY <2>1, <2>2, <1>3 DEF Apart
<1>6. \A b \in held : /\ b.idx \in Nat /\ b.idx \in Pages /\ b.order \in Orders
                      /\ Apart(b.idx, b.order, frame, k) /\ Apart(frame, k, b.idx, b.order)
                      /\ b.idx \notin frame .. frame + Size[k] - 1
  <2> TAKE b \in held
  <2>1. b.idx \in Nat /\ b.idx \in Pages /\ b.order \in Orders /\ Size[b.order] \in Nat /\ Size[b.order] >= 1
    BY <1>1, TypeFacts, SizeFacts
  <2>2. CASE b.idx + Size[b.order] <= frame
    BY <2>1, <2>2, <1>3 DEF Apart
  <2>3. CASE b.idx >= frame /\ b.order = 0 /\ b.owner = "reserved"
    <3>1. entries[b.idx] = -1
      BY <2>3, <1>1 DEF Heap, HeldEntries
    <3>2. b.idx \notin frame .. frame + Size[k] - 1
      BY <3>1, <1>3
    <3>3. b.idx >= frame + Size[k]
      BY <3>2, <2>1, <2>3, <1>3
    <3> QED BY <2>1, <3>2, <3>3, <1>3 DEF Apart
  <2> QED BY <2>2, <2>3, <1>1 DEF Heap, Carved
<1>7. /\ entries'[frame] = k /\ entries' \in [Pages -> Int]
      /\ \A p \in Pages : p \notin frame .. frame + Size[k] - 1 => entries'[p] = entries[p]
      /\ \A p \in Pages : p \in frame + 1 .. frame + Size[k] - 1 => entries'[p] < 0
      /\ \A p \in Pages : p < frame => entries'[p] = entries[p]
  <2>1. \A p \in Pages : p \in Nat
    BY <1>1, TypeFacts
  <2>2. entries'[frame] = k /\ entries' \in [Pages -> Int]
    BY <1>2, <1>3, <1>4 DEF CHILD
  <2>3. \A p \in Pages : p \notin frame .. frame + Size[k] - 1 => entries'[p] = entries[p]
    BY <2>1, <1>2, <1>3, <1>4
  <2>4. \A p \in Pages : p \in frame + 1 .. frame + Size[k] - 1 => entries'[p] < 0
    BY <2>1, <1>2, <1>3, <1>4 DEF CHILD
  <2>5. \A p \in Pages : p < frame => entries'[p] = entries[p]
    BY <2>1, <2>3, <1>3
  <2> QED BY <2>2, <2>3, <2>4, <2>5
<1>8. \A l \in Orders : \A m \in Range(freelist[l]) : entries'[m] = l
  BY <1>1, <1>5, <1>7 DEF Heap, FreeEntries
<1>9. \A b \in held : entries'[b.idx] = entries[b.idx]
  BY <1>6, <1>7
<1>11. CASE pool[0] > 0
  <2>1. /\ freelist' = [freelist EXCEPT ![k] = Append(freelist[k], frame)] /\ UseNodes(1, 0)
        /\ held' = held
    BY <1>2, <1>11
  <2>2. /\ Append(freelist[k], frame) \in Seq(Pages) /\ IsInjective(Append(freelist[k], frame))
        /\ Range(Append(freelist[k], frame)) = Range(freelist[k]) \cup {frame}
    <3>1. freelist[k] \in Seq(Pages) /\ IsInjective(freelist[k]) /\ frame \notin Range(freelist[k])
      BY <1>1, <1>3, <1>4, <1>5 DEF Heap, NoDup
    <3> QED BY <3>1, <1>3, AppendFacts
  <2>3. \A l \in Orders : /\ IsInjective(freelist'[l])
                          /\ Range(freelist'[l]) = Range(freelist[l]) \cup (IF l = k THEN {frame} ELSE {})
    BY <1>1, <1>3, <1>4, <2>1, <2>2 DEF Heap, NoDup
  <2>4. TypeOK'
    <3>1. freelist' \in [Orders -> Seq(Pages)]
      BY <1>3, <1>4, <2>1, <2>2
    <3>2. pool' \in [Bins -> Nat]
      <4>1. pool[0] \in Nat /\ pool[1] \in Nat
        BY <1>1, TypeFacts
      <4> QED BY <4>1, <2>1, <1>1, <1>11 DEF UseNodes, NodeBin, Booted, Bins
    <3>3. frame' \in 1 .. NPages
      BY <1>2, <1>3, SizeFacts
    <3>4. dropped' = dropped
      BY DEF CarveBlock
    <3> QED BY <1>1, <1>3, <1>7, <2>1, <3>1, <3>2, <3>3, <3>4 DEF TypeOK
  <2>5. NoDup' /\ FreeApart'
    <3>1. NoDup'
      BY <2>3 DEF NoDup
    <3>2. ASSUME NEW l \in Orders, NEW m \in Orders,
                 NEW x \in Range(freelist'[l]), NEW y \in Range(freelist'[m])
          PROVE  (x = y /\ l = m) \/ Apart(x, l, y, m)
      <4>1. CASE x \in Range(freelist[l]) /\ y \in Range(freelist[m])
        BY <4>1, <1>1 DEF Heap, FreeApart
      <4>2. CASE x = frame /\ l = k
        BY <4>2, <1>5, <2>3
      <4>3. CASE y = frame /\ m = k
        BY <4>3, <1>5, <2>3
      <4> QED BY <4>1, <4>2, <4>3, <2>3
    <3> QED BY <3>1, <3>2 DEF FreeApart, Apart
  <2>6. HeldApart' /\ CurApart'
    BY <1>1, <2>1 DEF Heap, HeldApart, CurApart, Apart, Freeing
  <2>7. FreeHeldApart'
    BY <1>1, <1>6, <2>1, <2>3 DEF Heap, FreeHeldApart, Apart
  <2>8. InTable'
    BY <1>1, <1>3, <2>1, <2>3 DEF Heap, InTable, Freeing
  <2>9. FreeEntries'
    BY <1>7, <1>8, <2>3 DEF FreeEntries
  <2>10. HeldEntries'
    BY <1>1, <1>9, <2>1 DEF Heap, HeldEntries
  <2>11. EntrySound'
    <3> SUFFICES ASSUME NEW p \in Pages, p < frame + Size[k], entries'[p] >= 0
                 PROVE  \/ entries'[p] \in Orders /\ p \in Range(freelist'[entries'[p]])
                        \/ \E b \in held : b.owner = "lost" /\ b.idx = p /\ b.order = entries'[p]
      BY <1>2, <2>1 DEF EntrySound
    <3>1. p \in Nat
      BY <1>1, TypeFacts
    <3>2. CASE p < frame
      <4>1. entries'[p] = entries[p]
        BY <3>2, <1>7
      <4>2. \/ entries[p] \in Orders /\ p \in Range(freelist[entries[p]])
            \/ \E b \in held : b.owner = "lost" /\ b.idx = p /\ b.order = entries[p]
        BY <3>2, <4>1, <1>1 DEF Heap, EntrySound
      <4> QED BY <4>1, <4>2, <2>3
    <3>3. CASE p = frame
      BY <3>3, <1>3, <1>7, <2>3
    <3>4. CASE p > frame
      BY <3>1, <3>4, <1>3, <1>7
    <3> QED BY <3>1, <3>2, <3>3, <3>4, <1>3
  <2>12. Carved'
    <3>1. \A l \in Orders : \A m \in Range(freelist'[l]) : m + Size[l] <= frame + Size[k]
      <4> TAKE l \in Orders
      <4> TAKE m \in Range(freelist'[l])
      <4>1. CASE m \in Range(freelist[l])
        BY <4>1, <1>3, <1>5, SizeFacts
      <4>2. CASE m = frame /\ l = k
        BY <4>2, <1>3
      <4> QED BY <4>1, <4>2, <2>3
    <3>2. \A b \in held : \/ b.idx + Size[b.order] <= frame + Size[k]
                          \/ b.idx >= frame + Size[k] /\ b.order = 0 /\ b.owner = "reserved"
      <4> TAKE b \in held
      <4>1. b.idx \in Nat /\ Size[b.order] \in Nat
        BY <1>6, SizeFacts
      <4>2. CASE b.idx + Size[b.order] <= frame
        BY <4>1, <4>2, <1>3
      <4>3. CASE b.idx >= frame /\ b.order = 0 /\ b.owner = "reserved"
        <5>1. b.idx \notin frame .. frame + Size[k] - 1
          BY <1>6
        <5> QED BY <4>1, <4>3, <5>1, <1>3
      <4> QED BY <4>2, <4>3, <1>1 DEF Heap, Carved
    <3> QED BY <3>1, <3>2, <1>2, <2>1 DEF Carved
  <2>13. Heap'
    BY <2>5, <2>6, <2>7, <2>8, <2>9, <2>10, <2>11, <2>12 DEF Heap
  <2>14. Control'
    BY <1>1 DEF Control, Freeing
  <2> QED BY <2>4, <2>13, <2>14 DEF IInv
<1>12. CASE ~(pool[0] > 0)
  <2> DEFINE h == Held(frame, k, Size[k], "lost")
  <2>1. held' = held \cup {h} /\ freelist' = freelist /\ pool' = pool
    BY <1>2, <1>12
  <2>2. h.idx = frame /\ h.order = k /\ h.owner = "lost" /\ h.pages = Size[k]
    BY DEF Held
  <2>3. h \in [idx : Pages, order : Orders, pages : Nat, owner : Owners]
    BY <1>3 DEF Held, Owners
  <2> HIDE DEF h
  <2>4. TypeOK'
    <3>1. frame' \in 1 .. NPages
      BY <1>2, <1>3, SizeFacts
    <3>2. dropped' = dropped
      BY DEF CarveBlock
    <3> QED BY <1>1, <1>3, <1>7, <2>1, <2>3, <3>1, <3>2 DEF TypeOK
  <2>5. NoDup' /\ FreeApart' /\ CurApart'
    BY <1>1, <2>1 DEF Heap, NoDup, FreeApart, CurApart, Apart, Freeing
  <2>6. HeldApart'
    BY <1>1, <1>6, <2>1, <2>2 DEF Heap, HeldApart, Apart
  <2>7. FreeHeldApart'
    BY <1>1, <1>5, <2>1, <2>2 DEF Heap, FreeHeldApart, Apart
  <2>8. InTable'
    BY <1>1, <1>3, <2>1, <2>2 DEF Heap, InTable, Freeing
  <2>9. FreeEntries'
    BY <1>8, <2>1 DEF FreeEntries
  <2>10. HeldEntries'
    BY <1>1, <1>7, <1>9, <2>1, <2>2 DEF Heap, HeldEntries
  <2>11. EntrySound'
    <3> SUFFICES ASSUME NEW p \in Pages, p < frame + Size[k], entries'[p] >= 0
                 PROVE  \/ entries'[p] \in Orders /\ p \in Range(freelist[entries'[p]])
                        \/ \E b \in held' : b.owner = "lost" /\ b.idx = p /\ b.order = entries'[p]
      BY <1>2, <2>1 DEF EntrySound
    <3>1. p \in Nat
      BY <1>1, TypeFacts
    <3>2. CASE p < frame
      BY <3>2, <1>1, <1>7, <2>1 DEF Heap, EntrySound
    <3>3. CASE p = frame
      BY <3>3, <1>7, <2>1, <2>2
    <3>4. CASE p > frame
      BY <3>1, <3>4, <1>3, <1>7
    <3> QED BY <3>1, <3>2, <3>3, <3>4, <1>3
  <2>12. Carved'
    <3>1. \A l \in Orders : \A m \in Range(freelist[l]) : m + Size[l] <= frame + Size[k]
      BY <1>3, <1>5, SizeFacts
    <3>2. \A b \in held : \/ b.idx + Size[b.order] <= frame + Size[k]
                          \/ b.idx >= frame + Size[k] /\ b.order = 0 /\ b.owner = "reserved"
      <4> TAKE b \in held
      <4>1. b.idx \in Nat /\ Size[b.order] \in Nat
        BY <1>6, SizeFacts
      <4>2. CASE b.idx + Size[b.order] <= frame
        BY <4>1, <4>2, <1>3
      <4>3. CASE b.idx >= frame /\ b.order = 0 /\ b.owner = "reserved"
        <5>1. b.idx \notin frame .. frame + Size[k] - 1
          BY <1>6
        <5> QED BY <4>1, <4>3, <5>1, <1>3
      <4> QED BY <4>2, <4>3, <1>1 DEF Heap, Carved
    <3>3. h.idx + Size[h.order] <= frame + Size[k]
      BY <2>2, <1>3
    <3> QED BY <3>1, <3>2, <3>3, <1>2, <2>1 DEF Carved
  <2>13. Heap'
    BY <2>5, <2>6, <2>7, <2>8, <2>9, <2>10, <2>11, <2>12 DEF Heap
  <2>14. Control'
    BY <1>1 DEF Control, Freeing
  <2> QED BY <2>4, <2>13, <2>14 DEF IInv
<1> QED BY <1>11, <1>12

----------------------------------------------------------------------------
(* The theorems. *)

\* Every step of the boot, of buddy_alloc and of buddy_free keeps the invariant.
THEOREM Inductive == IInv /\ [Next]_vars => IInv'
<1> SUFFICES ASSUME IInv, [Next]_vars PROVE IInv'
  OBVIOUS
<1>1. ASSUME UNCHANGED vars PROVE IInv'
  <2>1. TypeOK' /\ Control'
    BY <1>1 DEF IInv, TypeOK, Control, vars, Neighbor
  <2>2. (pc # "corrupt" => Heap)'
    BY <1>1, HeapFrame DEF vars, IInv
  <2> QED BY <2>1, <2>2 DEF IInv
<1>2. CASE Boot
  BY <1>2, CarveSkipInv, CarveBlockInv, CallInv DEF Boot, BootBin, CarveDone, Free
<1>3. CASE Call
  <2>1. CASE \E b \in held : Free(b)
    BY <2>1, FreeInv
  <2>2. CASE ~(\E b \in held : Free(b))
    BY <1>3, <2>2, CallInv
  <2> QED BY <2>1, <2>2
<1>4. CASE Alloc
  BY <1>4, SplitInv, NodeStepInv, RefillInv, TakeInv DEF Alloc
<1>5. CASE Release
  BY <1>5, NodeStepInv, UnlinkInv, UnlinkStaleInv, FreeDoneInv DEF Release
<1>6. CASE Spin
  BY <1>6, NodeStepInv
<1> QED BY <1>1, <1>2, <1>3, <1>4, <1>5, <1>6 DEF Next

\* The invariant holds of every state of the allocator.
THEOREM Invariance == Spec => []IInv
<1>1. Init => IInv
  BY InitInv
<1>2. IInv /\ [Next]_vars => IInv'
  BY Inductive
<1> QED BY <1>1, <1>2, PTL DEF Spec

\* Every variable keeps its type: in particular the order buddy_free computes
\* from entries is an order, and a merged block lies in the table.
THEOREM TypeCorrect == Spec => []TypeOK
<1>1. IInv => TypeOK
  BY DEF IInv
<1> QED BY <1>1, Invariance, PTL

\* Blocks on lists, blocks in use and the block being freed share no page, for
\* every memory size, every layout of reserved pages and every request size.
THEOREM BlocksDisjoint == Spec => []Disjoint
<1>1. IInv => Disjoint
  BY DEF IInv, Heap, Disjoint
<1> QED BY <1>1, Invariance, PTL

\* entries and the lists agree, and a block in use keeps its order there.
THEOREM EntriesAgree == Spec => []EntriesMatch
<1>1. IInv => EntriesMatch
  <2> SUFFICES ASSUME IInv, pc # "corrupt" PROVE
        /\ \A k \in Orders : \A i \in Range(freelist[k]) : entries[i] = k
        /\ \A p \in 0 .. frame - 1 : entries[p] >= 0 =>
             \/ entries[p] \in Orders /\ p \in Range(freelist[entries[p]])
             \/ \E b \in held : b.owner = "lost" /\ b.idx = p /\ b.order = entries[p]
        /\ \A b \in held : b.owner # "lost" => entries[b.idx] = -b.order - 1
    BY DEF EntriesMatch
  <2>1. FreeEntries /\ HeldEntries /\ EntrySound /\ frame \in 1 .. NPages
    BY DEF IInv, Heap, TypeOK
  <2>2. \A p \in 0 .. frame - 1 : p \in Pages /\ p < frame
    BY <2>1, SizeFacts DEF Pages
  <2> QED BY <2>1, <2>2 DEF FreeEntries, HeldEntries, EntrySound
<1> QED BY <1>1, Invariance, PTL

----------------------------------------------------------------------------
(* What the steps do to the lists. *)

\* i leaves, or joins, the list of order k; the other lists stay.
Pops(k, i) ==
  /\ k \in Orders /\ i \in Pages /\ i \in Range(freelist[k])
  /\ \A l \in Orders :
       /\ Range(freelist'[l]) = Range(freelist[l]) \ (IF l = k THEN {i} ELSE {})
       /\ Len(freelist'[l]) = Len(freelist[l]) - (IF l = k THEN 1 ELSE 0)
Pushes(k, i) ==
  /\ k \in Orders /\ i \in Pages
  /\ \A l \in Orders :
       /\ Range(freelist'[l]) = Range(freelist[l]) \cup (IF l = k THEN {i} ELSE {})
       /\ Len(freelist'[l]) = Len(freelist[l]) + (IF l = k THEN 1 ELSE 0)

LEMMA TypedLists ==
  ASSUME IInv, pc # "corrupt"
  PROVE  /\ TypeOK /\ Heap /\ freelist \in [Orders -> Seq(Pages)]
         /\ \A k \in Orders : freelist[k] \in Seq(Pages) /\ IsInjective(freelist[k])
                              /\ Len(freelist[k]) \in Nat
<1>1. TypeOK /\ Heap /\ freelist \in [Orders -> Seq(Pages)]
  BY DEF IInv, TypeOK
<1>2. \A k \in Orders : freelist[k] \in Seq(Pages) /\ IsInjective(freelist[k])
  BY <1>1 DEF Heap, NoDup
<1> QED BY <1>1, <1>2

LEMMA HeadPops ==
  ASSUME IInv, pc # "corrupt", NEW k \in Orders, freelist[k] # <<>>,
         freelist' = [freelist EXCEPT ![k] = Tail(freelist[k])]
  PROVE  Pops(k, Head(freelist[k]))
<1>1. freelist \in [Orders -> Seq(Pages)] /\ freelist[k] \in Seq(Pages) /\ IsInjective(freelist[k])
      /\ \A l \in Orders : Len(freelist[l]) \in Nat
  BY TypedLists
<1>2. /\ Head(freelist[k]) \in Range(freelist[k]) /\ Head(freelist[k]) \in Pages
      /\ Len(Tail(freelist[k])) = Len(freelist[k]) - 1
      /\ Range(Tail(freelist[k])) = Range(freelist[k]) \ {Head(freelist[k])}
  BY <1>1, TailFacts
<1>3. freelist'[k] = Tail(freelist[k]) /\ \A l \in Orders : l # k => freelist'[l] = freelist[l]
  BY <1>1
<1> QED BY <1>1, <1>2, <1>3 DEF Pops

LEMMA TakePops ==
  ASSUME IInv, TakeBlock
  PROVE  /\ Pops(req.order, Head(freelist[req.order]))
         /\ held' = held \cup {Held(Head(freelist[req.order]), req.order, req.pages, req.for)}
<1>1. TypeOK /\ Control /\ pc = "split"
  BY DEF IInv, TakeBlock
<1>2. req.order \in Orders /\ freelist[req.order] # <<>>
  BY <1>1, SizeFacts DEF TakeBlock, Control, TypeOK
<1>3. freelist' = [freelist EXCEPT ![req.order] = Tail(freelist[req.order])]
  BY <1>1, <1>2 DEF TakeBlock, TypeOK, WithoutHead
<1> QED BY <1>1, <1>2, <1>3, HeadPops DEF TakeBlock

LEMMA RefillPops ==
  ASSUME IInv, RefillNodes
  PROVE  /\ Pops(0, Head(freelist[0]))
         /\ held' = held \cup {Held(Head(freelist[0]), 0, 1, "bin1")}
         /\ pc \in {"split", "free", "unlink"}
<1>1. TypeOK
  BY DEF IInv
<1>2. pc \in {"split", "free", "unlink"}
  BY <1>1, TypeFacts DEF RefillNodes, Needed
<1>3. freelist' = [freelist EXCEPT ![0] = Tail(freelist[0])] /\ freelist[0] # <<>>
  BY DEF RefillNodes
<1> QED BY <1>2, <1>3, HeadPops, SizeFacts DEF RefillNodes

LEMMA UnlinkPops == ASSUME IInv, Unlink PROVE Pops(cur.order, found.idx)
<1>1. pc = "unlink"
  BY DEF Unlink, MergeStep
<1>2. /\ freelist \in [Orders -> Seq(Pages)] /\ TypeOK
      /\ \A l \in Orders : freelist[l] \in Seq(Pages) /\ IsInjective(freelist[l]) /\ Len(freelist[l]) \in Nat
  BY <1>1, TypedLists
<1>3. PICK k \in Orders : k = cur.order
  BY <1>2, TypeFacts
<1>j. PICK j : j = found.idx
  OBVIOUS
<1>4. PICK n \in DOMAIN freelist[k] :
        freelist[k][n] = j /\ freelist' = [freelist EXCEPT ![k] = RemoveAt(freelist[k], n)]
  BY <1>2, <1>3, <1>j DEF Unlink
<1>5. j \in Range(freelist[k])
  BY <1>4 DEF Range
<1>6. j \in Pages
  BY <1>5, <1>3, <1>2, TypeFacts
<1>7. /\ Len(RemoveAt(freelist[k], n)) = Len(freelist[k]) - 1
      /\ Range(RemoveAt(freelist[k], n)) = Range(freelist[k]) \ {j}
  <2>1. freelist[k] \in Seq(Pages) /\ IsInjective(freelist[k])
    BY <1>2, <1>3
  <2> QED BY <2>1, <1>4, RemoveFacts
<1>8. freelist'[k] = RemoveAt(freelist[k], n) /\ \A l \in Orders : l # k => freelist'[l] = freelist[l]
  BY <1>2, <1>3, <1>4
<1>9. ASSUME NEW l \in Orders
      PROVE  /\ Range(freelist'[l]) = Range(freelist[l]) \ (IF l = k THEN {j} ELSE {})
             /\ Len(freelist'[l]) = Len(freelist[l]) - (IF l = k THEN 1 ELSE 0)
  <2>1. CASE l = k
    BY <2>1, <1>7, <1>8
  <2>2. CASE l # k
    BY <2>2, <1>2, <1>8
  <2> QED BY <2>1, <2>2
<1> QED BY <1>3, <1>j, <1>5, <1>6, <1>9 DEF Pops

LEMMA FreeDonePushes == ASSUME IInv, FreeDone PROVE Pushes(cur.order, cur.idx)
<1>1. pc = "merge"
  BY DEF FreeDone
<1>2. /\ freelist \in [Orders -> Seq(Pages)] /\ TypeOK /\ Heap
      /\ \A l \in Orders : freelist[l] \in Seq(Pages) /\ IsInjective(freelist[l]) /\ Len(freelist[l]) \in Nat
  BY <1>1, TypedLists
<1>3. PICK k \in Orders, i \in Pages : k = cur.order /\ i = cur.idx /\ i \in Nat
  BY <1>2, TypeFacts
<1>4. i \notin Range(freelist[k])
  BY <1>1, <1>2, <1>3, TypeFacts, ApartFacts DEF Heap, CurApart, Freeing
<1>5. freelist' = [freelist EXCEPT ![k] = <<i>> \o freelist[k]]
  BY <1>3 DEF FreeDone, Returned
<1>6. Range(<<i>> \o freelist[k]) = Range(freelist[k]) \cup {i}
      /\ Len(<<i>> \o freelist[k]) = Len(freelist[k]) + 1
  <2>1. freelist[k] \in Seq(Pages) /\ IsInjective(freelist[k])
    BY <1>2, <1>3
  <2> QED BY <2>1, <1>3, <1>4, PushFacts
<1>7. freelist'[k] = <<i>> \o freelist[k] /\ \A l \in Orders : l # k => freelist'[l] = freelist[l]
  BY <1>2, <1>3, <1>5
<1>8. ASSUME NEW l \in Orders
      PROVE  /\ Range(freelist'[l]) = Range(freelist[l]) \cup (IF l = k THEN {i} ELSE {})
             /\ Len(freelist'[l]) = Len(freelist[l]) + (IF l = k THEN 1 ELSE 0)
  <2>1. CASE l = k
    BY <2>1, <1>6, <1>7
  <2>2. CASE l # k
    BY <2>2, <1>2, <1>7
  <2> QED BY <2>1, <2>2
<1> QED BY <1>3, <1>8 DEF Pushes

\* A block of order c leaves its list and its halves join the list below.
Halved(c, i) ==
  /\ c \in Orders /\ c > 0 /\ c - 1 \in Orders /\ Size[c] = 2 * Size[c - 1]
  /\ i \in Pages /\ i \in Range(freelist[c])
  /\ \A l \in Orders :
       /\ Range(freelist'[l]) = IF l = c THEN Range(freelist[l]) \ {i}
                                ELSE IF l = c - 1 THEN Range(freelist[l]) \cup {i, i + Size[c - 1]}
                                ELSE Range(freelist[l])
       /\ Len(freelist'[l]) = Len(freelist[l]) + IF l = c THEN -1 ELSE IF l = c - 1 THEN 2 ELSE 0

LEMMA SplitHalves == ASSUME IInv, Split PROVE Halved(req.c, Head(freelist[req.c]))
<1>1. TypeOK /\ Control /\ Heap /\ pc = "split"
  BY DEF IInv, Split
<1>2. PICK c \in Orders : /\ c = req.c /\ c > 0 /\ c \in Nat /\ c - 1 \in Orders /\ c # c - 1
                          /\ Size[c] = 2 * Size[c - 1] /\ Size[c - 1] \in Nat /\ Size[c - 1] >= 1
  <2>1. req.order \in 0 .. MaxOrder /\ req.c \in 0 .. MaxOrder /\ req.c > req.order
    BY <1>1 DEF Split, TypeOK
  <2>2. MaxOrder \in Nat /\ req.c \in Orders
    BY <2>1, SizeFacts
  <2>3. req.c \in Nat /\ req.c > 0 /\ req.c # req.c - 1
    BY <2>1, <2>2
  <2> QED BY <2>1, <2>2, <2>3, SizeFacts
<1>3. PICK i : i = Head(freelist[c])
  OBVIOUS
<1>4. PICK j : j = i + Size[c - 1]
  OBVIOUS
<1>5. /\ freelist \in [Orders -> Seq(Pages)]
      /\ \A l \in Orders : freelist[l] \in Seq(Pages) /\ IsInjective(freelist[l]) /\ Len(freelist[l]) \in Nat
  BY <1>1, TypedLists
<1>6. freelist[c] # <<>>
  BY <1>1, <1>2 DEF Control
<1>7. /\ i \in Range(freelist[c]) /\ i \in Pages
      /\ Range(Tail(freelist[c])) = Range(freelist[c]) \ {i}
      /\ Len(Tail(freelist[c])) = Len(freelist[c]) - 1
  BY <1>3, <1>5, <1>6, TailFacts
<1>8. /\ i \in Nat /\ i + Size[c] <= NPages /\ j \in Pages /\ j \in Nat /\ i # j
  <2>1. i \in Nat /\ i + Size[c] <= NPages
    BY <1>1, <1>2, <1>7, TypeFacts DEF Heap, InTable
  <2> QED BY <2>1, <1>2, <1>4, SizeFacts DEF Pages
<1>9. PICK s \in Seq(Pages) : s = freelist[c - 1] /\ IsInjective(s) /\ Len(s) \in Nat
  BY <1>2, <1>5
<1>10. i \notin Range(s) /\ j \notin Range(s)
  <2> SUFFICES ASSUME NEW m \in Range(s) PROVE m # i /\ m # j
    OBVIOUS
  <2>1. m \in Range(freelist[c - 1]) /\ m \in Nat
    BY <1>1, <1>2, <1>9, TypeFacts
  <2>2. Apart(i, c, m, c - 1)
    BY <2>1, <1>1, <1>2, <1>7 DEF Heap, FreeApart
  <2> QED BY <2>1, <2>2, <1>2, <1>4, <1>8 DEF Apart
<1>11. PICK t : t = <<j>> \o s /\ t \in Seq(Pages) /\ IsInjective(t) /\ Range(t) = Range(s) \cup {j}
                /\ Len(t) = Len(s) + 1
  BY <1>8, <1>9, <1>10, PushFacts
<1>12. <<i, j>> \o s = <<i>> \o t
  BY <1>7, <1>8, <1>11, PushTwo
<1>13. Range(<<i>> \o t) = Range(t) \cup {i} /\ Len(<<i>> \o t) = Len(t) + 1
  <2>1. i \notin Range(t)
    BY <1>8, <1>10, <1>11
  <2>2. t \in Seq(Pages) /\ IsInjective(t) /\ i \in Pages
    BY <1>7, <1>11
  <2> QED BY <2>1, <2>2, PushFacts
<1>14. /\ Range(<<i, j>> \o s) = Range(s) \cup {i, j}
       /\ Len(<<i, j>> \o s) = Len(s) + 2
  <2>1. Range(t) = Range(s) \cup {j} /\ Len(t) = Len(s) + 1 /\ Len(s) \in Nat
    BY <1>9, <1>11
  <2>2. Range(<<i, j>> \o s) = Range(t) \cup {i} /\ Len(<<i, j>> \o s) = Len(t) + 1
    BY <1>12, <1>13
  <2>3. Len(t) + 1 = Len(s) + 2
    BY <2>1
  <2> QED BY <2>1, <2>2, <2>3, Zenon
<1>15. freelist' = [k \in Orders |-> IF k = c THEN Tail(freelist[c])
                                     ELSE IF k = c - 1 THEN <<i, j>> \o freelist[k]
                                     ELSE freelist[k]]
  BY <1>2, <1>3, <1>4 DEF Split, Halves
<1>16. ASSUME NEW l \in Orders
       PROVE  /\ Range(freelist'[l]) = IF l = c THEN Range(freelist[l]) \ {i}
                                       ELSE IF l = c - 1 THEN Range(freelist[l]) \cup {i, j}
                                       ELSE Range(freelist[l])
              /\ Len(freelist'[l]) = Len(freelist[l]) + IF l = c THEN -1 ELSE IF l = c - 1 THEN 2 ELSE 0
  <2>1. CASE l = c
    <3>1. freelist'[l] = Tail(freelist[c])
      BY <2>1, <1>15
    <3> QED BY <2>1, <3>1, <1>5, <1>7
  <2>2. CASE l = c - 1
    <3>1. freelist'[l] = <<i, j>> \o s /\ freelist[l] = s
      BY <2>2, <1>2, <1>9, <1>15
    <3> QED BY <2>2, <3>1, <1>2, <1>9, <1>14
  <2>3. CASE l # c /\ l # c - 1
    <3>1. freelist'[l] = freelist[l]
      BY <2>3, <1>15
    <3> QED BY <2>3, <3>1, <1>5
  <2> QED BY <2>1, <2>2, <2>3
<1> QED BY <1>2, <1>3, <1>4, <1>7, <1>16 DEF Halved

\* The block the carving makes, and where it goes.
Carves(k) ==
  /\ k \in Orders /\ frame \in Pages /\ Fits(k) /\ frame' = frame + Size[k] /\ frame + Size[k] <= NPages
  /\ \A p \in Pages : p >= frame + Size[k] => entries'[p] = entries[p]
  /\ \/ Pushes(k, frame) /\ held' = held /\ pool[0] > 0 /\ UseNodes(1, 0)
     \/ freelist' = freelist /\ held' = held \cup {Held(frame, k, Size[k], "lost")} /\ pool' = pool

LEMMA CarveCarves == ASSUME IInv, CarveBlock PROVE \E k \in Orders : Carves(k)
<1>1. TypeOK /\ Control /\ Heap /\ pc = "carve"
  BY DEF IInv, CarveBlock
<1>2. PICK k \in 0 .. MaxOrder :
        /\ Fits(k)
        /\ entries' = [p \in Pages |-> IF p = frame THEN k
                                       ELSE IF p \in frame + 1 .. frame + Size[k] - 1 THEN CHILD
                                       ELSE entries[p]]
        /\ frame' = frame + Size[k]
        /\ IF pool[0] > 0
           THEN /\ freelist' = [freelist EXCEPT ![k] = Append(freelist[k], frame)]
                /\ UseNodes(1, 0)
                /\ UNCHANGED held
           ELSE /\ held' = held \cup {Held(frame, k, Size[k], "lost")}
                /\ UNCHANGED <<freelist, pool>>
  BY <1>1 DEF CarveBlock, TypeOK
<1>3. /\ k \in Orders /\ Size[k] \in Nat /\ Size[k] >= 1 /\ frame \in Nat /\ frame \in Pages
      /\ frame + Size[k] <= NPages
  BY <1>1, <1>2, SizeFacts, TypeFacts DEF Fits, CarveBlock, Pages
<1>4. \A p \in Pages : p >= frame + Size[k] => entries'[p] = entries[p]
  <2>1. \A p \in Pages : p \in Nat
    BY <1>1, TypeFacts
  <2> QED BY <2>1, <1>2, <1>3
<1>5. /\ freelist \in [Orders -> Seq(Pages)]
      /\ \A l \in Orders : freelist[l] \in Seq(Pages) /\ IsInjective(freelist[l]) /\ Len(freelist[l]) \in Nat
  BY <1>1, TypedLists
<1>6. frame \notin Range(freelist[k])
  <2> SUFFICES ASSUME frame \in Range(freelist[k]) PROVE FALSE
    OBVIOUS
  <2>1. frame + Size[k] <= frame
    BY <1>1, <1>3 DEF Heap, Carved
  <2> QED BY <2>1, <1>3
<1>7. CASE pool[0] > 0
  <2>1. /\ freelist' = [freelist EXCEPT ![k] = Append(freelist[k], frame)] /\ UseNodes(1, 0)
        /\ held' = held
    BY <1>2, <1>7
  <2>2. /\ Range(Append(freelist[k], frame)) = Range(freelist[k]) \cup {frame}
        /\ Len(Append(freelist[k], frame)) = Len(freelist[k]) + 1
    BY <1>3, <1>5, <1>6, AppendFacts
  <2>3. ASSUME NEW l \in Orders
        PROVE  /\ Range(freelist'[l]) = Range(freelist[l]) \cup (IF l = k THEN {frame} ELSE {})
               /\ Len(freelist'[l]) = Len(freelist[l]) + (IF l = k THEN 1 ELSE 0)
    <3>1. CASE l = k
      BY <3>1, <2>1, <2>2, <1>3, <1>5
    <3>2. CASE l # k
      BY <3>2, <2>1, <1>5
    <3> QED BY <3>1, <3>2
  <2>4. Pushes(k, frame)
    BY <2>3, <1>3 DEF Pushes
  <2> QED BY <2>1, <2>4, <1>2, <1>3, <1>4, <1>7 DEF Carves
<1>8. CASE ~(pool[0] > 0)
  <2>1. freelist' = freelist /\ pool' = pool /\ held' = held \cup {Held(frame, k, Size[k], "lost")}
    BY <1>2, <1>8
  <2> QED BY <2>1, <1>2, <1>3, <1>4 DEF Carves
<1> QED BY <1>7, <1>8

----------------------------------------------------------------------------
(* Coverage *)

LEMMA CoverByParts ==
  ASSUME CoverInv, pc # "carve", pc' # "carve", frame' = frame,
         \A p \in Pages : OnList(p) => (OnList(p) \/ HeldPage(p) \/ OnItsWay(p))',
         \A p \in Pages : HeldPage(p) => (OnList(p) \/ HeldPage(p) \/ OnItsWay(p))',
         \A p \in Pages : OnItsWay(p) => (OnList(p) \/ HeldPage(p) \/ OnItsWay(p))'
  PROVE  CoverInv'
<1>1. frame' = NPages
  BY DEF CoverInv, Ahead
<1>2. ASSUME NEW p \in 0 .. frame' - 1 PROVE (OnList(p) \/ HeldPage(p) \/ OnItsWay(p))'
  <2>1. p \in Pages
    BY <1>1 DEF Pages
  <2>2. OnList(p) \/ HeldPage(p) \/ OnItsWay(p)
    BY <1>2 DEF CoverInv, Behind, OnList, HeldPage, OnItsWay
  <2> QED BY <2>1, <2>2
<1>3. Behind'
  BY <1>2 DEF Behind, OnList, HeldPage, OnItsWay
<1> QED BY <1>1, <1>3 DEF CoverInv, Ahead

LEMMA CoverFrame ==
  ASSUME CoverInv, pc # "carve", pc' # "carve", UNCHANGED <<freelist, held, cur, frame>>,
         pc \in Freeing \cup Terminal => pc' \in Freeing \cup Terminal
  PROVE  CoverInv'
<1>1. \A p \in Pages : OnList(p) => OnList(p)'
  BY DEF OnList, Covers
<1>2. \A p \in Pages : HeldPage(p) => HeldPage(p)'
  BY DEF HeldPage, Covers
<1>3. \A p \in Pages : OnItsWay(p) => OnItsWay(p)'
  BY DEF OnItsWay, Covers, Freeing, Terminal
<1> QED BY <1>1, <1>2, <1>3, CoverByParts

LEMMA InitCover == Init => CoverInv
<1> SUFFICES ASSUME Init PROVE CoverInv
  OBVIOUS
<1>1. PICK R \in Layouts, p \in Pages :
        /\ entries = [q \in Pages |-> IF q \in R \cup {p} THEN -1 ELSE 0]
        /\ held = {Held(q, 0, 1, "reserved") : q \in R \cup {p}}
        /\ frame = p + 1
        /\ FirstFree(R, p)
  BY DEF Init
<1>2. p \in Nat /\ R \subseteq Pages /\ pc = "carve" /\ NPages \in Nat
  BY SizeFacts, LayoutAssumption DEF Pages, Init
<1>3. ASSUME NEW q \in R \cup {p} PROVE \E b \in held : b.idx = q /\ b.order = 0 /\ Covers(b.idx, b.order, q)
  <2>1. Held(q, 0, 1, "reserved") \in held /\ q \in Int
    BY <1>1, <1>2 DEF Pages
  <2> QED BY <2>1, SizeFacts DEF Covers, Held
<1>4. Ahead
  <2>1. \A q \in frame .. NPages - 1 : q \in Pages
    BY <1>1, <1>2 DEF Pages
  <2>2. \A q \in frame .. NPages - 1 : entries[q] < 0 => q \in R \cup {p}
    BY <2>1, <1>1
  <2> QED BY <2>2, <1>2, <1>3 DEF Ahead
<1>5. Behind
  <2>1. \A q \in 0 .. frame - 1 : q \in R \cup {p}
    BY <1>1, <1>2 DEF FirstFree
  <2>2. \A q \in 0 .. frame - 1 : HeldPage(q)
    BY <2>1, <1>3 DEF HeldPage
  <2> QED BY <2>2 DEF Behind
<1> QED BY <1>4, <1>5 DEF CoverInv

LEMMA CarveSkipCover == IInv /\ CoverInv /\ CarveSkip => CoverInv'
<1> SUFFICES ASSUME IInv, CoverInv, CarveSkip PROVE CoverInv'
  OBVIOUS
<1>1. /\ pc = "carve" /\ frame < NPages /\ entries[frame] < 0 /\ frame' = frame + 1 /\ frame \in Nat
      /\ NPages \in Nat /\ UNCHANGED <<entries, freelist, held, pc, cur>>
  BY TypeFacts, SizeFacts DEF CarveSkip, IInv
<1>2. PICK b \in held : b.idx = frame /\ b.order = 0
  BY <1>1 DEF CoverInv, Ahead
<1>3. Covers(b.idx, b.order, frame)
  BY <1>1, <1>2, SizeFacts DEF Covers
<1>4. Ahead'
  BY <1>1 DEF CoverInv, Ahead
<1>5. Behind'
  <2> SUFFICES ASSUME NEW p \in 0 .. frame' - 1 PROVE (OnList(p) \/ HeldPage(p) \/ OnItsWay(p))'
    BY DEF Behind, OnList, HeldPage, OnItsWay
  <2>1. CASE p = frame
    BY <2>1, <1>1, <1>2, <1>3 DEF HeldPage, Covers
  <2>2. CASE p # frame
    <3>1. p \in 0 .. frame - 1
      BY <2>2, <1>1
    <3>2. OnList(p) \/ HeldPage(p) \/ OnItsWay(p)
      BY <3>1 DEF CoverInv, Behind, OnList, HeldPage, OnItsWay
    <3> QED BY <3>2, <1>1 DEF OnList, HeldPage, OnItsWay, Covers
  <2> QED BY <2>1, <2>2
<1> QED BY <1>4, <1>5 DEF CoverInv

LEMMA CarveBlockCover == IInv /\ CoverInv /\ CarveBlock => CoverInv'
<1> SUFFICES ASSUME IInv, CoverInv, CarveBlock PROVE CoverInv'
  OBVIOUS
<1>1. PICK k \in Orders : Carves(k)
  BY CarveCarves
<1>2. /\ pc = "carve" /\ pc' = "carve" /\ cur' = cur /\ frame \in Nat /\ NPages \in Nat
      /\ Size[k] \in Nat /\ Size[k] >= 1
  BY TypeFacts, SizeFacts DEF CarveBlock, IInv
<1>3. /\ frame' = frame + Size[k] /\ frame + Size[k] <= NPages
      /\ \A p \in Pages : p >= frame + Size[k] => entries'[p] = entries[p]
  BY <1>1 DEF Carves
<1>4. \A p \in Pages : OnList(p) \/ HeldPage(p) \/ OnItsWay(p) => (OnList(p) \/ HeldPage(p) \/ OnItsWay(p))'
  <2> TAKE p \in Pages
  <2>1. OnList(p) => OnList(p)'
    BY <1>1 DEF OnList, Covers, Carves, Pushes
  <2>2. HeldPage(p) => HeldPage(p)'
    BY <1>1 DEF HeldPage, Covers, Carves
  <2>3. OnItsWay(p) => OnItsWay(p)'
    BY <1>2 DEF OnItsWay, Freeing, Terminal
  <2> QED BY <2>1, <2>2, <2>3
<1>5. Ahead'
  <2> SUFFICES ASSUME NEW p \in frame' .. NPages - 1, entries'[p] < 0
               PROVE  \E b \in held' : b.idx = p /\ b.order = 0
    BY <1>2 DEF Ahead
  <2>1. p \in Pages /\ p \in frame .. NPages - 1 /\ p >= frame + Size[k]
    BY <1>2, <1>3 DEF Pages
  <2>2. entries[p] < 0
    BY <2>1, <1>3
  <2>3. \E b \in held : b.idx = p /\ b.order = 0
    BY <2>1, <2>2, <1>2 DEF CoverInv, Ahead
  <2> QED BY <2>3, <1>1 DEF Carves
<1>6. Behind'
  <2> SUFFICES ASSUME NEW p \in 0 .. frame' - 1 PROVE (OnList(p) \/ HeldPage(p) \/ OnItsWay(p))'
    BY DEF Behind, OnList, HeldPage, OnItsWay
  <2>0. p \in Pages
    BY <1>2, <1>3 DEF Pages
  <2>1. CASE p < frame
    <3>1. p \in 0 .. frame - 1
      BY <2>1, <1>2, <1>3
    <3>2. OnList(p) \/ HeldPage(p) \/ OnItsWay(p)
      BY <3>1 DEF CoverInv, Behind, OnList, HeldPage, OnItsWay
    <3> QED BY <3>2, <2>0, <1>4
  <2>2. CASE p >= frame
    <3>1. Covers(frame, k, p)
      BY <2>2, <1>2, <1>3 DEF Covers
    <3>2. CASE Pushes(k, frame)
      <4>1. frame \in Range(freelist'[k])
        BY <3>2 DEF Pushes
      <4>2. OnList(p)'
        BY <4>1, <3>1 DEF OnList, Covers
      <4> QED BY <4>2
    <3>3. CASE held' = held \cup {Held(frame, k, Size[k], "lost")}
      <4>1. PICK b : b = Held(frame, k, Size[k], "lost")
        OBVIOUS
      <4>2. b \in held' /\ b.idx = frame /\ b.order = k
        BY <4>1, <3>3 DEF Held
      <4>3. \E a \in held' : Covers(a.idx, a.order, p)
        BY <4>2, <3>1
      <4>4. HeldPage(p)'
        BY <4>3 DEF HeldPage, Covers
      <4> QED BY <4>4
    <3> QED BY <3>2, <3>3, <1>1 DEF Carves
  <2> QED BY <2>1, <2>2, <2>0, <1>2 DEF Pages
<1> QED BY <1>5, <1>6 DEF CoverInv

LEMMA PopCover ==
  ASSUME CoverInv, pc # "carve", pc' # "carve", frame' = frame, cur' = cur,
         pc \in Freeing \cup Terminal => pc' \in Freeing \cup Terminal,
         NEW k, NEW i, Pops(k, i), NEW h, h.idx = i, h.order = k, held' = held \cup {h}
  PROVE  CoverInv'
<1>1. \A p \in Pages : OnList(p) => (OnList(p) \/ HeldPage(p))'
  <2> SUFFICES ASSUME NEW p \in Pages, NEW l \in Orders, NEW j \in Range(freelist[l]), Covers(j, l, p)
               PROVE  OnList(p)' \/ HeldPage(p)'
    BY DEF OnList
  <2>1. CASE l = k /\ j = i
    BY <2>1 DEF HeldPage, Covers
  <2>2. CASE ~(l = k /\ j = i)
    <3>1. j \in Range(freelist'[l])
      BY <2>2 DEF Pops
    <3> QED BY <3>1 DEF OnList, Covers
  <2> QED BY <2>1, <2>2
<1>2. \A p \in Pages : HeldPage(p) => HeldPage(p)'
  BY DEF HeldPage, Covers
<1>3. \A p \in Pages : OnItsWay(p) => OnItsWay(p)'
  BY DEF OnItsWay, Covers, Freeing, Terminal
<1> QED BY <1>1, <1>2, <1>3, CoverByParts

LEMMA TakeCover == IInv /\ CoverInv /\ TakeBlock => CoverInv'
<1> SUFFICES ASSUME IInv, CoverInv, TakeBlock PROVE CoverInv'
  OBVIOUS
<1> DEFINE h == Held(Head(freelist[req.order]), req.order, req.pages, req.for)
<1>1. pc = "split" /\ pc' \in {"bins", "idle"} /\ frame' = frame /\ cur' = cur
  BY DEF TakeBlock
<1>2. h.idx = Head(freelist[req.order]) /\ h.order = req.order /\ held' = held \cup {h}
  BY TakePops DEF Held
<1>3. Pops(req.order, Head(freelist[req.order]))
  BY TakePops
<1>4. pc # "carve" /\ pc' # "carve" /\ ~(pc \in Freeing \cup Terminal)
  BY <1>1 DEF Freeing, Terminal
<1> HIDE DEF h
<1> QED BY <1>1, <1>2, <1>3, <1>4, PopCover

LEMMA RefillCover == IInv /\ CoverInv /\ RefillNodes => CoverInv'
<1> SUFFICES ASSUME IInv, CoverInv, RefillNodes PROVE CoverInv'
  OBVIOUS
<1> DEFINE h == Held(Head(freelist[0]), 0, 1, "bin1")
<1>1. pc \in {"split", "free", "unlink"} /\ pc' = pc /\ frame' = frame /\ cur' = cur
  BY RefillPops DEF RefillNodes
<1>2. h.idx = Head(freelist[0]) /\ h.order = 0 /\ held' = held \cup {h}
  BY RefillPops DEF Held
<1>3. Pops(0, Head(freelist[0]))
  BY RefillPops
<1>4. pc # "carve" /\ pc' # "carve"
  BY <1>1
<1> HIDE DEF h
<1> QED BY <1>1, <1>2, <1>3, <1>4, PopCover

LEMMA SplitCover == IInv /\ CoverInv /\ Split => CoverInv'
<1> SUFFICES ASSUME IInv, CoverInv, Split PROVE CoverInv'
  OBVIOUS
<1>1. pc = "split" /\ pc' = pc /\ UNCHANGED <<frame, cur, held>> /\ TypeOK
  BY DEF Split, IInv
<1>2. PICK c, i : Halved(c, i)
  BY SplitHalves
<1>3. /\ c \in Orders /\ c - 1 \in Orders /\ Size[c] = 2 * Size[c - 1] /\ c # c - 1
      /\ i \in Pages /\ i \in Range(freelist[c])
      /\ \A l \in Orders :
           Range(freelist'[l]) = IF l = c THEN Range(freelist[l]) \ {i}
                                 ELSE IF l = c - 1 THEN Range(freelist[l]) \cup {i, i + Size[c - 1]}
                                 ELSE Range(freelist[l])
  <2>1. c \in Orders /\ c > 0
    BY <1>2 DEF Halved
  <2>2. c # c - 1
    BY <2>1, SizeFacts DEF Orders
  <2> QED BY <1>2, <2>2 DEF Halved
<1>4. \A p \in Pages : OnList(p) => OnList(p)'
  <2> SUFFICES ASSUME NEW p \in Pages, NEW l \in Orders, NEW j \in Range(freelist[l]), Covers(j, l, p)
               PROVE  OnList(p)'
    BY DEF OnList
  <2>1. CASE l = c /\ j = i
    <3>1. i \in Range(freelist'[c - 1]) /\ i + Size[c - 1] \in Range(freelist'[c - 1])
      BY <1>3
    <3>2. Size[c - 1] \in Nat /\ i \in Nat /\ p \in Nat
      BY <1>1, <1>3, SizeFacts, TypeFacts
    <3>3. Covers(i, c - 1, p) \/ Covers(i + Size[c - 1], c - 1, p)
      BY <2>1, <3>2, <1>3 DEF Covers
    <3> QED BY <3>1, <3>3, <1>3 DEF OnList, Covers
  <2>2. CASE ~(l = c /\ j = i)
    <3>1. j \in Range(freelist'[l])
      BY <2>2, <1>3
    <3> QED BY <3>1 DEF OnList, Covers
  <2> QED BY <2>1, <2>2
<1>5. \A p \in Pages : (HeldPage(p) => HeldPage(p)') /\ ~OnItsWay(p)
  BY <1>1 DEF HeldPage, Covers, OnItsWay, Freeing, Terminal
<1> QED BY <1>1, <1>4, <1>5, CoverByParts

LEMMA FreeCover == ASSUME IInv, CoverInv, NEW b \in held, Free(b) PROVE CoverInv'
<1>1. pc = "idle" /\ pc' = "free" /\ UNCHANGED <<frame, freelist>> /\ held' = held \ {b}
      /\ cur' = [idx |-> b.idx, order |-> OrderOf(b)] /\ b.owner = "user"
  BY DEF Free
<1>2. OrderOf(b) = b.order
  <2>1. entries[b.idx] = -b.order - 1 /\ b.order \in Int
    BY <1>1, TypeFacts, SizeFacts DEF IInv, Heap, HeldEntries, Orders
  <2> QED BY <2>1 DEF OrderOf
<1>3. \A p \in Pages : OnList(p) => OnList(p)'
  BY <1>1 DEF OnList, Covers
<1>4. \A p \in Pages : HeldPage(p) => (HeldPage(p) \/ OnItsWay(p))'
  <2> SUFFICES ASSUME NEW p \in Pages, NEW a \in held, Covers(a.idx, a.order, p)
               PROVE  HeldPage(p)' \/ OnItsWay(p)'
    BY DEF HeldPage
  <2>1. CASE a = b
    BY <2>1, <1>1, <1>2 DEF OnItsWay, Covers, Freeing
  <2>2. CASE a # b
    BY <2>2, <1>1 DEF HeldPage, Covers
  <2> QED BY <2>1, <2>2
<1>5. \A p \in Pages : ~OnItsWay(p)
  BY <1>1 DEF OnItsWay, Freeing, Terminal
<1> QED BY <1>1, <1>3, <1>4, <1>5, CoverByParts

LEMMA FreeDoneCover == IInv /\ CoverInv /\ FreeDone => CoverInv'
<1> SUFFICES ASSUME IInv, CoverInv, FreeDone PROVE CoverInv'
  OBVIOUS
<1>1. pc = "merge" /\ pc' = "idle" /\ UNCHANGED <<frame, held>>
  BY DEF FreeDone
<1>2. PICK k, i : k = cur.order /\ i = cur.idx
  OBVIOUS
<1>3. /\ k \in Orders
      /\ \A l \in Orders : Range(freelist'[l]) = Range(freelist[l]) \cup (IF l = k THEN {i} ELSE {})
  BY <1>2, FreeDonePushes DEF Pushes
<1>4. \A p \in Pages : OnList(p) => OnList(p)'
  BY <1>3 DEF OnList, Covers
<1>5. \A p \in Pages : HeldPage(p) => HeldPage(p)'
  BY <1>1 DEF HeldPage, Covers
<1>6. \A p \in Pages : OnItsWay(p) => OnList(p)'
  <2>1. i \in Range(freelist'[k])
    BY <1>3
  <2> QED BY <2>1, <1>2, <1>3 DEF OnItsWay, OnList, Covers
<1> QED BY <1>1, <1>4, <1>5, <1>6, CoverByParts

\* The merged block covers what its two halves covered.
LEMMA MergedCovers ==
  ASSUME IInv, pc = "unlink", MergeStep, NEW p \in Pages
  PROVE  Covers(cur.idx, cur.order, p) \/ Covers(found.idx, cur.order, p)
           <=> Covers(cur'.idx, cur'.order, p)
<1>1. /\ TypeOK
      /\ cur' = [idx |-> MinOf(cur.idx, found.idx), order |-> cur.order + 1]
      /\ cur.order + 1 \in Orders /\ Size[cur.order + 1] = 2 * Size[cur.order]
      /\ found.idx \in Pages
      /\ found.idx = cur.idx + Size[cur.order] \/ found.idx = cur.idx - Size[cur.order]
  BY MergeTypes
<1>2. PICK i \in Nat, j \in Nat, s \in Nat : i = cur.idx /\ j = found.idx /\ s = Size[cur.order]
  BY <1>1, TypeFacts, SizeFacts
<1>3. j = i + s \/ j = i - s
  BY <1>1, <1>2
<1>4. p \in Nat /\ cur'.idx = MinOf(i, j) /\ Size[cur'.order] = 2 * s
  BY <1>1, <1>2, TypeFacts
<1> QED BY <1>2, <1>3, <1>4 DEF Covers, MinOf

LEMMA UnlinkCover == IInv /\ CoverInv /\ Unlink => CoverInv'
<1> SUFFICES ASSUME IInv, CoverInv, Unlink PROVE CoverInv'
  OBVIOUS
<1>1. pc = "unlink" /\ pc' = "merge" /\ UNCHANGED <<frame, held>> /\ MergeStep
  BY DEF Unlink, MergeStep
<1>2. PICK k, j : k = cur.order /\ j = found.idx
  OBVIOUS
<1>3. /\ k \in Orders
      /\ \A l \in Orders : Range(freelist'[l]) = Range(freelist[l]) \ (IF l = k THEN {j} ELSE {})
  BY <1>2, UnlinkPops DEF Pops
<1>4. \A p \in Pages : OnList(p) => (OnList(p) \/ OnItsWay(p))'
  <2> SUFFICES ASSUME NEW p \in Pages, NEW l \in Orders, NEW m \in Range(freelist[l]), Covers(m, l, p)
               PROVE  OnList(p)' \/ OnItsWay(p)'
    BY DEF OnList
  <2>1. CASE l = k /\ m = j
    <3>1. Covers(cur'.idx, cur'.order, p)
      BY <2>1, <1>1, <1>2, MergedCovers
    <3> QED BY <3>1, <1>1 DEF OnItsWay, Covers, Freeing
  <2>2. CASE ~(l = k /\ m = j)
    <3>1. m \in Range(freelist'[l])
      BY <2>2, <1>3
    <3> QED BY <3>1 DEF OnList, Covers
  <2> QED BY <2>1, <2>2
<1>5. \A p \in Pages : HeldPage(p) => HeldPage(p)'
  BY <1>1 DEF HeldPage, Covers
<1>6. \A p \in Pages : OnItsWay(p) => OnItsWay(p)'
  <2> SUFFICES ASSUME NEW p \in Pages, OnItsWay(p) PROVE OnItsWay(p)'
    OBVIOUS
  <2>1. Covers(cur'.idx, cur'.order, p)
    BY <1>1, MergedCovers DEF OnItsWay
  <2> QED BY <2>1, <1>1 DEF OnItsWay, Covers, Freeing
<1> QED BY <1>1, <1>4, <1>5, <1>6, CoverByParts

LEMMA UnlinkStaleCover == IInv /\ CoverInv /\ UnlinkStale => CoverInv'
<1> SUFFICES ASSUME IInv, CoverInv, UnlinkStale PROVE CoverInv'
  OBVIOUS
<1>1. pc = "unlink" /\ pc' = "corrupt" /\ UNCHANGED <<frame, held, freelist>> /\ MergeStep
  BY DEF UnlinkStale, MergeStep
<1>4. \A p \in Pages : OnList(p) => OnList(p)'
  BY <1>1 DEF OnList, Covers
<1>5. \A p \in Pages : HeldPage(p) => HeldPage(p)'
  BY <1>1 DEF HeldPage, Covers
<1>6. \A p \in Pages : OnItsWay(p) => OnItsWay(p)'
  <2> SUFFICES ASSUME NEW p \in Pages, OnItsWay(p) PROVE OnItsWay(p)'
    OBVIOUS
  <2>1. Covers(cur'.idx, cur'.order, p)
    BY <1>1, MergedCovers DEF OnItsWay
  <2> QED BY <2>1, <1>1 DEF OnItsWay, Covers, Terminal
<1> QED BY <1>1, <1>4, <1>5, <1>6, CoverByParts

LEMMA CoverInductive == IInv /\ CoverInv /\ [Next]_vars => CoverInv'
<1> SUFFICES ASSUME IInv, CoverInv, [Next]_vars PROVE CoverInv'
  OBVIOUS
<1> USE DEF Freeing, Terminal
<1>1. ASSUME UNCHANGED vars PROVE CoverInv'
  BY <1>1 DEF vars, CoverInv, Ahead, Behind, OnList, HeldPage, OnItsWay, Covers
<1>2. CASE Boot
  <2>1. CASE CarveDone
    BY <2>1, SizeFacts DEF CarveDone, CoverInv, Ahead, Behind, OnList, HeldPage, OnItsWay, Covers
  <2>2. CASE BootBin
    <3>1. pc = "bins" /\ pc' \in {"split", "wild"} /\ UNCHANGED <<freelist, held, cur, frame>>
      BY <2>2 DEF BootBin, StartOr, StartAlloc
    <3> QED BY <3>1, CoverFrame
  <2> QED BY <1>2, <2>1, <2>2, CarveSkipCover, CarveBlockCover DEF Boot
<1>3. CASE Call
  <2>1. CASE \E b \in held : Free(b)
    BY <2>1, FreeCover
  <2>2. CASE ~(\E b \in held : Free(b))
    <3>1. pc = "idle" /\ pc' \in {"idle", "split", "cantrejuv"} /\ UNCHANGED <<freelist, held, cur, frame>>
      BY <1>3, <2>2 DEF Call, Malloc, MallocFails, UnitMalloc, UnitMallocRefill, UnitFree, PageMalloc,
                        StartOr, StartAlloc, vars
    <3> QED BY <3>1, CoverFrame
  <2> QED BY <2>1, <2>2
<1>4. CASE Alloc
  <2>1. CASE SplitWild
    BY <2>1, CoverFrame DEF SplitWild
  <2>2. CASE NodeHang
    <3>1. pc \in {"split", "free", "unlink"}
      BY <2>2, TypeFacts DEF NodeHang, Needed, IInv
    <3> QED BY <2>2, <3>1, CoverFrame DEF NodeHang
  <2> QED BY <1>4, <2>1, <2>2, SplitCover, RefillCover, TakeCover DEF Alloc
<1>5. CASE Release
  <2>1. CASE FreeNode
    BY <2>1, CoverFrame DEF FreeNode
  <2>2. CASE MergeFind
    BY <2>2, CoverFrame DEF MergeFind
  <2>3. CASE MergeLost
    BY <2>3, CoverFrame DEF MergeLost
  <2> QED BY <1>5, <2>1, <2>2, <2>3, UnlinkCover, UnlinkStaleCover, FreeDoneCover DEF Release
<1>6. CASE Spin
  BY <1>6, <1>1 DEF Spin
<1> QED BY <1>1, <1>2, <1>3, <1>4, <1>5, <1>6 DEF Next

LEMMA CoverInvariance == Spec => []CoverInv
<1>1. IInv /\ CoverInv /\ [Next]_vars => CoverInv'
  BY CoverInductive
<1>2. Init => CoverInv
  BY InitCover
<1> QED BY <1>1, <1>2, Invariance, PTL DEF Spec

LEMMA GivenUpStep == TypeOK /\ GivenUp /\ [Next]_vars => GivenUp'
<1> SUFFICES ASSUME TypeOK, GivenUp, [Next]_vars, pc' = "carve" PROVE Owned("lost")' # {} => pool'[0] = 0
  BY DEF GivenUp
<1>1. CASE UNCHANGED vars
  BY <1>1 DEF vars, GivenUp, Owned
<1>2. CASE CarveSkip
  BY <1>2 DEF CarveSkip, GivenUp, Owned
<1>3. CASE CarveBlock
  <2>1. pc = "carve" /\ pool[0] \in Nat
    BY <1>3 DEF CarveBlock, TypeOK, Bins
  <2>2. CASE pool[0] > 0
    <3>1. held' = held
      BY <1>3, <2>2 DEF CarveBlock
    <3>2. Owned("lost") = {}
      BY <2>1, <2>2 DEF GivenUp
    <3> QED BY <3>1, <3>2 DEF Owned
  <2>3. CASE ~(pool[0] > 0)
    BY <1>3, <2>1, <2>3 DEF CarveBlock
  <2> QED BY <2>2, <2>3
<1>4. CASE ~(UNCHANGED vars) /\ ~CarveSkip /\ ~CarveBlock
  <2>1. pc' # "carve"
    <3>1. CASE CarveDone \/ BootBin \/ Call
      BY <1>4, <3>1 DEF CarveDone, BootBin, Call, Malloc, MallocFails, UnitMalloc, UnitMallocRefill,
                        PageMalloc, UnitFree, Free, StartOr, StartAlloc
    <3>2. CASE Alloc
      <4>1. pool[1] \in Nat
        BY DEF TypeOK, Bins
      <4>2. CASE RefillNodes
        <5>1. pc' = pc /\ pool[1] < Needed
          BY <4>2 DEF RefillNodes
        <5>2. pc = "carve" => Needed = 0
          BY DEF Needed
        <5> QED BY <4>1, <5>1, <5>2
      <4>3. CASE Split \/ SplitWild \/ NodeHang \/ TakeBlock
        BY <4>3 DEF Split, SplitWild, NodeHang, TakeBlock
      <4> QED BY <3>2, <4>2, <4>3 DEF Alloc
    <3>3. CASE Release
      BY <3>3 DEF Release, FreeNode, MergeFind, MergeLost, Unlink, UnlinkStale, MergeStep, FreeDone
    <3> QED BY <1>4, <3>1, <3>2, <3>3 DEF Next, Boot, Spin
  <2> QED BY <2>1
<1> QED BY <1>1, <1>2, <1>3, <1>4

LEMMA GivenUpInvariance == Spec => []GivenUp
<1>1. Init => GivenUp
  BY DEF Init, GivenUp, Owned, Held
<1>2. TypeOK /\ GivenUp /\ [Next]_vars => GivenUp'
  BY GivenUpStep
<1> QED BY <1>1, <1>2, TypeCorrect, PTL DEF Spec

\* Every page behind the carving is in a listed block, in a block in use, in
\* the block buddy_free is returning, or in a block that the boot could not
\* list, whatever was split, merged or taken for nodes; and the boot gives up
\* a block only when the first page has no node left.
THEOREM PagesCovered == Spec => []Coverage
<1>1. CoverInv /\ GivenUp => Coverage
  <2> SUFFICES ASSUME CoverInv, GivenUp, NEW p \in 0 .. frame - 1
               PROVE  OnList(p) \/ InUse(p) \/ OnItsWay(p) \/ NotTaken(p)
    BY DEF Coverage, GivenUp
  <2>1. OnList(p) \/ HeldPage(p) \/ OnItsWay(p)
    BY DEF CoverInv, Behind
  <2> QED BY <2>1 DEF HeldPage, InUse, NotTaken, Owned
<1> QED BY <1>1, CoverInvariance, GivenUpInvariance, PTL

----------------------------------------------------------------------------
(* The refinement of PageFrames *)

Back(p)     == pc \in Freeing \cup {"lostmerge"} /\ Covers(cur.idx, cur.order, p)
Uncarved(p) == p \in frame .. NPages - 1 /\ entries[p] >= 0

LEMMA BlockPages ==
  ASSUME NEW i \in Nat, NEW k \in Orders
  PROVE  \A p : p \in PagesOf(i, k) <=> p \in Nat /\ Covers(i, k, p)
BY SizeFacts DEF PagesOf, Covers

FreeMeans == \A p : p \in FreePages <=> p \in Nat /\ (OnList(p) \/ Back(p) \/ Uncarved(p))

LEMMA FreePage == TypeOK => FreeMeans
<1> SUFFICES ASSUME TypeOK
             PROVE  \A p : p \in FreePages <=> p \in Nat /\ (OnList(p) \/ Back(p) \/ Uncarved(p))
  BY DEF FreeMeans
<1> TAKE p
<1> DEFINE Lists == UNION {UNION {PagesOf(i, k) : i \in Range(freelist[k])} : k \in Orders}
           Way == IF pc \in Freeing \cup {"lostmerge"} THEN PagesOf(cur.idx, cur.order) ELSE {}
           Rest == {q \in frame .. NPages - 1 : entries[q] >= 0}
<1>1. p \in Lists <=> p \in Nat /\ OnList(p)
  <2>1. p \in Lists <=> \E k \in Orders : \E i \in Range(freelist[k]) : p \in PagesOf(i, k)
    OBVIOUS
  <2>2. \A k \in Orders : \A i \in Range(freelist[k]) : p \in PagesOf(i, k) <=> p \in Nat /\ Covers(i, k, p)
    BY TypeFacts, BlockPages
  <2> HIDE DEF Lists
  <2> QED BY <2>1, <2>2 DEF OnList
<1>2. p \in Way <=> p \in Nat /\ Back(p)
  <2>1. p \in PagesOf(cur.idx, cur.order) <=> p \in Nat /\ Covers(cur.idx, cur.order, p)
    BY TypeFacts, BlockPages
  <2> QED BY <2>1 DEF Back
<1>3. p \in Rest <=> p \in Nat /\ Uncarved(p)
  BY TypeFacts, SizeFacts DEF Uncarved
<1>4. FreePages = Lists \cup Way \cup Rest
  BY DEF FreePages
<1> HIDE DEF Lists, Way, Rest
<1> QED BY <1>1, <1>2, <1>3, <1>4

LEMMA KeepStep ==
  ASSUME TypeOK, TypeOK', Grants' = Grants,
         \A p \in Nat : (OnList(p) \/ Back(p) \/ Uncarved(p))' => OnList(p) \/ Back(p) \/ Uncarved(p)
  PROVE  Frames!Keep
<1>1. FreeMeans /\ FreeMeans'
  BY FreePage, PTL
<1>2. FreePages' \subseteq FreePages
  BY <1>1 DEF FreeMeans
<1> QED BY <1>2 DEF Frames!Keep

LEMMA NothingAhead ==
  ASSUME IInv, CoverInv, pc # "carve"
  PROVE  frame = NPages /\ \A p : ~Uncarved(p)
<1>1. frame = NPages /\ NPages \in Nat
  BY SizeFacts DEF CoverInv, Ahead
<1> QED BY <1>1 DEF Uncarved

\* A step that leaves the owners alone and frees no page.
LEMMA KeepOnly ==
  ASSUME IInv, IInv', CoverInv, pc # "carve", frame' = frame, Owned("user")' = Owned("user"),
         \A p \in Nat : OnList(p)' => OnList(p) \/ Back(p),
         \A p \in Nat : Back(p)' => OnList(p) \/ Back(p)
  PROVE  Frames!Keep
<1>1. TypeOK /\ TypeOK' /\ frame = NPages /\ NPages \in Nat
  BY NothingAhead, SizeFacts DEF IInv
<1>2. \A p \in Nat : ~Uncarved(p)'
  BY <1>1 DEF Uncarved
<1>3. Grants' = Grants
  BY DEF Grants, PagesOf
<1> QED BY <1>1, <1>2, <1>3, KeepStep

LEMMA KeepFrame ==
  ASSUME IInv, IInv', CoverInv, pc # "carve", UNCHANGED <<freelist, held, cur, frame>>,
         pc' \in Freeing \cup {"lostmerge"} => pc \in Freeing \cup {"lostmerge"}
  PROVE  Frames!Keep
<1>1. \A p \in Nat : OnList(p)' => OnList(p)
  BY DEF OnList, Covers
<1>2. \A p \in Nat : Back(p)' => Back(p)
  BY DEF Back, Covers, Freeing
<1>3. Owned("user")' = Owned("user")
  BY DEF Owned
<1> QED BY <1>1, <1>2, <1>3, KeepOnly

\* The allocator takes a block for itself.
LEMMA KeepPop ==
  ASSUME IInv, IInv', CoverInv, pc # "carve", frame' = frame, cur' = cur,
         pc' \in Freeing \cup {"lostmerge"} => pc \in Freeing \cup {"lostmerge"},
         NEW k, NEW i, Pops(k, i), NEW h, h.owner # "user", held' = held \cup {h}
  PROVE  Frames!Keep
<1>1. \A p \in Nat : OnList(p)' => OnList(p)
  BY DEF OnList, Covers, Pops
<1>2. \A p \in Nat : Back(p)' => Back(p)
  BY DEF Back, Covers, Freeing
<1>3. Owned("user")' = Owned("user")
  BY DEF Owned
<1> QED BY <1>1, <1>2, <1>3, KeepOnly

LEMMA RefillFrames == IInv /\ IInv' /\ CoverInv /\ RefillNodes => Frames!Keep
<1> SUFFICES ASSUME IInv, IInv', CoverInv, RefillNodes PROVE Frames!Keep
  OBVIOUS
<1> DEFINE h == Held(Head(freelist[0]), 0, 1, "bin1")
<1>1. pc \in {"split", "free", "unlink"} /\ pc' = pc /\ frame' = frame /\ cur' = cur
  BY RefillPops DEF RefillNodes
<1>2. h.owner # "user" /\ held' = held \cup {h}
  BY RefillPops DEF Held
<1>3. Pops(0, Head(freelist[0]))
  BY RefillPops
<1>4. pc # "carve"
  BY <1>1
<1> HIDE DEF h
<1> QED BY <1>1, <1>2, <1>3, <1>4, KeepPop

LEMMA SplitFrames == IInv /\ IInv' /\ CoverInv /\ Split => Frames!Keep
<1> SUFFICES ASSUME IInv, IInv', CoverInv, Split PROVE Frames!Keep
  OBVIOUS
<1>1. pc = "split" /\ pc' = pc /\ UNCHANGED <<frame, cur, held>> /\ TypeOK
  BY DEF Split, IInv
<1>2. PICK c, i : Halved(c, i)
  BY SplitHalves
<1>3. /\ c \in Orders /\ c - 1 \in Orders /\ Size[c] = 2 * Size[c - 1] /\ Size[c - 1] \in Nat
      /\ i \in Pages /\ i \in Range(freelist[c]) /\ i \in Nat
      /\ \A l \in Orders :
           Range(freelist'[l]) = IF l = c THEN Range(freelist[l]) \ {i}
                                 ELSE IF l = c - 1 THEN Range(freelist[l]) \cup {i, i + Size[c - 1]}
                                 ELSE Range(freelist[l])
  BY <1>1, <1>2, SizeFacts, TypeFacts DEF Halved
<1>4. \A p \in Nat : OnList(p)' => OnList(p)
  <2> SUFFICES ASSUME NEW p \in Nat, NEW l \in Orders, NEW j \in Range(freelist'[l]), Covers(j, l, p)
               PROVE  OnList(p)
    BY DEF OnList, Covers
  <2>1. CASE j \in Range(freelist[l])
    BY <2>1 DEF OnList
  <2>2. CASE j \notin Range(freelist[l])
    <3>1. l = c - 1 /\ (j = i \/ j = i + Size[c - 1])
      BY <2>2, <1>3
    <3>2. Covers(i, c, p)
      BY <3>1, <1>3 DEF Covers
    <3> QED BY <3>2, <1>3 DEF OnList
  <2> QED BY <2>1, <2>2
<1>5. \A p \in Nat : ~Back(p)'
  BY <1>1 DEF Back, Freeing
<1>6. Owned("user")' = Owned("user")
  BY <1>1 DEF Owned
<1> QED BY <1>1, <1>4, <1>5, <1>6, KeepOnly

LEMMA FreeDoneFrames == IInv /\ IInv' /\ CoverInv /\ FreeDone => Frames!Keep
<1> SUFFICES ASSUME IInv, IInv', CoverInv, FreeDone PROVE Frames!Keep
  OBVIOUS
<1>1. pc = "merge" /\ pc' = "idle" /\ UNCHANGED <<frame, held>>
  BY DEF FreeDone
<1>2. PICK k, i : k = cur.order /\ i = cur.idx
  OBVIOUS
<1>3. /\ k \in Orders
      /\ \A l \in Orders : Range(freelist'[l]) = Range(freelist[l]) \cup (IF l = k THEN {i} ELSE {})
  BY <1>2, FreeDonePushes DEF Pushes
<1>4. \A p \in Nat : OnList(p)' => OnList(p) \/ Back(p)
  <2> SUFFICES ASSUME NEW p \in Nat, NEW l \in Orders, NEW j \in Range(freelist'[l]), Covers(j, l, p)
               PROVE  OnList(p) \/ Back(p)
    BY DEF OnList, Covers
  <2>1. CASE j \in Range(freelist[l])
    BY <2>1 DEF OnList
  <2>2. CASE j \notin Range(freelist[l])
    BY <2>2, <1>1, <1>2, <1>3 DEF Back, Freeing
  <2> QED BY <2>1, <2>2
<1>5. \A p \in Nat : ~Back(p)'
  BY <1>1 DEF Back, Freeing
<1>6. Owned("user")' = Owned("user")
  BY <1>1 DEF Owned
<1> QED BY <1>1, <1>4, <1>5, <1>6, KeepOnly

LEMMA UnlinkFrames == IInv /\ IInv' /\ CoverInv /\ Unlink => Frames!Keep
<1> SUFFICES ASSUME IInv, IInv', CoverInv, Unlink PROVE Frames!Keep
  OBVIOUS
<1>1. pc = "unlink" /\ pc' = "merge" /\ UNCHANGED <<frame, held>> /\ MergeStep
  BY DEF Unlink, MergeStep
<1>2. PICK k, j : k = cur.order /\ j = found.idx
  OBVIOUS
<1>3. /\ k \in Orders /\ j \in Range(freelist[k])
      /\ \A l \in Orders : Range(freelist'[l]) = Range(freelist[l]) \ (IF l = k THEN {j} ELSE {})
  BY <1>2, UnlinkPops DEF Pops
<1>4. \A p \in Nat : OnList(p)' => OnList(p)
  BY <1>3 DEF OnList, Covers
<1>5. \A p \in Nat : Back(p)' => OnList(p) \/ Back(p)
  <2> SUFFICES ASSUME NEW p \in Nat, Covers(cur'.idx, cur'.order, p) PROVE OnList(p) \/ Back(p)
    BY DEF Back, Covers
  <2>0. p \in Pages
    <3>1. /\ TypeOK /\ cur'.order = cur.order + 1 /\ cur.order + 1 \in Orders
          /\ cur'.idx + Size[cur.order + 1] <= NPages
          /\ cur'.idx = MinOf(cur.idx, found.idx) /\ found.idx \in Pages
      BY <1>1, MergeTypes
    <3>2. cur.idx \in Nat /\ found.idx \in Nat
      BY <3>1, TypeFacts
    <3>3. cur'.idx \in Nat /\ p < cur'.idx + Size[cur.order + 1] /\ Size[cur.order + 1] \in Nat /\ NPages \in Nat
      BY <3>1, <3>2, SizeFacts DEF MinOf, Covers
    <3> QED BY <3>1, <3>3 DEF Pages
  <2>1. Covers(cur.idx, cur.order, p) \/ Covers(found.idx, cur.order, p)
    BY <2>0, <1>1, MergedCovers
  <2> QED BY <2>1, <1>1, <1>2, <1>3 DEF OnList, Back, Freeing
<1>6. Owned("user")' = Owned("user")
  BY <1>1 DEF Owned
<1> QED BY <1>1, <1>4, <1>5, <1>6, KeepOnly

LEMMA UnlinkStaleFrames == IInv /\ IInv' /\ CoverInv /\ UnlinkStale => Frames!Keep
<1> SUFFICES ASSUME IInv, IInv', CoverInv, UnlinkStale PROVE Frames!Keep
  OBVIOUS
<1>1. pc = "unlink" /\ pc' = "corrupt" /\ UNCHANGED <<frame, held, freelist>>
  BY DEF UnlinkStale, MergeStep
<1>4. \A p \in Nat : OnList(p)' => OnList(p)
  BY <1>1 DEF OnList, Covers
<1>5. \A p \in Nat : ~Back(p)'
  BY <1>1 DEF Back, Freeing
<1>6. Owned("user")' = Owned("user")
  BY <1>1 DEF Owned
<1> QED BY <1>1, <1>4, <1>5, <1>6, KeepOnly

\* A page of a listed block is a page of no other listed block.
LEMMA OneList ==
  ASSUME IInv, pc # "corrupt", NEW k \in Orders, NEW i \in Range(freelist[k]),
         NEW l \in Orders, NEW j \in Range(freelist[l]), NEW p \in Nat, Covers(i, k, p), Covers(j, l, p)
  PROVE  i = j /\ k = l
<1>1. TypeOK /\ FreeApart
  BY DEF IInv, Heap
<1>2. i \in Nat /\ j \in Nat /\ Size[k] \in Nat /\ Size[l] \in Nat
  BY <1>1, TypeFacts, SizeFacts
<1>3. ~Apart(i, k, j, l)
  BY <1>2 DEF Apart, Covers
<1> QED BY <1>1, <1>3 DEF FreeApart

LEMMA TakeFrames == IInv /\ IInv' /\ CoverInv /\ TakeBlock => Frames!Next
<1> SUFFICES ASSUME IInv, IInv', CoverInv, TakeBlock PROVE Frames!Next
  OBVIOUS
<1>1. pc = "split" /\ pc' \in {"bins", "idle"} /\ frame' = frame /\ cur' = cur /\ TypeOK /\ TypeOK'
  BY DEF TakeBlock, IInv
<1>2. PICK k, i : Pops(k, i) /\ held' = held \cup {Held(i, k, req.pages, req.for)}
  BY TakePops
<1>3. PICK h : h = Held(i, k, req.pages, req.for)
  OBVIOUS
<1>4. h.idx = i /\ h.order = k /\ h.owner = req.for /\ held' = held \cup {h}
  BY <1>2, <1>3 DEF Held
<1>5. CASE req.for # "user"
  <2>1. pc # "carve" /\ ~(pc' \in Freeing \cup {"lostmerge"})
    BY <1>1 DEF Freeing
  <2>2. Frames!Keep
    BY <2>1, <1>1, <1>2, <1>4, <1>5, KeepPop
  <2> QED BY <2>2 DEF Frames!Next
<1>6. CASE req.for = "user"
  <2>1. /\ k \in Orders /\ i \in Range(freelist[k])
        /\ \A l \in Orders : Range(freelist'[l]) = Range(freelist[l]) \ (IF l = k THEN {i} ELSE {})
    BY <1>2 DEF Pops
  <2>2. i \in Nat /\ Size[k] \in Nat /\ Size[k] >= 1
    BY <2>1, <1>1, TypeFacts, SizeFacts
  <2>3. FreeMeans /\ FreeMeans'
    BY <1>1, FreePage, PTL
  <2>4. \A p \in Nat : ~Back(p) /\ ~Uncarved(p) /\ ~Back(p)' /\ ~Uncarved(p)'
    <3>1. frame = NPages /\ NPages \in Nat
      BY <1>1, NothingAhead, SizeFacts
    <3> QED BY <3>1, <1>1 DEF Back, Uncarved, Freeing
  <2>5. \A p : p \in FreePages <=> p \in Nat /\ OnList(p)
    BY <2>3, <2>4 DEF FreeMeans
  <2>6. \A p : p \in FreePages' <=> p \in Nat /\ OnList(p)'
    BY <2>3, <2>4 DEF FreeMeans
  <2>7. PICK S : S = PagesOf(i, k)
    OBVIOUS
  <2>8. \A p : p \in S <=> p \in Nat /\ Covers(i, k, p)
    BY <2>1, <2>2, <2>7, BlockPages
  <2>9. S \subseteq FreePages
    BY <2>1, <2>5, <2>8 DEF OnList
  <2>10. S # {}
    <3>1. Covers(i, k, i)
      BY <2>2 DEF Covers
    <3> QED BY <3>1, <2>2, <2>8
  <2>11. \A p \in Nat : OnList(p)' <=> OnList(p) /\ p \notin S
    <3> SUFFICES ASSUME NEW p \in Nat PROVE OnList(p)' <=> OnList(p) /\ p \notin S
      OBVIOUS
    <3>1. OnList(p)' => OnList(p)
      BY <2>1 DEF OnList, Covers
    <3>2. ASSUME OnList(p)', p \in S PROVE FALSE
      <4>1. PICK l \in Orders : \E j \in Range(freelist'[l]) : Covers(j, l, p)
        BY <3>2 DEF OnList, Covers
      <4>2. PICK j \in Range(freelist'[l]) : Covers(j, l, p)
        BY <4>1
      <4>3. j \in Range(freelist[l]) /\ ~(j = i /\ l = k)
        BY <4>2, <2>1
      <4> QED BY <4>2, <4>3, <3>2, <2>1, <2>8, <1>1, OneList
    <3>3. ASSUME OnList(p), p \notin S PROVE OnList(p)'
      <4>1. PICK l \in Orders : \E j \in Range(freelist[l]) : Covers(j, l, p)
        BY <3>3 DEF OnList
      <4>2. PICK j \in Range(freelist[l]) : Covers(j, l, p)
        BY <4>1
      <4>3. ~(j = i /\ l = k)
        BY <4>2, <3>3, <2>8
      <4>4. j \in Range(freelist'[l])
        BY <4>3, <2>1
      <4> QED BY <4>2, <4>4 DEF OnList, Covers
    <3> QED BY <3>1, <3>2, <3>3
  <2>12. FreePages' = FreePages \ S
    BY <2>5, <2>6, <2>8, <2>11
  <2>13. Grants' = Grants \cup {S}
    <3>1. Owned("user")' = Owned("user") \cup {h}
      BY <1>4, <1>6 DEF Owned
    <3>2. Grants' = {PagesOf(b.idx, b.order) : b \in Owned("user") \cup {h}}
      BY <3>1 DEF Grants, PagesOf
    <3> QED BY <3>2, <2>7, <1>4 DEF Grants
  <2>14. Frames!Take
    BY <2>9, <2>10, <2>12, <2>13 DEF Frames!Take
  <2> QED BY <2>14 DEF Frames!Next
<1> QED BY <1>5, <1>6

LEMMA FreeFrames == ASSUME IInv, IInv', CoverInv, NEW b \in held, Free(b) PROVE Frames!GiveBack
<1>1. pc = "idle" /\ pc' = "free" /\ UNCHANGED <<frame, freelist>> /\ held' = held \ {b}
      /\ cur' = [idx |-> b.idx, order |-> OrderOf(b)] /\ b.owner = "user" /\ TypeOK /\ TypeOK'
  BY DEF Free, IInv
<1>2. OrderOf(b) = b.order
  <2>1. entries[b.idx] = -b.order - 1 /\ b.order \in Int
    BY <1>1, TypeFacts, SizeFacts DEF IInv, Heap, HeldEntries, Orders
  <2> QED BY <2>1 DEF OrderOf
<1>3. PICK i \in Nat, k \in Orders : i = b.idx /\ k = b.order /\ Size[k] \in Nat /\ Size[k] >= 1
  BY <1>1, TypeFacts, SizeFacts
<1>4. PICK S : S = PagesOf(i, k)
  OBVIOUS
<1>5. \A p : p \in S <=> p \in Nat /\ Covers(i, k, p)
  BY <1>3, <1>4, BlockPages
<1>6. FreeMeans /\ FreeMeans'
  BY <1>1, FreePage, PTL
<1>7. \A p \in Nat : ~Back(p) /\ ~Uncarved(p) /\ ~Uncarved(p)' /\ (Back(p)' <=> Covers(i, k, p))
  <2>1. frame = NPages /\ NPages \in Nat
    BY <1>1, NothingAhead, SizeFacts
  <2>2. cur'.idx = i /\ cur'.order = k
    BY <1>1, <1>2, <1>3
  <2> QED BY <2>1, <2>2, <1>1 DEF Back, Uncarved, Freeing, Covers
<1>8. \A p \in Nat : OnList(p)' <=> OnList(p)
  BY <1>1 DEF OnList, Covers
<1>9. FreePages' = FreePages \cup S
  BY <1>5, <1>6, <1>7, <1>8 DEF FreeMeans
<1>10. S \in Grants
  BY <1>1, <1>3, <1>4 DEF Grants, Owned
<1>11. Grants' = Grants \ {S}
  <2>1. Owned("user")' = Owned("user") \ {b}
    BY <1>1 DEF Owned
  <2>2. Grants' = {PagesOf(a.idx, a.order) : a \in Owned("user") \ {b}}
    BY <2>1 DEF Grants, PagesOf
  <2>3. ASSUME NEW a \in Owned("user"), a # b PROVE PagesOf(a.idx, a.order) # S
    <3>1. a \in held /\ a.idx \in Nat /\ a.order \in Orders /\ Size[a.order] \in Nat
      BY <1>1, TypeFacts, SizeFacts DEF Owned
    <3>2. Apart(a.idx, a.order, i, k)
      BY <3>1, <2>3, <1>1, <1>3 DEF IInv, Heap, HeldApart
    <3>3. i \in S /\ ~Covers(a.idx, a.order, i)
      BY <3>1, <3>2, <1>3, <1>5 DEF Apart, Covers
    <3> QED BY <3>1, <3>3, BlockPages
  <2> QED BY <2>2, <2>3, <1>1, <1>3, <1>4 DEF Grants, Owned
<1> QED BY <1>9, <1>10, <1>11 DEF Frames!GiveBack

LEMMA CarveFrames == IInv /\ IInv' /\ CoverInv /\ (CarveSkip \/ CarveBlock \/ CarveDone) => Frames!Keep
<1> SUFFICES ASSUME IInv, IInv', CoverInv, CarveSkip \/ CarveBlock \/ CarveDone PROVE Frames!Keep
  OBVIOUS
<1>1. pc = "carve" /\ pc' \in {"carve", "bins"} /\ TypeOK /\ TypeOK' /\ cur' = cur
  BY DEF CarveSkip, CarveBlock, CarveDone, IInv
<1>2. \A p \in Nat : ~Back(p)'
  BY <1>1 DEF Back, Freeing
<1>3. CASE CarveSkip \/ CarveDone
  <2>1. UNCHANGED <<freelist, held, entries>> /\ frame' >= frame /\ frame \in Nat /\ frame' \in Nat /\ NPages \in Nat
    BY <1>1, <1>3, TypeFacts, SizeFacts DEF CarveSkip, CarveDone
  <2>2. \A p \in Nat : OnList(p)' => OnList(p)
    BY <2>1 DEF OnList, Covers
  <2>3. \A p \in Nat : Uncarved(p)' => Uncarved(p)
    BY <2>1 DEF Uncarved
  <2>4. Grants' = Grants
    BY <2>1 DEF Grants, Owned, PagesOf
  <2> QED BY <1>1, <1>2, <2>2, <2>3, <2>4, KeepStep
<1>4. CASE CarveBlock
  <2>1. PICK k \in Orders : Carves(k)
    BY <1>4, CarveCarves
  <2>2. /\ frame \in Nat /\ NPages \in Nat /\ Size[k] \in Nat /\ frame' = frame + Size[k]
        /\ frame + Size[k] <= NPages
        /\ \A p \in frame .. frame + Size[k] - 1 : entries[p] >= 0
        /\ \A p \in Pages : p >= frame + Size[k] => entries'[p] = entries[p]
    BY <2>1, <1>1, TypeFacts, SizeFacts DEF Carves, Fits
  <2>3. \A p \in Nat : OnList(p)' => OnList(p) \/ Uncarved(p)
    <3> SUFFICES ASSUME NEW p \in Nat, NEW l \in Orders, NEW j \in Range(freelist'[l]), Covers(j, l, p)
                 PROVE  OnList(p) \/ Uncarved(p)
      BY DEF OnList, Covers
    <3>1. CASE j \in Range(freelist[l])
      BY <3>1 DEF OnList
    <3>2. CASE j \notin Range(freelist[l])
      <4>1. j = frame /\ l = k
        BY <3>2, <2>1 DEF Carves, Pushes
      <4>2. p \in frame .. frame + Size[k] - 1 /\ p \in frame .. NPages - 1
        BY <4>1, <2>2 DEF Covers
      <4> QED BY <4>2, <2>2 DEF Uncarved
    <3> QED BY <3>1, <3>2
  <2>4. \A p \in Nat : Uncarved(p)' => Uncarved(p)
    <3> SUFFICES ASSUME NEW p \in Nat, Uncarved(p)' PROVE Uncarved(p)
      OBVIOUS
    <3>1. p \in frame' .. NPages - 1 /\ entries'[p] >= 0
      BY DEF Uncarved
    <3>2. p \in Pages /\ p >= frame + Size[k] /\ p \in frame .. NPages - 1
      BY <3>1, <2>2 DEF Pages
    <3> QED BY <3>1, <3>2, <2>2 DEF Uncarved
  <2>5. Grants' = Grants
    <3>1. Owned("user")' = Owned("user")
      BY <2>1 DEF Carves, Owned, Held
    <3> QED BY <3>1 DEF Grants, PagesOf
  <2> QED BY <1>1, <1>2, <2>3, <2>4, <2>5, KeepStep
<1> QED BY <1>3, <1>4

LEMMA InitFrames == Init => Frames!Init
<1> SUFFICES ASSUME Init PROVE Frames!Init
  OBVIOUS
<1>1. TypeOK
  BY InitInv DEF IInv
<1>2. Grants = {}
  BY DEF Grants, Owned, Init, Held
<1>3. \A p : ~OnList(p) /\ ~Back(p)
  BY DEF OnList, Back, Init, Range, Freeing
<1>4. \A p \in Nat : Uncarved(p) => p \in Pages
  BY <1>1, TypeFacts, SizeFacts DEF Uncarved, Pages
<1>5. FreePages \subseteq Pages
  BY <1>1, <1>3, <1>4, FreePage DEF FreeMeans
<1> QED BY <1>2, <1>5 DEF Frames!Init

LEMMA FramesStep ==
  IInv /\ IInv' /\ CoverInv /\ [Next]_vars => [Frames!Next]_<<FreePages, Grants>>
<1> SUFFICES ASSUME IInv, IInv', CoverInv, [Next]_vars
             PROVE  [Frames!Next]_<<FreePages, Grants>>
  OBVIOUS
<1>1. ASSUME UNCHANGED vars PROVE UNCHANGED <<FreePages, Grants>>
  BY <1>1 DEF vars, FreePages, Grants, PagesOf, Owned, Freeing
<1>2. CASE Boot
  <2>1. CASE BootBin
    <3>1. pc = "bins" /\ pc' \in {"split", "wild"} /\ UNCHANGED <<freelist, held, cur, frame>>
      BY <2>1 DEF BootBin, StartOr, StartAlloc
    <3>2. Frames!Keep
      BY <3>1, KeepFrame DEF Freeing
    <3> QED BY <3>2 DEF Frames!Next
  <2> QED BY <1>2, <2>1, CarveFrames DEF Boot, Frames!Next
<1>3. CASE Call
  <2>1. CASE \E b \in held : Free(b)
    BY <2>1, FreeFrames DEF Frames!Next
  <2>2. CASE ~(\E b \in held : Free(b))
    <3>1. pc = "idle" /\ pc' \in {"idle", "split", "cantrejuv"} /\ UNCHANGED <<freelist, held, cur, frame>>
      BY <1>3, <2>2 DEF Call, Malloc, MallocFails, UnitMalloc, UnitMallocRefill, UnitFree, PageMalloc,
                        StartOr, StartAlloc, vars
    <3>2. Frames!Keep
      BY <3>1, KeepFrame DEF Freeing
    <3> QED BY <3>2 DEF Frames!Next
  <2> QED BY <2>1, <2>2
<1>4. CASE Alloc
  <2>1. ASSUME SplitWild \/ NodeHang PROVE Frames!Keep
    <3>1. /\ pc \in {"split", "free", "unlink"} /\ pc' \in {"wild", "cantrejuv"}
          /\ UNCHANGED <<freelist, held, cur, frame>>
      BY <2>1, TypeFacts DEF SplitWild, NodeHang, Needed, IInv
    <3> QED BY <3>1, KeepFrame DEF Freeing
  <2> QED BY <1>4, <2>1, SplitFrames, RefillFrames, TakeFrames DEF Alloc, Frames!Next
<1>5. CASE Release
  <2>1. ASSUME FreeNode \/ MergeFind \/ MergeLost PROVE Frames!Keep
    <3>1. /\ pc \in {"free", "merge"} /\ pc' \in {"merge", "unlink", "lostmerge"}
          /\ UNCHANGED <<freelist, held, cur, frame>>
      BY <2>1 DEF FreeNode, MergeFind, MergeLost
    <3> QED BY <3>1, KeepFrame DEF Freeing
  <2> QED BY <1>5, <2>1, UnlinkFrames, UnlinkStaleFrames, FreeDoneFrames DEF Release, Frames!Next
<1>6. CASE Spin
  BY <1>6, <1>1 DEF Spin
<1> QED BY <1>1, <1>2, <1>3, <1>4, <1>5, <1>6 DEF Next

\* The allocator implements PageFrames: buddy_alloc for a caller takes free
\* pages and makes them one grant, buddy_free gives back exactly the grant it
\* took, and no other step touches a grant or makes a page free.
THEOREM ImplementsFrames == Spec => FramesSpec
<1>1. Init => Frames!Init
  BY InitFrames
<1>2. IInv /\ IInv' /\ CoverInv /\ [Next]_vars => [Frames!Next]_<<FreePages, Grants>>
  BY FramesStep
<1> QED BY <1>1, <1>2, Invariance, CoverInvariance, PTL DEF Spec, FramesSpec, Frames!Spec

\* Whatever callers and the kernel take and return, no page is in two grants
\* and no granted page is free.
LEMMA FramesExclusive == FramesSpec => []Frames!Exclusive
<1>1. Frames!Init => Frames!Exclusive
  BY DEF Frames!Init, Frames!Exclusive
<1>2. Frames!Exclusive /\ [Frames!Next]_<<FreePages, Grants>> => Frames!Exclusive'
  <2> SUFFICES ASSUME Frames!Exclusive, [Frames!Next]_<<FreePages, Grants>> PROVE Frames!Exclusive'
    OBVIOUS
  <2>1. CASE Frames!Take
    <3>1. PICK S : S \subseteq FreePages /\ S # {} /\ FreePages' = FreePages \ S /\ Grants' = Grants \cup {S}
      BY <2>1 DEF Frames!Take
    <3>2. \A T \in Grants : T \cap S = {}
      BY <3>1 DEF Frames!Exclusive
    <3> QED BY <3>1, <3>2 DEF Frames!Exclusive
  <2>2. CASE Frames!GiveBack
    BY <2>2 DEF Frames!GiveBack, Frames!Exclusive
  <2>3. CASE Frames!Keep
    BY <2>3 DEF Frames!Keep, Frames!Exclusive
  <2>4. CASE UNCHANGED <<FreePages, Grants>>
    BY <2>4 DEF Frames!Exclusive
  <2> QED BY <2>1, <2>2, <2>3, <2>4 DEF Frames!Next
<1> QED BY <1>1, <1>2, PTL DEF FramesSpec, Frames!Spec

\* So no page buddy_alloc hands out is in two callers' hands, or free while a
\* caller has it.
THEOREM GrantsExclusive == Spec => []Frames!Exclusive
BY ImplementsFrames, FramesExclusive, PTL

----------------------------------------------------------------------------
(* NodesKept *)

\* The positions of lists of the lengths n.
Lengths     == [k \in Orders |-> Len(freelist[k])]
Positions(n) == UNION {{k} \X (1 .. n[k]) : k \in Orders}

LEMMA InPositions ==
  ASSUME NEW n
  PROVE  \A x : x \in Positions(n) <=> \E k \in Orders : \E q \in 1 .. n[k] : x = <<k, q>>
BY DEF Positions

\* A list one node longer has one position more.
LEMMA OneMore ==
  ASSUME NEW n \in [Orders -> Nat], NEW m \in [Orders -> Nat], NEW k \in Orders,
         m = [n EXCEPT ![k] = n[k] + 1],
         IsFiniteSet(Positions(n)) \/ IsFiniteSet(Positions(m))
  PROVE  /\ IsFiniteSet(Positions(n)) /\ IsFiniteSet(Positions(m))
         /\ Cardinality(Positions(n)) \in Nat
         /\ Cardinality(Positions(m)) = Cardinality(Positions(n)) + 1
<1>1. m[k] = n[k] + 1 /\ n[k] \in Nat /\ \A l \in Orders : l # k => m[l] = n[l]
  OBVIOUS
<1>m. \A x : x \in Positions(m) <=> \E l \in Orders : \E q \in 1 .. m[l] : x = <<l, q>>
  BY ONLY InPositions
<1>2. \A x : x \in Positions(m) <=> x \in Positions(n) \/ x = <<k, m[k]>>
  <2> SUFFICES ASSUME NEW x PROVE x \in Positions(m) <=> x \in Positions(n) \/ x = <<k, m[k]>>
    OBVIOUS
  <2>1. ASSUME x \in Positions(m), x # <<k, m[k]>> PROVE x \in Positions(n)
    <3>0. PICK l \in Orders : \E q \in 1 .. m[l] : x = <<l, q>>
      BY <2>1, <1>m
    <3>1. PICK q \in 1 .. m[l] : x = <<l, q>>
      BY <3>0
    <3>2. q \in 1 .. n[l]
      BY <3>1, <2>1, <1>1
    <3> QED BY <3>1, <3>2, InPositions
  <2>2. ASSUME x \in Positions(n) PROVE x \in Positions(m)
    <3>0. PICK l \in Orders : \E q \in 1 .. n[l] : x = <<l, q>>
      BY <2>2, InPositions
    <3>1. PICK q \in 1 .. n[l] : x = <<l, q>>
      BY <3>0
    <3>2. q \in 1 .. m[l]
      BY <3>1, <1>1
    <3> QED BY <3>1, <3>2, <1>m
  <2>3. <<k, m[k]>> \in Positions(m)
    <3>1. m[k] \in 1 .. m[k]
      BY <1>1
    <3> QED BY <3>1, <1>m
  <2> QED BY <2>1, <2>2, <2>3
<1>3. <<k, m[k]>> \notin Positions(n)
  <2> SUFFICES ASSUME <<k, m[k]>> \in Positions(n) PROVE FALSE
    OBVIOUS
  <2>0. PICK l \in Orders : \E q \in 1 .. n[l] : <<k, m[k]>> = <<l, q>>
    BY InPositions
  <2>1. PICK q \in 1 .. n[l] : <<k, m[k]>> = <<l, q>>
    BY <2>0
  <2> QED BY <2>1, <1>1
<1>4. Positions(m) = Positions(n) \cup {<<k, m[k]>>}
  BY <1>2
<1>5. IsFiniteSet(Positions(n))
  <2>1. Positions(n) \in SUBSET Positions(m)
    BY <1>4
  <2> QED BY <2>1, FS_Subset
<1>6. /\ IsFiniteSet(Positions(n) \cup {<<k, m[k]>>})
      /\ Cardinality(Positions(n) \cup {<<k, m[k]>>}) = Cardinality(Positions(n)) + 1
  BY <1>3, <1>5, FS_AddElement
<1>7. Cardinality(Positions(n)) \in Nat
  BY <1>5, FS_CardinalityType
<1> QED BY <1>4, <1>5, <1>6, <1>7

ListedMeans ==
  /\ Lengths \in [Orders -> Nat] /\ Listed = Positions(Lengths)
  /\ \A k \in Orders : Lengths[k] = Len(freelist[k])

LEMMA ListedLengths == TypeOK => ListedMeans
<1> SUFFICES ASSUME TypeOK PROVE ListedMeans
  OBVIOUS
<1>1. \A k \in Orders : freelist[k] \in Seq(Pages)
  BY TypeFacts
<1>2. \A k \in Orders : Len(freelist[k]) \in Nat /\ DOMAIN freelist[k] = 1 .. Len(freelist[k])
  BY <1>1
<1>3. \A k \in Orders : Lengths[k] = Len(freelist[k])
  BY DEF Lengths
<1>4. Listed = Positions(Lengths)
  BY <1>2, <1>3 DEF Listed, Positions
<1> QED BY <1>2, <1>3, <1>4 DEF Lengths, ListedMeans

LEMMA CountGrown ==
  ASSUME TypeOK, TypeOK', NEW k \in Orders,
         \A l \in Orders : Len(freelist'[l]) = Len(freelist[l]) + (IF l = k THEN 1 ELSE 0),
         IsFiniteSet(Listed)
  PROVE  IsFiniteSet(Listed') /\ Cardinality(Listed') = Cardinality(Listed) + 1
<1>1. ListedMeans /\ ListedMeans'
  BY ListedLengths, PTL
<1>2. PICK n, m : n = Lengths /\ m = Lengths'
  OBVIOUS
<1>3. /\ n \in [Orders -> Nat] /\ Listed = Positions(n)
      /\ \A l \in Orders : n[l] = Len(freelist[l])
  BY <1>1, <1>2 DEF ListedMeans
<1>4. /\ m \in [Orders -> Nat] /\ Listed' = Positions(m)
      /\ \A l \in Orders : m[l] = Len(freelist'[l])
  BY <1>1, <1>2 DEF ListedMeans, Positions
<1>5. m = [n EXCEPT ![k] = n[k] + 1]
  <2>1. \A l \in Orders : n[l] \in Nat /\ m[l] = n[l] + (IF l = k THEN 1 ELSE 0)
    BY <1>3, <1>4
  <2>2. \A l \in Orders : m[l] = IF l = k THEN n[k] + 1 ELSE n[l]
    BY <2>1
  <2> QED BY <2>2, <1>3, <1>4
<1> QED BY <1>3, <1>4, <1>5, OneMore

LEMMA CountShrunk ==
  ASSUME TypeOK, TypeOK', NEW k \in Orders,
         \A l \in Orders : Len(freelist'[l]) = Len(freelist[l]) - (IF l = k THEN 1 ELSE 0),
         IsFiniteSet(Listed)
  PROVE  IsFiniteSet(Listed') /\ Cardinality(Listed') = Cardinality(Listed) - 1
<1>1. ListedMeans /\ ListedMeans'
  BY ListedLengths, PTL
<1>2. PICK n, m : n = Lengths' /\ m = Lengths
  OBVIOUS
<1>3. /\ m \in [Orders -> Nat] /\ Listed = Positions(m)
      /\ \A l \in Orders : m[l] = Len(freelist[l])
  BY <1>1, <1>2 DEF ListedMeans
<1>4. /\ n \in [Orders -> Nat] /\ Listed' = Positions(n)
      /\ \A l \in Orders : n[l] = Len(freelist'[l])
  BY <1>1, <1>2 DEF ListedMeans, Positions
<1>5. m = [n EXCEPT ![k] = n[k] + 1]
  <2>1. \A l \in Orders : m[l] \in Nat /\ n[l] = m[l] - (IF l = k THEN 1 ELSE 0)
    BY <1>3, <1>4
  <2>2. \A l \in Orders : m[l] = IF l = k THEN n[k] + 1 ELSE n[l]
    BY <2>1
  <2> QED BY <2>2, <1>3, <1>4
<1>6. /\ IsFiniteSet(Positions(n)) /\ Cardinality(Positions(n)) \in Nat
      /\ Cardinality(Positions(m)) = Cardinality(Positions(n)) + 1
  BY <1>3, <1>4, <1>5, OneMore
<1> QED BY <1>3, <1>4, <1>6

LEMMA CountHalved ==
  ASSUME TypeOK, TypeOK', NEW c, NEW i, Halved(c, i), IsFiniteSet(Listed)
  PROVE  IsFiniteSet(Listed') /\ Cardinality(Listed') = Cardinality(Listed) + 1
<1>1. ListedMeans /\ ListedMeans'
  BY ListedLengths, PTL
<1>2. PICK n, m : n = Lengths /\ m = Lengths'
  OBVIOUS
<1>3. /\ n \in [Orders -> Nat] /\ Listed = Positions(n)
      /\ \A l \in Orders : n[l] = Len(freelist[l])
  BY <1>1, <1>2 DEF ListedMeans
<1>4. /\ m \in [Orders -> Nat] /\ Listed' = Positions(m)
      /\ \A l \in Orders : m[l] = Len(freelist'[l])
  BY <1>1, <1>2 DEF ListedMeans, Positions
<1>5. PICK d : d = c - 1
  OBVIOUS
<1>6. /\ c \in Orders /\ d \in Orders /\ c # d
      /\ \A l \in Orders : Len(freelist'[l]) = Len(freelist[l]) + IF l = c THEN -1 ELSE IF l = d THEN 2 ELSE 0
  <2>1. c \in Orders /\ c - 1 \in Orders /\ c # c - 1
    BY SizeFacts DEF Halved, Orders
  <2> QED BY <2>1, <1>5 DEF Halved
<1>7. \A l \in Orders : n[l] \in Nat /\ m[l] \in Nat /\ m[l] = n[l] + IF l = c THEN -1 ELSE IF l = d THEN 2 ELSE 0
  BY <1>3, <1>4, <1>6
<1>8. n[c] - 1 \in Nat
  BY <1>6, <1>7
<1>9. PICK n1 : n1 = [n EXCEPT ![c] = n[c] - 1]
  OBVIOUS
<1>10. n1 \in [Orders -> Nat] /\ \A l \in Orders : n1[l] = IF l = c THEN n[c] - 1 ELSE n[l]
  BY <1>3, <1>8, <1>9
<1>11. n = [n1 EXCEPT ![c] = n1[c] + 1]
  <2>1. \A l \in Orders : n[l] = IF l = c THEN n1[c] + 1 ELSE n1[l]
    BY <1>6, <1>7, <1>10
  <2> QED BY <2>1, <1>3, <1>10
<1>12. PICK n2 : n2 = [n1 EXCEPT ![d] = n1[d] + 1]
  OBVIOUS
<1>13. n2 \in [Orders -> Nat] /\ \A l \in Orders : n2[l] = IF l = d THEN n1[d] + 1 ELSE n1[l]
  BY <1>6, <1>10, <1>12
<1>14. m = [n2 EXCEPT ![d] = n2[d] + 1]
  <2>1. \A l \in Orders : m[l] = IF l = d THEN n2[d] + 1 ELSE n2[l]
    BY <1>6, <1>7, <1>10, <1>13
  <2> QED BY <2>1, <1>4, <1>13
<1>15. /\ IsFiniteSet(Positions(n1)) /\ Cardinality(Positions(n1)) \in Nat
       /\ Cardinality(Positions(n)) = Cardinality(Positions(n1)) + 1
  BY <1>3, <1>6, <1>10, <1>11, OneMore
<1>16. /\ IsFiniteSet(Positions(n2)) /\ Cardinality(Positions(n2)) = Cardinality(Positions(n1)) + 1
  <2>1. /\ n1 \in [Orders -> Nat] /\ n2 \in [Orders -> Nat] /\ d \in Orders
        /\ n2 = [n1 EXCEPT ![d] = n1[d] + 1] /\ IsFiniteSet(Positions(n1))
    BY <1>6, <1>10, <1>12, <1>13, <1>15
  <2> QED BY ONLY <2>1, OneMore
<1>17. /\ IsFiniteSet(Positions(m)) /\ Cardinality(Positions(m)) = Cardinality(Positions(n2)) + 1
  <2>1. /\ n2 \in [Orders -> Nat] /\ m \in [Orders -> Nat] /\ d \in Orders
        /\ m = [n2 EXCEPT ![d] = n2[d] + 1] /\ IsFiniteSet(Positions(n2))
    BY <1>4, <1>6, <1>13, <1>14, <1>16
  <2> QED BY ONLY <2>1, OneMore
<1> QED BY <1>3, <1>4, <1>15, <1>16, <1>17

\* A block that was listed joins the blocks in use.
LEMMA CountHeld ==
  ASSUME IInv, pc # "corrupt", NEW k, NEW i, Pops(k, i), IsFiniteSet(held),
         NEW h, h.idx = i, held' = held \cup {h}
  PROVE  /\ IsFiniteSet(held')
         /\ \A o \in Owners :
              /\ IsFiniteSet(Owned(o)) /\ Cardinality(Owned(o)) \in Nat
              /\ Owned(o)' = Owned(o) \cup (IF h.owner = o THEN {h} ELSE {})
              /\ Cardinality(Owned(o)') = Cardinality(Owned(o)) + (IF h.owner = o THEN 1 ELSE 0)
<1>1. h \notin held
  <2> SUFFICES ASSUME NEW b \in held, b = h PROVE FALSE
    OBVIOUS
  <2>1. TypeOK /\ FreeHeldApart /\ k \in Orders /\ i \in Range(freelist[k])
    BY DEF IInv, Heap, Pops
  <2>2. Apart(i, k, b.idx, b.order) /\ b.idx \in Nat /\ b.order \in Orders /\ i \in Nat
    BY <2>1, TypeFacts DEF FreeHeldApart
  <2> QED BY <2>1, <2>2, ApartFacts
<1>2. IsFiniteSet(held')
  BY FS_AddElement
<1>3. ASSUME NEW o \in Owners
      PROVE  /\ IsFiniteSet(Owned(o)) /\ Cardinality(Owned(o)) \in Nat
             /\ Owned(o)' = Owned(o) \cup (IF h.owner = o THEN {h} ELSE {})
             /\ Cardinality(Owned(o)') = Cardinality(Owned(o)) + (IF h.owner = o THEN 1 ELSE 0)
  <2>1. Owned(o) \in SUBSET held
    BY DEF Owned
  <2>2. IsFiniteSet(Owned(o))
    BY <2>1, FS_Subset
  <2>3. Cardinality(Owned(o)) \in Nat
    BY <2>2, FS_CardinalityType
  <2>4. Owned(o)' = Owned(o) \cup (IF h.owner = o THEN {h} ELSE {})
    BY DEF Owned
  <2>5. Cardinality(Owned(o) \cup {h}) = Cardinality(Owned(o)) + 1
    BY <1>1, <2>1, <2>2, FS_AddElement
  <2>6. CASE h.owner = o
    BY <2>2, <2>3, <2>4, <2>5, <2>6
  <2>7. CASE h.owner # o
    <3>1. Owned(o)' = Owned(o)
      BY <2>4, <2>7
    <3> QED BY <3>1, <2>2, <2>3, <2>7
  <2> QED BY <2>6, <2>7
<1> QED BY <1>2, <1>3

LEMMA NodesSame ==
  ASSUME NodeInv, IsFiniteSet(held'), IsFiniteSet(Listed'), BootFor',
         pc \notin {"corrupt", "cantrejuv"}, made' > 0 <=> made > 0,
         Owned("bin0")' = Owned("bin0"), Owned("bin1")' = Owned("bin1"), UnitsLeft' = UnitsLeft,
         dropped' = dropped
  PROVE  NodeInv'
<1>1. UnitsMade' = UnitsMade
  BY DEF UnitsMade
<1> QED BY <1>1 DEF NodeInv, NodesKept

\* Nothing is listed, unlisted or taken, and the units stay in sum.
LEMMA NodesFrame ==
  ASSUME IInv, IInv', NodeInv, UNCHANGED <<freelist, held, made, dropped>>, BootFor',
         pc \notin {"corrupt", "cantrejuv"},
         InFlight' + pool'[0] + pool'[1] + lent'[0] + lent'[1]
           = InFlight + pool[0] + pool[1] + lent[0] + lent[1]
  PROVE  NodeInv'
<1>1. TypeOK /\ TypeOK'
  BY DEF IInv
<1>2. IsFiniteSet(held') /\ Listed' = Listed /\ IsFiniteSet(Listed')
  BY DEF NodeInv, Listed
<1>3. Cardinality(Listed) \in Nat
  BY FS_CardinalityType DEF NodeInv
<1>4. /\ pool[0] \in Nat /\ pool[1] \in Nat /\ lent[0] \in Nat /\ lent[1] \in Nat
      /\ pool'[0] \in Nat /\ pool'[1] \in Nat /\ lent'[0] \in Nat /\ lent'[1] \in Nat
  BY <1>1 DEF TypeOK, Bins
<1>5. InFlight \in Nat /\ InFlight' \in Nat
  BY DEF InFlight
<1>6. UnitsLeft' = UnitsLeft
  BY <1>2, <1>3, <1>4, <1>5 DEF UnitsLeft
<1>7. Owned("bin0")' = Owned("bin0") /\ Owned("bin1")' = Owned("bin1")
  BY DEF Owned
<1> QED BY <1>2, <1>6, <1>7, NodesSame

LEMMA InitNodes == Init => NodeInv
<1> SUFFICES ASSUME Init PROVE NodeInv
  OBVIOUS
<1>1. PICK R \in Layouts, p \in Pages : held = {Held(q, 0, 1, "reserved") : q \in R \cup {p}}
  BY DEF Init
<1>2. IsFiniteSet(held)
  <2> DEFINE S == R \cup {p}
             f == [q \in S |-> Held(q, 0, 1, "reserved")]
  <2>1. S \subseteq 0 .. NPages - 1 /\ NPages - 1 \in Int
    BY <1>1, LayoutAssumption, SizeFacts DEF Pages
  <2>2. IsFiniteSet(0 .. NPages - 1)
    BY <2>1, FS_Interval
  <2>3. IsFiniteSet(S)
    BY <2>1, <2>2, FS_Subset
  <2>4. f \in Surjection(S, held)
    BY <1>1 DEF Surjection
  <2> QED BY <2>3, <2>4, FS_Surjection
<1>3. Listed = {}
  BY DEF Listed, Init
<1>4. Owned("bin0") = {} /\ Owned("bin1") = {}
  BY <1>1 DEF Owned, Held
<1>5. UnitsLeft = BootUnits
  <2>1. pool[0] = BootUnits /\ pool[1] = 0 /\ lent[0] = 0 /\ lent[1] = 0 /\ InFlight = 0
    BY DEF Init, InFlight, Bins
  <2> QED BY <2>1, <1>3, FS_EmptySet, UnitsAssumption DEF UnitsLeft
<1>6. UnitsMade = BootUnits
  <2>1. made = 0 /\ PageUnits[0] \in Nat /\ PageUnits[1] \in Nat
    BY UnitsAssumption DEF Init, Bins
  <2>2. Cardinality(Owned("bin0")) = 0 /\ Cardinality(Owned("bin1")) = 0
    BY <1>4, FS_EmptySet
  <2>3. UnitsMade = BootUnits + PageUnits[0] * 0 + PageUnits[1] * 0 - 0
    BY <2>1, <2>2 DEF UnitsMade
  <2> QED BY <2>1, <2>3, UnitsAssumption
<1>7. BootFor
  BY DEF BootFor, Init
<1>8. UnitsLeft + dropped = UnitsMade
  BY <1>5, <1>6, UnitsAssumption DEF Init
<1> QED BY <1>2, <1>3, <1>7, <1>8, FS_EmptySet DEF NodeInv, NodesKept

\* The numbers UnitsLeft adds up.
LEMMA Numbers ==
  ASSUME IInv, IInv', NodeInv
  PROVE  /\ pool[0] \in Nat /\ pool[1] \in Nat /\ lent[0] \in Nat /\ lent[1] \in Nat
         /\ pool'[0] \in Nat /\ pool'[1] \in Nat /\ lent'[0] \in Nat /\ lent'[1] \in Nat
         /\ InFlight \in Nat /\ InFlight' \in Nat /\ Cardinality(Listed) \in Nat
         /\ TypeOK /\ TypeOK' /\ PageUnits[0] \in Nat /\ PageUnits[1] \in Nat /\ BootUnits \in Nat
<1>1. TypeOK /\ TypeOK'
  BY DEF IInv
<1>2. Cardinality(Listed) \in Nat
  BY FS_CardinalityType DEF NodeInv
<1>3. /\ pool[0] \in Nat /\ pool[1] \in Nat /\ lent[0] \in Nat /\ lent[1] \in Nat
      /\ pool'[0] \in Nat /\ pool'[1] \in Nat /\ lent'[0] \in Nat /\ lent'[1] \in Nat
  BY <1>1 DEF TypeOK, Bins
<1>4. InFlight \in Nat /\ InFlight' \in Nat
  BY DEF InFlight
<1> QED BY <1>1, <1>2, <1>3, <1>4, UnitsAssumption DEF Bins

LEMMA CarveBlockNodes == IInv /\ IInv' /\ NodeInv /\ CarveBlock => NodeInv'
<1> SUFFICES ASSUME IInv, IInv', NodeInv, CarveBlock PROVE NodeInv'
  OBVIOUS
<1>1. pc = "carve" /\ pc' = "carve" /\ made = 0 /\ made' = 0 /\ lent' = lent /\ dropped' = dropped
  BY DEF CarveBlock, IInv, Control
<1>2. PICK k \in Orders : Carves(k)
  BY CarveCarves
<1>3. BootFor'
  BY <1>1 DEF BootFor
<1>4. CASE Pushes(k, frame) /\ held' = held /\ pool[0] > 0 /\ UseNodes(1, 0)
  <2>1. \A l \in Orders : Len(freelist'[l]) = Len(freelist[l]) + (IF l = k THEN 1 ELSE 0)
    BY <1>4 DEF Pushes
  <2>2. IsFiniteSet(Listed') /\ Cardinality(Listed') = Cardinality(Listed) + 1
    BY <2>1, CountGrown, Numbers DEF NodeInv
  <2>3. pool'[0] = pool[0] - 1 /\ pool'[1] = pool[1]
    BY <1>1, <1>4, Numbers DEF UseNodes, NodeBin, Booted, Bins
  <2>4. UnitsLeft' = UnitsLeft
    BY <1>1, <2>2, <2>3, Numbers DEF UnitsLeft, InFlight
  <2>5. Owned("bin0")' = Owned("bin0") /\ Owned("bin1")' = Owned("bin1") /\ IsFiniteSet(held')
    BY <1>4 DEF Owned, NodeInv
  <2> QED BY <1>1, <1>3, <2>2, <2>4, <2>5, NodesSame
<1>5. CASE freelist' = freelist /\ held' = held \cup {Held(frame, k, Size[k], "lost")} /\ pool' = pool
  <2>1. IsFiniteSet(held')
    BY <1>5, FS_AddElement DEF NodeInv
  <2>2. Listed' = Listed
    BY <1>5 DEF Listed
  <2>3. Owned("bin0")' = Owned("bin0") /\ Owned("bin1")' = Owned("bin1")
    BY <1>5 DEF Owned, Held
  <2>4. UnitsLeft' = UnitsLeft
    BY <1>1, <1>5, <2>2 DEF UnitsLeft, InFlight
  <2>5. IsFiniteSet(Listed')
    BY <2>2 DEF NodeInv
  <2> QED BY <1>1, <1>3, <2>1, <2>3, <2>4, <2>5, NodesSame
<1> QED BY <1>2, <1>4, <1>5 DEF Carves

LEMMA SplitNodes == IInv /\ IInv' /\ NodeInv /\ Split => NodeInv'
<1> SUFFICES ASSUME IInv, IInv', NodeInv, Split PROVE NodeInv'
  OBVIOUS
<1>1. pc = "split" /\ pc' = "split" /\ UNCHANGED <<lent, held, made, dropped>> /\ UseNodes(2, 1) /\ pool[NodeBin] >= 2
      /\ req' = [req EXCEPT !.c = req.c - 1]
  BY DEF Split
<1>2. req'.for = req.for
  BY <1>1, Numbers DEF TypeOK
<1>3. BootFor'
  BY <1>1, <1>2 DEF BootFor, NodeInv, Booted
<1>4. IsFiniteSet(Listed') /\ Cardinality(Listed') = Cardinality(Listed) + 1
  BY CountHalved, SplitHalves, Numbers DEF NodeInv
<1>5. pool'[0] + pool'[1] = pool[0] + pool[1] - 1
  <2>1. CASE Booted
    <3>1. pool'[0] = pool[0] + 1 /\ pool'[1] = pool[1] - 2
      BY <1>1, <2>1, Numbers DEF UseNodes, NodeBin, Bins
    <3> QED BY <3>1, Numbers
  <2>2. CASE ~Booted
    <3>1. pool'[0] = pool[0] - 1 /\ pool'[1] = pool[1]
      BY <1>1, <2>2, Numbers DEF UseNodes, NodeBin, Bins
    <3> QED BY <3>1, Numbers
  <2> QED BY <2>1, <2>2
<1>6. UnitsLeft' = UnitsLeft
  BY <1>1, <1>4, <1>5, Numbers DEF UnitsLeft, InFlight
<1>7. Owned("bin0")' = Owned("bin0") /\ Owned("bin1")' = Owned("bin1") /\ IsFiniteSet(held')
  BY <1>1 DEF Owned, NodeInv
<1> QED BY <1>1, <1>3, <1>4, <1>6, <1>7, NodesSame

\* A page refills bins[b].
LEMMA NodesRefilled ==
  ASSUME IInv, IInv', NodeInv, IsFiniteSet(held'), IsFiniteSet(Listed'), BootFor',
         pc \notin {"corrupt", "cantrejuv"}, NEW b \in Bins,
         Cardinality(Owned("bin0")) \in Nat, Cardinality(Owned("bin1")) \in Nat,
         Cardinality(Owned("bin0")') = Cardinality(Owned("bin0")) + (IF b = 0 THEN 1 ELSE 0),
         Cardinality(Owned("bin1")') = Cardinality(Owned("bin1")) + (IF b = 1 THEN 1 ELSE 0),
         NEW d \in {0, 1}, d = (IF made' > 0 THEN 1 ELSE 0) - (IF made > 0 THEN 1 ELSE 0),
         UnitsLeft' + dropped' = UnitsLeft + dropped + PageUnits[b] - d
  PROVE  NodeInv'
<1>1. PICK m \in Nat, n \in Nat, a \in Nat, c \in Nat :
        m = Cardinality(Owned("bin0")) /\ n = Cardinality(Owned("bin1")) /\ a = PageUnits[0] /\ c = PageUnits[1]
  BY Numbers
<1>2. PICK z \in Nat, y \in Nat : z = a * m /\ y = c * n
  OBVIOUS
<1>3. a * (m + 1) = z + a /\ c * (n + 1) = y + c
  <2>1. a * (m + 1) = a * m + a /\ c * (n + 1) = c * n + c
    BY SMT
  <2> QED BY <2>1, <1>2
<1>4. PICK u \in {0, 1}, w \in {0, 1} : u = (IF made > 0 THEN 1 ELSE 0) /\ w = (IF made' > 0 THEN 1 ELSE 0)
  OBVIOUS
<1>5. d = w - u /\ BootUnits \in Nat
  BY <1>4, Numbers
<1>6. UnitsLeft + dropped = BootUnits + z + y - u
  <2>1. UnitsLeft + dropped = UnitsMade
    BY DEF NodeInv, NodesKept
  <2> QED BY <2>1, <1>1, <1>2, <1>4 DEF UnitsMade
<1>7. UnitsMade' = BootUnits + a * Cardinality(Owned("bin0")') + c * Cardinality(Owned("bin1")') - w
  <2>1. UnitsMade' = BootUnits + PageUnits[0] * Cardinality(Owned("bin0")')
                       + PageUnits[1] * Cardinality(Owned("bin1")') - (IF made' > 0 THEN 1 ELSE 0)
    BY DEF UnitsMade
  <2> QED BY <2>1, <1>1, <1>4
<1>8. UnitsLeft' + dropped' = UnitsMade'
  <2>1. CASE b = 0
    <3>1. Cardinality(Owned("bin0")') = m + 1 /\ Cardinality(Owned("bin1")') = n
      BY <2>1, <1>1
    <3>2. UnitsMade' = BootUnits + (z + a) + y - w
      BY <3>1, <1>2, <1>3, <1>7
    <3>3. UnitsLeft' + dropped' = BootUnits + z + y - u + a - d
      BY <2>1, <1>1, <1>6
    <3> QED BY <3>2, <3>3, <1>5
  <2>2. CASE b = 1
    <3>1. Cardinality(Owned("bin0")') = m /\ Cardinality(Owned("bin1")') = n + 1
      BY <2>2, <1>1
    <3>2. UnitsMade' = BootUnits + z + (y + c) - w
      BY <3>1, <1>2, <1>3, <1>7
    <3>3. UnitsLeft' + dropped' = BootUnits + z + y - u + c - d
      BY <2>2, <1>1, <1>6
    <3> QED BY <3>2, <3>3, <1>5
  <2> QED BY <2>1, <2>2 DEF Bins
<1> QED BY <1>8 DEF NodeInv, NodesKept

LEMMA RefillNodeUnits == IInv /\ IInv' /\ NodeInv /\ RefillNodes => NodeInv'
<1> SUFFICES ASSUME IInv, IInv', NodeInv, RefillNodes PROVE NodeInv'
  OBVIOUS
<1>1. PICK h : h = Held(Head(freelist[0]), 0, 1, "bin1")
  OBVIOUS
<1>2. /\ pc \in {"split", "free", "unlink"} /\ pc' = pc /\ made' = made /\ made = 3 /\ lent' = lent
      /\ dropped' = dropped /\ req' = req /\ h.idx = Head(freelist[0]) /\ h.owner = "bin1" /\ held' = held \cup {h}
      /\ pool' = [b \in Bins |-> IF b = 0 THEN pool[0] + 1 ELSE pool[1] + PageUnits[1]]
  BY <1>1, RefillPops DEF RefillNodes, Held, Booted
<1>3. PICK i : i = Head(freelist[0]) /\ Pops(0, i)
  BY RefillPops
<1>4. \A l \in Orders : Len(freelist'[l]) = Len(freelist[l]) - (IF l = 0 THEN 1 ELSE 0)
  BY <1>3 DEF Pops
<1>5. IsFiniteSet(Listed') /\ Cardinality(Listed') = Cardinality(Listed) - 1
  BY <1>4, CountShrunk, Numbers, SizeFacts DEF NodeInv
<1>6. /\ IsFiniteSet(held')
      /\ \A o \in Owners :
           /\ IsFiniteSet(Owned(o)) /\ Cardinality(Owned(o)) \in Nat
           /\ Owned(o)' = Owned(o) \cup (IF h.owner = o THEN {h} ELSE {})
           /\ Cardinality(Owned(o)') = Cardinality(Owned(o)) + (IF h.owner = o THEN 1 ELSE 0)
  <2>1. /\ pc # "corrupt" /\ Pops(0, i) /\ IsFiniteSet(held) /\ h.idx = i /\ held' = held \cup {h}
    BY <1>2, <1>3 DEF NodeInv
  <2> QED BY <2>1, CountHeld
<1>7. "bin0" \in Owners /\ "bin1" \in Owners
  BY DEF Owners, Takers
<1>8. /\ Cardinality(Owned("bin0")) \in Nat /\ Cardinality(Owned("bin1")) \in Nat
      /\ Cardinality(Owned("bin0")') = Cardinality(Owned("bin0")) + 0
      /\ Cardinality(Owned("bin1")') = Cardinality(Owned("bin1")) + 1
  BY <1>2, <1>6, <1>7
<1>9. pool'[0] = pool[0] + 1 /\ pool'[1] = pool[1] + PageUnits[1]
  BY <1>2 DEF Bins
<1>10. InFlight' = InFlight
  BY <1>2 DEF InFlight
<1>11. UnitsLeft' + dropped' = UnitsLeft + dropped + PageUnits[1] - 0
  <2>1. lent'[0] = lent[0] /\ lent'[1] = lent[1]
    BY <1>2
  <2>2. UnitsLeft' = pool'[0] + pool'[1] + lent'[0] + lent'[1] + Cardinality(Listed') + InFlight'
    BY DEF UnitsLeft
  <2>3. UnitsLeft = pool[0] + pool[1] + lent[0] + lent[1] + Cardinality(Listed) + InFlight
    BY DEF UnitsLeft
  <2>4. dropped' = dropped /\ dropped \in Nat
    BY <1>2, Numbers DEF TypeOK
  <2> QED BY <1>5, <1>9, <1>10, <2>1, <2>2, <2>3, <2>4, Numbers
<1>12. BootFor'
  BY <1>2 DEF BootFor, Booted
<1>13. 1 \in Bins
  BY DEF Bins
<1> QED BY <1>2, <1>5, <1>6, <1>8, <1>11, <1>12, <1>13, NodesRefilled

LEMMA TakeNodes == IInv /\ IInv' /\ NodeInv /\ TakeBlock => NodeInv'
<1> SUFFICES ASSUME IInv, IInv', NodeInv, TakeBlock PROVE NodeInv'
  OBVIOUS
<1>1. PICK k, i : /\ k = req.order /\ i = Head(freelist[req.order]) /\ Pops(k, i)
                  /\ held' = held \cup {Held(i, k, req.pages, req.for)}
  BY TakePops
<1>2. PICK h : h = Held(i, k, req.pages, req.for)
  OBVIOUS
<1>3. h.idx = i /\ h.owner = req.for /\ held' = held \cup {h} /\ req.for \in Takers
  BY <1>1, <1>2, Numbers DEF Held, TypeOK
<1>4. /\ pc = "split" /\ pc' \in {"bins", "idle"} /\ made \in 0 .. 3
      /\ made' = IF Booted THEN made ELSE made + 1
  BY Numbers DEF TakeBlock, TypeOK
<1>5. \A l \in Orders : Len(freelist'[l]) = Len(freelist[l]) - (IF l = k THEN 1 ELSE 0)
  BY <1>1 DEF Pops
<1>6. IsFiniteSet(Listed') /\ Cardinality(Listed') = Cardinality(Listed) - 1
  <2>1. k \in Orders
    BY <1>1 DEF Pops
  <2> QED BY <1>5, <2>1, CountShrunk, Numbers DEF NodeInv
<1>7. /\ IsFiniteSet(held')
      /\ \A o \in Owners :
           /\ IsFiniteSet(Owned(o)) /\ Cardinality(Owned(o)) \in Nat
           /\ Owned(o)' = Owned(o) \cup (IF h.owner = o THEN {h} ELSE {})
           /\ Cardinality(Owned(o)') = Cardinality(Owned(o)) + (IF h.owner = o THEN 1 ELSE 0)
  BY <1>1, <1>3, <1>4, CountHeld DEF NodeInv
<1>8. "bin0" \in Owners /\ "bin1" \in Owners
  BY DEF Owners, Takers
<1>9. InFlight = 0 /\ InFlight' = 0
  BY <1>4 DEF InFlight
<1>10. BootFor'
  BY <1>4 DEF BootFor
<1>11. CASE req.for = "bin0"
  <2>1. /\ Cardinality(Owned("bin0")) \in Nat /\ Cardinality(Owned("bin1")) \in Nat
        /\ Cardinality(Owned("bin0")') = Cardinality(Owned("bin0")) + 1
        /\ Cardinality(Owned("bin1")') = Cardinality(Owned("bin1")) + 0
    BY <1>3, <1>7, <1>8, <1>11
  <2>2. Booted
    BY <1>4, <1>11 DEF NodeInv, BootFor
  <2>3. /\ pool'[0] = PageUnits[0] - 1 /\ pool'[1] = pool[1] /\ lent'[0] = lent[0] + 1 /\ lent'[1] = lent[1]
        /\ made' = made /\ dropped' = dropped + pool[0] + 1 /\ dropped \in Nat
    BY <1>4, <1>11, <2>2, Numbers DEF TakeBlock, Bins, TypeOK
  <2>4. UnitsLeft' + dropped' = UnitsLeft + dropped + PageUnits[0] - 0
    <3>1. UnitsLeft' = pool'[0] + pool'[1] + lent'[0] + lent'[1] + Cardinality(Listed') + InFlight'
      BY DEF UnitsLeft
    <3>2. UnitsLeft = pool[0] + pool[1] + lent[0] + lent[1] + Cardinality(Listed) + InFlight
      BY DEF UnitsLeft
    <3>3. PICK n \in Nat : n = Cardinality(Listed)
      BY Numbers
    <3>4. UnitsLeft' = (PageUnits[0] - 1) + pool[1] + (lent[0] + 1) + lent[1] + (n - 1) + 0
      BY <1>6, <1>9, <2>3, <3>1, <3>3
    <3>5. UnitsLeft = pool[0] + pool[1] + lent[0] + lent[1] + n + 0
      BY <1>9, <3>2, <3>3
    <3>6. PICK x \in Nat, y \in Nat, v \in Nat, w \in Nat, e \in Nat, u \in Nat :
            /\ x = pool[0] /\ y = pool[1] /\ v = lent[0] /\ w = lent[1]
            /\ e = dropped /\ u = PageUnits[0]
      BY <2>3, Numbers
    <3>7. UnitsLeft' = (u - 1) + y + (v + 1) + w + (n - 1) + 0
      BY <3>4, <3>6
    <3>8. UnitsLeft = x + y + v + w + n + 0 /\ dropped' = e + x + 1
      BY <2>3, <3>5, <3>6
    <3>9. UnitsLeft' + dropped' = (u - 1) + y + (v + 1) + w + (n - 1) + 0 + (e + x + 1)
      BY <3>7, <3>8
    <3>10. UnitsLeft + dropped + PageUnits[0] - 0 = x + y + v + w + n + 0 + e + u - 0
      BY <3>6, <3>8
    <3>11. (u - 1) + y + (v + 1) + w + (n - 1) + 0 + (e + x + 1) = x + y + v + w + n + 0 + e + u - 0
      OBVIOUS
    <3> QED BY <3>9, <3>10, <3>11
  <2>5. 0 \in Bins
    BY DEF Bins
  <2> QED BY <1>4, <1>6, <1>7, <1>10, <2>1, <2>3, <2>4, <2>5, NodesRefilled
<1>12. CASE req.for = "bin1"
  <2>1. /\ Cardinality(Owned("bin0")) \in Nat /\ Cardinality(Owned("bin1")) \in Nat
        /\ Cardinality(Owned("bin0")') = Cardinality(Owned("bin0")) + 0
        /\ Cardinality(Owned("bin1")') = Cardinality(Owned("bin1")) + 1
    BY <1>3, <1>7, <1>8, <1>12
  <2>2. /\ pool'[0] = pool[0] + 1 /\ pool'[1] = pool[1] + PageUnits[1] - 1 /\ 1 \in Bins
        /\ dropped' = dropped /\ dropped \in Nat
    BY <1>12, Numbers DEF TakeBlock, Bins, TypeOK
  <2>6. UnitsLeft' = pool'[0] + pool'[1] + lent'[0] + lent'[1] + Cardinality(Listed') + InFlight'
    BY DEF UnitsLeft
  <2>7. UnitsLeft = pool[0] + pool[1] + lent[0] + lent[1] + Cardinality(Listed) + InFlight
    BY DEF UnitsLeft
  <2>3. CASE Booted
    <3>1. lent'[0] = lent[0] /\ lent'[1] = lent[1] + 1 /\ made' = made
      BY <1>4, <1>12, <2>3 DEF TakeBlock, Bins
    <3>2. UnitsLeft' + dropped' = UnitsLeft + dropped + PageUnits[1] - 0
      BY <1>6, <1>9, <2>2, <2>6, <2>7, <3>1, Numbers
    <3> QED BY <1>4, <1>6, <1>7, <1>10, <2>1, <2>2, <3>1, <3>2, NodesRefilled
  <2>4. CASE ~Booted
    <3>1. made = 0 /\ made' = 1
      BY <1>4, <1>12, <2>4 DEF NodeInv, BootFor
    <3>2. lent'[0] = lent[0] /\ lent'[1] = lent[1]
      BY <2>4 DEF TakeBlock, Bins
    <3>3. UnitsLeft' + dropped' = UnitsLeft + dropped + PageUnits[1] - 1
      BY <1>6, <1>9, <2>2, <2>6, <2>7, <3>2, Numbers
    <3> QED BY <1>4, <1>6, <1>7, <1>10, <2>1, <2>2, <3>1, <3>3, NodesRefilled
  <2> QED BY <2>3, <2>4
<1>13. CASE req.for \in {"page", "user"}
  <2>1. Owned("bin0")' = Owned("bin0") /\ Owned("bin1")' = Owned("bin1")
    BY <1>3, <1>7, <1>8, <1>13
  <2>2. /\ pool'[0] = pool[0] + 1 /\ pool'[1] = pool[1] /\ lent'[0] = lent[0] /\ lent'[1] = lent[1]
        /\ dropped' = dropped
    BY <1>13 DEF TakeBlock, Bins
  <2>3. UnitsLeft' = UnitsLeft
    BY <1>6, <1>9, <2>2, Numbers DEF UnitsLeft
  <2>4. made' > 0 <=> made > 0
    <3>1. CASE Booted
      BY <3>1, <1>4
    <3>2. CASE ~Booted
      <4>1. made # 0
        BY <3>2, <1>4, <1>13 DEF NodeInv, BootFor
      <4> QED BY <4>1, <3>2, <1>4
    <3> QED BY <3>1, <3>2
  <2> QED BY <1>4, <1>6, <1>7, <1>10, <2>1, <2>2, <2>3, <2>4, NodesSame
<1> QED BY <1>3, <1>11, <1>12, <1>13 DEF Takers

LEMMA ReleaseNodes == IInv /\ IInv' /\ NodeInv /\ (Unlink \/ UnlinkStale \/ FreeDone) => NodeInv'
<1> SUFFICES ASSUME IInv, IInv', NodeInv, Unlink \/ UnlinkStale \/ FreeDone PROVE NodeInv'
  OBVIOUS
<1>1. pc \in {"unlink", "merge"} /\ pc' # "split" /\ UNCHANGED <<held, made, lent, dropped>>
  BY DEF Unlink, UnlinkStale, FreeDone, MergeStep
<1>2. made = 3
  BY <1>1 DEF IInv, Control, Freeing
<1>3. BootFor' /\ IsFiniteSet(held') /\ (made' > 0 <=> made > 0)
      /\ Owned("bin0")' = Owned("bin0") /\ Owned("bin1")' = Owned("bin1")
  BY <1>1 DEF BootFor, NodeInv, Owned
<1>4. CASE UnlinkStale
  BY <1>3, <1>4 DEF UnlinkStale, NodeInv, NodesKept, Listed
<1>5. CASE Unlink
  <2>1. PICK k, j : Pops(k, j)
    BY <1>5, UnlinkPops
  <2>2. k \in Orders /\ \A l \in Orders : Len(freelist'[l]) = Len(freelist[l]) - (IF l = k THEN 1 ELSE 0)
    BY <2>1 DEF Pops
  <2>3. IsFiniteSet(Listed') /\ Cardinality(Listed') = Cardinality(Listed) - 1
    BY <2>2, CountShrunk, Numbers DEF NodeInv
  <2>4. pool'[0] = pool[0] + 2 /\ pool'[1] = pool[1] - 1
    BY <1>2, <1>5, Numbers DEF Unlink, MergeStep, UseNodes, NodeBin, Booted, Bins
  <2>5. InFlight = 1 /\ InFlight' = 1
    BY <1>5 DEF Unlink, MergeStep, InFlight
  <2>6. UnitsLeft' = UnitsLeft
    BY <1>1, <2>3, <2>4, <2>5, Numbers DEF UnitsLeft
  <2> QED BY <1>1, <1>3, <2>3, <2>6, NodesSame
<1>6. CASE FreeDone
  <2>1. PICK k, j : Pushes(k, j)
    BY <1>6, FreeDonePushes
  <2>2. k \in Orders /\ \A l \in Orders : Len(freelist'[l]) = Len(freelist[l]) + (IF l = k THEN 1 ELSE 0)
    BY <2>1 DEF Pushes
  <2>3. IsFiniteSet(Listed') /\ Cardinality(Listed') = Cardinality(Listed) + 1
    BY <2>2, CountGrown, Numbers DEF NodeInv
  <2>4. pool' = pool /\ InFlight = 1 /\ InFlight' = 0
    BY <1>6 DEF FreeDone, InFlight
  <2>6. UnitsLeft' = UnitsLeft
    BY <1>1, <2>3, <2>4, Numbers DEF UnitsLeft
  <2> QED BY <1>1, <1>3, <2>3, <2>6, NodesSame
<1> QED BY <1>4, <1>5, <1>6

LEMMA NodesInductive == IInv /\ IInv' /\ NodeInv /\ [Next]_vars => NodeInv'
<1> SUFFICES ASSUME IInv, IInv', NodeInv, [Next]_vars PROVE NodeInv'
  OBVIOUS
<1>1. ASSUME UNCHANGED vars PROVE NodeInv'
  BY <1>1 DEF vars, NodeInv, BootFor, Booted, NodesKept, UnitsLeft, UnitsMade, Listed, Owned, InFlight
<1>2. CASE Boot
  <2>1. CASE CarveSkip \/ CarveDone
    BY <2>1, NodesFrame DEF CarveSkip, CarveDone, BootFor, InFlight
  <2>2. CASE BootBin
    <3>1. pc = "bins" /\ UNCHANGED <<freelist, held, made, pool, lent, dropped>> /\ pc' \in {"split", "wild"}
      BY <2>2 DEF BootBin, StartOr, StartAlloc
    <3>2. BootFor'
      BY <2>2 DEF BootBin, StartOr, StartAlloc, BootFor
    <3> QED BY <3>1, <3>2, NodesFrame DEF InFlight
  <2> QED BY <1>2, <2>1, <2>2, CarveBlockNodes DEF Boot
<1>3. CASE Call
  <2>1. CASE \E b \in held : Free(b)
    <3>1. PICK b \in held : Free(b)
      BY <2>1
    <3>2. /\ pc = "idle" /\ pc' = "free" /\ UNCHANGED <<freelist, made, pool, lent>>
          /\ held' = held \ {b} /\ b.owner = "user" /\ dropped' = dropped
      BY <3>1 DEF Free
    <3>3. IsFiniteSet(held') /\ Owned("bin0")' = Owned("bin0") /\ Owned("bin1")' = Owned("bin1")
      BY <3>2, FS_RemoveElement DEF NodeInv, Owned
    <3>4. Listed' = Listed
      BY <3>2 DEF Listed
    <3>5. UnitsLeft' = UnitsLeft /\ IsFiniteSet(Listed') /\ BootFor'
      BY <3>2, <3>4 DEF UnitsLeft, InFlight, NodeInv, BootFor
    <3> QED BY <3>2, <3>3, <3>5, NodesSame
  <2>2. CASE \E b \in Bins : UnitMalloc(b) \/ UnitFree(b)
    <3>1. PICK b \in Bins : UnitMalloc(b) \/ UnitFree(b)
      BY <2>2
    <3>2. pc = "idle" /\ pc' = "idle" /\ UNCHANGED <<freelist, held, made, dropped>>
      BY <3>1 DEF UnitMalloc, UnitFree
    <3>3. pool'[0] + pool'[1] + lent'[0] + lent'[1] = pool[0] + pool[1] + lent[0] + lent[1]
      <4>1. /\ pool \in [Bins -> Nat] /\ lent \in [Bins -> Nat] /\ b \in {0, 1}
        BY Numbers DEF TypeOK, Bins
      <4>2. CASE UnitMalloc(b)
        <5>1. pool' = [pool EXCEPT ![b] = pool[b] - 1] /\ lent' = [lent EXCEPT ![b] = lent[b] + 1]
          BY <4>2 DEF UnitMalloc
        <5> QED BY <4>1, <5>1, Numbers DEF Bins
      <4>3. CASE UnitFree(b)
        <5>1. PICK home \in b .. 1 : pool' = [pool EXCEPT ![home] = pool[home] + 1]
          BY <4>3 DEF UnitFree
        <5>2. home \in {0, 1}
          BY <4>1, <5>1
        <5>3. lent' = [lent EXCEPT ![b] = lent[b] - 1]
          BY <4>3 DEF UnitFree
        <5>4. pool'[0] + pool'[1] = pool[0] + pool[1] + 1
          BY <4>1, <5>1, <5>2, Numbers DEF Bins
        <5>5. lent'[0] + lent'[1] = lent[0] + lent[1] - 1
          BY <4>1, <5>3, Numbers DEF Bins
        <5>6. pool'[0] \in Nat /\ pool'[1] \in Nat /\ lent'[0] \in Nat /\ lent'[1] \in Nat
          BY Numbers
        <5> QED BY <5>4, <5>5, <5>6, Numbers
      <4> QED BY <3>1, <4>2, <4>3
    <3>4. InFlight = 0 /\ InFlight' = 0 /\ BootFor'
      BY <3>2 DEF InFlight, BootFor
    <3> QED BY <3>2, <3>3, <3>4, NodesFrame, Numbers
  <2>3. CASE ~(\E b \in held : Free(b)) /\ ~(\E b \in Bins : UnitMalloc(b) \/ UnitFree(b))
    <3>1. /\ pc = "idle" /\ pc' \in {"idle", "split", "cantrejuv"}
          /\ UNCHANGED <<freelist, held, made, pool, lent, dropped>>
      BY <1>3, <2>3 DEF Call, Malloc, MallocFails, UnitMallocRefill, PageMalloc, StartOr, StartAlloc, vars
    <3>2. made = 3
      BY <3>1 DEF IInv, Control
    <3>3. BootFor' /\ InFlight' = 0 /\ InFlight = 0
      BY <3>1, <3>2 DEF BootFor, Booted, InFlight
    <3> QED BY <3>1, <3>3, NodesFrame
  <2> QED BY <2>1, <2>2, <2>3
<1>4. CASE Alloc
  <2>1. CASE SplitWild
    BY <2>1, NodesFrame DEF SplitWild, BootFor, InFlight
  <2>2. CASE NodeHang
    BY <2>2 DEF NodeHang, NodeInv, BootFor, NodesKept, Listed
  <2> QED BY <1>4, <2>1, <2>2, SplitNodes, RefillNodeUnits, TakeNodes DEF Alloc
<1>5. CASE Release
  <2>1. CASE FreeNode
    <3>1. /\ pc = "free" /\ pc' = "merge" /\ UNCHANGED <<freelist, held, made, lent, dropped>> /\ UseNodes(1, 0)
          /\ made = 3
      BY <2>1 DEF FreeNode, IInv, Control, Freeing
    <3>2. pool'[0] = pool[0] /\ pool'[1] = pool[1] - 1
      BY <3>1, Numbers DEF UseNodes, NodeBin, Booted, Bins
    <3>3. InFlight = 0 /\ InFlight' = 1 /\ BootFor'
      BY <3>1 DEF InFlight, BootFor
    <3>4. InFlight' + pool'[0] + pool'[1] + lent'[0] + lent'[1]
            = InFlight + pool[0] + pool[1] + lent[0] + lent[1]
      BY <3>1, <3>2, <3>3, Numbers
    <3> QED BY <3>1, <3>3, <3>4, NodesFrame
  <2>2. CASE MergeFind \/ MergeLost
    <3>1. /\ pc = "merge" /\ pc' \in {"unlink", "lostmerge"}
          /\ UNCHANGED <<freelist, held, made, lent, pool, dropped>>
      BY <2>2 DEF MergeFind, MergeLost
    <3>2. InFlight' = InFlight /\ BootFor'
      BY <3>1 DEF InFlight, BootFor
    <3> QED BY <3>1, <3>2, NodesFrame
  <2> QED BY <1>5, <2>1, <2>2, ReleaseNodes DEF Release
<1>6. CASE Spin
  BY <1>6, <1>1 DEF Spin
<1> QED BY <1>1, <1>2, <1>3, <1>4, <1>5, <1>6 DEF Next

\* No path of buddy_alloc and buddy_free leaks a node or frees one twice: the
\* units on the bins, on the lists, in callers' hands and cut off by a refill of
\* bins[0] are those the boot and the refills made.
THEOREM UnitsCounted == Spec => []NodesKept
<1>1. Init => NodeInv
  BY InitNodes
<1>2. IInv /\ IInv' /\ NodeInv /\ [Next]_vars => NodeInv'
  BY NodesInductive
<1>3. NodeInv => NodesKept
  BY DEF NodeInv
<1> QED BY <1>1, <1>2, <1>3, Invariance, PTL DEF Spec

=============================================================================
