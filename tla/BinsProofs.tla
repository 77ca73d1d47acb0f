----------------------------- MODULE BinsProofs -----------------------------
(***************************************************************************)
(* What holds of the small-object bins for pages, headers and units of any *)
(* sizes, as long as no unit that leaves its page is handed out: units lie *)
(* one behind the other in pages that are never given back, each of them   *)
(* in one place, on a list, with a caller, or with the allocator as a node *)
(* of its own, so no block touches another, a header or a node.            *)
(***************************************************************************)
EXTENDS NodeBins, SequenceTheorems, TLAPS

----------------------------------------------------------------------------
(* The inductive invariant *)

\* The page an address lies in.
PageAt(a) == a \div PageSize

\* Unit a is on the list that L has for bin b, in place i.
At(L, b, i, a) == i \in 1 .. Len(L[b]) /\ L[b][i] = a
On(L, b, a)    == \E i : At(L, b, i, a)

Listed(L, a)   == \E b \in Bins : On(L, b, a)

\* Who has the unit whose header is at a.
OnList(a) == Listed(list, a)
InUse(a)  == \E g \in live : g.unit /\ g.ptr = Payload(a)
AtHead(a) == \E b \in Bins : head[b] = a
IsNode(a) == a \in nodes \/ a = node

\* No unit is twice on the lists L.
Once(L) == \A b, d \in Bins : \A i, j, a : At(L, b, i, a) /\ At(L, d, j, a) => b = d /\ i = j

\* The lists with unit a put on list b, without the first unit of list b, and with
\* the units u for list b.
Push(L, b, a) == [L EXCEPT ![b] = <<a>> \o @]
Pop(L, b)     == [L EXCEPT ![b] = Tail(@)]
Refill(L, b, u) == [L EXCEPT ![b] = u]

\* Unit a is one of u, which are all different.
Has(u, a)   == \E i \in 1 .. Len(u) : u[i] = a
Distinct(u) == \A i, j \in 1 .. Len(u) : i # j => u[i] # u[j]

Typed ==
  /\ page \in [Pages -> {"free", "bin", "user", "cur"}]
  /\ head \in [Bins -> DOMAIN size]
  /\ list \in [Bins -> Seq(DOMAIN size)]
  /\ nodes \subseteq DOMAIN size /\ dropped \subseteq DOMAIN size
  /\ node \in DOMAIN size \cup {NONE}
  /\ live \subseteq [ptr : Nat, asked : Nat, unit : BOOLEAN]

\* What buddy_alloc is called for: a page, or a page to refill a bin with, whose list
\* is empty then, unless it is bins[0], which gets nodes meanwhile.
Wanted ==
  /\ want.size \in 1 .. PageSize /\ want.bin \in Bins \cup {0}
  /\ want.bin # 0 => Holds(want.size, want.bin)
  /\ want.bin \notin {0, 1} => list[want.bin] = <<>>

\* What the allocator has in hand where it is.
InHand ==
  /\ pc \in {"run", "alloc", "free"} => node = NONE
  /\ pc \in {"merge", "unlink"} => node # NONE
  /\ pc = "unlink" => found \in nodes
  /\ pc = "alloc" => Wanted

\* Units lie one behind the other in pages that are cut into units; of the last
\* one the header, at least, is in the page.
Cut ==
  /\ \A a \in DOMAIN size :
       /\ a \in Nat /\ PageAt(a) \in Pages /\ page[PageAt(a)] = "bin"
       /\ size[a] \in Range(BinSize)
       /\ (a % PageSize) + HeaderSize <= PageSize
  /\ \A a, b \in DOMAIN size : a < b /\ PageAt(a) = PageAt(b) => a + Full(size[a]) <= b

\* Each unit is in one place.
Apiece ==
  /\ \A a \in DOMAIN size : OnList(a) \/ InUse(a) \/ AtHead(a) \/ IsNode(a) \/ a \in dropped
  /\ \A a \in DOMAIN size :
       /\ OnList(a) => ~InUse(a) /\ ~AtHead(a) /\ ~IsNode(a) /\ a \notin dropped
       /\ InUse(a)  => ~AtHead(a) /\ ~IsNode(a) /\ a \notin dropped
       /\ AtHead(a) => ~IsNode(a) /\ a \notin dropped
       /\ IsNode(a) => a \notin dropped
  /\ node \notin nodes
  /\ Once(list)

\* And is of a size that fits it.
Placed ==
  /\ Apiece
  /\ \A b \in Bins : size[head[b]] = BinSize[b]
  /\ \A b \in Bins : \A a \in DOMAIN size : On(list, b, a) => Belongs(a, b)
  /\ \A a \in DOMAIN size : IsNode(a) => ~Spills(a, size[a]) /\ Belongs(a, 1)

\* What is handed out is a unit that holds what was asked for and does not leave
\* its page, or a page.
Held ==
  /\ \A g \in live : g.unit =>
       \E a \in DOMAIN size : /\ g.ptr = Payload(a) /\ ~Spills(a, size[a])
                              /\ g.asked \in 1 .. size[a]
  /\ \A g \in live : ~g.unit =>
       /\ g.ptr % PageSize = 0 /\ PageAt(g.ptr) \in Pages /\ page[PageAt(g.ptr)] = "user"
       /\ g.asked \in 1 .. PageSize
  /\ \A g, h \in live : g.ptr = h.ptr => g = h

Inv == Typed /\ InHand /\ Cut /\ Placed /\ Held

\* The inductive invariant: once a unit that leaves its page is in use, writing
\* it destroys what the bins rely on.
BInv == ~spilt => Inv

----------------------------------------------------------------------------
(* Division *)

LEMMA Divide ==
  ASSUME NEW d \in Nat \ {0}, NEW a \in Nat
  PROVE  /\ a \div d \in Nat /\ a % d \in 0 .. d - 1
         /\ a = d * (a \div d) + (a % d)
OBVIOUS

LEMMA Steps ==
  ASSUME NEW d \in Nat, NEW p \in Nat, NEW q \in Nat, p < q
  PROVE  d * p + d <= d * q
<1>1. PICK n \in Nat : q = p + 1 + n
  <2>1. q - p - 1 \in Nat /\ q = p + 1 + (q - p - 1)
    OBVIOUS
  <2> QED BY <2>1
<1>2. d * q = d * p + d + d * n
  BY <1>1
<1>3. d * n \in Nat /\ d * p \in Nat
  OBVIOUS
<1> QED BY <1>2, <1>3

LEMMA DivideBack ==
  ASSUME NEW d \in Nat \ {0}, NEW p \in Nat, NEW r \in 0 .. d - 1
  PROVE  (d * p + r) \div d = p /\ (d * p + r) % d = r
<1> DEFINE a == d * p + r
           q == a \div d
<1>1. a \in Nat
  OBVIOUS
<1>2. q \in Nat /\ a % d \in 0 .. d - 1 /\ a = d * q + (a % d)
  BY <1>1, Divide
<1>3. ~(p < q)
  <2> SUFFICES ASSUME p < q PROVE FALSE
    OBVIOUS
  <2>1. d * p + d <= d * q
    BY <1>2, Steps
  <2> QED BY <1>2, <2>1
<1>4. ~(q < p)
  <2> SUFFICES ASSUME q < p PROVE FALSE
    OBVIOUS
  <2>1. d * q + d <= d * p
    BY <1>2, Steps
  <2> QED BY <1>2, <2>1
<1> QED BY <1>2, <1>3, <1>4

\* Two multiples of m, one smaller than the other, are m apart.
LEMMA MultiplesApart ==
  ASSUME NEW m \in Nat \ {0}, NEW x \in Nat, NEW y \in Nat, x % m = 0, y % m = 0, x < y
  PROVE  x + m <= y
<1>1. /\ x \div m \in Nat /\ x = m * (x \div m)
      /\ y \div m \in Nat /\ y = m * (y \div m)
  BY Divide
<1>2. ~(y \div m <= x \div m)
  <2> SUFFICES ASSUME y \div m <= x \div m PROVE FALSE
    OBVIOUS
  <2>1. y \div m = x \div m \/ y \div m < x \div m
    BY <1>1
  <2>2. CASE y \div m < x \div m
    <3>1. m * (y \div m) + m <= m * (x \div m)
      BY <1>1, <2>2, Steps
    <3> QED BY <1>1, <3>1
  <2> QED BY <1>1, <2>1, <2>2
<1>3. m * (x \div m) + m <= m * (y \div m)
  BY <1>1, <1>2, Steps
<1> QED BY <1>1, <1>3

\* A multiple of a multiple, and the sum of two.
LEMMA MultipleOf ==
  ASSUME NEW m \in Nat \ {0}, NEW x \in Nat, NEW y \in Nat, x % m = 0, y % m = 0, NEW k \in Nat
  PROVE  (x + y) % m = 0 /\ k * x \in Nat /\ (k * x) % m = 0
<1> DEFINE p == x \div m
           q == y \div m
<1>1. p \in Nat /\ q \in Nat /\ x = m * p /\ y = m * q
  BY Divide
<1> HIDE DEF p, q
<1>2. x + y = m * (p + q) + 0
  BY <1>1
<1>3. k * x = m * (k * p) + 0 /\ k * p \in Nat /\ k * x \in Nat
  BY <1>1
<1>4. 0 \in 0 .. m - 1 /\ p + q \in Nat
  BY <1>1
<1>5. (m * (p + q) + 0) % m = 0
  BY <1>4, DivideBack
<1>6. (m * (k * p) + 0) % m = 0
  BY <1>3, <1>4, DivideBack
<1> QED BY <1>2, <1>3, <1>5, <1>6

----------------------------------------------------------------------------
(* The units of a page *)

Sizes == Range(BinSize)

LEMMA SizeTypes ==
  ASSUME NEW s \in Sizes
  PROVE  /\ s \in Nat \ {0} /\ s % HeaderSize = 0
         /\ Full(s) \in Nat /\ Full(s) = s + HeaderSize /\ Full(s) % HeaderSize = 0
<1>1. PICK b \in DOMAIN BinSize : s = BinSize[b]
  BY DEF Sizes, Range
<1>2. s \in Nat \ {0} /\ s % HeaderSize = 0
  BY <1>1, BinsAssumption
<1>3. HeaderSize \in Nat \ {0} /\ HeaderSize % HeaderSize = 0
  BY BinsAssumption
<1>4. Full(s) = HeaderSize + s /\ Full(s) = s + HeaderSize
  BY <1>2, <1>3 DEF Full
<1>5. (HeaderSize + s) % HeaderSize = 0
  BY <1>2, <1>3, MultipleOf
<1> QED BY <1>2, <1>3, <1>4, <1>5

LEMMA UnitCounts ==
  ASSUME NEW s \in Sizes
  PROVE  /\ UnitCount(s) \in Nat /\ UnitCount(s) >= 1
         /\ \A k \in 1 .. UnitCount(s) : (k - 1) * Full(s) \in 0 .. PageSize - 1
<1> DEFINE F == Full(s)
           n == PageSize + F - 1
<1>1. F \in Nat \ {0} /\ PageSize \in Nat \ {0} /\ HeaderSize \in Nat \ {0}
  BY SizeTypes, BinsAssumption
<1> HIDE DEF F
<1>2. n \in Nat /\ n >= F
  BY <1>1
<1>3. UnitCount(s) = n \div F
  BY DEF UnitCount, F
<1>4. n \div F \in Nat /\ n % F \in 0 .. F - 1 /\ n = F * (n \div F) + (n % F)
  BY <1>1, <1>2, Divide
<1> DEFINE c == n \div F
           r == n % F
<1>5. c \in Nat /\ n = F * c + r /\ r \in 0 .. F - 1
  BY <1>4
<1>6. c >= 1
  <2> SUFFICES ASSUME c = 0 PROVE FALSE
    BY <1>5
  <2>1. F * c = 0
    BY <1>1
  <2> QED BY <1>1, <1>2, <1>5, <2>1
<1>7. ASSUME NEW k \in 1 .. c PROVE (k - 1) * F \in 0 .. PageSize - 1
  <2>1. k - 1 \in Nat /\ k - 1 < c
    BY <1>5
  <2>2. F * (k - 1) + F <= F * c
    BY <1>1, <1>5, <2>1, Steps
  <2>3. (k - 1) * F = F * (k - 1) /\ (k - 1) * F \in Nat /\ F * c \in Nat
    BY <1>1, <1>5, <2>1
  <2>4. F * c <= PageSize + F - 1
    BY <1>1, <1>5, <2>3
  <2> HIDE DEF c, n, r
  <2> QED BY <1>1, <2>2, <2>3, <2>4
<1> QED BY <1>3, <1>5, <1>6, <1>7 DEF F

LEMMA UnitFacts ==
  ASSUME NEW p \in Pages, NEW s \in Sizes
  PROVE  /\ Units(p, s) \in Seq(Nat) /\ Len(Units(p, s)) = UnitCount(s)
         /\ \A k \in 1 .. UnitCount(s) :
              /\ PageAt(Units(p, s)[k]) = p
              /\ Units(p, s)[k] % PageSize = (k - 1) * Full(s)
              /\ (Units(p, s)[k] % PageSize) + HeaderSize <= PageSize
         /\ \A j, k \in 1 .. UnitCount(s) :
              j < k => Units(p, s)[j] + Full(s) <= Units(p, s)[k]
<1> DEFINE u == Units(p, s)
           n == UnitCount(s)
           F == Full(s)
<1>1. /\ n \in Nat /\ p \in Nat /\ PageSize \in Nat \ {0} /\ HeaderSize \in Nat \ {0}
      /\ F \in Nat /\ F % HeaderSize = 0 /\ PageSize % HeaderSize = 0
      /\ \A k \in 1 .. n : (k - 1) * F \in 0 .. PageSize - 1
  BY SizeTypes, UnitCounts, BinsAssumption DEF Pages
<1>2. u = [k \in 1 .. n |-> p * PageSize + (k - 1) * F]
  BY DEF Units
<1> HIDE DEF u, n, F
<1>3. ASSUME NEW k \in 1 .. n
      PROVE  /\ u[k] \in Nat /\ PageAt(u[k]) = p
             /\ u[k] % PageSize = (k - 1) * F
             /\ (u[k] % PageSize) + HeaderSize <= PageSize
  <2>1. u[k] = PageSize * p + (k - 1) * F
    BY <1>1, <1>2
  <2>2. (k - 1) * F \in 0 .. PageSize - 1
    BY <1>1
  <2>3. PageAt(u[k]) = p /\ u[k] % PageSize = (k - 1) * F
    BY <1>1, <2>1, <2>2, DivideBack DEF PageAt
  <2>4. k - 1 \in Nat
    BY <1>1
  <2>5. (k - 1) * F \in Nat /\ ((k - 1) * F) % HeaderSize = 0
    BY <1>1, <2>4, MultipleOf
  <2>6. (k - 1) * F + HeaderSize <= PageSize
    <3> DEFINE x == (k - 1) * F
    <3>1. x \in Nat /\ x % HeaderSize = 0 /\ x < PageSize
      BY <1>1, <2>2, <2>5
    <3> HIDE DEF x
    <3>2. x + HeaderSize <= PageSize
      BY <1>1, <3>1, MultiplesApart
    <3> QED BY <3>2 DEF x
  <2>7. u[k] \in Nat
    BY <1>1, <2>1, <2>5
  <2> QED BY <2>3, <2>6, <2>7
<1>4. ASSUME NEW j \in 1 .. n, NEW k \in 1 .. n, j < k PROVE u[j] + F <= u[k]
  <2>1. u[j] = p * PageSize + (j - 1) * F /\ u[k] = p * PageSize + (k - 1) * F
    BY <1>2
  <2>2. F * (j - 1) + F <= F * (k - 1)
    <3>1. j - 1 \in Nat /\ k - 1 \in Nat /\ j - 1 < k - 1
      BY <1>1, <1>4
    <3> QED BY <1>1, <3>1, Steps
  <2>3. /\ F * (j - 1) = (j - 1) * F /\ F * (k - 1) = (k - 1) * F
        /\ (j - 1) * F \in Nat /\ (k - 1) * F \in Nat /\ p * PageSize \in Nat
    BY <1>1
  <2> QED BY <1>1, <2>1, <2>2, <2>3
<1>5. u \in Seq(Nat) /\ Len(u) = n
  <2>1. \A k \in 1 .. n : p * PageSize + (k - 1) * F \in Nat
    BY <1>2, <1>3
  <2>2. [k \in 1 .. n |-> p * PageSize + (k - 1) * F] \in Seq(Nat)
    BY <1>1, <2>1
  <2>3. DOMAIN u = 1 .. n
    BY <1>2
  <2> QED BY <1>1, <1>2, <2>2, <2>3
<1> QED BY <1>3, <1>4, <1>5 DEF u, n, F

----------------------------------------------------------------------------
(* Sequences and payloads *)

LEMMA Widened ==
  ASSUME NEW S, NEW T, S \subseteq T, NEW s \in Seq(S)
  PROVE  s \in Seq(T)
OBVIOUS

\* Two units with one payload are one unit, and a unit that does not leave its
\* page has its payload inside it.
LEMMA Payloads ==
  ASSUME Cut, NEW a \in DOMAIN size
  PROVE  /\ a \in Nat /\ Payload(a) = a + HeaderSize /\ Payload(a) \in Nat
         /\ size[a] \in Nat \ {0} /\ Full(size[a]) = size[a] + HeaderSize
         /\ a = PageSize * PageAt(a) + (a % PageSize) /\ PageAt(a) \in Pages
         /\ a % PageSize \in 0 .. PageSize - 1
         /\ \A b \in DOMAIN size : Payload(b) = Payload(a) => b = a
         /\ ~Spills(a, size[a]) =>
              /\ Payload(a) % PageSize # 0 /\ PageAt(Payload(a)) = PageAt(a)
              /\ (a % PageSize) + HeaderSize + size[a] <= PageSize
<1>1. a \in Nat /\ PageAt(a) \in Pages /\ size[a] \in Sizes /\ \A b \in DOMAIN size : b \in Nat
  BY DEF Cut, Sizes
<1>2. PageSize \in Nat \ {0} /\ HeaderSize \in Nat \ {0} /\ PageAt(a) \in Nat
  BY <1>1, BinsAssumption DEF Pages
<1>3. size[a] \in Nat \ {0} /\ Full(size[a]) = size[a] + HeaderSize
  BY <1>1, SizeTypes
<1>4. a = PageSize * PageAt(a) + (a % PageSize) /\ a % PageSize \in 0 .. PageSize - 1
  BY <1>1, <1>2, Divide DEF PageAt
<1>5. Payload(a) = a + HeaderSize /\ Payload(a) \in Nat
  BY <1>1, <1>2 DEF Payload
<1>6. \A b \in DOMAIN size : Payload(b) = Payload(a) => b = a
  BY <1>1, <1>2 DEF Payload
<1>7. ASSUME ~Spills(a, size[a])
      PROVE  /\ Payload(a) % PageSize # 0 /\ PageAt(Payload(a)) = PageAt(a)
             /\ (a % PageSize) + HeaderSize + size[a] <= PageSize
  <2> DEFINE r == a % PageSize
             q == PageAt(a)
  <2>1. r \in Nat /\ r + Full(size[a]) <= PageSize
    <3>1. ~(r + Full(size[a]) > PageSize)
      BY <1>7 DEF Spills
    <3>2. Full(size[a]) \in Nat
      BY <1>2, <1>3
    <3> QED BY <1>2, <1>4, <3>1, <3>2
  <2>2. r + HeaderSize \in 0 .. PageSize - 1 /\ r + HeaderSize # 0
    BY <1>2, <1>3, <2>1
  <2>3. Payload(a) = PageSize * q + (r + HeaderSize)
    <3>1. PageSize * q \in Nat
      BY <1>2
    <3> QED BY <1>2, <1>4, <1>5, <2>1, <3>1
  <2> HIDE DEF r, q
  <2>4. q \in Nat
    BY <1>2 DEF q
  <2>5. Payload(a) % PageSize = r + HeaderSize /\ Payload(a) \div PageSize = q
    BY <1>2, <2>2, <2>3, <2>4, DivideBack
  <2>6. r + HeaderSize + size[a] <= PageSize
    BY <1>2, <1>3, <2>1
  <2> QED BY <2>2, <2>5, <2>6 DEF r, q, PageAt
<1> QED BY <1>1, <1>3, <1>4, <1>5, <1>6, <1>7

\* A unit in use is one that has been cut.
LEMMA InUseCut ==
  ASSUME Cut, Held, NEW a \in Nat, InUse(a)
  PROVE  a \in DOMAIN size
<1>1. PICK g \in live : g.unit /\ g.ptr = Payload(a)
  BY DEF InUse
<1>2. PICK c \in DOMAIN size : g.ptr = Payload(c)
  BY <1>1 DEF Held
<1>3. c \in Nat
  BY DEF Cut
<1>4. HeaderSize \in Nat
  BY BinsAssumption
<1>5. a = c
  BY <1>1, <1>2, <1>3, <1>4 DEF Payload
<1> QED BY <1>5
----------------------------------------------------------------------------
(* The lists *)

LEMMA OneAndTwo == 1 \in Bins /\ NodeBin \in Bins /\ NodeBin = 2 /\ Bins \subseteq Nat
<1>1. Bins = 1 .. Len(BinSize) /\ Len(BinSize) \in Nat /\ Len(BinSize) >= 2
  BY BinsAssumption DEF Bins
<1> QED BY <1>1 DEF NodeBin

\* nfree: a unit is put at the head of list b.
LEMMA Pushed ==
  ASSUME NEW D, NEW L \in [Bins -> Seq(D)], Once(L), NEW b \in Bins, NEW a \in D,
         ~Listed(L, a),
         NEW M, M = Push(L, b, a)
  PROVE  /\ M \in [Bins -> Seq(D)] /\ Once(M) /\ \A d \in Bins : d # b => M[d] = L[d]
         /\ \A d \in Bins : \A x : On(M, d, x) <=> On(L, d, x) \/ (d = b /\ x = a)
         /\ \A x : Listed(M, x) <=> Listed(L, x) \/ x = a
<1> DEFINE s == L[b]
           t == <<a>> \o s
<1>0. s \in Seq(D) /\ M = [L EXCEPT ![b] = t]
  BY DEF Push
<1>3. M[b] = t /\ \A d \in Bins : d # b => M[d] = L[d]
  BY <1>0
<1>1. s \in Seq(D) /\ M[b] = t
  BY <1>0, <1>3
<1>2. \A i : ~At(L, b, i, a)
  BY DEF On, Listed
<1> HIDE DEF s
<1>4. <<a>> \in Seq(D) /\ Len(<<a>>) = 1 /\ <<a>>[1] = a
  OBVIOUS
<1>5. /\ t \in Seq(D) /\ Len(t) = 1 + Len(s) /\ Len(s) \in Nat
      /\ \A i \in 1 .. 1 + Len(s) : t[i] = IF i <= 1 THEN <<a>>[i] ELSE s[i - 1]
  BY <1>1, <1>4, ConcatProperties
<1> HIDE DEF t
<1>6. ASSUME NEW i \in 1 .. Len(t)
      PROVE  \/ i = 1 /\ t[i] = a
             \/ i # 1 /\ i - 1 \in 1 .. Len(s) /\ t[i] = s[i - 1]
  <2>1. i = 1 \/ (i # 1 /\ ~(i <= 1) /\ i - 1 \in 1 .. Len(s))
    BY <1>5
  <2> QED BY <1>4, <1>5, <2>1
<1>7. ASSUME NEW i \in 1 .. Len(s) PROVE i + 1 \in 1 .. Len(t) /\ t[i + 1] = s[i]
  <2>1. i + 1 \in 1 .. 1 + Len(s) /\ ~(i + 1 <= 1) /\ (i + 1) - 1 = i
    BY <1>5
  <2> QED BY <1>5, <2>1
<1>8. 1 \in 1 .. Len(t) /\ t[1] = a
  <2>1. 1 \in 1 .. Len(t)
    BY <1>5
  <2> QED BY <1>6, <2>1
<1>9. ASSUME NEW i, NEW x, At(M, b, i, x)
      PROVE  i \in Nat /\ (\/ i = 1 /\ x = a
                           \/ i # 1 /\ At(L, b, i - 1, x))
  <2>1. i \in 1 .. Len(t) /\ t[i] = x
    BY <1>1, <1>9 DEF At
  <2>2. i \in Nat
    BY <1>5, <2>1
  <2> QED BY <1>6, <2>1, <2>2 DEF At, s
<1>10. ASSUME NEW i, NEW x, At(L, b, i, x) PROVE At(M, b, i + 1, x)
  <2>1. i \in 1 .. Len(s) /\ s[i] = x
    BY <1>10 DEF At, s
  <2> QED BY <1>1, <1>7, <2>1 DEF At
<1>11. At(M, b, 1, a)
  BY <1>1, <1>8 DEF At
<1>12. \A d \in Bins : d # b => \A i, x : At(M, d, i, x) <=> At(L, d, i, x)
  BY <1>3 DEF At
<1>13. ASSUME NEW d \in Bins, NEW e \in Bins, NEW i, NEW j, NEW x, At(M, d, i, x), At(M, e, j, x)
       PROVE  d = e /\ i = j
  <2>1. CASE d = b /\ e = b
    <3>1. CASE i = 1 \/ j = 1
      BY <1>2, <1>9, <1>13, <2>1, <3>1
    <3>2. CASE i # 1 /\ j # 1
      <4>1. At(L, b, i - 1, x) /\ At(L, b, j - 1, x) /\ i \in Nat /\ j \in Nat
        BY <1>9, <1>13, <2>1, <3>2
      <4>2. i - 1 = j - 1
        BY <4>1 DEF Once
      <4> QED BY <2>1, <4>1, <4>2
    <3> QED BY <3>1, <3>2
  <2>2. CASE d # b /\ e # b
    BY <1>12, <1>13, <2>2 DEF Once
  <2>3. CASE d = b /\ e # b
    <3>1. At(L, e, j, x) /\ x # a
      BY <1>12, <1>13, <2>3 DEF Listed, On
    <3>2. At(L, b, i - 1, x)
      BY <1>9, <1>13, <2>3, <3>1
    <3> QED BY <2>3, <3>1, <3>2 DEF Once
  <2>4. CASE d # b /\ e = b
    <3>1. At(L, d, i, x) /\ x # a
      BY <1>12, <1>13, <2>4 DEF Listed, On
    <3>2. At(L, b, j - 1, x)
      BY <1>9, <1>13, <2>4, <3>1
    <3> QED BY <2>4, <3>1, <3>2 DEF Once
  <2> QED BY <2>1, <2>2, <2>3, <2>4
<1>14. Once(M)
  BY <1>13 DEF Once
<1>15. ASSUME NEW x PROVE On(M, b, x) <=> On(L, b, x) \/ x = a
  BY <1>9, <1>10, <1>11 DEF On
<1>16. \A d \in Bins : \A x : On(M, d, x) <=> On(L, d, x) \/ (d = b /\ x = a)
  BY <1>12, <1>15 DEF On
<1>17. \A x : Listed(M, x) <=> Listed(L, x) \/ x = a
  BY <1>16 DEF Listed
<1>18. M \in [Bins -> Seq(D)]
  BY <1>0, <1>5
<1> QED BY <1>3, <1>14, <1>16, <1>17, <1>18

\* node_alloc: the first unit is taken off list b.
LEMMA Popped ==
  ASSUME NEW D, NEW L \in [Bins -> Seq(D)], Once(L), NEW b \in Bins, L[b] # <<>>,
         NEW M, M = Pop(L, b)
  PROVE  /\ M \in [Bins -> Seq(D)] /\ Once(M) /\ \A d \in Bins : d # b => M[d] = L[d]
         /\ M[b] = Tail(L[b]) /\ Head(L[b]) \in D /\ On(L, b, Head(L[b]))
         /\ \A d \in Bins : \A x : On(M, d, x) <=> On(L, d, x) /\ ~(d = b /\ x = Head(L[b]))
         /\ \A x : Listed(M, x) <=> Listed(L, x) /\ x # Head(L[b])
<1> DEFINE s == L[b]
           t == Tail(s)
           a == Head(s)
<1>0. M = [L EXCEPT ![b] = t] /\ s \in Seq(D)
  BY DEF Pop
<1>2. M[b] = t /\ \A d \in Bins : d # b => M[d] = L[d]
  BY <1>0
<1>1. s \in Seq(D) /\ s # <<>> /\ M[b] = t
  BY <1>0, <1>2
<1> HIDE DEF s
<1>4. /\ t \in Seq(D) /\ Len(s) \in Nat /\ Len(s) >= 1 /\ Len(t) = Len(s) - 1
      /\ \A i \in 1 .. Len(t) : t[i] = s[i + 1]
      /\ a = s[1] /\ a \in D
  BY <1>1
<1> HIDE DEF t, a
<1>5. ASSUME NEW i, NEW x, At(M, b, i, x) PROVE At(L, b, i + 1, x) /\ i \in Nat /\ i + 1 # 1
  <2>1. i \in 1 .. Len(t) /\ t[i] = x
    BY <1>1, <1>5 DEF At
  <2>2. i + 1 \in 1 .. Len(s) /\ i \in Nat /\ i + 1 # 1
    BY <1>4, <2>1
  <2> QED BY <1>4, <2>1, <2>2 DEF At, s
<1>6. ASSUME NEW i, NEW x, At(L, b, i, x), x # a PROVE At(M, b, i - 1, x)
  <2>1. i \in 1 .. Len(s) /\ s[i] = x
    BY <1>6 DEF At, s
  <2>2. i # 1
    BY <1>4, <1>6, <2>1
  <2>3. i - 1 \in 1 .. Len(t) /\ (i - 1) + 1 = i
    BY <1>4, <2>1, <2>2
  <2> QED BY <1>1, <1>4, <2>1, <2>3 DEF At
<1>7. At(L, b, 1, a)
  <2>1. 1 \in 1 .. Len(s)
    BY <1>4
  <2> QED BY <1>4, <2>1 DEF At, s
<1>8. \A d \in Bins : d # b => \A i, x : At(M, d, i, x) <=> At(L, d, i, x)
  BY <1>2 DEF At
<1>9. ASSUME NEW x PROVE On(M, b, x) <=> On(L, b, x) /\ x # a
  <2>1. ASSUME NEW i, At(M, b, i, x) PROVE x # a
    <3>1. At(L, b, i + 1, x) /\ i + 1 # 1
      BY <1>5, <2>1
    <3> QED BY <1>7, <3>1 DEF Once
  <2>2. On(M, b, x) => On(L, b, x) /\ x # a
    BY <1>5, <2>1 DEF On
  <2>3. On(L, b, x) /\ x # a => On(M, b, x)
    BY <1>6 DEF On
  <2> QED BY <2>2, <2>3
<1>10. \A d \in Bins : \A x : On(M, d, x) <=> On(L, d, x) /\ ~(d = b /\ x = a)
  <2>1. \A d \in Bins : d # b => \A x : On(M, d, x) <=> On(L, d, x)
    BY <1>8 DEF On
  <2> QED BY <1>9, <2>1
<1>11. ASSUME NEW d \in Bins, NEW e \in Bins, NEW i, NEW j, NEW x, At(M, d, i, x), At(M, e, j, x)
       PROVE  d = e /\ i = j
  <2>1. CASE d = b /\ e = b
    <3>1. At(L, b, i + 1, x) /\ At(L, b, j + 1, x) /\ i \in Nat /\ j \in Nat
      BY <1>5, <1>11, <2>1
    <3>2. i + 1 = j + 1
      BY <3>1 DEF Once
    <3> QED BY <2>1, <3>1, <3>2
  <2>2. CASE d # b /\ e # b
    BY <1>8, <1>11, <2>2 DEF Once
  <2>3. CASE d = b /\ e # b
    <3>1. At(L, b, i + 1, x) /\ At(L, e, j, x)
      BY <1>5, <1>8, <1>11, <2>3
    <3> QED BY <2>3, <3>1 DEF Once
  <2>4. CASE d # b /\ e = b
    <3>1. At(L, b, j + 1, x) /\ At(L, d, i, x)
      BY <1>5, <1>8, <1>11, <2>4
    <3> QED BY <2>4, <3>1 DEF Once
  <2> QED BY <2>1, <2>2, <2>3, <2>4
<1>12. Once(M)
  BY <1>11 DEF Once
<1>13. On(L, b, a) /\ \A d \in Bins : On(L, d, a) => d = b
  BY <1>7 DEF On, Once
<1>14. \A x : Listed(M, x) <=> Listed(L, x) /\ x # a
  BY <1>10, <1>13 DEF Listed
<1>15. M \in [Bins -> Seq(D)]
  BY <1>0, <1>4
<1> QED BY <1>2, <1>4, <1>10, <1>12, <1>13, <1>14, <1>15 DEF s, a, t

\* rejuv_node_alloc: list b is replaced by units u that are on no other.
LEMMA Refilled ==
  ASSUME NEW D, NEW L \in [Bins -> Seq(D)], Once(L), NEW b \in Bins, NEW u \in Seq(D),
         Distinct(u), \A d \in Bins : \A x : d # b /\ Has(u, x) => ~On(L, d, x),
         NEW M, M = Refill(L, b, u)
  PROVE  /\ M \in [Bins -> Seq(D)] /\ Once(M) /\ \A d \in Bins : d # b => M[d] = L[d]
         /\ \A x : On(M, b, x) <=> Has(u, x)
         /\ \A d \in Bins : d # b => \A x : On(M, d, x) <=> On(L, d, x)
         /\ \A x : Listed(M, x) <=>
              Has(u, x) \/ (\E d \in Bins : d # b /\ On(L, d, x))
<1>0. M[b] = u /\ M \in [Bins -> Seq(D)] /\ \A d \in Bins : d # b => M[d] = L[d]
  BY DEF Refill
<1>1. \A d \in Bins : d # b => \A i, x : At(M, d, i, x) <=> At(L, d, i, x)
  BY <1>0 DEF At
<1>2. \A i, x : At(M, b, i, x) <=> i \in 1 .. Len(u) /\ u[i] = x
  BY <1>0 DEF At
<1>3. /\ \A x : On(M, b, x) <=> Has(u, x)
      /\ \A d \in Bins : d # b => \A x : On(M, d, x) <=> On(L, d, x)
  <2>1. \A d \in Bins : d # b => \A x : On(M, d, x) <=> On(L, d, x)
    BY <1>1 DEF On
  <2>2. ASSUME NEW x PROVE On(M, b, x) <=> Has(u, x)
    <3>1. On(M, b, x) => Has(u, x)
      BY <1>2 DEF On, Has
    <3>2. ASSUME NEW i \in 1 .. Len(u), u[i] = x PROVE On(M, b, x)
      BY <1>2, <3>2 DEF On
    <3> QED BY <3>1, <3>2 DEF Has
  <2> QED BY <2>1, <2>2
<1>4. ASSUME NEW d \in Bins, NEW e \in Bins, NEW i, NEW j, NEW x, At(M, d, i, x), At(M, e, j, x)
      PROVE  d = e /\ i = j
  <2>1. CASE d = b /\ e = b
    BY <1>2, <1>4, <2>1 DEF Distinct
  <2>2. CASE d # b /\ e # b
    BY <1>1, <1>4, <2>2 DEF Once
  <2>3. CASE d = b /\ e # b
    <3>1. On(L, e, x) /\ Has(u, x)
      BY <1>1, <1>2, <1>4, <2>3 DEF On, Has
    <3> QED BY <2>3, <3>1
  <2>4. CASE d # b /\ e = b
    <3>1. On(L, d, x) /\ Has(u, x)
      BY <1>1, <1>2, <1>4, <2>4 DEF On, Has
    <3> QED BY <2>4, <3>1
  <2> QED BY <2>1, <2>2, <2>3, <2>4
<1>5. Once(M)
  BY <1>4 DEF Once
<1>6. \A x : Listed(M, x) <=>
        Has(u, x) \/ (\E d \in Bins : d # b /\ On(L, d, x))
  BY <1>3 DEF Listed
<1> QED BY <1>0, <1>3, <1>5, <1>6

----------------------------------------------------------------------------
(* What a step changes *)

\* A unit that does not leave its page has its payload inside it.
LEMMA Inside ==
  ASSUME NEW a \in Nat, NEW s \in Sizes, ~Spills(a, s)
  PROVE  Payload(a) \in Nat /\ Payload(a) % PageSize # 0
<1> DEFINE r == a % PageSize
           q == PageAt(a)
<1>1. PageSize \in Nat \ {0} /\ HeaderSize \in Nat \ {0}
  BY BinsAssumption
<1>2. s \in Nat \ {0} /\ Full(s) = s + HeaderSize
  BY SizeTypes
<1>3. a = PageSize * q + r /\ r \in 0 .. PageSize - 1 /\ q \in Nat
  BY <1>1, Divide DEF PageAt
<1>4. ~(r + (s + HeaderSize) > PageSize)
  BY <1>2 DEF Spills
<1> HIDE DEF r, q
<1>5. r + HeaderSize \in 0 .. PageSize - 1 /\ r + HeaderSize # 0
  BY <1>1, <1>2, <1>3, <1>4
<1>6. Payload(a) = PageSize * q + (r + HeaderSize) /\ Payload(a) \in Nat
  <2>1. PageSize * q \in Nat
    BY <1>1, <1>3
  <2> QED BY <1>1, <1>3, <2>1 DEF Payload
<1>7. Payload(a) % PageSize = r + HeaderSize
  BY <1>1, <1>3, <1>5, <1>6, DivideBack
<1> QED BY <1>5, <1>6, <1>7

\* No page of units changes.
LEMMA CutStays ==
  ASSUME Cut, size' = size, \A p \in Pages : page[p] = "bin" => page'[p] = "bin"
  PROVE  Cut'
BY DEF Cut, PageAt, Full

\* Units may be new, and pages not in use may change.
LEMMA HeldStays ==
  ASSUME Held, live' \subseteq live, DOMAIN size \subseteq DOMAIN size',
         \A a \in DOMAIN size : size'[a] = size[a],
         \A h \in live' : ~h.unit => page'[PageAt(h.ptr)] = page[PageAt(h.ptr)]
  PROVE  Held'
<1>1. \A h \in live' : h.unit =>
        \E c \in DOMAIN size' : /\ h.ptr = Payload(c) /\ ~Spills(c, size'[c])
                                /\ h.asked \in 1 .. size'[c]
  <2> SUFFICES ASSUME NEW h \in live', h.unit
               PROVE  \E c \in DOMAIN size' : /\ h.ptr = Payload(c) /\ ~Spills(c, size'[c])
                                              /\ h.asked \in 1 .. size'[c]
    OBVIOUS
  <2>1. PICK c \in DOMAIN size : /\ h.ptr = Payload(c) /\ ~Spills(c, size[c])
                                 /\ h.asked \in 1 .. size[c]
    BY DEF Held
  <2> QED BY <2>1
<1>2. \A h \in live' : ~h.unit =>
        /\ h.ptr % PageSize = 0 /\ PageAt(h.ptr) \in Pages /\ page'[PageAt(h.ptr)] = "user"
        /\ h.asked \in 1 .. PageSize
  BY DEF Held
<1>3. \A h, k \in live' : h.ptr = k.ptr => h = k
  BY DEF Held
<1> QED BY <1>1, <1>2, <1>3 DEF Held, Payload, PageAt, Spills, Full

\* A unit is handed out.
LEMMA UnitGranted ==
  ASSUME Cut, Held, Cut', live \subseteq [ptr : Nat, asked : Nat, unit : BOOLEAN],
         NEW a \in DOMAIN size', NEW x \in 1 .. PageSize, size'[a] > x, ~Spills(a, size'[a]), ~InUse(a),
         Grant(Payload(a), x, TRUE), DOMAIN size \subseteq DOMAIN size',
         \A d \in DOMAIN size : size'[d] = size[d],
         \A p \in Pages : page[p] = "user" => page'[p] = "user"
  PROVE  /\ Held' /\ live' \subseteq [ptr : Nat, asked : Nat, unit : BOOLEAN]
         /\ \A d \in DOMAIN size' : InUse(d)' <=> InUse(d) \/ d = a
<1> DEFINE g == [ptr |-> Payload(a), asked |-> x, unit |-> TRUE]
<1>1. live' = live \cup {g}
  BY DEF Grant
<1>2. a \in Nat /\ size'[a] \in Sizes /\ \A d \in DOMAIN size' : d \in Nat
  BY DEF Cut, Sizes
<1>3. Payload(a) \in Nat /\ Payload(a) % PageSize # 0
  BY <1>2, Inside
<1>4. x \in Nat /\ x \in 1 .. size'[a]
  <2>1. size'[a] \in Nat
    BY <1>2, SizeTypes
  <2>2. PageSize \in Nat
    BY BinsAssumption
  <2> QED BY <2>1, <2>2
<1>5. g.ptr = Payload(a) /\ g.asked = x /\ g.unit = TRUE
      /\ g \in [ptr : Nat, asked : Nat, unit : BOOLEAN]
  BY <1>3, <1>4
<1> HIDE DEF g
<1>6. ASSUME NEW h \in live, h.ptr = g.ptr PROVE FALSE
  <2>1. CASE h.unit
    BY <1>5, <1>6, <2>1 DEF InUse
  <2>2. CASE ~h.unit
    BY <1>3, <1>5, <1>6, <2>2 DEF Held
  <2> QED BY <2>1, <2>2
<1>7. \A h \in live' : h \in live \/ h = g
  BY <1>1
<1>8. ASSUME NEW h \in live', h.unit
      PROVE  \E c \in DOMAIN size' : /\ h.ptr = Payload(c) /\ ~Spills(c, size'[c])
                                     /\ h.asked \in 1 .. size'[c]
  <2>1. CASE h \in live
    <3>1. PICK c \in DOMAIN size : /\ h.ptr = Payload(c) /\ ~Spills(c, size[c])
                                   /\ h.asked \in 1 .. size[c]
      BY <1>8, <2>1 DEF Held
    <3> QED BY <3>1
  <2>2. CASE h = g
    BY <1>4, <1>5, <2>2
  <2> QED BY <1>7, <2>1, <2>2
<1>9. ASSUME NEW h \in live', ~h.unit
      PROVE  /\ h.ptr % PageSize = 0 /\ PageAt(h.ptr) \in Pages /\ page'[PageAt(h.ptr)] = "user"
             /\ h.asked \in 1 .. PageSize
  BY <1>5, <1>7, <1>9 DEF Held
<1>10. \A h, k \in live' : h.ptr = k.ptr => h = k
  BY <1>6, <1>7 DEF Held
<1>11. Held'
  BY <1>8, <1>9, <1>10 DEF Held, Payload, PageAt, Spills, Full
<1>12. ASSUME NEW d \in DOMAIN size' PROVE InUse(d)' <=> InUse(d) \/ d = a
  <2>1. Payload(d) = Payload(a) => d = a
    <3>1. d \in Nat /\ HeaderSize \in Nat
      BY <1>2, BinsAssumption
    <3> QED BY <1>2, <3>1 DEF Payload
  <2> QED BY <1>1, <1>5, <2>1 DEF InUse, Payload
<1> QED BY <1>1, <1>5, <1>11, <1>12

\* A free page is cut into units.
LEMMA PageCut ==
  ASSUME Typed, Cut, NEW p \in Pages, page[p] = "free", NEW s \in Sizes,
         page' = [page EXCEPT ![p] = "bin"], size' = Sized(p, s),
         NEW u, u = Units(p, s)
  PROVE  /\ Cut' /\ page' \in [Pages -> {"free", "bin", "user", "cur"}]
         /\ \A q \in Pages : q # p => page'[q] = page[q]
         /\ u \in Seq(DOMAIN size') /\ u # <<>> /\ Distinct(u)
         /\ \A a : Has(u, a) => a \notin DOMAIN size /\ a \in Nat /\ size'[a] = s
         /\ \A a : a \in DOMAIN size' <=> a \in DOMAIN size \/ Has(u, a)
         /\ \A a \in DOMAIN size : size'[a] = size[a]
<1> DEFINE m == UnitCount(s)
           U == ToSet(u)
<1>2. size' = [c \in DOMAIN size \cup U |-> IF c \in U THEN s ELSE size[c]]
  BY DEF Sized
<1>3. s \in Nat \ {0} /\ Full(s) \in Nat /\ s \in Range(BinSize) /\ Full(s) > 0
  <2>1. Full(s) = s + HeaderSize /\ s \in Nat \ {0} /\ HeaderSize \in Nat \ {0}
    BY SizeTypes, BinsAssumption
  <2> QED BY <2>1 DEF Sizes
<1>4. /\ u \in Seq(Nat) /\ Len(u) = m /\ m \in Nat /\ m >= 1
      /\ \A k \in 1 .. m : PageAt(u[k]) = p /\ (u[k] % PageSize) + HeaderSize <= PageSize
      /\ \A j, k \in 1 .. m : j < k => u[j] + Full(s) <= u[k]
  BY UnitFacts, UnitCounts
<1> HIDE DEF m
<1>5. /\ U = {u[k] : k \in 1 .. m} /\ U \subseteq Nat
      /\ \A k \in 1 .. m : u[k] \in Nat /\ u[k] \in U
  <2>1. DOMAIN u = 1 .. m /\ \A k \in 1 .. m : u[k] \in Nat
    BY <1>4
  <2>2. U = {u[k] : k \in 1 .. m}
    BY <2>1 DEF ToSet
  <2> QED BY <2>1, <2>2
<1>6. u \in Seq(U)
  <2>1. \A k \in 1 .. Len(u) : u[k] \in U
    BY <1>4, <1>5
  <2>2. DOMAIN u = 1 .. Len(u) /\ u = [k \in 1 .. Len(u) |-> u[k]]
    BY <1>4
  <2> QED BY <1>4, <2>1, <2>2
<1>7. \A j, k \in 1 .. m : j # k => u[j] # u[k]
  <2> SUFFICES ASSUME NEW j \in 1 .. m, NEW k \in 1 .. m, j # k, u[j] = u[k] PROVE FALSE
    OBVIOUS
  <2>1. j < k \/ k < j
    BY <1>4
  <2>2. u[j] + Full(s) <= u[j]
    BY <1>4, <2>1
  <2> QED BY <1>3, <1>5, <2>2
<1>8. \A c \in U : PageAt(c) = p /\ (c % PageSize) + HeaderSize <= PageSize
  BY <1>4, <1>5
<1> HIDE DEF U
<1>9. \A c \in DOMAIN size : c \notin U /\ PageAt(c) # p
  BY <1>8 DEF Cut
<1>10. /\ DOMAIN size' = DOMAIN size \cup U
       /\ \A c \in DOMAIN size : size'[c] = size[c]
       /\ \A c \in U : size'[c] = s
  BY <1>2, <1>9
<1>11. page' \in [Pages -> {"free", "bin", "user", "cur"}] /\ page'[p] = "bin"
       /\ \A q \in Pages : q # p => page'[q] = page[q]
  BY DEF Typed
<1>18. Cut'
  <2>1. ASSUME NEW c \in DOMAIN size'
        PROVE  /\ c \in Nat /\ PageAt(c) \in Pages /\ page'[PageAt(c)] = "bin"
               /\ size'[c] \in Range(BinSize)
               /\ (c % PageSize) + HeaderSize <= PageSize
    <3>1. CASE c \in DOMAIN size
      BY <1>9, <1>10, <1>11, <3>1 DEF Cut
    <3>2. CASE c \in U
      BY <1>3, <1>5, <1>8, <1>10, <1>11, <3>2
    <3> QED BY <1>10, <3>1, <3>2
  <2>2. ASSUME NEW c \in DOMAIN size', NEW d \in DOMAIN size', c < d, PageAt(c) = PageAt(d)
        PROVE  c + Full(size'[c]) <= d
    <3>1. CASE c \in DOMAIN size /\ d \in DOMAIN size
      BY <1>10, <2>2, <3>1 DEF Cut
    <3>2. CASE c \in U /\ d \in U
      <4>1. PICK j \in 1 .. m, k \in 1 .. m : c = u[j] /\ d = u[k]
        BY <1>5, <3>2 DEF U
      <4>2. j < k
        <5> SUFFICES ASSUME k < j PROVE FALSE
          BY <1>4, <1>5, <2>2, <4>1
        <5>1. d + Full(s) <= c
          BY <1>4, <4>1
        <5> QED BY <1>3, <1>5, <2>2, <4>1, <5>1
      <4> QED BY <1>4, <1>10, <3>2, <4>1, <4>2
    <3> QED BY <1>8, <1>9, <1>10, <2>2, <3>1, <3>2
  <2>3. \A c, d \in DOMAIN size' : c < d /\ PageAt(c) = PageAt(d) => c + Full(size'[c]) <= d
    BY <2>2
  <2>4. Cut' <=> /\ \A c \in DOMAIN size' :
                     /\ c \in Nat /\ PageAt(c) \in Pages /\ page'[PageAt(c)] = "bin"
                     /\ size'[c] \in Range(BinSize)
                     /\ (c % PageSize) + HeaderSize <= PageSize
                 /\ \A c, d \in DOMAIN size' :
                      c < d /\ PageAt(c) = PageAt(d) => c + Full(size'[c]) <= d
    BY DEF Cut, PageAt, Full
  <2> QED BY <2>1, <2>3, <2>4
<1>19. u \in Seq(DOMAIN size')
  BY <1>6, <1>10, Widened
<1>20. Distinct(u) /\ \A a : Has(u, a) <=> a \in U
  BY <1>4, <1>5, <1>7 DEF Has, Distinct
<1>21. \A a : a \in U => a \notin DOMAIN size /\ a \in Nat /\ size'[a] = s
  BY <1>5, <1>9, <1>10
<1>22. u # <<>>
  BY <1>4
<1> QED BY <1>10, <1>11, <1>18, <1>19, <1>20, <1>21, <1>22

----------------------------------------------------------------------------
(* The steps of buddy_malloc *)

\* A unit on the list of a bin holds what the bin serves.
LEMMA Roomy ==
  ASSUME NEW b \in Bins, NEW x, Holds(x, b), x \in 1 .. PageSize, NEW s, s = BinSize[b] \/ (b = 1 /\ s = BinSize[NodeBin])
  PROVE  s > x /\ x \in Nat
<1>1. /\ 1 \in Bins /\ 2 \in Bins /\ NodeBin = 2 /\ \A d \in Bins : BinSize[d] \in Nat
      /\ PageSize \in Nat
  BY OneAndTwo, BinsAssumption DEF Bins
<1>2. BinSize[1] < BinSize[2]
  BY <1>1, BinsAssumption DEF Bins
<1> QED BY <1>1, <1>2 DEF Holds

LEMMA MallocKeeps ==
  ASSUME Inv, NEW x \in Requests, UnitMalloc(x), ~spilt'
  PROVE  Inv'
<1>0. Typed /\ InHand /\ Cut /\ Placed /\ Apiece /\ Held
  BY DEF Inv, Placed
<1>1. PICK b \in Bins :
        /\ Serves(b, x) /\ list[b] # <<>>
        /\ Grant(Payload(Head(list[b])), x, TRUE)
        /\ list' = [list EXCEPT ![b] = Tail(@)]
        /\ Lend(Head(list[b]), size[Head(list[b])])
  BY DEF UnitMalloc
<1>2. pc = "run" /\ UNCHANGED <<page, head, size, nodes, node, found, want, dropped, pc>>
  BY DEF UnitMalloc, Asks
<1> DEFINE a == Head(list[b])
           D == DOMAIN size
<1>3. /\ list' \in [Bins -> Seq(D)] /\ Once(list') /\ a \in D /\ On(list, b, a)
      /\ \A d \in Bins : \A y : On(list', d, y) => On(list, d, y)
      /\ \A y : Listed(list', y) <=> Listed(list, y) /\ y # a
  <2>1. list \in [Bins -> Seq(D)] /\ Once(list) /\ list[b] # <<>> /\ list' = Pop(list, b)
    BY <1>0, <1>1 DEF Typed, Apiece, Pop
  <2> QED BY <2>1, Popped
<1>4. OnList(a) /\ Belongs(a, b)
  BY <1>0, <1>3 DEF Placed, OnList, Listed
<1>5. x \in 1 .. PageSize /\ size[a] > x /\ ~Spills(a, size[a])
  <2>1. x \in 1 .. PageSize
    BY BinsAssumption
  <2> QED BY <1>1, <1>4, <2>1, Roomy DEF Belongs, Lend, Serves
<1> HIDE DEF a
<1>6. Cut'
  BY <1>0, <1>2, CutStays
<1>7. ~InUse(a) /\ ~AtHead(a) /\ ~IsNode(a) /\ a \notin dropped
  BY <1>0, <1>3, <1>4 DEF Apiece
<1>8. /\ Held' /\ live' \subseteq [ptr : Nat, asked : Nat, unit : BOOLEAN]
      /\ \A d \in D : InUse(d)' <=> InUse(d) \/ d = a
  <2>1. Grant(Payload(a), x, TRUE)
    BY <1>1 DEF a
  <2> QED BY <1>0, <1>2, <1>3, <1>5, <1>6, <1>7, <2>1, UnitGranted DEF Typed
<1>9. Typed'
  BY <1>0, <1>2, <1>3, <1>8 DEF Typed
<1>10. InHand'
  BY <1>0, <1>2 DEF InHand
<1>11. \A d : (AtHead(d)' <=> AtHead(d)) /\ (IsNode(d)' <=> IsNode(d))
  BY <1>2 DEF AtHead, IsNode
<1>12. \A d : OnList(d)' <=> OnList(d) /\ d # a
  BY <1>3 DEF OnList, Listed, On
<1>13. Apiece'
  <2>1. ASSUME NEW d \in D
        PROVE  /\ OnList(d)' \/ InUse(d)' \/ AtHead(d)' \/ IsNode(d)' \/ d \in dropped
               /\ OnList(d)' => ~InUse(d)' /\ ~AtHead(d)' /\ ~IsNode(d)' /\ d \notin dropped
               /\ InUse(d)'  => ~AtHead(d)' /\ ~IsNode(d)' /\ d \notin dropped
               /\ AtHead(d)' => ~IsNode(d)' /\ d \notin dropped
               /\ IsNode(d)' => d \notin dropped
    BY <1>0, <1>4, <1>7, <1>8, <1>11, <1>12 DEF Apiece
  <2>2. Once(list)'
    BY <1>3 DEF Once
  <2> QED BY <1>0, <1>2, <2>1, <2>2 DEF Apiece
<1>14. Placed'
  <2>1. \A e \in Bins : \A d \in D : On(list, e, d)' => Belongs(d, e)
    <3>1. \A e \in Bins : \A d \in D : On(list, e, d)' => On(list, e, d)
      BY <1>3 DEF On
    <3> QED BY <1>0, <3>1 DEF Placed
  <2>2. \A e \in Bins : size'[head'[e]] = BinSize[e]
    BY <1>0, <1>2 DEF Placed
  <2>3. \A d \in D : IsNode(d)' => ~Spills(d, size[d]) /\ Belongs(d, 1)
    BY <1>0, <1>11 DEF Placed
  <2> QED BY <1>2, <1>13, <2>1, <2>2, <2>3 DEF Placed, Belongs, Spills, Full
<1> QED BY <1>6, <1>8, <1>9, <1>10, <1>14 DEF Inv

\* Steps that leave the units and pages alone.
LEMMA Inert ==
  ASSUME Inv, UNCHANGED <<page, head, list, size, nodes, node, live, dropped>>, InHand'
  PROVE  Inv'
<1>1. Typed' /\ Cut' /\ Held'
  BY CutStays, HeldStays DEF Inv, Typed
<1>2. \A d : /\ (AtHead(d)' <=> AtHead(d)) /\ (IsNode(d)' <=> IsNode(d))
             /\ (InUse(d)' <=> InUse(d)) /\ (OnList(d)' <=> OnList(d))
  BY DEF AtHead, IsNode, InUse, OnList, Listed, On, Payload
<1>3. Apiece'
  BY <1>2 DEF Inv, Placed, Apiece, Once
<1>4. Placed'
  BY <1>2, <1>3 DEF Inv, Placed, Belongs, Spills, Full, On
<1> QED BY <1>1, <1>4 DEF Inv

LEMMA BeginKeeps ==
  ASSUME Inv, NEW x \in Requests, Rejuvenate(x) \/ PageMalloc(x)
  PROVE  Inv'
<1>1. PICK b \in Bins \cup {0} :
        /\ Begin(x, b) /\ (b # 0 => Holds(x, b) /\ list[b] = <<>>)
  BY DEF Rejuvenate, PageMalloc, Serves
<1>2. /\ want' = [size |-> x, bin |-> b] /\ pc' = "alloc" /\ pc = "run"
      /\ UNCHANGED <<page, head, list, size, nodes, node, found, live, dropped>>
  BY <1>1 DEF Begin, Asks
<1>3. InHand'
  <2>1. x \in 1 .. PageSize
    BY BinsAssumption
  <2>2. Wanted'
    BY <1>1, <1>2, <2>1 DEF Wanted, Holds
  <2> QED BY <1>2, <2>2 DEF Inv, InHand
<1> QED BY <1>2, <1>3, Inert

LEMMA StopKeeps ==
  ASSUME Inv, (\E x \in Requests : MallocBug(x)) \/ NodeBug \/ MergeFind
  PROVE  Inv'
<1>1. UNCHANGED <<page, head, list, size, nodes, node, live, dropped>>
  BY DEF MallocBug, NodeBug, MergeFind
<1>2. pc' = "bug" \/ (pc = "merge" /\ pc' = "unlink" /\ found' \in nodes)
  BY DEF MallocBug, NodeBug, MergeFind
<1>3. InHand'
  BY <1>1, <1>2 DEF Inv, InHand
<1> QED BY <1>1, <1>3, Inert

----------------------------------------------------------------------------
(* The steps of buddy_alloc and buddy_free *)

\* Where the nodes of the allocator are.
LEMMA Nodes ==
  ASSUME Inv
  PROVE  /\ NONE \notin DOMAIN size /\ (IsNode(node) /\ node # NONE => node \in DOMAIN size)
         /\ \A m \in nodes \cup ({node} \ {NONE}) :
              /\ m \in DOMAIN size /\ IsNode(m) /\ ~Listed(list, m) /\ ~InUse(m) /\ ~AtHead(m)
              /\ m \notin dropped /\ ~Spills(m, size[m]) /\ Belongs(m, 1)
         /\ node \notin nodes
<1>1. NONE \notin DOMAIN size
  BY DEF Inv, Cut, NONE
<1>2. \A m \in nodes \cup ({node} \ {NONE}) : m \in DOMAIN size /\ IsNode(m)
  BY DEF Inv, Typed, IsNode
<1> QED BY <1>1, <1>2 DEF Inv, Placed, Apiece, OnList

\* What has to be shown of a step that moves units.
LEMMA Settled ==
  ASSUME Once(list'), node' \notin nodes',
         \A d \in DOMAIN size' :
           /\ Listed(list', d) \/ InUse(d)' \/ AtHead(d)' \/ IsNode(d)' \/ d \in dropped'
           /\ Listed(list', d) => ~InUse(d)' /\ ~AtHead(d)' /\ ~IsNode(d)' /\ d \notin dropped'
           /\ InUse(d)'  => ~AtHead(d)' /\ ~IsNode(d)' /\ d \notin dropped'
           /\ AtHead(d)' => ~IsNode(d)' /\ d \notin dropped'
           /\ IsNode(d)' => d \notin dropped' /\ ~Spills(d, size'[d]) /\ Belongs(d, 1)',
         \A b \in Bins : size'[head'[b]] = BinSize[b],
         \A b \in Bins : \A d \in DOMAIN size' : On(list', b, d) => Belongs(d, b)'
  PROVE  Placed'
<1>1. \A d : OnList(d)' <=> Listed(list', d)
  BY DEF OnList, Listed, On, At
<1>2. Once(list)'
  BY DEF Once, At
<1>3. Apiece'
  BY <1>1, <1>2 DEF Apiece
<1>4. \A b \in Bins : \A d \in DOMAIN size' : On(list, b, d)' => Belongs(d, b)'
  <2>1. \A b \in Bins : \A d : On(list, b, d)' <=> On(list', b, d)
    BY DEF On, At
  <2> QED BY <2>1
<1>5. \A d \in DOMAIN size' : IsNode(d)' => ~Spills(d, size[d])' /\ Belongs(d, 1)'
  BY DEF Spills, Full
<1> QED BY <1>3, <1>4, <1>5 DEF Placed

LEMMA FreeNodeKeeps ==
  ASSUME Inv, FreeNode, ~spilt'
  PROVE  Inv'
<1> DEFINE D == DOMAIN size
           a == Head(list[NodeBin])
<1>0. Typed /\ InHand /\ Cut /\ Placed /\ Apiece /\ Held
  BY DEF Inv, Placed
<1>1. /\ pc = "free" /\ list[NodeBin] # <<>> /\ node' = a /\ list' = Pop(list, NodeBin)
      /\ ~Spills(a, size[a]) /\ pc' = "merge"
      /\ UNCHANGED <<page, head, size, nodes, found, want, live, dropped>>
  BY DEF FreeNode, Pop, Lend
<1>2. NodeBin \in Bins /\ NodeBin = 2
  BY OneAndTwo
<1>3. /\ list' \in [Bins -> Seq(D)] /\ Once(list') /\ a \in D /\ On(list, NodeBin, a)
      /\ \A d \in Bins : \A y : On(list', d, y) => On(list, d, y)
      /\ \A y : Listed(list', y) <=> Listed(list, y) /\ y # a
  <2>1. list \in [Bins -> Seq(D)] /\ Once(list)
    BY <1>0 DEF Typed, Apiece
  <2> QED BY <1>1, <1>2, <2>1, Popped
<1> HIDE DEF a
<1>4. Listed(list, a) /\ Belongs(a, NodeBin)
  BY <1>0, <1>2, <1>3 DEF Placed, Listed
<1>5. ~InUse(a) /\ ~AtHead(a) /\ ~IsNode(a) /\ a \notin dropped
  BY <1>0, <1>3, <1>4 DEF Apiece, OnList
<1>6. node = NONE /\ NONE \notin D
  BY <1>0, <1>1, Nodes DEF InHand
<1>7. Belongs(a, 1)
  BY <1>2, <1>4 DEF Belongs
<1>8. \A d \in D : /\ (IsNode(d)' <=> IsNode(d) \/ d = a)
                   /\ (AtHead(d)' <=> AtHead(d)) /\ (InUse(d)' <=> InUse(d))
  BY <1>1, <1>6 DEF IsNode, AtHead, InUse, Payload
<1>9. Placed'
  <2>1. ASSUME NEW d \in D
        PROVE  /\ Listed(list', d) \/ InUse(d)' \/ AtHead(d)' \/ IsNode(d)' \/ d \in dropped
               /\ Listed(list', d) => ~InUse(d)' /\ ~AtHead(d)' /\ ~IsNode(d)' /\ d \notin dropped
               /\ InUse(d)'  => ~AtHead(d)' /\ ~IsNode(d)' /\ d \notin dropped
               /\ AtHead(d)' => ~IsNode(d)' /\ d \notin dropped
               /\ IsNode(d)' => d \notin dropped /\ ~Spills(d, size[d]) /\ Belongs(d, 1)
    BY <1>0, <1>1, <1>3, <1>4, <1>5, <1>7, <1>8 DEF Apiece, OnList, Placed
  <2>2. \A b \in Bins : \A d \in D : On(list', b, d) => Belongs(d, b)
    BY <1>0, <1>3 DEF Placed
  <2>3. \A b \in Bins : size[head[b]] = BinSize[b]
    BY <1>0 DEF Placed
  <2>4. a \notin nodes
    BY <1>5 DEF IsNode
  <2> QED BY <1>1, <1>3, <2>1, <2>2, <2>3, <2>4, Settled DEF Belongs
<1>10. Typed' /\ InHand'
  <2>1. a # NONE
    BY <1>3, <1>6
  <2> QED BY <1>0, <1>1, <1>3, <2>1 DEF Typed, InHand
<1>11. Cut' /\ Held'
  BY <1>0, <1>1, CutStays, HeldStays
<1> QED BY <1>9, <1>10, <1>11 DEF Inv

LEMMA FreeDoneKeeps ==
  ASSUME Inv, FreeDone
  PROVE  Inv'
<1> DEFINE D == DOMAIN size
<1>0. Typed /\ InHand /\ Cut /\ Placed /\ Apiece /\ Held
  BY DEF Inv, Placed
<1>1. /\ pc = "merge" /\ nodes' = nodes \cup {node} /\ node' = NONE /\ pc' = "run"
      /\ page' = [p \in Pages |-> IF p \in Cur THEN "free" ELSE page[p]]
      /\ UNCHANGED <<head, list, size, found, want, live, dropped>>
  BY DEF FreeDone
<1>2. node \in D /\ NONE \notin D /\ nodes \subseteq D
  BY <1>0, <1>1, Nodes DEF InHand, Typed
<1>3. \A d \in D : /\ (IsNode(d)' <=> IsNode(d))
                   /\ (AtHead(d)' <=> AtHead(d)) /\ (InUse(d)' <=> InUse(d))
  BY <1>1, <1>2 DEF IsNode, AtHead, InUse, Payload
<1>4. /\ page' \in [Pages -> {"free", "bin", "user", "cur"}]
      /\ \A p \in Pages : page[p] # "cur" => page'[p] = page[p]
  BY <1>0, <1>1 DEF Typed, Cur
<1>5. Placed'
  <2>1. ASSUME NEW d \in D
        PROVE  /\ Listed(list', d) \/ InUse(d)' \/ AtHead(d)' \/ IsNode(d)' \/ d \in dropped
               /\ Listed(list', d) => ~InUse(d)' /\ ~AtHead(d)' /\ ~IsNode(d)' /\ d \notin dropped
               /\ InUse(d)'  => ~AtHead(d)' /\ ~IsNode(d)' /\ d \notin dropped
               /\ AtHead(d)' => ~IsNode(d)' /\ d \notin dropped
               /\ IsNode(d)' => d \notin dropped /\ ~Spills(d, size[d]) /\ Belongs(d, 1)
    BY <1>0, <1>1, <1>3 DEF Apiece, OnList, Placed
  <2>2. \A b \in Bins : \A d \in D : On(list', b, d) => Belongs(d, b)
    BY <1>0, <1>1 DEF Placed
  <2>3. \A b \in Bins : size[head[b]] = BinSize[b]
    BY <1>0 DEF Placed
  <2>4. node' \notin nodes' /\ Once(list')
    BY <1>0, <1>1, <1>2 DEF Apiece
  <2> QED BY <1>1, <2>1, <2>2, <2>3, <2>4, Settled DEF Belongs
<1>6. Typed' /\ InHand'
  BY <1>0, <1>1, <1>2, <1>4 DEF Typed, InHand
<1>7. Cut' /\ Held'
  <2>1. \A h \in live : ~h.unit => page'[PageAt(h.ptr)] = page[PageAt(h.ptr)]
    BY <1>0, <1>4 DEF Held
  <2> QED BY <1>0, <1>1, <1>4, <2>1, CutStays, HeldStays
<1> QED BY <1>5, <1>6, <1>7 DEF Inv

LEMMA UnlinkKeeps ==
  ASSUME Inv, Unlink, ~spilt'
  PROVE  Inv'
<1> DEFINE D  == DOMAIN size
           a  == Head(list[NodeBin])
           L1 == Pop(list, NodeBin)
           L2 == Push(L1, 1, node)
           L3 == Push(L2, 1, found)
<1>0. Typed /\ InHand /\ Cut /\ Placed /\ Apiece /\ Held
  BY DEF Inv, Placed
<1>1. /\ pc = "unlink" /\ list[NodeBin] # <<>> /\ node' = a /\ nodes' = nodes \ {found}
      /\ list' = [list EXCEPT ![NodeBin] = Tail(@), ![1] = <<found>> \o (<<node>> \o @)]
      /\ ~Spills(a, size[a]) /\ pc' = "merge"
      /\ UNCHANGED <<head, size, want, live, dropped>>
  BY DEF Unlink, Lend
<1>2. PICK S \in SUBSET Free : page' = [p \in Pages |-> IF p \in S THEN "cur" ELSE page[p]]
  BY DEF Unlink
<1>3. NodeBin \in Bins /\ NodeBin = 2 /\ 1 \in Bins /\ NodeBin # 1
  BY OneAndTwo
<1>4. /\ found \in nodes /\ found \in D /\ node \in D /\ NONE \notin D /\ node \notin nodes
      /\ ~Listed(list, found) /\ ~Listed(list, node) /\ found # node
      /\ Belongs(found, 1) /\ Belongs(node, 1)
      /\ IsNode(found) /\ IsNode(node)
  BY <1>0, <1>1, Nodes DEF InHand, IsNode
<1>5. /\ L1 \in [Bins -> Seq(D)] /\ Once(L1) /\ a \in D /\ On(list, NodeBin, a)
      /\ \A d \in Bins : \A y : On(L1, d, y) => On(list, d, y)
      /\ \A y : Listed(L1, y) <=> Listed(list, y) /\ y # a
  <2>1. /\ list \in [Bins -> Seq(D)] /\ Once(list) /\ L1 = Pop(list, NodeBin)
        /\ list[NodeBin] # <<>> /\ NodeBin \in Bins
    BY <1>0, <1>1, <1>3 DEF Typed, Apiece
  <2> HIDE DEF L1, D
  <2> QED BY <2>1, Popped
<1>6. /\ L2 \in [Bins -> Seq(D)] /\ Once(L2)
      /\ \A d \in Bins : \A y : On(L2, d, y) <=> On(L1, d, y) \/ (d = 1 /\ y = node)
      /\ \A y : Listed(L2, y) <=> Listed(L1, y) \/ y = node
  <2>1. L2 = Push(L1, 1, node) /\ ~Listed(L1, node) /\ 1 \in Bins /\ node \in D
    BY <1>3, <1>4, <1>5
  <2> HIDE DEF L1, L2, D
  <2> QED BY <1>5, <2>1, Pushed
<1>7. /\ L3 \in [Bins -> Seq(D)] /\ Once(L3)
      /\ \A d \in Bins : \A y : On(L3, d, y) <=> On(L2, d, y) \/ (d = 1 /\ y = found)
      /\ \A y : Listed(L3, y) <=> Listed(L2, y) \/ y = found
  <2>1. L3 = Push(L2, 1, found) /\ ~Listed(L2, found) /\ 1 \in Bins /\ found \in D
    BY <1>3, <1>4, <1>5, <1>6
  <2> HIDE DEF L1, L2, L3, D
  <2> QED BY <1>6, <2>1, Pushed
<1>8. list' = L3
  <2>1. list \in [Bins -> Seq(D)] /\ list[1] \in Seq(D)
    BY <1>0, <1>3 DEF Typed
  <2> QED BY <1>1, <1>3, <2>1 DEF L1, L2, L3, Push, Pop
<1> HIDE DEF L1, L2, L3, a
<1>9. Listed(list, a) /\ Belongs(a, NodeBin)
  BY <1>0, <1>3, <1>5 DEF Placed, Listed
<1>10. ~InUse(a) /\ ~AtHead(a) /\ ~IsNode(a) /\ a \notin dropped /\ Belongs(a, 1)
  BY <1>0, <1>3, <1>5, <1>9 DEF Apiece, OnList, Belongs
<1>11. \A d \in D : /\ (IsNode(d)' <=> (IsNode(d) /\ d # found /\ d # node) \/ d = a)
                    /\ (AtHead(d)' <=> AtHead(d)) /\ (InUse(d)' <=> InUse(d))
  BY <1>1, <1>4 DEF IsNode, AtHead, InUse, Payload
<1>12. \A d : Listed(list', d) <=> (Listed(list, d) /\ d # a) \/ d = found \/ d = node
  BY <1>5, <1>6, <1>7, <1>8
<1>13. Placed'
  <2>1. ASSUME NEW d \in D
        PROVE  /\ Listed(list', d) \/ InUse(d)' \/ AtHead(d)' \/ IsNode(d)' \/ d \in dropped
               /\ Listed(list', d) => ~InUse(d)' /\ ~AtHead(d)' /\ ~IsNode(d)' /\ d \notin dropped
               /\ InUse(d)'  => ~AtHead(d)' /\ ~IsNode(d)' /\ d \notin dropped
               /\ AtHead(d)' => ~IsNode(d)' /\ d \notin dropped
               /\ IsNode(d)' => d \notin dropped /\ ~Spills(d, size[d]) /\ Belongs(d, 1)
    BY <1>0, <1>1, <1>4, <1>9, <1>10, <1>11, <1>12 DEF Apiece, OnList, Placed
  <2>2. \A b \in Bins : \A d \in D : On(list', b, d) => Belongs(d, b)
    BY <1>0, <1>4, <1>5, <1>6, <1>7, <1>8 DEF Placed
  <2>3. \A b \in Bins : size[head[b]] = BinSize[b]
    BY <1>0 DEF Placed
  <2>4. node' \notin nodes' /\ Once(list')
    BY <1>1, <1>7, <1>8, <1>10 DEF IsNode
  <2> QED BY <1>1, <2>1, <2>2, <2>3, <2>4, Settled DEF Belongs
<1>14. /\ page' \in [Pages -> {"free", "bin", "user", "cur"}]
       /\ \A p \in Pages : page[p] # "free" => page'[p] = page[p]
  BY <1>0, <1>2 DEF Typed, Free
<1>15. Typed' /\ InHand'
  <2>1. a # NONE
    BY <1>4, <1>5
  <2> QED BY <1>0, <1>1, <1>5, <1>7, <1>8, <1>14, <2>1 DEF Typed, InHand
<1>16. Cut' /\ Held'
  <2>1. \A h \in live : ~h.unit => page'[PageAt(h.ptr)] = page[PageAt(h.ptr)]
    BY <1>0, <1>14 DEF Held
  <2> QED BY <1>0, <1>1, <1>14, <2>1, CutStays, HeldStays
<1> QED BY <1>13, <1>15, <1>16 DEF Inv

LEMMA SplitKeeps ==
  ASSUME Inv, Split, ~spilt'
  PROVE  Inv'
<1> DEFINE D  == DOMAIN size
           n1 == Head(list[NodeBin])
           n2 == Head(Tail(list[NodeBin]))
           L1 == Pop(list, NodeBin)
           L2 == Pop(L1, NodeBin)
<1>0. Typed /\ InHand /\ Cut /\ Placed /\ Apiece /\ Held
  BY DEF Inv, Placed
<1>1. PICK m \in nodes :
        /\ pc = "alloc" /\ Len(list[NodeBin]) >= 2 /\ nodes' = (nodes \ {m}) \cup {n1, n2}
        /\ list' = [list EXCEPT ![NodeBin] = Tail(Tail(@)), ![1] = <<m>> \o @]
        /\ ~Spills(n1, size[n1]) /\ ~Spills(n2, size[n2])
        /\ UNCHANGED <<page, head, size, node, found, want, live, dropped, pc>>
  BY DEF Split
<1> DEFINE L3 == Push(L2, 1, m)
<1>2. NodeBin \in Bins /\ NodeBin = 2 /\ 1 \in Bins /\ NodeBin # 1
  BY OneAndTwo
<1>3. /\ m \in D /\ NONE \notin D /\ node = NONE /\ ~Listed(list, m) /\ Belongs(m, 1) /\ IsNode(m)
      /\ ~InUse(m) /\ ~AtHead(m) /\ m \notin dropped
  BY <1>0, <1>1, Nodes DEF InHand, IsNode
<1>4. list[NodeBin] # <<>> /\ Tail(list[NodeBin]) # <<>>
  <2> DEFINE s == list[NodeBin]
  <2>1. s \in Seq(D) /\ Len(s) >= 2
    BY <1>0, <1>1, <1>2 DEF Typed
  <2> HIDE DEF s
  <2>2. s # <<>>
    BY <2>1
  <2>3. Tail(s) \in Seq(D) /\ Len(Tail(s)) = Len(s) - 1
    BY <2>1, <2>2, HeadTailProperties
  <2> DEFINE t == Tail(s)
             n == Len(s)
  <2>4. t \in Seq(D) /\ Len(t) = n - 1 /\ n \in Nat /\ n >= 2
    BY <2>1, <2>3
  <2> HIDE DEF t, n
  <2>5. t # <<>>
    BY <2>4
  <2> QED BY <2>2, <2>5 DEF s, t
<1>5. /\ L1 \in [Bins -> Seq(D)] /\ Once(L1) /\ n1 \in D /\ On(list, NodeBin, n1)
      /\ \A d \in Bins : \A y : On(L1, d, y) => On(list, d, y)
      /\ \A y : Listed(L1, y) <=> Listed(list, y) /\ y # n1
      /\ L1[NodeBin] = Tail(list[NodeBin])
  <2>0. L1[NodeBin] = Tail(list[NodeBin])
    BY <1>0, <1>2 DEF Pop, Typed
  <2>1. /\ list \in [Bins -> Seq(D)] /\ Once(list) /\ L1 = Pop(list, NodeBin)
        /\ list[NodeBin] # <<>> /\ NodeBin \in Bins /\ n1 = Head(list[NodeBin])
    BY <1>0, <1>2, <1>4 DEF Typed, Apiece
  <2> HIDE DEF L1, D
  <2>2. /\ L1 \in [Bins -> Seq(D)] /\ Once(L1) /\ n1 \in D /\ On(list, NodeBin, n1)
        /\ \A d \in Bins : \A y : On(L1, d, y) => On(list, d, y)
        /\ \A y : Listed(L1, y) <=> Listed(list, y) /\ y # n1
    BY <2>1, Popped
  <2> QED BY <2>0, <2>2
<1>6. /\ L2 \in [Bins -> Seq(D)] /\ Once(L2) /\ n2 \in D /\ On(L1, NodeBin, n2)
      /\ \A d \in Bins : \A y : On(L2, d, y) => On(L1, d, y)
      /\ \A y : Listed(L2, y) <=> Listed(L1, y) /\ y # n2
  <2>1. /\ L2 = Pop(L1, NodeBin) /\ n2 = Head(L1[NodeBin])
        /\ L1[NodeBin] # <<>> /\ NodeBin \in Bins
        /\ L1 \in [Bins -> Seq(D)] /\ Once(L1)
    BY <1>2, <1>4, <1>5
  <2> HIDE DEF L1, L2, D, n2
  <2> QED BY <2>1, Popped
<1>7. /\ L3 \in [Bins -> Seq(D)] /\ Once(L3)
      /\ \A d \in Bins : \A y : On(L3, d, y) <=> On(L2, d, y) \/ (d = 1 /\ y = m)
      /\ \A y : Listed(L3, y) <=> Listed(L2, y) \/ y = m
  <2>1. L3 = Push(L2, 1, m) /\ ~Listed(L2, m) /\ 1 \in Bins /\ m \in D
    BY <1>2, <1>3, <1>5, <1>6
  <2> HIDE DEF L1, L2, L3, D
  <2> QED BY <1>6, <2>1, Pushed
<1>8. list' = L3
  <2>1. list \in [Bins -> Seq(D)]
    BY <1>0 DEF Typed
  <2> QED BY <1>1, <1>2, <2>1 DEF L1, L2, L3, Push, Pop
<1> HIDE DEF L1, L2, L3, n1, n2
<1>9. /\ Listed(list, n1) /\ Belongs(n1, NodeBin)
      /\ Listed(list, n2) /\ Belongs(n2, NodeBin) /\ n1 # n2
  BY <1>0, <1>2, <1>5, <1>6 DEF Placed, Listed
<1>10. \A n \in {n1, n2} : /\ ~InUse(n) /\ ~AtHead(n) /\ ~IsNode(n) /\ n \notin dropped /\ Belongs(n, 1)
                           /\ n \in D /\ Listed(list, n) /\ ~Spills(n, size[n])
  BY <1>0, <1>1, <1>2, <1>5, <1>6, <1>9 DEF Apiece, OnList, Belongs
<1>11. \A d \in D : /\ (IsNode(d)' <=> (IsNode(d) /\ d # m) \/ d = n1 \/ d = n2)
                    /\ (AtHead(d)' <=> AtHead(d)) /\ (InUse(d)' <=> InUse(d))
  BY <1>1, <1>3 DEF IsNode, AtHead, InUse, Payload
<1>12. \A d : Listed(list', d) <=> (Listed(list, d) /\ d # n1 /\ d # n2) \/ d = m
  BY <1>5, <1>6, <1>7, <1>8
<1>13. Placed'
  <2>1. ASSUME NEW d \in D
        PROVE  /\ Listed(list', d) \/ InUse(d)' \/ AtHead(d)' \/ IsNode(d)' \/ d \in dropped
               /\ Listed(list', d) => ~InUse(d)' /\ ~AtHead(d)' /\ ~IsNode(d)' /\ d \notin dropped
               /\ InUse(d)'  => ~AtHead(d)' /\ ~IsNode(d)' /\ d \notin dropped
               /\ AtHead(d)' => ~IsNode(d)' /\ d \notin dropped
               /\ IsNode(d)' => d \notin dropped /\ ~Spills(d, size[d]) /\ Belongs(d, 1)
    BY <1>0, <1>3, <1>10, <1>11, <1>12 DEF Apiece, OnList, Placed
  <2>2. \A b \in Bins : \A d \in D : On(list', b, d) => Belongs(d, b)
    BY <1>0, <1>3, <1>5, <1>6, <1>7, <1>8 DEF Placed
  <2>3. \A b \in Bins : size[head[b]] = BinSize[b]
    BY <1>0 DEF Placed
  <2>4. node' \notin nodes' /\ Once(list')
    BY <1>1, <1>3, <1>7, <1>8, <1>10, Nodes
  <2> QED BY <1>1, <2>1, <2>2, <2>3, <2>4, Settled DEF Belongs
<1>14. Typed'
  BY <1>0, <1>1, <1>7, <1>8, <1>10 DEF Typed
<1>15. InHand'
  <2>1. \A b \in Bins : b \notin {1, NodeBin} => list'[b] = list[b]
    BY <1>0, <1>1 DEF Typed
  <2>2. want.bin \notin {0, 1} => list'[want.bin] = <<>>
    <3>1. want.bin # NodeBin
      BY <1>0, <1>1, <1>2, <1>4 DEF InHand, Wanted
    <3> QED BY <1>0, <1>1, <2>1, <3>1 DEF InHand, Wanted
  <2>3. Wanted'
    BY <1>0, <1>1, <2>2 DEF InHand, Wanted, Holds
  <2> QED BY <1>1, <1>3, <2>3 DEF InHand
<1>16. Cut' /\ Held'
  BY <1>0, <1>1, CutStays, HeldStays
<1> QED BY <1>13, <1>14, <1>15, <1>16 DEF Inv

----------------------------------------------------------------------------
(* The steps of node_free *)

LEMMA UnitFreeKeeps ==
  ASSUME Inv, NEW g \in live, UnitFree(g)
  PROVE  Inv'
<1> DEFINE D == DOMAIN size
<1>0. Typed /\ InHand /\ Cut /\ Placed /\ Apiece /\ Held
  BY DEF Inv, Placed
<1>1. PICK b \in Bins : /\ size[g.ptr - HeaderSize] = BinSize[b]
                        /\ list' = [list EXCEPT ![b] = <<HeaderOf(g.ptr)>> \o @]
  BY DEF UnitFree
<1>2. /\ pc = "run" /\ ~IsPage(g.ptr) /\ live' = live \ {g}
      /\ UNCHANGED <<page, head, size, nodes, node, found, want, dropped, pc>>
  BY DEF UnitFree
<1>3. g.unit
  BY <1>0, <1>2 DEF Held, IsPage
<1>4. PICK a \in D : g.ptr = Payload(a)
  BY <1>0, <1>3 DEF Held
<1>5. HeaderOf(g.ptr) = a /\ g.ptr - HeaderSize = a
  <2>1. Payload(a) = a + HeaderSize /\ a \in Nat /\ HeaderSize \in Nat
    BY <1>0, Payloads, BinsAssumption
  <2> QED BY <1>4, <2>1 DEF HeaderOf
<1>6. InUse(a) /\ Belongs(a, b)
  BY <1>1, <1>3, <1>4, <1>5 DEF InUse, Belongs
<1>7. ~Listed(list, a) /\ ~AtHead(a) /\ ~IsNode(a) /\ a \notin dropped
  BY <1>0, <1>6 DEF Apiece, OnList
<1>8. /\ list' \in [Bins -> Seq(D)] /\ Once(list')
      /\ \A d \in Bins : \A x : On(list', d, x) <=> On(list, d, x) \/ (d = b /\ x = a)
      /\ \A x : Listed(list', x) <=> Listed(list, x) \/ x = a
  <2>1. list \in [Bins -> Seq(D)] /\ Once(list) /\ list' = Push(list, b, a)
    BY <1>0, <1>1, <1>5 DEF Typed, Apiece, Push
  <2> HIDE DEF D
  <2> QED BY <1>4, <1>7, <2>1, Pushed
<1>9. \A d \in D : /\ (IsNode(d)' <=> IsNode(d)) /\ (AtHead(d)' <=> AtHead(d))
                   /\ (InUse(d)' <=> InUse(d) /\ d # a)
  <2>1. ASSUME NEW d \in D PROVE InUse(d)' <=> InUse(d) /\ d # a
    <3>1. InUse(d)' <=> \E h \in live' : h.unit /\ h.ptr = Payload(d)
      BY DEF InUse, Payload
    <3>2. \A h \in live : h.ptr = g.ptr => h = g
      BY <1>0 DEF Held
    <3>3. Payload(d) = Payload(a) => d = a
      BY <1>0, Payloads
    <3> QED BY <1>2, <1>4, <3>1, <3>2, <3>3 DEF InUse
  <2> QED BY <1>2, <2>1 DEF IsNode, AtHead
<1>10. Placed'
  <2>1. ASSUME NEW d \in D
        PROVE  /\ Listed(list', d) \/ InUse(d)' \/ AtHead(d)' \/ IsNode(d)' \/ d \in dropped
               /\ Listed(list', d) => ~InUse(d)' /\ ~AtHead(d)' /\ ~IsNode(d)' /\ d \notin dropped
               /\ InUse(d)'  => ~AtHead(d)' /\ ~IsNode(d)' /\ d \notin dropped
               /\ AtHead(d)' => ~IsNode(d)' /\ d \notin dropped
               /\ IsNode(d)' => d \notin dropped /\ ~Spills(d, size[d]) /\ Belongs(d, 1)
    BY <1>0, <1>7, <1>8, <1>9 DEF Apiece, OnList, Placed
  <2>2. \A e \in Bins : \A d \in D : On(list', e, d) => Belongs(d, e)
    BY <1>0, <1>6, <1>8 DEF Placed
  <2>3. \A e \in Bins : size[head[e]] = BinSize[e]
    BY <1>0 DEF Placed
  <2>4. node' \notin nodes' /\ Once(list')
    BY <1>0, <1>2, <1>8 DEF Apiece
  <2> QED BY <1>2, <2>1, <2>2, <2>3, <2>4, Settled DEF Belongs
<1>11. Typed' /\ InHand'
  BY <1>0, <1>2, <1>8 DEF Typed, InHand
<1>12. Cut' /\ Held'
  BY <1>0, <1>2, CutStays, HeldStays
<1> QED BY <1>10, <1>11, <1>12 DEF Inv

LEMMA PageFreeKeeps ==
  ASSUME Inv, NEW g \in live, PageFree(g)
  PROVE  Inv'
<1> DEFINE D == DOMAIN size
           p == PageAt(g.ptr)
<1>0. Typed /\ InHand /\ Cut /\ Placed /\ Apiece /\ Held
  BY DEF Inv, Placed
<1>1. ~g.unit
  <2> SUFFICES ASSUME g.unit PROVE FALSE
    OBVIOUS
  <2>1. PICK a \in D : g.ptr = Payload(a) /\ ~Spills(a, size[a])
    BY <1>0 DEF Held
  <2>2. Payload(a) % PageSize # 0
    BY <1>0, <2>1, Payloads
  <2> QED BY <2>1, <2>2 DEF PageFree, IsPage
<1>2. /\ pc = "run" /\ pc' = "free" /\ live' = live \ {g} /\ page' = [page EXCEPT ![p] = "cur"]
      /\ UNCHANGED <<head, list, size, nodes, node, found, want, dropped>>
  BY <1>1 DEF PageFree, PageAt
<1>3. p \in Pages /\ page[p] = "user" /\ g.ptr % PageSize = 0
  BY <1>0, <1>1 DEF Held
<1>4. ASSUME NEW h \in live', ~h.unit PROVE PageAt(h.ptr) # p
  <2>1. h \in live /\ h # g /\ h.ptr # g.ptr /\ h.ptr % PageSize = 0
    BY <1>0, <1>2, <1>4 DEF Held
  <2>2. h.ptr \in Nat /\ g.ptr \in Nat /\ PageSize \in Nat \ {0}
    BY <1>0, <2>1, BinsAssumption DEF Typed
  <2>3. /\ h.ptr = PageSize * PageAt(h.ptr) + (h.ptr % PageSize)
        /\ g.ptr = PageSize * PageAt(g.ptr) + (g.ptr % PageSize)
    BY <2>2, Divide DEF PageAt
  <2> QED BY <1>3, <2>1, <2>3
<1> HIDE DEF p
<1>5. /\ page' \in [Pages -> {"free", "bin", "user", "cur"}]
      /\ \A q \in Pages : q # p => page'[q] = page[q]
      /\ \A q \in Pages : page[q] = "bin" => page'[q] = "bin"
  BY <1>0, <1>2, <1>3 DEF Typed
<1>6. \A d \in D : /\ (IsNode(d)' <=> IsNode(d)) /\ (AtHead(d)' <=> AtHead(d))
                   /\ (InUse(d)' <=> InUse(d))
  BY <1>1, <1>2 DEF IsNode, AtHead, InUse, Payload
<1>7. Placed'
  <2>1. ASSUME NEW d \in D
        PROVE  /\ Listed(list', d) \/ InUse(d)' \/ AtHead(d)' \/ IsNode(d)' \/ d \in dropped
               /\ Listed(list', d) => ~InUse(d)' /\ ~AtHead(d)' /\ ~IsNode(d)' /\ d \notin dropped
               /\ InUse(d)'  => ~AtHead(d)' /\ ~IsNode(d)' /\ d \notin dropped
               /\ AtHead(d)' => ~IsNode(d)' /\ d \notin dropped
               /\ IsNode(d)' => d \notin dropped /\ ~Spills(d, size[d]) /\ Belongs(d, 1)
    BY <1>0, <1>2, <1>6 DEF Apiece, OnList, Placed
  <2>2. \A e \in Bins : \A d \in D : On(list', e, d) => Belongs(d, e)
    BY <1>0, <1>2 DEF Placed
  <2>3. \A e \in Bins : size[head[e]] = BinSize[e]
    BY <1>0 DEF Placed
  <2>4. node' \notin nodes' /\ Once(list')
    BY <1>0, <1>2 DEF Apiece
  <2> QED BY <1>2, <2>1, <2>2, <2>3, <2>4, Settled DEF Belongs
<1>8. Typed' /\ InHand'
  BY <1>0, <1>2, <1>5 DEF Typed, InHand
<1>9. Cut' /\ Held'
  <2>1. \A h \in live' : ~h.unit => page'[PageAt(h.ptr)] = page[PageAt(h.ptr)]
    BY <1>0, <1>2, <1>4, <1>5 DEF Held
  <2> QED BY <1>0, <1>2, <1>5, <2>1, CutStays, HeldStays
<1> QED BY <1>7, <1>8, <1>9 DEF Inv

LEMMA NodeRefillKeeps ==
  ASSUME Inv, NodeRefill
  PROVE  Inv'
<1> DEFINE D == DOMAIN size
           E == DOMAIN size'
           s == size[head[NodeBin]]
<1>0. Typed /\ InHand /\ Cut /\ Placed /\ Apiece /\ Held
  BY DEF Inv, Placed
<1>1. PICK m \in nodes, p \in Free :
        /\ pc \in {"free", "unlink"} /\ list[NodeBin] = <<>> /\ nodes' = nodes \ {m}
        /\ page' = [page EXCEPT ![p] = "bin"] /\ size' = Sized(p, s)
        /\ list' = [list EXCEPT ![NodeBin] = Units(p, s), ![1] = <<m>> \o @]
        /\ pc' \in IF m = found THEN {"wild"} ELSE IF found = NONE THEN {pc} ELSE {pc, "wild"}
        /\ UNCHANGED <<head, node, found, want, live, dropped>>
  BY DEF NodeRefill
<1> DEFINE u  == Units(p, s)
           L1 == Refill(list, NodeBin, u)
           L2 == Push(L1, 1, m)
<1>2. NodeBin \in Bins /\ NodeBin = 2 /\ 1 \in Bins /\ NodeBin # 1
  BY OneAndTwo
<1>3. p \in Pages /\ page[p] = "free" /\ s = BinSize[NodeBin] /\ s \in Sizes
  BY <1>0, <1>2 DEF Free, Placed, Sizes, Range, Bins
<1> HIDE DEF s
<1>4. /\ m \in D /\ NONE \notin D /\ ~Listed(list, m) /\ Belongs(m, 1) /\ IsNode(m)
      /\ ~InUse(m) /\ ~AtHead(m) /\ m \notin dropped /\ m # node
  BY Nodes DEF IsNode
<1>5. /\ Cut' /\ page' \in [Pages -> {"free", "bin", "user", "cur"}]
      /\ \A q \in Pages : q # p => page'[q] = page[q]
      /\ u \in Seq(E) /\ Distinct(u)
      /\ \A a : Has(u, a) => a \notin D /\ a \in Nat /\ size'[a] = s
      /\ \A a : a \in E <=> a \in D \/ Has(u, a)
      /\ \A a \in D : size'[a] = size[a]
  <2>1. /\ Typed /\ Cut /\ p \in Pages /\ page[p] = "free" /\ s \in Sizes
        /\ page' = [page EXCEPT ![p] = "bin"] /\ size' = Sized(p, s) /\ u = Units(p, s)
    BY <1>0, <1>1, <1>3
  <2> HIDE DEF u
  <2> QED BY <2>1, PageCut
<1> HIDE DEF u
<1>6. list \in [Bins -> Seq(E)] /\ Once(list) /\ D \subseteq E
      /\ \A d \in Bins : \A x : On(list, d, x) => x \in D
  <2>1. list \in [Bins -> Seq(D)] /\ Once(list)
    BY <1>0 DEF Typed, Apiece
  <2>2. D \subseteq E
    BY <1>5
  <2>3. \A b \in Bins : list[b] \in Seq(E)
    <3> HIDE DEF D, E
    <3> QED BY <2>1, <2>2, Widened
  <2>4. list = [b \in Bins |-> list[b]]
    BY <2>1
  <2>5. list \in [Bins -> Seq(E)]
    <3> HIDE DEF D, E
    <3> QED BY <2>3, <2>4
  <2>6. ASSUME NEW d \in Bins, NEW x, On(list, d, x) PROVE x \in D
    <3>1. PICK i \in 1 .. Len(list[d]) : list[d][i] = x
      BY <2>6 DEF On, At
    <3>2. list[d] \in Seq(D)
      BY <2>1
    <3> HIDE DEF D
    <3> QED BY <3>1, <3>2
  <2> QED BY <2>1, <2>2, <2>5, <2>6
<1>7. /\ L1 \in [Bins -> Seq(E)] /\ Once(L1)
      /\ \A x : On(L1, NodeBin, x) <=> Has(u, x)
      /\ \A d \in Bins : d # NodeBin => \A x : On(L1, d, x) <=> On(list, d, x)
      /\ \A x : Listed(L1, x) <=>
           Has(u, x) \/ (\E d \in Bins : d # NodeBin /\ On(list, d, x))
  <2>1. \A d \in Bins : \A x : d # NodeBin /\ Has(u, x) => ~On(list, d, x)
    BY <1>5, <1>6
  <2>2. L1 = Refill(list, NodeBin, u) /\ NodeBin \in Bins /\ u \in Seq(E)
    BY <1>2, <1>5
  <2>3. Distinct(u)
    BY <1>5
  <2>4. list \in [Bins -> Seq(E)] /\ Once(list)
    BY <1>6
  <2> HIDE DEF L1, E, D
  <2> QED BY <2>1, <2>2, <2>3, <2>4, Refilled
<1>8. \A x : Listed(L1, x) <=> Has(u, x) \/ Listed(list, x)
  <2>1. \A x : ~On(list, NodeBin, x)
    <3>1. Len(list[NodeBin]) = 0
      BY <1>1
    <3> QED BY <3>1 DEF On, At
  <2> QED BY <1>2, <1>7, <2>1 DEF Listed
<1>9. /\ L2 \in [Bins -> Seq(E)] /\ Once(L2)
      /\ \A d \in Bins : \A y : On(L2, d, y) <=> On(L1, d, y) \/ (d = 1 /\ y = m)
      /\ \A y : Listed(L2, y) <=> Listed(L1, y) \/ y = m
  <2>1. L2 = Push(L1, 1, m) /\ ~Listed(L1, m) /\ 1 \in Bins /\ m \in E
    BY <1>2, <1>4, <1>5, <1>6, <1>8
  <2> HIDE DEF L1, L2, D, E
  <2> QED BY <1>7, <2>1, Pushed
<1>10. list' = L2
  BY <1>1, <1>2, <1>6 DEF L1, L2, Push, Refill, u
<1> HIDE DEF L1, L2
<1>11. \A d \in E : /\ (IsNode(d)' <=> IsNode(d) /\ d # m)
                    /\ (AtHead(d)' <=> AtHead(d)) /\ (InUse(d)' <=> InUse(d))
  BY <1>1, <1>4 DEF IsNode, AtHead, InUse, Payload
<1>12. \A d : Listed(list', d) <=>
         Has(u, d) \/ Listed(list, d) \/ d = m
  BY <1>8, <1>9, <1>10
<1>13. ASSUME NEW d \in E, d \notin D
       PROVE  /\ ~InUse(d) /\ ~AtHead(d) /\ ~IsNode(d) /\ d \notin dropped
              /\ Has(u, d)
  <2>1. ~InUse(d)
    BY <1>0, <1>5, <1>13, InUseCut
  <2>2. ~AtHead(d) /\ d \notin dropped /\ d \notin nodes
    BY <1>0, <1>13 DEF Typed, AtHead
  <2>3. d # node
    <3>1. node \in D \cup {NONE} /\ d \in Nat
      BY <1>0, <1>5, <1>13 DEF Typed
    <3> QED BY <1>13, <3>1 DEF NONE
  <2> QED BY <1>5, <1>13, <2>1, <2>2, <2>3 DEF IsNode
<1>14. \A d \in D : /\ (\A b \in Bins : Belongs(d, b)' <=> Belongs(d, b))
                    /\ ~Has(u, d) /\ size'[d] = size[d]
  BY <1>5 DEF Belongs
<1>15. Placed'
  <2>1. ASSUME NEW d \in E
        PROVE  /\ Listed(list', d) \/ InUse(d)' \/ AtHead(d)' \/ IsNode(d)' \/ d \in dropped
               /\ Listed(list', d) => ~InUse(d)' /\ ~AtHead(d)' /\ ~IsNode(d)' /\ d \notin dropped
               /\ InUse(d)'  => ~AtHead(d)' /\ ~IsNode(d)' /\ d \notin dropped
               /\ AtHead(d)' => ~IsNode(d)' /\ d \notin dropped
               /\ IsNode(d)' => d \notin dropped /\ ~Spills(d, size'[d]) /\ Belongs(d, 1)'
    <3>1. CASE d \in D
      BY <1>0, <1>2, <1>4, <1>11, <1>12, <1>14, <3>1 DEF Apiece, OnList, Placed
    <3>2. CASE d \notin D
      BY <1>11, <1>12, <1>13, <3>2
    <3> QED BY <3>1, <3>2
  <2>2. ASSUME NEW b \in Bins, NEW d \in E, On(list', b, d) PROVE Belongs(d, b)'
    <3>1. CASE Has(u, d)
      <4>1. d \notin D /\ size'[d] = s
        BY <1>5, <3>1
      <4>2. b = NodeBin
        BY <1>4, <1>6, <1>7, <1>9, <1>10, <2>2, <4>1
      <4> QED BY <1>3, <4>1, <4>2 DEF Belongs
    <3>2. CASE ~Has(u, d)
      <4>1. On(list, b, d) \/ (b = 1 /\ d = m)
        BY <1>7, <1>9, <1>10, <2>2, <3>2
      <4>2. d \in D
        BY <1>4, <1>6, <4>1
      <4> QED BY <1>0, <1>4, <1>14, <4>1, <4>2 DEF Placed
    <3> QED BY <3>1, <3>2
  <2>3. \A b \in Bins : size'[head'[b]] = BinSize[b]
    BY <1>0, <1>1, <1>5 DEF Placed, Typed
  <2>4. node' \notin nodes' /\ Once(list')
    BY <1>0, <1>1, <1>9, <1>10 DEF Apiece
  <2> QED BY <1>1, <2>1, <2>2, <2>3, <2>4, Settled
<1>16. Typed'
  BY <1>0, <1>1, <1>5, <1>6, <1>9, <1>10 DEF Typed
<1>17. InHand'
  BY <1>0, <1>1 DEF InHand
<1>18. Held'
  <2>1. \A h \in live : ~h.unit => page'[PageAt(h.ptr)] = page[PageAt(h.ptr)]
    BY <1>0, <1>3, <1>5 DEF Held
  <2> QED BY <1>0, <1>1, <1>5, <1>6, <2>1, HeldStays
<1> QED BY <1>5, <1>15, <1>16, <1>17, <1>18 DEF Inv

\* Units of a larger set of units, as the page is cut.
LEMMA ListsGrow ==
  ASSUME Typed, DOMAIN size \subseteq DOMAIN size'
  PROVE  /\ list \in [Bins -> Seq(DOMAIN size')]
         /\ \A d \in Bins : \A x : On(list, d, x) => x \in DOMAIN size
<1> DEFINE D == DOMAIN size
           E == DOMAIN size'
<1>1. list \in [Bins -> Seq(D)] /\ D \subseteq E
  BY DEF Typed
<1> HIDE DEF D, E
<1>2. \A b \in Bins : list[b] \in Seq(E)
  BY <1>1, Widened
<1>3. list = [b \in Bins |-> list[b]]
  BY <1>1
<1>4. list \in [Bins -> Seq(E)]
  BY <1>2, <1>3
<1>5. ASSUME NEW d \in Bins, NEW x, On(list, d, x) PROVE x \in D
  <2>1. PICK i \in 1 .. Len(list[d]) : list[d][i] = x
    BY <1>5 DEF On, At
  <2> QED BY <1>1, <2>1
<1> QED BY <1>4, <1>5 DEF D, E

\* The units of a page behind its first one.
LEMMA Behind ==
  ASSUME NEW D, NEW u \in Seq(D), u # <<>>, Distinct(u), NEW t, t = Tail(u)
  PROVE  /\ t \in Seq(D) /\ Distinct(t) /\ Head(u) \in D /\ Has(u, Head(u))
         /\ \A x : Has(t, x) <=> Has(u, x) /\ x # Head(u)
<1> DEFINE n == Len(u)
           a == Head(u)
<1>1. /\ t \in Seq(D) /\ n \in Nat /\ n >= 1 /\ Len(t) = n - 1
      /\ \A i \in 1 .. Len(t) : t[i] = u[i + 1]
      /\ a = u[1] /\ a \in D
  OBVIOUS
<1>2. \A i, j \in 1 .. n : i # j => u[i] # u[j]
  BY DEF Distinct
<1> HIDE DEF a, n
<1>3. ASSUME NEW i \in 1 .. Len(t) PROVE i + 1 \in 1 .. n /\ i + 1 # 1 /\ t[i] = u[i + 1]
  BY <1>1
<1>4. Distinct(t)
  <2> SUFFICES ASSUME NEW i \in 1 .. Len(t), NEW j \in 1 .. Len(t), i # j PROVE t[i] # t[j]
    BY DEF Distinct
  <2>1. i + 1 # j + 1
    BY <1>1
  <2> QED BY <1>2, <1>3, <2>1
<1>5. 1 \in 1 .. n
  BY <1>1
<1>6. ASSUME NEW x, Has(t, x) PROVE Has(u, x) /\ x # a
  <2>1. PICK i \in 1 .. Len(t) : t[i] = x
    BY <1>6 DEF Has
  <2> QED BY <1>1, <1>2, <1>3, <1>5, <2>1 DEF Has, n
<1>7. ASSUME NEW x, Has(u, x), x # a PROVE Has(t, x)
  <2>1. PICK i \in 1 .. n : u[i] = x
    BY <1>7 DEF Has, n
  <2>2. i # 1
    BY <1>1, <1>7, <2>1
  <2>3. i - 1 \in 1 .. Len(t) /\ (i - 1) + 1 = i
    BY <1>1, <2>1, <2>2
  <2> QED BY <1>1, <2>1, <2>3 DEF Has
<1>8. Has(u, a)
  BY <1>1, <1>5 DEF Has, n
<1> QED BY <1>1, <1>4, <1>6, <1>7, <1>8 DEF a

\* The lists when a page has been cut for bin b, its first unit handed out: m is the
\* node of its block.
AfterCut(L, b, t, m) == IF b = 1 THEN Refill(L, b, t) ELSE Push(Refill(L, b, t), 1, m)

LEMMA ListsCut ==
  ASSUME NEW E, NEW L \in [Bins -> Seq(E)], Once(L),
         NEW b \in Bins, b # 1 => L[b] = <<>>, NEW t \in Seq(E), Distinct(t),
         \A x : Has(t, x) => ~Listed(L, x), NEW m \in E, ~Listed(L, m), ~Has(t, m),
         NEW M, M = AfterCut(L, b, t, m)
  PROVE  /\ M \in [Bins -> Seq(E)] /\ Once(M)
         /\ \A d \in Bins : \A x : On(M, d, x) =>
              (d = b /\ Has(t, x)) \/ On(L, d, x) \/ (d = 1 /\ x = m)
         /\ b = 1 => \A x : Listed(M, x) <=> Has(t, x) \/ (Listed(L, x) /\ ~On(L, 1, x))
         /\ b # 1 => \A x : Listed(M, x) <=> Has(t, x) \/ Listed(L, x) \/ x = m
<1> DEFINE K == Refill(L, b, t)
<1>1. \A d \in Bins : \A x : d # b /\ Has(t, x) => ~On(L, d, x)
  BY DEF Listed
<1>2. /\ K \in [Bins -> Seq(E)] /\ Once(K)
      /\ \A x : On(K, b, x) <=> Has(t, x)
      /\ \A d \in Bins : d # b => \A x : On(K, d, x) <=> On(L, d, x)
      /\ \A x : Listed(K, x) <=> Has(t, x) \/ (\E d \in Bins : d # b /\ On(L, d, x))
  <2>1. K = Refill(L, b, t) /\ L \in [Bins -> Seq(E)] /\ Once(L) /\ t \in Seq(E) /\ Distinct(t)
    OBVIOUS
  <2> HIDE DEF K
  <2>2. K \in [Bins -> Seq(E)] /\ Once(K) /\ \A x : On(K, b, x) <=> Has(t, x)
    BY <1>1, <2>1, Refilled
  <2>3. \A d \in Bins : d # b => \A x : On(K, d, x) <=> On(L, d, x)
    <3>1. \A d \in Bins : d # b => K[d] = L[d]
      BY <2>1 DEF Refill
    <3> QED BY <3>1 DEF On, At
  <2>4. \A x : Listed(K, x) <=> Has(t, x) \/ (\E d \in Bins : d # b /\ On(L, d, x))
    BY <2>2, <2>3 DEF Listed
  <2> QED BY <2>2, <2>3, <2>4
<1>3. CASE b = 1
  <2>1. M = K
    BY <1>3 DEF AfterCut
  <2>2. \A x : (\E d \in Bins : d # 1 /\ On(L, d, x)) <=> Listed(L, x) /\ ~On(L, 1, x)
    <3>1. \A d \in Bins : \A x : On(L, d, x) /\ On(L, 1, x) => d = 1
      BY OneAndTwo DEF On, Once
    <3> QED BY <3>1 DEF Listed
  <2> HIDE DEF K
  <2> QED BY <1>2, <1>3, <2>1, <2>2
<1>4. CASE b # 1
  <2>1. M = Push(K, 1, m)
    BY <1>4 DEF AfterCut
  <2> HIDE DEF K
  <2>2. \A x : ~On(L, b, x)
    <3>1. Len(L[b]) = 0
      BY <1>4
    <3> QED BY <3>1 DEF On, At
  <2>3. \A x : Listed(K, x) <=> Has(t, x) \/ Listed(L, x)
    BY <1>2, <2>2 DEF Listed
  <2>4. ~Listed(K, m) /\ 1 \in Bins /\ m \in E
    BY <2>3, OneAndTwo
  <2>5. /\ M \in [Bins -> Seq(E)] /\ Once(M)
        /\ \A d \in Bins : \A x : On(M, d, x) <=> On(K, d, x) \/ (d = 1 /\ x = m)
        /\ \A x : Listed(M, x) <=> Listed(K, x) \/ x = m
    <3>1. K \in [Bins -> Seq(E)] /\ Once(K)
      BY <1>2
    <3> QED BY <2>1, <2>4, <3>1, Pushed
  <2>6. \A d \in Bins : \A x : On(K, d, x) => (d = b /\ Has(t, x)) \/ On(L, d, x)
    BY <1>2
  <2> QED BY <1>4, <2>3, <2>5, <2>6
<1> QED BY <1>3, <1>4

LEMMA TakePageKeeps ==
  ASSUME Inv, NEW m \in nodes, NEW p \in Free, pc = "alloc", TakePage(m, p),
         nodes' = nodes \ {m}, pc' = "run", UNCHANGED <<head, node, found>>
  PROVE  Inv'
<1> DEFINE D == DOMAIN size
           g == [ptr |-> p * PageSize, asked |-> want.size, unit |-> FALSE]
<1>0. Typed /\ InHand /\ Cut /\ Placed /\ Apiece /\ Held
  BY DEF Inv, Placed
<1>1. /\ page' = [page EXCEPT ![p] = "user"] /\ list' = Push(list, 1, m)
      /\ live' = live \cup {g} /\ UNCHANGED <<size, dropped>>
  BY DEF TakePage, Grant, Push
<1>2. p \in Pages /\ page[p] = "free" /\ p \in Nat /\ PageSize \in Nat \ {0} /\ node = NONE
  BY <1>0, BinsAssumption DEF Free, Pages, InHand
<1>3. p * PageSize \in Nat /\ (p * PageSize) % PageSize = 0 /\ PageAt(p * PageSize) = p
  <2>1. p * PageSize = PageSize * p + 0 /\ 0 \in 0 .. PageSize - 1 /\ p * PageSize \in Nat
    BY <1>2
  <2> QED BY <1>2, <2>1, DivideBack DEF PageAt
<1>4. /\ g.ptr = p * PageSize /\ g.asked = want.size /\ g.unit = FALSE
      /\ want.size \in 1 .. PageSize /\ g \in [ptr : Nat, asked : Nat, unit : BOOLEAN]
  <2>1. want.size \in 1 .. PageSize /\ want.size \in Nat
    BY <1>0, <1>2 DEF InHand, Wanted
  <2> QED BY <1>3, <2>1
<1> HIDE DEF g
<1>5. /\ page' \in [Pages -> {"free", "bin", "user", "cur"}] /\ page'[p] = "user"
      /\ \A q \in Pages : q # p => page'[q] = page[q]
      /\ \A q \in Pages : page[q] \in {"bin", "user"} => page'[q] = page[q]
  BY <1>0, <1>1, <1>2 DEF Typed
<1>6. /\ m \in D /\ ~Listed(list, m) /\ Belongs(m, 1) /\ IsNode(m)
      /\ ~InUse(m) /\ ~AtHead(m) /\ m \notin dropped /\ NONE \notin D
  BY Nodes DEF IsNode
<1>7. /\ list' \in [Bins -> Seq(D)] /\ Once(list')
      /\ \A d \in Bins : \A x : On(list', d, x) <=> On(list, d, x) \/ (d = 1 /\ x = m)
      /\ \A x : Listed(list', x) <=> Listed(list, x) \/ x = m
  <2>1. list \in [Bins -> Seq(D)] /\ Once(list) /\ 1 \in Bins
    BY <1>0, OneAndTwo DEF Typed, Apiece
  <2> HIDE DEF D
  <2> QED BY <1>1, <1>6, <2>1, Pushed
<1>8. \A d \in D : /\ (IsNode(d)' <=> IsNode(d) /\ d # m) /\ (AtHead(d)' <=> AtHead(d))
                   /\ (InUse(d)' <=> InUse(d))
  <2>1. \A d \in D : InUse(d)' <=> InUse(d)
    BY <1>1, <1>4 DEF InUse, Payload
  <2> QED BY <1>2, <1>6, <2>1 DEF IsNode, AtHead
<1>9. Placed'
  <2>1. ASSUME NEW d \in D
        PROVE  /\ Listed(list', d) \/ InUse(d)' \/ AtHead(d)' \/ IsNode(d)' \/ d \in dropped
               /\ Listed(list', d) => ~InUse(d)' /\ ~AtHead(d)' /\ ~IsNode(d)' /\ d \notin dropped
               /\ InUse(d)'  => ~AtHead(d)' /\ ~IsNode(d)' /\ d \notin dropped
               /\ AtHead(d)' => ~IsNode(d)' /\ d \notin dropped
               /\ IsNode(d)' => d \notin dropped /\ ~Spills(d, size[d]) /\ Belongs(d, 1)
    BY <1>0, <1>6, <1>7, <1>8 DEF Apiece, OnList, Placed
  <2>2. \A e \in Bins : \A d \in D : On(list', e, d) => Belongs(d, e)
    BY <1>0, <1>6, <1>7 DEF Placed
  <2>3. \A e \in Bins : size[head[e]] = BinSize[e]
    BY <1>0 DEF Placed
  <2>4. node' \notin nodes' /\ Once(list')
    BY <1>0, <1>7 DEF Apiece
  <2> QED BY <1>1, <2>1, <2>2, <2>3, <2>4, Settled DEF Belongs
<1>10. Typed' /\ InHand'
  BY <1>0, <1>1, <1>2, <1>4, <1>5, <1>7 DEF Typed, InHand
<1>11. Cut'
  BY <1>0, <1>1, <1>5, CutStays
<1>12. Held'
  <2>1. ASSUME NEW h \in live PROVE h.ptr # g.ptr
    <3>1. CASE h.unit
      <4>1. PICK a \in D : h.ptr = Payload(a) /\ ~Spills(a, size[a])
        BY <1>0, <3>1 DEF Held
      <4>2. Payload(a) % PageSize # 0
        BY <1>0, <4>1, Payloads
      <4> QED BY <1>3, <1>4, <4>1, <4>2
    <3>2. CASE ~h.unit
      <4>1. page[PageAt(h.ptr)] = "user"
        BY <1>0, <3>2 DEF Held
      <4> QED BY <1>2, <1>3, <1>4, <4>1
    <3> QED BY <3>1, <3>2
  <2>2. \A h \in live' : h \in live \/ h = g
    BY <1>1
  <2>3. ASSUME NEW h \in live', h.unit
        PROVE  \E c \in D : /\ h.ptr = Payload(c) /\ ~Spills(c, size[c])
                            /\ h.asked \in 1 .. size[c]
    BY <1>0, <1>4, <2>2, <2>3 DEF Held
  <2>4. ASSUME NEW h \in live', ~h.unit
        PROVE  /\ h.ptr % PageSize = 0 /\ PageAt(h.ptr) \in Pages /\ page'[PageAt(h.ptr)] = "user"
               /\ h.asked \in 1 .. PageSize
    <3>1. CASE h \in live
      BY <1>0, <1>5, <2>4, <3>1 DEF Held
    <3>2. CASE h = g
      BY <1>2, <1>3, <1>4, <1>5, <3>2
    <3> QED BY <2>2, <3>1, <3>2
  <2>5. \A h, k \in live' : h.ptr = k.ptr => h = k
    BY <1>0, <2>1, <2>2 DEF Held
  <2> QED BY <1>1, <2>3, <2>4, <2>5 DEF Held, Payload, PageAt, Spills, Full
<1> QED BY <1>9, <1>10, <1>11, <1>12 DEF Inv

LEMMA TakeUnitsKeeps ==
  ASSUME Inv, NEW m \in nodes, NEW p \in Free, pc = "alloc", TakeUnits(m, p), ~spilt',
         nodes' = nodes \ {m}, pc' = "run", UNCHANGED <<head, node, found>>
  PROVE  Inv'
<1> DEFINE D == DOMAIN size
           E == DOMAIN size'
           b == want.bin
           s == size[head[b]]
           u == Units(p, s)
           t == Tail(u)
           a == Head(u)
           x == want.size
<1>0. Typed /\ InHand /\ Cut /\ Placed /\ Apiece /\ Held
  BY DEF Inv, Placed
<1>1. /\ page' = [page EXCEPT ![p] = "bin"] /\ size' = Sized(p, s)
      /\ Grant(Payload(a), x, TRUE) /\ ~Spills(a, s) /\ b # 0
      /\ \/ b = 1 /\ list' = Refill(list, b, t) /\ dropped' = dropped \cup ToSet(list[1]) \cup {m}
         \/ /\ b # 1 /\ list' = [list EXCEPT ![b] = t, ![1] = <<m>> \o @]
            /\ dropped' = dropped
  BY DEF TakeUnits, Lend, Refill
<1>2. /\ p \in Pages /\ page[p] = "free" /\ node = NONE
      /\ b \in Bins /\ 1 \in Bins /\ x \in 1 .. PageSize /\ Holds(x, b) /\ (b # 1 => list[b] = <<>>)
  BY <1>0, <1>1, OneAndTwo DEF Free, InHand, Wanted
<1>3. s = BinSize[b] /\ s \in Sizes
  BY <1>0, <1>2 DEF Placed, Sizes, Range, Bins
<1>4. /\ m \in D /\ ~Listed(list, m) /\ Belongs(m, 1) /\ IsNode(m)
      /\ ~InUse(m) /\ ~AtHead(m) /\ m \notin dropped /\ NONE \notin D
  BY Nodes DEF IsNode
<1>5. /\ Cut' /\ page' \in [Pages -> {"free", "bin", "user", "cur"}]
      /\ \A q \in Pages : q # p => page'[q] = page[q]
      /\ u \in Seq(E) /\ Distinct(u) /\ u # <<>>
      /\ \A c : Has(u, c) => c \notin D /\ c \in Nat /\ size'[c] = s
      /\ \A c : c \in E <=> c \in D \/ Has(u, c)
      /\ \A c \in D : size'[c] = size[c]
  <2>1. /\ Typed /\ Cut /\ p \in Pages /\ page[p] = "free" /\ s \in Sizes
        /\ page' = [page EXCEPT ![p] = "bin"] /\ size' = Sized(p, s) /\ u = Units(p, s)
    BY <1>0, <1>1, <1>2, <1>3
  <2> HIDE DEF u, s
  <2> QED BY <2>1, PageCut
<1>6. /\ t \in Seq(E) /\ Distinct(t) /\ a \in E /\ Has(u, a)
      /\ \A c : Has(t, c) <=> Has(u, c) /\ c # a
  <2>1. t = Tail(u) /\ u \in Seq(E) /\ u # <<>> /\ Distinct(u)
    BY <1>5
  <2> HIDE DEF u, t, E
  <2> QED BY <2>1, Behind
<1>7. list \in [Bins -> Seq(E)] /\ D \subseteq E /\ \A d \in Bins : \A c : On(list, d, c) => c \in D
  <2>1. D \subseteq E
    BY <1>5
  <2> QED BY <1>0, <2>1, ListsGrow
<1>8. list' = AfterCut(list, b, t, m)
  <2>1. CASE b = 1
    BY <1>1, <2>1 DEF AfterCut
  <2>2. CASE b # 1
    BY <1>1, <1>2, <1>7, <2>2 DEF Push, Refill, AfterCut
  <2> QED BY <2>1, <2>2
<1> HIDE DEF u, t, a, s
<1>9. /\ list' \in [Bins -> Seq(E)] /\ Once(list')
      /\ \A d \in Bins : \A c : On(list', d, c) =>
           (d = b /\ Has(t, c)) \/ On(list, d, c) \/ (d = 1 /\ c = m)
      /\ b = 1 => \A c : Listed(list', c) <=> Has(t, c) \/ (Listed(list, c) /\ ~On(list, 1, c))
      /\ b # 1 => \A c : Listed(list', c) <=> Has(t, c) \/ Listed(list, c) \/ c = m
  <2>1. /\ Once(list) /\ (\A c : Has(t, c) => c \notin D) /\ b \in Bins /\ (b # 1 => list[b] = <<>>)
        /\ t \in Seq(E) /\ Distinct(t) /\ m \in D /\ ~Listed(list, m)
    BY <1>0, <1>2, <1>4, <1>5, <1>6 DEF Apiece
  <2>2. m \in E /\ ~Has(t, m) /\ \A c : Has(t, c) => ~Listed(list, c)
    BY <1>4, <1>7, <2>1 DEF Listed
  <2> HIDE DEF D, E, b
  <2> QED BY <1>7, <1>8, <2>1, <2>2, ListsCut
<1>10. ASSUME NEW d \in E, d \notin D
       PROVE  /\ ~InUse(d) /\ ~AtHead(d) /\ ~IsNode(d) /\ d \notin dropped /\ Has(u, d)
  <2>1. ~InUse(d)
    BY <1>0, <1>5, <1>10, InUseCut
  <2>2. ~AtHead(d) /\ d \notin dropped /\ d \notin nodes
    BY <1>0, <1>10 DEF Typed, AtHead
  <2>3. d # node
    BY <1>2, <1>5, <1>10 DEF NONE
  <2> QED BY <1>5, <1>10, <2>1, <2>2, <2>3 DEF IsNode
<1>11. a \notin D /\ ~InUse(a) /\ size'[a] = s /\ size'[a] > x
  <2>1. a \notin D /\ size'[a] = s /\ ~InUse(a)
    BY <1>5, <1>6, <1>10
  <2>2. s > x
    BY <1>2, <1>3 DEF Holds
  <2> QED BY <2>1, <2>2
<1>12. /\ Held' /\ live' \subseteq [ptr : Nat, asked : Nat, unit : BOOLEAN]
       /\ \A d \in E : InUse(d)' <=> InUse(d) \/ d = a
  <2>1. \A q \in Pages : page[q] = "user" => page'[q] = "user"
    BY <1>2, <1>5
  <2>2. ~Spills(a, size'[a])
    BY <1>1, <1>11
  <2>3. Cut' /\ a \in E /\ D \subseteq E /\ \A d \in D : size'[d] = size[d]
    BY <1>5, <1>6, <1>7
  <2> HIDE DEF x
  <2> QED BY <1>0, <1>1, <1>2, <1>11, <2>1, <2>2, <2>3, UnitGranted DEF Typed
<1>13. \A d \in E : (IsNode(d)' <=> IsNode(d) /\ d # m) /\ (AtHead(d)' <=> AtHead(d))
  BY <1>2, <1>4, <1>5 DEF IsNode, AtHead, NONE
<1>14. \A c : c \in dropped' <=> c \in dropped \/ (b = 1 /\ (On(list, 1, c) \/ c = m))
  <2>1. \A c : c \in ToSet(list[1]) <=> On(list, 1, c)
    <3> DEFINE l == list[1]
    <3>1. l \in Seq(E)
      BY <1>2, <1>7
    <3> HIDE DEF l
    <3>2. DOMAIN l = 1 .. Len(l)
      BY <3>1
    <3>3. \A c : c \in ToSet(l) <=> \E i \in 1 .. Len(l) : l[i] = c
      BY <3>2 DEF ToSet
    <3> QED BY <3>3 DEF l, On, At
  <2> QED BY <1>1, <2>1
<1>15. \A d \in D : /\ (\A e \in Bins : Belongs(d, e)' <=> Belongs(d, e))
                    /\ ~Has(u, d) /\ size'[d] = size[d]
  BY <1>5 DEF Belongs
<1>16. Placed'
  <2>1. ASSUME NEW d \in E
        PROVE  /\ Listed(list', d) \/ InUse(d)' \/ AtHead(d)' \/ IsNode(d)' \/ d \in dropped'
               /\ Listed(list', d) => ~InUse(d)' /\ ~AtHead(d)' /\ ~IsNode(d)' /\ d \notin dropped'
               /\ InUse(d)'  => ~AtHead(d)' /\ ~IsNode(d)' /\ d \notin dropped'
               /\ AtHead(d)' => ~IsNode(d)' /\ d \notin dropped'
               /\ IsNode(d)' => d \notin dropped' /\ ~Spills(d, size'[d]) /\ Belongs(d, 1)'
    <3>1. CASE d \in D
      <4>1. On(list, 1, d) => Listed(list, d)
        BY <1>2 DEF Listed
      <4>2. d # a /\ ~Has(t, d)
        BY <1>6, <1>11, <1>15, <3>1
      <4>3. /\ Listed(list, d) \/ InUse(d) \/ AtHead(d) \/ IsNode(d) \/ d \in dropped
            /\ Listed(list, d) => ~InUse(d) /\ ~AtHead(d) /\ ~IsNode(d) /\ d \notin dropped
            /\ InUse(d)  => ~AtHead(d) /\ ~IsNode(d) /\ d \notin dropped
            /\ AtHead(d) => ~IsNode(d) /\ d \notin dropped
            /\ IsNode(d) => d \notin dropped /\ ~Spills(d, size'[d]) /\ Belongs(d, 1)'
        BY <1>0, <1>2, <1>15, <3>1 DEF Apiece, OnList, Placed
      <4>4. CASE b = 1
        BY <1>4, <1>9, <1>12, <1>13, <1>14, <4>1, <4>2, <4>3, <4>4
      <4>5. CASE b # 1
        BY <1>4, <1>9, <1>12, <1>13, <1>14, <4>2, <4>3, <4>5
      <4> QED BY <4>4, <4>5
    <3>2. CASE d \notin D
      <4>1. ~Listed(list, d) /\ ~On(list, 1, d) /\ d # m
        BY <1>2, <1>4, <1>7, <3>2 DEF Listed
      <4>2. Has(t, d) <=> d # a
        BY <1>6, <1>10, <3>2
      <4>3. Listed(list', d) <=> d # a
        BY <1>9, <4>1, <4>2
      <4> QED BY <1>10, <1>12, <1>13, <1>14, <3>2, <4>1, <4>3
    <3> QED BY <3>1, <3>2
  <2>2. ASSUME NEW e \in Bins, NEW d \in E, On(list', e, d) PROVE Belongs(d, e)'
    <3>1. CASE Has(t, d)
      <4>1. d \notin D /\ size'[d] = s
        BY <1>5, <1>6, <3>1
      <4>2. e = b
        BY <1>4, <1>7, <1>9, <2>2, <4>1
      <4> QED BY <1>3, <4>1, <4>2 DEF Belongs
    <3>2. CASE ~Has(t, d)
      <4>1. On(list, e, d) \/ (e = 1 /\ d = m)
        BY <1>9, <2>2, <3>2
      <4>2. d \in D
        BY <1>4, <1>7, <4>1
      <4> QED BY <1>0, <1>4, <1>15, <4>1, <4>2 DEF Placed
    <3> QED BY <3>1, <3>2
  <2>3. \A e \in Bins : size'[head'[e]] = BinSize[e]
    BY <1>0, <1>5 DEF Placed, Typed
  <2>4. node' \notin nodes' /\ Once(list')
    BY <1>0, <1>9 DEF Apiece
  <2> QED BY <2>1, <2>2, <2>3, <2>4, Settled
<1>17. Typed'
  <2>1. dropped' \subseteq E
    BY <1>0, <1>4, <1>7, <1>2, <1>14 DEF Typed
  <2>2. head' \in [Bins -> E] /\ nodes' \subseteq E /\ node' \in E \cup {NONE}
    BY <1>0, <1>7 DEF Typed
  <2> QED BY <1>5, <1>9, <1>12, <2>1, <2>2 DEF Typed
<1>18. InHand'
  BY <1>2 DEF InHand
<1> QED BY <1>5, <1>12, <1>16, <1>17, <1>18 DEF Inv

LEMMA TakeKeeps ==
  ASSUME Inv, Take, ~spilt'
  PROVE  Inv'
<1>1. PICK m \in nodes, p \in Free : nodes' = nodes \ {m} /\ (TakePage(m, p) \/ TakeUnits(m, p))
  BY DEF Take
<1>2. pc = "alloc" /\ pc' = "run" /\ UNCHANGED <<head, node, found>>
  BY DEF Take
<1> QED BY <1>1, <1>2, TakePageKeeps, TakeUnitsKeeps

----------------------------------------------------------------------------
(* The boot *)

\* What is left of a list when k units have been taken from it.
LEMMA LastOnes ==
  ASSUME NEW D, NEW T \in Seq(D), NEW k \in Nat, k <= Len(T), NEW s, s = SubSeq(T, k + 1, Len(T))
  PROVE  /\ s \in Seq(D) /\ Len(s) = Len(T) - k
         /\ \A i \in 1 .. Len(s) : i + k \in 1 .. Len(T) /\ s[i] = T[i + k]
<1> DEFINE n == Len(T)
<1>1. n \in Nat /\ k <= n /\ s = SubSeq(T, k + 1, n) /\ \A i \in 1 .. n : T[i] \in D
  OBVIOUS
<1> HIDE DEF n
<1>2. k + 1 \in Int /\ n \in Int /\ \A i \in k + 1 .. n : T[i] \in D
  BY <1>1
<1>3. /\ s \in Seq(D) /\ Len(s) = IF k + 1 <= n THEN n - (k + 1) + 1 ELSE 0
      /\ \A i \in 1 .. n - (k + 1) + 1 : s[i] = T[(k + 1) + i - 1]
  BY <1>1, <1>2, SubSeqProperties
<1>4. Len(s) = n - k
  BY <1>1, <1>3
<1>5. \A i \in 1 .. n - k : i + k \in 1 .. n /\ (k + 1) + i - 1 = i + k /\ i \in 1 .. n - (k + 1) + 1
  BY <1>1
<1> QED BY <1>3, <1>4, <1>5 DEF n

LEMMA InitInv == Init /\ ~spilt => Inv
<1> SUFFICES ASSUME Init, ~spilt PROVE Inv
  OBVIOUS
<1> DEFINE P(b) == PageAt(head[b])
           u(b) == Units(P(b), BinSize[b])
           n(b) == UnitCount(BinSize[b])
           U(b) == ToSet(u(b))
<1>1. /\ head \in [Bins -> {p * PageSize : p \in Pages}]
      /\ \A b, c \in Bins : b # c => head[b] # head[c]
      /\ page = [p \in Pages |-> IF p * PageSize \in Range(head) THEN "bin" ELSE "free"]
      /\ size = [a \in UNION {U(b) : b \in Bins} |-> BinSize[CHOOSE b \in Bins : a \in U(b)]]
      /\ live = {} /\ dropped = {} /\ node = NONE /\ pc = "run"
  BY DEF Init, PageAt
<1>2. PICK k \in Nat :
        /\ k <= Len(Tail(u(1))) /\ nodes = {Tail(u(1))[i] : i \in 1 .. k}
        /\ list = [b \in Bins |-> IF b = 1 THEN SubSeq(Tail(u(1)), k + 1, Len(Tail(u(1)))) ELSE Tail(u(b))]
  <2>1. PICK k \in 0 .. Cardinality(Free) :
          /\ k <= Len(Tail(u(1))) /\ nodes = {Tail(u(1))[i] : i \in 1 .. k}
          /\ list = [b \in Bins |-> IF b = 1 THEN SubSeq(Tail(u(1)), k + 1, Len(Tail(u(1)))) ELSE Tail(u(b))]
    BY DEF Init, PageAt
  <2>2. k \in Nat
    OBVIOUS
  <2> QED BY <2>1, <2>2
<1> DEFINE off(b) == IF b = 1 THEN k + 1 ELSE 1
<1>3. PageSize \in Nat \ {0} /\ HeaderSize \in Nat \ {0} /\ \A p \in Pages : p \in Nat
  BY BinsAssumption DEF Pages
<1>4. ASSUME NEW b \in Bins
      PROVE  P(b) \in Pages /\ head[b] = P(b) * PageSize /\ head[b] \in Nat
  <2>1. PICK p \in Pages : head[b] = p * PageSize
    BY <1>1
  <2>2. 0 \in 0 .. PageSize - 1 /\ p * PageSize = PageSize * p + 0 /\ p * PageSize \in Nat
    BY <1>3
  <2>3. PageAt(p * PageSize) = p
    BY <1>3, <2>2, DivideBack DEF PageAt
  <2> QED BY <2>1, <2>2, <2>3
<1>5. \A b, c \in Bins : P(b) = P(c) => b = c
  BY <1>1, <1>4
<1>6. ASSUME NEW b \in Bins
      PROVE  BinSize[b] \in Sizes /\ BinSize[b] \in Nat \ {0} /\ Full(BinSize[b]) \in Nat /\ Full(BinSize[b]) > 0
  <2>1. BinSize[b] \in Sizes
    BY DEF Sizes, Range, Bins
  <2>2. Full(BinSize[b]) = BinSize[b] + HeaderSize /\ BinSize[b] \in Nat \ {0}
    BY <2>1, SizeTypes
  <2> QED BY <1>3, <2>1, <2>2
<1>7. ASSUME NEW b \in Bins
      PROVE  /\ u(b) \in Seq(Nat) /\ Len(u(b)) = n(b) /\ n(b) \in Nat /\ n(b) >= 1
             /\ \A q \in 1 .. n(b) : PageAt(u(b)[q]) = P(b) /\ (u(b)[q] % PageSize) + HeaderSize <= PageSize
             /\ \A j, q \in 1 .. n(b) : j < q => u(b)[j] + Full(BinSize[b]) <= u(b)[q]
             /\ u(b)[1] = head[b]
  <2>1. P(b) \in Pages /\ BinSize[b] \in Sizes
    BY <1>4, <1>6
  <2>2. UnitCount(BinSize[b]) \in Nat /\ UnitCount(BinSize[b]) >= 1
    BY <2>1, UnitCounts
  <2>3. u(b)[1] = P(b) * PageSize + (1 - 1) * Full(BinSize[b])
    <3>1. 1 \in 1 .. UnitCount(BinSize[b])
      BY <2>2
    <3> QED BY <3>1 DEF Units
  <2>4. (1 - 1) * Full(BinSize[b]) = 0 /\ P(b) * PageSize \in Nat
    BY <1>3, <1>6, <2>1
  <2>5. u(b)[1] = head[b]
    BY <1>4, <2>3, <2>4
  <2>6. /\ u(b) \in Seq(Nat) /\ Len(u(b)) = n(b)
        /\ \A q \in 1 .. n(b) : PageAt(u(b)[q]) = P(b) /\ (u(b)[q] % PageSize) + HeaderSize <= PageSize
        /\ \A j, q \in 1 .. n(b) : j < q => u(b)[j] + Full(BinSize[b]) <= u(b)[q]
    <3> DEFINE p == P(b)
               s == BinSize[b]
    <3>1. p \in Pages /\ s \in Sizes
      BY <2>1
    <3> HIDE DEF p, s
    <3> QED BY <3>1, UnitFacts DEF p, s
  <2> QED BY <2>2, <2>5, <2>6
<1> HIDE DEF P, n, u
<1>8. ASSUME NEW b \in Bins
      PROVE  /\ U(b) = {u(b)[q] : q \in 1 .. n(b)} /\ head[b] \in U(b)
             /\ \A q \in 1 .. n(b) : u(b)[q] \in Nat /\ u(b)[q] \in U(b)
             /\ \A a \in U(b) : a \in Nat /\ PageAt(a) = P(b) /\ (a % PageSize) + HeaderSize <= PageSize
  <2>1. DOMAIN u(b) = 1 .. n(b) /\ (\A q \in 1 .. n(b) : u(b)[q] \in Nat) /\ 1 \in 1 .. n(b)
    BY <1>7
  <2>2. U(b) = {u(b)[q] : q \in 1 .. n(b)}
    BY <2>1 DEF ToSet
  <2> QED BY <1>7, <2>1, <2>2
<1> HIDE DEF U
<1>9. \A b, c \in Bins : \A a \in U(b) : a \in U(c) => b = c
  BY <1>5, <1>8
<1>10. DOMAIN size = UNION {U(b) : b \in Bins}
  BY <1>1
<1>11. ASSUME NEW b \in Bins, NEW a \in U(b) PROVE a \in DOMAIN size /\ size[a] = BinSize[b]
  <2>1. (CHOOSE c \in Bins : a \in U(c)) = b
    BY <1>9
  <2> QED BY <1>1, <1>10, <2>1
<1>12. ASSUME NEW b \in Bins
       PROVE  /\ list[b] \in Seq(U(b)) /\ Len(list[b]) = n(b) - off(b) /\ off(b) \in 1 .. n(b)
              /\ \A i \in 1 .. Len(list[b]) : i + off(b) \in 1 .. n(b) /\ list[b][i] = u(b)[i + off(b)]
  <2> DEFINE t == u(b)
             T == U(b)
             m == n(b)
  <2>1. t \in Seq(T) /\ Len(t) = m /\ m \in Nat /\ m >= 1
    <3>1. \A q \in 1 .. Len(t) : t[q] \in T
      BY <1>7, <1>8
    <3>2. t = [q \in 1 .. Len(t) |-> t[q]] /\ Len(t) \in Nat
      BY <1>7
    <3> QED BY <1>7, <3>1, <3>2
  <2>2. list[b] = IF b = 1 THEN SubSeq(Tail(t), k + 1, Len(Tail(t))) ELSE Tail(t)
    BY <1>2
  <2>3. b = 1 => k <= Len(Tail(t))
    BY <1>2
  <2> HIDE DEF t, T, m
  <2>4. t # <<>>
    BY <2>1
  <2>5. Tail(t) \in Seq(T) /\ Len(Tail(t)) = m - 1 /\ \A i \in 1 .. m - 1 : Tail(t)[i] = t[i + 1]
    BY <2>1, <2>4, HeadTailProperties
  <2>6. CASE b # 1
    <3>1. list[b] = Tail(t) /\ off(b) = 1
      BY <2>2, <2>6
    <3>2. \A i \in 1 .. m - 1 : i + 1 \in 1 .. m
      BY <2>1
    <3> QED BY <2>1, <2>5, <3>1, <3>2 DEF t, T, m
  <2>7. CASE b = 1
    <3> DEFINE l == list[b]
               r == Tail(t)
    <3>1. l = SubSeq(r, k + 1, Len(r)) /\ off(b) = k + 1 /\ k <= Len(r) /\ r \in Seq(T)
      BY <2>2, <2>3, <2>5, <2>7
    <3>2. Len(r) = m - 1 /\ \A i \in 1 .. m - 1 : r[i] = t[i + 1]
      BY <2>5
    <3> HIDE DEF l, r
    <3>3. /\ l \in Seq(T) /\ Len(l) = Len(r) - k
          /\ \A i \in 1 .. Len(l) : i + k \in 1 .. Len(r) /\ l[i] = r[i + k]
      BY <3>1, LastOnes
    <3>4. Len(l) = m - (k + 1) /\ k + 1 \in 1 .. m
      BY <2>1, <3>1, <3>2, <3>3
    <3>5. ASSUME NEW i \in 1 .. Len(l) PROVE i + (k + 1) \in 1 .. m /\ l[i] = t[i + (k + 1)]
      <4>1. i + k \in 1 .. m - 1 /\ l[i] = t[(i + k) + 1]
        BY <3>2, <3>3
      <4>2. (i + k) + 1 = i + (k + 1) /\ i + (k + 1) \in 1 .. m
        BY <2>1, <3>4, <4>1
      <4> QED BY <4>1, <4>2
    <3>6. off(b) = k + 1
      BY <3>1
    <3> HIDE DEF off
    <3> QED BY <3>3, <3>4, <3>5, <3>6 DEF l, t, T, m
  <2> QED BY <2>6, <2>7
<1>13. ASSUME NEW b \in Bins, NEW j \in 1 .. n(b), NEW q \in 1 .. n(b), j # q PROVE u(b)[j] # u(b)[q]
  <2> SUFFICES ASSUME u(b)[j] = u(b)[q] PROVE FALSE
    OBVIOUS
  <2>1. j < q \/ q < j
    BY <1>7, <1>13
  <2>2. u(b)[j] + Full(BinSize[b]) <= u(b)[j] /\ u(b)[j] \in Nat
    BY <1>7, <1>8, <2>1
  <2> QED BY <1>6, <2>2
<1>14. ASSUME NEW b \in Bins, NEW j \in 1 .. n(b)
       PROVE  /\ \A d \in Bins : On(list, d, u(b)[j]) <=> d = b /\ j > off(b)
              /\ AtHead(u(b)[j]) <=> j = 1
              /\ u(b)[j] \in nodes <=> j > 1 /\ j <= off(b)
              /\ u(b)[j] \in DOMAIN size /\ size[u(b)[j]] = BinSize[b] /\ u(b)[j] # NONE
  <2> DEFINE a == u(b)[j]
  <2>1. a \in U(b) /\ a \in Nat /\ n(b) \in Nat /\ off(b) \in 1 .. n(b) /\ j \in Nat
    BY <1>7, <1>8, <1>12
  <2>2. ASSUME NEW d \in Bins, On(list, d, a) PROVE d = b /\ j > off(b)
    <3>1. PICK i \in 1 .. Len(list[d]) : list[d][i] = a
      BY <2>2 DEF On, At
    <3>2. i + off(d) \in 1 .. n(d) /\ a = u(d)[i + off(d)]
      BY <1>12, <3>1
    <3>3. d = b
      BY <1>8, <1>9, <2>1, <3>2
    <3>4. i + off(b) = j
      BY <1>13, <3>2, <3>3
    <3>5. i \in Nat /\ i >= 1
      <4>1. Len(list[d]) \in Nat
        BY <1>12
      <4> QED BY <4>1
    <3> HIDE DEF off
    <3> QED BY <2>1, <3>3, <3>4, <3>5
  <2>3. ASSUME j > off(b) PROVE On(list, b, a)
    <3> DEFINE i == j - off(b)
    <3>1. i \in 1 .. n(b) - off(b) /\ i + off(b) = j
      <4> HIDE DEF off
      <4> QED BY <2>1, <2>3
    <3>2. list[b][i] = a /\ i \in 1 .. Len(list[b])
      BY <1>12, <3>1
    <3> QED BY <3>2 DEF On, At
  <2>4. AtHead(a) <=> j = 1
    <3>1. 1 \in 1 .. n(b) /\ u(b)[1] = head[b]
      BY <1>7
    <3>2. ASSUME NEW d \in Bins, head[d] = a PROVE d = b
      BY <1>8, <1>9, <2>1, <3>2
    <3> QED BY <1>13, <3>1, <3>2 DEF AtHead
  <2>5. a \in nodes <=> j > 1 /\ j <= off(b)
    <3> DEFINE v == u(1)
    <3>1. 1 \in Bins /\ n(1) \in Nat /\ n(1) >= 1 /\ v \in Seq(Nat) /\ Len(v) = n(1)
      BY <1>7, OneAndTwo
    <3>2. k <= Len(Tail(v)) /\ nodes = {Tail(v)[i] : i \in 1 .. k}
      BY <1>2
    <3> HIDE DEF v
    <3>3. v # <<>>
      BY <3>1
    <3>4. Len(Tail(v)) = n(1) - 1 /\ \A i \in 1 .. n(1) - 1 : Tail(v)[i] = v[i + 1]
      BY <3>1, <3>3, HeadTailProperties
    <3>5. k \in Nat /\ k + 1 <= n(1)
      BY <3>1, <3>2, <3>4
    <3>6. \A i \in 1 .. k : i \in 1 .. n(1) - 1 /\ i + 1 \in 1 .. n(1)
      BY <3>1, <3>5
    <3>7. nodes = {v[i + 1] : i \in 1 .. k}
      BY <3>2, <3>4, <3>6
    <3>8. ASSUME NEW i \in 1 .. k, v[i + 1] = a PROVE b = 1 /\ i + 1 = j
      <4>1. u(1)[i + 1] = a /\ i + 1 \in 1 .. n(1)
        BY <3>6, <3>8 DEF v
      <4>2. b = 1
        BY <1>8, <1>9, <2>1, <3>1, <4>1
      <4> QED BY <1>13, <4>1, <4>2
    <3>9. a \in nodes => j > 1 /\ j <= off(b)
      <4> SUFFICES ASSUME a \in nodes PROVE j > 1 /\ j <= off(b)
        OBVIOUS
      <4>1. PICK i \in 1 .. k : v[i + 1] = a
        BY <3>7
      <4>2. b = 1 /\ i + 1 = j
        BY <3>8, <4>1
      <4>3. off(b) = k + 1
        BY <4>2
      <4> HIDE DEF off
      <4> QED BY <3>5, <4>2, <4>3
    <3>10. ASSUME j > 1, j <= off(b) PROVE a \in nodes
      <4>1. b = 1 /\ off(b) = k + 1
        BY <2>1, <3>10
      <4>2. j - 1 \in 1 .. k /\ (j - 1) + 1 = j
        BY <2>1, <3>5, <3>10, <4>1
      <4>3. v[(j - 1) + 1] = a
        BY <4>1, <4>2 DEF v
      <4> QED BY <3>7, <4>2, <4>3
    <3> QED BY <3>9, <3>10
  <2>6. a \in DOMAIN size /\ size[a] = BinSize[b]
    BY <1>11, <2>1
  <2>7. a # NONE
    BY <2>1 DEF NONE
  <2> QED BY <2>2, <2>3, <2>4, <2>5, <2>6, <2>7
<1>15. \A a \in DOMAIN size : \E b \in Bins : \E j \in 1 .. n(b) : a = u(b)[j]
  BY <1>8, <1>10
<1>16. nodes \subseteq DOMAIN size
  <2> SUFFICES ASSUME NEW a \in nodes PROVE a \in DOMAIN size
    OBVIOUS
  <2> DEFINE v == u(1)
  <2>1. 1 \in Bins /\ n(1) \in Nat /\ n(1) >= 1 /\ v \in Seq(Nat) /\ Len(v) = n(1)
    BY <1>7, OneAndTwo
  <2>2. k <= Len(Tail(v)) /\ nodes = {Tail(v)[i] : i \in 1 .. k}
    BY <1>2
  <2> HIDE DEF v
  <2>3. v # <<>>
    BY <2>1
  <2>4. Len(Tail(v)) = n(1) - 1 /\ \A i \in 1 .. n(1) - 1 : Tail(v)[i] = v[i + 1]
    BY <2>1, <2>3, HeadTailProperties
  <2>5. PICK i \in 1 .. k : a = Tail(v)[i]
    BY <2>2
  <2>6. i \in 1 .. n(1) - 1 /\ i + 1 \in 1 .. n(1)
    BY <2>1, <2>2, <2>4
  <2>7. a = u(1)[i + 1]
    BY <2>4, <2>5, <2>6 DEF v
  <2> QED BY <1>8, <1>11, <2>1, <2>6, <2>7
<1>17. Typed
  <2>1. page \in [Pages -> {"free", "bin", "user", "cur"}]
    BY <1>1
  <2>2. head \in [Bins -> DOMAIN size]
    BY <1>1, <1>8, <1>11
  <2>3. list \in [Bins -> Seq(DOMAIN size)]
    <3>1. \A b \in Bins : list[b] \in Seq(DOMAIN size)
      <4> TAKE b \in Bins
      <4>1. U(b) \subseteq DOMAIN size
        BY <1>11
      <4> QED BY <1>12, <4>1, Widened
    <3>2. list = [b \in Bins |-> list[b]]
      BY <1>2
    <3> QED BY <3>1, <3>2
  <2> QED BY <1>1, <1>16, <2>1, <2>2, <2>3 DEF Typed
<1>18. Cut
  <2>1. ASSUME NEW a \in DOMAIN size
        PROVE  /\ a \in Nat /\ PageAt(a) \in Pages /\ page[PageAt(a)] = "bin"
               /\ size[a] \in Range(BinSize)
               /\ (a % PageSize) + HeaderSize <= PageSize
    <3>1. PICK b \in Bins : a \in U(b)
      BY <1>10
    <3>2. head[b] \in Range(head)
      BY <1>1 DEF Range
    <3>3. PageAt(a) = P(b) /\ P(b) \in Pages /\ P(b) * PageSize = head[b]
      BY <1>4, <1>8, <3>1
    <3>4. size[a] \in Range(BinSize)
      BY <1>6, <1>11, <3>1 DEF Sizes
    <3> QED BY <1>1, <1>8, <3>1, <3>2, <3>3, <3>4
  <2>2. ASSUME NEW a \in DOMAIN size, NEW c \in DOMAIN size, a < c, PageAt(a) = PageAt(c)
        PROVE  a + Full(size[a]) <= c
    <3>1. PICK b \in Bins : a \in U(b)
      BY <1>10
    <3>2. PICK d \in Bins : c \in U(d)
      BY <1>10
    <3>3. b = d
      BY <1>5, <1>8, <2>2, <3>1, <3>2
    <3>4. PICK j \in 1 .. n(b), q \in 1 .. n(b) : a = u(b)[j] /\ c = u(b)[q]
      BY <1>8, <3>1, <3>2, <3>3
    <3>5. j < q
      <4> SUFFICES ASSUME q < j PROVE FALSE
        BY <1>7, <1>8, <2>2, <3>4
      <4>1. c + Full(BinSize[b]) <= a
        BY <1>7, <3>4
      <4> QED BY <1>6, <1>8, <2>2, <3>4, <4>1
    <3>6. u(b)[j] + Full(BinSize[b]) <= u(b)[q]
      BY <1>7, <3>5
    <3> QED BY <1>11, <3>1, <3>4, <3>6
  <2> QED BY <2>1, <2>2 DEF Cut
<1>19. \A a : ~InUse(a)
  BY <1>1 DEF InUse
<1>20. \A b \in Bins : \A j \in 1 .. n(b) : Listed(list, u(b)[j]) <=> j > off(b)
  BY <1>14 DEF Listed
<1>21. Once(list)
  <2> SUFFICES ASSUME NEW b \in Bins, NEW d \in Bins, NEW i, NEW j, NEW a, At(list, b, i, a), At(list, d, j, a)
               PROVE  b = d /\ i = j
    BY DEF Once
  <2>1. /\ i \in 1 .. Len(list[b]) /\ list[b][i] = a
        /\ j \in 1 .. Len(list[d]) /\ list[d][j] = a
    BY DEF At
  <2>2. /\ i + off(b) \in 1 .. n(b) /\ a = u(b)[i + off(b)]
        /\ j + off(d) \in 1 .. n(d) /\ a = u(d)[j + off(d)]
    BY <1>12, <2>1
  <2>3. b = d
    <3>1. a \in U(b) /\ a \in U(d)
      <4> HIDE DEF off
      <4> QED BY <1>8, <2>2
    <3> QED BY <1>9, <3>1
  <2>4. i + off(b) = j + off(b)
    BY <1>13, <2>2, <2>3
  <2>5. i \in Nat /\ j \in Nat /\ off(b) \in Nat
    <3>1. Len(list[b]) \in Nat /\ Len(list[d]) \in Nat /\ off(b) \in 1 .. n(b) /\ n(b) \in Nat
      BY <1>7, <1>12
    <3> QED BY <2>1, <3>1
  <2> HIDE DEF off
  <2> QED BY <2>3, <2>4, <2>5
<1>22. Placed
  <2>1. ASSUME NEW a \in DOMAIN size
        PROVE  /\ OnList(a) \/ InUse(a) \/ AtHead(a) \/ IsNode(a) \/ a \in dropped
               /\ OnList(a) => ~InUse(a) /\ ~AtHead(a) /\ ~IsNode(a) /\ a \notin dropped
               /\ InUse(a)  => ~AtHead(a) /\ ~IsNode(a) /\ a \notin dropped
               /\ AtHead(a) => ~IsNode(a) /\ a \notin dropped
               /\ IsNode(a) => a \notin dropped
    <3>0. PICK b \in Bins : \E j \in 1 .. n(b) : a = u(b)[j]
      BY <1>15
    <3>1. PICK j \in 1 .. n(b) : a = u(b)[j]
      BY <3>0
    <3>2. n(b) \in Nat /\ off(b) \in 1 .. n(b)
      BY <1>7, <1>12
    <3>3. OnList(a) <=> j > off(b)
      BY <1>20, <3>1 DEF OnList
    <3>4. IsNode(a) <=> j > 1 /\ j <= off(b)
      BY <1>1, <1>14, <3>1 DEF IsNode
    <3>5. AtHead(a) <=> j = 1
      BY <1>14, <3>1
    <3>6. j \in Nat /\ j >= 1 /\ off(b) \in Nat /\ off(b) >= 1
      BY <3>2
    <3> HIDE DEF off
    <3> QED BY <1>1, <1>19, <3>3, <3>4, <3>5, <3>6
  <2>2. \A b \in Bins : size[head[b]] = BinSize[b]
    BY <1>8, <1>11
  <2>3. ASSUME NEW b \in Bins, NEW a \in DOMAIN size, On(list, b, a) PROVE Belongs(a, b)
    <3>0. PICK d \in Bins : \E j \in 1 .. n(d) : a = u(d)[j]
      BY <1>15
    <3>1. PICK j \in 1 .. n(d) : a = u(d)[j]
      BY <3>0
    <3> QED BY <1>14, <2>3, <3>1 DEF Belongs
  <2>4. ASSUME NEW a \in DOMAIN size, IsNode(a) PROVE ~Spills(a, size[a]) /\ Belongs(a, 1)
    <3>0. PICK d \in Bins : \E j \in 1 .. n(d) : a = u(d)[j]
      BY <1>15
    <3>1. PICK j \in 1 .. n(d) : a = u(d)[j]
      BY <3>0
    <3>2. a \in nodes /\ size[a] = BinSize[d]
      <4>1. a # NONE /\ size[a] = BinSize[d]
        BY <1>14, <3>1
      <4> QED BY <1>1, <2>4, <4>1 DEF IsNode
    <3>3. d = 1
      <4> SUFFICES ASSUME d # 1 PROVE FALSE
        OBVIOUS
      <4>1. off(d) = 1
        OBVIOUS
      <4>2. j > 1 /\ j <= 1 /\ j \in Nat
        BY <1>7, <1>14, <3>1, <3>2, <4>1
      <4> QED BY <4>2
    <3>4. ~Spills(a, NodeSize)
      BY <3>2 DEF Init
    <3> QED BY <3>2, <3>3, <3>4 DEF NodeSize, Belongs
  <2>5. node \notin nodes
    <3>1. NONE \notin DOMAIN size
      BY <1>18 DEF Cut, NONE
    <3> QED BY <1>1, <1>16, <3>1
  <2> QED BY <1>21, <2>1, <2>2, <2>3, <2>4, <2>5 DEF Placed, Apiece
<1>23. Held /\ InHand
  BY <1>1 DEF Held, InHand
<1> QED BY <1>17, <1>18, <1>22, <1>23 DEF Inv

----------------------------------------------------------------------------
(* The invariant *)

LEMMA Kept == BInv /\ [Next]_vars => BInv'
<1> SUFFICES ASSUME BInv, [Next]_vars, ~spilt' PROVE Inv'
  BY DEF BInv
<1>1. ~spilt
  BY DEF Next, UnitMalloc, Rejuvenate, PageMalloc, Begin, MallocBug, Split, NodeBug, Take,
     TakePage, TakeUnits, UnitFree, PageFree, FreeNode, MergeFind, Unlink, NodeRefill, FreeDone,
     Lend, vars
<1>2. Inv
  BY <1>1 DEF BInv
<1>3. CASE \E x \in Requests : UnitMalloc(x)
  BY <1>2, <1>3, MallocKeeps
<1>4. CASE \E x \in Requests : Rejuvenate(x) \/ PageMalloc(x)
  BY <1>2, <1>4, BeginKeeps
<1>5. CASE (\E x \in Requests : MallocBug(x)) \/ NodeBug \/ MergeFind
  BY <1>2, <1>5, StopKeeps
<1>6. CASE Split
  BY <1>2, <1>6, SplitKeeps
<1>7. CASE Take
  BY <1>2, <1>7, TakeKeeps
<1>8. CASE \E g \in live : UnitFree(g)
  BY <1>2, <1>8, UnitFreeKeeps
<1>9. CASE \E g \in live : PageFree(g)
  BY <1>2, <1>9, PageFreeKeeps
<1>10. CASE FreeNode
  BY <1>2, <1>10, FreeNodeKeeps
<1>11. CASE Unlink
  BY <1>2, <1>11, UnlinkKeeps
<1>12. CASE NodeRefill
  BY <1>2, <1>12, NodeRefillKeeps
<1>13. CASE FreeDone
  BY <1>2, <1>13, FreeDoneKeeps
<1>14. CASE UNCHANGED vars
  <2>1. UNCHANGED <<page, head, list, size, nodes, node, live, dropped>> /\ InHand'
    BY <1>2, <1>14 DEF vars, Inv, InHand, Wanted, Holds
  <2> QED BY <1>2, <2>1, Inert
<1> QED BY <1>3, <1>4, <1>5, <1>6, <1>7, <1>8, <1>9, <1>10, <1>11, <1>12, <1>13, <1>14 DEF Next

\* The invariant holds, whatever is asked for and returned in whatever order.
THEOREM BinsInvariant == Spec => []BInv
<1>1. Init => BInv
  BY InitInv DEF BInv
<1> QED BY <1>1, Kept, PTL DEF Spec

----------------------------------------------------------------------------
(* Blocks and headers *)

LEMMA SamePage ==
  ASSUME NEW a \in Nat, NEW i \in Nat, (a % PageSize) + i < PageSize
  PROVE  PageAt(a + i) = PageAt(a)
<1>1. PageSize \in Nat \ {0}
  BY BinsAssumption
<1> DEFINE q == a \div PageSize
           r == a % PageSize
<1>2. q \in Nat /\ r \in 0 .. PageSize - 1 /\ a = PageSize * q + r
  BY <1>1, Divide
<1>3. r + i < PageSize
  OBVIOUS
<1> HIDE DEF q, r
<1>4. r + i \in 0 .. PageSize - 1
  BY <1>1, <1>2, <1>3
<1>5. a + i = PageSize * q + (r + i)
  <2>1. PageSize * q \in Nat
    BY <1>1, <1>2
  <2> QED BY <1>2, <2>1
<1>6. (a + i) \div PageSize = q
  BY <1>1, <1>2, <1>4, <1>5, DivideBack
<1> QED BY <1>6 DEF q, PageAt

\* Where the cells of a block are.
LEMMA CellAt ==
  ASSUME Inv, NEW g \in live, NEW x \in Cells(g)
  PROVE  /\ x \in Nat
         /\ g.unit => \E a \in DOMAIN size : /\ g.ptr = Payload(a) /\ PageAt(x) = PageAt(a)
                                             /\ a + HeaderSize <= x /\ x < a + Full(size[a])
         /\ ~g.unit => /\ PageAt(x) = PageAt(g.ptr) /\ page[PageAt(x)] = "user"
<1>0. Typed /\ Cut /\ Placed /\ Held
  BY DEF Inv
<1>1. g.ptr \in Nat /\ g.asked \in Nat /\ x \in g.ptr .. g.ptr + g.asked - 1
  BY <1>0 DEF Typed, Cells
<1>2. x \in Nat /\ g.ptr <= x /\ x < g.ptr + g.asked
  BY <1>1
<1>3. PageSize \in Nat \ {0} /\ HeaderSize \in Nat \ {0}
  BY BinsAssumption
<1>4. ASSUME g.unit
      PROVE  \E a \in DOMAIN size : /\ g.ptr = Payload(a) /\ PageAt(x) = PageAt(a)
                                    /\ a + HeaderSize <= x /\ x < a + Full(size[a])
  <2>1. PICK a \in DOMAIN size : /\ g.ptr = Payload(a) /\ ~Spills(a, size[a])
                                 /\ g.asked \in 1 .. size[a]
    BY <1>0, <1>4 DEF Held
  <2>2. /\ a \in Nat /\ Payload(a) = a + HeaderSize
        /\ size[a] \in Nat \ {0} /\ Full(size[a]) = size[a] + HeaderSize
        /\ (a % PageSize) + HeaderSize + size[a] <= PageSize
        /\ a % PageSize \in 0 .. PageSize - 1
    BY <1>0, <2>1, Payloads
  <2>3. a + HeaderSize <= x /\ x < a + Full(size[a])
    BY <1>1, <1>2, <1>3, <2>1, <2>2
  <2> DEFINE i == x - a
             r == a % PageSize
  <2>4. i \in Nat /\ a + i = x /\ i < HeaderSize + size[a]
    BY <1>2, <1>3, <2>2, <2>3
  <2>5. r + i < PageSize
    <3>1. r \in Nat /\ r + HeaderSize + size[a] <= PageSize
      BY <1>3, <2>2
    <3> HIDE DEF r, i
    <3> QED BY <1>3, <2>2, <2>4, <3>1
  <2>6. PageAt(a + i) = PageAt(a)
    BY <2>2, <2>4, <2>5, SamePage
  <2> QED BY <2>1, <2>3, <2>4, <2>6
<1>5. ASSUME ~g.unit PROVE PageAt(x) = PageAt(g.ptr) /\ page[PageAt(x)] = "user"
  <2>1. g.ptr % PageSize = 0 /\ page[PageAt(g.ptr)] = "user" /\ g.asked \in 1 .. PageSize
    BY <1>0, <1>5 DEF Held
  <2>2. x - g.ptr \in Nat /\ g.ptr + (x - g.ptr) = x /\ x - g.ptr < PageSize
    BY <1>1, <1>2, <1>3, <2>1
  <2>3. (g.ptr % PageSize) + (x - g.ptr) < PageSize
    BY <1>1, <1>2, <2>1, <2>2
  <2>4. PageAt(g.ptr + (x - g.ptr)) = PageAt(g.ptr)
    BY <1>1, <2>2, <2>3, SamePage
  <2> QED BY <2>1, <2>2, <2>4
<1> QED BY <1>2, <1>4, <1>5

\* The units that have something in use in them are cut.
LEMMA UnitsInUse ==
  ASSUME Inv
  PROVE  /\ Users \subseteq DOMAIN size /\ Lists \subseteq DOMAIN size
         /\ Range(head) \subseteq DOMAIN size /\ NodeUnits \subseteq DOMAIN size
         /\ \A a \in DOMAIN size : /\ (a \in Users <=> InUse(a)) /\ (a \in Lists <=> OnList(a))
                                   /\ (a \in Range(head) <=> AtHead(a))
                                   /\ (a \in NodeUnits <=> IsNode(a))
<1> DEFINE D == DOMAIN size
<1>0. Typed /\ Cut /\ Placed /\ Held
  BY DEF Inv
<1>1. HeaderSize \in Nat /\ \A a \in D : a \in Nat /\ Payload(a) = a + HeaderSize
  BY <1>0, BinsAssumption, Payloads
<1>2. \A a : a \in Users <=> a \in D /\ InUse(a)
  <2>1. ASSUME NEW g \in live, g.unit
        PROVE  g.ptr - HeaderSize \in D /\ InUse(g.ptr - HeaderSize)
    <3>1. PICK a \in D : g.ptr = Payload(a)
      BY <1>0, <2>1 DEF Held
    <3>2. g.ptr - HeaderSize = a
      BY <1>1, <3>1
    <3> QED BY <2>1, <3>1, <3>2 DEF InUse
  <2>2. ASSUME NEW a \in D, InUse(a) PROVE a \in Users
    <3>1. PICK g \in live : g.unit /\ g.ptr = Payload(a)
      BY <2>2 DEF InUse
    <3>2. a = g.ptr - HeaderSize
      BY <1>1, <3>1
    <3> QED BY <3>1, <3>2 DEF Users
  <2> QED BY <2>1, <2>2 DEF Users
<1>3. \A a : a \in Lists <=> a \in D /\ OnList(a)
  <2>1. \A b \in Bins : list[b] \in Seq(D) /\ DOMAIN list[b] = 1 .. Len(list[b])
    BY <1>0 DEF Typed
  <2>2. \A b \in Bins : \A a : a \in ToSet(list[b]) <=> On(list, b, a)
    BY <2>1 DEF ToSet, On, At
  <2>3. \A b \in Bins : \A i \in 1 .. Len(list[b]) : list[b][i] \in D
    BY <2>1
  <2>4. \A b \in Bins : \A a : On(list, b, a) => a \in D
    BY <2>3 DEF On, At
  <2> QED BY <2>2, <2>4 DEF Lists, OnList, Listed
<1>4. \A a : a \in Range(head) <=> a \in D /\ AtHead(a)
  BY <1>0 DEF Typed, AtHead, Range
<1>5. NONE \notin D /\ nodes \subseteq D /\ node \in D \cup {NONE}
  BY <1>0, Nodes DEF Typed
<1>6. NodeUnits \subseteq D /\ \A a \in D : a \in NodeUnits <=> IsNode(a)
  BY <1>5 DEF NodeUnits, IsNode
<1> QED BY <1>2, <1>3, <1>4, <1>6

\* Where the cells of the headers and of the nodes are.
LEMMA HeaderAt ==
  ASSUME Inv, NEW x \in Headers
  PROVE  \E c \in DOMAIN size : c <= x /\ x < c + HeaderSize /\ PageAt(x) = PageAt(c)
<1>0. Typed /\ Cut /\ Placed /\ Held
  BY DEF Inv
<1>1. PageSize \in Nat \ {0} /\ HeaderSize \in Nat \ {0}
  BY BinsAssumption
<1> DEFINE A == Range(head) \cup Lists \cup Users \cup NodeUnits
<1>2. A \subseteq DOMAIN size
  BY UnitsInUse
<1>3. Headers = {a + i : a \in A, i \in 0 .. HeaderSize - 1}
  BY DEF Headers
<1> HIDE DEF A
<1>4. PICK c \in A, i \in 0 .. HeaderSize - 1 : x = c + i
  BY <1>3
<1>5. c \in DOMAIN size /\ c \in Nat /\ (c % PageSize) + HeaderSize <= PageSize
  BY <1>0, <1>2 DEF Cut
<1>6. i \in Nat /\ i < HeaderSize
  BY <1>1
<1>7. (c % PageSize) + i < PageSize
  <2>1. c % PageSize \in Nat
    BY <1>1, <1>5, Divide
  <2> QED BY <1>1, <1>5, <1>6, <2>1
<1>8. PageAt(c + i) = PageAt(c)
  BY <1>5, <1>6, <1>7, SamePage
<1>9. c <= x /\ x < c + HeaderSize
  BY <1>1, <1>4, <1>5, <1>6
<1> QED BY <1>4, <1>5, <1>8, <1>9

LEMMA NodeAt ==
  ASSUME Inv, NEW x \in NodeCells
  PROVE  \E c \in DOMAIN size : /\ c \in NodeUnits /\ c + HeaderSize <= x /\ x < c + Full(size[c])
                                /\ PageAt(x) = PageAt(c)
<1>0. Typed /\ Cut /\ Placed /\ Held
  BY DEF Inv
<1>1. PageSize \in Nat \ {0} /\ HeaderSize \in Nat \ {0} /\ NodeSize \in Nat
  BY BinsAssumption, OneAndTwo DEF NodeSize, Bins
<1>2. PICK c \in NodeUnits, i \in 0 .. NodeSize - 1 : x = Payload(c) + i
  BY DEF NodeCells
<1>3. c \in DOMAIN size /\ IsNode(c)
  BY UnitsInUse
<1>4. ~Spills(c, size[c]) /\ Belongs(c, 1)
  BY <1>0, <1>3 DEF Placed
<1>5. /\ c \in Nat /\ Payload(c) = c + HeaderSize
      /\ size[c] \in Nat \ {0} /\ Full(size[c]) = size[c] + HeaderSize
      /\ (c % PageSize) + HeaderSize + size[c] <= PageSize
      /\ c % PageSize \in 0 .. PageSize - 1
  BY <1>0, <1>3, <1>4, Payloads
<1>6. NodeSize <= size[c]
  <2>1. 1 \in Bins /\ 2 \in Bins /\ NodeBin = 2
    BY OneAndTwo
  <2>2. BinSize[1] < BinSize[2] /\ BinSize[1] \in Nat /\ BinSize[2] \in Nat
    BY <2>1, BinsAssumption DEF Bins
  <2> QED BY <1>4, <2>1, <2>2 DEF Belongs, NodeSize
<1>7. i \in Nat /\ i < NodeSize
  BY <1>1
<1> DEFINE k == HeaderSize + i
<1>8. k \in Nat /\ c + k = x /\ k < HeaderSize + size[c] /\ k >= HeaderSize
  BY <1>1, <1>2, <1>5, <1>6, <1>7
<1>9. (c % PageSize) + k < PageSize
  <2> DEFINE r == c % PageSize
  <2>1. r \in Nat /\ r + HeaderSize + size[c] <= PageSize
    BY <1>1, <1>5
  <2> HIDE DEF r, k
  <2> QED BY <1>1, <1>5, <1>8, <2>1
<1>10. PageAt(c + k) = PageAt(c)
  BY <1>5, <1>8, <1>9, SamePage
<1>11. c + HeaderSize <= x /\ x < c + Full(size[c])
  <2> HIDE DEF k
  <2> QED BY <1>1, <1>5, <1>8
<1> QED BY <1>3, <1>8, <1>10, <1>11

LEMMA Apart == Inv => GrantsApart
<1> SUFFICES ASSUME Inv, NEW g \in live
             PROVE  /\ Cells(g) \cap (Headers \cup NodeCells) = {}
                    /\ \A h \in live : h # g => Cells(g) \cap Cells(h) = {}
  BY DEF GrantsApart
<1>0. Typed /\ Cut /\ Placed /\ Held
  BY DEF Inv
<1>1. PageSize \in Nat \ {0} /\ HeaderSize \in Nat \ {0}
  BY BinsAssumption
<1>2. \A a \in DOMAIN size :
        /\ a \in Nat /\ size[a] \in Nat /\ Full(size[a]) = size[a] + HeaderSize
        /\ page[PageAt(a)] = "bin"
  BY <1>0, Payloads DEF Cut
<1>3. \A a, b \in DOMAIN size : a < b /\ PageAt(a) = PageAt(b) => a + Full(size[a]) <= b
  BY <1>0 DEF Cut
<1>4. ASSUME NEW x \in Cells(g), x \in Headers PROVE FALSE
  <2>1. PICK c \in DOMAIN size : c <= x /\ x < c + HeaderSize /\ PageAt(x) = PageAt(c)
    BY <1>4, HeaderAt
  <2>2. x \in Nat
    BY CellAt
  <2>3. CASE g.unit
    <3>1. PICK a \in DOMAIN size : /\ g.ptr = Payload(a) /\ PageAt(x) = PageAt(a)
                                   /\ a + HeaderSize <= x /\ x < a + Full(size[a])
      BY <2>3, CellAt
    <3>2. CASE a < c
      <4>1. a + Full(size[a]) <= c
        BY <1>3, <2>1, <3>1, <3>2
      <4> QED BY <1>1, <1>2, <2>1, <2>2, <3>1, <4>1
    <3>3. CASE c < a
      <4>1. c + Full(size[c]) <= a
        BY <1>3, <2>1, <3>1, <3>3
      <4> QED BY <1>1, <1>2, <2>1, <2>2, <3>1, <4>1
    <3>4. CASE a = c
      BY <1>1, <1>2, <2>1, <2>2, <3>1, <3>4
    <3> QED BY <1>2, <3>2, <3>3, <3>4
  <2>4. CASE ~g.unit
    <3>1. page[PageAt(x)] = "user"
      BY <2>4, CellAt
    <3> QED BY <1>2, <2>1, <3>1
  <2> QED BY <2>3, <2>4
<1>5. ASSUME NEW h \in live, h # g, NEW x \in Cells(g), x \in Cells(h) PROVE FALSE
  <2>1. x \in Nat /\ g.ptr # h.ptr /\ g.ptr \in Nat /\ h.ptr \in Nat
    BY <1>0, <1>5, CellAt DEF Held, Typed
  <2>2. CASE g.unit /\ h.unit
    <3>1. PICK a \in DOMAIN size : /\ g.ptr = Payload(a) /\ PageAt(x) = PageAt(a)
                                   /\ a + HeaderSize <= x /\ x < a + Full(size[a])
      BY <2>2, CellAt
    <3>2. PICK c \in DOMAIN size : /\ h.ptr = Payload(c) /\ PageAt(x) = PageAt(c)
                                   /\ c + HeaderSize <= x /\ x < c + Full(size[c])
      BY <1>5, <2>2, CellAt
    <3>3. a # c
      BY <2>1, <3>1, <3>2
    <3>4. CASE a < c
      <4>1. a + Full(size[a]) <= c
        BY <1>3, <3>1, <3>2, <3>4
      <4> QED BY <1>1, <1>2, <2>1, <3>1, <3>2, <4>1
    <3>5. CASE c < a
      <4>1. c + Full(size[c]) <= a
        BY <1>3, <3>1, <3>2, <3>5
      <4> QED BY <1>1, <1>2, <2>1, <3>1, <3>2, <4>1
    <3> QED BY <1>2, <3>3, <3>4, <3>5
  <2>3. CASE g.unit /\ ~h.unit
    <3>1. page[PageAt(x)] = "user"
      BY <1>5, <2>3, CellAt
    <3>2. PICK a \in DOMAIN size : PageAt(x) = PageAt(a)
      BY <2>3, CellAt
    <3> QED BY <1>2, <3>1, <3>2
  <2>4. CASE ~g.unit /\ h.unit
    <3>1. page[PageAt(x)] = "user"
      BY <2>4, CellAt
    <3>2. PICK a \in DOMAIN size : PageAt(x) = PageAt(a)
      BY <1>5, <2>4, CellAt
    <3> QED BY <1>2, <3>1, <3>2
  <2>5. CASE ~g.unit /\ ~h.unit
    <3>1. PageAt(x) = PageAt(g.ptr) /\ PageAt(x) = PageAt(h.ptr)
      BY <1>5, <2>5, CellAt
    <3>2. g.ptr % PageSize = 0 /\ h.ptr % PageSize = 0
      BY <1>0, <2>5 DEF Held
    <3>3. /\ g.ptr = PageSize * PageAt(g.ptr) + (g.ptr % PageSize)
          /\ h.ptr = PageSize * PageAt(h.ptr) + (h.ptr % PageSize)
      BY <1>1, <2>1, Divide DEF PageAt
    <3> QED BY <2>1, <3>1, <3>2, <3>3
  <2> QED BY <2>2, <2>3, <2>4, <2>5
<1>6. ASSUME NEW x \in Cells(g), x \in NodeCells PROVE FALSE
  <2>1. PICK c \in DOMAIN size : /\ c \in NodeUnits /\ c + HeaderSize <= x /\ x < c + Full(size[c])
                                 /\ PageAt(x) = PageAt(c)
    BY <1>6, NodeAt
  <2>2. x \in Nat
    BY CellAt
  <2>3. CASE g.unit
    <3>1. PICK a \in DOMAIN size : /\ g.ptr = Payload(a) /\ PageAt(x) = PageAt(a)
                                   /\ a + HeaderSize <= x /\ x < a + Full(size[a])
      BY <2>3, CellAt
    <3>2. CASE a < c
      <4>1. a + Full(size[a]) <= c
        BY <1>3, <2>1, <3>1, <3>2
      <4> QED BY <1>1, <1>2, <2>1, <2>2, <3>1, <4>1
    <3>3. CASE c < a
      <4>1. c + Full(size[c]) <= a
        BY <1>3, <2>1, <3>1, <3>3
      <4> QED BY <1>1, <1>2, <2>1, <2>2, <3>1, <4>1
    <3>4. a # c
      <4>1. InUse(a) /\ IsNode(c)
        BY <2>1, <2>3, <3>1, UnitsInUse DEF InUse
      <4> QED BY <1>0, <4>1 DEF Placed, Apiece
    <3> QED BY <1>2, <3>2, <3>3, <3>4
  <2>4. CASE ~g.unit
    <3>1. page[PageAt(x)] = "user"
      BY <2>4, CellAt
    <3> QED BY <1>2, <2>1, <3>1
  <2> QED BY <2>3, <2>4
<1> QED BY <1>4, <1>5, <1>6

\* For pages and units of any sizes that are multiples of the header, and whatever
\* is asked for, returned, split, merged and refilled: as long as no unit that leaves
\* its page is in use, no block shares a cell with a block, a header, or a node of
\* the allocator.
THEOREM BlocksApart == Spec => []ApartUnlessSpilt
<1>1. BInv => ApartUnlessSpilt
  BY Apart DEF BInv, ApartUnlessSpilt
<1> QED BY <1>1, BinsInvariant, PTL

\* As long as no such unit is in use, every unit is in one place only, a head, on a
\* list of a size it can serve, in use, a node, or cut off by a refill of bins[0],
\* and in a page that is not given back.
THEOREM UnitsAccounted == Spec => []UnitsKept
<1>1. BInv => UnitsKept
  <2> SUFFICES ASSUME BInv, ~spilt PROVE UnitsKept
    BY DEF UnitsKept
  <2>0. Inv /\ Typed /\ Cut /\ Placed /\ Held /\ Apiece
    BY DEF BInv, Inv, Placed
  <2> DEFINE D == DOMAIN size
             own == Range(head) \cup NodeUnits \cup dropped
  <2>1. /\ Users \subseteq D /\ Lists \subseteq D
        /\ Range(head) \subseteq D /\ NodeUnits \subseteq D /\ dropped \subseteq D
        /\ \A a \in D : /\ (a \in Users <=> InUse(a)) /\ (a \in Lists <=> OnList(a))
                        /\ (a \in Range(head) <=> AtHead(a)) /\ (a \in NodeUnits <=> IsNode(a))
    BY <2>0, UnitsInUse DEF Typed
  <2>2. /\ Users \cup Lists \cup own = D
        /\ Users \cap Lists = {} /\ (Users \cup Lists) \cap own = {}
        /\ Range(head) \cap (NodeUnits \cup dropped) = {} /\ NodeUnits \cap dropped = {}
    BY <2>0, <2>1 DEF Apiece
  <2>3. \A b \in Bins : list[b] \in Seq(D) /\ DOMAIN list[b] = 1 .. Len(list[b]) /\ Len(list[b]) \in Nat
    BY <2>0 DEF Typed
  <2>4. ASSUME NEW b \in Bins, NEW i \in DOMAIN list[b]
        PROVE  /\ Belongs(list[b][i], b) /\ At(list, b, i, list[b][i])
               /\ \A j \in 1 .. i - 1 : list[b][j] # list[b][i]
    <3>1. list[b][i] \in D /\ i \in 1 .. Len(list[b]) /\ Len(list[b]) \in Nat
      BY <2>3
    <3>2. At(list, b, i, list[b][i])
      BY <3>1 DEF At
    <3>3. Belongs(list[b][i], b)
      BY <2>0, <3>1, <3>2 DEF Placed, On
    <3>4. ASSUME NEW j \in 1 .. i - 1, list[b][j] = list[b][i] PROVE FALSE
      <4>1. j \in 1 .. Len(list[b]) /\ j # i
        BY <3>1
      <4>2. At(list, b, j, list[b][i])
        BY <3>4, <4>1 DEF At
      <4> QED BY <2>0, <3>2, <4>1, <4>2 DEF Apiece, Once
    <3> QED BY <3>2, <3>3, <3>4
  <2>5. ASSUME NEW b \in Bins, NEW d \in Bins, b < d PROVE ToSet(list[b]) \cap ToSet(list[d]) = {}
    <3>0. b # d
      BY <2>5, OneAndTwo
    <3>1. ASSUME NEW a \in ToSet(list[b]), a \in ToSet(list[d]) PROVE FALSE
      <4>1. PICK i \in DOMAIN list[b] : list[b][i] = a
        BY DEF ToSet
      <4>2. PICK j \in DOMAIN list[d] : list[d][j] = a
        BY <3>1 DEF ToSet
      <4>3. At(list, b, i, a) /\ At(list, d, j, a)
        BY <2>4, <4>1, <4>2
      <4> QED BY <2>0, <3>0, <4>3 DEF Apiece, Once
    <3> QED BY <3>1
  <2>6. \A a \in D : page[a \div PageSize] = "bin"
    BY <2>0 DEF Cut, PageAt
  <2>7. node \notin nodes
    BY <2>0 DEF Apiece
  <2> QED BY <2>2, <2>4, <2>5, <2>6, <2>7 DEF UnitsKept
<1> QED BY <1>1, BinsInvariant, PTL

=============================================================================
