-------------------------- MODULE BootloaderProofs --------------------------
(***************************************************************************)
(* What holds of Bootloader for every Base, SizeBytes, RxFifo, every image *)
(* the size of which fits, and every length of the texts.                  *)
(***************************************************************************)
EXTENDS Bootloader, WellFoundedInduction, TLAPS

----------------------------------------------------------------------------
(* Bytes and numbers *)

\* A set of natural numbers that is not empty has a least element.
LEMMA LeastNat ==
  ASSUME NEW S \in SUBSET Nat, S # {}
  PROVE  \E m \in S : \A n \in S : m <= n
<1>1. IsWellFoundedOn(OpToRel(<, Nat), Nat)
  BY NatLessThanWellFounded
<1>2. PICK x \in S : \A y \in S : ~(<<y, x>> \in OpToRel(<, Nat))
  BY <1>1, WFMin
<1>3. \A y \in S : ~(y < x)
  BY <1>2 DEF OpToRel
<1> QED BY <1>3

\* g grows as a and b say.
Grows(g, c, a, b, m) ==
  /\ g \in [0 .. m -> Nat]
  /\ g[0] = c
  /\ \A i \in 1 .. m : g[i] = a[i] * g[i - 1] + b[i]

\* What is defined from its predecessor by a product and a sum exists.
LEMMA Recurrence ==
  ASSUME NEW n \in Nat, NEW c \in Nat,
         NEW a \in [1 .. n -> Nat], NEW b \in [1 .. n -> Nat]
  PROVE  \E g : Grows(g, c, a, b, n)
<1> DEFINE Bad == {m \in 0 .. n : ~ \E g : Grows(g, c, a, b, m)}
<1> SUFFICES ASSUME Bad # {} PROVE FALSE
  <2>1. n \in 0 .. n
    OBVIOUS
  <2> QED BY <2>1
<1>1. Bad \in SUBSET Nat
  OBVIOUS
<1>2. PICK m \in Bad : \A k \in Bad : m <= k
  <2> HIDE DEF Bad
  <2> QED BY <1>1, LeastNat
<1>3. m \in 0 .. n /\ ~ \E g : Grows(g, c, a, b, m)
  OBVIOUS
<1>4. CASE m = 0
  <2> DEFINE g == [i \in 0 .. m |-> c]
  <2>1. Grows(g, c, a, b, m)
    BY <1>4 DEF Grows
  <2> QED BY <2>1, <1>3
<1>5. CASE m > 0
  <2>1. m - 1 \in 0 .. n /\ ~(m <= m - 1)
    BY <1>3, <1>5
  <2>2. PICK h : Grows(h, c, a, b, m - 1)
    BY <2>1, <1>2
  <2> DEFINE g == [i \in 0 .. m |-> IF i < m THEN h[i] ELSE a[m] * h[m - 1] + b[m]]
  <2>3. h[m - 1] \in Nat /\ a[m] \in Nat /\ b[m] \in Nat
    BY <2>2, <1>3, <1>5 DEF Grows
  <2>4. a[m] * h[m - 1] + b[m] \in Nat
    <3>1. \A x, y, z \in Nat : x * y + z \in Nat
      OBVIOUS
    <3> QED BY <2>3, <3>1
  <2>5. g \in [0 .. m -> Nat]
    BY <2>2, <2>4, <1>3, <1>5 DEF Grows
  <2>6. g[0] = c
    BY <2>2, <1>3, <1>5 DEF Grows
  <2>7. ASSUME NEW i \in 1 .. m PROVE g[i] = a[i] * g[i - 1] + b[i]
    <3>1. i - 1 \in 0 .. m /\ i - 1 < m /\ g[i - 1] = h[i - 1]
      BY <1>3, <2>7
    <3>2. CASE i = m
      BY <3>1, <3>2
    <3>3. CASE i # m
      <4>1. i \in 1 .. m - 1 /\ g[i] = h[i]
        BY <1>3, <2>7, <3>3
      <4> QED BY <4>1, <3>1, <2>2 DEF Grows
    <3> QED BY <3>2, <3>3
  <2>8. Grows(g, c, a, b, m)
    BY <2>5, <2>6, <2>7 DEF Grows
  <2> QED BY <2>8, <1>3
<1> QED BY <1>3, <1>4, <1>5

\* Place is what its recursion says.
LEMMA Places ==
  /\ Place \in [0 .. SizeBytes -> Nat]
  /\ Place[0] = 1
  /\ \A i \in 1 .. SizeBytes : Place[i] = Base * Place[i - 1]
<1> DEFINE F(g) == [i \in 0 .. SizeBytes |-> IF i = 0 THEN 1 ELSE Base * g[i - 1]]
           a == [i \in 1 .. SizeBytes |-> Base]
           b == [i \in 1 .. SizeBytes |-> 0]
<1>0. SizeBytes \in Nat /\ Base \in Nat
  BY BytesAssumption
<1>1. Place = CHOOSE g : g = F(g)
  BY DEF Place
<1>2. PICK g : Grows(g, 1, a, b, SizeBytes)
  <2>1. a \in [1 .. SizeBytes -> Nat] /\ b \in [1 .. SizeBytes -> Nat]
    BY <1>0
  <2> HIDE DEF a, b
  <2> QED BY <1>0, <2>1, Recurrence
<1>3. g = F(g)
  <2>1. ASSUME NEW i \in 0 .. SizeBytes PROVE g[i] = F(g)[i]
    <3>1. CASE i = 0
      BY <1>2, <3>1 DEF Grows
    <3>2. CASE i # 0
      <4>1. i \in 1 .. SizeBytes /\ i - 1 \in 0 .. SizeBytes
        BY <3>2, <1>0
      <4>2. g[i] = Base * g[i - 1] + 0 /\ g[i - 1] \in Nat
        BY <4>1, <1>2 DEF Grows
      <4>3. Base * g[i - 1] \in Nat
        BY <4>2, <1>0
      <4> QED BY <4>2, <4>3, <3>2
    <3> QED BY <3>1, <3>2
  <2> QED BY <2>1, <1>2 DEF Grows
<1> HIDE DEF F
<1>4. Place = F(Place)
  BY <1>1, <1>3
<1>5. Place = [i \in 0 .. SizeBytes |-> IF i = 0 THEN 1 ELSE Base * Place[i - 1]]
  BY <1>4 DEF F
<1>6. \A i \in 0 .. SizeBytes : Place[i] \in Nat
  <2> DEFINE Bad == {i \in 0 .. SizeBytes : Place[i] \notin Nat}
  <2> SUFFICES ASSUME Bad # {} PROVE FALSE
    OBVIOUS
  <2>1. PICK m \in Bad : \A k \in Bad : m <= k
    <3>1. Bad \in SUBSET Nat
      BY <1>0
    <3> HIDE DEF Bad
    <3> QED BY <3>1, LeastNat
  <2>2. m \in 0 .. SizeBytes /\ Place[m] \notin Nat /\ m # 0
    BY <1>5
  <2>3. m - 1 \in 0 .. SizeBytes /\ ~(m <= m - 1)
    BY <2>2, <1>0
  <2>4. Place[m - 1] \in Nat /\ Place[m] = Base * Place[m - 1]
    BY <2>1, <2>2, <2>3, <1>5
  <2> QED BY <2>2, <2>4, <1>0
<1>7. Place[0] = 1 /\ \A i \in 1 .. SizeBytes : Place[i] = Base * Place[i - 1]
  BY <1>5, <1>0
<1> QED BY <1>5, <1>6, <1>7

LEMMA PlacePositive == \A i \in 0 .. SizeBytes : Place[i] > 0
<1> DEFINE Bad == {i \in 0 .. SizeBytes : ~(Place[i] > 0)}
<1> SUFFICES ASSUME Bad # {} PROVE FALSE
  OBVIOUS
<1>0. SizeBytes \in Nat /\ Base \in Nat /\ Base > 1
  BY BytesAssumption
<1>1. PICK m \in Bad : \A k \in Bad : m <= k
  <2>1. Bad \in SUBSET Nat
    BY <1>0
  <2> HIDE DEF Bad
  <2> QED BY <2>1, LeastNat
<1>2. m \in 1 .. SizeBytes /\ ~(Place[m] > 0)
  BY Places, <1>0
<1>3. m - 1 \in 0 .. SizeBytes /\ ~(m <= m - 1)
  BY <1>2, <1>0
<1>4. Place[m - 1] > 0 /\ Place[m - 1] \in Nat /\ Place[m] = Base * Place[m - 1]
  BY <1>1, <1>2, <1>3, Places
<1>5. \A p \in Nat : p > 0 => Base * p > 0
  BY <1>0
<1> QED BY <1>2, <1>4, <1>5

LEMMA Division ==
  ASSUME NEW n \in Nat, NEW d \in Nat, d > 0
  PROVE  /\ n \div d \in Nat /\ n % d \in Nat /\ n % d < d
         /\ n = (d * (n \div d)) + (n % d)
  BY SMT

\* The bytes of a number are bytes.
LEMMA ToBytesType ==
  ASSUME NEW n \in Nat
  PROVE  /\ ToBytes(n) \in Seq(Bytes) /\ Len(ToBytes(n)) = SizeBytes
         /\ \A i \in 1 .. SizeBytes : ToBytes(n)[i] = (n \div Place[i - 1]) % Base
<1>0. SizeBytes \in Nat /\ Base \in Nat /\ Base > 1
  BY BytesAssumption
<1>1. ASSUME NEW i \in 1 .. SizeBytes
      PROVE  (n \div Place[i - 1]) % Base \in Bytes
  <2>1. i - 1 \in 0 .. SizeBytes
    BY <1>0
  <2>2. Place[i - 1] \in Nat /\ Place[i - 1] > 0
    BY <2>1, Places, PlacePositive
  <2>3. n \div Place[i - 1] \in Nat
    BY <2>2, Division
  <2> DEFINE q == n \div Place[i - 1]
  <2> HIDE DEF q
  <2>4. q \in Nat => q % Base \in Bytes
    BY <1>0, Division DEF Bytes
  <2> QED BY <2>3, <2>4 DEF q
<1> DEFINE t == ToBytes(n)
<1>2. t \in [1 .. SizeBytes -> Bytes] /\ \A i \in 1 .. SizeBytes : t[i] = (n \div Place[i - 1]) % Base
  BY <1>1 DEF ToBytes
<1> HIDE DEF t
<1>3. t \in Seq(Bytes) /\ Len(t) = SizeBytes
  BY <1>0, <1>2
<1> QED BY <1>2, <1>3 DEF t

\* What Value adds up, byte by byte.
Sum(s, v) ==
  /\ v \in [0 .. Len(s) -> Nat] /\ v[0] = 0
  /\ \A i \in 1 .. Len(s) : v[i] = v[i - 1] + s[i] * Place[i - 1]

LEMMA ValueSums ==
  ASSUME NEW s \in Seq(Bytes), Len(s) <= SizeBytes
  PROVE  \E v : Sum(s, v) /\ Value(s) = v[Len(s)]
<1> DEFINE n == Len(s)
           F(g) == [i \in 0 .. n |-> IF i = 0 THEN 0 ELSE g[i - 1] + s[i] * Place[i - 1]]
           a == [i \in 1 .. n |-> 1]
           b == [i \in 1 .. n |-> s[i] * Place[i - 1]]
           V == CHOOSE g : g = F(g)
<1>0. SizeBytes \in Nat /\ Base \in Nat /\ n \in Nat /\ n <= SizeBytes
  BY BytesAssumption
<1>1. \A i \in 1 .. n : s[i] \in Nat /\ Place[i - 1] \in Nat /\ s[i] * Place[i - 1] \in Nat
  <2> TAKE i \in 1 .. n
  <2>1. i - 1 \in 0 .. SizeBytes /\ s[i] \in Nat
    BY <1>0 DEF Bytes
  <2>2. Place[i - 1] \in Nat
    BY <2>1, Places
  <2> QED BY <2>1, <2>2
<1>2. PICK g : Grows(g, 0, a, b, n)
  <2>1. a \in [1 .. n -> Nat] /\ b \in [1 .. n -> Nat]
    BY <1>1
  <2> HIDE DEF a, b, n
  <2> QED BY <1>0, <2>1, Recurrence
<1>3. g = F(g)
  <2>1. ASSUME NEW i \in 0 .. n PROVE g[i] = F(g)[i]
    <3>1. CASE i = 0
      BY <1>2, <3>1 DEF Grows
    <3>2. CASE i # 0
      <4>1. i \in 1 .. n /\ i - 1 \in 0 .. n
        BY <3>2, <1>0
      <4>2. g[i] = 1 * g[i - 1] + s[i] * Place[i - 1] /\ g[i - 1] \in Nat
        BY <4>1, <1>2 DEF Grows
      <4>3. g[i] = g[i - 1] + s[i] * Place[i - 1]
        BY <4>2, <4>1, <1>1
      <4> QED BY <4>3, <3>2
    <3> QED BY <3>1, <3>2
  <2> QED BY <2>1, <1>2 DEF Grows
<1>4. V = F(V)
  <2> HIDE DEF F
  <2> QED BY <1>3
<1>5. Value(s) = V[n]
  BY DEF Value
<1> HIDE DEF V
<1>6. V = [i \in 0 .. n |-> IF i = 0 THEN 0 ELSE V[i - 1] + s[i] * Place[i - 1]]
  BY <1>4
<1> HIDE DEF F
<1>7. \A i \in 0 .. n : V[i] \in Nat
  <2> DEFINE Bad == {i \in 0 .. n : V[i] \notin Nat}
  <2> SUFFICES ASSUME Bad # {} PROVE FALSE
    OBVIOUS
  <2>1. PICK m \in Bad : \A k \in Bad : m <= k
    <3>1. Bad \in SUBSET Nat
      BY <1>0
    <3> HIDE DEF Bad
    <3> QED BY <3>1, LeastNat
  <2>2. m \in 1 .. n /\ V[m] \notin Nat
    BY <1>6, <1>0
  <2>3. m - 1 \in 0 .. n /\ ~(m <= m - 1)
    BY <2>2, <1>0
  <2>4. V[m - 1] \in Nat /\ V[m] = V[m - 1] + s[m] * Place[m - 1]
    BY <2>1, <2>2, <2>3, <1>6
  <2>5. s[m] * Place[m - 1] \in Nat
    BY <2>2, <1>1
  <2> QED BY <2>2, <2>4, <2>5
<1>8. V[0] = 0 /\ \A i \in 1 .. n : V[i] = V[i - 1] + s[i] * Place[i - 1]
  BY <1>6, <1>0
<1>9. Sum(s, V)
  BY <1>6, <1>7, <1>8 DEF Sum
<1> QED BY <1>5, <1>9

LEMMA ValueType ==
  ASSUME NEW s \in Seq(Bytes), Len(s) <= SizeBytes
  PROVE  Value(s) \in Nat
<1>1. PICK v : Sum(s, v) /\ Value(s) = v[Len(s)]
  BY ValueSums
<1> QED BY <1>1 DEF Sum

\* One byte more: what is left of n after i bytes and after i + 1.
LEMMA NextByte ==
  ASSUME NEW n \in Nat, NEW p \in Nat, p > 0, NEW b \in Nat, b > 0
  PROVE  n % (b * p) = (n % p) + (((n \div p) % b) * p)
<1> DEFINE q == n \div p
           r == n % p
           m == q \div b
           t == q % b
<1>1. q \in Nat /\ r \in Nat /\ r < p /\ n = (p * q) + r
  BY Division
<1> HIDE DEF q, r
<1>2. m \in Nat /\ t \in Nat /\ t < b /\ q = (b * m) + t
  BY <1>1, Division
<1> HIDE DEF m, t
<1> DEFINE d == b * p
           e == (t * p) + r
<1>3. d \in Nat /\ d > 0
  OBVIOUS
<1>4. e \in Nat /\ e < d
  <2>1. t <= b - 1
    BY <1>2
  <2>2. t * p <= (b - 1) * p
    BY <2>1, <1>2
  <2>3. (b - 1) * p = (b * p) - p
    OBVIOUS
  <2>4. t * p \in Nat /\ b * p \in Nat
    BY <1>2
  <2> QED BY <2>2, <2>3, <2>4, <1>1
<1>5. n = (d * m) + e
  <2>1. p * q = (p * (b * m)) + (p * t)
    BY <1>2
  <2>2. p * (b * m) = (b * p) * m /\ p * t = t * p
    BY <1>2
  <2> QED BY <2>1, <2>2, <1>1, <1>2
<1> HIDE DEF d, e
<1>6. n % d = e
  <2> DEFINE x == n \div d
             y == n % d
  <2>1. x \in Nat /\ y \in Nat /\ y < d /\ n = (d * x) + y
    BY <1>3, Division
  <2> HIDE DEF x, y
  <2>2. x = m
    <3>1. ASSUME x < m PROVE FALSE
      <4>1. x + 1 <= m
        BY <3>1, <2>1, <1>2
      <4>2. d * (x + 1) <= d * m
        BY <4>1, <2>1, <1>2, <1>3
      <4>3. d * (x + 1) = (d * x) + d
        BY <2>1, <1>3
      <4>4. d * x \in Nat /\ d * m \in Nat
        BY <2>1, <1>2, <1>3
      <4> QED BY <4>2, <4>3, <4>4, <2>1, <1>3, <1>4, <1>5
    <3>2. ASSUME m < x PROVE FALSE
      <4>1. m + 1 <= x
        BY <3>2, <2>1, <1>2
      <4>2. d * (m + 1) <= d * x
        BY <4>1, <2>1, <1>2, <1>3
      <4>3. d * (m + 1) = (d * m) + d
        BY <1>2, <1>3
      <4>4. d * x \in Nat /\ d * m \in Nat
        BY <2>1, <1>2, <1>3
      <4> QED BY <4>2, <4>3, <4>4, <2>1, <1>3, <1>4, <1>5
    <3> QED BY <3>1, <3>2, <2>1, <1>2
  <2>3. d * x \in Nat
    BY <2>1, <1>3
  <2>4. y = e
    BY <2>1, <2>2, <2>3, <1>4, <1>5
  <2> QED BY <2>4 DEF y
<1> QED BY <1>6 DEF d, e, q, r, m, t

\* The board reads the number that the uploader wrote.
LEMMA ValueOfBytes ==
  ASSUME NEW n \in Nat, n < Place[SizeBytes]
  PROVE  Value(ToBytes(n)) = n
<1> DEFINE s == ToBytes(n)
<1>0. SizeBytes \in Nat /\ Base \in Nat /\ Base > 1
  BY BytesAssumption
<1>1. s \in Seq(Bytes) /\ Len(s) = SizeBytes
      /\ \A i \in 1 .. SizeBytes : s[i] = (n \div Place[i - 1]) % Base
  BY ToBytesType
<1> HIDE DEF s
<1>2. PICK v : Sum(s, v) /\ Value(s) = v[SizeBytes]
  <2>1. Len(s) <= SizeBytes
    BY <1>0, <1>1
  <2> QED BY <2>1, <1>1, ValueSums
<1> DEFINE Bad == {i \in 0 .. SizeBytes : v[i] # n % Place[i]}
<1>3. Bad = {}
  <2> SUFFICES ASSUME Bad # {} PROVE FALSE
    OBVIOUS
  <2>1. PICK m \in Bad : \A k \in Bad : m <= k
    <3>1. Bad \in SUBSET Nat
      BY <1>0
    <3> HIDE DEF Bad
    <3> QED BY <3>1, LeastNat
  <2>2. m \in 0 .. SizeBytes /\ v[m] # n % Place[m]
    OBVIOUS
  <2>3. CASE m = 0
    <3>1. n % 1 = 0
      BY Division
    <3> QED BY <2>2, <2>3, <3>1, <1>2, Places DEF Sum
  <2>4. CASE m # 0
    <3>1. m \in 1 .. SizeBytes /\ m - 1 \in 0 .. SizeBytes /\ ~(m <= m - 1)
      BY <2>2, <2>4, <1>0
    <3>2. v[m - 1] = n % Place[m - 1]
      BY <2>1, <3>1
    <3>3. v[m] = v[m - 1] + s[m] * Place[m - 1]
      BY <3>1, <1>1, <1>2 DEF Sum
    <3>4. s[m] = (n \div Place[m - 1]) % Base
      BY <3>1, <1>1
    <3>5. Place[m - 1] \in Nat /\ Place[m - 1] > 0 /\ Place[m] = Base * Place[m - 1]
      BY <3>1, Places, PlacePositive
    <3>6. n % (Base * Place[m - 1])
            = (n % Place[m - 1]) + (((n \div Place[m - 1]) % Base) * Place[m - 1])
      <4> DEFINE p == Place[m - 1]
      <4>1. p \in Nat /\ p > 0
        BY <3>5
      <4> HIDE DEF p
      <4>2. n % (Base * p) = (n % p) + (((n \div p) % Base) * p)
        BY <4>1, <1>0, NextByte
      <4> QED BY <4>2 DEF p
    <3> QED BY <2>2, <3>2, <3>3, <3>4, <3>5, <3>6
  <2> QED BY <2>3, <2>4
<1>4. v[SizeBytes] = n % Place[SizeBytes]
  BY <1>0, <1>3
<1>5. n % Place[SizeBytes] = n
  <2>1. Place[SizeBytes] \in Nat
    BY <1>0, Places
  <2> QED BY <2>1
<1> QED BY <1>2, <1>4, <1>5 DEF s

----------------------------------------------------------------------------
(* Types *)

LEMMA Behead ==
  ASSUME NEW S, NEW s \in Seq(S), s # <<>>
  PROVE  /\ Len(s) \in Nat /\ Len(s) > 0 /\ Head(s) \in S /\ Head(s) = s[1]
         /\ Tail(s) \in Seq(S) /\ Len(Tail(s)) = Len(s) - 1
         /\ \A i \in 1 .. Len(s) - 1 : Tail(s)[i] = s[i + 1]
  OBVIOUS

LEMMA Appended ==
  ASSUME NEW S, NEW s \in Seq(S), NEW x \in S
  PROVE  /\ Append(s, x) \in Seq(S) /\ Len(s) \in Nat /\ Len(Append(s, x)) = Len(s) + 1
         /\ \A i \in 1 .. Len(s) : Append(s, x)[i] = s[i]
         /\ Append(s, x)[Len(s) + 1] = x
  OBVIOUS

LEMMA GetCharType == ASSUME NEW c \in Bytes PROVE GetChar(c) \in Bytes
  BY BytesAssumption DEF GetChar

LEMMA FunctionSeq ==
  ASSUME NEW S, NEW n \in Nat, NEW f \in [1 .. n -> S]
  PROVE  f \in Seq(S) /\ Len(f) = n
  OBVIOUS

LEMMA Joined ==
  ASSUME NEW S, NEW s \in Seq(S), NEW t \in Seq(S)
  PROVE  /\ s \o t \in Seq(S) /\ Len(s) \in Nat /\ Len(t) \in Nat
         /\ Len(s \o t) = Len(s) + Len(t)
         /\ \A i \in 1 .. Len(s) : (s \o t)[i] = s[i]
         /\ \A i \in 1 .. Len(t) : (s \o t)[Len(s) + i] = t[i]
  OBVIOUS

\* A text, and what is still to go out when it is sent.
LEMMA TextType ==
  ASSUME NEW t \in Lines
  PROVE  /\ Text(t) \in Seq(Lines \cup {""}) /\ Len(Text(t)) = Length[t]
         /\ Length[t] \in Nat /\ Length[t] > 0
         /\ \A i \in 1 .. Length[t] : i < Length[t] => Text(t)[i] = ""
<1>1. Length[t] \in Nat /\ Length[t] > 0
  BY BytesAssumption
<1>2. ASSUME NEW i \in 1 .. Length[t]
      PROVE  (IF i < Length[t] THEN "" ELSE t) \in Lines \cup {""}
  OBVIOUS
<1> DEFINE x == Text(t)
<1>3. x \in [1 .. Length[t] -> Lines \cup {""}]
  BY <1>2 DEF Text
<1>4. \A i \in 1 .. Length[t] : i < Length[t] => x[i] = ""
  BY DEF Text
<1> HIDE DEF x
<1>5. x \in Seq(Lines \cup {""}) /\ Len(x) = Length[t]
  BY <1>1, <1>3, FunctionSeq
<1> QED BY <1>1, <1>4, <1>5 DEF x

\* While the size is read there is room for a byte of it.
TypeInv ==
  /\ TypeOK
  /\ pi \in {"off", "banner", "size"} => Len(got) < SizeBytes

LEMMA InitType == Init => TypeInv
<1> SUFFICES ASSUME Init PROVE TypeInv
  OBVIOUS
<1>1. \A S : <<>> \in Seq(S) /\ Len(<<>>) = 0
  OBVIOUS
<1>2. SizeBytes \in Nat /\ SizeBytes > 0 /\ RxFifo \in Nat
  BY BytesAssumption
<1>3. /\ down \in Seq(Bytes) /\ up \in Seq(Lines) /\ fifo \in Seq(Bytes) /\ Len(fifo) = 0
      /\ got \in Seq(Bytes) /\ Len(got) = 0 /\ memory \in Seq(Bytes)
  BY <1>1 DEF Init
<1>4. Len(fifo) <= RxFifo /\ Len(got) < SizeBytes /\ Len(got) <= SizeBytes
  BY <1>2, <1>3
<1>5. /\ image \in Images /\ host = "closed" /\ pi = "off" /\ sending \in Seq(Lines \cup {""}) /\ size = 0
      /\ lost = 0 /\ early = FALSE
  BY <1>1 DEF Init
<1>6. TypeOK
  BY <1>3, <1>4, <1>5 DEF TypeOK
<1> QED BY <1>4, <1>6 DEF TypeInv

LEMMA ArriveType ==
  ASSUME TypeInv, Arrive
  PROVE  /\ down' \in Seq(Bytes) /\ fifo' \in Seq(Bytes) /\ Len(fifo') <= RxFifo
         /\ lost' \in Nat
<1>1. /\ down \in Seq(Bytes) /\ fifo \in Seq(Bytes) /\ Len(fifo) <= RxFifo
      /\ lost \in Nat /\ RxFifo \in Nat
  BY BytesAssumption DEF TypeInv, TypeOK
<1>2. down # <<>> /\ down' = Tail(down)
  BY DEF Arrive
<1>3. down' \in Seq(Bytes) /\ Head(down) \in Bytes
  BY <1>1, <1>2, Behead
<1>4. CASE Len(fifo) < RxFifo /\ pi # "off"
  <2>1. fifo' = Append(fifo, Head(down)) /\ lost' = lost
    BY <1>4 DEF Arrive
  <2>2. fifo' \in Seq(Bytes) /\ Len(fifo') = Len(fifo) + 1 /\ Len(fifo) \in Nat
    BY <2>1, <1>1, <1>3, Appended
  <2> QED BY <2>1, <2>2, <1>1, <1>3, <1>4
<1>5. CASE ~(Len(fifo) < RxFifo /\ pi # "off")
  <2>1. fifo' = fifo /\ lost' = lost + 1
    BY <1>5 DEF Arrive
  <2> QED BY <2>1, <1>1, <1>3
<1> QED BY <1>4, <1>5

LEMMA LeaveType ==
  ASSUME TypeInv, Leave
  PROVE  sending' \in Seq(Lines \cup {""}) /\ up' \in Seq(Lines)
<1>1. /\ sending \in Seq(Lines \cup {""}) /\ sending # <<>> /\ sending' = Tail(sending)
      /\ up \in Seq(Lines)
  BY DEF Leave, TypeInv, TypeOK
<1>2. sending' \in Seq(Lines \cup {""})
  BY <1>1, Behead
<1>3. CASE Head(sending) \in Lines /\ host # "closed"
  <2>1. up' = Append(up, Head(sending))
    BY <1>3 DEF Leave
  <2> QED BY <1>1, <1>2, <1>3, <2>1, Appended
<1>4. CASE ~(Head(sending) \in Lines /\ host # "closed")
  <2>1. up' = up
    BY <1>4 DEF Leave
  <2> QED BY <1>1, <1>2, <2>1
<1> QED BY <1>3, <1>4

\* What is still to go out when a text is sent.
LEMMA SayType ==
  ASSUME TypeInv, NEW t \in Lines, Say(t)
  PROVE  pi' = t /\ sending' \in Seq(Lines \cup {""})
<1>1. sending \in Seq(Lines \cup {""}) /\ sending' = sending \o Text(t) /\ pi' = t
  BY DEF Say, TypeInv, TypeOK
<1>2. Text(t) \in Seq(Lines \cup {""})
  BY TextType
<1> QED BY <1>1, <1>2, Joined

LEMMA OpenType == TypeInv /\ Open => TypeInv'
<1> SUFFICES ASSUME TypeInv, Open PROVE TypeInv'
  OBVIOUS
<1>0. image \in Images
  BY DEF TypeInv, TypeOK
<1>1. Len(image) \in Nat
  BY <1>0, ImagesAssumption
<1>2. down' \in Seq(Bytes)
  BY <1>1, ToBytesType DEF Open
<1> QED BY <1>2 DEF Open, TypeInv, TypeOK, board

LEMMA UploaderType == TypeInv /\ Uploader => TypeInv'
<1>1. ASSUME TypeInv, ReadLine PROVE up' \in Seq(Lines)
  <2>1. up \in Seq(Lines) /\ up # <<>> /\ up' = Tail(up)
    BY <1>1 DEF TypeInv, TypeOK, ReadLine
  <2> QED BY <2>1, Behead
<1>2. ASSUME TypeInv, SendImage PROVE TypeInv'
  <2>1. down \in Seq(Bytes) /\ image \in Seq(Bytes)
    BY <1>2, ImagesAssumption DEF TypeInv, TypeOK
  <2>2. down' \in Seq(Bytes)
    BY <1>2, <2>1 DEF SendImage
  <2> QED BY <1>1, <1>2, <2>2 DEF SendImage, TypeInv, TypeOK, board
<1>3. ASSUME TypeInv, Finish PROVE TypeInv'
  BY <1>1, <1>3 DEF Finish, TypeInv, TypeOK, board
<1> QED BY <1>2, <1>3 DEF Uploader

LEMMA PowerOnType == TypeInv /\ PowerOn => TypeInv'
<1> SUFFICES ASSUME TypeInv, PowerOn PROVE TypeInv'
  OBVIOUS
<1>1. RxFifo \in Nat /\ "banner" \in Lines /\ "banner" \in Texts
  BY BytesAssumption DEF Texts, Lines
<1>2. pi' = "banner" /\ sending' \in Seq(Lines \cup {""})
  BY <1>1, SayType DEF PowerOn
<1>3. fifo' \in Seq(Bytes) /\ Len(fifo') <= RxFifo
  BY <1>1 DEF PowerOn
<1> QED BY <1>1, <1>2, <1>3 DEF PowerOn, TypeInv, TypeOK

LEMMA CharTimeType == TypeInv /\ CharTime => TypeInv'
<1> SUFFICES ASSUME TypeInv, CharTime PROVE TypeInv'
  OBVIOUS
<1>1. sending' \in Seq(Lines \cup {""}) /\ up' \in Seq(Lines)
  BY LeaveType DEF CharTime, TypeInv, TypeOK
<1>2. /\ down' \in Seq(Bytes) /\ fifo' \in Seq(Bytes) /\ Len(fifo') <= RxFifo
      /\ lost' \in Nat
  BY ArriveType DEF CharTime, TypeInv, TypeOK
<1> QED BY <1>1, <1>2 DEF CharTime, TypeInv, TypeOK

LEMMA SaidType ==
  TypeInv /\ (BannerOut \/ CheckOut \/ LoadedOut) => TypeInv'
<1>1. ASSUME TypeInv, BannerOut PROVE TypeInv'
  BY <1>1 DEF BannerOut, Said, TypeInv, TypeOK
<1>2. ASSUME TypeInv, CheckOut PROVE TypeInv'
  BY <1>2 DEF CheckOut, Said, TypeInv, TypeOK
<1>3. ASSUME TypeInv, LoadedOut PROVE TypeInv'
  BY <1>3 DEF LoadedOut, Said, TypeInv, TypeOK
<1> QED BY <1>1, <1>2, <1>3

LEMMA KernelStartsType == TypeInv /\ KernelStarts => TypeInv'
<1> SUFFICES ASSUME TypeInv, KernelStarts PROVE TypeInv'
  OBVIOUS
<1>1. sending' \in Seq(Lines \cup {""}) /\ "shell" \in Lines
  BY TextType DEF KernelStarts, Lines
<1>2. fifo' \in Seq(Bytes) /\ Len(fifo') <= RxFifo
  BY BytesAssumption DEF KernelStarts
<1> QED BY <1>1, <1>2 DEF KernelStarts, TypeInv, TypeOK

\* A byte is taken from the FIFO.
LEMMA Taken ==
  ASSUME TypeInv, fifo # <<>>
  PROVE  /\ GetChar(Head(fifo)) \in Bytes /\ Tail(fifo) \in Seq(Bytes)
         /\ Len(Tail(fifo)) <= RxFifo /\ Len(Tail(fifo)) = Len(fifo) - 1
<1>1. fifo \in Seq(Bytes) /\ Len(fifo) <= RxFifo /\ RxFifo \in Nat
  BY BytesAssumption DEF TypeInv, TypeOK
<1>2. /\ Len(fifo) \in Nat /\ Head(fifo) \in Bytes /\ Tail(fifo) \in Seq(Bytes)
      /\ Len(Tail(fifo)) = Len(fifo) - 1
  BY <1>1, Behead
<1> QED BY <1>1, <1>2, GetCharType

LEMMA GetSizeType == TypeInv /\ GetSize => TypeInv'
<1> SUFFICES ASSUME TypeInv, GetSize PROVE TypeInv'
  OBVIOUS
<1>1. /\ GetChar(Head(fifo)) \in Bytes /\ fifo' \in Seq(Bytes) /\ Len(fifo') <= RxFifo
      /\ got' = Append(got, GetChar(Head(fifo)))
  BY Taken DEF GetSize
<1>2. SizeBytes \in Nat /\ "check" \in Lines
  BY BytesAssumption DEF Lines, Texts
<1>3. got \in Seq(Bytes) /\ Len(got) < SizeBytes
  BY DEF GetSize, TypeInv, TypeOK
<1>4. got' \in Seq(Bytes) /\ Len(got') = Len(got) + 1 /\ Len(got) \in Nat
  BY <1>1, <1>3, Appended
<1>5. Len(got') <= SizeBytes
  BY <1>2, <1>3, <1>4
<1>6. Value(got') \in Nat
  BY <1>4, <1>5, ValueType
<1>7. CASE Len(got') = SizeBytes
  <2>1. size' = Value(got') /\ pi' = "check" /\ sending' \in Seq(Lines \cup {""})
    BY <1>2, <1>7, SayType DEF GetSize
  <2> QED BY <2>1, <1>1, <1>2, <1>4, <1>5, <1>6 DEF GetSize, TypeInv, TypeOK
<1>8. CASE Len(got') # SizeBytes
  <2>1. size' = size /\ pi' = pi /\ sending' = sending /\ Len(got') < SizeBytes
    BY <1>2, <1>4, <1>5, <1>8 DEF GetSize
  <2> QED BY <2>1, <1>1, <1>4, <1>5 DEF GetSize, TypeInv, TypeOK
<1> QED BY <1>7, <1>8

LEMMA GetByteType == TypeInv /\ GetByte => TypeInv'
<1> SUFFICES ASSUME TypeInv, GetByte PROVE TypeInv'
  OBVIOUS
<1>1. /\ GetChar(Head(fifo)) \in Bytes /\ fifo' \in Seq(Bytes) /\ Len(fifo') <= RxFifo
      /\ memory' = Append(memory, GetChar(Head(fifo)))
  BY Taken DEF GetByte
<1>2. memory' \in Seq(Bytes)
  BY <1>1, Appended DEF TypeInv, TypeOK
<1>3. size' \in Nat
  <2>1. size \in Nat
    BY DEF TypeInv, TypeOK
  <2> QED BY <2>1 DEF GetByte, More
<1> QED BY <1>1, <1>2, <1>3 DEF GetByte, TypeInv, TypeOK

LEMMA GotAllType == TypeInv /\ GotAll => TypeInv'
<1> SUFFICES ASSUME TypeInv, GotAll PROVE TypeInv'
  OBVIOUS
<1>1. "loaded" \in Lines
  BY DEF Texts, Lines
<1>2. pi' = "loaded" /\ sending' \in Seq(Lines \cup {""})
  BY <1>1, SayType DEF GotAll
<1> QED BY <1>1, <1>2 DEF GotAll, TypeInv, TypeOK

LEMMA NextType == TypeInv /\ [Next]_vars => TypeInv'
<1>1. TypeInv /\ UNCHANGED vars => TypeInv'
  BY DEF TypeInv, TypeOK, vars, board
<1>2. TypeInv /\ Board => TypeInv'
  BY SaidType, GetSizeType, GetByteType, GotAllType DEF Board
<1> QED
  BY <1>1, <1>2, OpenType, PowerOnType, UploaderType, KernelStartsType, CharTimeType DEF Next

\* Every variable keeps its type: size, which the board counts down without a
\* sign, never goes below zero, and the FIFO never holds more than it can.
THEOREM TypeCorrect == Spec => []TypeOK
<1>1. TypeInv => TypeOK
  BY DEF TypeInv
<1> QED BY <1>1, InitType, NextType, PTL DEF Spec

----------------------------------------------------------------------------
(* An upload that is started in time *)

\* No carriage return is in the size, or the FIFO has room for what arrives
\* while the board sends its last text.
Whole ==
  CR \notin Range(ToBytes(Len(image))) \/ Length["loaded"] - TxFifo <= RxFifo

\* read is what the board has of s so far; the rest waits in the FIFO or is on
\* its way.
Flows(read, s) ==
  /\ Len(read) + Len(fifo) + Len(down) = Len(s)
  /\ \A i \in 1 .. Len(read) : read[i] = GetChar(s[i])
  /\ \A i \in 1 .. Len(fifo) : fifo[i] = s[Len(read) + i]
  /\ \A i \in 1 .. Len(down) : down[i] = s[Len(read) + Len(fifo) + i]

\* Nobody has sent anything.
Quiet == down = <<>> /\ fifo = <<>> /\ memory = <<>>

\* While the line that answers the size is still to go out, with n characters
\* after it, the uploader waits for it.
Asked(n) ==
  /\ Len(sending) > n => host = "sized" /\ up = <<>>
  /\ \A i \in 1 .. Len(sending) : i < Len(sending) - n => sending[i] = ""

\* What the uploader sends after the size.
ImageFlows == IF host = "sized" THEN Quiet ELSE Flows(memory, image)

\* Where the two sides are with each other while nothing is lost.  The board
\* takes each byte before the next arrives, and is sent nothing while it sends
\* "size-check correct", since the uploader waits for that text.
Progress ==
  /\ lost = 0
  /\ host = "closed" =>
       Quiet /\ up = <<>> /\ got = <<>> /\ pi \in {"off", "banner", "size"}
  /\ host # "closed" => pi \in {"size", "check", "image", "loaded", "kernel", "shell"}
  /\ pi = "size" /\ host # "closed" =>
       /\ host = "sized" /\ up = <<>> /\ memory = <<>> /\ sending = <<>>
       /\ Flows(got, ToBytes(Len(image)))
  /\ pi = "size" => Len(fifo) <= 1
  /\ pi = "check" => host = "sized" /\ up = <<>> /\ Quiet /\ Asked(0)
  /\ pi = "image" =>
       ImageFlows /\ Asked(0) /\ Len(fifo) <= 1 /\ (size = 0 => fifo = <<>>)
  /\ pi = "loaded" =>
       /\ ImageFlows /\ Asked(Length["loaded"])
       /\ Len(sending) <= Length["loaded"] => Len(fifo) + Len(sending) <= Length["loaded"]
  /\ pi = "kernel" => ImageFlows

\* What the board counts.
Counted ==
  /\ pi \in {"check", "image", "loaded", "kernel"} =>
       /\ Len(got) = SizeBytes
       /\ \A i \in 1 .. SizeBytes : got[i] = GetChar(ToBytes(Len(image))[i])
       /\ size + Len(memory) = Value(got)
  /\ pi \in {"loaded", "kernel"} => size = 0

\* The inductive invariant.
FlowInv ==
  /\ TypeInv
  /\ host = "closed" => ~early
  /\ ~early /\ Whole => Progress /\ Counted

LEMMA SizeType ==
  ASSUME TypeInv
  PROVE  /\ image \in Seq(Bytes) /\ Len(image) \in Nat /\ Len(image) < Place[SizeBytes]
         /\ ToBytes(Len(image)) \in Seq(Bytes) /\ Len(ToBytes(Len(image))) = SizeBytes
<1>0. image \in Images
  BY DEF TypeInv, TypeOK
<1>1. image \in Seq(Bytes) /\ Len(image) \in Nat /\ Len(image) < Place[SizeBytes]
  BY <1>0, ImagesAssumption
<1> QED BY <1>1, ToBytesType

LEMMA Types ==
  ASSUME TypeInv
  PROVE  /\ down \in Seq(Bytes) /\ fifo \in Seq(Bytes) /\ got \in Seq(Bytes)
         /\ memory \in Seq(Bytes) /\ Len(down) \in Nat /\ Len(fifo) \in Nat
         /\ Len(got) \in Nat /\ Len(memory) \in Nat
         /\ RxFifo \in Nat /\ SizeBytes \in Nat /\ SizeBytes > 0 /\ SizeBytes <= RxFifo
         /\ size \in Nat
<1>1. /\ down \in Seq(Bytes) /\ fifo \in Seq(Bytes) /\ got \in Seq(Bytes)
      /\ memory \in Seq(Bytes) /\ size \in Nat
  BY DEF TypeInv, TypeOK
<1>2. RxFifo \in Nat /\ SizeBytes \in Nat /\ SizeBytes > 0 /\ SizeBytes <= RxFifo
  BY BytesAssumption
<1>3. \A S : \A s \in Seq(S) : Len(s) \in Nat
  OBVIOUS
<1> QED BY <1>1, <1>2, <1>3

LEMMA SendingType ==
  ASSUME TypeInv
  PROVE  /\ sending \in Seq(Lines \cup {""}) /\ Len(sending) \in Nat /\ up \in Seq(Lines)
         /\ TxFifo \in Nat /\ TxFifo > 0
         /\ Length["loaded"] \in Nat /\ Length["loaded"] > 0
<1>1. "loaded" \in Lines
  BY DEF Texts, Lines
<1>2. Length["loaded"] \in Nat /\ Length["loaded"] > 0
  BY <1>1, TextType
<1>3. sending \in Seq(Lines \cup {""}) /\ up \in Seq(Lines)
  BY DEF TypeInv, TypeOK
<1>4. TxFifo \in Nat /\ TxFifo > 0
  BY BytesAssumption
<1>5. \A S : \A s \in Seq(S) : Len(s) \in Nat
  OBVIOUS
<1> QED BY <1>2, <1>3, <1>4, <1>5

\* What is counted, before and after a step.
LEMMA Counts ==
  ASSUME TypeInv, TypeInv'
  PROVE  /\ Len(fifo) \in Nat /\ Len(fifo') \in Nat
         /\ Len(sending) \in Nat /\ Len(sending') \in Nat
         /\ size \in Nat /\ RxFifo \in Nat /\ TxFifo \in Nat /\ TxFifo > 0
         /\ Length["loaded"] \in Nat
<1>1. \A S : \A s \in Seq(S) : Len(s) \in Nat
  OBVIOUS
<1>2. /\ fifo \in Seq(Bytes) /\ fifo' \in Seq(Bytes)
      /\ sending \in Seq(Lines \cup {""}) /\ sending' \in Seq(Lines \cup {""})
  BY DEF TypeInv, TypeOK
<1> QED BY <1>1, <1>2, Types, SendingType

LEMMA NoLine == "" \notin Lines
  BY DEF Lines, Texts

\* A character that goes out brings the answer nearer; it is not the answer's
\* last while more than n + 1 characters are left.
LEMMA AskedLeave ==
  ASSUME TypeInv, Leave, NEW n \in Nat, Asked(n), UNCHANGED host
  PROVE  Asked(n)' /\ Len(sending') = Len(sending) - 1 /\ Len(sending) > 0
<1>1. sending # <<>> /\ sending' = Tail(sending) /\ sending \in Seq(Lines \cup {""})
  BY SendingType DEF Leave
<1>2. /\ Len(sending) \in Nat /\ Len(sending) > 0 /\ Head(sending) = sending[1]
      /\ Len(sending') = Len(sending) - 1
      /\ \A i \in 1 .. Len(sending) - 1 : sending'[i] = sending[i + 1]
  BY <1>1, Behead
<1>3. ASSUME Len(sending') > n PROVE host' = "sized" /\ up' = <<>>
  <2>1. Len(sending) > n /\ 1 < Len(sending) - n /\ 1 \in 1 .. Len(sending)
    BY <1>2, <1>3
  <2>2. host = "sized" /\ up = <<>> /\ sending[1] = ""
    BY <2>1 DEF Asked
  <2>3. Head(sending) \notin Lines
    BY <1>2, <2>2, NoLine
  <2> QED BY <2>2, <2>3 DEF Leave
<1>4. ASSUME NEW i \in 1 .. Len(sending'), i < Len(sending') - n PROVE sending'[i] = ""
  <2>1. i + 1 \in 1 .. Len(sending) /\ i + 1 < Len(sending) - n /\ sending'[i] = sending[i + 1]
    BY <1>2, <1>4
  <2> QED BY <2>1 DEF Asked
<1> QED BY <1>2, <1>3, <1>4 DEF Asked

\* A byte that finds room in the FIFO stays in the flow.
LEMMA ArriveFlows ==
  ASSUME TypeInv, Arrive, Len(fifo) < RxFifo, pi # "off",
         NEW read \in Seq(Bytes), NEW s, Flows(read, s), UNCHANGED pi
  PROVE  /\ Len(read) + Len(fifo') + Len(down') = Len(s)
         /\ \A i \in 1 .. Len(fifo') : fifo'[i] = s[Len(read) + i]
         /\ \A i \in 1 .. Len(down') : down'[i] = s[Len(read) + Len(fifo') + i]
         /\ lost' = lost /\ Len(fifo') = Len(fifo) + 1
<1>1. /\ down # <<>> /\ down' = Tail(down)
      /\ fifo' = Append(fifo, Head(down)) /\ lost' = lost
  BY DEF Arrive
<1>2. /\ Len(down) \in Nat /\ Len(down) > 0 /\ Len(down') = Len(down) - 1
      /\ Head(down) = down[1] /\ Head(down) \in Bytes
      /\ \A i \in 1 .. Len(down) - 1 : down'[i] = down[i + 1]
  BY <1>1, Types, Behead
<1>3. /\ Len(fifo) \in Nat /\ Len(fifo') = Len(fifo) + 1
      /\ \A i \in 1 .. Len(fifo) : fifo'[i] = fifo[i]
      /\ fifo'[Len(fifo) + 1] = Head(down)
  BY <1>1, <1>2, Types, Appended
<1>4. Len(read) \in Nat
  OBVIOUS
<1>5. ASSUME NEW i \in 1 .. Len(fifo') PROVE fifo'[i] = s[Len(read) + i]
  <2>1. CASE i = Len(fifo) + 1
    <3>1. down[1] = s[Len(read) + Len(fifo) + 1]
      BY <1>2 DEF Flows
    <3> QED BY <2>1, <3>1, <1>2, <1>3, <1>4
  <2>2. CASE i # Len(fifo) + 1
    <3>1. i \in 1 .. Len(fifo)
      BY <2>2, <1>3
    <3> QED BY <3>1, <1>3 DEF Flows
  <2> QED BY <2>1, <2>2
<1>6. ASSUME NEW i \in 1 .. Len(down') PROVE down'[i] = s[Len(read) + Len(fifo') + i]
  <2>1. i + 1 \in 1 .. Len(down) /\ down'[i] = down[i + 1]
    BY <1>2
  <2>2. down[i + 1] = s[Len(read) + Len(fifo) + (i + 1)]
    BY <2>1 DEF Flows
  <2> QED BY <2>1, <2>2, <1>3, <1>4
<1> QED BY <1>1, <1>2, <1>3, <1>4, <1>5, <1>6 DEF Flows

\* A byte that is read stays in the flow.
LEMMA ReadFlows ==
  ASSUME TypeInv, fifo # <<>>, fifo' = Tail(fifo), UNCHANGED down,
         NEW read \in Seq(Bytes), NEW s, Flows(read, s)
  PROVE  LET new == Append(read, GetChar(Head(fifo)))
         IN  /\ Len(new) + Len(fifo') + Len(down') = Len(s)
             /\ \A i \in 1 .. Len(new) : new[i] = GetChar(s[i])
             /\ \A i \in 1 .. Len(fifo') : fifo'[i] = s[Len(new) + i]
             /\ \A i \in 1 .. Len(down') : down'[i] = s[Len(new) + Len(fifo') + i]
             /\ new \in Seq(Bytes) /\ Len(new) = Len(read) + 1
             /\ Len(fifo') = Len(fifo) - 1
<1> DEFINE new == Append(read, GetChar(Head(fifo)))
<1>1. /\ Len(fifo) \in Nat /\ Len(fifo) > 0 /\ Len(fifo') = Len(fifo) - 1
      /\ Head(fifo) = fifo[1] /\ Head(fifo) \in Bytes
      /\ \A i \in 1 .. Len(fifo) - 1 : fifo'[i] = fifo[i + 1]
  BY Types, Behead
<1>2. GetChar(Head(fifo)) \in Bytes
  BY <1>1, GetCharType
<1>3. /\ new \in Seq(Bytes) /\ Len(read) \in Nat /\ Len(new) = Len(read) + 1
      /\ \A i \in 1 .. Len(read) : new[i] = read[i]
      /\ new[Len(read) + 1] = GetChar(Head(fifo))
  BY <1>2, Appended
<1> HIDE DEF new
<1>4. Len(down') = Len(down) /\ Len(down) \in Nat
  BY Types
<1>5. ASSUME NEW i \in 1 .. Len(new) PROVE new[i] = GetChar(s[i])
  <2>1. CASE i = Len(read) + 1
    <3>1. fifo[1] = s[Len(read) + 1]
      BY <1>1 DEF Flows
    <3> QED BY <2>1, <3>1, <1>1, <1>3
  <2>2. CASE i # Len(read) + 1
    <3>1. i \in 1 .. Len(read)
      BY <2>2, <1>3
    <3> QED BY <3>1, <1>3 DEF Flows
  <2> QED BY <2>1, <2>2
<1>6. ASSUME NEW i \in 1 .. Len(fifo') PROVE fifo'[i] = s[Len(new) + i]
  <2>1. i + 1 \in 1 .. Len(fifo) /\ fifo'[i] = fifo[i + 1]
    BY <1>1
  <2>2. fifo[i + 1] = s[Len(read) + (i + 1)]
    BY <2>1 DEF Flows
  <2>3. Len(read) + (i + 1) = Len(new) + i
    BY <1>3
  <2> QED BY <2>1, <2>2, <2>3
<1>7. ASSUME NEW i \in 1 .. Len(down') PROVE down'[i] = s[Len(new) + Len(fifo') + i]
  <2>1. Len(new) + Len(fifo') + i = Len(read) + Len(fifo) + i
    BY <1>1, <1>3
  <2> QED BY <2>1, <1>4 DEF Flows
<1> QED BY <1>1, <1>3, <1>4, <1>5, <1>6, <1>7 DEF Flows, new

\* A size without a carriage return is the length of the image.
LEMMA WholeSize ==
  ASSUME TypeInv, Counted, pi \in {"check", "image", "loaded", "kernel"},
         CR \notin Range(ToBytes(Len(image)))
  PROVE  Value(got) = Len(image)
<1> DEFINE t == ToBytes(Len(image))
<1>1. /\ t \in Seq(Bytes) /\ Len(t) = SizeBytes /\ SizeBytes \in Nat
      /\ got \in Seq(Bytes) /\ Len(got) = SizeBytes
      /\ \A i \in 1 .. SizeBytes : got[i] = GetChar(t[i])
  BY SizeType, Types DEF Counted
<1>2. \A i \in 1 .. SizeBytes : t[i] # CR
  BY <1>1 DEF Range
<1> HIDE DEF t
<1>3. \A i \in 1 .. SizeBytes : got[i] = t[i]
  BY <1>1, <1>2 DEF GetChar
<1>4. got = t
  BY <1>1, <1>3
<1> QED BY <1>4, SizeType, ValueOfBytes DEF t

LEMMA InitFlow == Init => FlowInv
<1> SUFFICES ASSUME Init PROVE FlowInv
  OBVIOUS
<1>1. TypeInv
  BY InitType
<1>2. Len(fifo) = 0
  BY DEF Init
<1> QED BY <1>1, <1>2 DEF Init, FlowInv, Progress, Counted, Quiet

LEMMA OpenFlow == FlowInv /\ Open => FlowInv'
<1> SUFFICES ASSUME FlowInv, Open PROVE FlowInv'
  OBVIOUS
<1>1. TypeInv'
  BY OpenType DEF FlowInv
<1>2. host' = "sized" /\ image' = image /\ host = "closed" /\ ~early
  BY DEF Open, FlowInv
<1>3. ASSUME ~early', Whole' PROVE Progress' /\ Counted'
  <2>1. Whole
    BY <1>2, <1>3 DEF Whole
  <2>2. Progress /\ Counted
    BY <2>1, <1>2 DEF FlowInv
  <2>3. /\ pi = "size" /\ Quiet /\ up = <<>> /\ got = <<>> /\ lost = 0
        /\ sending = <<>> /\ down' = ToBytes(Len(image))
        /\ UNCHANGED <<pi, fifo, got, memory, up, lost, sending, size>>
    BY <1>2, <1>3, <2>2 DEF Progress, Open, board
  <2>4. Len(<<>>) = 0
    OBVIOUS
  <2>5. Len(down') = SizeBytes /\ SizeBytes \in Nat
    BY <2>3, SizeType, Types DEF FlowInv
  <2>6. Len(fifo') = 0 /\ Len(got') = 0
    BY <2>3, <2>4 DEF Quiet
  <2>7. Flows(got, ToBytes(Len(image)))'
    BY <1>2, <2>3, <2>5, <2>6 DEF Flows
  <2> QED BY <1>2, <2>3, <2>6, <2>7 DEF Progress, Counted, Quiet
<1> QED BY <1>1, <1>2, <1>3 DEF FlowInv

LEMMA PowerOnFlow == FlowInv /\ PowerOn => FlowInv'
<1> SUFFICES ASSUME FlowInv, PowerOn PROVE FlowInv'
  OBVIOUS
<1>1. TypeInv'
  BY PowerOnType DEF FlowInv
<1>2. /\ pi = "off" /\ pi' = "banner" /\ fifo' = <<>>
      /\ UNCHANGED <<image, host, down, up, got, size, memory, lost, early>>
  BY DEF PowerOn, Say
<1>3. ASSUME ~early', Whole' PROVE Progress' /\ Counted'
  <2>1. Progress
    BY <1>2, <1>3 DEF FlowInv, Whole
  <2> QED BY <1>2, <2>1 DEF Progress, Counted, Quiet
<1> QED BY <1>1, <1>2, <1>3 DEF FlowInv

LEMMA SendImageFlow == FlowInv /\ SendImage => FlowInv'
<1> SUFFICES ASSUME FlowInv, SendImage PROVE FlowInv'
  OBVIOUS
<1>1. TypeInv'
  BY UploaderType DEF FlowInv, Uploader
<1>2. /\ host = "sized" /\ host' = "sent" /\ up # <<>> /\ down' = down \o image
      /\ UNCHANGED <<image, pi, sending, fifo, got, size, memory, lost, early>>
  BY DEF SendImage, ReadLine, board
<1>3. ASSUME ~early', Whole' PROVE Progress' /\ Counted'
  <2>1. Progress /\ Counted
    BY <1>2, <1>3 DEF FlowInv, Whole
  <2>2. pi \in {"image", "loaded", "kernel", "shell"}
    BY <1>2, <2>1 DEF Progress
  <2>3. image \in Seq(Bytes)
    BY SizeType DEF FlowInv
  <2>4. ImageFlows => ImageFlows'
    <3>1. SUFFICES ASSUME Quiet PROVE ImageFlows'
      BY <1>2 DEF ImageFlows
    <3>2. down' = image
      BY <1>2, <2>3, <3>1 DEF Quiet
    <3>3. Len(fifo') = 0 /\ Len(memory') = 0 /\ Len(image) \in Nat
      BY <1>2, <2>3, <3>1 DEF Quiet
    <3>4. Flows(memory, image)'
      BY <1>2, <3>2, <3>3 DEF Flows
    <3> QED BY <1>2, <3>4 DEF ImageFlows
  <2>5. ASSUME NEW n \in Nat, Asked(n) PROVE Asked(n)'
    <3>1. ~(Len(sending) > n)
      BY <1>2, <2>5 DEF Asked
    <3> QED BY <1>2, <2>5, <3>1 DEF Asked
  <2>6. Length["loaded"] \in Nat
    BY SendingType DEF FlowInv
  <2>7. Progress'
    BY <1>2, <2>1, <2>2, <2>4, <2>5, <2>6 DEF Progress
  <2>8. Counted'
    BY <1>2, <2>1 DEF Counted
  <2> QED BY <2>7, <2>8
<1> QED BY <1>1, <1>2, <1>3 DEF FlowInv

LEMMA FinishFlow == FlowInv /\ Finish => FlowInv'
<1> SUFFICES ASSUME FlowInv, Finish PROVE FlowInv'
  OBVIOUS
<1>1. TypeInv'
  BY UploaderType DEF FlowInv, Uploader
<1>2. /\ host = "sent" /\ host' = "done"
      /\ UNCHANGED <<image, down, pi, sending, fifo, got, size, memory, lost, early>>
  BY DEF Finish, board
<1>3. ASSUME ~early', Whole' PROVE Progress' /\ Counted'
  <2>1. Progress /\ Counted
    BY <1>2, <1>3 DEF FlowInv, Whole
  <2>2. pi \in {"image", "loaded", "kernel", "shell"}
    BY <1>2, <2>1 DEF Progress
  <2>3. ImageFlows => ImageFlows'
    BY <1>2 DEF ImageFlows, Flows
  <2>4. \A n \in Nat : Asked(n) => Asked(n)'
    BY <1>2 DEF Asked
  <2>5. Length["loaded"] \in Nat
    BY SendingType DEF FlowInv
  <2>6. Progress'
    BY <1>2, <2>1, <2>2, <2>3, <2>4, <2>5 DEF Progress
  <2>7. Counted'
    BY <1>2, <2>1 DEF Counted
  <2> QED BY <2>6, <2>7
<1> QED BY <1>1, <1>2, <1>3 DEF FlowInv

\* While it sends its last text the board has room for what arrives.
LEMMA LoadedRoom ==
  ASSUME FlowInv, Whole, ~early, pi = "loaded", Len(sending) > TxFifo, down # <<>>
  PROVE  /\ host # "sized" /\ Flows(memory, image) /\ Len(fifo) < RxFifo
         /\ Len(fifo) + Len(sending) <= Length["loaded"]
<1>1. TypeInv /\ Progress /\ Counted
  BY DEF FlowInv
<1>2. host # "sized" /\ Flows(memory, image) /\ Asked(Length["loaded"])
  BY <1>1 DEF Progress, ImageFlows, Quiet
<1>3. ~(Len(sending) > Length["loaded"])
  BY <1>2 DEF Asked
<1>7. /\ Len(fifo) \in Nat /\ Len(sending) \in Nat /\ RxFifo \in Nat /\ TxFifo \in Nat
      /\ Length["loaded"] \in Nat
  BY <1>1, Types, SendingType
<1>8. Len(sending) <= Length["loaded"]
  BY <1>3, <1>7
<1>4. Len(fifo) + Len(sending) <= Length["loaded"]
  BY <1>1, <1>8 DEF Progress
<1>5. CASE Length["loaded"] - TxFifo <= RxFifo
  <2>1. Len(fifo) < RxFifo
    BY <1>4, <1>5, <1>7
  <2> QED BY <1>2, <1>4, <2>1
<1>6. CASE CR \notin Range(ToBytes(Len(image)))
  <2>1. Value(got) = Len(image)
    BY <1>1, <1>6, WholeSize
  <2>2. size = 0 /\ size + Len(memory) = Value(got)
    BY <1>1 DEF Counted
  <2>3. Len(memory) + Len(fifo) + Len(down) = Len(image)
    BY <1>2 DEF Flows
  <2>4. Len(down) > 0 /\ Len(down) \in Nat
    BY <1>1, Types, Behead
  <2> QED BY <1>1, <2>1, <2>2, <2>3, <2>4, Types
<1> QED BY <1>5, <1>6 DEF Whole

\* A character goes out and none comes in.
LEMMA OutFlow ==
  ASSUME FlowInv, CharTime, Leave, UNCHANGED <<down, fifo, lost>>, Progress
  PROVE  Progress'
<1>1. /\ Waits /\ UNCHANGED <<image, host, pi, got, size, memory, early, down, fifo, lost>>
  BY DEF CharTime
<1>2. TypeInv /\ TypeInv'
  BY CharTimeType DEF FlowInv
<1>3. ImageFlows => ImageFlows'
  BY <1>1 DEF ImageFlows, Quiet, Flows
<1>4. sending # <<>> /\ (host = "closed" => up' = up)
  BY DEF Leave
<1>5. CASE pi \in {"off", "banner", "size"}
  <2>1. host = "closed"
    BY <1>4, <1>5 DEF Progress
  <2> QED BY <1>1, <1>4, <1>5, <2>1 DEF Progress, Quiet
<1>6. CASE pi = "check"
  <2>1. Asked(0)' /\ Len(sending') = Len(sending) - 1 /\ Len(sending) > TxFifo
    BY <1>1, <1>2, <1>6, AskedLeave DEF Progress, Waits
  <2>4. Len(sending) \in Nat /\ TxFifo \in Nat /\ TxFifo > 0
    BY <1>2, Counts
  <2>2. Len(sending') > 0
    BY <2>1, <2>4
  <2>3. host' = "sized" /\ up' = <<>>
    BY <2>1, <2>2 DEF Asked
  <2> QED BY <1>1, <1>6, <2>1, <2>3 DEF Progress, Quiet
<1>7. CASE pi = "image"
  <2>1. Asked(0)'
    BY <1>1, <1>2, <1>7, AskedLeave DEF Progress
  <2>2. host # "closed"
    BY <1>7 DEF Progress
  <2> QED BY <1>1, <1>3, <1>7, <2>1, <2>2 DEF Progress
<1>8. CASE pi = "loaded"
  <2> DEFINE m == Length["loaded"]
  <2>1. m \in Nat /\ Asked(m)
    BY <1>2, <1>8, SendingType DEF Progress
  <2>2. Asked(m)' /\ Len(sending') = Len(sending) - 1
    <3> HIDE DEF m
    <3> QED BY <1>1, <1>2, <2>1, AskedLeave
  <2>5. Len(fifo) \in Nat /\ Len(sending) \in Nat /\ Len(sending') \in Nat
    BY <1>2, Counts
  <2>3. Len(sending') <= m => Len(fifo') + Len(sending') <= m
    <3>1. SUFFICES ASSUME Len(sending') <= m PROVE Len(fifo) + Len(sending') <= m
      BY <1>1
    <3>2. CASE Len(sending) <= m
      <4>1. Len(fifo) + Len(sending) <= m
        BY <1>8, <3>2 DEF Progress
      <4> HIDE DEF m
      <4> QED BY <2>1, <2>2, <2>5, <4>1
    <3>3. CASE Len(sending) > m
      <4>1. host = "sized" /\ Quiet
        BY <1>8, <2>1, <3>3 DEF Progress, Asked, ImageFlows
      <4>2. Len(fifo) = 0
        BY <4>1 DEF Quiet
      <4> HIDE DEF m
      <4> QED BY <2>1, <2>2, <2>5, <3>1, <4>2
    <3> HIDE DEF m
    <3> QED BY <2>1, <2>5, <3>2, <3>3
  <2>4. host # "closed"
    BY <1>8 DEF Progress
  <2> QED BY <1>1, <1>3, <1>8, <2>2, <2>3, <2>4 DEF Progress
<1>9. CASE pi \in {"kernel", "shell"}
  <2>1. host # "closed"
    BY <1>9 DEF Progress
  <2> QED BY <1>1, <1>3, <1>9, <2>1 DEF Progress
<1> QED BY <1>2, <1>5, <1>6, <1>7, <1>8, <1>9 DEF TypeInv, TypeOK, Lines, Texts

\* A byte comes in.
LEMMA InFlow ==
  ASSUME FlowInv, CharTime, Arrive, Leave \/ UNCHANGED <<sending, up>>,
         Progress, Counted, Whole, ~early
  PROVE  Progress'
<1>1. /\ Waits /\ UNCHANGED <<image, host, pi, got, size, memory, early>>
      /\ down # <<>> /\ pi \notin {"kernel", "shell"}
  BY DEF CharTime, Arrive
<1>2. TypeInv /\ TypeInv'
  BY CharTimeType DEF FlowInv
<1>3. host # "closed" /\ pi \in {"size", "image", "loaded"}
  BY <1>1 DEF Progress, Quiet
<1>4. memory \in Seq(Bytes) /\ got \in Seq(Bytes)
  BY <1>2, Types
<1>5. CASE pi = "size"
  <2>1. /\ host = "sized" /\ up = <<>> /\ memory = <<>> /\ sending = <<>> /\ fifo = <<>>
        /\ Flows(got, ToBytes(Len(image))) /\ lost = 0
    BY <1>1, <1>3, <1>5 DEF Progress, Waits, Texts
  <2>2. UNCHANGED <<sending, up>>
    BY <2>1 DEF Leave
  <2>3. Len(fifo) = 0 /\ Len(fifo) < RxFifo
    BY <1>2, <2>1, Types
  <2> DEFINE t == ToBytes(Len(image))
  <2> HIDE DEF t
  <2>4. /\ Len(got) + Len(fifo') + Len(down') = Len(t)
        /\ \A i \in 1 .. Len(fifo') : fifo'[i] = t[Len(got) + i]
        /\ \A i \in 1 .. Len(down') : down'[i] = t[Len(got) + Len(fifo') + i]
        /\ lost' = lost /\ Len(fifo') = Len(fifo) + 1
    BY <1>1, <1>2, <1>4, <1>5, <2>1, <2>3, ArriveFlows DEF t
  <2>5. Flows(got, ToBytes(Len(image)))'
    BY <1>1, <2>1, <2>4 DEF Flows, t
  <2>6. Len(fifo') <= 1
    BY <2>3, <2>4
  <2> QED BY <1>1, <1>5, <2>1, <2>2, <2>4, <2>5, <2>6 DEF Progress
<1>6. CASE pi = "image"
  <2>1. host # "sized" /\ Flows(memory, image) /\ fifo = <<>> /\ lost = 0 /\ size > 0
    BY <1>1, <1>6 DEF Progress, ImageFlows, Quiet, Waits, Texts, More
  <2>2. ~(Len(sending) > 0) /\ Asked(0)
    BY <1>6, <2>1 DEF Progress, Asked
  <2>3. UNCHANGED <<sending, up>>
    <3>1. ASSUME Leave PROVE FALSE
      BY <1>2, <2>2, <3>1, AskedLeave, <1>1
    <3> QED BY <3>1
  <2>4. Len(fifo) = 0 /\ Len(fifo) < RxFifo
    BY <1>2, <2>1, Types
  <2>5. /\ Len(memory) + Len(fifo') + Len(down') = Len(image)
        /\ \A i \in 1 .. Len(fifo') : fifo'[i] = image[Len(memory) + i]
        /\ \A i \in 1 .. Len(down') : down'[i] = image[Len(memory) + Len(fifo') + i]
        /\ lost' = lost /\ Len(fifo') = Len(fifo) + 1
    BY <1>1, <1>2, <1>4, <1>6, <2>1, <2>4, ArriveFlows
  <2>6. Flows(memory, image)'
    BY <1>1, <2>1, <2>5 DEF Flows
  <2>7. Asked(0)'
    BY <1>1, <2>2, <2>3 DEF Asked
  <2>8. Len(fifo') <= 1 /\ ~(size' = 0)
    BY <1>1, <1>2, <2>1, <2>4, <2>5, Types
  <2> QED BY <1>1, <1>3, <1>6, <2>1, <2>5, <2>6, <2>7, <2>8 DEF Progress, ImageFlows
<1>7. CASE pi = "loaded"
  <2> DEFINE m == Length["loaded"]
  <2>1. Len(sending) > TxFifo
    BY <1>1, <1>7 DEF Waits, Texts
  <2>2. /\ host # "sized" /\ Flows(memory, image) /\ Len(fifo) < RxFifo
        /\ Len(fifo) + Len(sending) <= m
    BY <1>1, <1>7, <2>1, LoadedRoom
  <2>3. m \in Nat /\ Asked(m) /\ sending # <<>>
    <3>1. Len(sending) > 0
      BY <1>2, <2>1, Counts
    <3>2. Len(<<>>) = 0
      OBVIOUS
    <3>3. sending # <<>>
      BY <3>1, <3>2
    <3> QED BY <1>2, <1>7, <3>3, SendingType DEF Progress
  <2>4. Leave
    <3>1. ASSUME UNCHANGED <<sending, up>>, ~Leave PROVE FALSE
      BY <2>3, <3>1, <1>2 DEF CharTime
    <3> QED BY <3>1
  <2>5. Asked(m)' /\ Len(sending') = Len(sending) - 1
    <3> HIDE DEF m
    <3> QED BY <1>1, <1>2, <2>3, <2>4, AskedLeave
  <2>6. /\ Len(memory) + Len(fifo') + Len(down') = Len(image)
        /\ \A i \in 1 .. Len(fifo') : fifo'[i] = image[Len(memory) + i]
        /\ \A i \in 1 .. Len(down') : down'[i] = image[Len(memory) + Len(fifo') + i]
        /\ lost' = lost /\ Len(fifo') = Len(fifo) + 1
    BY <1>1, <1>2, <1>4, <1>7, <2>2, ArriveFlows
  <2>7. Flows(memory, image)'
    BY <1>1, <2>2, <2>6 DEF Flows
  <2>8. Len(fifo') + Len(sending') <= m
    <3> HIDE DEF m
    <3>1. Len(fifo) \in Nat /\ Len(sending) \in Nat
      BY <1>2, Counts
    <3> QED BY <2>2, <2>3, <2>5, <2>6, <3>1
  <2>9. ImageFlows' /\ lost' = 0
    BY <1>1, <2>2, <2>6, <2>7 DEF ImageFlows, Progress
  <2> QED BY <1>1, <1>3, <1>7, <2>5, <2>8, <2>9 DEF Progress
<1> QED BY <1>3, <1>5, <1>6, <1>7

LEMMA CharTimeFlow == FlowInv /\ CharTime => FlowInv'
<1> SUFFICES ASSUME FlowInv, CharTime PROVE FlowInv'
  OBVIOUS
<1>1. TypeInv'
  BY CharTimeType DEF FlowInv
<1>2. UNCHANGED <<image, host, pi, got, size, memory, early>>
  BY DEF CharTime
<1>3. ASSUME ~early', Whole' PROVE Progress' /\ Counted'
  <2>1. Progress /\ Counted /\ ~early /\ Whole
    BY <1>2, <1>3 DEF FlowInv, Whole
  <2>2. Counted'
    BY <1>2, <2>1 DEF Counted
  <2>3. CASE Leave /\ UNCHANGED <<down, fifo, lost>>
    BY <2>1, <2>2, <2>3, OutFlow
  <2>4. CASE Arrive /\ (Leave \/ UNCHANGED <<sending, up>>)
    BY <2>1, <2>2, <2>4, InFlow
  <2> QED BY <2>3, <2>4 DEF CharTime
<1> QED BY <1>1, <1>2, <1>3 DEF FlowInv

LEMMA SaidFlow == FlowInv /\ (BannerOut \/ CheckOut \/ LoadedOut) => FlowInv'
<1> SUFFICES ASSUME FlowInv, BannerOut \/ CheckOut \/ LoadedOut PROVE FlowInv'
  OBVIOUS
<1>1. TypeInv /\ TypeInv'
  BY SaidType DEF FlowInv
<1>2. /\ UNCHANGED <<image, host, down, up, sending, fifo, got, size, memory, lost, early>>
      /\ \/ pi = "banner" /\ pi' = "size"
         \/ pi = "check" /\ pi' = "image"
         \/ pi = "loaded" /\ pi' = "kernel"
  BY DEF BannerOut, CheckOut, LoadedOut, Said
<1>3. ASSUME ~early', Whole' PROVE Progress' /\ Counted'
  <2>1. Progress /\ Counted
    BY <1>2, <1>3 DEF FlowInv, Whole
  <2>2. ImageFlows => ImageFlows'
    BY <1>2 DEF ImageFlows, Quiet, Flows
  <2>3. Quiet => Len(fifo) = 0 /\ fifo = <<>>
    BY DEF Quiet
  <2>4. Asked(0) => Asked(0)'
    BY <1>2 DEF Asked
  <2>5. ASSUME pi = "banner", pi' = "size" PROVE Progress'
    <3>1. host = "closed" /\ Quiet /\ up = <<>> /\ got = <<>> /\ lost = 0
      BY <2>1, <2>5 DEF Progress
    <3>2. Quiet' /\ Len(fifo') = 0
      BY <1>2, <2>3, <3>1 DEF Quiet
    <3>3. up' = <<>> /\ got' = <<>> /\ lost' = 0 /\ host' = "closed"
      BY <1>2, <3>1
    <3> QED BY <2>5, <3>2, <3>3 DEF Progress
  <2>6. ASSUME pi = "check", pi' = "image" PROVE Progress'
    <3>1. host = "sized" /\ Quiet /\ lost = 0 /\ Asked(0)
      BY <2>1, <2>6 DEF Progress
    <3>2. ImageFlows'
      BY <1>2, <2>2, <3>1 DEF ImageFlows
    <3>3. Len(fifo') <= 1 /\ fifo' = <<>> /\ host' # "closed" /\ lost' = 0 /\ Asked(0)'
      BY <1>2, <2>3, <2>4, <3>1
    <3> QED BY <2>6, <3>2, <3>3 DEF Progress
  <2>7. ASSUME pi = "loaded", pi' = "kernel" PROVE Progress'
    <3>1. ImageFlows' /\ lost' = 0 /\ host' # "closed"
      BY <1>2, <2>1, <2>2, <2>7 DEF Progress
    <3> QED BY <2>7, <3>1 DEF Progress
  <2>8. Progress'
    BY <1>2, <2>5, <2>6, <2>7
  <2>9. Counted'
    BY <1>2, <2>1 DEF Counted
  <2> QED BY <2>8, <2>9
<1>4. host' = "closed" => ~early'
  BY <1>2 DEF FlowInv
<1> QED BY <1>1, <1>3, <1>4 DEF FlowInv

LEMMA KernelStartsFlow == FlowInv /\ KernelStarts => FlowInv'
<1> SUFFICES ASSUME FlowInv, KernelStarts PROVE FlowInv'
  OBVIOUS
<1>1. TypeInv'
  BY KernelStartsType DEF FlowInv
<1>2. /\ pi = "kernel" /\ pi' = "shell"
      /\ UNCHANGED <<image, host, down, up, got, size, memory, lost, early>>
  BY DEF KernelStarts
<1>3. ASSUME ~early', Whole' PROVE Progress' /\ Counted'
  <2>1. Progress /\ Counted
    BY <1>2, <1>3 DEF FlowInv, Whole
  <2>2. host # "closed" /\ lost = 0
    BY <1>2, <2>1 DEF Progress
  <2> QED BY <1>2, <2>2 DEF Progress, Counted
<1>4. host' = "closed" => ~early'
  BY <1>2 DEF FlowInv
<1> QED BY <1>1, <1>3, <1>4 DEF FlowInv

LEMMA GetSizeFlow == FlowInv /\ GetSize => FlowInv'
<1> SUFFICES ASSUME FlowInv, GetSize PROVE FlowInv'
  OBVIOUS
<1>1. TypeInv /\ TypeInv'
  BY GetSizeType DEF FlowInv
<1>2. /\ pi = "size" /\ fifo # <<>> /\ got' = Append(got, GetChar(Head(fifo)))
      /\ fifo' = Tail(fifo)
      /\ IF Len(got') = SizeBytes THEN size' = Value(got') /\ pi' = "check"
                                  ELSE UNCHANGED <<size, pi, sending>>
      /\ UNCHANGED <<image, host, down, up, memory, lost, early>>
  BY DEF GetSize, Say
<1>3. ASSUME ~early', Whole' PROVE Progress' /\ Counted'
  <2>1. Progress
    BY <1>2, <1>3 DEF FlowInv, Whole
  <2>2. /\ host = "sized" /\ up = <<>> /\ memory = <<>> /\ Len(fifo) <= 1 /\ lost = 0
        /\ sending = <<>> /\ Flows(got, ToBytes(Len(image)))
    BY <1>2, <2>1 DEF Progress, Quiet
  <2> DEFINE t == ToBytes(Len(image))
  <2>3. Len(t) = SizeBytes /\ SizeBytes \in Nat /\ got \in Seq(Bytes)
    BY <1>1, SizeType, Types
  <2> HIDE DEF t
  <2>4. /\ Len(got') + Len(fifo') + Len(down') = Len(t)
        /\ \A i \in 1 .. Len(got') : got'[i] = GetChar(t[i])
        /\ \A i \in 1 .. Len(fifo') : fifo'[i] = t[Len(got') + i]
        /\ \A i \in 1 .. Len(down') : down'[i] = t[Len(got') + Len(fifo') + i]
        /\ Len(fifo') = Len(fifo) - 1
    <3>1. Flows(got, t)
      BY <2>2 DEF t
    <3> QED BY <1>1, <1>2, <2>3, <3>1, ReadFlows
  <2>5. Flows(got, ToBytes(Len(image)))'
    BY <1>2, <2>4 DEF Flows, t
  <2>6. Len(fifo') <= 1
    BY <1>1, <2>2, <2>4, Types
  <2>7. CASE Len(got') = SizeBytes
    <3>1. pi' = "check" /\ size' = Value(got')
      BY <1>2, <2>7
    <3>2. fifo' = <<>> /\ down' = <<>>
      <4>1. fifo' \in Seq(Bytes) /\ down' \in Seq(Bytes)
        BY <1>1 DEF TypeInv, TypeOK
      <4>2. Len(fifo') = 0 /\ Len(down') = 0
        BY <2>3, <2>4, <2>7, <4>1
      <4> QED BY <4>1, <4>2
    <3>6. Asked(0)'
      <4>1. sending' = sending \o Text("check") /\ "check" \in Lines
        BY <1>1, <2>7 DEF GetSize, Say, Lines, Texts
      <4>4. \A S : \A s \in Seq(S) : <<>> \o s = s
        OBVIOUS
      <4>2. sending' = Text("check")
        BY <2>2, <4>1, <4>4, TextType
      <4>5. Length["check"] \in Nat /\ Len(Text("check")) = Length["check"]
        BY <4>1, TextType
      <4> DEFINE x == Text("check")
                 m == Length["check"]
      <4>6. Len(x) = m /\ m \in Nat /\ \A i \in 1 .. m : i < m => x[i] = ""
        BY <4>1, <4>5, TextType
      <4>8. m \in Nat
        BY <4>5
      <4>7. sending' = x
        BY <4>2
      <4> HIDE DEF x, m
      <4>3. \A i \in 1 .. Len(sending') : i < Len(sending') - 0 => sending'[i] = ""
        <5>0. Len(sending') = m
          BY <4>6, <4>7, Zenon
        <5>1. m - 0 = m
          BY <4>8
        <5>2. Len(sending') - 0 = m
          BY <5>0, <5>1
        <5> QED BY <4>6, <4>7, <5>0, <5>2, Zenon
      <4> QED BY <1>2, <2>2, <4>3 DEF Asked
    <3>3. Progress'
      BY <1>2, <2>2, <3>1, <3>2, <3>6 DEF Progress, Quiet
    <3>4. size' + Len(memory') = Value(got')
      <4>1. Len(memory') = 0 /\ size' \in Nat
        BY <1>1, <1>2, <2>2 DEF TypeInv, TypeOK
      <4> QED BY <3>1, <4>1
    <3>5. Counted'
      BY <1>2, <2>4, <2>7, <3>1, <3>4 DEF Counted, t
    <3> QED BY <3>3, <3>5
  <2>8. CASE Len(got') # SizeBytes
    <3>1. Progress'
      BY <1>2, <2>2, <2>5, <2>6, <2>8 DEF Progress
    <3>2. Counted'
      BY <1>2, <2>8 DEF Counted
    <3> QED BY <3>1, <3>2
  <2> QED BY <2>7, <2>8
<1>4. host' = "closed" => ~early'
  BY <1>2 DEF FlowInv
<1> QED BY <1>1, <1>3, <1>4 DEF FlowInv

LEMMA GetByteFlow == FlowInv /\ GetByte => FlowInv'
<1> SUFFICES ASSUME FlowInv, GetByte PROVE FlowInv'
  OBVIOUS
<1>1. TypeInv /\ TypeInv'
  BY GetByteType DEF FlowInv
<1>2. /\ pi = "image" /\ fifo # <<>> /\ memory' = Append(memory, GetChar(Head(fifo)))
      /\ fifo' = Tail(fifo) /\ size' = size - 1
      /\ UNCHANGED <<image, host, down, up, pi, sending, got, lost, early>>
  BY DEF GetByte
<1>3. ASSUME ~early', Whole' PROVE Progress' /\ Counted'
  <2>1. Progress /\ Counted
    BY <1>2, <1>3 DEF FlowInv, Whole
  <2>2. host # "sized" /\ host # "closed" /\ Flows(memory, image)
    BY <1>2, <2>1 DEF Progress, ImageFlows, Quiet
  <2>3. memory \in Seq(Bytes)
    BY <1>1, Types
  <2>4. /\ Len(memory') + Len(fifo') + Len(down') = Len(image)
        /\ \A i \in 1 .. Len(memory') : memory'[i] = GetChar(image[i])
        /\ \A i \in 1 .. Len(fifo') : fifo'[i] = image[Len(memory') + i]
        /\ \A i \in 1 .. Len(down') : down'[i] = image[Len(memory') + Len(fifo') + i]
        /\ Len(memory') = Len(memory) + 1 /\ Len(fifo') = Len(fifo) - 1
    <3> DEFINE new == Append(memory, GetChar(Head(fifo)))
    <3>1. /\ Len(new) + Len(fifo') + Len(down') = Len(image)
          /\ \A i \in 1 .. Len(new) : new[i] = GetChar(image[i])
          /\ \A i \in 1 .. Len(fifo') : fifo'[i] = image[Len(new) + i]
          /\ \A i \in 1 .. Len(down') : down'[i] = image[Len(new) + Len(fifo') + i]
          /\ Len(new) = Len(memory) + 1 /\ Len(fifo') = Len(fifo) - 1
      BY <1>1, <1>2, <2>2, <2>3, ReadFlows
    <3>2. memory' = new
      BY <1>2
    <3> HIDE DEF new
    <3> QED BY <3>1, <3>2
  <2>5. Flows(memory, image)'
    BY <1>2, <2>4 DEF Flows
  <2>6. Len(fifo') <= 1 /\ fifo' = <<>>
    <3>1. fifo' \in Seq(Bytes) /\ Len(fifo) <= 1 /\ Len(fifo) \in Nat
      BY <1>1, <1>2, <2>1, Types DEF Progress, TypeInv, TypeOK
    <3>2. Len(fifo') \in Nat
      BY <3>1
    <3>3. Len(fifo') = 0
      BY <2>4, <3>1, <3>2
    <3> QED BY <3>1, <3>3
  <2>10. Asked(0)'
    BY <1>2, <2>1 DEF Progress, Asked
  <2>7. Progress'
    BY <1>2, <2>1, <2>2, <2>5, <2>6, <2>10 DEF Progress, ImageFlows
  <2>8. size' + Len(memory') = size + Len(memory)
    BY <1>1, <1>2, <2>4, Types
  <2>9. Counted'
    BY <1>2, <2>1, <2>8 DEF Counted
  <2> QED BY <2>7, <2>9
<1>4. host' = "closed" => ~early'
  BY <1>2 DEF FlowInv
<1> QED BY <1>1, <1>3, <1>4 DEF FlowInv

LEMMA GotAllFlow == FlowInv /\ GotAll => FlowInv'
<1> SUFFICES ASSUME FlowInv, GotAll PROVE FlowInv'
  OBVIOUS
<1>1. TypeInv /\ TypeInv'
  BY GotAllType DEF FlowInv
<1>2. /\ pi = "image" /\ ~(size > 0) /\ pi' = "loaded" /\ sending' = sending \o Text("loaded")
      /\ UNCHANGED <<image, host, down, up, fifo, got, size, memory, lost, early>>
  BY DEF GotAll, Say, More
<1>3. ASSUME ~early', Whole' PROVE Progress' /\ Counted'
  <2> DEFINE m == Length["loaded"]
             x == Text("loaded")
  <2>1. Progress /\ Counted
    BY <1>2, <1>3 DEF FlowInv, Whole
  <2>2. ImageFlows => ImageFlows'
    BY <1>2 DEF ImageFlows, Quiet, Flows
  <2>3. size = 0
    BY <1>1, <1>2, Types
  <2>4. ImageFlows /\ Asked(0) /\ Len(fifo') = 0 /\ lost = 0 /\ host # "closed"
    <3>1. fifo = <<>>
      BY <1>2, <2>1, <2>3 DEF Progress
    <3>2. Len(fifo') = 0
      BY <1>2, <3>1
    <3> QED BY <1>2, <2>1, <3>2 DEF Progress
  <2>5. "loaded" \in Lines
    BY DEF Lines, Texts
  <2>6. m \in Nat /\ m > 0 /\ x \in Seq(Lines \cup {""}) /\ Len(x) = m
    BY <2>5, TextType
  <2>7. /\ sending' = sending \o x /\ sending \in Seq(Lines \cup {""})
    BY <1>1, <1>2, SendingType
  <2> HIDE DEF m, x
  <2>8. /\ Len(sending) \in Nat /\ Len(sending') = Len(sending) + m
        /\ \A i \in 1 .. Len(sending) : sending'[i] = sending[i]
    BY <2>6, <2>7, Joined
  <2>13. Len(sending') \in Nat /\ Len(fifo') \in Nat
    BY <1>1, Counts
  <2>9. Asked(m)'
    <3>1. ASSUME Len(sending') > m PROVE host' = "sized" /\ up' = <<>>
      <4>1. Len(sending) > 0
        <5>1. \A a, b, c \in Nat : c = a + b /\ c > b => a > 0
          OBVIOUS
        <5> QED BY <2>6, <2>8, <2>13, <3>1, <5>1
      <4> QED BY <1>2, <2>4, <4>1 DEF Asked
    <3>2. ASSUME NEW i \in 1 .. Len(sending'), i < Len(sending') - m PROVE sending'[i] = ""
      <4>1. i \in 1 .. Len(sending) /\ i < Len(sending) - 0 /\ sending'[i] = sending[i]
        <5>1. \A a, b, c \in Nat : c = a + b /\ i \in 1 .. c /\ i < c - b
                 => i \in 1 .. a /\ i < a - 0
          OBVIOUS
        <5>2. i \in 1 .. Len(sending) /\ i < Len(sending) - 0
          BY <2>6, <2>8, <2>13, <3>2, <5>1
        <5> QED BY <2>8, <5>2
      <4> QED BY <2>4, <4>1 DEF Asked
    <3>3. m' = m
      BY DEF m
    <3> QED BY <3>1, <3>2, <3>3 DEF Asked
  <2>10. Len(sending') <= m => Len(fifo') + Len(sending') <= m
    <3>1. \A a, b, c, d \in Nat : c = a + b /\ d = 0 /\ c <= b => d + c <= b
      OBVIOUS
    <3> QED BY <2>4, <2>6, <2>8, <2>13, <3>1
  <2>11. Progress'
    BY <1>2, <2>2, <2>4, <2>9, <2>10 DEF Progress, m
  <2>12. Counted'
    BY <1>2, <2>1, <2>3 DEF Counted
  <2> QED BY <2>11, <2>12
<1>4. host' = "closed" => ~early'
  BY <1>2 DEF FlowInv
<1> QED BY <1>1, <1>3, <1>4 DEF FlowInv

LEMMA StutterFlow == FlowInv /\ UNCHANGED vars => FlowInv'
<1> SUFFICES ASSUME FlowInv, UNCHANGED vars PROVE FlowInv'
  OBVIOUS
<1>1. UNCHANGED <<image, host, down, up, pi, sending, fifo, got, size, memory, lost, early>>
  BY DEF vars, board
<1>2. TypeInv'
  BY NextType DEF FlowInv
<1>3. Whole' => Whole
  BY <1>1 DEF Whole
<1>4. /\ Flows(got, ToBytes(Len(image))) => Flows(got, ToBytes(Len(image)))'
      /\ Flows(memory, image) => Flows(memory, image)'
  BY <1>1 DEF Flows
<1>5. Progress => Progress'
  <2>1. ImageFlows => ImageFlows'
    BY <1>1, <1>4 DEF ImageFlows, Quiet
  <2>2. Asked(0) => Asked(0)'
    BY <1>1 DEF Asked
  <2>3. Asked(Length["loaded"]) => Asked(Length["loaded"])'
    BY <1>1 DEF Asked
  <2> QED BY <1>1, <1>4, <2>1, <2>2, <2>3 DEF Progress, Quiet
<1>6. Counted => Counted'
  BY <1>1 DEF Counted
<1> QED BY <1>1, <1>2, <1>3, <1>5, <1>6 DEF FlowInv

LEMMA NextFlow == FlowInv /\ [Next]_vars => FlowInv'
<1>1. FlowInv /\ Board => FlowInv'
  BY SaidFlow, GetSizeFlow, GetByteFlow, GotAllFlow DEF Board
<1>2. FlowInv /\ Uploader => FlowInv'
  BY SendImageFlow, FinishFlow DEF Uploader
<1> QED BY <1>1, <1>2, OpenFlow, PowerOnFlow, KernelStartsFlow, CharTimeFlow, StutterFlow DEF Next

THEOREM FlowInvariant == Spec => []FlowInv
  BY InitFlow, NextFlow, PTL DEF Spec

\* The uploader and the board overrun nothing when the uploader is started while
\* the board waits for the size and all of the banner has gone out, whatever the
\* image is: load_img reads each byte before the next can arrive, and sends its
\* first text while read_line of uploader.py waits for it.  The assumption is
\* about the last text alone: after a size that lost a carriage return the rest
\* of the image arrives while the text waits for room in the transmit FIFO.
THEOREM NoOverrun ==
  ASSUME Length["loaded"] - TxFifo <= RxFifo
  PROVE  Spec => []NothingLost
<1>1. FlowInv => NothingLost
  BY DEF FlowInv, Whole, Progress, NothingLost
<1> QED BY <1>1, FlowInvariant, PTL

\* What load_img jumps to is the image that uploader.py was given, but for its
\* carriage returns, if there is none in the size; no matter how long the texts
\* take.
THEOREM ImageArrives == Spec => []ImageLoaded
<1>1. FlowInv => ImageLoaded
  <2> SUFFICES ASSUME FlowInv, pi = "kernel", ~early, CR \notin Range(ToBytes(Len(image)))
               PROVE  /\ Len(memory) = Len(image)
                      /\ \A i \in DOMAIN image : image[i] # CR => memory[i] = image[i]
    BY DEF ImageLoaded
  <2>1. TypeInv /\ Progress /\ Counted
    BY DEF FlowInv, Whole
  <2>2. Len(memory) = Len(image)
    <3>1. size = 0 /\ size + Len(memory) = Value(got)
      BY <2>1 DEF Counted
    <3> QED BY <2>1, <3>1, WholeSize, Types
  <2>3. ASSUME NEW i \in DOMAIN image, image[i] # CR PROVE memory[i] = image[i]
    <3>1. i \in 1 .. Len(image) /\ image \in Seq(Bytes) /\ Len(image) \in Nat
      BY <2>1, SizeType
    <3>2. memory # <<>>
      BY <2>2, <3>1
    <3>3. Flows(memory, image)
      BY <2>1, <3>2 DEF Progress, ImageFlows, Quiet
    <3>4. memory[i] = GetChar(image[i])
      BY <2>2, <3>1, <3>3 DEF Flows
    <3> QED BY <2>3, <3>4 DEF GetChar
  <2> QED BY <2>2, <2>3
<1> QED BY <1>1, FlowInvariant, PTL

=============================================================================
