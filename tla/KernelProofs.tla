----------------------------- MODULE KernelProofs -----------------------------
(***************************************************************************)
(* Proofs about KernelMain: the walk over the device tree, the table of    *)
(* the archive, the lookups, and what buddy_system_init marks.             *)
(*                                                                         *)
(* Functions that are defined from their predecessors are met by Climb and *)
(* Recursion; then come numbers and strings as they lie in memory, the     *)
(* structure block as the items write it one behind the other, the walk    *)
(* over it, the archive as cpio lays it out, and last the invariant of     *)
(* the kernel.                                                             *)
(***************************************************************************)
EXTENDS KernelMain, FiniteSetTheorems, SequenceTheorems, WellFoundedInduction, TLAPS

----------------------------------------------------------------------------
(* Functions that are defined from their predecessors *)

\* A set of natural numbers that is not empty has a least element.
LEMMA LeastNat ==
  ASSUME NEW S \in SUBSET Nat, S # {}
  PROVE  \E m \in S : \A n \in S : m <= n
<1>1. IsWellFoundedOn(OpToRel(<, Nat), Nat)
  BY NatLessThanWellFounded
<1>2. PICK x \in S : \A y \in S : ~(<<y, x>> \in OpToRel(<, Nat))
  BY <1>1, WFMin
<1>3. \A y \in S : ~(y < x)
  BY <1>2 DEF OpToRel
<1> QED BY <1>3

\* Induction, for a property that is given as a set.
LEMMA Climb ==
  ASSUME NEW n \in Nat, NEW T, 0 \in T,
         \A i \in 1 .. n : i - 1 \in T => i \in T
  PROVE  \A i \in 0 .. n : i \in T
<1> DEFINE Bad == {i \in 0 .. n : i \notin T}
<1> SUFFICES ASSUME Bad # {} PROVE FALSE
  OBVIOUS
<1>1. PICK m \in Bad : \A k \in Bad : m <= k
  <2>1. Bad \in SUBSET Nat
    OBVIOUS
  <2> HIDE DEF Bad
  <2> QED BY <2>1, LeastNat
<1>2. m \in 1 .. n /\ m \notin T
  OBVIOUS
<1>3. m - 1 \in 0 .. n /\ ~(m <= m - 1)
  BY <1>2
<1>4. m - 1 \in T
  BY <1>1, <1>3
<1> QED BY <1>2, <1>4

\* g starts with c, and goes on as step says.
Goes(g, n, S, c, step) ==
  /\ g \in [0 .. n -> S] /\ g[0] = c
  /\ \A i \in 1 .. n : g[i] = step[<<i, g[i - 1]>>]

\* For every step there is a function that goes as it says.
LEMMA Recursion ==
  ASSUME NEW n \in Nat, NEW S, NEW c \in S, NEW step \in [(1 .. n) \X S -> S]
  PROVE  \E g : Goes(g, n, S, c, step)
<1> DEFINE Up(m, g) == /\ g \in [0 .. m -> S] /\ g[0] = c
                       /\ \A i \in 1 .. m : g[i] = step[<<i, g[i - 1]>>]
           T == {m \in 0 .. n : \E g : Up(m, g)}
<1>1. 0 \in T
  <2> DEFINE g == [i \in 0 .. 0 |-> c]
  <2>1. g \in [0 .. 0 -> S] /\ g[0] = c
    OBVIOUS
  <2>2. \A i \in 1 .. 0 : g[i] = step[<<i, g[i - 1]>>]
    OBVIOUS
  <2> HIDE DEF g
  <2>3. Up(0, g)
    BY <2>1, <2>2
  <2> QED BY <2>3
<1>2. ASSUME NEW m \in 1 .. n, m - 1 \in T PROVE m \in T
  <2>1. PICK h : Up(m - 1, h)
    BY <1>2
  <2> DEFINE g == [i \in 0 .. m |-> IF i < m THEN h[i] ELSE step[<<m, h[m - 1]>>]]
  <2>2. h[m - 1] \in S /\ step[<<m, h[m - 1]>>] \in S
    BY <2>1
  <2>3. g \in [0 .. m -> S]
    BY <2>1, <2>2
  <2>4. g[0] = c
    BY <2>1
  <2>5. ASSUME NEW i \in 1 .. m PROVE g[i] = step[<<i, g[i - 1]>>]
    <3>1. i - 1 \in 0 .. m /\ i - 1 < m /\ g[i - 1] = h[i - 1]
      BY <2>5
    <3>2. CASE i = m
      BY <3>1, <3>2
    <3>3. CASE i # m
      <4>1. i \in 1 .. m - 1 /\ g[i] = h[i]
        BY <2>5, <3>3
      <4> HIDE DEF g
      <4> QED BY <4>1, <3>1, <2>1
    <3> QED BY <3>2, <3>3
  <2> HIDE DEF g
  <2>6. Up(m, g)
    BY <2>3, <2>4, <2>5
  <2> QED BY <2>6
<1> HIDE DEF T
<1>3. n \in T
  BY <1>1, <1>2, Climb
<1>4. PICK g : Up(n, g)
  BY <1>3 DEF T
<1> QED BY <1>4 DEF Goes

----------------------------------------------------------------------------
(* Alignment *)

LEMMA Up4 ==
  ASSUME NEW n \in Nat
  PROVE  AlignUp(n, 4) \in Nat /\ AlignUp(n, 4) >= n /\ AlignUp(n, 4) < n + 4
  BY DEF AlignUp

LEMMA Up8 ==
  ASSUME NEW n \in Nat
  PROVE  AlignUp(n, 8) \in Nat /\ AlignUp(n, 8) >= n /\ AlignUp(n, 8) < n + 8
  BY DEF AlignUp

\* What is written behind n bytes to fill a word.
LEMMA Padding ==
  ASSUME NEW n \in Nat
  PROVE  (-n) % 4 \in 0 .. 3 /\ n + ((-n) % 4) = AlignUp(n, 4)
  BY SMT DEF AlignUp

LEMMA PadIsAlign ==
  ASSUME NEW n \in Nat
  PROVE  Pad4(n) = AlignUp(n, 4)
  BY Padding DEF Pad4

----------------------------------------------------------------------------
(* Strings *)

\* Two sequences are the same string if they are the same.
LEMMA Compared ==
  ASSUME NEW s, NEW t, s = [i \in 1 .. Len(s) |-> s[i]], t = [i \in 1 .. Len(t) |-> t[i]],
         Len(s) \in Nat, Len(t) \in Nat
  PROVE  StringCompare(s, t) <=> s = t
<1> DEFINE m == IF Len(s) > Len(t) THEN Len(s) ELSE Len(t)
<1>1. s = t => StringCompare(s, t)
  BY DEF StringCompare
<1>2. ASSUME StringCompare(s, t) PROVE s = t
  <2>1. \A i \in 1 .. m : i <= Len(s) /\ i <= Len(t) /\ s[i] = t[i]
    BY <1>2 DEF StringCompare
  <2>2. Len(s) = Len(t)
    <3>1. m \in Nat /\ (m >= 1 => m \in 1 .. m)
      OBVIOUS
    <3>2. m >= 1 => m <= Len(s) /\ m <= Len(t)
      BY <2>1, <3>1
    <3>3. Len(s) \in Nat /\ Len(t) \in Nat
      OBVIOUS
    <3> QED BY ONLY <3>1, <3>2, <3>3
  <2>3. \A i \in 1 .. Len(s) : s[i] = t[i]
    BY <2>1, <2>2
  <2>4. [i \in 1 .. Len(s) |-> s[i]] = [i \in 1 .. Len(t) |-> t[i]]
    BY <2>2, <2>3
  <2> QED BY <2>4
<1> QED BY <1>1, <1>2

\* utils_string_compare tells whether two strings are the same.
LEMMA SameString ==
  ASSUME NEW S, NEW R, NEW s \in Seq(S), NEW t \in Seq(R)
  PROVE  StringCompare(s, t) <=> s = t
<1>1. /\ s = [i \in 1 .. Len(s) |-> s[i]] /\ Len(s) \in Nat
      /\ t = [i \in 1 .. Len(t) |-> t[i]] /\ Len(t) \in Nat
  OBVIOUS
<1> QED BY <1>1, Compared

\* A string in memory ends with the first NUL.
LEMMA InMemory ==
  ASSUME NEW S, NEW s \in Seq(S), NEW mem, NEW p \in Int,
         Len(s) < MaxString, \A i \in 1 .. Len(s) : s[i] # NUL,
         \A i \in 1 .. Len(s) : mem[p + i - 1] = s[i],
         mem[p + Len(s)] = NUL
  PROVE  Strlen(mem, p) = Len(s) + 1 /\ StringAt(mem, p) = s
<1> DEFINE Ends(n) == mem[p + n - 1] = NUL /\ \A i \in 0 .. n - 2 : mem[p + i] # NUL
<1>0. Len(s) \in Nat
  OBVIOUS
<1>1. Len(s) + 1 \in 1 .. MaxString
  <2>1. MaxString = 1000
    BY DEF MaxString
  <2> DEFINE k == Len(s)
  <2>2. k \in Nat /\ k < MaxString
    BY <1>0
  <2> HIDE DEF k
  <2>3. k + 1 \in 1 .. MaxString
    BY <2>1, <2>2
  <2> QED BY <2>3 DEF k
<1>2. Ends(Len(s) + 1)
  <2>1. p + (Len(s) + 1) - 1 = p + Len(s)
    BY <1>0
  <2>2. ASSUME NEW i \in 0 .. (Len(s) + 1) - 2 PROVE mem[p + i] # NUL
    <3>1. i + 1 \in 1 .. Len(s) /\ p + (i + 1) - 1 = p + i
      BY <1>0
    <3> QED BY <3>1
  <2> QED BY <2>1, <2>2
<1>3. ASSUME NEW n \in 1 .. MaxString, Ends(n) PROVE n = Len(s) + 1
  <2>1. n \in Int /\ n >= 1
    BY DEF MaxString
  <2>2. ASSUME n < Len(s) + 1 PROVE FALSE
    <3>1. n \in 1 .. Len(s)
      BY <2>1, <2>2, <1>0
    <3>2. mem[p + n - 1] = s[n] /\ s[n] # NUL
      BY <3>1
    <3> QED BY <3>2, <1>3
  <2>3. ASSUME n > Len(s) + 1 PROVE FALSE
    <3>1. Len(s) \in 0 .. n - 2
      BY <2>1, <2>3, <1>0
    <3> QED BY <3>1, <1>3
  <2> QED BY <2>1, <2>2, <2>3, <1>0
<1>4. Strlen(mem, p) = Len(s) + 1
  <2>1. Strlen(mem, p) = CHOOSE n \in 1 .. MaxString : Ends(n)
    BY DEF Strlen
  <2> HIDE DEF Ends
  <2> QED BY <2>1, <1>1, <1>2, <1>3
<1>5. StringAt(mem, p) = [i \in 1 .. Len(s) |-> mem[p + i - 1]]
  BY <1>4, <1>0 DEF StringAt
<1>6. s = [i \in 1 .. Len(s) |-> s[i]]
  OBVIOUS
<1> QED BY <1>4, <1>5, <1>6

----------------------------------------------------------------------------
(* Hexadecimal numbers *)

LEMMA Division ==
  ASSUME NEW n \in Nat, NEW d \in Nat, d > 0
  PROVE  /\ n \div d \in Nat /\ n % d \in Nat /\ n % d < d
         /\ n = (d * (n \div d)) + (n % d)
  BY SMT

\* There is one quotient.
LEMMA Quotient ==
  ASSUME NEW n \in Nat, NEW d \in Nat, d > 0, NEW m \in Nat, NEW e \in Nat, e < d,
         n = (d * m) + e
  PROVE  n \div d = m
  BY SMT

\* Dividing by a product is dividing twice.
LEMMA Twice ==
  ASSUME NEW n \in Nat, NEW p \in Nat, p > 0, NEW r \in Nat, r > 0
  PROVE  /\ n \div (r * p) = (n \div p) \div r
         /\ n \div p = ((n \div (r * p)) * r) + ((n \div p) % r)
<1> DEFINE a == n \div p
           x == n % p
           m == a \div r
           s == a % r
<1>1. a \in Nat /\ x \in Nat /\ x < p /\ n = (p * a) + x
  BY Division
<1> HIDE DEF a, x
<1>2. m \in Nat /\ s \in Nat /\ s < r /\ a = (r * m) + s
  BY <1>1, Division
<1> HIDE DEF m, s
<1> DEFINE e == (p * s) + x
           q == r * p
<1>3. p * s \in Nat /\ q \in Nat /\ e \in Nat /\ q > 0
  BY <1>1, <1>2
<1>4. e < q
  <2>1. s + 1 <= r
    BY <1>2
  <2>2. p * (s + 1) <= p * r /\ p * (s + 1) = (p * s) + p /\ p * r = q
    BY <1>2, <2>1
  <2> QED BY <2>2, <1>1, <1>3
<1>5. n = (q * m) + e
  <2>1. p * a = (p * (r * m)) + (p * s)
    BY <1>2
  <2>2. p * (r * m) = q * m
    BY <1>2
  <2> QED BY <2>1, <2>2, <1>1, <1>2
<1> HIDE DEF e, q
<1>6. n \div q = m
  BY <1>3, <1>4, <1>5, <1>2, Quotient
<1>7. a = (m * r) + s
  BY <1>2
<1> QED BY <1>6, <1>7 DEF q, a, s, m

\* What a one in digit i of eight is worth.
Power(i) == 16 ^ (8 - i)

\* Each digit counts sixteen times the next.
LEMMA Powers ==
  /\ \A i \in 2 .. 8 : Power(i - 1) = 16 * Power(i)
  /\ \A i \in 1 .. 8 : Power(i) \in Nat /\ Power(i) > 0
  /\ Power(8) = 1 /\ Power(1) = 16 ^ 7
<1>1. /\ Power(1) = 16 ^ 7 /\ Power(2) = 16 ^ 6 /\ Power(3) = 16 ^ 5 /\ Power(4) = 16 ^ 4
      /\ Power(5) = 16 ^ 3 /\ Power(6) = 16 ^ 2 /\ Power(7) = 16 ^ 1 /\ Power(8) = 16 ^ 0
  BY SMT DEF Power
<1>2. /\ 16 ^ 7 = 16 * 16 ^ 6 /\ 16 ^ 6 = 16 * 16 ^ 5 /\ 16 ^ 5 = 16 * 16 ^ 4
      /\ 16 ^ 4 = 16 * 16 ^ 3 /\ 16 ^ 3 = 16 * 16 ^ 2 /\ 16 ^ 2 = 16 * 16 ^ 1
      /\ 16 ^ 1 = 16 * 16 ^ 0 /\ 16 ^ 0 = 1
  BY SMT
<1>3. /\ Power(1) = 16 * Power(2) /\ Power(2) = 16 * Power(3) /\ Power(3) = 16 * Power(4)
      /\ Power(4) = 16 * Power(5) /\ Power(5) = 16 * Power(6) /\ Power(6) = 16 * Power(7)
      /\ Power(7) = 16 * Power(8) /\ Power(8) = 1
  BY <1>1, <1>2
<1>4. ASSUME NEW i \in 2 .. 8 PROVE Power(i - 1) = 16 * Power(i)
  <2>1. i = 2 \/ i = 3 \/ i = 4 \/ i = 5 \/ i = 6 \/ i = 7 \/ i = 8
    OBVIOUS
  <2>2. 2 - 1 = 1 /\ 3 - 1 = 2 /\ 4 - 1 = 3 /\ 5 - 1 = 4 /\ 6 - 1 = 5 /\ 7 - 1 = 6 /\ 8 - 1 = 7
    OBVIOUS
  <2> QED BY <1>3, <2>1, <2>2
<1>5. ASSUME NEW i \in 1 .. 8 PROVE Power(i) \in Nat /\ Power(i) > 0
  <2> DEFINE T == {k \in 0 .. 7 : Power(8 - k) \in Nat /\ Power(8 - k) > 0}
  <2>1. 0 \in T
    BY <1>3
  <2>2. ASSUME NEW k \in 1 .. 7, k - 1 \in T PROVE k \in T
    <3>1. 9 - k \in 2 .. 8 /\ (9 - k) - 1 = 8 - k /\ 8 - (k - 1) = 9 - k
      OBVIOUS
    <3>2. Power(8 - k) = 16 * Power(9 - k) /\ Power(9 - k) \in Nat /\ Power(9 - k) > 0
      BY <2>2, <3>1, <1>4
    <3> QED BY <3>2
  <2>3. 8 - i \in 0 .. 7 /\ 8 - (8 - i) = i
    OBVIOUS
  <2> HIDE DEF T
  <2>4. 8 - i \in T
    BY <2>1, <2>2, <2>3, Climb
  <2> QED BY <2>4, <2>3 DEF T
<1> QED BY <1>1, <1>3, <1>4, <1>5

\* The character of a digit is read back as the digit.
LEMMA DigitOf ==
  ASSUME NEW n \in 0 .. 15, NEW ten \in {55, 87}
  PROVE  Digit(n + IF n > 9 THEN ten ELSE 48) = n
  BY DEF Digit

\* utils_atoi reads what cpio writes.
LEMMA AtoiOfHex ==
  ASSUME NEW d, EightDigits(d), NEW ten \in {55, 87}
  PROVE  Atoi(Hex(d, ten), 8) = d
<1> DEFINE s == Hex(d, ten)
           w == [i \in 0 .. 8 |-> IF i = 0 THEN 0 ELSE d \div Power(i)]
           F(num) == [i \in 0 .. 8 |-> IF i = 0 THEN 0 ELSE num[i - 1] * 16 + Digit(s[i])]
           num == CHOOSE g : g = F(g)
<1>0. d \in Nat /\ d \div Power(1) < 16 /\ Power(1) \in Nat /\ Power(1) > 0
  BY Powers DEF EightDigits
<1>1. ASSUME NEW i \in 1 .. 8
      PROVE  Digit(s[i]) = (d \div Power(i)) % 16
  <2> DEFINE n == (d \div Power(i)) % 16
  <2>1. s[i] = n + IF n > 9 THEN ten ELSE 48
    BY DEF Hex, Power
  <2>2. n \in 0 .. 15
    <3>1. d \div Power(i) \in Nat
      BY <1>0, Powers, Division
    <3> QED BY <3>1
  <2> HIDE DEF n, s
  <2>3. Digit(s[i]) = n
    BY <2>1, <2>2, DigitOf
  <2> QED BY <2>3 DEF n
<1> HIDE DEF s
<1>2. ASSUME NEW i \in 1 .. 8
      PROVE  w[i] = w[i - 1] * 16 + Digit(s[i])
  <2>1. Power(i) \in Nat /\ Power(i) > 0
    BY Powers
  <2>2. CASE i = 1
    <3> DEFINE q == d \div Power(1)
    <3>1. q \in Nat /\ q < 16
      BY <1>0, Division
    <3>2. w[1] = q /\ w[0] = 0 /\ Digit(s[1]) = q % 16
      BY <1>1
    <3> HIDE DEF q, w
    <3>3. q % 16 = q
      BY <3>1
    <3>4. w[1] = 0 * 16 + Digit(s[1])
      BY <3>1, <3>2, <3>3
    <3> QED BY <2>2, <3>2, <3>4
  <2>3. CASE i # 1
    <3>1. i - 1 \in 1 .. 8 /\ i \in 2 .. 8 /\ Power(i - 1) = 16 * Power(i)
      BY <2>3, Powers
    <3>2. w[i] = d \div Power(i) /\ w[i - 1] = d \div (16 * Power(i))
      BY <3>1
    <3>3. Digit(s[i]) = (d \div Power(i)) % 16
      BY <1>1
    <3>4. d \div Power(i) = ((d \div (16 * Power(i))) * 16) + ((d \div Power(i)) % 16)
      BY <1>0, <2>1, Twice
    <3> QED BY <3>2, <3>3, <3>4
  <2> QED BY <2>2, <2>3
<1>3. w = F(w)
  <2>1. ASSUME NEW i \in 0 .. 8 PROVE w[i] = F(w)[i]
    <3>1. CASE i = 0
      BY <3>1
    <3>2. CASE i # 0
      <4>1. i \in 1 .. 8
        BY <3>2
      <4>2. w[i] = w[i - 1] * 16 + Digit(s[i])
        BY <4>1, <1>2
      <4> HIDE DEF w
      <4> QED BY <4>2, <3>2
    <3> QED BY <3>1, <3>2
  <2> QED BY <2>1
<1>4. num = F(num)
  <2> HIDE DEF F, w
  <2> QED BY <1>3
<1>5. Atoi(s, 8) = num[8]
  BY DEF Atoi
<1> HIDE DEF num
<1>6. num[0] = 0 /\ \A i \in 1 .. 8 : num[i] = num[i - 1] * 16 + Digit(s[i])
  <2>1. num = [i \in 0 .. 8 |-> IF i = 0 THEN 0 ELSE num[i - 1] * 16 + Digit(s[i])]
    BY <1>4
  <2>2. \A i \in 0 .. 8 : num[i] = IF i = 0 THEN 0 ELSE num[i - 1] * 16 + Digit(s[i])
    BY <2>1
  <2> QED BY <2>2
<1>7. w[0] = 0 /\ w[8] = d
  BY Powers, <1>0
<1> HIDE DEF w, F
<1> DEFINE T == {i \in 0 .. 8 : num[i] = w[i]}
<1>8. 0 \in T
  BY <1>6, <1>7
<1>9. ASSUME NEW i \in 1 .. 8, i - 1 \in T PROVE i \in T
  BY <1>2, <1>6, <1>9
<1> HIDE DEF T
<1>10. 8 \in T
  BY <1>8, <1>9, Climb
<1> QED BY <1>5, <1>7, <1>10 DEF s, T

----------------------------------------------------------------------------
(* Big-endian words *)

LEMMA Literals == 2^24 = 16777216 /\ 2^16 = 65536 /\ 2^8 = 256
  BY SMT

\* fdt_u32_le2be reads what the compiler writes.
LEMMA WordOf ==
  ASSUME NEW n, IsWord(n), NEW mem, NEW p \in Int,
         \A i \in 1 .. 4 : mem[p + i - 1] = BigEndian(n)[i]
  PROVE  Word(mem, p) = n
<1>0. n \in Nat
  BY DEF IsWord
<1>1. n \div 256 \in Nat /\ n = ((n \div 256) * 256) + (n % 256)
  BY <1>0
<1>2. n \div 256 = ((n \div 65536) * 256) + ((n \div 256) % 256) /\ n \div 65536 \in Nat
  <2> DEFINE x == 256
             y == 65536
             r == 256
  <2>1. x \in Nat /\ x > 0 /\ r \in Nat /\ r > 0 /\ r * x = y /\ n \div y \in Nat
    BY <1>0
  <2> HIDE DEF x, y, r
  <2>2. n \div x = ((n \div (r * x)) * r) + ((n \div x) % r)
    BY <1>0, <2>1, Twice
  <2>3. n \div x = ((n \div y) * r) + ((n \div x) % r)
    BY <2>1, <2>2
  <2> QED BY <2>1, <2>3, SMT DEF x, y, r
<1>3. n \div 65536 = ((n \div 16777216) * 256) + ((n \div 65536) % 256) /\ n \div 16777216 \in Nat
  <2> DEFINE x == 65536
             y == 16777216
             r == 256
  <2>1. x \in Nat /\ x > 0 /\ r \in Nat /\ r > 0 /\ r * x = y /\ n \div y \in Nat
    BY <1>0
  <2> HIDE DEF x, y, r
  <2>2. n \div x = ((n \div (r * x)) * r) + ((n \div x) % r)
    BY <1>0, <2>1, Twice
  <2>3. n \div x = ((n \div y) * r) + ((n \div x) % r)
    BY <2>1, <2>2
  <2> QED BY <2>1, <2>3, SMT DEF x, y, r
<1>4. /\ mem[p] = n \div 16777216 /\ mem[p + 1] = (n \div 65536) % 256
      /\ mem[p + 2] = (n \div 256) % 256 /\ mem[p + 3] = n % 256
  <2>1. p + 1 - 1 = p /\ p + 2 - 1 = p + 1 /\ p + 3 - 1 = p + 2 /\ p + 4 - 1 = p + 3
    OBVIOUS
  <2> QED BY <2>1, Literals DEF BigEndian
<1>5. Word(mem, p) = mem[p] * 16777216 + mem[p + 1] * 65536 + mem[p + 2] * 256 + mem[p + 3]
  BY Literals DEF Word
<1> DEFINE a == n \div 16777216
           b == (n \div 65536) % 256
           c == (n \div 256) % 256
           d == n % 256
<1>6. a \in Nat /\ b \in Nat /\ c \in Nat /\ d \in Nat
  BY <1>0, <1>2, <1>3
<1>7. n = ((a * 256 + b) * 256 + c) * 256 + d
  BY <1>1, <1>2, <1>3
<1> HIDE DEF a, b, c, d
<1>8. ((a * 256 + b) * 256 + c) * 256 + d = a * 16777216 + b * 65536 + c * 256 + d
  BY <1>6
<1> QED BY <1>4, <1>5, <1>7, <1>8 DEF a, b, c, d

----------------------------------------------------------------------------
(* Sequences that are written one behind the other *)

LEMMA Joined ==
  ASSUME NEW S, NEW u \in Seq(S), NEW v \in Seq(S)
  PROVE  u \o v \in Seq(S) /\ <<>> \o v = v
  OBVIOUS

\* g[i] is what the first i of seqs make.
Joins(g, seqs, S) ==
  /\ g \in [0 .. Len(seqs) -> Seq(S)] /\ g[0] = <<>>
  /\ \A i \in 1 .. Len(seqs) : g[i] = g[i - 1] \o seqs[i]

\* FlattenSeq grows by one sequence at a time.
LEMMA Flattened ==
  ASSUME NEW S, NEW seqs \in Seq(Seq(S))
  PROVE  \E g : Joins(g, seqs, S) /\ FlattenSeq(seqs) = g[Len(seqs)]
<1> DEFINE n == Len(seqs)
           step == [x \in (1 .. n) \X Seq(S) |-> x[2] \o seqs[x[1]]]
<1>1. n \in Nat /\ \A i \in 1 .. n : seqs[i] \in Seq(S)
  OBVIOUS
<1> HIDE DEF n
<1>2. step \in [(1 .. n) \X Seq(S) -> Seq(S)]
  <2>1. ASSUME NEW x \in (1 .. n) \X Seq(S) PROVE x[2] \o seqs[x[1]] \in Seq(S)
    <3>1. x[1] \in 1 .. n /\ x[2] \in Seq(S)
      OBVIOUS
    <3>2. seqs[x[1]] \in Seq(S)
      BY <3>1, <1>1
    <3> QED BY <3>1, <3>2, Joined
  <2> QED BY <2>1
<1>3. <<>> \in Seq(S)
  OBVIOUS
<1>4. PICK g \in [0 .. n -> Seq(S)] : g[0] = <<>> /\ \A i \in 1 .. n : g[i] = step[<<i, g[i - 1]>>]
  <2>1. \E g : Goes(g, n, Seq(S), <<>>, step)
    <3> HIDE DEF step
    <3> QED BY <1>1, <1>2, <1>3, Recursion
  <2> QED BY <2>1 DEF Goes
<1>5. ASSUME NEW i \in 1 .. n PROVE g[i] = g[i - 1] \o seqs[i]
  <2>0. i - 1 \in 0 .. n
    BY <1>1
  <2>1. i - 1 \in 0 .. n /\ g[i - 1] \in Seq(S)
    BY <2>0
  <2>2. <<i, g[i - 1]>> \in (1 .. n) \X Seq(S)
    BY <2>1
  <2> QED BY <1>4, <2>2
<1>6. Joins(g, seqs, S)
  BY <1>4, <1>5 DEF Joins, n
<1>7. CASE n = 0
  <2>1. Len(seqs) = 0 /\ seqs = <<>> /\ FlattenSeq(seqs) = seqs
    BY <1>7 DEF FlattenSeq, n
  <2> QED BY <2>1, <1>4, <1>6
<1>8. CASE n # 0
  <2> DEFINE F(h) == [i \in 1 .. n |-> IF i = 1 THEN seqs[i] ELSE h[i - 1] \o seqs[i]]
             flatten == CHOOSE h : h = F(h)
             w == [i \in 1 .. n |-> g[i]]
  <2>1. FlattenSeq(seqs) = flatten[n]
    BY <1>8 DEF FlattenSeq, n
  <2>2. w = F(w)
    <3>1. ASSUME NEW i \in 1 .. n PROVE g[i] = IF i = 1 THEN seqs[i] ELSE w[i - 1] \o seqs[i]
      <4>1. CASE i = 1
        <5>1. 1 \in 1 .. n /\ 1 - 1 = 0
          BY <4>1
        <5>2. g[1] = g[1 - 1] \o seqs[1] /\ seqs[1] \in Seq(S)
          BY <1>1, <1>5, <5>1
        <5>3. g[1] = <<>> \o seqs[1]
          BY <1>4, <5>1, <5>2
        <5>4. g[1] = seqs[1]
          BY <5>2, <5>3, Joined
        <5> QED BY <5>4, <4>1
      <4>2. CASE i # 1
        <5>1. i - 1 \in 1 .. n /\ w[i - 1] = g[i - 1]
          BY <4>2, <1>1
        <5> HIDE DEF w
        <5> QED BY <5>1, <4>2, <1>5
      <4> QED BY <4>1, <4>2
    <3> QED BY <3>1
  <2>3. flatten = F(flatten)
    <3> HIDE DEF w, F
    <3> QED BY <2>2
  <2> HIDE DEF flatten, w
  <2>4. ASSUME NEW i \in 1 .. n
        PROVE  flatten[i] = IF i = 1 THEN seqs[i] ELSE flatten[i - 1] \o seqs[i]
    BY <2>3
  <2> HIDE DEF F
  <2> DEFINE T == {i \in 0 .. n : i # 0 => flatten[i] = g[i]}
  <2>5. 0 \in T
    BY <1>1
  <2>6. ASSUME NEW i \in 1 .. n, i - 1 \in T PROVE i \in T
    <3>1. CASE i = 1
      <4>1. 1 \in 1 .. n /\ 1 - 1 = 0
        BY <3>1
      <4>2. g[1] = g[1 - 1] \o seqs[1] /\ seqs[1] \in Seq(S) /\ flatten[1] = seqs[1]
        BY <1>1, <1>5, <4>1, <2>4
      <4>3. g[1] = <<>> \o seqs[1]
        BY <1>4, <4>1, <4>2
      <4>4. flatten[1] = g[1]
        BY <4>2, <4>3, Joined
      <4> QED BY <4>4, <3>1
    <3>2. CASE i # 1
      <4>1. flatten[i - 1] = g[i - 1]
        BY <2>6, <3>2
      <4>2. flatten[i] = flatten[i - 1] \o seqs[i] /\ g[i] = g[i - 1] \o seqs[i]
        BY <3>2, <2>4, <1>5
      <4>3. flatten[i] = g[i]
        BY <4>1, <4>2
      <4> QED BY <4>3
    <3> QED BY <3>1, <3>2
  <2> HIDE DEF T
  <2>7. n \in T
    <3>1. n \in 0 .. n
      BY <1>1
    <3> QED BY <3>1, <1>1, <2>5, <2>6, Climb
  <2>8. flatten[n] = g[n]
    BY <2>7, <1>8 DEF T
  <2> QED BY <1>6, <2>1, <2>8 DEF n
<1> QED BY <1>7, <1>8

\* Where number k of seqs begins: what is before it.
Before(seqs, k) == Len(FlattenSeq([j \in 1 .. k - 1 |-> seqs[j]]))

\* Where each of seqs lies in what they make together.
LEMMA FlatParts ==
  ASSUME NEW S, NEW seqs \in Seq(Seq(S))
  PROVE  /\ FlattenSeq(seqs) \in Seq(S)
         /\ \A k \in 1 .. Len(seqs) :
              /\ Before(seqs, k) \in Nat /\ seqs[k] \in Seq(S)
              /\ Before(seqs, k + 1) = Before(seqs, k) + Len(seqs[k])
              /\ Before(seqs, k) + Len(seqs[k]) <= Len(FlattenSeq(seqs))
              /\ \A j \in 1 .. Len(seqs[k]) : FlattenSeq(seqs)[Before(seqs, k) + j] = seqs[k][j]
         /\ Before(seqs, 1) = 0
<1> DEFINE n == Len(seqs)
<1>1. n \in Nat /\ \A i \in 1 .. n : seqs[i] \in Seq(S)
  OBVIOUS
<1>2. PICK g : Joins(g, seqs, S) /\ FlattenSeq(seqs) = g[n]
  BY Flattened
<1>3. g \in [0 .. n -> Seq(S)] /\ g[0] = <<>> /\ \A i \in 1 .. n : g[i] = g[i - 1] \o seqs[i]
  BY <1>2 DEF Joins
<1> HIDE DEF n
<1>4. ASSUME NEW m \in 0 .. n PROVE FlattenSeq([j \in 1 .. m |-> seqs[j]]) = g[m]
  <2> DEFINE p == [j \in 1 .. m |-> seqs[j]]
  <2>1. p \in Seq(Seq(S)) /\ Len(p) = m /\ m \in Nat
    BY <1>1
  <2>2. \A i \in 1 .. m : p[i] = seqs[i] /\ i \in 1 .. n
    BY <1>1
  <2> HIDE DEF p
  <2>3. PICK h : Joins(h, p, S) /\ FlattenSeq(p) = h[m]
    BY <2>1, Flattened
  <2>4. h[0] = <<>> /\ \A i \in 1 .. m : h[i] = h[i - 1] \o seqs[i]
    BY <2>1, <2>2, <2>3 DEF Joins
  <2> DEFINE T == {i \in 0 .. m : h[i] = g[i]}
  <2>5. 0 \in T
    BY <2>4, <1>3, <2>1
  <2>6. ASSUME NEW i \in 1 .. m, i - 1 \in T PROVE i \in T
    <3>1. h[i - 1] = g[i - 1]
      BY <2>6
    <3>2. h[i] = h[i - 1] \o seqs[i] /\ g[i] = g[i - 1] \o seqs[i]
      BY <2>4, <2>2, <1>3
    <3>3. h[i] = g[i]
      BY <3>1, <3>2
    <3> QED BY <3>3
  <2> HIDE DEF T
  <2>7. m \in T
    <3>1. m \in 0 .. m
      BY <2>1
    <3> QED BY <3>1, <2>1, <2>5, <2>6, Climb
  <2> QED BY <2>3, <2>7 DEF p, T
<1>5. ASSUME NEW k \in 1 .. n + 1 PROVE Before(seqs, k) = Len(g[k - 1])
  <2>1. k - 1 \in 0 .. n
    BY <1>1
  <2> QED BY <2>1, <1>4 DEF Before
<1>6. FlattenSeq(seqs) \in Seq(S)
  BY <1>1, <1>2, <1>3
<1>7. ASSUME NEW k \in 1 .. n
      PROVE  /\ Before(seqs, k) \in Nat /\ seqs[k] \in Seq(S)
             /\ Before(seqs, k + 1) = Before(seqs, k) + Len(seqs[k])
             /\ Before(seqs, k) + Len(seqs[k]) <= Len(FlattenSeq(seqs))
             /\ \A j \in 1 .. Len(seqs[k]) : FlattenSeq(seqs)[Before(seqs, k) + j] = seqs[k][j]
  <2> DEFINE c == seqs[k]
             u == g[k - 1]
             b == Len(u)
  <2>1. /\ k \in 1 .. n + 1 /\ k + 1 \in 1 .. n + 1 /\ (k + 1) - 1 = k
        /\ k - 1 \in 0 .. n /\ k \in 0 .. n
    BY <1>1
  <2>2. c \in Seq(S) /\ u \in Seq(S) /\ g[k] = u \o c /\ Len(c) \in Nat /\ b \in Nat
    <3>1. c \in Seq(S) /\ u \in Seq(S) /\ g[k] = u \o c
      BY <1>1, <1>3, <2>1
    <3> HIDE DEF c, u
    <3> QED BY <3>1
  <2>3. Before(seqs, k) = b /\ Before(seqs, k + 1) = Len(g[k])
    BY <1>5, <2>1
  <2> HIDE DEF c, u
  <2>4. Len(g[k]) = b + Len(c) /\ \A j \in 1 .. Len(c) : g[k][b + j] = c[j]
    <3>1. Len(u \o c) = b + Len(c)
      BY <2>2
    <3>2. ASSUME NEW j \in 1 .. Len(c) PROVE (u \o c)[b + j] = c[j]
      <4>1. b + j \in 1 .. b + Len(c) /\ ~(b + j <= b) /\ (b + j) - b = j
        BY <2>2
      <4> QED BY <4>1, <2>2
    <3> QED BY <2>2, <3>1, <3>2
  <2> HIDE DEF b
  <2> DEFINE T == {m \in 0 .. n : m >= k => /\ Len(g[m]) >= b + Len(c)
                                            /\ \A j \in 1 .. Len(c) : g[m][b + j] = c[j]}
  <2>5. 0 \in T
    BY <2>1, <1>1
  <2>6. ASSUME NEW m \in 1 .. n, m - 1 \in T PROVE m \in T
    <3>1. CASE m < k
      BY <3>1
    <3>2. CASE m = k
      <4>1. Len(g[m]) >= b + Len(c)
        BY <3>2, <2>4, <2>2
      <4>2. \A j \in 1 .. Len(c) : g[m][b + j] = c[j]
        BY <3>2, <2>4
      <4> QED BY <4>1, <4>2
    <3>3. CASE m > k
      <4> DEFINE v == g[m - 1]
      <4>0. m - 1 >= k
        BY <3>3
      <4>1. Len(v) >= b + Len(c) /\ \A j \in 1 .. Len(c) : v[b + j] = c[j]
        BY <2>6, <4>0
      <4>2. v \in Seq(S) /\ seqs[m] \in Seq(S) /\ g[m] = v \o seqs[m]
        <5>1. m - 1 \in 0 .. n
          BY <1>1
        <5> QED BY <5>1, <1>1, <1>3
      <4> HIDE DEF v
      <4>3. Len(g[m]) = Len(v) + Len(seqs[m]) /\ Len(v) \in Nat /\ Len(seqs[m]) \in Nat
        BY <4>2
      <4>4. ASSUME NEW j \in 1 .. Len(c) PROVE g[m][b + j] = c[j]
        <5>1. b + j \in 1 .. Len(v)
          BY <4>1, <4>3, <2>2
        <5>2. (v \o seqs[m])[b + j] = v[b + j]
          BY <5>1, <4>2
        <5> QED BY <5>2, <4>1, <4>2
      <4>5. Len(g[m]) >= b + Len(c)
        BY <4>1, <4>3, <2>2
      <4> QED BY <4>4, <4>5
    <3> QED BY <3>1, <3>2, <3>3
  <2> HIDE DEF T
  <2>7. n \in T
    <3>1. n \in 0 .. n
      BY <1>1
    <3> QED BY <3>1, <1>1, <2>5, <2>6, Climb
  <2>8. Len(g[n]) >= b + Len(c) /\ \A j \in 1 .. Len(c) : g[n][b + j] = c[j]
    BY <2>7 DEF T
  <2>9. Len(g[n]) \in Nat
    BY <1>1, <1>3
  <2>10. b + Len(c) <= Len(g[n])
    BY <2>2, <2>8, <2>9
  <2> QED BY <2>2, <2>3, <2>4, <2>8, <2>10, <1>2 DEF c
<1>8. Before(seqs, 1) = 0
  <2>1. 1 \in 1 .. n + 1 /\ 1 - 1 = 0
    BY <1>1
  <2>2. Before(seqs, 1) = Len(g[0])
    BY <2>1, <1>5
  <2> QED BY <2>2, <1>3
<1> QED BY <1>6, <1>7, <1>8 DEF n

----------------------------------------------------------------------------
(* The device tree in memory *)

\* What lies in memory.
Memory == Nat \cup {NUL}

LEMMA TokenValues ==
  /\ Tokens.begin = 1 /\ Tokens.end = 2 /\ Tokens.prop = 3 /\ Tokens.nop = 4 /\ Tokens.last = 9
  /\ {Tokens[t] : t \in DOMAIN Tokens} = {1, 2, 3, 4, 9}
<1>1. Tokens.begin = 1 /\ Tokens.end = 2 /\ Tokens.prop = 3 /\ Tokens.nop = 4 /\ Tokens.last = 9
  BY DEF Tokens
<1>2. DOMAIN Tokens = {"begin", "end", "prop", "nop", "last"}
  BY DEF Tokens
<1> QED BY <1>1, <1>2

LEMMA SmallWord ==
  ASSUME NEW n \in 0 .. 9
  PROVE  IsWord(n)
<1>1. n \div 16777216 = 0
  BY SMT
<1> QED BY <1>1, Literals DEF IsWord

LEMMA FourBytes ==
  ASSUME NEW n, IsWord(n)
  PROVE  BigEndian(n) \in Seq(Memory) /\ Len(BigEndian(n)) = 4
<1>1. n \in Nat
  BY DEF IsWord
<1>2. /\ n \div 16777216 \in Nat /\ (n \div 65536) % 256 \in Nat
      /\ (n \div 256) % 256 \in Nat /\ n % 256 \in Nat
  BY <1>1, SMT
<1>3. BigEndian(n) = <<n \div 16777216, (n \div 65536) % 256, (n \div 256) % 256, n % 256>>
  BY Literals DEF BigEndian
<1> QED BY <1>2, <1>3, SMT DEF Memory

\* Two sequences one behind the other.
Joint(w, u, v, S) ==
  /\ w \in Seq(S) /\ Len(w) = Len(u) + Len(v)
  /\ \A i \in 1 .. Len(u) : w[i] = u[i]
  /\ \A i \in 1 .. Len(v) : w[Len(u) + i] = v[i]

\* What a concatenation is made of.
LEMMA Behind ==
  ASSUME NEW S, NEW u \in Seq(S), NEW v \in Seq(S)
  PROVE  Joint(u \o v, u, v, S)
<1>1. u \o v \in Seq(S) /\ Len(u \o v) = Len(u) + Len(v) /\ Len(u) \in Nat /\ Len(v) \in Nat
  OBVIOUS
<1>2. \A i \in 1 .. Len(u) : (u \o v)[i] = u[i]
  OBVIOUS
<1>3. ASSUME NEW i \in 1 .. Len(v) PROVE (u \o v)[Len(u) + i] = v[i]
  <2>1. Len(u) + i \in 1 .. Len(u) + Len(v) /\ ~(Len(u) + i <= Len(u)) /\ (Len(u) + i) - Len(u) = i
    BY <1>1
  <2> QED BY <2>1
<1> QED BY <1>1, <1>2, <1>3 DEF Joint

\* Padding to a word is rounding the length up.
LEMMA PaddedTo ==
  ASSUME NEW s \in Seq(Memory)
  PROVE  /\ Padded(s) \in Seq(Memory) /\ Len(Padded(s)) = AlignUp(Len(s), 4)
         /\ \A i \in 1 .. Len(s) : Padded(s)[i] = s[i]
<1> DEFINE n == Len(s)
           m == (-n) % 4
           v == [i \in 1 .. m |-> NUL]
<1>1. n \in Nat
  OBVIOUS
<1>2. Padded(s) = s \o v
  BY DEF Padded
<1> HIDE DEF n
<1>3. m \in Nat /\ n + m = AlignUp(n, 4)
  BY <1>1, Padding
<1> HIDE DEF m
<1>4. v \in Seq(Memory) /\ Len(v) = m
  BY <1>3 DEF Memory
<1> HIDE DEF v
<1>5. Padded(s) \in Seq(Memory) /\ Len(Padded(s)) = n + m /\ \A i \in 1 .. n : Padded(s)[i] = s[i]
  <2>1. Joint(s \o v, s, v, Memory)
    BY <1>4, Behind
  <2> QED BY <2>1, <1>2, <1>4 DEF n, Joint
<1> QED BY <1>3, <1>5 DEF n

----------------------------------------------------------------------------
(* The names of properties *)

\* A property name is read back from the strings block, where its offset says.
LEMMA NameAt ==
  ASSUME NEW n \in Range(PropNames)
  PROVE  /\ NameOff(n) \in Nat /\ IsWord(NameOff(n)) /\ IsName(n)
         /\ StringAt([a \in 0 .. Len(Strings) - 1 |-> Strings[a + 1]], NameOff(n)) = n
<1> DEFINE seqs == [i \in DOMAIN PropNames |-> Append(PropNames[i], NUL)]
           i0 == CHOOSE j \in DOMAIN PropNames : PropNames[j] = n
           off == NameOff(n)
           mem == [a \in 0 .. Len(Strings) - 1 |-> Strings[a + 1]]
<1>1. /\ PropNames \in Seq(Seq(Nat)) /\ \A i \in DOMAIN PropNames : IsName(PropNames[i])
      /\ IsWord(Len(Strings))
  BY TreeAssumption
<1>2. i0 \in DOMAIN PropNames /\ PropNames[i0] = n
  BY DEF Range
<1>3. DOMAIN PropNames = 1 .. Len(PropNames) /\ Len(PropNames) \in Nat
  BY <1>1
<1>4. ASSUME NEW i \in DOMAIN PropNames PROVE Append(PropNames[i], NUL) \in Seq(Memory)
  <2>1. PropNames[i] \in Seq(Nat)
    BY <1>1
  <2>2. PropNames[i] \in Seq(Memory) /\ NUL \in Memory
    BY <2>1 DEF Memory
  <2> QED BY <2>2
<1>5. seqs \in Seq(Seq(Memory)) /\ Len(seqs) = Len(PropNames)
  BY <1>3, <1>4
<1>6. Strings = FlattenSeq(seqs)
  BY DEF Strings
<1>7. off = Len(FlattenSeq([j \in 1 .. i0 - 1 |-> Append(PropNames[j], NUL)]))
  BY DEF NameOff
<1> HIDE DEF i0
<1>8. off = Before(seqs, i0)
  <2>1. [j \in 1 .. i0 - 1 |-> Append(PropNames[j], NUL)] = [j \in 1 .. i0 - 1 |-> seqs[j]]
    <3>1. \A j \in 1 .. i0 - 1 : j \in DOMAIN PropNames
      BY <1>2, <1>3
    <3> QED BY <3>1
  <2> QED BY <1>7, <2>1 DEF Before
<1>9. seqs[i0] = Append(n, NUL) /\ i0 \in 1 .. Len(seqs)
  BY <1>2, <1>3, <1>5
<1> HIDE DEF seqs, off
<1>10. IsName(n) /\ n \in Seq(Nat) /\ Len(n) < MaxString /\ (\A i \in 1 .. Len(n) : n[i] # NUL) /\ Len(n) \in Nat
  <2>1. IsName(n)
    BY <1>1, <1>2
  <2>2. n \in Seq(Nat) /\ Len(n) < MaxString /\ NUL \notin Range(n)
    BY <2>1 DEF IsName
  <2>3. \A i \in 1 .. Len(n) : n[i] # NUL
    <3>1. \A i \in DOMAIN n : n[i] \in Range(n)
      BY DEF Range
    <3> QED BY <2>2, <3>1
  <2> QED BY <2>1, <2>2, <2>3
<1>11. /\ Len(Append(n, NUL)) = Len(n) + 1
       /\ \A j \in 1 .. Len(n) + 1 : Append(n, NUL)[j] = IF j = Len(n) + 1 THEN NUL ELSE n[j]
  BY <1>10
<1>12. /\ off \in Nat /\ off + Len(n) + 1 <= Len(Strings)
       /\ \A j \in 1 .. Len(n) + 1 : Strings[off + j] = Append(n, NUL)[j]
       /\ Len(Strings) \in Nat
  <2>0. /\ FlattenSeq(seqs) \in Seq(Memory)
        /\ \A k \in 1 .. Len(seqs) :
             /\ Before(seqs, k) \in Nat
             /\ Before(seqs, k) + Len(seqs[k]) <= Len(FlattenSeq(seqs))
             /\ \A j \in 1 .. Len(seqs[k]) : FlattenSeq(seqs)[Before(seqs, k) + j] = seqs[k][j]
    BY <1>5, FlatParts
  <2>1. Strings \in Seq(Memory) /\ off \in Nat /\ off + Len(Append(n, NUL)) <= Len(Strings)
    BY <2>0, <1>6, <1>8, <1>9
  <2>2. \A j \in 1 .. Len(Append(n, NUL)) : Strings[off + j] = Append(n, NUL)[j]
    BY <2>0, <1>6, <1>8, <1>9
  <2> DEFINE l == Len(Strings)
             k == Len(n)
  <2>3. l \in Nat /\ k \in Nat /\ off \in Nat /\ off + (k + 1) <= l
    BY <2>1, <1>10, <1>11
  <2> HIDE DEF l, k
  <2>4. off + k + 1 <= l
    BY <2>3
  <2> QED BY <2>2, <2>3, <2>4, <1>11 DEF l, k
<1>13. IsWord(off)
  <2> DEFINE l == Len(Strings)
  <2>1. l \in Nat /\ l \div 16777216 < 256 /\ off <= l
    BY <1>1, <1>10, <1>12, Literals DEF IsWord
  <2> HIDE DEF l
  <2>2. off \div 16777216 <= l \div 16777216
    BY <2>1, <1>12, SMT
  <2>3. off \div 16777216 \in Nat /\ l \div 16777216 \in Nat
    BY <2>1, <1>12, SMT
  <2>4. off \div 16777216 < 256
    BY <2>1, <2>2, <2>3, SMT
  <2> QED BY <2>4, <1>12, Literals DEF IsWord
<1>14. ASSUME NEW j \in 1 .. Len(n) + 1 PROVE mem[off + j - 1] = Append(n, NUL)[j]
  <2>1. off + j - 1 \in 0 .. Len(Strings) - 1 /\ (off + j - 1) + 1 = off + j
    BY <1>10, <1>12
  <2> QED BY <2>1, <1>12
<1> HIDE DEF mem
<1>15. StringAt(mem, off) = n
  <2>1. \A i \in 1 .. Len(n) : mem[off + i - 1] = n[i]
    BY <1>10, <1>11, <1>14
  <2>2. mem[off + Len(n)] = NUL
    <3>1. Len(n) + 1 \in 1 .. Len(n) + 1 /\ off + (Len(n) + 1) - 1 = off + Len(n)
      BY <1>10, <1>12
    <3> QED BY <3>1, <1>11, <1>14
  <2>3. off \in Int
    BY <1>12
  <2> QED BY <2>1, <2>2, <2>3, <1>10, InMemory
<1> QED BY <1>10, <1>12, <1>13, <1>15 DEF off, mem

----------------------------------------------------------------------------
(* Items in memory *)

LEMMA Bytewise ==
  ASSUME NEW s \in Seq(0 .. 255)
  PROVE  s \in Seq(Memory)
<1> DEFINE R == 0 .. 255
<1>1. s \in Seq(R) /\ R \subseteq Memory
  BY DEF Memory
<1> HIDE DEF R
<1> QED BY <1>1

\* What the walk finds at p if it points at item it.
Lies(it, mem, p) == \A i \in 1 .. Len(Encode(it)) : mem[p + i - 1] = Encode(it)[i]

\* The token tells which kind of item it is, damage too.
LEMMA ItemKinds ==
  ASSUME NEW it, IsItem(it)
  PROVE  /\ it.token \in {0, 1, 2, 3, 4, 9} /\ IsWord(it.token)
         /\ it.token = 0 <=> it = Damage
         /\ it.token = 1 => it = Begin(it.name) /\ IsName(it.name)
         /\ it.token = 2 => it = EndNode
         /\ it.token = 3 => /\ it = Prop(it.name, it.data) /\ it.name \in Range(PropNames)
                            /\ it.data \in Seq(0 .. 255) /\ IsWord(Len(it.data))
         /\ it.token = 4 => it = Nop
         /\ it.token = 9 <=> it = End
<1>1. \/ it = Begin(it.name) /\ IsName(it.name) /\ it.token = 1
      \/ /\ it = Prop(it.name, it.data) /\ it.name \in Range(PropNames)
         /\ it.data \in Seq(0 .. 255) /\ IsWord(Len(it.data)) /\ it.token = 3
      \/ it = EndNode /\ it.token = 2
      \/ it = Nop /\ it.token = 4
      \/ it = End /\ it.token = 9
      \/ it = Damage /\ it.token = 0
  BY TokenValues DEF IsItem, Begin, Prop, EndNode, Nop, End, Damage
<1>2. End.token = 9 /\ Damage.token = 0
  BY TokenValues DEF End, Damage
<1>3. it.token \in {0, 1, 2, 3, 4, 9}
  BY <1>1
<1>4. IsWord(it.token)
  BY <1>3, SmallWord
<1> QED BY <1>1, <1>2, <1>3, <1>4

LEMMA SingleBytes ==
  ASSUME NEW it, IsItem(it), it.token \in {0, 2, 4, 9}
  PROVE  Encode(it) = BigEndian(it.token) \o <<>>
<1>1. it.token # Tokens.begin /\ it.token # Tokens.prop
  BY TokenValues
<1> QED BY <1>1 DEF Encode

\* An item begins with its token.
LEMMA EncodeItem ==
  ASSUME NEW it, IsItem(it)
  PROVE  /\ Encode(it) \in Seq(Memory) /\ Len(Encode(it)) \in Nat /\ Len(Encode(it)) >= 4
         /\ \A i \in 1 .. 4 : Encode(it)[i] = BigEndian(it.token)[i]
         /\ it.token \in {0, 2, 4, 9} => Len(Encode(it)) = 4
<1>1. BigEndian(it.token) \in Seq(Memory) /\ Len(BigEndian(it.token)) = 4
  BY ItemKinds, FourBytes
<1> DEFINE Rest(r) == r \in Seq(Memory) /\ Encode(it) = BigEndian(it.token) \o r
<1>2. \E r : Rest(r)
  <2>1. CASE it.token = 1
    <3>1. Append(it.name, NUL) \in Seq(Memory)
      <4>1. it.name \in Seq(Nat)
        BY <2>1, ItemKinds DEF IsName
      <4>2. it.name \in Seq(Memory) /\ NUL \in Memory
        BY <4>1 DEF Memory
      <4> QED BY <4>2
    <3>2. Padded(Append(it.name, NUL)) \in Seq(Memory)
      BY <3>1, PaddedTo
    <3>3. Encode(it) = BigEndian(it.token) \o Padded(Append(it.name, NUL))
      BY <2>1, TokenValues DEF Encode
    <3> QED BY <3>2, <3>3
  <2>2. CASE it.token = 3
    <3>1. it.data \in Seq(Memory) /\ IsWord(Len(it.data)) /\ IsWord(NameOff(it.name))
      <4>1. it.data \in Seq(0 .. 255) /\ IsWord(Len(it.data)) /\ it.name \in Range(PropNames)
        BY <2>2, ItemKinds
      <4>2. it.data \in Seq(Memory)
        BY <4>1, Bytewise
      <4> QED BY <4>1, <4>2, NameAt
    <3> DEFINE u == BigEndian(Len(it.data))
               v == BigEndian(NameOff(it.name))
               z == Padded(it.data)
    <3>2. u \in Seq(Memory) /\ v \in Seq(Memory) /\ z \in Seq(Memory)
      BY <3>1, FourBytes, PaddedTo
    <3>3. Encode(it) = BigEndian(it.token) \o (u \o v \o z)
      BY <2>2, TokenValues DEF Encode
    <3> HIDE DEF u, v, z
    <3>4. u \o v \o z \in Seq(Memory)
      BY <3>2
    <3> QED BY <3>3, <3>4
  <2>3. CASE it.token \in {0, 2, 4, 9}
    <3>1. <<>> \in Seq(Memory)
      OBVIOUS
    <3> QED BY <2>3, <3>1, SingleBytes
  <2> QED BY <2>1, <2>2, <2>3, ItemKinds
<1>3. PICK r : Rest(r)
  BY <1>2
<1>4. /\ Encode(it) \in Seq(Memory) /\ Len(Encode(it)) = 4 + Len(r) /\ Len(r) \in Nat
      /\ \A i \in 1 .. 4 : Encode(it)[i] = BigEndian(it.token)[i]
  <2> DEFINE u == BigEndian(it.token)
             e == Encode(it)
  <2>1. u \in Seq(Memory) /\ Len(u) = 4 /\ r \in Seq(Memory) /\ e = u \o r
    BY <1>1, <1>3
  <2> HIDE DEF u, e, Rest
  <2>2. Joint(e, u, r, Memory)
    BY <2>1, Behind
  <2>3. Len(r) \in Nat
    BY <2>1
  <2> QED BY <2>1, <2>2, <2>3 DEF u, e, Joint
<1>5. ASSUME it.token \in {0, 2, 4, 9} PROVE Len(Encode(it)) = 4
  <2>1. Encode(it) = BigEndian(it.token) \o <<>>
    BY <1>5, SingleBytes
  <2> QED BY <2>1, <1>1
<1>6. Len(Encode(it)) \in Nat /\ Len(Encode(it)) >= 4
  <2> DEFINE k == Len(r)
  <2>1. k \in Nat /\ Len(Encode(it)) = 4 + k
    BY <1>4
  <2> HIDE DEF k
  <2> QED BY <2>1
<1> QED BY <1>4, <1>5, <1>6

\* The name of a node, and how much of it the walk goes over.
LEMMA NodeBytes ==
  ASSUME NEW it, IsItem(it), it.token = 1, NEW mem, NEW p \in Int, Lies(it, mem, p)
  PROVE  /\ StringAt(mem, p + 4) = it.name /\ Strlen(mem, p + 4) \in Nat
         /\ 4 + AlignUp(Strlen(mem, p + 4), 4) = Len(Encode(it))
<1> DEFINE n == it.name
           s == Append(n, NUL)
           u == BigEndian(1)
           z == Padded(s)
           e == Encode(it)
           k == Len(n)
<1>1. IsName(n) /\ n \in Seq(Nat) /\ k < MaxString /\ (\A i \in 1 .. k : n[i] # NUL) /\ k \in Nat
  <2>1. IsName(n)
    BY ItemKinds
  <2>2. n \in Seq(Nat) /\ Len(n) < MaxString /\ NUL \notin Range(n)
    BY <2>1 DEF IsName
  <2>3. \A i \in 1 .. Len(n) : n[i] # NUL
    <3>1. \A i \in DOMAIN n : n[i] \in Range(n)
      BY DEF Range
    <3> QED BY <2>2, <3>1
  <2> QED BY <2>1, <2>2, <2>3
<1>2. e = u \o z
  BY TokenValues DEF Encode
<1> HIDE DEF n
<1>3. s \in Seq(Memory) /\ Len(s) = k + 1 /\ (\A i \in 1 .. k : s[i] = n[i]) /\ s[k + 1] = NUL
  <2>1. n \in Seq(Memory) /\ NUL \in Memory
    BY <1>1 DEF Memory
  <2> QED BY <2>1
<1>4. u \in Seq(Memory) /\ Len(u) = 4
  BY SmallWord, FourBytes
<1> HIDE DEF s, u
<1>5. z \in Seq(Memory) /\ Len(z) = AlignUp(Len(s), 4) /\ \A i \in 1 .. Len(s) : z[i] = s[i]
  BY <1>3, PaddedTo
<1> HIDE DEF z
<1>6. Len(e) = Len(u) + Len(z) /\ \A i \in 1 .. Len(z) : e[Len(u) + i] = z[i]
  <2>1. Joint(e, u, z, Memory)
    BY <1>2, <1>4, <1>5, Behind
  <2> QED BY <2>1 DEF Joint
<1> HIDE DEF k, e
<1>7. AlignUp(k + 1, 4) \in Nat /\ AlignUp(k + 1, 4) >= k + 1 /\ Len(z) = AlignUp(k + 1, 4)
  BY <1>1, <1>3, <1>5, Up4
<1>8. Len(e) = 4 + Len(z)
  BY <1>4, <1>6
<1>9. \A i \in 1 .. Len(e) : mem[p + i - 1] = e[i]
  BY DEF Lies, e
<1>10. ASSUME NEW i \in 1 .. k + 1 PROVE mem[(p + 4) + i - 1] = s[i]
  <2>1. i \in 1 .. Len(z) /\ i \in 1 .. Len(s)
    BY <1>1, <1>3, <1>7
  <2>2. 4 + i \in 1 .. Len(e) /\ p + (4 + i) - 1 = (p + 4) + i - 1
    BY <1>7, <1>8, <2>1
  <2>3. e[4 + i] = z[i] /\ z[i] = s[i]
    BY <2>1, <1>4, <1>5, <1>6
  <2>4. mem[p + (4 + i) - 1] = e[4 + i]
    BY <2>2, <1>9
  <2> QED BY <2>2, <2>3, <2>4
<1>11. Strlen(mem, p + 4) = k + 1 /\ StringAt(mem, p + 4) = n
  <2>1. \A i \in 1 .. k : mem[(p + 4) + i - 1] = n[i]
    BY <1>1, <1>3, <1>10
  <2>2. mem[(p + 4) + k] = NUL
    <3>1. k + 1 \in 1 .. k + 1 /\ (p + 4) + (k + 1) - 1 = (p + 4) + k
      BY <1>1
    <3> QED BY <3>1, <1>3, <1>10
  <2>3. p + 4 \in Int
    OBVIOUS
  <2> QED BY <2>1, <2>2, <2>3, <1>1, InMemory DEF k
<1>12. k + 1 \in Nat
  BY <1>1
<1> QED BY <1>7, <1>8, <1>11, <1>12 DEF e, n

\* Length, name and value of a property.
LEMMA PropBytes ==
  ASSUME NEW it, IsItem(it), it.token = 3, NEW mem, NEW p \in Int, Lies(it, mem, p)
  PROVE  /\ Word(mem, p + 4) = Len(it.data) /\ Word(mem, p + 8) = NameOff(it.name)
         /\ [i \in 1 .. Len(it.data) |-> mem[p + 11 + i]] = it.data
         /\ 12 + AlignUp(Len(it.data), 4) = Len(Encode(it))
<1> DEFINE d == it.data
           o == BigEndian(3)
           u == BigEndian(Len(d))
           v == BigEndian(NameOff(it.name))
           z == Padded(d)
           x == u \o v
           y == x \o z
           e == Encode(it)
           k == Len(d)
<1>1. /\ d \in Seq(0 .. 255) /\ d \in Seq(Memory) /\ IsWord(k) /\ k \in Nat
      /\ IsWord(NameOff(it.name))
  <2>1. d \in Seq(0 .. 255) /\ IsWord(Len(d)) /\ it.name \in Range(PropNames)
    BY ItemKinds
  <2>2. d \in Seq(Memory)
    BY <2>1, Bytewise
  <2>3. IsWord(NameOff(it.name))
    BY <2>1, NameAt
  <2>4. Len(d) \in Nat
    BY <2>1
  <2> QED BY <2>1, <2>2, <2>3, <2>4
<1>2. e = o \o y
  BY TokenValues DEF Encode
<1>3. /\ o \in Seq(Memory) /\ Len(o) = 4 /\ u \in Seq(Memory) /\ Len(u) = 4
      /\ v \in Seq(Memory) /\ Len(v) = 4
  BY <1>1, SmallWord, FourBytes
<1>4. z \in Seq(Memory) /\ Len(z) = AlignUp(k, 4) /\ \A i \in 1 .. k : z[i] = d[i]
  BY <1>1, PaddedTo
<1>5. AlignUp(k, 4) \in Nat /\ AlignUp(k, 4) >= k
  BY <1>1, Up4
<1> HIDE DEF o, u, v, z, d
<1>6. /\ x \in Seq(Memory) /\ Len(x) = 8
      /\ (\A i \in 1 .. 4 : x[i] = u[i]) /\ \A i \in 1 .. 4 : x[4 + i] = v[i]
  <2>1. Joint(x, u, v, Memory)
    BY <1>3, Behind
  <2> HIDE DEF x
  <2> QED BY <2>1, <1>3 DEF Joint
<1> HIDE DEF x
<1>7. /\ y \in Seq(Memory) /\ Len(y) = 8 + Len(z)
      /\ (\A i \in 1 .. 8 : y[i] = x[i]) /\ \A i \in 1 .. Len(z) : y[8 + i] = z[i]
  <2>1. Joint(y, x, z, Memory)
    BY <1>4, <1>6, Behind
  <2> HIDE DEF y
  <2> QED BY <2>1, <1>6 DEF Joint
<1> HIDE DEF y
<1>8. Len(e) = 4 + Len(y) /\ \A i \in 1 .. Len(y) : e[4 + i] = y[i]
  <2>1. Joint(e, o, y, Memory)
    BY <1>2, <1>3, <1>7, Behind
  <2> HIDE DEF e
  <2> QED BY <2>1, <1>3 DEF Joint
<1>9. \A i \in 1 .. Len(e) : mem[p + i - 1] = e[i]
  BY DEF Lies
<1> HIDE DEF e, k
<1>10. Len(z) \in Nat /\ Len(y) = 8 + Len(z) /\ Len(e) = 12 + Len(z) /\ Len(z) >= k
  BY <1>1, <1>4, <1>5, <1>7, <1>8
<1>11. ASSUME NEW i \in 1 .. 8 + Len(z) PROVE mem[(p + 4) + i - 1] = y[i]
  <2>1. 4 + i \in 1 .. Len(e) /\ p + (4 + i) - 1 = (p + 4) + i - 1 /\ i \in 1 .. Len(y)
    BY <1>10
  <2>2. mem[p + (4 + i) - 1] = e[4 + i] /\ e[4 + i] = y[i]
    BY <2>1, <1>8, <1>9
  <2> QED BY <2>1, <2>2
<1>12. Word(mem, p + 4) = k
  <2>1. ASSUME NEW i \in 1 .. 4 PROVE mem[(p + 4) + i - 1] = u[i]
    <3>1. i \in 1 .. 8 + Len(z) /\ i \in 1 .. 8
      BY <1>10
    <3> QED BY <3>1, <1>6, <1>7, <1>11
  <2>2. p + 4 \in Int
    OBVIOUS
  <2> QED BY <2>1, <2>2, <1>1, WordOf DEF u, k
<1>13. Word(mem, p + 8) = NameOff(it.name)
  <2>1. ASSUME NEW i \in 1 .. 4 PROVE mem[(p + 8) + i - 1] = v[i]
    <3>1. 4 + i \in 1 .. 8 + Len(z) /\ 4 + i \in 1 .. 8 /\ (p + 4) + (4 + i) - 1 = (p + 8) + i - 1
      BY <1>10
    <3>2. mem[(p + 4) + (4 + i) - 1] = y[4 + i] /\ y[4 + i] = x[4 + i] /\ x[4 + i] = v[i]
      BY <3>1, <1>6, <1>7, <1>11
    <3> QED BY <3>1, <3>2
  <2>2. p + 8 \in Int
    OBVIOUS
  <2> QED BY <2>1, <2>2, <1>1, WordOf DEF v
<1>14. ASSUME NEW i \in 1 .. k PROVE mem[p + 11 + i] = d[i]
  <2>1. 8 + i \in 1 .. 8 + Len(z) /\ (p + 4) + (8 + i) - 1 = p + 11 + i /\ i \in 1 .. Len(z)
    BY <1>1, <1>10
  <2>2. mem[(p + 4) + (8 + i) - 1] = y[8 + i] /\ y[8 + i] = z[i] /\ z[i] = d[i]
    BY <2>1, <1>4, <1>7, <1>11
  <2> QED BY <2>1, <2>2
<1>15. [i \in 1 .. k |-> mem[p + 11 + i]] = d
  <2>1. d = [i \in 1 .. k |-> d[i]]
    BY <1>1 DEF k
  <2>2. [i \in 1 .. k |-> mem[p + 11 + i]] = [i \in 1 .. k |-> d[i]]
    BY <1>14
  <2> QED BY <2>1, <2>2
<1>16. Len(e) = 12 + AlignUp(k, 4)
  BY <1>4, <1>10
<1> QED BY <1>12, <1>13, <1>15, <1>16 DEF d, e, k

----------------------------------------------------------------------------
(* The structure block *)

Codes(t) == [i \in DOMAIN t |-> Encode(t[i])]

\* Where item k of the tree begins.
At(t, k) == Before(Codes(t), k)

\* What TreeAssumption says of one tree.
LEMMA TreeOf ==
  ASSUME NEW b \in Blobs
  PROVE  /\ b.tree \in Seq([token : Nat, name : Seq(Nat), data : Seq(Nat)])
         /\ IsTree(b.tree) /\ b.magic \in BOOLEAN
         /\ Len(b.tree) \in Nat \ {0} /\ DOMAIN b.tree = 1 .. Len(b.tree)
         /\ \A i \in 1 .. Len(b.tree) : IsItem(b.tree[i]) /\ (b.tree[i] = End <=> i = Len(b.tree))
<1>1. /\ b.tree \in Seq([token : Nat, name : Seq(Nat), data : Seq(Nat)])
      /\ IsTree(b.tree) /\ b.magic \in BOOLEAN
  BY TreeAssumption
<1> DEFINE t == b.tree
<1>2. t \in Seq([token : Nat, name : Seq(Nat), data : Seq(Nat)]) /\ t # <<>>
      /\ \A i \in DOMAIN t : IsItem(t[i]) /\ (t[i] = End <=> i = Len(t))
  BY <1>1 DEF IsTree
<1> HIDE DEF t
<1>3. Len(t) \in Nat \ {0} /\ DOMAIN t = 1 .. Len(t)
  BY <1>2
<1> QED BY <1>1, <1>2, <1>3 DEF t

\* The structure block holds each item where the ones before it end.
LEMMA Struct ==
  ASSUME NEW b \in Blobs, NEW k \in 1 .. Len(b.tree)
  PROVE  /\ At(b.tree, k) \in Nat /\ At(b.tree, 1) = 0
         /\ At(b.tree, k + 1) = At(b.tree, k) + Len(Encode(b.tree[k]))
         /\ Lies(b.tree[k], Flatten(b).struct, At(b.tree, k))
<1> DEFINE t == b.tree
           c == Codes(t)
           s == FlattenSeq(c)
           p == At(t, k)
           mem == [a \in 0 .. Len(s) - 1 |-> s[a + 1]]
           e == Encode(t[k])
<1>1. /\ Len(t) \in Nat /\ DOMAIN t = 1 .. Len(t) /\ k \in 1 .. Len(t)
      /\ \A i \in 1 .. Len(t) : IsItem(t[i])
  BY TreeOf
<1>2. Flatten(b).struct = mem
  BY DEF Flatten, Codes
<1> HIDE DEF t
<1>3. c \in Seq(Seq(Memory)) /\ Len(c) = Len(t)
  <2>1. \A i \in 1 .. Len(t) : Encode(t[i]) \in Seq(Memory)
    BY <1>1, EncodeItem
  <2> QED BY <2>1, <1>1 DEF Codes
<1>4. c[k] = e
  BY <1>1 DEF Codes
<1> HIDE DEF c, e, mem
<1>5. /\ FlattenSeq(c) \in Seq(Memory)
      /\ \A m \in 1 .. Len(c) :
           /\ Before(c, m) \in Nat /\ c[m] \in Seq(Memory)
           /\ Before(c, m + 1) = Before(c, m) + Len(c[m])
           /\ Before(c, m) + Len(c[m]) <= Len(FlattenSeq(c))
           /\ \A j \in 1 .. Len(c[m]) : FlattenSeq(c)[Before(c, m) + j] = c[m][j]
      /\ Before(c, 1) = 0
  BY <1>3, FlatParts
<1>6. /\ p \in Nat /\ e \in Seq(Memory) /\ Before(c, k + 1) = p + Len(e) /\ p + Len(e) <= Len(s)
      /\ \A j \in 1 .. Len(e) : s[p + j] = e[j]
  BY <1>1, <1>3, <1>4, <1>5 DEF At, c
<1>7. At(t, 1) = 0 /\ At(t, k + 1) = p + Len(e)
  BY <1>5, <1>6 DEF At, c
<1>8. Len(s) \in Nat /\ Len(e) \in Nat
  BY <1>5, <1>6
<1> HIDE DEF p, s
<1>9. ASSUME NEW i \in 1 .. Len(e) PROVE mem[p + i - 1] = e[i]
  <2>1. p + i - 1 \in 0 .. Len(s) - 1 /\ (p + i - 1) + 1 = p + i
    BY <1>6, <1>8
  <2>2. mem[p + i - 1] = s[p + i]
    BY <2>1 DEF mem
  <2> QED BY <2>2, <1>6
<1>10. Lies(t[k], mem, p)
  BY <1>9 DEF Lies, e
<1> QED BY <1>2, <1>6, <1>7, <1>10 DEF t, p, e

----------------------------------------------------------------------------
(* The walk *)

\* The item that the walk has come to.
Item == blob.tree[Len(calls) + 1]

\* How the walk stands.
TreeInv ==
  /\ \E b \in Blobs : blob = Flatten(b)
  /\ cb \in {"none", "get_cpio_addr", "print_dtb"} /\ cur \in Nat
  /\ Len(calls) \in 0 .. Len(blob.tree)
  /\ calls = [i \in 1 .. Len(calls) |-> blob.tree[i]]
  /\ cb # "none" => Len(calls) < Len(blob.tree) /\ cur = At(blob.tree, Len(calls) + 1)
  /\ cb = "none" /\ calls # <<>> /\ Sound => Len(calls) = Len(blob.tree)

\* What a turn of parse_struct does to the item.
Handled ==
  \/ /\ Item # Damage /\ Callback(Item)
     /\ cur' = cur + Len(Encode(Item)) /\ cb' = IF Item = End THEN "none" ELSE cb
  \/ Item = Damage /\ cb' = "none" /\ UNCHANGED <<cur, calls, space, cpio_addr>>

LEMMA BlobIs ==
  ASSUME NEW b \in Blobs, blob = Flatten(b)
  PROVE  /\ blob.tree = b.tree /\ blob.magic = b.magic /\ blob.struct = Flatten(b).struct
         /\ blob.strings = [a \in 0 .. Len(Strings) - 1 |-> Strings[a + 1]]
BY DEF Flatten

\* While a traversal runs, the item it has come to lies at cur_ptr.
LEMMA AtItem ==
  ASSUME TreeInv, cb # "none"
  PROVE  /\ Len(calls) \in Nat /\ Len(calls) + 1 \in 1 .. Len(blob.tree)
         /\ IsItem(Item) /\ (Item = End <=> Len(calls) + 1 = Len(blob.tree))
         /\ Lies(Item, blob.struct, cur) /\ cur \in Nat
         /\ At(blob.tree, Len(calls) + 2) = cur + Len(Encode(Item))
         /\ Len(Encode(Item)) \in Nat
<1> DEFINE k == Len(calls)
<1>1. PICK b \in Blobs : blob = Flatten(b)
  BY DEF TreeInv
<1>2. Len(b.tree) \in Nat /\ \A i \in 1 .. Len(b.tree) : IsItem(b.tree[i]) /\ (b.tree[i] = End <=> i = Len(b.tree))
  BY TreeOf
<1>3. k \in 0 .. Len(b.tree) /\ k < Len(b.tree) /\ cur = At(b.tree, k + 1) /\ cur \in Nat
  BY <1>1, BlobIs DEF TreeInv
<1> HIDE DEF k
<1>4. k \in Nat /\ k + 1 \in 1 .. Len(b.tree) /\ (k + 1) + 1 = k + 2
  BY <1>2, <1>3
<1>5. Item = b.tree[k + 1]
  BY <1>1, BlobIs DEF Item, k
<1>6. /\ At(b.tree, (k + 1) + 1) = At(b.tree, k + 1) + Len(Encode(b.tree[k + 1]))
      /\ Lies(b.tree[k + 1], Flatten(b).struct, At(b.tree, k + 1))
  BY <1>4, Struct
<1>7. IsItem(Item) /\ (Item = End <=> k + 1 = Len(b.tree)) /\ Len(Encode(Item)) \in Nat
  BY <1>2, <1>4, <1>5, EncodeItem
<1> QED BY <1>1, <1>3, <1>4, <1>5, <1>6, <1>7, BlobIs DEF k

\* The word at cur_ptr is the token of that item.
LEMMA TokenIs ==
  ASSUME TreeInv, cb # "none"
  PROVE  Token = Item.token
<1>1. IsItem(Item) /\ Lies(Item, blob.struct, cur) /\ cur \in Nat
  BY AtItem
<1>2. IsWord(Item.token) /\ Len(Encode(Item)) \in Nat /\ Len(Encode(Item)) >= 4
      /\ \A i \in 1 .. 4 : Encode(Item)[i] = BigEndian(Item.token)[i]
  BY <1>1, ItemKinds, EncodeItem
<1>3. \A i \in 1 .. 4 : blob.struct[cur + i - 1] = BigEndian(Item.token)[i]
  <2>1. ASSUME NEW i \in 1 .. 4 PROVE blob.struct[cur + i - 1] = BigEndian(Item.token)[i]
    <3>1. i \in 1 .. Len(Encode(Item))
      BY <1>2
    <3> QED BY <3>1, <1>1, <1>2 DEF Lies
  <2> QED BY <2>1
<1>4. cur \in Int
  BY <1>1
<1> QED BY <1>2, <1>3, <1>4, WordOf DEF Token

\* One turn of parse_struct hands over that item and goes to the next.
LEMMA WalkHandles ==
  ASSUME TreeInv, WalkStep
  PROVE  cb # "none" /\ blob' = blob /\ Handled
<1>1. cb # "none"
  BY DEF WalkStep, BeginNode, Property, Single, LastToken, GiveUp, More
<1>2. /\ IsItem(Item) /\ Lies(Item, blob.struct, cur) /\ cur \in Nat /\ cur \in Int
  BY <1>1, AtItem
<1>3. Token = Item.token
  BY <1>1, TokenIs
<1>4. /\ Item.token \in {0, 1, 2, 3, 4, 9}
      /\ Item.token = 0 <=> Item = Damage
      /\ Item.token = 1 => Item = Begin(Item.name)
      /\ Item.token = 2 => Item = EndNode
      /\ Item.token = 3 => Item = Prop(Item.name, Item.data) /\ Item.name \in Range(PropNames)
      /\ Item.token = 4 => Item = Nop
      /\ Item.token = 9 <=> Item = End
  BY <1>2, ItemKinds
<1>5. CASE BeginNode
  <2>1. Item.token = 1
    BY <1>3, <1>5, TokenValues DEF BeginNode
  <2>2. /\ StringAt(blob.struct, cur + 4) = Item.name
        /\ 4 + AlignUp(Strlen(blob.struct, cur + 4), 4) = Len(Encode(Item))
    BY <1>2, <2>1, NodeBytes
  <2>3. /\ Callback(Begin(Item.name)) /\ blob' = blob /\ cb' = cb
        /\ cur' = cur + 4 + AlignUp(Strlen(blob.struct, cur + 4), 4)
    BY <1>5, <2>2 DEF BeginNode
  <2>4. AlignUp(Strlen(blob.struct, cur + 4), 4) \in Int
    <3>1. Strlen(blob.struct, cur + 4) \in Nat
      BY <1>2, <2>1, NodeBytes
    <3> QED BY <3>1, Up4
  <2>5. cur' = cur + Len(Encode(Item))
    <3> DEFINE x == AlignUp(Strlen(blob.struct, cur + 4), 4)
    <3>1. cur' = cur + 4 + x /\ 4 + x = Len(Encode(Item)) /\ x \in Int
      BY <2>2, <2>3, <2>4
    <3> HIDE DEF x
    <3> QED BY <3>1, <1>2
  <2> QED BY <1>1, <1>4, <2>1, <2>3, <2>5 DEF Handled
<1>6. CASE Property
  <2>1. Item.token = 3
    BY <1>3, <1>6, TokenValues DEF Property
  <2>2. /\ Word(blob.struct, cur + 4) = Len(Item.data)
        /\ Word(blob.struct, cur + 8) = NameOff(Item.name)
        /\ [i \in 1 .. Len(Item.data) |-> blob.struct[cur + 11 + i]] = Item.data
        /\ 12 + AlignUp(Len(Item.data), 4) = Len(Encode(Item))
    BY <1>2, <2>1, PropBytes
  <2>3. StringAt(blob.strings, NameOff(Item.name)) = Item.name
    <3>1. PICK b \in Blobs : blob = Flatten(b)
      BY DEF TreeInv
    <3>2. StringAt([a \in 0 .. Len(Strings) - 1 |-> Strings[a + 1]], NameOff(Item.name)) = Item.name
      BY <2>1, <1>4, NameAt
    <3> QED BY <3>1, <3>2, BlobIs
  <2>4. /\ Callback(Prop(StringAt(blob.strings, NameOff(Item.name)),
                         [i \in 1 .. Len(Item.data) |-> blob.struct[cur + 11 + i]]))
        /\ cur' = cur + 12 + Skip(Len(Item.data)) /\ blob' = blob /\ cb' = cb
    BY <1>6, <2>2 DEF Property
  <2>5. Callback(Item)
    BY <2>1, <2>2, <2>3, <2>4, <1>4
  <2>6. cur' = cur + Len(Encode(Item))
    <3> DEFINE x == AlignUp(Len(Item.data), 4)
    <3>1. x \in Int
      <4>1. Item.data \in Seq(0 .. 255)
        BY <1>2, <2>1, ItemKinds
      <4>2. Len(Item.data) \in Nat
        BY <4>1
      <4>3. AlignUp(Len(Item.data), 4) \in Nat
        BY <4>2, Up4
      <4> QED BY <4>3
    <3>2. cur' = cur + 12 + x /\ 12 + x = Len(Encode(Item))
      BY <2>2, <2>4 DEF Skip
    <3> HIDE DEF x
    <3> QED BY <3>1, <3>2, <1>2
  <2> QED BY <1>1, <1>4, <2>1, <2>4, <2>5, <2>6 DEF Handled
<1>7. CASE Single
  <2>1. \/ Item.token = 2 /\ Item = EndNode /\ Callback(EndNode)
        \/ Item.token = 4 /\ Item = Nop /\ Callback(Nop)
    BY <1>3, <1>4, <1>7, TokenValues DEF Single
  <2>2. cur' = cur + 4 /\ blob' = blob /\ cb' = cb
    BY <1>7 DEF Single
  <2>3. Len(Encode(Item)) = 4
    BY <1>2, <2>1, EncodeItem
  <2> QED BY <1>1, <1>4, <2>1, <2>2, <2>3 DEF Handled
<1>8. CASE LastToken
  <2>1. Item.token = 9 /\ Item = End /\ Callback(End)
    BY <1>3, <1>4, <1>8, TokenValues DEF LastToken
  <2>2. cur' = cur + 4 /\ blob' = blob /\ cb' = "none"
    BY <1>8 DEF LastToken
  <2>3. Len(Encode(Item)) = 4
    BY <1>2, <2>1, EncodeItem
  <2> QED BY <1>1, <1>4, <2>1, <2>2, <2>3 DEF Handled
<1>9. CASE GiveUp
  <2>1. Item = Damage
    <3>1. Item.token \notin {1, 2, 3, 4, 9}
      BY <1>3, <1>9, TokenValues DEF GiveUp
    <3> QED BY <3>1, <1>4
  <2> QED BY <1>1, <1>9, <2>1 DEF Handled, GiveUp
<1> QED BY <1>5, <1>6, <1>7, <1>8, <1>9 DEF WalkStep

\* No traversal has run at the start.
LEMMA TreeStarts ==
  ASSUME TreeInit
  PROVE  TreeInv
<1>1. PICK b \in Blobs : blob = Flatten(b)
  BY DEF TreeInit
<1>2. Len(b.tree) \in Nat \ {0} /\ blob.tree = b.tree
  BY <1>1, TreeOf, BlobIs
<1>3. cb = "none" /\ cur = 0 /\ calls = <<>>
  BY DEF TreeInit
<1>4. Len(calls) = 0 /\ calls = [i \in 1 .. 0 |-> blob.tree[i]]
  BY <1>3
<1> QED BY <1>1, <1>2, <1>3, <1>4 DEF TreeInv

\* fdt_traverse starts with the first item.
LEMMA TraverseKeeps ==
  ASSUME TreeInv, NEW c \in {"get_cpio_addr", "print_dtb"}, Traverse(c)
  PROVE  TreeInv'
<1>1. PICK b \in Blobs : blob = Flatten(b)
  BY DEF TreeInv
<1>2. Len(b.tree) \in Nat \ {0} /\ blob.tree = b.tree
  BY <1>1, TreeOf, BlobIs
<1>3. At(b.tree, 1) = 0
  <2>1. 1 \in 1 .. Len(b.tree)
    BY <1>2
  <2> QED BY <2>1, Struct
<1>4. cb' \in {"none", c} /\ cur' = 0 /\ calls' = <<>> /\ blob' = blob
  BY DEF Traverse
<1>5. Len(calls') = 0 /\ calls' = [i \in 1 .. 0 |-> blob'.tree[i]]
  BY <1>4
<1>6. Len(calls') + 1 = 1
  BY <1>5
<1> QED BY <1>1, <1>2, <1>3, <1>4, <1>5, <1>6 DEF TreeInv

\* The walk goes on from item to item.
LEMMA WalkKeeps ==
  ASSUME TreeInv, WalkStep
  PROVE  TreeInv'
<1> DEFINE k == Len(calls)
           t == blob.tree
<1>1. cb # "none" /\ blob' = blob /\ Handled
  BY WalkHandles
<1>2. /\ k \in Nat /\ k + 1 \in 1 .. Len(t) /\ (Item = End <=> k + 1 = Len(t))
      /\ cur \in Nat /\ At(t, k + 2) = cur + Len(Encode(Item)) /\ Len(Encode(Item)) \in Nat
  BY <1>1, AtItem
<1>3. PICK b \in Blobs : blob = Flatten(b)
  BY DEF TreeInv
<1>4. Len(t) \in Nat /\ DOMAIN t = 1 .. Len(t)
  BY <1>3, TreeOf, BlobIs
<1>5. calls = [i \in 1 .. k |-> t[i]] /\ cb \in {"none", "get_cpio_addr", "print_dtb"}
  BY DEF TreeInv
<1>6. CASE Item # Damage /\ Callback(Item)
           /\ cur' = cur + Len(Encode(Item)) /\ cb' = IF Item = End THEN "none" ELSE cb
  <2>1. calls' = Append(calls, t[k + 1])
    BY <1>6 DEF Callback, Item
  <2>2. Len(calls') = k + 1 /\ calls' = [i \in 1 .. k + 1 |-> t[i]]
    <3> HIDE DEF k, t
    <3> DEFINE s == [i \in 1 .. k |-> t[i]]
    <3>1. Append(s, t[k + 1]) = [i \in 1 .. k + 1 |-> t[i]] /\ Len(Append(s, t[k + 1])) = k + 1
      <4>1. Len(s) = k
        BY <1>2
      <4>2. Append(s, t[k + 1]) = [i \in 1 .. Len(s) + 1 |-> IF i = Len(s) + 1 THEN t[k + 1] ELSE s[i]]
        BY <4>1, <1>2
      <4>3. \A i \in 1 .. k + 1 : (IF i = k + 1 THEN t[k + 1] ELSE s[i]) = t[i]
        BY <1>2
      <4>4. Append(s, t[k + 1]) = [i \in 1 .. k + 1 |-> t[i]]
        BY <4>1, <4>2, <4>3
      <4> QED BY <4>4, <1>2
    <3> QED BY <3>1, <2>1, <1>5
  <2>3. blob'.tree = t /\ Len(calls') + 1 = k + 2
    BY <1>1, <1>2, <2>2
  <2>4. cb' \in {"none", "get_cpio_addr", "print_dtb"} /\ cur' \in Nat
    BY <1>2, <1>5, <1>6
  <2>5. cb' # "none" => k + 1 < Len(t) /\ cur' = At(t, k + 2)
    BY <1>2, <1>4, <1>6
  <2>6. cb' = "none" => k + 1 = Len(t)
    BY <1>1, <1>2, <1>6
  <2>7. k + 1 \in 0 .. Len(t)
    <3> DEFINE n == Len(t)
    <3>1. n \in Nat /\ k + 1 \in 1 .. n
      BY <1>2, <1>4
    <3> HIDE DEF n, k
    <3>2. k + 1 \in 0 .. n
      BY <3>1
    <3> QED BY <3>2 DEF n
  <2> HIDE DEF k, t
  <2>8. calls' = [i \in 1 .. Len(calls') |-> blob'.tree[i]] /\ Len(calls') \in 0 .. Len(blob'.tree)
    BY <2>2, <2>3, <2>7
  <2>9. cb' # "none" => Len(calls') < Len(blob'.tree) /\ cur' = At(blob'.tree, Len(calls') + 1)
    BY <2>2, <2>3, <2>5
  <2>10. cb' = "none" => Len(calls') = Len(blob'.tree)
    BY <2>2, <2>3, <2>6
  <2>11. \E x \in Blobs : blob' = Flatten(x)
    BY <1>1, <1>3
  <2> QED BY <2>4, <2>8, <2>9, <2>10, <2>11 DEF TreeInv
<1>7. CASE Item = Damage /\ cb' = "none" /\ UNCHANGED <<cur, calls, space, cpio_addr>>
  <2>1. Damage \in Range(blob.tree)
    BY <1>2, <1>4, <1>7 DEF Range, Item
  <2>2. ~Sound'
    BY <1>1, <2>1 DEF Sound
  <2> QED BY <1>1, <1>7, <2>2 DEF TreeInv
<1> QED BY <1>1, <1>6, <1>7 DEF Handled

LEMMA TreeStays ==
  ASSUME TreeInv, UNCHANGED tree_vars
  PROVE  TreeInv'
BY DEF TreeInv, tree_vars, Sound

\* So the callback is called for the items in order.
LEMMA InvFollows ==
  ASSUME TreeInv
  PROVE  FollowsTree
<1> DEFINE k == Len(calls)
           t == blob.tree
<1>1. PICK b \in Blobs : blob = Flatten(b)
  BY DEF TreeInv
<1>2. t \in Seq([token : Nat, name : Seq(Nat), data : Seq(Nat)]) /\ Len(t) \in Nat
  BY <1>1, TreeOf, BlobIs
<1>3. k \in 0 .. Len(t) /\ calls = [i \in 1 .. k |-> t[i]] /\ (cb = "none" /\ calls # <<>> /\ Sound => k = Len(t))
  BY DEF TreeInv
<1>4. SubSeq(t, 1, k) = [i \in 1 .. k |-> t[i]]
  <2> HIDE DEF k, t
  <2>1. \A i \in 1 .. k : 1 + i - 1 = i
    BY <1>2, <1>3
  <2> QED BY <2>1, <1>2, <1>3
<1>5. SubSeq(calls, 1, k) = calls
  <2>1. calls = [i \in 1 .. k |-> calls[i]] /\ k \in Nat
    BY <1>2, <1>3
  <2> HIDE DEF k
  <2>2. \A i \in 1 .. k : 1 + i - 1 = i
    BY <2>1
  <2> QED BY <2>1, <2>2
<1>6. IsPrefix(calls, t)
  BY <1>2, <1>3, <1>4, <1>5 DEF IsPrefix
<1>7. t = [i \in 1 .. Len(t) |-> t[i]]
  BY <1>2
<1> QED BY <1>3, <1>6, <1>7 DEF FollowsTree

----------------------------------------------------------------------------
(* The indentation *)

\* How many of the first i items of t have token x.
Count(t, x, i) == Cardinality({j \in 1 .. i : t[j].token = x})

\* Counting goes up one item at a time.
LEMMA Counts ==
  ASSUME NEW t, NEW x, NEW i \in Nat
  PROVE  /\ Count(t, x, i) \in Nat /\ Count(t, x, 0) = 0
         /\ Count(t, x, i + 1) = Count(t, x, i) + IF t[i + 1].token = x THEN 1 ELSE 0
<1> DEFINE S(m) == {j \in 1 .. m : t[j].token = x}
<1>0. Count(t, x, i) = Cardinality(S(i)) /\ Count(t, x, i + 1) = Cardinality(S(i + 1))
  BY DEF Count
<1>1. ASSUME NEW m \in Nat PROVE IsFiniteSet(S(m))
  <2>1. IsFiniteSet(1 .. m)
    BY FS_Interval
  <2> QED BY <2>1, FS_Subset
<1>2. Count(t, x, i) \in Nat
  BY <1>1, FS_CardinalityType DEF Count
<1>3. Count(t, x, 0) = 0
  <2>1. S(0) = {}
    OBVIOUS
  <2> QED BY <2>1, FS_EmptySet DEF Count
<1>4. CASE t[i + 1].token = x
  <2>1. S(i + 1) = S(i) \cup {i + 1} /\ i + 1 \notin S(i)
    BY <1>4
  <2>2. Cardinality(S(i) \cup {i + 1}) = Cardinality(S(i)) + 1
    <3>1. IsFiniteSet(S(i))
      BY <1>1
    <3> HIDE DEF S
    <3> QED BY <3>1, <2>1, FS_AddElement
  <2>3. Count(t, x, i + 1) = Count(t, x, i) + 1
    BY <2>1, <2>2, <1>0, Zenon
  <2> QED BY <2>3, <1>2, <1>3, <1>4
<1>5. CASE t[i + 1].token # x
  <2>1. S(i + 1) = S(i)
    BY <1>5
  <2>2. Count(t, x, i + 1) = Count(t, x, i)
    BY <2>1, <1>0, Zenon
  <2>3. Count(t, x, i) + 0 = Count(t, x, i)
    BY <1>2
  <2> QED BY <2>2, <2>3, <1>2, <1>3, <1>5
<1> QED BY <1>2, <1>3, <1>4, <1>5

\* What an item does to the indentation.
Change(it) == IF it.token = 1 THEN 1 ELSE IF it.token = 2 THEN -1 ELSE 0

\* A node more is open behind a begin, one less behind an end.
LEMMA Opens ==
  ASSUME NEW t, NEW i \in Nat
  PROVE  /\ Opened(t, i) \in Int /\ Opened(t, 0) = 0
         /\ Opened(t, i + 1) = Opened(t, i) + Change(t[i + 1])
<1>1. \A m : Opened(t, m) = Count(t, 1, m) - Count(t, 2, m)
  BY TokenValues DEF Opened, Count
<1>2. PICK b \in Nat, c \in Int : b = Count(t, 1, i) /\ c = Count(t, 1, i + 1)
                               /\ c = b + IF t[i + 1].token = 1 THEN 1 ELSE 0
  BY Counts
<1>3. PICK e \in Nat, d \in Int : e = Count(t, 2, i) /\ d = Count(t, 2, i + 1)
                               /\ d = e + IF t[i + 1].token = 2 THEN 1 ELSE 0
  BY Counts
<1>4. Opened(t, i) = b - e /\ Opened(t, i + 1) = c - d
  BY <1>1, <1>2, <1>3
<1>5. Opened(t, 0) = 0
  <2>1. Count(t, 1, 0) = 0 /\ Count(t, 2, 0) = 0
    BY Counts
  <2> QED BY <1>1, <2>1
<1>6. c - d = (b - e) + Change(t[i + 1])
  BY <1>2, <1>3 DEF Change
<1> QED BY <1>4, <1>5, <1>6

\* print_dtb's indentation is never less than the depth, and the depth itself
\* unless the tree is damaged, which leaves too much behind.
SpaceInv ==
  /\ space \in Nat /\ IndentIsDepth
  /\ cb = "print_dtb" => space >= Depth(Len(calls))

LEMMA SpaceStarts ==
  ASSUME TreeInit
  PROVE  SpaceInv
BY DEF TreeInit, SpaceInv, IndentIsDepth

\* A traversal starts without indentation, or with what damage has left.
LEMMA TraverseIndents ==
  ASSUME TreeInv, SpaceInv, NEW c \in {"get_cpio_addr", "print_dtb"}, Traverse(c)
  PROVE  SpaceInv'
<1>1. /\ cb = "none" /\ cb' \in {"none", c} /\ calls' = <<>> /\ blob' = blob /\ space' = space
      /\ Sound' = Sound
  BY DEF Traverse, Sound
<1>2. Depth(Len(calls))' = 0
  <2>1. Opened(blob.tree, 0) = 0
    BY Opens
  <2> QED BY <1>1, <2>1 DEF Depth
<1>3. space \in Nat /\ (Sound => space = 0)
  BY <1>1 DEF SpaceInv, IndentIsDepth
<1> QED BY <1>1, <1>2, <1>3 DEF SpaceInv, IndentIsDepth

\* print_dtb indents by what each item changes.
LEMMA WalkIndents ==
  ASSUME TreeInv, SpaceInv, WalkStep
  PROVE  SpaceInv'
<1> DEFINE k == Len(calls)
           t == blob.tree
<1>1. cb # "none" /\ blob' = blob /\ Handled /\ TreeInv'
  BY WalkHandles, WalkKeeps
<1>2. /\ k \in Nat /\ k + 1 \in 1 .. Len(t) /\ (Item = End <=> k + 1 = Len(t)) /\ IsItem(Item)
  BY <1>1, AtItem
<1>3. /\ Len(t) \in Nat /\ DOMAIN t = 1 .. Len(t) /\ Opened(t, k + 1) >= 0
      /\ Sound => Opened(t, Len(t)) = 0
  <2>1. PICK b \in Blobs : blob = Flatten(b)
    BY DEF TreeInv
  <2>2. IsTree(t) /\ Len(t) \in Nat /\ DOMAIN t = 1 .. Len(t)
    BY <2>1, TreeOf, BlobIs
  <2>3. k + 1 \in DOMAIN t
    BY <1>2, <2>2
  <2> QED BY <2>2, <2>3 DEF IsTree, Sound
<1>4. Opened(t, k) \in Int /\ Opened(t, k + 1) \in Int /\ Opened(t, k + 1) = Opened(t, k) + Change(Item)
  BY <1>2, Opens DEF Item
<1>5. Sound' = Sound
  BY <1>1 DEF Sound
<1>6. Depth(Len(calls)) = Opened(t, k) /\ \A n : n = Len(calls') => Depth(Len(calls))' = Opened(t, n)
  BY <1>1 DEF Depth
<1>7. cb \in {"get_cpio_addr", "print_dtb"}
  BY <1>1 DEF TreeInv
<1>8. space \in Nat /\ (Sound => space = IF cb = "print_dtb" THEN Opened(t, k) ELSE 0)
      /\ (cb = "print_dtb" => space >= Opened(t, k))
  BY <1>6 DEF SpaceInv, IndentIsDepth
<1>9. CASE Item = Damage /\ cb' = "none" /\ UNCHANGED <<cur, calls, space, cpio_addr>>
  <2>1. Damage \in Range(t)
    BY <1>2, <1>3, <1>9 DEF Range, Item
  <2>2. ~Sound'
    BY <1>1, <2>1 DEF Sound
  <2> QED BY <1>8, <1>9, <2>2 DEF SpaceInv, IndentIsDepth
<1>10. CASE Item # Damage /\ Callback(Item)
            /\ cur' = cur + Len(Encode(Item)) /\ cb' = IF Item = End THEN "none" ELSE cb
  <2>1. Len(calls') = k + 1
    <3>1. calls' = Append(calls, Item) /\ calls = [i \in 1 .. k |-> t[i]]
      BY <1>10 DEF Callback, TreeInv
    <3> HIDE DEF k, t
    <3> DEFINE s == [i \in 1 .. k |-> t[i]]
    <3>2. Len(s) = k
      BY <1>2
    <3>3. Len(Append(s, Item)) = k + 1
      BY <3>2, <1>2
    <3> QED BY <3>1, <3>3
  <2>2. Depth(Len(calls))' = Opened(t, k + 1)
    BY <2>1, <1>6
  <2>3. CASE cb = "get_cpio_addr"
    <3>1. space' = space /\ cb' \in {"none", "get_cpio_addr"}
      BY <1>10, <2>3 DEF Callback, GetCpioAddr
    <3> QED BY <1>5, <1>8, <2>3, <3>1 DEF SpaceInv, IndentIsDepth
  <2>4. CASE cb = "print_dtb"
    <3>1. space' = space + Change(Item)
      BY <1>10, <2>4, TokenValues DEF Callback, PrintDtb, Indent, Change
    <3>2. PICK o \in Int, n \in Int : o = Opened(t, k) /\ n = Opened(t, k + 1) /\ n = o + Change(Item)
      BY <1>4
    <3>3. space >= o /\ n >= 0 /\ Change(Item) \in Int
      BY <1>3, <1>8, <2>4, <3>2 DEF Change
    <3>4. space' \in Nat /\ space' >= n /\ (Sound => space' = n)
      BY <1>8, <2>4, <3>1, <3>2, <3>3
    <3>5. CASE Item = End
      <4>1. cb' = "none" /\ (Sound => n = 0)
        BY <1>2, <1>3, <1>10, <3>2, <3>5
      <4> QED BY <4>1, <3>4, <1>5 DEF SpaceInv, IndentIsDepth
    <3>6. CASE Item # End
      <4>1. cb' = "print_dtb"
        BY <1>10, <2>4, <3>6
      <4> QED BY <4>1, <3>4, <3>2, <2>2, <1>5 DEF SpaceInv, IndentIsDepth
    <3> QED BY <3>5, <3>6
  <2> QED BY <1>7, <2>3, <2>4
<1> QED BY <1>1, <1>9, <1>10 DEF Handled

LEMMA SpaceStays ==
  ASSUME SpaceInv, UNCHANGED tree_vars
  PROVE  SpaceInv'
BY DEF SpaceInv, tree_vars, IndentIsDepth, Depth, Sound

----------------------------------------------------------------------------
(* The archive *)

\* What is archived, with the trailer.
All(s) == Append(s, [name |-> Trailer, size |-> 0])

\* A file that cpio can write.
Writable(x) ==
  x \in [name : Seq(Nat), size : Nat] /\ EightDigits(Len(x.name) + 1) /\ EightDigits(x.size)

\* What ArchiveAssumption says of one archive, and its trailer.
LEMMA AllOf ==
  ASSUME NEW s \in Archives
  PROVE  /\ s \in Seq([name : Seq(Nat), size : Nat]) /\ Len(s) \in 0 .. MaxMembers
         /\ All(s) \in Seq([name : Seq(Nat), size : Nat]) /\ Len(All(s)) = Len(s) + 1
         /\ \A i \in 1 .. Len(s) : All(s)[i] = s[i] /\ s[i].name # Trailer
         /\ All(s)[Len(s) + 1] = [name |-> Trailer, size |-> 0]
         /\ \A i \in 1 .. Len(s) + 1 : Writable(All(s)[i])
<1> DEFINE T == [name : Seq(Nat), size : Nat]
           e == [name |-> Trailer, size |-> 0]
           n == Len(s)
<1>1. /\ s \in Seq(T) /\ n <= MaxMembers /\ MaxMembers \in Nat
      /\ \A i \in 1 .. n : s[i].name # Trailer /\ EightDigits(Len(s[i].name) + 1) /\ EightDigits(s[i].size)
  BY ArchiveAssumption
<1>2. e \in T /\ Trailer \in Seq(Nat) /\ EightDigits(Len(Trailer) + 1)
  BY ArchiveAssumption
<1>3. EightDigits(0)
  BY SMT DEF EightDigits
<1>4. n \in Nat /\ \A i \in 1 .. n : s[i] \in T
  <2> HIDE DEF T
  <2> QED BY <1>1
<1>5. Append(s, e) \in Seq(T) /\ Len(Append(s, e)) = n + 1 /\ Append(s, e)[n + 1] = e
      /\ \A i \in 1 .. n : Append(s, e)[i] = s[i]
  <2> HIDE DEF T, e
  <2> QED BY <1>1, <1>2, <1>4
<1>6. e.name = Trailer /\ e.size = 0
  OBVIOUS
<1>7. ASSUME NEW i \in 1 .. n + 1 PROVE Writable(All(s)[i])
  <2>1. CASE i = n + 1
    <3>1. All(s)[i] = e
      BY <2>1, <1>5 DEF All
    <3> HIDE DEF e
    <3> QED BY <3>1, <1>2, <1>3, <1>6 DEF Writable
  <2>2. CASE i # n + 1
    <3>1. i \in 1 .. n
      BY <2>2, <1>4
    <3>2. All(s)[i] = s[i] /\ s[i] \in T
      BY <3>1, <1>4, <1>5 DEF All
    <3> QED BY <3>1, <3>2, <1>1 DEF Writable
  <2> QED BY <2>1, <2>2
<1>8. n \in 0 .. MaxMembers
  BY <1>1, <1>4
<1> QED BY <1>1, <1>5, <1>7, <1>8 DEF All

\* What a member takes: never less than a header.
LEMMA BytesOf ==
  ASSUME NEW x, Writable(x)
  PROVE  /\ Bytes(x) \in Nat /\ Bytes(x) >= 110
         /\ Bytes(x) = AlignUp(111 + Len(x.name), 4) + AlignUp(x.size, 4)
         /\ Pad4(HeaderSize + Len(x.name) + 1) = AlignUp(111 + Len(x.name), 4)
         /\ Pad4(x.size) = AlignUp(x.size, 4)
         /\ AlignUp(111 + Len(x.name), 4) \in Nat /\ AlignUp(x.size, 4) \in Nat
<1> DEFINE l == Len(x.name)
           k == 111 + l
<1>1. l \in Nat /\ x.size \in Nat
  BY DEF Writable
<1>2. HeaderSize + l + 1 = k /\ k \in Nat /\ k >= 110
  BY <1>1 DEF HeaderSize
<1> HIDE DEF k, l
<1>3. Pad4(k) = AlignUp(k, 4) /\ Pad4(x.size) = AlignUp(x.size, 4)
  BY <1>1, <1>2, PadIsAlign
<1>4. AlignUp(k, 4) \in Nat /\ AlignUp(k, 4) >= k /\ AlignUp(x.size, 4) \in Nat
  BY <1>1, <1>2, Up4
<1>5. Bytes(x) = Pad4(k) + Pad4(x.size)
  BY <1>2 DEF Bytes, l
<1>6. Pad4(HeaderSize + Len(x.name) + 1) = Pad4(k)
  BY <1>2 DEF l
<1>7. Bytes(x) \in Nat /\ Bytes(x) >= 110
  BY <1>2, <1>3, <1>4, <1>5
<1> QED BY <1>3, <1>4, <1>5, <1>6, <1>7 DEF k, l

\* How an archive w lies in memory that s has been written to.
Laid(w, s) ==
  /\ w.members = s /\ w.end \in Nat
  /\ w.start \in [1 .. Len(s) + 1 -> Nat] /\ w.start[1] = Base
  /\ \A i \in 1 .. Len(s) : w.start[i + 1] = w.start[i] + Bytes(s[i])
  /\ \A i \in 1 .. Len(s) + 1 : \A j \in 1 .. Len(s) + 1 : i < j => w.start[i] < w.start[j]
  /\ DOMAIN w.header = {w.start[i] : i \in 1 .. Len(s) + 1}
  /\ \A i \in 1 .. Len(s) + 1 :
       w.header[w.start[i]] =
         [name |-> All(s)[i].name, c_namesize |-> Hex(Len(All(s)[i].name) + 1, 55),
          c_filesize |-> Hex(All(s)[i].size, 55)]

\* A function that grows from each argument to the next.
LEMMA Grows ==
  ASSUME NEW n \in Nat, NEW g \in [1 .. n -> Nat], \A i \in 1 .. n - 1 : g[i] < g[i + 1]
  PROVE  \A i \in 1 .. n : \A j \in 1 .. n : i < j => g[i] < g[j]
<1> SUFFICES ASSUME NEW i \in 1 .. n, NEW j \in 1 .. n, i < j PROVE g[i] < g[j]
  OBVIOUS
<1> DEFINE T == {d \in 0 .. n - i : g[i] <= g[i + d] /\ (d > 0 => g[i] < g[i + d])}
<1>1. 0 \in T
  OBVIOUS
<1>2. ASSUME NEW d \in 1 .. n - i, d - 1 \in T PROVE d \in T
  <2>1. i + (d - 1) \in 1 .. n - 1 /\ (i + (d - 1)) + 1 = i + d /\ i + d \in 1 .. n
    OBVIOUS
  <2>2. g[i] <= g[i + (d - 1)] /\ g[i + (d - 1)] < g[i + d]
    BY <1>2, <2>1
  <2>3. g[i] \in Nat /\ g[i + (d - 1)] \in Nat /\ g[i + d] \in Nat
    BY <2>1
  <2> QED BY <2>2, <2>3
<1>3. n - i \in Nat /\ j - i \in 0 .. n - i
  OBVIOUS
<1> HIDE DEF T
<1>4. j - i \in T
  BY <1>1, <1>2, <1>3, Climb
<1> QED BY <1>4 DEF T

\* cpio writes one member behind the other.
LEMMA Layout ==
  ASSUME NEW s \in Archives
  PROVE  Laid(Write(s), s)
<1> DEFINE all == Append(s, [name |-> Trailer, size |-> 0])
           F(g) == [i \in 1 .. Len(all) + 1 |-> IF i = 1 THEN Base ELSE g[i - 1] + Bytes(all[i - 1])]
           at == CHOOSE g : g = F(g)
           n == Len(s)
           step == [x \in (1 .. n + 1) \X Nat |-> x[2] + Bytes(all[x[1]])]
<1>1. /\ n \in Nat /\ Len(all) = n + 1 /\ all = All(s)
      /\ \A i \in 1 .. n + 1 : Writable(all[i])
      /\ \A i \in 1 .. n : all[i] = s[i]
  <2>1. all = All(s)
    BY DEF All
  <2>2. n \in Nat
    <3>1. \A m : m \in 0 .. MaxMembers => m \in Nat
      OBVIOUS
    <3> QED BY <3>1, AllOf
  <2> HIDE DEF all
  <2>3. Len(all) = n + 1 /\ \A i \in 1 .. n + 1 : Writable(all[i])
    BY <2>1, AllOf
  <2>4. \A i \in 1 .. n : all[i] = s[i]
    BY <2>1, AllOf
  <2> QED BY <2>1, <2>2, <2>3, <2>4
<1> HIDE DEF all, n
<1>2. \A i \in 1 .. n + 1 : Bytes(all[i]) \in Nat /\ Bytes(all[i]) > 0
  BY <1>1, BytesOf
<1>3. step \in [(1 .. n + 1) \X Nat -> Nat]
  <2>1. ASSUME NEW x \in (1 .. n + 1) \X Nat PROVE x[2] + Bytes(all[x[1]]) \in Nat
    <3>1. x[1] \in 1 .. n + 1 /\ x[2] \in Nat
      OBVIOUS
    <3>2. Bytes(all[x[1]]) \in Nat
      BY <3>1, <1>2
    <3> QED BY <3>1, <3>2
  <2> QED BY <2>1
<1>4. Base \in Nat /\ n + 1 \in Nat
  BY <1>1, ArchiveAssumption
<1>5. PICK g : Goes(g, n + 1, Nat, Base, step)
  <2> HIDE DEF step
  <2> QED BY <1>3, <1>4, Recursion
<1>6. g \in [0 .. n + 1 -> Nat] /\ g[0] = Base /\ \A i \in 1 .. n + 1 : g[i] = g[i - 1] + Bytes(all[i])
  <2>1. g \in [0 .. n + 1 -> Nat] /\ g[0] = Base /\ \A i \in 1 .. n + 1 : g[i] = step[<<i, g[i - 1]>>]
    BY <1>5 DEF Goes
  <2>2. ASSUME NEW i \in 1 .. n + 1 PROVE g[i] = g[i - 1] + Bytes(all[i])
    <3>1. i - 1 \in 0 .. n + 1
      BY <1>1
    <3>2. <<i, g[i - 1]>> \in (1 .. n + 1) \X Nat
      BY <3>1, <2>1
    <3> QED BY <3>2, <2>1
  <2> QED BY <2>1, <2>2
<1> HIDE DEF step
<1> DEFINE w == [i \in 1 .. Len(all) + 1 |-> g[i - 1]]
<1>7. w = F(w)
  <2>1. ASSUME NEW i \in 1 .. Len(all) + 1
        PROVE  w[i] = IF i = 1 THEN Base ELSE w[i - 1] + Bytes(all[i - 1])
    <3>1. CASE i = 1
      BY <3>1, <1>6
    <3>2. CASE i # 1
      <4>1. i - 1 \in 1 .. n + 1 /\ i - 1 \in 1 .. Len(all) + 1
        BY <3>2, <1>1
      <4>2. w[i] = g[i - 1] /\ w[i - 1] = g[(i - 1) - 1]
        BY <4>1
      <4>3. g[i - 1] = g[(i - 1) - 1] + Bytes(all[i - 1])
        BY <4>1, <1>6
      <4> HIDE DEF w
      <4> QED BY <4>2, <4>3, <3>2
    <3> QED BY <3>1, <3>2
  <2>2. w = [i \in 1 .. Len(all) + 1 |-> w[i]]
    OBVIOUS
  <2> HIDE DEF w
  <2>3. [i \in 1 .. Len(all) + 1 |-> w[i]] = F(w)
    BY <2>1
  <2> QED BY <2>2, <2>3
<1>8. at = F(at)
  <2> HIDE DEF F, w
  <2> QED BY <1>7
<1> DEFINE of(a) == all[CHOOSE i \in DOMAIN all : at[i] = a]
           W == Write(s)
<1>9. /\ W.members = s /\ W.start = [i \in DOMAIN all |-> at[i]]
      /\ W.header = [a \in {at[i] : i \in DOMAIN all} |->
                    [name |-> of(a).name, c_namesize |-> Hex(Len(of(a).name) + 1, 55),
                     c_filesize |-> Hex(of(a).size, 55)]]
      /\ W.end = at[Len(all) + 1]
  BY DEF Write, all
<1> HIDE DEF at, W
<1>10. DOMAIN all = 1 .. n + 1
  <2>1. all \in Seq([name : Seq(Nat), size : Nat])
    BY AllOf, <1>1
  <2> QED BY <2>1, <1>1
<1>11. at[1] = Base /\ \A i \in 1 .. n + 1 : at[i + 1] = at[i] + Bytes(all[i])
  <2>1. \A i \in 1 .. n + 2 : at[i] = IF i = 1 THEN Base ELSE at[i - 1] + Bytes(all[i - 1])
    <3>1. Len(all) + 1 = n + 2
      BY <1>1
    <3> QED BY <3>1, <1>8
  <2>2. ASSUME NEW i \in 1 .. n + 1 PROVE at[i + 1] = at[i] + Bytes(all[i])
    <3>1. i + 1 \in 1 .. n + 2 /\ i + 1 # 1 /\ (i + 1) - 1 = i
      BY <1>1
    <3> QED BY <3>1, <2>1
  <2>3. 1 \in 1 .. n + 2
    BY <1>1
  <2> QED BY <2>1, <2>2, <2>3
<1> HIDE DEF F, w
<1>12. \A i \in 1 .. n + 2 : at[i] \in Nat
  <2> DEFINE T == {k \in 0 .. n + 1 : at[k + 1] \in Nat}
  <2>1. 0 \in T
    BY <1>1, <1>4, <1>11
  <2>2. ASSUME NEW k \in 1 .. n + 1, k - 1 \in T PROVE k \in T
    <3>1. (k - 1) + 1 = k /\ at[k] \in Nat
      BY <2>2
    <3>2. at[k + 1] = at[k] + Bytes(all[k]) /\ Bytes(all[k]) \in Nat
      BY <1>2, <1>11
    <3> QED BY <3>1, <3>2, <1>1
  <2>3. ASSUME NEW i \in 1 .. n + 2 PROVE at[i] \in Nat
    <3>1. i - 1 \in 0 .. n + 1 /\ (i - 1) + 1 = i
      BY <1>1
    <3> HIDE DEF T
    <3>2. i - 1 \in T
      BY <3>1, <2>1, <2>2, <1>4, Climb
    <3> QED BY <3>1, <3>2 DEF T
  <2> QED BY <2>3
<1>13. W.start \in [1 .. n + 1 -> Nat] /\ \A i \in 1 .. n + 1 : W.start[i] = at[i]
  <2>1. \A i \in 1 .. n + 1 : i \in 1 .. n + 2
    BY <1>1
  <2> QED BY <2>1, <1>9, <1>10, <1>12
<1>14. /\ W.start[1] = Base
       /\ \A i \in 1 .. n : W.start[i + 1] = W.start[i] + Bytes(s[i])
       /\ \A i \in 1 .. n : W.start[i] < W.start[i + 1]
  <2>1. 1 \in 1 .. n + 1
    BY <1>1
  <2>2. ASSUME NEW i \in 1 .. n
        PROVE  W.start[i + 1] = W.start[i] + Bytes(s[i]) /\ W.start[i] < W.start[i + 1]
    <3>1. i \in 1 .. n + 1 /\ i + 1 \in 1 .. n + 1
      BY <1>1
    <3>2. W.start[i + 1] = W.start[i] + Bytes(all[i]) /\ W.start[i] \in Nat
      BY <3>1, <1>11, <1>13
    <3>3. Bytes(all[i]) \in Nat /\ Bytes(all[i]) > 0 /\ all[i] = s[i]
      BY <3>1, <1>1, <1>2
    <3> QED BY <3>2, <3>3
  <2> QED BY <2>1, <2>2, <1>11, <1>13
<1>15. \A i \in 1 .. n + 1 : \A j \in 1 .. n + 1 : i < j => W.start[i] < W.start[j]
  <2>1. (n + 1) - 1 = n
    BY <1>1
  <2> QED BY <2>1, <1>4, <1>13, <1>14, Grows
<1>16. DOMAIN W.header = {W.start[i] : i \in 1 .. n + 1}
  BY <1>9, <1>10, <1>13
<1>17. ASSUME NEW i \in 1 .. n + 1
       PROVE  W.header[W.start[i]] =
                [name |-> all[i].name, c_namesize |-> Hex(Len(all[i].name) + 1, 55),
                 c_filesize |-> Hex(all[i].size, 55)]
  <2> DEFINE a == at[i]
  <2>1. (CHOOSE j \in DOMAIN all : at[j] = a) = i
    <3>1. ASSUME NEW j \in 1 .. n + 1, at[j] = a PROVE j = i
      <4>1. W.start[j] = W.start[i] /\ W.start[i] \in Nat
        BY <3>1, <1>13
      <4>2. ~(W.start[i] < W.start[j]) /\ ~(W.start[j] < W.start[i])
        BY <4>1
      <4>3. ~(i < j) /\ ~(j < i)
        BY <4>2, <1>15
      <4> QED BY <4>3, <1>1
    <3> QED BY <3>1, <1>10
  <2>2. of(a) = all[i]
    BY <2>1
  <2>3. a \in {at[j] : j \in DOMAIN all} /\ W.start[i] = a
    BY <1>10, <1>13
  <2> HIDE DEF a, of
  <2>4. W.header[a] = [name |-> of(a).name, c_namesize |-> Hex(Len(of(a).name) + 1, 55),
                       c_filesize |-> Hex(of(a).size, 55)]
    BY <2>3, <1>9
  <2> QED BY <2>2, <2>3, <2>4
<1>18. W.end \in Nat
  <2>1. Len(all) + 1 \in 1 .. n + 2
    BY <1>1
  <2> QED BY <2>1, <1>9, <1>12
<1> QED BY <1>1, <1>9, <1>13, <1>14, <1>15, <1>16, <1>17, <1>18 DEF Laid, W, n

\* What the table is to say of member i.
Listing(i) ==
  [kind |-> "file", header |-> archive.start[i], size |-> Pad4(Members[i].size),
   content |-> archive.start[i] + Pad4(HeaderSize + Len(Members[i].name) + 1)]

\* The code reads of a header what cpio has written.
LEMMA HeaderSays ==
  ASSUME NEW s \in Archives, archive = Write(s), NEW i \in 1 .. Len(s) + 1
  PROVE  LET a == archive.start[i]
             x == All(s)[i]
         IN /\ a \in Nat /\ a > 0 /\ a \in DOMAIN Header
            /\ Header[a].name = x.name
            /\ HeaderPathname(Header[a]) = Pad4(HeaderSize + Len(x.name) + 1)
            /\ FileSize(Header[a]) = Pad4(x.size)
            /\ StringCompare(Header[a].name, Trailer) <=> i = Len(s) + 1
<1> DEFINE a == archive.start[i]
           x == All(s)[i]
           n == Len(s)
<1>1. n \in Nat
  <2>1. \A m : m \in 0 .. MaxMembers => m \in Nat
    OBVIOUS
  <2> QED BY <2>1, AllOf
<1>2. /\ archive.start \in [1 .. n + 1 -> Nat] /\ archive.start[1] = Base
      /\ \A j \in 1 .. n + 1 : \A k \in 1 .. n + 1 : j < k => archive.start[j] < archive.start[k]
      /\ DOMAIN Header = {archive.start[j] : j \in 1 .. n + 1}
      /\ Header[a] = [name |-> x.name, c_namesize |-> Hex(Len(x.name) + 1, 55), c_filesize |-> Hex(x.size, 55)]
  <2>1. Laid(archive, s)
    BY Layout
  <2>2. /\ archive.start \in [1 .. n + 1 -> Nat] /\ archive.start[1] = Base
        /\ \A j \in 1 .. n + 1 : \A k \in 1 .. n + 1 : j < k => archive.start[j] < archive.start[k]
        /\ DOMAIN Header = {archive.start[j] : j \in 1 .. n + 1}
    BY <2>1 DEF Laid, Header
  <2>3. \A j \in 1 .. Len(s) + 1 :
          archive.header[archive.start[j]] =
            [name |-> All(s)[j].name, c_namesize |-> Hex(Len(All(s)[j].name) + 1, 55),
             c_filesize |-> Hex(All(s)[j].size, 55)]
    BY <2>1 DEF Laid
  <2>4. Header[a] = [name |-> x.name, c_namesize |-> Hex(Len(x.name) + 1, 55), c_filesize |-> Hex(x.size, 55)]
    BY <2>3 DEF Header
  <2> QED BY <2>2, <2>4
<1>3. Writable(x)
  BY AllOf
<1>4. /\ i = n + 1 => x.name = Trailer
      /\ i # n + 1 => x.name # Trailer
  <2>1. CASE i = n + 1
    <3>1. x = [name |-> Trailer, size |-> 0]
      BY <2>1, AllOf
    <3> HIDE DEF x
    <3> QED BY <2>1, <3>1
  <2>2. CASE i # n + 1
    <3>1. i \in 1 .. n
      BY <2>2, <1>1
    <3>2. x = s[i] /\ s[i].name # Trailer
      BY <3>1, AllOf
    <3> QED BY <2>2, <3>2
  <2> QED BY <2>1, <2>2
<1> HIDE DEF x, n
<1>5. a \in Nat /\ a > 0
  <2>1. a \in Nat /\ Base \in Nat /\ Base > 0
    BY <1>2, ArchiveAssumption DEF n
  <2>2. CASE i = 1
    BY <2>1, <2>2, <1>2
  <2>3. CASE i # 1
    <3>1. 1 \in 1 .. n + 1 /\ 1 < i /\ i \in 1 .. n + 1
      BY <2>3, <1>1 DEF n
    <3>2. archive.start[1] < a
      BY <3>1, <1>2
    <3> QED BY <3>2, <2>1, <1>2
  <2> QED BY <2>2, <2>3
<1>6. a \in DOMAIN Header
  <2> HIDE DEF a
  <2>1. i \in 1 .. n + 1
    BY DEF n
  <2> QED BY <1>2, <2>1 DEF a
<1> HIDE DEF a
<1> DEFINE h == Header[a]
<1>7. h.name = x.name /\ h.c_namesize = Hex(Len(x.name) + 1, 55) /\ h.c_filesize = Hex(x.size, 55)
  BY <1>2
<1> HIDE DEF h
<1> DEFINE l == Len(x.name) + 1
<1>8. EightDigits(l) /\ EightDigits(x.size) /\ l \in Nat /\ x.size \in Nat /\ x.name \in Seq(Nat)
  BY <1>3 DEF Writable
<1>9. Atoi(Hex(l, 55), 8) = l /\ Atoi(Hex(x.size, 55), 8) = x.size
  <2> HIDE DEF l
  <2> QED BY <1>8, AtoiOfHex
<1>10. HeaderPathname(h) = AlignUp(HeaderSize + l, 4) /\ FileSize(h) = AlignUp(x.size, 4)
  BY <1>7, <1>9 DEF HeaderPathname, FileSize
<1>11. AlignUp(HeaderSize + l, 4) = Pad4(HeaderSize + Len(x.name) + 1) /\ AlignUp(x.size, 4) = Pad4(x.size)
  <2>1. HeaderSize + l = 111 + Len(x.name)
    BY <1>8 DEF HeaderSize
  <2> HIDE DEF l
  <2> QED BY <2>1, <1>3, BytesOf
<1>12. StringCompare(h.name, Trailer) <=> i = n + 1
  <2>1. Trailer \in Seq(Nat)
    BY ArchiveAssumption
  <2>2. StringCompare(h.name, Trailer) <=> h.name = Trailer
    BY <2>1, <1>7, <1>8, SameString
  <2> QED BY <2>2, <1>4, <1>7
<1> HIDE DEF l
<1>13. HeaderPathname(h) = Pad4(HeaderSize + Len(x.name) + 1) /\ FileSize(h) = Pad4(x.size)
  BY <1>10, <1>11
<1> QED BY <1>5, <1>6, <1>7, <1>12, <1>13 DEF a, x, n, h

\* So it goes from each member's header to the next.
LEMMA Onward ==
  ASSUME NEW s \in Archives, archive = Write(s), NEW i \in 1 .. Len(s)
  PROVE  /\ NextHeader(archive.start[i]) = archive.start[i + 1]
         /\ Entry(archive.start[i]) = Listing(i)
         /\ i \in 1 .. Len(s) + 1 /\ i + 1 \in 1 .. Len(s) + 1
         /\ Header[archive.start[i]].name = s[i].name /\ s[i].name \in Seq(Nat)
<1> DEFINE a == archive.start[i]
           x == s[i]
           n == Len(s)
<1>1. n \in Nat
  <2>1. \A m : m \in 0 .. MaxMembers => m \in Nat
    OBVIOUS
  <2> QED BY <2>1, AllOf
<1>2. i \in 1 .. n + 1 /\ i + 1 \in 1 .. n + 1
  <2>1. i \in 1 .. n
    OBVIOUS
  <2> HIDE DEF n
  <2> QED BY <2>1, <1>1
<1>3. All(s)[i] = x
  BY AllOf
<1>4. /\ a \in Nat /\ Header[a].name = x.name
      /\ HeaderPathname(Header[a]) = Pad4(HeaderSize + Len(x.name) + 1)
      /\ FileSize(Header[a]) = Pad4(x.size)
  BY <1>2, <1>3, HeaderSays
<1>5. Writable(x)
  BY <1>2, <1>3, AllOf
<1>6. /\ Bytes(x) = Pad4(HeaderSize + Len(x.name) + 1) + Pad4(x.size)
      /\ Pad4(HeaderSize + Len(x.name) + 1) \in Nat /\ Pad4(x.size) \in Nat
  BY <1>5, BytesOf
<1>7. archive.start[i + 1] = a + Bytes(x) /\ Members = s
  BY Layout DEF Laid, Members
<1>8. Entry(a) = Listing(i)
  BY <1>4, <1>7 DEF Entry, Listing
<1>9. NextHeader(a) = a + Pad4(HeaderSize + Len(x.name) + 1) + Pad4(x.size)
  BY <1>4 DEF NextHeader
<1>10. a + Pad4(HeaderSize + Len(x.name) + 1) + Pad4(x.size) = a + Bytes(x)
  <2>1. PICK p \in Nat, q \in Nat : p = Pad4(HeaderSize + Len(x.name) + 1) /\ q = Pad4(x.size)
    BY <1>6
  <2>2. Bytes(x) = p + q
    BY <1>6, <2>1
  <2>3. a + p + q = a + (p + q)
    BY <1>4
  <2> QED BY <2>1, <2>2, <2>3
<1>11. x.name \in Seq(Nat)
  BY <1>5 DEF Writable
<1> QED BY <1>2, <1>4, <1>7, <1>8, <1>9, <1>10, <1>11

\* The walk of lab 2 meets every header.
LEMMA WalkIs ==
  ASSUME NEW s \in Archives, archive = Write(s), NEW k \in 0 .. Len(s)
  PROVE  Walk[k] = archive.start[k + 1]
<1> DEFINE n == Len(s)
           F(w) == [j \in 0 .. n |-> IF j = 0 THEN Base ELSE NextHeader(w[j - 1])]
           walk == CHOOSE w : w = F(w)
           g == [j \in 0 .. n |-> archive.start[j + 1]]
<1>1. n \in Nat
  <2>1. \A m : m \in 0 .. MaxMembers => m \in Nat
    OBVIOUS
  <2> QED BY <2>1, AllOf
<1>2. Members = s /\ archive.start[1] = Base
  BY Layout DEF Laid, Members
<1>3. Walk = walk
  BY <1>2 DEF Walk
<1>4. \A j \in 1 .. n : NextHeader(archive.start[j]) = archive.start[j + 1]
  BY Onward
<1>5. k \in 0 .. n
  OBVIOUS
<1> HIDE DEF n
<1>6. g = F(g)
  <2>1. ASSUME NEW j \in 0 .. n
        PROVE  g[j] = IF j = 0 THEN Base ELSE NextHeader(g[j - 1])
    <3>1. CASE j = 0
      BY <3>1, <1>2
    <3>2. CASE j # 0
      <4>1. j \in 1 .. n /\ j - 1 \in 0 .. n /\ (j - 1) + 1 = j
        BY <3>2, <1>1
      <4>2. g[j - 1] = archive.start[j] /\ g[j] = archive.start[j + 1]
        BY <4>1
      <4> HIDE DEF g
      <4> QED BY <4>1, <4>2, <3>2, <1>4
    <3> QED BY <3>1, <3>2
  <2>2. g = [j \in 0 .. n |-> g[j]]
    OBVIOUS
  <2> HIDE DEF g
  <2>3. [j \in 0 .. n |-> g[j]] = F(g)
    BY <2>1
  <2> QED BY <2>2, <2>3
<1>7. walk = F(walk)
  <2> HIDE DEF F, g
  <2> QED BY <1>6
<1> HIDE DEF walk, g
<1>8. \A j \in 0 .. n : walk[j] = IF j = 0 THEN Base ELSE NextHeader(walk[j - 1])
  BY <1>7
<1> DEFINE T == {j \in 0 .. n : walk[j] = archive.start[j + 1]}
<1>9. 0 \in T
  BY <1>1, <1>2, <1>8
<1>10. ASSUME NEW j \in 1 .. n, j - 1 \in T PROVE j \in T
  <2>1. j \in 0 .. n /\ (j - 1) + 1 = j
    BY <1>1
  <2>2. walk[j - 1] = archive.start[j]
    BY <1>10, <2>1
  <2>3. walk[j] = NextHeader(walk[j - 1])
    BY <2>1, <1>8
  <2> QED BY <2>1, <2>2, <2>3, <1>4
<1> HIDE DEF T, F
<1>11. k \in T
  BY <1>1, <1>5, <1>9, <1>10, Climb
<1> QED BY <1>3, <1>11 DEF T

----------------------------------------------------------------------------
(* The startup allocator *)

\* It never gives back and never gives more than it has.
LEMMA Allocates ==
  ASSUME NEW sizes \in Seq(Nat), SimpleMalloc(sizes), offset \in 0 .. HeapBytes
  PROVE  /\ offset' \in 0 .. HeapBytes /\ offset' >= offset
         /\ f' = [n \in Entries |-> f'[n]]
         /\ \A n \in Entries : (n + 1) * EntrySize <= offset => f'[n] = f[n]
<1> DEFINE m == Len(sizes)
           F(o) == [i \in 0 .. m |->
                      IF i = 0 THEN offset
                      ELSE IF Room(o[i - 1], sizes[i]) THEN o[i - 1] + AlignUp(sizes[i], 8) ELSE o[i - 1]]
           o == CHOOSE g : g = F(g)
           S == offset .. HeapBytes
           step == [x \in (1 .. m) \X S |-> IF Room(x[2], sizes[x[1]]) THEN x[2] + AlignUp(sizes[x[1]], 8) ELSE x[2]]
<1>1. m \in Nat /\ \A i \in 1 .. m : sizes[i] \in Nat
  OBVIOUS
<1>2. offset' = o[m]
  BY DEF SimpleMalloc
<1>3. /\ f' = [n \in Entries |-> IF n * EntrySize >= offset' \/ (n + 1) * EntrySize <= offset THEN f[n] ELSE Junk]
  BY DEF SimpleMalloc
<1> HIDE DEF m
<1>4. HeapBytes \in Nat /\ offset \in S
  BY ArchiveAssumption
<1>5. ASSUME NEW i \in 1 .. m, NEW x \in S
      PROVE  (IF Room(x, sizes[i]) THEN x + AlignUp(sizes[i], 8) ELSE x) \in S
  <2>1. AlignUp(sizes[i], 8) \in Nat
    BY <1>1, Up8
  <2>2. x \in Int /\ x >= offset /\ x <= HeapBytes /\ offset \in Int
    OBVIOUS
  <2>3. CASE Room(x, sizes[i])
    <3>1. x + AlignUp(sizes[i], 8) <= HeapBytes
      BY <2>3 DEF Room
    <3>2. PICK d \in Nat : d = AlignUp(sizes[i], 8)
      BY <2>1
    <3> QED BY <3>1, <3>2, <2>2, <2>3, <1>4
  <2>4. CASE ~Room(x, sizes[i])
    BY <2>4
  <2> QED BY <2>3, <2>4
<1>6. step \in [(1 .. m) \X S -> S]
  <2>1. ASSUME NEW x \in (1 .. m) \X S
        PROVE  (IF Room(x[2], sizes[x[1]]) THEN x[2] + AlignUp(sizes[x[1]], 8) ELSE x[2]) \in S
    <3>1. x[1] \in 1 .. m /\ x[2] \in S
      OBVIOUS
    <3> HIDE DEF S
    <3> QED BY <3>1, <1>5
  <2> HIDE DEF S
  <2> QED BY <2>1
<1> HIDE DEF S
<1>7. PICK g : Goes(g, m, S, offset, step)
  <2> HIDE DEF step
  <2> QED BY <1>1, <1>4, <1>6, Recursion
<1>8. /\ g \in [0 .. m -> S] /\ g[0] = offset
      /\ \A i \in 1 .. m : g[i] = IF Room(g[i - 1], sizes[i]) THEN g[i - 1] + AlignUp(sizes[i], 8) ELSE g[i - 1]
  <2>1. g \in [0 .. m -> S] /\ g[0] = offset /\ \A i \in 1 .. m : g[i] = step[<<i, g[i - 1]>>]
    BY <1>7 DEF Goes
  <2>2. ASSUME NEW i \in 1 .. m
        PROVE  g[i] = IF Room(g[i - 1], sizes[i]) THEN g[i - 1] + AlignUp(sizes[i], 8) ELSE g[i - 1]
    <3>1. i - 1 \in 0 .. m
      BY <1>1
    <3>2. <<i, g[i - 1]>> \in (1 .. m) \X S
      BY <3>1, <2>1
    <3> QED BY <3>2, <2>1
  <2> QED BY <2>1, <2>2
<1> HIDE DEF step
<1>9. g = F(g)
  <2>1. ASSUME NEW i \in 0 .. m
        PROVE  g[i] = IF i = 0 THEN offset
                      ELSE IF Room(g[i - 1], sizes[i]) THEN g[i - 1] + AlignUp(sizes[i], 8) ELSE g[i - 1]
    <3>1. CASE i = 0
      BY <3>1, <1>8
    <3>2. CASE i # 0
      <4>1. i \in 1 .. m
        BY <3>2, <1>1
      <4> QED BY <4>1, <3>2, <1>8
    <3> QED BY <3>1, <3>2
  <2>2. g = [i \in 0 .. m |-> g[i]]
    BY <1>8
  <2>3. [i \in 0 .. m |-> g[i]] = F(g)
    BY <2>1
  <2> QED BY <2>2, <2>3
<1>10. o = F(o)
  <2> HIDE DEF F
  <2> QED BY <1>9
<1> HIDE DEF o
<1>11. \A i \in 0 .. m : o[i] = IF i = 0 THEN offset
                      ELSE IF Room(o[i - 1], sizes[i]) THEN o[i - 1] + AlignUp(sizes[i], 8) ELSE o[i - 1]
  BY <1>10
<1> HIDE DEF F
<1> DEFINE T == {i \in 0 .. m : o[i] \in S}
<1>12. 0 \in T
  BY <1>1, <1>4, <1>11
<1>13. ASSUME NEW i \in 1 .. m, i - 1 \in T PROVE i \in T
  <2>1. i \in 0 .. m /\ i # 0
    BY <1>1
  <2>2. o[i - 1] \in S
    BY <1>13
  <2>3. o[i] = IF Room(o[i - 1], sizes[i]) THEN o[i - 1] + AlignUp(sizes[i], 8) ELSE o[i - 1]
    BY <2>1, <1>11
  <2>4. o[i] \in S
    BY <2>2, <2>3, <1>5
  <2> QED BY <2>1, <2>4
<1> HIDE DEF T
<1>14. m \in T
  <2>1. m \in 0 .. m
    BY <1>1
  <2> QED BY <2>1, <1>1, <1>12, <1>13, Climb
<1>15. offset' \in S
  BY <1>2, <1>14 DEF T
<1>16. offset' \in 0 .. HeapBytes /\ offset' >= offset
  BY <1>4, <1>15 DEF S
<1>17. f' = [n \in Entries |-> f'[n]] /\ \A n \in Entries : (n + 1) * EntrySize <= offset => f'[n] = f[n]
  BY <1>3
<1> QED BY <1>16, <1>17

----------------------------------------------------------------------------
(* The parameter of a command *)

\* The string that the first parameter points to is the word that was typed.
LEMMA AskedIs ==
  ASSUME IsName(line), HasParam
  PROVE  Asked \in Seq(Nat) /\ Param(1) = {Asked}
<1> DEFINE l == Len(line)
           Ends == Blanks \cup {Len(line) + 1}
<1>1. line \in Seq(Nat) /\ l \in Nat /\ l < MaxString /\ DOMAIN line = 1 .. l
      /\ \A k \in 1 .. l : line[k] \in Nat /\ line[k] # NUL
  <2>1. line \in Seq(Nat) /\ Len(line) < MaxString /\ NUL \notin Range(line)
    BY DEF IsName
  <2>2. DOMAIN line = 1 .. Len(line) /\ Len(line) \in Nat
    BY <2>1
  <2>3. ASSUME NEW k \in 1 .. l PROVE line[k] \in Nat /\ line[k] # NUL
    <3>1. k \in DOMAIN line
      BY <2>2
    <3>2. line[k] \in Range(line)
      BY <3>1 DEF Range
    <3>3. line[k] \in Nat
      BY <3>1, <2>1
    <3> QED BY <3>2, <3>3, <2>1
  <2> QED BY <2>1, <2>2, <2>3
<1>2. Blanks \subseteq 1 .. l
  BY <1>1 DEF Blanks
<1> HIDE DEF l
<1>3. Blanks \in SUBSET Nat /\ Blanks # {} /\ IsFiniteSet(Blanks)
  <2>1. IsFiniteSet(1 .. l)
    BY <1>1, FS_Interval
  <2>2. 1 .. l \subseteq Nat
    BY <1>1
  <2> QED BY <2>1, <2>2, <1>2, FS_Subset DEF HasParam
<1>4. PICK i \in Blanks : \A b \in Blanks : i <= b
  BY <1>3, LeastNat
<1>5. i \in 1 .. l /\ i \in Nat /\ i + 1 \in Nat
  BY <1>1, <1>2, <1>4
<1>6. (CHOOSE a \in Blanks : \A b \in Blanks : a <= b) = i
  <2>1. ASSUME NEW a \in Blanks, \A b \in Blanks : a <= b PROVE a = i
    <3>1. a <= i /\ i <= a /\ a \in Nat
      BY <2>1, <1>3, <1>4
    <3> QED BY <3>1, <1>5
  <2> QED BY <2>1, <1>4
<1>7. ParamAt(1) = 1 + i
  <2>1. ASSUME NEW a \in Blanks PROVE Cardinality({j \in Blanks : j <= a}) = 1 <=> a = i
    <3> DEFINE S == {j \in Blanks : j <= a}
    <3>1. IsFiniteSet(S) /\ a \in S /\ i \in S
      <4>1. S \in SUBSET Blanks
        OBVIOUS
      <4>2. a <= a /\ i <= a
        BY <1>3, <1>4
      <4>3. IsFiniteSet(S)
        BY <4>1, <1>3, FS_Subset
      <4> QED BY <4>2, <4>3
    <3>2. a = i => S = {i}
      <4>1. ASSUME a = i, NEW j \in S PROVE j = i
        <5>1. j <= i /\ i <= j /\ j \in Nat
          BY <4>1, <1>3, <1>4
        <5> QED BY <5>1, <1>5
      <4> QED BY <4>1, <3>1
    <3> HIDE DEF S
    <3>3. Cardinality(S) = 1 => a = i
      <4>1. ASSUME Cardinality(S) = 1 PROVE a = i
        <5>1. \E x : S = {x}
          BY <4>1, <3>1, FS_Singleton
        <5> QED BY <5>1, <3>1
      <4> QED BY <4>1
    <3>4. a = i => Cardinality(S) = 1
      BY <3>2, FS_Singleton
    <3> QED BY <3>3, <3>4 DEF S
  <2>2. (CHOOSE a \in Blanks : Cardinality({j \in Blanks : j <= a}) = 1) = i
    BY <2>1, <1>4
  <2> QED BY <2>2 DEF ParamAt
<1> DEFINE Is(a) == a \in Ends /\ \A b \in i + 1 .. a - 1 : b \notin Blanks
           j == CHOOSE a \in i + 1 .. Len(line) + 1 : Is(a)
<1>8. j \in i + 1 .. l + 1 /\ j \in Ends /\ \A b \in i + 1 .. j - 1 : b \notin Blanks
  <2>1. \E a \in i + 1 .. Len(line) + 1 : Is(a)
    <3> DEFINE S == {a \in i + 1 .. l + 1 : a \in Ends}
    <3>1. l + 1 \in S /\ S \in SUBSET Nat
      <4>1. l + 1 \in i + 1 .. l + 1
        BY <1>1, <1>5
      <4>2. i + 1 .. l + 1 \subseteq Nat
        BY <1>1, <1>5
      <4> QED BY <4>1, <4>2 DEF l
    <3>2. PICK a \in S : \A b \in S : a <= b
      <4> HIDE DEF S
      <4> QED BY <3>1, LeastNat
    <3>3. a \in i + 1 .. l + 1 /\ a \in Ends /\ a \in Nat
      BY <3>1
    <3>4. ASSUME NEW b \in i + 1 .. a - 1 PROVE b \notin Blanks
      <4>1. b \in i + 1 .. l + 1 /\ ~(a <= b)
        BY <3>3, <1>1, <1>5
      <4> QED BY <4>1, <3>2
    <3>5. Is(a)
      BY <3>3, <3>4
    <3> HIDE DEF Is
    <3> QED BY <3>3, <3>5 DEF l
  <2>2. j \in i + 1 .. Len(line) + 1 /\ Is(j)
    <3> HIDE DEF Is
    <3> QED BY <2>1
  <2> HIDE DEF j
  <2> QED BY <2>2 DEF l
<1>9. Asked = SubSeq(line, i + 1, j - 1)
  BY <1>6 DEF Asked
<1> HIDE DEF j, Is
<1>10. j \in Nat /\ i + 1 <= j /\ j <= l + 1
  BY <1>1, <1>5, <1>8
<1> DEFINE m == j - 1 - i
           s == SubSeq(line, i + 1, j - 1)
<1>11. m \in Nat /\ m < l
  BY <1>1, <1>5, <1>10
<1>12. /\ s \in Seq(Nat) /\ Len(s) = m
       /\ \A k \in 1 .. m : s[k] = line[i + k] /\ i + k \in i + 1 .. j - 1 /\ i + k \in 1 .. l
  <2>1. \A k \in i + 1 .. j - 1 : line[k] \in Nat
    <3>1. \A k \in i + 1 .. j - 1 : k \in 1 .. l
      BY <1>1, <1>5, <1>10
    <3> QED BY <3>1, <1>1
  <2> DEFINE x == i + 1
             y == j - 1
  <2>2. x \in Int /\ y \in Int /\ \A k \in x .. y : line[k] \in Nat
    BY <2>1, <1>5, <1>10
  <2> HIDE DEF x, y
  <2>3. /\ SubSeq(line, x, y) \in Seq(Nat) /\ Len(SubSeq(line, x, y)) = IF x <= y THEN y - x + 1 ELSE 0
        /\ \A k \in 1 .. y - x + 1 : SubSeq(line, x, y)[k] = line[x + k - 1]
    BY <2>2, SubSeqProperties
  <2>4. y - x + 1 = m /\ (IF x <= y THEN y - x + 1 ELSE 0) = m
    BY <1>5, <1>10 DEF x, y
  <2>5. ASSUME NEW k \in 1 .. m
        PROVE  x + k - 1 = i + k /\ i + k \in i + 1 .. j - 1 /\ i + k \in 1 .. l
    BY <1>1, <1>5, <1>10 DEF x
  <2>6. SubSeq(line, x, y) = s
    BY DEF x, y
  <2> HIDE DEF m, s
  <2> QED BY <2>3, <2>4, <2>5, <2>6
<1> HIDE DEF s, m
<1>13. /\ Len(s) < MaxString /\ \A k \in 1 .. Len(s) : s[k] # NUL
  BY <1>1, <1>11, <1>12 DEF MaxString
<1> DEFINE p == 1 + i
<1>14. p \in Int /\ (\A k \in 1 .. m : p + k - 1 = i + k) /\ p + m = j
  BY <1>5, <1>10 DEF m
<1> HIDE DEF p
<1>15. ASSUME NEW k \in 1 .. Len(s) PROVE Buffer[p + k - 1] = s[k]
  <2>1. k \in 1 .. m /\ p + k - 1 = i + k
    BY <1>12, <1>14
  <2>2. i + k \in 1 .. l + 1 /\ i + k # l + 1 /\ i + k \notin Blanks
    <3>1. i + k \in 1 .. l /\ i + k \in i + 1 .. j - 1
      BY <2>1, <1>12
    <3>2. i + k \notin Blanks
      BY <3>1, <1>8
    <3> QED BY <3>1, <3>2, <1>1
  <2>3. Buffer[i + k] = line[i + k]
    BY <2>2 DEF Buffer, l
  <2> QED BY <2>1, <2>3, <1>12
<1>16. Buffer[p + Len(s)] = NUL
  <2>1. j \in 1 .. l + 1
    BY <1>1, <1>5, <1>10
  <2>2. Buffer[j] = NUL
    BY <2>1, <1>8 DEF Buffer, l
  <2> QED BY <2>2, <1>12, <1>14
<1>17. StringAt(Buffer, p) = s
  BY <1>12, <1>13, <1>14, <1>15, <1>16, InMemory
<1>18. 1 <= Cardinality(Blanks)
  <2>1. Cardinality(Blanks) \in Nat /\ Cardinality(Blanks) # 0
    BY <1>3, FS_CardinalityType, FS_EmptySet
  <2> QED BY <2>1
<1> QED BY <1>7, <1>9, <1>12, <1>17, <1>18 DEF Param, p, s

----------------------------------------------------------------------------
(* Looking a file up *)

TableInv ==
  /\ f = [n \in Entries |-> f[n]] /\ file_num \in 0 .. Len(Members)
  /\ \A n \in Entries :
       n < MAX_FILE_NUM => f[n] = IF n < file_num THEN Listing(n + 1) ELSE Zero

\* What lookup n in the table comes to, compared with a walk over the archive.
Same(n, name) ==
  \/ /\ WalkFind(name) = 0 /\ WalkCat(name) = [kind |-> "none"]
     /\ n = -1 \/ (n \in Nat /\ f[n] = Zero /\ low = name)
  \/ /\ WalkFind(name) # 0 /\ n \in Nat /\ f[n].kind = "file"
     /\ WalkCat(name) = [kind |-> "file", at |-> f[n].content, size |-> f[n].size]

\* A table of the whole archive finds what the walk of lab 2 finds.
LEMMA Lookup ==
  ASSUME NEW s \in Archives, archive = Write(s), low \in Seq(Nat), TableInv,
         file_num = Len(s), Small, NEW name \in Seq(Nat), NEW n \in FindFile(name)
  PROVE  Same(n, name)
<1> DEFINE L == Len(s)
           Hits == {k \in 0 .. L - 1 : s[k + 1].name = name}
<1>1. L \in Nat /\ L <= MaxMembers /\ MaxMembers \in Nat
  <2>1. \A m : m \in 0 .. MaxMembers => m \in Nat /\ m <= MaxMembers
    BY ArchiveAssumption
  <2> QED BY <2>1, AllOf, ArchiveAssumption
<1>2. Members = s
  BY Layout DEF Laid, Members
<1>3. L < MAX_FILE_NUM /\ MAX_FILE_NUM \in Nat
  BY <1>2, ArchiveAssumption DEF Small
<1>4. \A k \in 1 .. L :
        /\ Entry(archive.start[k]) = Listing(k) /\ s[k].name \in Seq(Nat)
        /\ Header[archive.start[k]].name = s[k].name
        /\ k \in 1 .. L + 1
  BY Onward
<1>5. \A k \in 1 .. L + 1 : archive.start[k] \in Nat /\ archive.start[k] > 0
  BY HeaderSays
<1>6. \A k \in 0 .. L : Walk[k] = archive.start[k + 1]
  BY WalkIs
<1>7. Searched = 0 .. L
  BY DEF Searched
<1> HIDE DEF L
<1>8. \A m \in 0 .. L : f[m] = IF m < L THEN Listing(m + 1) ELSE Zero
  <2>1. \A m \in 0 .. L : m \in Entries /\ m < MAX_FILE_NUM
    BY <1>1, <1>3 DEF Entries
  <2> QED BY <2>1 DEF TableInv, L
<1>9. ASSUME NEW m \in 0 .. L - 1
      PROVE  /\ f[m] = Entry(archive.start[m + 1]) /\ f[m].kind = "file" /\ m \in 0 .. L
             /\ Must(m, name) <=> m \in Hits
             /\ StringCompare(Header[Walk[m]].name, name) <=> m \in Hits
  <2>1. m \in 0 .. L /\ m < L /\ m + 1 \in 1 .. L
    BY <1>1
  <2> DEFINE a == archive.start[m + 1]
  <2>2. f[m] = Entry(a) /\ Header[a].name = s[m + 1].name /\ s[m + 1].name \in Seq(Nat) /\ Walk[m] = a
    BY <2>1, <1>4, <1>6, <1>8
  <2> HIDE DEF a
  <2>3. f[m].kind = "file" /\ f[m].header = a
    BY <2>2 DEF Entry
  <2>4. StringCompare(Header[a].name, name) <=> s[m + 1].name = name
    BY <2>2, SameString
  <2>5. Must(m, name) <=> StringCompare(Header[a].name, name)
    BY <2>3 DEF Must
  <2> QED BY <2>1, <2>2, <2>3, <2>4, <2>5 DEF a
<1>10. f[L] = Zero /\ f[L].kind = "zero" /\ (Must(L, name) <=> low = name) /\ L \in 0 .. L
  <2>1. L \in 0 .. L /\ ~(L < L)
    BY <1>1
  <2>2. f[L] = Zero
    BY <2>1, <1>8
  <2>3. f[L].kind = "zero"
    BY <2>2 DEF Zero
  <2>4. StringCompare(low, name) <=> low = name
    BY SameString
  <2> QED BY <2>1, <2>2, <2>3, <2>4 DEF Must
<1>11. \A m \in 0 .. L : m = L \/ m \in 0 .. L - 1
  BY <1>1
<1>12. \A m \in 0 .. L : May(m, name) => Must(m, name)
  BY <1>9, <1>10, <1>11 DEF May
<1>13. WalkFind(name) = IF Hits = {} THEN 0 ELSE Walk[CHOOSE k \in Hits : \A j \in Hits : k <= j]
  <2> DEFINE hits == {k \in 0 .. Len(Members) - 1 : StringCompare(Header[Walk[k]].name, name)}
  <2>1. hits = Hits
    BY <1>2, <1>9 DEF L
  <2>2. WalkFind(name) = IF hits = {} THEN 0 ELSE Walk[CHOOSE k \in hits : \A j \in hits : k <= j]
    BY DEF WalkFind
  <2> HIDE DEF hits, Hits
  <2> QED BY <2>1, <2>2
<1>14. \/ n = -1 /\ \A m \in 0 .. L : ~Must(m, name)
       \/ n \in 0 .. L /\ Must(n, name) /\ \A m \in 0 .. n - 1 : ~Must(m, name)
  BY <1>7, <1>12 DEF FindFile
<1>15. CASE Hits = {}
  <2>1. WalkFind(name) = 0 /\ WalkCat(name) = [kind |-> "none"]
    BY <1>13, <1>15 DEF WalkCat
  <2>2. n = -1 \/ (n \in Nat /\ f[n] = Zero /\ low = name)
    <3>1. ASSUME n \in 0 .. L, Must(n, name) PROVE n \in Nat /\ f[n] = Zero /\ low = name
      <4>1. n = L
        BY <3>1, <1>9, <1>11, <1>15
      <4> QED BY <4>1, <3>1, <1>1, <1>10
    <3> QED BY <3>1, <1>14
  <2> QED BY <2>1, <2>2 DEF Same
<1>16. CASE Hits # {}
  <2>1. Hits \in SUBSET Nat
    BY <1>1
  <2>2. PICK k \in Hits : \A j \in Hits : k <= j
    <3> HIDE DEF Hits
    <3> QED BY <2>1, <1>16, LeastNat
  <2>3. k \in 0 .. L - 1 /\ k \in 0 .. L /\ k \in Nat /\ Must(k, name)
    BY <1>9, <2>1
  <2>4. (CHOOSE x \in Hits : \A j \in Hits : x <= j) = k
    <3>1. ASSUME NEW x \in Hits, \A j \in Hits : x <= j PROVE x = k
      <4>1. x <= k /\ k <= x /\ x \in Nat
        BY <3>1, <2>1, <2>2
      <4> QED BY <4>1, <2>3
    <3> HIDE DEF Hits
    <3> QED BY <3>1, <2>2
  <2> DEFINE a == archive.start[k + 1]
  <2>5. a # 0 /\ Walk[k] = a /\ f[k] = Entry(a) /\ f[k].kind = "file"
    <3>1. k + 1 \in 1 .. L + 1
      BY <2>3, <1>1
    <3>2. a \in Nat /\ a > 0
      BY <3>1, <1>5 DEF L
    <3> HIDE DEF a
    <3>3. a # 0
      BY <3>2
    <3> QED BY <3>3, <2>3, <1>6, <1>9 DEF a
  <2> HIDE DEF a
  <2>6. WalkFind(name) = a
    <3> HIDE DEF Hits
    <3> QED BY <1>13, <1>16, <2>4, <2>5
  <2>7. n = k
    <3>1. n \in 0 .. L /\ Must(n, name) /\ \A m \in 0 .. n - 1 : ~Must(m, name)
      BY <1>14, <2>3
    <3>2. n \in Int /\ n <= L
      BY <3>1
    <3>3. ~(k < n)
      <4>1. k < n => k \in 0 .. n - 1
        BY <2>3, <3>2
      <4> QED BY <4>1, <3>1, <2>3
    <3>4. ~(n < k)
      <4>1. ASSUME n < k PROVE FALSE
        <5>1. n \in 0 .. L - 1
          BY <4>1, <3>1, <2>3, <1>1
        <5>2. n \in Hits
          BY <5>1, <3>1, <1>9
        <5>3. k <= n
          BY <5>2, <2>2
        <5> QED BY <5>3, <4>1, <3>2, <2>3
      <4> QED BY <4>1
    <3> QED BY <3>2, <3>3, <3>4, <2>3
  <2>8. WalkCat(name) = [kind |-> "file", at |-> a + HeaderPathname(Header[a]), size |-> FileSize(Header[a])]
    BY <2>5, <2>6 DEF WalkCat
  <2>9. f[k].content = a + HeaderPathname(Header[a]) /\ f[k].size = FileSize(Header[a])
    BY <2>5 DEF Entry
  <2> QED BY <2>3, <2>5, <2>6, <2>7, <2>8, <2>9 DEF Same
<1> QED BY <1>15, <1>16

----------------------------------------------------------------------------
(* What buddy_system_init marks *)

\* buddy_alloc_reserve marks every page that a range touches, aligned or not.
LEMMA ReserveCovers ==
  ASSUME NEW start \in Nat, NEW end \in Nat, NEW e \in Nat, e <= end,
         NEW p \in (start \div PageSize) .. (e - 1) \div PageSize
  PROVE  p \in Reserve(start, end)
<1>1. p <= (e - 1) \div 4096 /\ p >= start \div 4096 /\ p \in Int
  BY DEF PageSize
<1>2. ((((end + 4096 - 1) \div 4096) * 4096) \div 4096) - 1 >= (e - 1) \div 4096
  <2>1. (((end + 4096 - 1) \div 4096) * 4096) \div 4096 = (end + 4096 - 1) \div 4096
    OBVIOUS
  <2>2. (end + 4096 - 1) \div 4096 >= ((e - 1) \div 4096) + 1
    OBVIOUS
  <2> QED BY <2>1, <2>2
<1> QED BY <1>1, <1>2 DEF Reserve, RetAlign, AlignUp, PageSize

\* So what lies in a range that is reserved is kept out of the allocator's hands.
LEMMA RangeKept ==
  ASSUME NEW ranges, NEW r \in ranges, NEW x,
         r.start \in Nat, r.end \in Nat,
         x.start = r.start, x.end \in Nat, x.end <= r.end
  PROVE  Kept(ranges, x)
<1> SUFFICES ASSUME NEW p \in (x.start \div PageSize) .. (x.end - 1) \div PageSize
             PROVE  p \in Reserve(r.start, r.end)
  BY DEF Kept, Marked
<1> QED BY ReserveCovers

\* Two ranges without a gap keep what they cover together.
LEMMA BothKept ==
  ASSUME NEW ranges, NEW r \in ranges, NEW s \in ranges, NEW x,
         r.start \in Nat, r.end \in Nat, s.end \in Nat, s.start = r.end,
         x.start = r.start, x.end \in Nat, x.end <= s.end
  PROVE  Kept(ranges, x)
<1> SUFFICES ASSUME NEW p \in (x.start \div PageSize) .. (x.end - 1) \div PageSize
             PROVE  Marked(ranges, p)
  BY DEF Kept
<1>1. CASE p <= (r.end - 1) \div PageSize
  <2>1. p \in (r.start \div PageSize) .. (r.end - 1) \div PageSize
    BY <1>1 DEF PageSize
  <2> QED BY <2>1, ReserveCovers DEF Marked
<1>2. CASE ~(p <= (r.end - 1) \div PageSize)
  <2>1. p \in (s.start \div PageSize) .. (x.end - 1) \div PageSize
    BY <1>2 DEF PageSize
  <2> QED BY <2>1, ReserveCovers DEF Marked
<1> QED BY <1>1, <1>2

\* The preinit reserves more than the tables take.
LEMMA TablesEnd ==
  /\ PreinitEnd \in Nat /\ HeaderAt \in Nat
  /\ Tables.start = HeaderAt /\ Tables.end \in Nat /\ Tables.end <= PreinitEnd
<1> DEFINE n == StructSize + EntriesSize + ListSize
<1>1. n \in Nat
  BY ReservationsAssumption DEF StructSize, EntriesSize, ListSize, PageCount, PageSize
<1>2. PreinitEnd = HeaderAt + n * 56
  BY DEF PreinitEnd, StructSize
<1>3. Tables.start = HeaderAt /\ Tables.end = HeaderAt + n
  <2>1. HeaderAt + StructSize + EntriesSize + ListSize = HeaderAt + n
    BY ReservationsAssumption DEF StructSize, EntriesSize, ListSize, PageCount, PageSize
  <2> QED BY <2>1 DEF Tables, From
<1> HIDE DEF n
<1> QED BY <1>1, <1>2, <1>3, ReservationsAssumption

\* What buddy_system_init marks keeps the allocator's own header and tables, the
\* first 512 KiB with the stack and the program of exec, and, up to the sizes
\* the code assumes, kernel image, archive and device tree, wherever they lie.
THEOREM InUseKept ==
  ASSUME NEW cpio \in Nat, NEW dtb \in Nat,
         NEW imageEnd \in Nat, imageEnd <= 524288 + 30000,
         NEW cpioEnd \in Nat, cpioEnd <= cpio + 30000,
         NEW dtbEnd \in Nat, dtbEnd <= dtb + 60000
  PROVE  \A r \in {Tables, From(0, 524288), From(524288, imageEnd),
                   From(cpio, cpioEnd), From(dtb, dtbEnd)} : Kept(Ranges(cpio, dtb), r)
<1> DEFINE ranges == Ranges(cpio, dtb)
<1>1. Kept(ranges, Tables)
  <2>1. From(HeaderAt, PreinitEnd) \in ranges
    BY DEF Ranges
  <2>2. From(HeaderAt, PreinitEnd).start = HeaderAt /\ From(HeaderAt, PreinitEnd).end = PreinitEnd
    BY DEF From
  <2> HIDE DEF ranges
  <2> QED BY <2>1, <2>2, TablesEnd, RangeKept
<1>2. Kept(ranges, From(0, 524288))
  <2>1. From(0, 4096) \in ranges /\ From(4096, 524288) \in ranges
    BY DEF Ranges
  <2>2. /\ From(0, 4096).start = 0 /\ From(0, 4096).end = 4096
        /\ From(4096, 524288).start = 4096 /\ From(4096, 524288).end = 524288
        /\ From(0, 524288).start = 0 /\ From(0, 524288).end = 524288
    BY DEF From
  <2> HIDE DEF ranges
  <2> QED BY <2>1, <2>2, BothKept
<1>3. Kept(ranges, From(524288, imageEnd))
  <2>1. From(524288, 524288 + 30000) \in ranges
    BY DEF Ranges
  <2>2. /\ From(524288, 524288 + 30000).start = 524288
        /\ From(524288, 524288 + 30000).end = 524288 + 30000
        /\ From(524288, imageEnd).start = 524288 /\ From(524288, imageEnd).end = imageEnd
    BY DEF From
  <2> HIDE DEF ranges
  <2> QED BY <2>1, <2>2, RangeKept
<1>4. Kept(ranges, From(cpio, cpioEnd))
  <2>1. From(cpio, cpio + 30000) \in ranges
    BY DEF Ranges
  <2>2. /\ From(cpio, cpio + 30000).start = cpio /\ From(cpio, cpio + 30000).end = cpio + 30000
        /\ From(cpio, cpioEnd).start = cpio /\ From(cpio, cpioEnd).end = cpioEnd
    BY DEF From
  <2> HIDE DEF ranges
  <2> QED BY <2>1, <2>2, RangeKept
<1>5. Kept(ranges, From(dtb, dtbEnd))
  <2>1. From(dtb, dtb + 60000) \in ranges
    BY DEF Ranges
  <2>2. /\ From(dtb, dtb + 60000).start = dtb /\ From(dtb, dtb + 60000).end = dtb + 60000
        /\ From(dtb, dtbEnd).start = dtb /\ From(dtb, dtbEnd).end = dtbEnd
    BY DEF From
  <2> HIDE DEF ranges
  <2> QED BY <2>1, <2>2, RangeKept
<1> QED BY <1>1, <1>2, <1>3, <1>4, <1>5

----------------------------------------------------------------------------
(* The invariant *)

\* What get_cpio_addr has found.
CpioInv == cpio_addr \in Nat /\ (cpio_addr = Base \/ cpio_addr \notin DOMAIN Header)

\* What main has done when it is where it is.
FlowInv ==
  /\ pc \in {"reset", "tree", "files", "idle", "parse", "dtb", "user", "stopped", "wild"}
  /\ addr \in Nat /\ offset \in 0 .. HeapBytes /\ smashed \in BOOLEAN
  /\ pc \in {"reset", "tree"} => file_num = 0 /\ offset = 0
  /\ pc \notin {"reset", "tree"} => offset >= TableBytes
  /\ pc \in {"reset", "tree", "files"} => out = Nothing
  /\ pc \notin {"user", "stopped"} => ~smashed
  /\ pc = "files" => \/ cpio_addr = Base /\ addr = archive.start[file_num + 1]
                     \/ addr = cpio_addr /\ cpio_addr \notin DOMAIN Header
  /\ pc \in {"idle", "parse", "dtb", "user", "stopped"} => file_num = Len(Members)

KernelInv ==
  /\ TreeInv /\ SpaceInv /\ CpioInv
  /\ \E s \in Archives : archive = Write(s)
  /\ low \in LowStrings /\ line \in Lines \cup {<<>>}
  /\ TableInv /\ FlowInv
  /\ FilesFound /\ KernelOverwritten

\* The archive in memory is one that cpio has written.
LEMMA ArchiveOf ==
  ASSUME NEW s \in Archives, archive = Write(s)
  PROVE  /\ Members = s /\ Len(s) \in Nat /\ Len(s) <= MaxMembers /\ MaxMembers \in Nat
         /\ archive.start[1] = Base /\ Base \in DOMAIN Header /\ 0 \notin DOMAIN Header
         /\ archive.end \in Nat
<1>1. Laid(archive, s)
  BY Layout
<1>2. /\ Members = s /\ archive.start[1] = Base /\ archive.end \in Nat
      /\ DOMAIN Header = {archive.start[j] : j \in 1 .. Len(s) + 1}
  BY <1>1 DEF Laid, Members, Header
<1>3. Len(s) \in Nat /\ Len(s) <= MaxMembers /\ MaxMembers \in Nat
  <2>1. \A m : m \in 0 .. MaxMembers => m \in Nat /\ m <= MaxMembers
    BY ArchiveAssumption
  <2> QED BY <2>1, AllOf, ArchiveAssumption
<1>4. 1 \in 1 .. Len(s) + 1
  <2> DEFINE n == Len(s)
  <2> HIDE DEF n
  <2>1. n \in Nat => 1 \in 1 .. n + 1
    OBVIOUS
  <2> QED BY <2>1, <1>3 DEF n
<1>5. ASSUME 0 \in DOMAIN Header PROVE FALSE
  <2>1. PICK j \in 1 .. Len(s) + 1 : archive.start[j] = 0
    BY <1>2, <1>5
  <2>2. archive.start[j] > 0
    BY HeaderSays
  <2> QED BY <2>1, <2>2
<1>6. Base \in DOMAIN Header
  BY <1>2, <1>4
<1> QED BY <1>2, <1>3, <1>5, <1>6

\* The invariant holds when the kernel starts.
LEMMA KernelStarts == Init => KernelInv
<1> SUFFICES ASSUME Init PROVE KernelInv
  OBVIOUS
<1>1. TreeInv /\ SpaceInv
  BY TreeStarts, SpaceStarts DEF Init
<1>2. PICK s \in Archives : archive = Write(s)
  BY DEF Init, ArchiveInit
<1>3. /\ low \in LowStrings /\ line = <<>> /\ addr = 0 /\ file_num = 0 /\ offset = 0 /\ smashed = FALSE
      /\ f = [n \in Entries |-> Zero] /\ pc = "reset" /\ out = Nothing /\ cpio_addr = 0
  BY DEF Init, ArchiveInit, TreeInit
<1>4. CpioInv
  BY <1>2, <1>3, ArchiveOf DEF CpioInv
<1>5. TableInv
  <2>1. \A n \in Entries : ~(n < 0)
    BY ArchiveAssumption DEF Entries
  <2>2. 0 \in 0 .. Len(Members)
    <3>1. Len(Members) \in Nat
      BY <1>2, ArchiveOf
    <3> HIDE DEF Members
    <3> DEFINE k == Len(Members)
    <3> HIDE DEF k
    <3>2. k \in Nat => 0 \in 0 .. k
      OBVIOUS
    <3> QED BY <3>1, <3>2 DEF k
  <2> QED BY <2>1, <2>2, <1>3 DEF TableInv
<1>6. FlowInv
  <2>1. 0 \in 0 .. HeapBytes
    BY ArchiveAssumption
  <2> QED BY <2>1, <1>3 DEF FlowInv
<1>7. FilesFound /\ KernelOverwritten
  BY <1>3 DEF FilesFound, KernelOverwritten
<1> QED BY <1>1, <1>2, <1>3, <1>4, <1>5, <1>6, <1>7 DEF KernelInv

\* What the device tree says of the archive is right, or leads to none.
LEMMA CpioKeeps ==
  ASSUME TreeInv, CpioInv, WalkStep, UNCHANGED archive, \E s \in Archives : archive = Write(s)
  PROVE  CpioInv'
<1>1. cb # "none" /\ Handled
  BY WalkHandles
<1>2. Header' = Header
  BY DEF Header
<1>3. CASE cpio_addr' = cpio_addr
  BY <1>2, <1>3 DEF CpioInv
<1>4. CASE Item.token = 3 /\ Item.name = InitrdStart /\ cpio_addr' = Address(Item.data)
  <2>1. PICK b \in Blobs : blob = Flatten(b)
    BY DEF TreeInv
  <2>2. Len(calls) + 1 \in DOMAIN b.tree /\ Item = b.tree[Len(calls) + 1]
    BY <1>1, <2>1, AtItem, TreeOf, BlobIs DEF Item
  <2>3. /\ Len(Item.data) >= 4
        /\ \/ Address(Item.data) = Base
           \/ \A s \in Archives : Address(Item.data) \notin DOMAIN Write(s).header
    BY <1>4, <2>2, KernelAssumption, TokenValues
  <2>4. Item.data \in Seq(0 .. 255)
    BY <1>1, <1>4, AtItem, ItemKinds
  <2>5. Address(Item.data) \in Nat
    <3> DEFINE d == Item.data
    <3>1. d \in Seq(0 .. 255) /\ Len(d) >= 4
      BY <2>3, <2>4
    <3> HIDE DEF d
    <3>2. d[1] \in 0 .. 255 /\ d[2] \in 0 .. 255 /\ d[3] \in 0 .. 255 /\ d[4] \in 0 .. 255
      <4> DEFINE n == Len(d)
                 B == 0 .. 255
      <4>0. d \in Seq(B) /\ Len(d) >= 4
        BY <3>1
      <4> HIDE DEF B
      <4>1. n \in Nat /\ n >= 4 /\ \A i \in 1 .. n : d[i] \in B
        BY <4>0
      <4> HIDE DEF n
      <4>2. 1 \in 1 .. n /\ 2 \in 1 .. n /\ 3 \in 1 .. n /\ 4 \in 1 .. n
        BY <4>1
      <4> QED BY <4>1, <4>2 DEF B
    <3> DEFINE u == 2^24
               v == 2^16
               w == 2^8
    <3>3. u \in Nat /\ v \in Nat /\ w \in Nat
      BY Literals, SMT
    <3>4. Address(d) \in Nat
      <4> DEFINE mem == [x \in 0 .. 3 |-> d[x + 1]]
      <4>1. mem[0] = d[1] /\ mem[0 + 1] = d[2] /\ mem[0 + 2] = d[3] /\ mem[0 + 3] = d[4]
        BY SMT
      <4>2. Address(d) = Word(mem, 0)
        BY DEF Address
      <4> HIDE DEF mem
      <4>3. Address(d) = mem[0] * u + mem[0 + 1] * v + mem[0 + 2] * w + mem[0 + 3]
        BY <4>2 DEF Word
      <4> HIDE DEF u, v, w
      <4>4. \A x \in 0 .. 255 : x \in Nat
        OBVIOUS
      <4>5. PICK p \in Nat, q \in Nat, r \in Nat, t \in Nat :
              p = mem[0] /\ q = mem[0 + 1] /\ r = mem[0 + 2] /\ t = mem[0 + 3]
        BY <3>2, <4>1, <4>4
      <4>6. Address(d) = p * u + q * v + r * w + t
        BY <4>3, <4>5
      <4>7. p * u \in Nat /\ q * v \in Nat /\ r * w \in Nat
        BY <3>3
      <4>8. p * u + q * v + r * w + t \in Nat
        BY <4>7
      <4> QED BY <4>6, <4>8
    <3> QED BY <3>4 DEF d
  <2>6. Address(Item.data) = Base \/ Address(Item.data) \notin DOMAIN Header
    BY <2>3 DEF Header
  <2> QED BY <1>2, <1>4, <2>5, <2>6 DEF CpioInv
<1>5. \/ cpio_addr' = cpio_addr
      \/ Item.token = 3 /\ Item.name = InitrdStart /\ cpio_addr' = Address(Item.data)
  <2>1. CASE Item = Damage
    BY <1>1, <2>1 DEF Handled
  <2>2. CASE Item # Damage
    <3>1. Callback(Item)
      BY <1>1, <2>2 DEF Handled
    <3>2. \/ cpio_addr' = cpio_addr
          \/ Item.token = 3 /\ StringCompare(Item.name, InitrdStart) /\ cpio_addr' = Address(Item.data)
      BY <3>1, TokenValues DEF Callback, GetCpioAddr, PrintDtb
    <3>3. Item.token = 3 => (StringCompare(Item.name, InitrdStart) <=> Item.name = InitrdStart)
      <4>1. ASSUME Item.token = 3 PROVE Item.name \in Seq(Nat)
        <5>1. Item.name \in Range(PropNames)
          BY <1>1, <4>1, AtItem, ItemKinds
        <5>2. PICK i \in DOMAIN PropNames : PropNames[i] = Item.name
          BY <5>1 DEF Range
        <5> QED BY <5>2, TreeAssumption DEF IsName
      <4>2. InitrdStart \in Seq(Nat)
        BY TreeAssumption
      <4> QED BY <4>1, <4>2, SameString
    <3> QED BY <3>2, <3>3
  <2> QED BY <2>1, <2>2
<1> QED BY <1>3, <1>4, <1>5

----------------------------------------------------------------------------
(* The boot *)

LEMMA TableBound ==
  TableBytes \in Nat /\ AlignUp(TableBytes, 8) \in 0 .. HeapBytes /\ AlignUp(TableBytes, 8) >= TableBytes
<1>1. TableBytes \in Nat
  BY ArchiveAssumption DEF TableBytes, EntrySize
<1>2. AlignUp(TableBytes, 8) \in Nat /\ AlignUp(TableBytes, 8) >= TableBytes
  BY <1>1, Up8
<1> QED BY <1>1, <1>2, ArchiveAssumption

\* Nothing that comes later is written over the table.
LEMMA TableStays ==
  ASSUME TableInv, UNCHANGED <<archive, file_num>>, f' = [n \in Entries |-> f'[n]],
         \A n \in Entries : n < MAX_FILE_NUM => f'[n] = f[n]
  PROVE  TableInv'
<1>1. \A i : Listing(i)' = Listing(i)
  BY DEF Listing, Members
<1>2. Members' = Members
  BY DEF Members
<1>3. file_num' \in 0 .. Len(Members')
  BY <1>2 DEF TableInv
<1>4. \A n \in Entries :
        n < MAX_FILE_NUM => f'[n] = IF n < file_num' THEN Listing(n + 1) ELSE Zero
  BY DEF TableInv
<1> QED BY <1>1, <1>3, <1>4 DEF TableInv

\* The table lies below what the startup allocator has given.
LEMMA BehindTable ==
  ASSUME NEW n \in Entries, n < MAX_FILE_NUM, offset \in Int, offset >= TableBytes
  PROVE  (n + 1) * EntrySize <= offset
<1>1. n \in Nat /\ MAX_FILE_NUM \in Nat /\ n + 1 <= MAX_FILE_NUM
  BY ArchiveAssumption DEF Entries
<1>2. (n + 1) * 40 <= MAX_FILE_NUM * 40
  BY <1>1
<1> QED BY <1>1, <1>2 DEF TableBytes, EntrySize

\* Most steps leave the tree, its walk and the archive alone.
LEMMA TreeSame ==
  ASSUME KernelInv, UNCHANGED tree_vars, UNCHANGED <<archive, low>>
  PROVE  /\ TreeInv' /\ SpaceInv' /\ CpioInv' /\ low' \in LowStrings
         /\ (\E s \in Archives : archive = Write(s))'
<1>1. TreeInv' /\ SpaceInv'
  BY TreeStays, SpaceStays DEF KernelInv
<1>2. CpioInv'
  <2>1. cpio_addr' = cpio_addr /\ Header' = Header
    BY DEF tree_vars, Header
  <2> QED BY <2>1 DEF KernelInv, CpioInv
<1> QED BY <1>1, <1>2 DEF KernelInv

\* The first traversal begins.
LEMMA BootTreeKeeps ==
  ASSUME KernelInv, BootTree
  PROVE  KernelInv'
<1>1. Traverse("get_cpio_addr")
  BY DEF BootTree
<1>2. TreeInv' /\ SpaceInv'
  BY <1>1, TraverseKeeps, TraverseIndents DEF KernelInv
<1>3. /\ pc = "reset" /\ pc' = "tree" /\ cpio_addr' = cpio_addr
      /\ UNCHANGED <<archive, low, addr, f, file_num, offset, smashed, line, out>>
  BY <1>1 DEF BootTree, Traverse, archive_vars
<1>4. CpioInv'
  <2>1. Header' = Header
    BY <1>3 DEF Header
  <2> QED BY <2>1, <1>3 DEF KernelInv, CpioInv
<1>5. TableInv'
  <2>1. TableInv /\ f = [n \in Entries |-> f[n]]
    BY DEF KernelInv, TableInv
  <2> QED BY <1>3, <2>1, TableStays
<1>6. FlowInv'
  BY <1>3 DEF KernelInv, FlowInv
<1>7. FilesFound' /\ KernelOverwritten'
  <2>1. ~smashed'
    BY <1>3 DEF KernelInv, FlowInv
  <2> QED BY <1>3, <2>1 DEF FilesFound, KernelOverwritten
<1>8. /\ (\E s \in Archives : archive = Write(s))' /\ low' \in LowStrings
      /\ line' \in Lines \cup {<<>>}
  BY <1>3 DEF KernelInv
<1> QED BY <1>2, <1>4, <1>5, <1>6, <1>7, <1>8 DEF KernelInv

\* A turn of parse_struct, at boot or for the command dtb.
LEMMA TreeStepKeeps ==
  ASSUME KernelInv, TreeStep
  PROVE  KernelInv'
<1>1. WalkStep
  BY DEF TreeStep
<1>2. TreeInv' /\ SpaceInv'
  BY <1>1, WalkKeeps, WalkIndents DEF KernelInv
<1>3. /\ pc \in {"tree", "dtb"} /\ pc' = pc
      /\ UNCHANGED <<archive, low, addr, f, file_num, offset, smashed, line, out>>
  BY DEF TreeStep, archive_vars
<1>4. CpioInv'
  BY <1>1, <1>3, CpioKeeps DEF KernelInv
<1>5. TableInv'
  <2>1. TableInv /\ f = [n \in Entries |-> f[n]]
    BY DEF KernelInv, TableInv
  <2> QED BY <1>3, <2>1, TableStays
<1>6. FlowInv'
  BY <1>3 DEF KernelInv, FlowInv, Members
<1>7. FilesFound' /\ KernelOverwritten'
  <2>1. ~smashed'
    BY <1>3 DEF KernelInv, FlowInv
  <2> QED BY <1>3, <2>1 DEF FilesFound, KernelOverwritten
<1>8. /\ (\E s \in Archives : archive = Write(s))' /\ low' \in LowStrings
      /\ line' \in Lines \cup {<<>>}
  BY <1>3 DEF KernelInv
<1> QED BY <1>2, <1>4, <1>5, <1>6, <1>7, <1>8 DEF KernelInv

\* allocate_file_array takes the room of the table, and nothing else has yet.
LEMMA BootFilesKeeps ==
  ASSUME KernelInv, BootFiles
  PROVE  KernelInv'
<1>1. /\ pc = "tree" /\ pc' = "files" /\ addr' = cpio_addr
      /\ offset' = offset + AlignUp(TableBytes, 8)
      /\ UNCHANGED tree_vars /\ UNCHANGED <<archive, low, f, file_num, smashed, line, out>>
  BY DEF BootFiles, BeginTraverse
<1>2. TreeInv' /\ SpaceInv' /\ CpioInv' /\ low' \in LowStrings /\ (\E s \in Archives : archive = Write(s))'
  BY <1>1, TreeSame
<1>3. TableInv'
  <2>1. TableInv /\ f = [n \in Entries |-> f[n]]
    BY DEF KernelInv, TableInv
  <2> QED BY <1>1, <2>1, TableStays
<1>4. file_num = 0 /\ offset = 0 /\ out = Nothing /\ smashed = FALSE
  BY <1>1 DEF KernelInv, FlowInv
<1>5. offset' \in 0 .. HeapBytes /\ offset' >= TableBytes
  <2>1. PICK d \in 0 .. HeapBytes : d = AlignUp(TableBytes, 8) /\ d >= TableBytes
    BY TableBound
  <2>2. offset' = d
    BY <2>1, <1>1, <1>4
  <2> QED BY <2>1, <2>2
<1>6. cpio_addr \in Nat /\ (cpio_addr = Base \/ cpio_addr \notin DOMAIN Header)
      /\ archive.start[0 + 1] = Base
  <2>1. archive.start[1] = Base
    BY ArchiveOf DEF KernelInv
  <2> QED BY <2>1 DEF KernelInv, CpioInv
<1>7. cpio_addr' = cpio_addr /\ Header' = Header
  BY <1>1 DEF tree_vars, Header
<1>8. FlowInv'
  BY <1>1, <1>4, <1>5, <1>6, <1>7 DEF FlowInv
<1>9. FilesFound' /\ KernelOverwritten'
  BY <1>1, <1>4 DEF FilesFound, KernelOverwritten
<1>10. line' \in Lines \cup {<<>>}
  BY <1>1 DEF KernelInv
<1> QED BY <1>2, <1>3, <1>8, <1>9, <1>10 DEF KernelInv

\* Where main is while it reads headers.
LEMMA AtMember ==
  ASSUME KernelInv, pc = "files", AtHeader, NEW s \in Archives, archive = Write(s)
  PROVE  /\ cpio_addr = Base /\ addr = archive.start[file_num + 1]
         /\ file_num \in Nat /\ file_num + 1 \in 1 .. Len(s) + 1
         /\ AtEnd <=> file_num = Len(s)
<1>1. cpio_addr = Base /\ addr = archive.start[file_num + 1]
  BY DEF KernelInv, FlowInv, AtHeader
<1>2. file_num \in 0 .. Len(s) /\ Len(s) \in Nat
  BY ArchiveOf DEF KernelInv, TableInv
<1> DEFINE n == Len(s)
<1> HIDE DEF n
<1>3. file_num \in 0 .. n /\ n \in Nat
  BY <1>2 DEF n
<1>4. file_num \in Nat /\ file_num + 1 \in 1 .. n + 1 /\ (file_num + 1 = n + 1 <=> file_num = n)
  BY <1>3
<1>5. StringCompare(Header[addr].name, Trailer) <=> file_num + 1 = n + 1
  <2> DEFINE i == file_num + 1
  <2>1. i \in 1 .. Len(s) + 1
    BY <1>4 DEF n
  <2> HIDE DEF i
  <2>2. StringCompare(Header[archive.start[i]].name, Trailer) <=> i = Len(s) + 1
    BY <2>1, HeaderSays
  <2> QED BY <2>2, <1>1 DEF i, n
<1> QED BY <1>1, <1>4, <1>5 DEF AtEnd, n

\* A turn of traverse_file writes the next entry and comes to the next header.
LEMMA FilesStepKeeps ==
  ASSUME KernelInv, FilesStep
  PROVE  KernelInv'
<1>1. /\ pc = "files" /\ pc' = "files" /\ AtHeader /\ ~AtEnd
      /\ f' = [f EXCEPT ![file_num] = Entry(addr)] /\ file_num' = file_num + 1
      /\ addr' = NextHeader(addr)
      /\ UNCHANGED tree_vars /\ UNCHANGED <<archive, low, offset, smashed, line, out>>
  BY DEF FilesStep, ReadHeader
<1>2. TreeInv' /\ SpaceInv' /\ CpioInv' /\ low' \in LowStrings /\ (\E s \in Archives : archive = Write(s))'
  BY <1>1, TreeSame
<1>3. PICK s \in Archives : archive = Write(s)
  BY DEF KernelInv
<1> DEFINE n == Len(s)
           i == file_num + 1
<1>4. /\ cpio_addr = Base /\ addr = archive.start[i] /\ file_num \in Nat
      /\ i \in 1 .. n + 1 /\ file_num # n
  BY <1>1, <1>3, AtMember
<1>5. n \in Nat /\ n <= MaxMembers /\ MaxMembers \in Nat /\ Members = s
  BY <1>3, ArchiveOf
<1> HIDE DEF n
<1>6. i \in 1 .. n /\ file_num' \in 0 .. n /\ file_num \in Entries
  BY <1>1, <1>4, <1>5 DEF Entries
<1> HIDE DEF i
<1>7. /\ NextHeader(archive.start[i]) = archive.start[i + 1] /\ Entry(archive.start[i]) = Listing(i)
      /\ archive.start[i + 1] \in Nat
  <2>1. i \in 1 .. Len(s)
    BY <1>6 DEF n
  <2>2. i + 1 \in 1 .. Len(s) + 1 /\ NextHeader(archive.start[i]) = archive.start[i + 1]
        /\ Entry(archive.start[i]) = Listing(i)
    BY <2>1, <1>3, Onward
  <2> DEFINE k == i + 1
  <2>3. k \in 1 .. Len(s) + 1
    BY <2>2
  <2> HIDE DEF k
  <2>4. archive.start[k] \in Nat
    BY <2>3, <1>3, HeaderSays
  <2> QED BY <2>2, <2>4 DEF k
<1>8. Members' = Members /\ \A k : Listing(k)' = Listing(k)
  BY <1>1 DEF Members, Listing
<1>9. TableInv'
  <2>1. f = [k \in Entries |-> f[k]]
        /\ \A k \in Entries : k < MAX_FILE_NUM => f[k] = IF k < file_num THEN Listing(k + 1) ELSE Zero
    BY DEF KernelInv, TableInv
  <2>2. f' = [k \in Entries |-> IF k = file_num THEN Listing(i) ELSE f[k]]
    BY <1>1, <1>4, <1>6, <1>7, <2>1
  <2>3. ASSUME NEW k \in Entries, k < MAX_FILE_NUM
        PROVE  f'[k] = IF k < file_num' THEN Listing(k + 1) ELSE Zero
    <3>1. k \in Int
      BY DEF Entries
    <3>2. CASE k = file_num
      BY <3>2, <2>2, <1>1, <1>4 DEF i
    <3>3. CASE k # file_num
      <4>1. k < file_num' <=> k < file_num
        BY <3>1, <3>3, <1>1, <1>4
      <4> QED BY <4>1, <3>3, <2>1, <2>2, <2>3
    <3> QED BY <3>2, <3>3
  <2>4. f' = [k \in Entries |-> f'[k]]
    BY <2>2
  <2>5. file_num' \in 0 .. Len(Members')
    BY <1>5, <1>6, <1>8 DEF n
  <2> QED BY <2>3, <2>4, <2>5, <1>8 DEF TableInv
<1>10. FlowInv'
  <2>1. /\ offset \in 0 .. HeapBytes /\ offset >= TableBytes /\ out = Nothing /\ ~smashed /\ smashed \in BOOLEAN
    BY <1>1 DEF KernelInv, FlowInv
  <2>2. addr' = archive.start[file_num' + 1] /\ addr' \in Nat
    BY <1>1, <1>4, <1>7 DEF i
  <2>3. cpio_addr' = Base
    BY <1>1, <1>4 DEF tree_vars
  <2> QED BY <1>1, <2>1, <2>2, <2>3 DEF FlowInv
<1>11. FilesFound' /\ KernelOverwritten'
  <2>1. ~smashed'
    BY <1>1 DEF KernelInv, FlowInv
  <2> QED BY <1>1, <2>1 DEF FilesFound, KernelOverwritten
<1>12. line' \in Lines \cup {<<>>}
  BY <1>1 DEF KernelInv
<1> QED BY <1>2, <1>9, <1>10, <1>11, <1>12 DEF KernelInv

\* Without an archive nothing of the above is lost.
LEMMA FilesAstrayKeeps ==
  ASSUME KernelInv, FilesAstray
  PROVE  KernelInv'
<1>1. /\ pc = "files" /\ pc' = "wild" /\ UNCHANGED tree_vars
      /\ UNCHANGED <<archive, low, addr, f, file_num, offset, smashed, line, out>>
  BY DEF FilesAstray, archive_vars
<1>2. TreeInv' /\ SpaceInv' /\ CpioInv' /\ low' \in LowStrings /\ (\E s \in Archives : archive = Write(s))'
  BY <1>1, TreeSame
<1>3. TableInv'
  <2>1. TableInv /\ f = [n \in Entries |-> f[n]]
    BY DEF KernelInv, TableInv
  <2> QED BY <1>1, <2>1, TableStays
<1>4. FlowInv' /\ ~smashed'
  BY <1>1 DEF KernelInv, FlowInv
<1>5. FilesFound' /\ KernelOverwritten'
  BY <1>1, <1>4 DEF FilesFound, KernelOverwritten
<1>6. line' \in Lines \cup {<<>>}
  BY <1>1 DEF KernelInv
<1> QED BY <1>2, <1>3, <1>4, <1>5, <1>6 DEF KernelInv

\* The trailer is met behind the last member, so the table is complete.
LEMMA BootMemoryKeeps ==
  ASSUME KernelInv, BootMemory
  PROVE  KernelInv'
<1>1. /\ pc = "files" /\ pc' = "idle" /\ AtHeader /\ AtEnd /\ UNCHANGED tree_vars
      /\ UNCHANGED <<archive, low, addr, f, file_num, offset, smashed, line, out>>
  BY DEF BootMemory, archive_vars, AtEnd
<1>2. TreeInv' /\ SpaceInv' /\ CpioInv' /\ low' \in LowStrings /\ (\E s \in Archives : archive = Write(s))'
  BY <1>1, TreeSame
<1>3. TableInv'
  <2>1. TableInv /\ f = [n \in Entries |-> f[n]]
    BY DEF KernelInv, TableInv
  <2> QED BY <1>1, <2>1, TableStays
<1>4. file_num = Len(Members)
  <2>1. PICK s \in Archives : archive = Write(s)
    BY DEF KernelInv
  <2>2. file_num = Len(s) /\ Members = s
    BY <2>1, <1>1, AtMember, ArchiveOf
  <2> QED BY <2>2
<1>5. FlowInv' /\ ~smashed' /\ out' = Nothing
  <2>1. Members' = Members
    BY <1>1 DEF Members
  <2> QED BY <1>1, <1>4, <2>1 DEF KernelInv, FlowInv
<1>6. FilesFound' /\ KernelOverwritten'
  BY <1>1, <1>5 DEF FilesFound, KernelOverwritten, Nothing
<1>7. line' \in Lines \cup {<<>>}
  BY <1>1 DEF KernelInv
<1> QED BY <1>2, <1>3, <1>5, <1>6, <1>7 DEF KernelInv

----------------------------------------------------------------------------
(* The commands *)

\* What a lookup ought to find does not change with the table.
LEMMA WalkSame ==
  ASSUME UNCHANGED <<archive, line>>
  PROVE  /\ HasParam' = HasParam /\ Small' = Small /\ Asked' = Asked /\ WalkList' = WalkList
         /\ WalkFind(Asked)' = WalkFind(Asked) /\ WalkCat(Asked)' = WalkCat(Asked)
<1>1. Blanks' = Blanks
  BY DEF Blanks
<1>2. HasParam' = HasParam
  BY <1>1 DEF HasParam
<1>3. Asked' = Asked
  BY <1>1 DEF Asked
<1>4. Members' = Members /\ Header' = Header
  BY DEF Members, Header
<1>5. Small' = Small
  BY <1>4 DEF Small
<1>6. \A x : NextHeader(x)' = NextHeader(x)
  BY <1>4 DEF NextHeader, HeaderPathname, FileSize
<1>7. Walk' = Walk
  BY <1>4, <1>6 DEF Walk
<1>8. WalkList' = WalkList
  BY <1>4, <1>7 DEF WalkList
<1>9. WalkFind(Asked)' = WalkFind(Asked)
  BY <1>3, <1>4, <1>7 DEF WalkFind, StringCompare
<1>10. WalkCat(Asked)' = WalkCat(Asked)
  BY <1>4, <1>9 DEF WalkCat, HeaderPathname, FileSize
<1> QED BY <1>2, <1>3, <1>5, <1>8, <1>9, <1>10

\* What the first parameter of a command may be.
LEMMA ParamIs ==
  ASSUME KernelInv
  PROVE  /\ HasParam => IsName(line) /\ Asked \in Seq(Nat) /\ Param(1) = {Asked}
         /\ Param(1) \subseteq Seq(Nat) /\ low \in Seq(Nat)
<1>1. HasParam => IsName(line)
  <2>1. ASSUME HasParam PROVE line # <<>>
    BY <2>1 DEF HasParam, Blanks
  <2> QED BY <2>1, KernelAssumption DEF KernelInv
<1>2. HasParam => IsName(line) /\ Asked \in Seq(Nat) /\ Param(1) = {Asked}
  BY <1>1, AskedIs
<1>3. ~HasParam => Param(1) = Unset
  <2>1. ASSUME ~HasParam PROVE ~(1 <= Cardinality(Blanks))
    <3>1. Cardinality(Blanks) = 0
      BY <2>1, FS_EmptySet DEF HasParam
    <3> QED BY <3>1
  <2> QED BY <2>1 DEF Param
<1>4. Param(1) \subseteq Seq(Nat)
  BY <1>2, <1>3, KernelAssumption
<1>5. low \in Seq(Nat)
  BY ArchiveAssumption DEF KernelInv
<1> QED BY <1>2, <1>4, <1>5

\* What a command does to the startup allocator.
Allocated ==
  /\ offset' \in 0 .. HeapBytes /\ offset' >= offset /\ f' = [n \in Entries |-> f'[n]]
  /\ \A n \in Entries : (n + 1) * EntrySize <= offset => f'[n] = f[n]

\* simple_malloc takes room behind what it has given.
LEMMA Takes ==
  ASSUME KernelInv, NEW sizes \in Seq(Nat), SimpleMalloc(sizes)
  PROVE  Allocated
<1>1. offset \in 0 .. HeapBytes
  BY DEF KernelInv, FlowInv
<1> QED BY <1>1, Allocates DEF Allocated

LEMMA TakesNothing ==
  ASSUME KernelInv, UNCHANGED <<f, offset>>
  PROVE  Allocated
<1>1. f = [n \in Entries |-> f[n]] /\ offset \in 0 .. HeapBytes
  BY DEF KernelInv, TableInv, FlowInv
<1> QED BY <1>1 DEF Allocated

\* The table, the archive and the tree stay as the boot has left them.
LEMMA Later ==
  ASSUME KernelInv, pc \in {"idle", "parse", "dtb"}, pc' \in {"idle", "parse", "dtb", "user", "wild"},
         TreeInv', SpaceInv', UNCHANGED <<cpio_addr, archive, low, addr, file_num>>, Allocated,
         smashed' \in BOOLEAN, pc' # "user" => ~smashed', line' \in Lines \cup {<<>>},
         FilesFound', KernelOverwritten'
  PROVE  KernelInv'
<1>1. CpioInv' /\ Members' = Members
  <2>1. Header' = Header /\ Members' = Members
    BY DEF Header, Members
  <2> QED BY <2>1 DEF KernelInv, CpioInv
<1>2. offset \in 0 .. HeapBytes /\ offset >= TableBytes /\ file_num = Len(Members) /\ addr \in Nat
  BY DEF KernelInv, FlowInv
<1>3. TableInv'
  <2>1. ASSUME NEW n \in Entries, n < MAX_FILE_NUM PROVE f'[n] = f[n]
    <3>1. offset \in Int
      BY <1>2
    <3>2. (n + 1) * EntrySize <= offset
      BY <3>1, <2>1, <1>2, BehindTable
    <3> QED BY <3>2 DEF Allocated
  <2> QED BY <2>1, TableStays DEF KernelInv, Allocated
<1>4. offset' \in 0 .. HeapBytes /\ offset' >= TableBytes
  <2>1. offset' \in 0 .. HeapBytes /\ offset' >= offset
    BY DEF Allocated
  <2> QED BY <2>1, <1>2, TableBound
<1>5. FlowInv'
  BY <1>1, <1>2, <1>4 DEF FlowInv
<1>6. (\E s \in Archives : archive = Write(s))' /\ low' \in LowStrings
  BY DEF KernelInv
<1> QED BY <1>1, <1>3, <1>5, <1>6 DEF KernelInv

\* A line takes room for its tasks.
LEMMA LineTypedKeeps ==
  ASSUME KernelInv, NEW l \in Lines, LineTyped(l)
  PROVE  KernelInv'
<1>1. /\ pc = "idle" /\ pc' = "parse" /\ line' = l /\ UNCHANGED tree_vars /\ cpio_addr' = cpio_addr
      /\ SimpleMalloc(<<64 * (Len(l) + 1)>>) /\ UNCHANGED <<archive, low, addr, file_num, smashed>>
  BY DEF LineTyped, LineTasks, tree_vars
<1>2. TreeInv' /\ SpaceInv'
  BY <1>1, TreeSame
<1>3. Allocated
  <2>1. l \in Seq(Nat)
    BY KernelAssumption DEF IsName
  <2>2. Len(l) \in Nat
    BY <2>1
  <2> DEFINE k == Len(l)
  <2> HIDE DEF k
  <2>3. k \in Nat => 64 * (k + 1) \in Nat
    OBVIOUS
  <2>4. <<64 * (Len(l) + 1)>> \in Seq(Nat)
    BY <2>2, <2>3 DEF k
  <2> QED BY <2>4, <1>1, Takes
<1>4. smashed' = FALSE
  BY <1>1 DEF KernelInv, FlowInv
<1>5. FilesFound' /\ KernelOverwritten'
  BY <1>1, <1>4 DEF FilesFound, KernelOverwritten
<1> QED BY <1>1, <1>2, <1>3, <1>4, <1>5, Later

LEMMA Returns == Return \in {"idle", "wild"}
BY DEF Return

\* A command that only prints and allocates.
LEMMA PrintsKeeps ==
  ASSUME KernelInv, pc \in {"parse", "dtb"}, pc' = Return,
         UNCHANGED <<tree_vars, archive, low, addr, file_num, smashed, line>>, Allocated,
         out'.kind \in {"text", "timer"}
  PROVE  KernelInv'
<1>1. UNCHANGED tree_vars /\ UNCHANGED <<archive, low, addr, file_num>> /\ cpio_addr' = cpio_addr
  BY DEF tree_vars
<1>2. TreeInv' /\ SpaceInv'
  BY <1>1, TreeSame
<1>3. smashed' = FALSE /\ line' \in Lines \cup {<<>>}
  BY DEF KernelInv, FlowInv
<1>4. FilesFound' /\ KernelOverwritten'
  BY <1>3 DEF FilesFound, KernelOverwritten
<1> QED BY <1>1, <1>2, <1>3, <1>4, Later, Returns

LEMMA TimerTakes ==
  ASSUME NEW n \in Nat
  PROVE  TimerSizes(n) \in Seq(Nat)
BY DEF TimerSizes

\* timer, settimeout, malloc, and the commands that only print.
LEMMA TextKeeps ==
  ASSUME KernelInv, Timer \/ SetTimeout \/ Malloc \/ DtbDone \/ Other
  PROVE  KernelInv'
<1>1. CASE Timer
  <2>1. /\ pc = "parse" /\ pc' = Return /\ out' = [kind |-> "text"]
        /\ UNCHANGED <<tree_vars, archive, low, addr, file_num, smashed, line>>
        /\ SimpleMalloc(TimerSizes(12) \o TimerSizes(12) \o TimerSizes(12))
    BY <1>1 DEF Timer, Run
  <2>2. TimerSizes(12) \o TimerSizes(12) \o TimerSizes(12) \in Seq(Nat)
    BY TimerTakes, Joined
  <2>3. Allocated
    BY <2>1, <2>2, Takes
  <2> QED BY <2>1, <2>3, PrintsKeeps
<1>2. CASE SetTimeout
  <2>1. PICK m \in Param(1), s \in Param(2) :
          /\ SimpleMalloc(TimerSizes(Len(m)))
          /\ out' = [kind |-> "timer", message |-> m, seconds |-> Atoi(s, Len(s))]
    BY <1>2 DEF SetTimeout
  <2>2. /\ pc = "parse" /\ pc' = Return
        /\ UNCHANGED <<tree_vars, archive, low, addr, file_num, smashed, line>>
    BY <1>2 DEF SetTimeout, Run
  <2>3. m \in Seq(Nat)
    BY ParamIs
  <2>4. TimerSizes(Len(m)) \in Seq(Nat)
    BY <2>3, TimerTakes
  <2>5. Allocated
    BY <2>1, <2>4, Takes
  <2>6. out'.kind \in {"text", "timer"}
    BY <2>1
  <2> QED BY <2>2, <2>5, <2>6, PrintsKeeps
<1>3. CASE Malloc
  <2>1. /\ pc = "parse" /\ pc' = Return /\ out' = [kind |-> "text"] /\ SimpleMalloc(<<5, 4>>)
        /\ UNCHANGED <<tree_vars, archive, low, addr, file_num, smashed, line>>
    BY <1>3 DEF Malloc, Run
  <2>2. <<5, 4>> \in Seq(Nat)
    OBVIOUS
  <2>3. Allocated
    BY <2>1, <2>2, Takes
  <2> QED BY <2>1, <2>3, PrintsKeeps
<1>4. CASE DtbDone \/ Other
  <2>1. /\ pc \in {"parse", "dtb"} /\ pc' = Return /\ out' = [kind |-> "text"]
        /\ UNCHANGED <<tree_vars, archive, low, addr, file_num, smashed, line>>
        /\ UNCHANGED <<f, offset>>
    BY <1>4 DEF DtbDone, Other, archive_vars
  <2>2. Allocated
    BY <2>1, TakesNothing
  <2> QED BY <2>1, <2>2, PrintsKeeps
<1> QED BY <1>1, <1>2, <1>3, <1>4

\* The command dtb begins a traversal.
LEMMA DtbKeeps ==
  ASSUME KernelInv, Dtb
  PROVE  KernelInv'
<1>1. /\ pc = "parse" /\ pc' = "dtb" /\ Traverse("print_dtb")
      /\ UNCHANGED <<archive, low, addr, file_num, smashed, line>> /\ UNCHANGED <<f, offset>>
  BY DEF Dtb, Run, archive_vars
<1>2. TreeInv' /\ SpaceInv'
  BY <1>1, TraverseKeeps, TraverseIndents DEF KernelInv
<1>3. Allocated
  BY <1>1, TakesNothing
<1>4. cpio_addr' = cpio_addr
  BY <1>1 DEF Traverse
<1>5. smashed' = FALSE /\ line' \in Lines \cup {<<>>}
  BY <1>1 DEF KernelInv, FlowInv
<1>6. FilesFound' /\ KernelOverwritten'
  BY <1>1, <1>5 DEF FilesFound, KernelOverwritten
<1> QED BY <1>1, <1>2, <1>3, <1>4, <1>5, <1>6, Later

\* A program traps; nothing of the kernel has been overwritten.
LEMMA UserTrapKeeps ==
  ASSUME KernelInv, UserTrap
  PROVE  KernelInv'
<1>1. /\ pc = "user" /\ pc' = "stopped" /\ ~smashed /\ UNCHANGED tree_vars
      /\ UNCHANGED <<archive, low, addr, f, file_num, offset, smashed, line, out>>
  BY DEF UserTrap, archive_vars
<1>2. TreeInv' /\ SpaceInv' /\ CpioInv' /\ low' \in LowStrings /\ (\E s \in Archives : archive = Write(s))'
  BY <1>1, TreeSame
<1>3. TableInv'
  <2>1. TableInv /\ f = [n \in Entries |-> f[n]]
    BY DEF KernelInv, TableInv
  <2> QED BY <1>1, <2>1, TableStays
<1>4. FlowInv' /\ ~smashed'
  <2>1. Members' = Members
    BY <1>1 DEF Members
  <2> QED BY <1>1, <2>1 DEF KernelInv, FlowInv
<1>5. FilesFound' /\ KernelOverwritten'
  BY <1>1, <1>4 DEF FilesFound, KernelOverwritten
<1>6. line' \in Lines \cup {<<>>}
  BY <1>1 DEF KernelInv
<1> QED BY <1>2, <1>3, <1>4, <1>5, <1>6 DEF KernelInv

\* What a lookup comes to after the boot.
LEMMA Found ==
  ASSUME KernelInv, pc = "parse", Small, NEW name \in Param(1), NEW n \in FindFile(name)
  PROVE  (HasParam => name = Asked) /\ Same(n, name)
<1>1. name \in Seq(Nat) /\ low \in Seq(Nat) /\ (HasParam => name = Asked)
  BY ParamIs
<1>2. PICK s \in Archives : archive = Write(s)
  BY DEF KernelInv
<1>3. file_num = Len(s) /\ TableInv
  <2>1. Members = s
    BY <1>2, ArchiveOf
  <2> QED BY <2>1 DEF KernelInv, FlowInv
<1> QED BY <1>1, <1>2, <1>3, Lookup

\* cat prints the bytes of the file that was named, if there is one.
LEMMA CatKeeps ==
  ASSUME KernelInv, CatFile
  PROVE  KernelInv'
<1>1. /\ pc = "parse" /\ pc' = Return /\ UNCHANGED tree_vars /\ cpio_addr' = cpio_addr
      /\ UNCHANGED <<archive, low, addr, file_num, smashed, line>> /\ UNCHANGED <<f, offset>>
  BY DEF CatFile, Run, archive_vars, tree_vars
<1>2. TreeInv' /\ SpaceInv'
  BY <1>1, TreeSame
<1>3. Allocated
  BY <1>1, TakesNothing
<1>4. smashed' = FALSE /\ line' \in Lines \cup {<<>>}
  BY <1>1 DEF KernelInv, FlowInv
<1>5. KernelOverwritten'
  BY <1>4 DEF KernelOverwritten
<1>6. PICK name \in Param(1) : \E n \in FindFile(name) : out' = Cat(n)
  BY DEF CatFile
<1>7. PICK n \in FindFile(name) : out' = Cat(n)
  BY <1>6
<1>8. /\ HasParam' = HasParam /\ Small' = Small /\ Asked' = Asked /\ low' = low
      /\ WalkCat(Asked)' = WalkCat(Asked)
  BY <1>1, WalkSame
<1>9. ASSUME Small
      PROVE  /\ out'.kind \in {"file", "none", "zero"}
             /\ HasParam /\ Asked # low => out' = WalkCat(Asked)
  <2>1. (HasParam => name = Asked) /\ Same(n, name)
    BY <1>1, <1>9, Found
  <2>2. CASE n = -1 /\ WalkCat(name) = [kind |-> "none"]
    <3>1. out' = [kind |-> "none"]
      BY <1>7, <2>2 DEF Cat
    <3> QED BY <2>1, <2>2, <3>1
  <2>3. CASE n \in Nat /\ f[n] = Zero /\ low = name
    <3>1. f[n].kind = "zero" /\ n # -1
      BY <2>3 DEF Zero
    <3>2. out' = [kind |-> "zero"]
      BY <1>7, <3>1 DEF Cat
    <3> QED BY <2>1, <2>3, <3>2
  <2>4. CASE /\ n \in Nat /\ f[n].kind = "file"
             /\ WalkCat(name) = [kind |-> "file", at |-> f[n].content, size |-> f[n].size]
    <3>1. n # -1
      BY <2>4
    <3>2. out' = [kind |-> "file", at |-> f[n].content, size |-> f[n].size]
      BY <1>7, <2>4, <3>1 DEF Cat
    <3> QED BY <2>1, <2>4, <3>2
  <2> QED BY <2>1, <2>2, <2>3, <2>4 DEF Same
<1>10. FilesFound'
  BY <1>8, <1>9 DEF FilesFound
<1> QED BY <1>1, <1>2, <1>3, <1>4, <1>5, <1>10, Later, Returns

\* exec overwrites the kernel only with a program that is too large.
LEMMA ExecKeeps ==
  ASSUME KernelInv, ExecProgram
  PROVE  KernelInv'
<1>1. /\ pc = "parse" /\ pc' = "user" /\ UNCHANGED <<tree_vars, line>> /\ UNCHANGED tree_vars
      /\ cpio_addr' = cpio_addr
  BY DEF ExecProgram, Run, tree_vars
<1>2. PICK name \in Param(1) : \E n \in FindFile(name) : Exec(n)
  BY DEF ExecProgram
<1>3. PICK n \in FindFile(name) : Exec(n)
  BY <1>2
<1>4. smashed' \in Overwrites(n) /\ SimpleMalloc(<<4096>>) /\ UNCHANGED <<archive, low, addr, file_num>>
  BY <1>3 DEF Exec
<1>5. TreeInv' /\ SpaceInv'
  BY <1>1, <1>4, TreeSame
<1>6. Allocated
  <2> DEFINE sizes == <<4096>>
  <2>1. sizes \in Seq(Nat)
    OBVIOUS
  <2>2. SimpleMalloc(sizes)
    BY <1>4
  <2> HIDE DEF sizes
  <2> QED BY <2>1, <2>2, Takes
<1>7. smashed' \in BOOLEAN /\ line' \in Lines \cup {<<>>}
  <2>1. Overwrites(n) \subseteq BOOLEAN
    BY DEF Overwrites
  <2> QED BY <2>1, <1>1, <1>4 DEF KernelInv
<1>8. /\ HasParam' = HasParam /\ Small' = Small /\ WalkFind(Asked)' = WalkFind(Asked)
      /\ WalkCat(Asked)' = WalkCat(Asked)
  BY <1>1, <1>4, WalkSame
<1>9. ASSUME smashed', HasParam, Small, WalkFind(Asked) # 0
      PROVE  ProgramAt + WalkCat(Asked).size > KernelAt
  <2>1. name = Asked /\ Same(n, name)
    BY <1>1, <1>9, Found
  <2>2. /\ n \in Nat /\ f[n].kind = "file" /\ n # -1
        /\ WalkCat(name) = [kind |-> "file", at |-> f[n].content, size |-> f[n].size]
    BY <2>1, <1>9 DEF Same
  <2>3. ProgramAt + f[n].size > KernelAt
    <3>1. Overwrites(n) = {f[n].kind = "file" /\ ProgramAt + f[n].size > KernelAt}
      <4>1. f[n].kind # "junk"
        BY <2>2
      <4> QED BY <2>2, <4>1 DEF Overwrites
    <3>2. smashed' = (f[n].kind = "file" /\ ProgramAt + f[n].size > KernelAt)
      BY <1>4, <3>1
    <3> QED BY <3>2, <1>9
  <2> QED BY <2>1, <2>2, <2>3
<1>10. KernelOverwritten'
  BY <1>8, <1>9 DEF KernelOverwritten
<1>11. FilesFound'
  BY <1>1 DEF FilesFound
<1> QED BY <1>1, <1>4, <1>5, <1>6, <1>7, <1>10, <1>11, Later

\* ls lists the members first.
LEMMA LsKeeps ==
  ASSUME KernelInv, Ls
  PROVE  KernelInv'
<1>1. /\ pc = "parse" /\ pc' = Return /\ UNCHANGED tree_vars /\ cpio_addr' = cpio_addr
      /\ UNCHANGED <<archive, low, addr, file_num, smashed, line>> /\ UNCHANGED <<f, offset>>
      /\ out' = [kind |-> "list", names |-> Listed]
  BY DEF Ls, Run, archive_vars, tree_vars
<1>2. TreeInv' /\ SpaceInv'
  BY <1>1, TreeSame
<1>3. Allocated
  BY <1>1, TakesNothing
<1>4. smashed' = FALSE /\ line' \in Lines \cup {<<>>}
  BY <1>1 DEF KernelInv, FlowInv
<1>5. KernelOverwritten'
  BY <1>4 DEF KernelOverwritten
<1>6. Small' = Small /\ WalkList' = WalkList
  BY <1>1, WalkSame
<1>7. ASSUME Small
      PROVE  IsPrefix(WalkList, Listed)
  <2>1. PICK s \in Archives : archive = Write(s)
    BY DEF KernelInv
  <2> DEFINE n == Len(s)
  <2>2. /\ n \in Nat /\ n <= MaxMembers /\ MaxMembers \in Nat /\ Members = s /\ file_num = n
        /\ n < MAX_FILE_NUM
    <3>1. /\ n \in Nat /\ n <= MaxMembers /\ MaxMembers \in Nat /\ Members = s
      BY <2>1, ArchiveOf
    <3>2. file_num = Len(Members) /\ Len(Members) < MAX_FILE_NUM
      BY <1>1, <1>7 DEF KernelInv, FlowInv, Small
    <3> QED BY <3>1, <3>2
  <2>3. WalkList = [k \in 1 .. n |-> Header[Walk[k - 1]].name]
    BY <2>2 DEF WalkList
  <2>4. Listed = [k \in 1 .. n + 1 |->
                    CASE f[k - 1].kind = "file" -> Header[f[k - 1].header].name
                      [] f[k - 1].kind = "zero" -> low
                      [] OTHER -> <<>>]
    BY <2>2 DEF Listed
  <2>5. \A k \in 0 .. Len(s) : Walk[k] = archive.start[k + 1]
    BY <2>1, WalkIs
  <2> HIDE DEF n
  <2>6. ASSUME NEW k \in 1 .. n PROVE WalkList[k] = Listed[k]
    <3>1. k \in 1 .. n + 1 /\ k - 1 \in 0 .. n /\ (k - 1) + 1 = k /\ k - 1 \in Entries
          /\ k - 1 < MAX_FILE_NUM /\ k - 1 < n
      BY <2>2, ArchiveAssumption DEF Entries
    <3>2. f[k - 1] = Listing(k) /\ Walk[k - 1] = archive.start[k]
      BY <3>1, <2>2, <2>5 DEF KernelInv, TableInv, n
    <3>3. f[k - 1].kind = "file" /\ f[k - 1].header = archive.start[k]
      BY <3>2 DEF Listing
    <3> QED BY <3>1, <3>2, <3>3, <2>3, <2>4
  <2> DEFINE u == WalkList
             v == Listed
  <2>7. Len(u) = n /\ Len(v) = n + 1
    BY <2>2, <2>3, <2>4
  <2> HIDE DEF u, v
  <2>8. SubSeq(u, 1, n) = [k \in 1 .. n |-> u[k]] /\ SubSeq(v, 1, n) = [k \in 1 .. n |-> v[k]]
    <3>1. \A k \in 1 .. n : 1 + k - 1 = k
      BY <2>2
    <3> QED BY <3>1, <2>2
  <2>9. SubSeq(u, 1, n) = SubSeq(v, 1, n)
    BY <2>6, <2>8 DEF u, v
  <2>10. n <= n + 1
    BY <2>2
  <2>11. IsPrefix(u, v)
    BY <2>7, <2>9, <2>10 DEF IsPrefix
  <2> QED BY <2>11 DEF u, v
<1>8. FilesFound'
  <2>1. out'.kind = "list" /\ out'.names = Listed
    BY <1>1
  <2> QED BY <1>6, <1>7, <2>1 DEF FilesFound
<1> QED BY <1>1, <1>2, <1>3, <1>4, <1>5, <1>8, Later, Returns

----------------------------------------------------------------------------
(* The theorems *)

\* Every step of the kernel keeps the invariant.
LEMMA KernelStays == KernelInv /\ [Next]_vars => KernelInv'
<1> SUFFICES ASSUME KernelInv, [Next]_vars PROVE KernelInv'
  OBVIOUS
<1>1. CASE BootTree
  BY <1>1, BootTreeKeeps
<1>2. CASE BootFiles
  BY <1>2, BootFilesKeeps
<1>3. CASE FilesStep
  BY <1>3, FilesStepKeeps
<1>4. CASE FilesAstray
  BY <1>4, FilesAstrayKeeps
<1>5. CASE BootMemory
  BY <1>5, BootMemoryKeeps
<1>6. CASE TreeStep
  BY <1>6, TreeStepKeeps
<1>7. CASE Timer \/ SetTimeout \/ Malloc \/ DtbDone \/ Other
  BY <1>7, TextKeeps
<1>8. CASE Ls
  BY <1>8, LsKeeps
<1>9. CASE CatFile
  BY <1>9, CatKeeps
<1>10. CASE ExecProgram
  BY <1>10, ExecKeeps
<1>11. CASE UserTrap
  BY <1>11, UserTrapKeeps
<1>12. CASE Dtb
  BY <1>12, DtbKeeps
<1>13. CASE \E l \in Lines : LineTyped(l)
  BY <1>13, LineTypedKeeps
<1>14. CASE UNCHANGED vars
  <2>1. /\ UNCHANGED tree_vars
        /\ UNCHANGED <<archive, low, addr, f, file_num, offset, smashed, pc, line, out>>
    BY <1>14 DEF vars, archive_vars
  <2>2. TreeInv' /\ SpaceInv' /\ CpioInv' /\ low' \in LowStrings /\ (\E s \in Archives : archive = Write(s))'
    BY <2>1, TreeSame
  <2>3. TableInv'
    <3>1. TableInv /\ f = [n \in Entries |-> f[n]]
      BY DEF KernelInv, TableInv
    <3> QED BY <2>1, <3>1, TableStays
  <2>4. FlowInv'
    <3>1. Members' = Members /\ Header' = Header /\ cpio_addr' = cpio_addr
      BY <2>1 DEF Members, Header, tree_vars
    <3> QED BY <2>1, <3>1 DEF KernelInv, FlowInv
  <2>5. FilesFound' /\ KernelOverwritten'
    <3>1. /\ HasParam' = HasParam /\ Small' = Small /\ Asked' = Asked /\ WalkList' = WalkList
          /\ WalkFind(Asked)' = WalkFind(Asked) /\ WalkCat(Asked)' = WalkCat(Asked)
      BY <2>1, WalkSame
    <3>2. FilesFound'
      BY <2>1, <3>1 DEF KernelInv, FilesFound
    <3>3. KernelOverwritten'
      BY <2>1, <3>1 DEF KernelInv, KernelOverwritten
    <3> QED BY <3>2, <3>3
  <2>6. line' \in Lines \cup {<<>>}
    BY <2>1 DEF KernelInv
  <2> QED BY <2>2, <2>3, <2>4, <2>5, <2>6 DEF KernelInv
<1> QED
  BY <1>1, <1>2, <1>3, <1>4, <1>5, <1>6, <1>7, <1>8, <1>9, <1>10, <1>11, <1>12, <1>13, <1>14
  DEF Next, Kernel, Boot, Command

\* The walk, the table and the lookups stand as KernelInv says, in every state.
THEOREM Invariance == Spec => []KernelInv
<1> QED BY KernelStarts, KernelStays, PTL DEF Spec

\* Every variable keeps its type: no pointer and no counter leaves its range.
THEOREM TypeCorrect == Spec => []TypeOK
<1>1. KernelInv => TypeOK
  <2> SUFFICES ASSUME KernelInv PROVE TypeOK
    OBVIOUS
  <2>1. file_num \in 0 .. MaxMembers
    <3>1. PICK s \in Archives : archive = Write(s)
      BY DEF KernelInv
    <3>2. Members = s /\ Len(s) \in Nat /\ Len(s) <= MaxMembers /\ MaxMembers \in Nat
      BY <3>1, ArchiveOf
    <3>3. file_num \in 0 .. Len(s)
      BY <3>2 DEF KernelInv, TableInv
    <3> QED BY <3>2, <3>3
  <2> QED BY <2>1 DEF KernelInv, TreeInv, SpaceInv, CpioInv, FlowInv, TypeOK
<1> QED BY <1>1, Invariance, PTL

\* parse_struct hands the callback the items of every tree as the compiler has
\* written them: no name, value or padding of any length is taken for a token.
THEOREM TreeFollowed == Spec => []FollowsTree
<1>1. KernelInv => FollowsTree
  BY InvFollows DEF KernelInv
<1> QED BY <1>1, Invariance, PTL

\* print_dtb's global indentation is the depth, in every traversal of a sound
\* tree, and never less than the depth in one of a damaged tree.
THEOREM IndentRight == Spec => []IndentIsDepth
<1>1. KernelInv => IndentIsDepth
  BY DEF KernelInv, SpaceInv
<1> QED BY <1>1, Invariance, PTL

\* The table that the boot makes says where cpio has put each member, with names
\* and contents of any length, and nothing that is allocated later is written
\* over it.
THEOREM TableRight == Spec => []TableIsArchive
<1>1. KernelInv => TableIsArchive
  <2> SUFFICES ASSUME KernelInv, NEW n \in 0 .. file_num - 1, n < MAX_FILE_NUM
               PROVE  f[n] = Listing(n + 1)
    BY DEF TableIsArchive, Listing
  <2>1. PICK s \in Archives : archive = Write(s)
    BY DEF KernelInv
  <2>2. Members = s /\ Len(s) \in Nat /\ Len(s) <= MaxMembers /\ MaxMembers \in Nat
    BY <2>1, ArchiveOf
  <2>3. file_num \in 0 .. Len(s)
    BY <2>2 DEF KernelInv, TableInv
  <2>4. n \in Entries /\ n < file_num
    BY <2>2, <2>3 DEF Entries
  <2> QED BY <2>4 DEF KernelInv, TableInv
<1> QED BY <1>1, Invariance, PTL

\* A lookup through the table finds what a walk over the archive would.
THEOREM LookupRight == Spec => []FilesFound
<1>1. KernelInv => FilesFound
  BY DEF KernelInv
<1> QED BY <1>1, Invariance, PTL

\* exec overwrites the kernel only when it is given no name, a name that is not in
\* the archive, a program too large for the space below the kernel, or an archive
\* with more files than the table holds.
THEOREM KernelSafe == Spec => []KernelOverwritten
<1>1. KernelInv => KernelOverwritten
  BY DEF KernelInv
<1> QED BY <1>1, Invariance, PTL

\* The tree is no larger than buddy_system_init takes for granted.
LEMMA BlobEnds ==
  ASSUME NEW b \in Blobs
  PROVE  Flatten(b).totalsize \in Nat /\ Flatten(b).totalsize <= 60000
<1> DEFINE t == b.tree
           c == Codes(t)
<1>1. Len(t) \in Nat /\ DOMAIN t = 1 .. Len(t) /\ \A i \in 1 .. Len(t) : IsItem(t[i])
  BY TreeOf
<1> HIDE DEF t
<1>2. c \in Seq(Seq(Memory))
  <2>1. \A i \in 1 .. Len(t) : Encode(t[i]) \in Seq(Memory)
    BY <1>1, EncodeItem
  <2> QED BY <2>1, <1>1 DEF Codes
<1> HIDE DEF c
<1>3. FlattenSeq(c) \in Seq(Memory)
  BY <1>2, FlatParts
<1>4. Len(FlattenSeq(c)) \in Nat /\ Len(Strings) \in Nat
  BY <1>3, TreeAssumption DEF IsWord
<1>5. Flatten(b).totalsize = 40 + Len(FlattenSeq(c)) + Len(Strings)
  BY DEF Flatten, Codes, c, t
<1>6. Flatten(b).totalsize <= 60000
  BY KernelAssumption DEF DtbBytes
<1> DEFINE x == Len(FlattenSeq(c))
           y == Len(Strings)
<1>7. x \in Nat /\ y \in Nat
  BY <1>4
<1> HIDE DEF x, y
<1>8. 40 + x + y \in Nat
  BY <1>7
<1> QED BY <1>5, <1>6, <1>8 DEF x, y

\* When the page allocator starts, the pages of what is in use are marked, an
\* archive of more than the 30000 bytes that buddy_system_init assumes excepted.
THEOREM MemoryReserved == Spec => MemoryKept
<1> DEFINE Step ==
      pc = "files" /\ pc' = "idle" =>
        \A r \in {x \in InUse : x.start = Base => x.end - Base <= 30000} : Kept(reserved', r)
<1>1. ASSUME KernelInv, Next PROVE Step
  <2> SUFFICES ASSUME pc = "files", pc' = "idle",
                      NEW r \in InUse, r.start = Base => r.end - Base <= 30000
               PROVE  Kept(reserved', r)
    OBVIOUS
  <2>1. BootMemory
    BY <1>1 DEF Next, Kernel, Boot, Command, BootTree, BootFiles, FilesStep, FilesAstray,
             TreeStep, Timer, SetTimeout, Malloc, Ls, CatFile, ExecProgram, UserTrap, Dtb, DtbDone,
             Other, LineTyped, Run
  <2>2. AtEnd /\ AtHeader /\ reserved' = Ranges(cpio_addr, DtbAt)
    BY <2>1 DEF BootMemory, AtEnd
  <2>3. PICK s \in Archives : archive = Write(s)
    BY <1>1 DEF KernelInv
  <2>4. cpio_addr = Base /\ Base \in Nat /\ archive.end \in Nat
    BY <1>1, <2>2, <2>3, AtMember, ArchiveOf, ArchiveAssumption
  <2>5. PICK b \in Blobs : blob = Flatten(b)
    BY <1>1 DEF KernelInv, TreeInv
  <2> DEFINE d == DtbAt + blob.totalsize
  <2>6. d \in Nat /\ d <= DtbAt + 60000 /\ DtbAt \in Nat
    <3>1. blob.totalsize \in Nat /\ blob.totalsize <= 60000 /\ DtbAt \in Nat
      BY <2>5, BlobEnds, KernelAssumption
    <3> QED BY <3>1
  <2>7. ImageEnd \in Nat /\ ImageEnd <= 524288 + 30000
    BY KernelAssumption
  <2>8. r \in {Tables, From(0, 524288), From(524288, ImageEnd), From(Base, archive.end), From(DtbAt, d)}
    BY DEF InUse
  <2> HIDE DEF d
  <2> DEFINE Ours(e) == {Tables, From(0, 524288), From(524288, ImageEnd), From(Base, e), From(DtbAt, d)}
  <2>9. ASSUME NEW e \in Nat, e <= Base + 30000
        PROVE  \A x \in Ours(e) : Kept(Ranges(Base, DtbAt), x)
    BY <2>4, <2>6, <2>7, <2>9, InUseKept
  <2>10. CASE r = From(Base, archive.end)
    <3>1. archive.end <= Base + 30000
      <4>1. r.start = Base /\ r.end = archive.end
        BY <2>10 DEF From
      <4>2. archive.end - Base <= 30000
        BY <4>1
      <4> QED BY <4>2, <2>4
    <3>2. r \in Ours(archive.end)
      BY <2>10
    <3> QED BY <2>2, <2>4, <2>9, <3>1, <3>2
  <2>11. CASE r # From(Base, archive.end)
    <3>1. r \in Ours(Base)
      BY <2>8, <2>11
    <3>2. Base <= Base + 30000
      BY <2>4
    <3> QED BY <2>2, <2>4, <2>9, <3>1, <3>2
  <2> QED BY <2>10, <2>11
<1>2. KernelInv /\ [Next]_vars => [Step]_vars
  BY <1>1
<1> QED BY <1>2, Invariance, PTL DEF Spec, MemoryKept
=============================================================================
