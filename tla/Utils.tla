------------------------------- MODULE Utils -------------------------------
(***************************************************************************)
(* utils.c: alignment, strings in memory and hexadecimal numbers.  Memory  *)
(* is a function from addresses to bytes (or to characters); a string is   *)
(* what lies before the first NUL.                                         *)
(***************************************************************************)
EXTENDS Integers, Sequences

CONSTANT NUL      \* the terminating zero

\* Mutant: rounds down.
AlignDown(x, a) == (x \div a) * a

\* utils_align, utils_align_up and utils_ret_align, for a power of two: the
\* least multiple of a not below x.
AlignUp(x, a) == ((x + a - 1) \div a) * a

\* utils_ret_align is the same on addresses.
RetAlign(addr, a) == AlignUp(addr, a)

\* No string here is longer, with its terminator.
MaxString == 1000

\* utils_strlen: with the terminator.
Strlen(mem, p) ==
  CHOOSE n \in 1 .. MaxString : mem[p + n - 1] = NUL /\ \A i \in 0 .. n - 2 : mem[p + i] # NUL

\* The characters of the string at p.
StringAt(mem, p) == [i \in 1 .. Strlen(mem, p) - 1 |-> mem[p + i - 1]]

\* utils_string_compare walks both strings to the first difference.
StringCompare(s, t) ==
  \A i \in 1 .. IF Len(s) > Len(t) THEN Len(s) ELSE Len(t) :
    i <= Len(s) /\ i <= Len(t) /\ s[i] = t[i]

\* Any other character counts as a zero.
Digit(c) ==
  CASE c \in 48 .. 57  -> c - 48
    [] c \in 65 .. 70  -> c - 55
    [] c \in 97 .. 102 -> c - 87
    [] OTHER -> 0

\* utils_atoi reads char_size characters in base 16, whatever they are.
Atoi(s, char_size) ==
  LET num[i \in 0 .. char_size] == IF i = 0 THEN 0 ELSE num[i - 1] * 16 + Digit(s[i])
  IN num[char_size]

\* uart_hex and uart_binary_to_hex: eight digits; ten is the code of the tenth
\* digit less 10.
Hex(d, ten) ==
  [i \in 1 .. 8 |-> LET n == (d \div 16 ^ (8 - i)) % 16
                    IN n + IF n > 9 THEN ten ELSE 48]
=============================================================================
