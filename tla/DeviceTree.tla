----------------------------- MODULE DeviceTree -----------------------------
(***************************************************************************)
(* dtb.c: the walk over a flattened device tree.  The tree lies in memory  *)
(* as a structure block of big-endian words, names and values, and a block *)
(* of property names; parse_struct tells one from the other only by        *)
(* counting, and calls a callback for each token.  Two callbacks: the boot *)
(* looks for the archive, the command dtb prints the tree.                 *)
(*                                                                         *)
(* A blob is [magic, struct, strings]: whether the first word is 0xd00dfeed*)
(* and the two blocks as bytes.  Flatten is the compiler that writes it.   *)
(***************************************************************************)
EXTENDS Utils, SequencesExt, FiniteSets

CONSTANTS
  Blobs,        \* what may lie at _dtb_ptr: [magic, tree]; see Flatten
  PropNames,    \* sequence of the property names in the strings block
  InitrdStart   \* the name "linux,initrd-start"

VARIABLES
  blob,       \* what lies at _dtb_ptr
  cb,         \* the callback of the traversal that runs, or "none"
  cur,        \* cur_ptr, from the start of the structure block
  calls,      \* tokens handed to the callback by this traversal
  space,      \* the indentation of print_dtb, kept across traversals
  cpio_addr   \* 0 until the property is found

tree_vars == <<blob, cb, cur, calls, space, cpio_addr>>

Tokens == [begin |-> 1, end |-> 2, prop |-> 3, nop |-> 4, last |-> 9]

----------------------------------------------------------------------------
(* The compiler's side: trees are well nested sequences of items. *)

Begin(n)   == [token |-> Tokens.begin, name |-> n, data |-> <<>>]
Prop(n, d) == [token |-> Tokens.prop, name |-> n, data |-> d]
EndNode    == [token |-> Tokens.end, name |-> <<>>, data |-> <<>>]
Nop        == [token |-> Tokens.nop, name |-> <<>>, data |-> <<>>]
End        == [token |-> Tokens.last, name |-> <<>>, data |-> <<>>]

\* Not the compiler's: memory that something else has been written to.
Damage     == [token |-> 0, name |-> <<>>, data |-> <<>>]

BigEndian(n) == <<n \div 2^24, (n \div 2^16) % 256, (n \div 2^8) % 256, n % 256>>

Padded(s) == s \o [i \in 1 .. (-Len(s)) % 4 |-> NUL]

\* Where a property's name lies in the strings block.
Strings   == FlattenSeq([i \in DOMAIN PropNames |-> Append(PropNames[i], NUL)])
NameOff(n) ==
  LET i == CHOOSE j \in DOMAIN PropNames : PropNames[j] = n
  IN Len(FlattenSeq([j \in 1 .. i - 1 |-> Append(PropNames[j], NUL)]))

Encode(it) ==
  BigEndian(it.token) \o
    (CASE it.token = Tokens.begin -> Padded(Append(it.name, NUL))
       [] it.token = Tokens.prop ->
            BigEndian(Len(it.data)) \o BigEndian(NameOff(it.name)) \o Padded(it.data)
       [] OTHER -> <<>>)

\* Nodes open after the first i items of tree t.
Opened(t, i) ==
  LET n(k) == Cardinality({j \in 1 .. i : t[j].token = k})
  IN n(Tokens.begin) - n(Tokens.end)

Flatten(b) ==
  LET s == FlattenSeq([i \in DOMAIN b.tree |-> Encode(b.tree[i])])
  IN [magic |-> b.magic, tree |-> b.tree,
      \* memory from struct_ptr on, and the length of the whole blob
      struct |-> [a \in 0 .. Len(s) - 1 |-> s[a + 1]],
      strings |-> [a \in 0 .. Len(Strings) - 1 |-> Strings[a + 1]],
      totalsize |-> 40 + Len(s) + Len(Strings)]

\* A number that four bytes hold.
IsWord(n) == n \in Nat /\ n \div 2^24 < 256

IsName(n) == n \in Seq(Nat) /\ Len(n) < MaxString /\ NUL \notin Range(n)

IsItem(it) ==
  \/ it = Begin(it.name) /\ IsName(it.name)
  \/ /\ it = Prop(it.name, it.data) /\ it.name \in Range(PropNames)
     /\ it.data \in Seq(0 .. 255) /\ IsWord(Len(it.data))
  \/ it \in {EndNode, Nop, End, Damage}

\* What the compiler is given: items that end with End, in which no node ends
\* before it begins, and all that begin end, if nothing is damaged.
IsTree(t) ==
  /\ t # <<>> /\ \A i \in DOMAIN t : IsItem(t[i]) /\ (t[i] = End <=> i = Len(t))
  /\ \A i \in DOMAIN t : Opened(t, i) >= 0
  /\ Damage \notin Range(t) => Opened(t, Len(t)) = 0

ASSUME TreeAssumption ==
  /\ PropNames \in Seq(Seq(Nat)) /\ \A i \in DOMAIN PropNames : IsName(PropNames[i])
  /\ IsWord(Len(Strings)) /\ InitrdStart \in Seq(Nat)
  /\ \A b \in Blobs :
       /\ b.magic \in BOOLEAN
       /\ b.tree \in Seq([token : Nat, name : Seq(Nat), data : Seq(Nat)])
       /\ IsTree(b.tree)

----------------------------------------------------------------------------
(* The walk *)

TreeInit ==
  /\ blob \in {Flatten(b) : b \in Blobs}
  /\ cb = "none" /\ cur = 0 /\ calls = <<>>
  /\ space = 0 /\ cpio_addr = 0

\* Mutant: the word as the processor reads it.
NativeWord(mem, p) == mem[p + 3] * 2^24 + mem[p + 2] * 2^16 + mem[p + 1] * 2^8 + mem[p]

\* fdt_u32_le2be
Word(mem, p) == mem[p] * 2^24 + mem[p + 1] * 2^16 + mem[p + 2] * 2^8 + mem[p + 3]

\* fdt_traverse, up to the loop; its callers ignore that the magic is wrong.
Traverse(c) ==
  /\ cb = "none"
  /\ cb' = IF blob.magic THEN c ELSE "none"
  /\ cur' = 0 /\ calls' = <<>>
  /\ UNCHANGED <<blob, space, cpio_addr>>

\* The first four bytes of a value.
Address(data) == Word([a \in 0 .. 3 |-> data[a + 1]], 0)

\* The last property of that name wins; its length is not looked at.
GetCpioAddr(it) ==
  /\ cpio_addr' = IF it.token = Tokens.prop /\ StringCompare(it.name, InitrdStart)
                  THEN Address(it.data) ELSE cpio_addr
  /\ UNCHANGED space

\* Mutant: a node's end does not take the indentation back.
KeepSpace(it) == space' = space + (IF it.token = Tokens.begin THEN 1 ELSE 0)

Indent(it) ==
  space' = space + (CASE it.token = Tokens.begin -> 1
                      [] it.token = Tokens.end -> -1
                      [] OTHER -> 0)

\* print_dtb: what it writes is left out, how far it indents is not.
PrintDtb(it) == Indent(it) /\ UNCHANGED cpio_addr

Callback(it) ==
  /\ calls' = Append(calls, it)
  /\ IF cb = "get_cpio_addr" THEN GetCpioAddr(it) ELSE PrintDtb(it)

Token == Word(blob.struct, cur)
More  == cb # "none" /\ cur < blob.totalsize

BeginNode ==
  /\ More /\ Token = Tokens.begin
  /\ Callback(Begin(StringAt(blob.struct, cur + 4)))
  /\ cur' = cur + 4 + AlignUp(Strlen(blob.struct, cur + 4), 4)
  /\ UNCHANGED <<blob, cb>>

\* Mutant: the value's length is not rounded up.
Unpadded(len) == len

\* How far the walk goes over a value.
Skip(len) == AlignUp(len, 4)

Property ==
  /\ More /\ Token = Tokens.prop
  /\ LET len == Word(blob.struct, cur + 4)
         off == Word(blob.struct, cur + 8)
     IN /\ Callback(Prop(StringAt(blob.strings, off),
                         [i \in 1 .. len |-> blob.struct[cur + 11 + i]]))
        /\ cur' = cur + 12 + Skip(len)
  /\ UNCHANGED <<blob, cb>>

Single ==
  /\ More
  /\ \/ Token = Tokens.end /\ Callback(EndNode)
     \/ Token = Tokens.nop /\ Callback(Nop)
  /\ cur' = cur + 4
  /\ UNCHANGED <<blob, cb>>

\* FDT_END: parse_struct returns 0.
LastToken ==
  /\ More /\ Token = Tokens.last
  /\ Callback(End)
  /\ cb' = "none" /\ cur' = cur + 4
  /\ UNCHANGED blob

\* Any other word: parse_struct returns -1, fdt_traverse 1 all the same.
GiveUp ==
  /\ More /\ Token \notin {Tokens[t] : t \in DOMAIN Tokens}
  /\ cb' = "none"
  /\ UNCHANGED <<blob, cur, calls, space, cpio_addr>>

WalkStep == BeginNode \/ Property \/ Single \/ LastToken \/ GiveUp

----------------------------------------------------------------------------
(* Properties *)

Sound == Damage \notin Range(blob.tree)

\* The callback is called for the items of the tree, each once, in order, with
\* their names and values: no value, name or padding is taken for a token,
\* whatever their lengths, and whatever words the values hold.
FollowsTree ==
  /\ IsPrefix(calls, blob.tree)
  /\ cb = "none" /\ calls # <<>> /\ Sound => calls = blob.tree

\* Nodes open after the first i items.
Depth(i) == Opened(blob.tree, i)

\* The indentation is the depth, in every traversal that prints, however many
\* have gone before: space is global and no traversal resets it.  Where a walk
\* gives up in the middle of a damaged tree, what it leaves is added to the next:
\* then the indentation is at least the depth, and no traversal takes it below 0.
IndentIsDepth ==
  /\ Sound => space = IF cb = "print_dtb" THEN Depth(Len(calls)) ELSE 0
  /\ cb = "print_dtb" => space >= Depth(Len(calls))
=============================================================================
