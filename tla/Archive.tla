------------------------------ MODULE Archive ------------------------------
(***************************************************************************)
(* cpio.c: the initial ramdisk in memory, the table that lab 5 makes of it *)
(* at boot, and the commands that look a file up.  Lab 2 walks over the    *)
(* archive each time instead; its lookup is here too, as the reference.    *)
(*                                                                         *)
(* Memory is a function from the addresses of headers to what they say.    *)
(* The contents of a file are known by its number and their length.        *)
(***************************************************************************)
EXTENDS Utils, SequencesExt

CONSTANTS
  Archives,      \* what the boot loader may leave in memory: sequences of [name, size]
  Base,          \* where it leaves it
  MAX_FILE_NUM,  \* entries of the table (10)
  MaxMembers,    \* files in the largest of Archives
  Trailer,       \* the name "TRAILER!!!"
  LowStrings,    \* what may lie at address 110, as a string
  HeapBytes      \* SIMPLE_MALLOC_BUFFER_SIZE (8192)

HeaderSize == 110
EntrySize  == 40     \* sizeof(struct file)
ProgramAt  == 131072 \* 0x20000
KernelAt   == 524288 \* 0x80000

VARIABLES
  archive,   \* in memory, as Write makes it
  low,       \* the string at address 110
  addr,      \* traverse_file's pointer
  f,         \* the table, and what lies behind it
  file_num,
  offset,    \* simple_malloc_offset
  smashed    \* the kernel has been overwritten

archive_vars == <<archive, low, addr, f, file_num, offset, smashed>>

----------------------------------------------------------------------------
(* cpio's side: an archive as it is written, newc format. *)

Pad4(n) == n + ((-n) % 4)
Bytes(x) == Pad4(HeaderSize + Len(x.name) + 1) + Pad4(x.size)

\* What was archived, where each header starts (the trailer's too), what the
\* headers say, and the address behind the last.
Write(s) ==
  LET all   == Append(s, [name |-> Trailer, size |-> 0])
      at[i \in 1 .. Len(all) + 1] == IF i = 1 THEN Base ELSE at[i - 1] + Bytes(all[i - 1])
      of(a) == all[CHOOSE i \in DOMAIN all : at[i] = a]
  IN [members |-> s,
      start |-> [i \in DOMAIN all |-> at[i]],
      header |-> [a \in {at[i] : i \in DOMAIN all} |->
                    [name |-> of(a).name, c_namesize |-> Hex(Len(of(a).name) + 1, 55),
                     c_filesize |-> Hex(of(a).size, 55)]],
      end |-> at[Len(all) + 1]]

Header  == archive.header
Members == archive.members

----------------------------------------------------------------------------
(* Sizes *)

\* Mutant: the name is aligned, not the header with the name.
NameAligned(h) == HeaderSize + AlignUp(Atoi(h.c_namesize, 8), 4)

\* headerPathname_size and file_size, aligned; namesize counts the terminator.
HeaderPathname(h) == AlignUp(HeaderSize + Atoi(h.c_namesize, 8), 4)
FileSize(h)       == AlignUp(Atoi(h.c_filesize, 8), 4)

NextHeader(a) == a + HeaderPathname(Header[a]) + FileSize(Header[a])

----------------------------------------------------------------------------
(* The table *)

\* Entries that fit, and those a larger archive has written behind them.
Entries == 0 .. MaxMembers
Zero    == [kind |-> "zero"]
Junk    == [kind |-> "junk"]
Entry(a) ==
  [kind |-> "file", header |-> a, size |-> FileSize(Header[a]),
   content |-> a + HeaderPathname(Header[a])]

ArchiveInit ==
  /\ archive \in {Write(s) : s \in Archives} /\ low \in LowStrings
  /\ addr = 0 /\ f = [n \in Entries |-> Zero] /\ file_num = 0
  /\ offset = 0 /\ smashed = FALSE

\* Mutant: no size is ever refused.
Unbounded(o, size) == TRUE

Room(o, size) == o + AlignUp(size, 8) <= HeapBytes

\* simple_malloc called for each size: 0 when there is no room, which no caller
\* here looks at.  What is allocated behind the table is written to at once.
SimpleMalloc(sizes) ==
  /\ LET o[i \in 0 .. Len(sizes)] ==
           IF i = 0 THEN offset
           ELSE IF Room(o[i - 1], sizes[i]) THEN o[i - 1] + AlignUp(sizes[i], 8) ELSE o[i - 1]
     IN offset' = o[Len(sizes)]
  /\ f' = [n \in Entries |->
             IF n * EntrySize >= offset' \/ (n + 1) * EntrySize <= offset THEN f[n] ELSE Junk]

\* The tasks of a line of k characters: two for each, 32 bytes each.
LineTasks(k) == Room(offset, 64 * k) /\ SimpleMalloc(<<64 * k>>)

\* Mutant: room for pointers.
PointerTable == MAX_FILE_NUM * 8

TableBytes == MAX_FILE_NUM * EntrySize

\* A number that eight hexadecimal digits hold.
EightDigits(n) == n \in Nat /\ n \div 16 ^ 7 < 16

\* cpio writes names and sizes it has room for, the trailer's name only at the
\* end, and the boot loader does not use address 0; the buffer of the startup
\* allocator has room for the table.
ASSUME ArchiveAssumption ==
  /\ Base \in Nat \ {0} /\ MAX_FILE_NUM \in Nat /\ MaxMembers \in Nat /\ HeapBytes \in Nat
  /\ AlignUp(TableBytes, 8) <= HeapBytes
  /\ Trailer \in Seq(Nat) /\ EightDigits(Len(Trailer) + 1) /\ LowStrings \subseteq Seq(Nat)
  /\ \A s \in Archives :
       /\ s \in Seq([name : Seq(Nat), size : Nat]) /\ Len(s) <= MaxMembers
       /\ \A i \in DOMAIN s :
            s[i].name # Trailer /\ EightDigits(Len(s[i].name) + 1) /\ EightDigits(s[i].size)

\* allocate_file_array is the first to allocate.
BeginTraverse(a) ==
  /\ addr' = a
  /\ offset' = offset + AlignUp(TableBytes, 8)
  /\ UNCHANGED <<archive, low, f, file_num, smashed>>

AtHeader == addr \in DOMAIN Header
AtEnd    == AtHeader /\ StringCompare(Header[addr].name, Trailer)

\* One turn of traverse_file: nothing compares file_num with MAX_FILE_NUM.
ReadHeader ==
  /\ AtHeader /\ ~AtEnd
  /\ f' = [f EXCEPT ![file_num] = Entry(addr)]
  /\ file_num' = file_num + 1
  /\ addr' = NextHeader(addr)
  /\ UNCHANGED <<archive, low, offset, smashed>>

----------------------------------------------------------------------------
(* Looking a file up *)

\* Whether entry n has the name: a zero entry's name is read at address 110,
\* that of an overwritten one anywhere.
Must(n, name) ==
  \/ f[n].kind = "file" /\ StringCompare(Header[f[n].header].name, name)
  \/ f[n].kind = "zero" /\ StringCompare(low, name)
May(n, name) == Must(n, name) \/ f[n].kind = "junk"

\* Mutant: n < file_num - 1
AllButLast == 0 .. file_num - 2

\* n <= file_num
Searched == 0 .. file_num

\* findfile returns the first entry with the name, or -1.
FindFile(name) ==
  {n \in Searched : May(n, name) /\ \A m \in 0 .. n - 1 : ~Must(m, name)}
    \cup {n \in {-1} : \A m \in Searched : ~Must(m, name)}

\* cpio_ls: the name of every entry searched.
Listed ==
  [i \in 1 .. file_num + 1 |->
     CASE f[i - 1].kind = "file" -> Header[f[i - 1].header].name
       [] f[i - 1].kind = "zero" -> low
       [] OTHER -> <<>>]

\* cpio_cat: what is printed, as the place and the number of bytes.
Cat(n) ==
  CASE n = -1 -> [kind |-> "none"]
    [] n # -1 /\ f[n].kind = "file" -> [kind |-> "file", at |-> f[n].content, size |-> f[n].size]
    [] OTHER -> [kind |-> f[n].kind]

\* What copying entry n to 0x20000 does to the kernel behind it: entry -1 is
\* what lies before the table, an address for a size; junk may be any.
Overwrites(n) ==
  CASE n = -1 -> {TRUE}
    [] n # -1 /\ f[n].kind = "junk" -> BOOLEAN
    [] OTHER -> {f[n].kind = "file" /\ ProgramAt + f[n].size > KernelAt}

\* cpio_exec_program copies without asking whether there is a file, and jumps.
Exec(n) ==
  /\ smashed' \in Overwrites(n)
  /\ SimpleMalloc(<<4096>>)
  /\ UNCHANGED <<archive, low, addr, file_num>>

----------------------------------------------------------------------------
(* Lab 2: the same lookup without a table *)

Walk ==
  LET w[k \in 0 .. Len(Members)] == IF k = 0 THEN Base ELSE NextHeader(w[k - 1])
  IN w

\* findFile: the first header with the name before the trailer, or 0.
WalkFind(name) ==
  LET hits == {k \in 0 .. Len(Members) - 1 : StringCompare(Header[Walk[k]].name, name)}
  IN IF hits = {} THEN 0 ELSE Walk[CHOOSE k \in hits : \A j \in hits : k <= j]

WalkList == [k \in 1 .. Len(Members) |-> Header[Walk[k - 1]].name]

WalkCat(name) ==
  LET a == WalkFind(name)
  IN IF a = 0 THEN [kind |-> "none"]
     ELSE [kind |-> "file", at |-> a + HeaderPathname(Header[a]), size |-> FileSize(Header[a])]

----------------------------------------------------------------------------
(* Properties *)

Small == Len(Members) < MAX_FILE_NUM

\* The walk of the boot meets every header where cpio has put it, and the
\* table says so: names, contents and sizes of any length.
TableIsArchive ==
  \A n \in 0 .. file_num - 1 :
    n < MAX_FILE_NUM =>
      f[n] = [kind |-> "file", header |-> archive.start[n + 1], size |-> Pad4(Members[n + 1].size),
              content |-> archive.start[n + 1] + Pad4(HeaderSize + Len(Members[n + 1].name) + 1)]
=============================================================================
