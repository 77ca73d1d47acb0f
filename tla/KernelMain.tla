----------------------------- MODULE KernelMain -----------------------------
(***************************************************************************)
(* The lab 5 kernel outside its interrupts: main finds the archive through *)
(* the device tree, makes its table, reserves what is in use, and waits.   *)
(* Then lines come to parse_command, which splits them in place and looks  *)
(* files up.  How a line arrives is the business of Irq; a line here is    *)
(* complete, and its tasks have been taken from the startup allocator.     *)
(***************************************************************************)
EXTENDS DeviceTree, Archive, Reservations

CONSTANTS
  DtbAt,     \* x0 at the start, kept in _dtb_ptr
  ImageEnd,  \* _end of the kernel image, less than 30000 above 0x80000
  Lines,     \* the lines typed, as characters
  Unset,     \* what an uninitialised pointer of the stack may point to
  Verbs      \* the names of the commands: [ls, cat, malloc, dtb, exec, timer, settimeout]

VARIABLES
  pc,        \* where main, or parse_command, is
  reserved,  \* ranges marked by buddy_system_init
  line,      \* the line being worked on
  out        \* what the last command printed

vars == <<tree_vars, archive_vars, pc, reserved, line, out>>

\* Bytes that buddy_system_init takes the tree for.
DtbBytes == 60000

\* The property names the archive or something that is none; the tree is not
\* larger than buddy_system_init takes for granted.
ASSUME KernelAssumption ==
  /\ DtbAt \in Nat /\ ImageEnd \in Nat /\ ImageEnd <= 524288 + 30000
  /\ \A l \in Lines : IsName(l)
  /\ Unset \subseteq Seq(Nat)
  /\ \A b \in Blobs :
       /\ Flatten(b).totalsize <= DtbBytes
       /\ \A i \in DOMAIN b.tree :
            b.tree[i].token = Tokens.prop /\ b.tree[i].name = InitrdStart =>
              /\ Len(b.tree[i].data) >= 4
              /\ \/ Address(b.tree[i].data) = Base
                 \/ \A s \in Archives : Address(b.tree[i].data) \notin DOMAIN Write(s).header

Blank == 32
Params == 5   \* entries of parse_command's parameter

Nothing == [kind |-> "nothing"]

Init ==
  /\ TreeInit /\ ArchiveInit
  /\ pc = "reset" /\ reserved = {} /\ line = <<>> /\ out = Nothing

----------------------------------------------------------------------------
(* main *)

\* uart_init, and the first traversal.
BootTree ==
  /\ pc = "reset" /\ pc' = "tree"
  /\ Traverse("get_cpio_addr")
  /\ UNCHANGED <<archive_vars, reserved, line, out>>

TreeStep ==
  /\ pc \in {"tree", "dtb"}
  /\ WalkStep
  /\ UNCHANGED <<archive_vars, pc, reserved, line, out>>

\* Whether the traversal succeeded is not asked.
BootFiles ==
  /\ pc = "tree" /\ cb = "none" /\ pc' = "files"
  /\ BeginTraverse(cpio_addr)
  /\ UNCHANGED <<tree_vars, reserved, line, out>>

FilesStep ==
  /\ pc = "files" /\ ReadHeader
  /\ UNCHANGED <<tree_vars, pc, reserved, line, out>>

\* No archive where the pointer points: whatever lies there is read as one.
FilesAstray ==
  /\ pc = "files" /\ ~AtHeader /\ pc' = "wild"
  /\ UNCHANGED <<tree_vars, archive_vars, reserved, line, out>>

\* buddy_system_init, then the idle loop.
BootMemory ==
  /\ pc = "files" /\ AtEnd /\ pc' = "idle"
  /\ reserved' = Ranges(cpio_addr, DtbAt)
  /\ UNCHANGED <<tree_vars, archive_vars, line, out>>

----------------------------------------------------------------------------
(* parse_command *)

\* A line arrives if there was room for its tasks.
LineTyped(l) ==
  /\ pc = "idle" /\ pc' = "parse"
  /\ LineTasks(Len(l) + 1)
  /\ line' = l /\ out' = Nothing
  /\ UNCHANGED <<tree_vars, archive, low, addr, file_num, smashed, reserved>>

Blanks == {i \in DOMAIN line : line[i] = Blank}

\* The buffer after the split: every blank is a terminator.
Buffer == [i \in 1 .. Len(line) + 1 |->
             IF i \in Blanks \cup {Len(line) + 1} THEN NUL ELSE line[i]]

Verb == StringAt(Buffer, 1)

\* Where parameter[k - 1] points: behind the k-th blank.
ParamAt(k) == 1 + CHOOSE i \in Blanks : Cardinality({j \in Blanks : j <= i}) = k

\* What a command reads there; without a k-th blank it was never set.
Param(k) == IF k <= Cardinality(Blanks) THEN {StringAt(Buffer, ParamAt(k))} ELSE Unset

\* The sixth parameter overwrites the caller's frame pointer, which nobody
\* needs, the seventh the address it returns to.
Return == IF Cardinality(Blanks) >= Params + 2 THEN "wild" ELSE "idle"

Run(verb) == pc = "parse" /\ StringCompare(Verb, verb)

\* setTimeout: a copy of the message and, if there was room, a timer_t of 40 bytes.
TimerSizes(len) == IF Room(offset, len + 1) THEN <<len + 1, 40>> ELSE <<>>

\* Three messages of twelve characters each.
Timer ==
  /\ Run(Verbs.timer) /\ pc' = Return
  /\ SimpleMalloc(TimerSizes(12) \o TimerSizes(12) \o TimerSizes(12))
  /\ out' = [kind |-> "text"]
  /\ UNCHANGED <<tree_vars, archive, low, addr, file_num, smashed, reserved, line>>

\* The seconds are read in base 16.
SetTimeout ==
  /\ Run(Verbs.settimeout) /\ pc' = Return
  /\ \E m \in Param(1), s \in Param(2) :
       /\ SimpleMalloc(TimerSizes(Len(m)))
       /\ out' = [kind |-> "timer", message |-> m, seconds |-> Atoi(s, Len(s))]
  /\ UNCHANGED <<tree_vars, archive, low, addr, file_num, smashed, reserved, line>>

\* Two short strings are allocated and written, at address 0 if need be.
Malloc ==
  /\ Run(Verbs.malloc) /\ pc' = Return
  /\ SimpleMalloc(<<5, 4>>)
  /\ out' = [kind |-> "text"]
  /\ UNCHANGED <<tree_vars, archive, low, addr, file_num, smashed, reserved, line>>

Ls ==
  /\ Run(Verbs.ls) /\ pc' = Return
  /\ out' = [kind |-> "list", names |-> Listed]
  /\ UNCHANGED <<tree_vars, archive_vars, reserved, line>>

CatFile ==
  /\ Run(Verbs.cat) /\ pc' = Return
  /\ \E name \in Param(1) : \E n \in FindFile(name) : out' = Cat(n)
  /\ UNCHANGED <<tree_vars, archive_vars, reserved, line>>

\* The program starts; nothing comes back from it.
ExecProgram ==
  /\ Run(Verbs.exec) /\ pc' = "user"
  /\ \E name \in Param(1) : \E n \in FindFile(name) : Exec(n)
  /\ UNCHANGED <<tree_vars, reserved, line, out>>

\* one.S: its first svc, like any exception from EL0, ends in except_handler_c,
\* which prints and stops; the kernel must still be there for it.
UserTrap ==
  /\ pc = "user" /\ ~smashed /\ pc' = "stopped"
  /\ UNCHANGED <<tree_vars, archive_vars, reserved, line, out>>

Dtb ==
  /\ Run(Verbs.dtb) /\ pc' = "dtb"
  /\ Traverse("print_dtb")
  /\ UNCHANGED <<archive_vars, reserved, line, out>>

DtbDone ==
  /\ pc = "dtb" /\ cb = "none" /\ pc' = Return
  /\ out' = [kind |-> "text"]
  /\ UNCHANGED <<tree_vars, archive_vars, reserved, line>>

\* help, hello, info and reboot, which print, and a name nobody knows.
Other ==
  /\ pc = "parse" /\ \A v \in DOMAIN Verbs : Verb # Verbs[v]
  /\ pc' = Return
  /\ out' = [kind |-> "text"]
  /\ UNCHANGED <<tree_vars, archive_vars, reserved, line>>

----------------------------------------------------------------------------
Boot    == BootTree \/ BootFiles \/ FilesStep \/ FilesAstray \/ BootMemory
Command == \/ Timer \/ SetTimeout \/ Malloc \/ Ls \/ CatFile \/ ExecProgram
           \/ UserTrap \/ Dtb \/ DtbDone \/ Other

Kernel == Boot \/ TreeStep \/ Command

Next == Kernel \/ \E l \in Lines : LineTyped(l)

Spec == Init /\ [][Next]_vars

\* The processor goes on; nobody need type.
FairSpec == Spec /\ WF_vars(Kernel)

----------------------------------------------------------------------------
(* Properties *)

TypeOK ==
  /\ cb \in {"none", "get_cpio_addr", "print_dtb"} /\ cur \in Nat /\ space \in Nat
  /\ cpio_addr \in Nat /\ addr \in Nat /\ file_num \in 0 .. MaxMembers
  /\ offset \in 0 .. HeapBytes /\ smashed \in BOOLEAN
  /\ pc \in {"reset", "tree", "files", "idle", "parse", "dtb", "user", "stopped", "wild"}

\* The word behind the first blank, and whether there is one.
HasParam == Blanks # {}
Asked ==
  LET i == CHOOSE a \in Blanks : \A b \in Blanks : a <= b
      j == CHOOSE a \in i + 1 .. Len(line) + 1 :
             /\ a \in Blanks \cup {Len(line) + 1}
             /\ \A b \in i + 1 .. a - 1 : b \notin Blanks
  IN SubSeq(line, i + 1, j - 1)

\* A lookup through the table finds what a walk over the archive would, for
\* every name that is typed, and after any commands: the same bytes, or none; and
\* ls lists the same files in the same order before anything else.
\* Only a full table, and the entry behind the last, make a difference.
FilesFound ==
  pc = "idle" /\ Small =>
    /\ out.kind \in {"file", "none", "zero"} /\ HasParam /\ Asked # low => out = WalkCat(Asked)
    /\ out.kind = "list" => IsPrefix(WalkList, out.names)

\* The kernel is overwritten only when exec is given no name, by a program that is
\* not there, that is too large, or that an overflowing table may have lost.
KernelOverwritten ==
  smashed => \/ ~HasParam \/ ~Small
             \/ WalkFind(Asked) = 0
             \/ ProgramAt + WalkCat(Asked).size > KernelAt

\* When the page allocator starts, what is in use is not in its hands: its own
\* tables, stack and program, kernel, device tree, and an archive of at most 30000 bytes.
InUse ==
  {Tables, From(0, 524288), From(524288, ImageEnd),
   From(Base, archive.end), From(DtbAt, DtbAt + blob.totalsize)}
MemoryKept ==
  [][ pc = "files" /\ pc' = "idle" =>
        \A r \in {x \in InUse : x.start = Base => x.end - Base <= 30000} :
          Kept(reserved', r) ]_vars

\* If the device tree is sound and knows the archive, the boot finds it and
\* ends, whatever else is in the tree and in the archive.
KnowsArchive ==
  /\ blob.magic /\ Sound
  /\ \E i \in DOMAIN blob.tree :
       /\ blob.tree[i] = Prop(InitrdStart, BigEndian(Base))
       /\ \A j \in i + 1 .. Len(blob.tree) :
            blob.tree[j].token = Tokens.prop => blob.tree[j].name # InitrdStart
BootEnds == (pc = "reset" /\ KnowsArchive) ~> (pc = "idle" /\ file_num = Len(Members))
=============================================================================
