# The kernels of labs 1 to 5: TLA+ specifications

The repository is a sequence of bare-metal kernels for the Raspberry Pi 3. The
last, `src/lab5/shell`, contains the earlier ones: its allocator, UART code and
`main` are the files of lab 4, its interrupt, task, timer, archive and device-tree
code the files of lab 3, and `mailbox.c` is the same from lab 2 on. Where a file
occurs more than once, `PROJECT.json` names the one a definition was read from.
Labs 1 and 2 have shells of their own, which poll, and lab 2 a bootloader.

## 1. The system

| Part (source in `src/lab5/shell`) | State it keeps | Operations | Modelled in |
|---|---|---|---|
| startup allocator (`allocator.c` 6-24) | an offset into 8192 bytes; nothing is ever freed | `simple_malloc` | `Preempt`; `Irq` (words left), `Archive` (what lies behind the file table) |
| boot reservations (26-61, 347-367) | entries set to -1 | `buddy_alloc_preinit`, `buddy_alloc_reserve` | `Reservations`; `Buddy` (as a set of pages) |
| page frame allocator (101-232, 289-323) | `entries`, `freelist`, the nodes | `buddy_alloc_init`, `buddy_alloc`, `buddy_free` | `Buddy` |
| small-object bins (63-98, 235-287, 327-344) | four lists of units in pages | `buddy_malloc`, `rejuv_node_alloc`, `node_free`, `nfree` | `NodeBins`; `Buddy` (numbers of units) |
| task list (`tasklist.c`) | `task_head`, by priority | `create_task`, `enqueue_task`, `execute_tasks` | `Irq` |
| interrupt dispatch (`except.c` 135-173, `start.S` 66-158) | exception stack, DAIF, ELR_EL1, SPSR_EL1 | `irq_except_handler_c`, `save_all`, `load_all` | `Irq` |
| asynchronous console (`except.c` 87-133, `uart.c` 10-15, 161-173) | two rings, AUX_MU_IER | `uart_receive_handler`, `uart_transmit_handler` | `Irq` |
| timers (`timer.c`, `except.c` 46-85) | `timer_head`, by expiry; the hardware timer | `setTimeout`, `create_timer`, `add_timer`, `timer_irq_handler` | `Irq`, `Preempt` |
| kernel main (`main.c`) | how far the boot is | `main` | `KernelMain`, `Irq` (the idle loop) |
| shell (`shell.c`) | the line, split in place | `parse_command` | `KernelMain`; `Irq` (what a line does to timers; `exec`) |
| archive (`cpio.c`) | a table of ten files | `traverse_file`, `findfile`, `cpio_ls`, `cpio_cat`, `cpio_exec_program` | `Archive` |
| device tree (`dtb.c`) | `cpio_addr`, `space` | `fdt_traverse`, `get_cpio_addr`, `print_dtb` | `DeviceTree` |
| mailbox (`mailbox.c`) | one message buffer | `mailbox_call`, `get_board_revision`, `get_arm_mem` | `Mailbox` |
| polled UART (`uart.c`), `reboot.c` and the shells of labs 1 and 2 | both FIFOs, the line, the watchdog | `uart_send_char`, `uart_get_char`, `shell`, `reset` | `PolledShell` |
| `utils.c` | none | alignment, strings, hexadecimal numbers | `Utils` |
| user program (`userprogram/one.S`) | none | one `svc` | `KernelMain` |
| UART bootloader (`src/lab2/bootloader`) | what has arrived | `load_img`, `uploader.py` | `Bootloader` |

**How the parts meet.** `main` finds the archive through the device tree, reads
the archive, sets up the page allocator, enables the receive interrupt and
idles; everything after that happens in interrupts. The IRQ vector saves x0 to
x30 and calls `irq_except_handler_c`, which switches the pending source off and
queues a task for it (3 for the timer, 1 for a character), enables interrupts and
drains the task list. The receive task moves one character from the FIFO into
both rings and queues the transmit task (2). The transmit task sends the ring,
and when the last character of a line has gone it runs `parse_command`, which may
set timers; at its end it switches the receive interrupt on again. The timer task
runs the callbacks that are due and sets the hardware timer to the next. All these
allocate from the startup allocator. The page allocator is called only from
`buddy_system_init`, at boot.

**What is hard.**

* `enqueue_task`, `execute_tasks`, `add_timer` and `timer_irq_handler` enable
  interrupts unconditionally, so critical sections end early and handlers nest;
  the callback of a task runs while the task is still the head of the list.
* An interrupt source is switched off in the handler and on again in a task that
  depends on an allocation which may fail.
* `buddy_alloc` and `buddy_free` change lists in several steps and ask for nodes
  in between; during the boot nodes come from a single page, later from
  `buddy_malloc`, which may call `buddy_alloc`.
* The allocator recovers the order of a block from a table entry that many
  operations on other blocks leave, and must leave, alone.

**What makes each part correct.** Allocator: blocks never overlap, no page is
lost, the table agrees with the lists, nodes are neither leaked nor freed twice,
calls return, callers get exclusive blocks. Task list: order, and no task left
behind. Console: each character received echoed once and in order, and eventually,
and none lost while there is room; interrupts armed whenever the kernel idles. Timers: each
runs, once, in order of expiry. Startup allocator: blocks share no byte. Bins:
units, headers and pages share none. Boot: the tree and the archive are read as
they were written, and what is in use is reserved. Archive: the table finds what a
walk would. Mailbox: the answer read is the answer to the question asked. Polled
shell: lines are worked off as typed, the prompt comes back, `reboot` reboots.

`PROJECT.json` lists the hazards line by line with the properties that cover
them.

## 2. Modules

| Module | What it is |
|---|---|
| `Buddy` | the page frame allocator: one action per operation or loop turn |
| `PageFrames` | abstract: free pages and exclusive grants |
| `BuddyFrames` | `Buddy` as an implementation of `PageFrames` |
| `BuddyInv` | the inductive invariants of `Buddy` |
| `BuddyProofs` | proofs, of the refinement too |
| `MCBuddy` | instances for TLC |
| `Irq` | interrupts, tasks, console and timers |
| `Console` | abstract: what is received comes back, once and in order, and what full FIFOs drop |
| `IrqConsole` | `Irq` as an implementation of `Console` |
| `IrqProofs` | proofs about `Irq` at any depth of nesting, with their inductive invariants |
| `ConsoleProofs` | proofs about the console, the timers and the idle loop |
| `MCIrq` | instances for TLC |
| `Preempt`, `PreemptProofs` | `simple_malloc`, `add_timer` and the timer task, cut where an interrupt hurts |
| `Utils` | `utils.c` as operators |
| `DeviceTree`, `Archive`, `Reservations` | `dtb.c`, `cpio.c`, and what `buddy_system_init` reserves |
| `KernelMain` | `main` and `parse_command`, composed of those three |
| `KernelProofs` | proofs about all four |
| `MCKernel` | instances for TLC |
| `Mailbox` | `mailbox.c` and the VideoCore |
| `PolledShell`, `PolledProofs` | the shells of labs 1 and 2 with `Mailbox`, both FIFOs and the watchdog |
| `MCPolled` | instances for TLC |
| `NodeBins`, `BinsProofs`, `MCBins` | units in pages, at their addresses; proofs; instances |
| `Bootloader`, `BootloaderProofs` | `uploader.py` and `load_img`, two programs and a serial line; proofs |
| `MCBootloader` | instances for TLC |

### Buddy

`entries`, `freelist` and `frame` are the variables of the code; a free list is
the sequence of its nodes' `idx`. `pool` counts the units on `bins[0]` (which is
`nhead`) and `bins[1]`, the two bins nodes pass through; `lent` those in callers'
hands; a unit goes back to the bin its header names, which for a node drawn from
`bins[1]` and freed to `bins[0]` is not the one it was lent from. `dropped` counts
what a refill of `bins[0]` has cut off (`bins[order]->next` is overwritten, 270).
`held` records every block that is on no list, with its owner, for the
properties only: `Free` reads from it nothing but the address a caller would
pass. `pc`, `req`, `cur` and `found` are the locals of the operation that is
running.

* *Boot.* `Init` is `buddy_alloc_preinit`, the reservations and the choice of the
  first free page for nodes; `CarveSkip`, `CarveBlock`, `CarveDone` are the loop
  of `buddy_alloc_init`; `BootBin` is the loop of `buddy_malloc_init`. When the
  node page is used up `node_alloc` falls off its end; the compiled code returns
  0, so the node is written at address 0 and the list is left as it was.
* *buddy_alloc.* `StartAlloc` finds the order, each `Split` is one turn of the
  loop, `TakeBlock` the rest, together with what the caller does with the block
  before anything else can run (`node_alloc_init` and linking, for a bin).
* *Nodes.* A step that draws nodes is enabled when the bin has them.
  `RefillNodes` is the nested `buddy_malloc` - `rejuv_node_alloc` -
  `buddy_alloc(4096)` between two of the code's statements. If `freelist[0]` is
  empty too, that nested call has to split and asks for nodes itself: it recurs,
  popping one block per turn, until none is left and the kernel stops
  (`NodeHang`).
* *buddy_free.* `Free`, `FreeNode`, then per merge `MergeFind` (the search) and
  `Unlink` (the node, the entry, the unlinking), and `FreeDone`. Search and
  unlinking are two steps because the node is drawn in between, and a refill may
  take the found block away: `UnlinkStale`. After that step the lists are
  corrupt in ways that depend on addresses and the model stops (`pc =
  "corrupt"`), as it does at a write through NULL (`"wild"`) and at the code's
  own `while(1)`.

Not in this model: where a unit lies in its page (`NodeBins`); `bins[2]` and
`bins[3]` beyond the pages they take; the contents of memory behind `entries` (a read past it is
taken not to match).

### Irq

The CPU is a stack of exception frames over `main`'s loop. A frame is the
sequence of steps its code has still to do, and a step carries values the code
read before (the callback of a task, the time of the timer loop), which are as
stale in the model as in the code. `masked` is PSTATE.I. `elr` is the frame that
ELR_EL1 and SPSR_EL1 describe: taking an exception overwrites them, and
`save_all` keeps no copy.

* *Dispatch.* `Irq` takes the exception and reads the pending bits; `TimerOff`,
  `RxOff`, `Create`, `Clear` are `irq_except_handler_c`, in its order. `Create`
  ends with interrupts enabled, as `enqueue_task` does, or does nothing when the
  startup allocator has run out.
* *Tasks.* `RunTask`, `Pop`, `Mask`, `TasksDone` are `execute_tasks`. The head
  stays on the list while it runs, so a nested `execute_tasks` runs it again. A
  `Pop` of an empty list reads through NULL (`PopNull`).
* *Console.* `Receive` and `Transmit`, `Send...`, `Reset`, `SendDone` are the two
  handlers. `SendLine` is a line that is complete: it runs the timers of some
  member of `Commands`; `SendExec` is `exec`.
* *Timers.* `SetTimeout` is `setTimeout` with what it calls; `TimerOn`,
  `TimerStop`, `Expire`, `Drop`, `TimersDone` are `timer_irq_handler`.
* *Devices.* `TimerLine`, `RxLine`, `TxLine` are the interrupt lines as the code
  relies on them. In a `CharTime` one character may arrive, which a full receive
  FIFO drops (`lost`), and one leaves the transmit FIFO, of which only the number is
  kept (`tx`). The sending loop writes without a look at AUX_MU_LSR (97): at a full
  FIFO the character goes nowhere, and `shown` has those that got in. What commands
  and timers print waits for room (`uart_send_char`) and leaves the FIFO at any
  level (`Prints`). `Tick` is the clock.

Abstractions: a step ends where DAIF changes, a task or a timer is entered or
removed, or a device is switched. One turn of the sending loop, the stores of
`uart_receive_handler` and `setTimeout` as a whole are one step each, and so are
the load and the store of one C assignment. This hides interrupts between two
instructions, in the update of `simple_malloc`'s offset and between `add_timer`'s
read of `timer_head` and its masking, which `Preempt` models, and in the update of
AUX_MU_IER, which no module does. Of the commands, those
that print are left out; `malloc` takes two more words of the heap that tasks use
up anyway, and `reboot` ends everything. Time of the clock passes only while a timer waits.
The rings have no end: at two 32-byte tasks for each character the startup
allocator runs out after about 121 characters, long before the 1024 bytes of a
ring. After an eret that goes astray, a read through NULL, or a jump to a user
program, the model stops.

### Preempt

One processor, so a call that is interrupted goes on when all that came after it
has returned: `stack`. A call is a handler's or a task's `create_task`, a
command's `setTimeout`, or the timer task; any may come whenever interrupts are on
(`Masked`). `Load` and `Store` are `simple_malloc`; `Create` is `create_timer` with
`add_timer`'s first read, `Insert` the section that masks interrupts; `Take` and
`Drop` are the two halves of a turn of `timer_irq_handler`, of which only the first
runs masked. `hit` and `raced` record that an interrupt came where it hurts:
between load and store, before `Insert`, or into a later turn; the properties say
that without such an interrupt nothing goes wrong. Who interrupts whom is left
open, so every order is there.

### KernelMain: DeviceTree, Archive, Reservations

`DeviceTree` has the blob as bytes: `Flatten` writes a tree as the compiler of
device trees does, `WalkStep` is one turn of `parse_struct`, which finds the next
token by counting. `Archive` has the archive as headers at addresses (`Write`, with
sizes as hexadecimal digits), `ReadHeader` is one turn of `traverse_file`. The
table lies at the start of the startup allocator's buffer and nothing counts its
entries, so `SimpleMalloc` overwrites those that do not fit; entries that were never
written are zero, and their name is whatever lies at address 110 (`low`). The walk
of lab 2, which has no table, is the reference (`WalkFind`, `WalkCat`).
`Reservations` keeps the code's addresses and sizes.

`KernelMain` runs them in the order of `main`, whatever each returns, and then one
line after the other: `Buffer` is the line after the split, `Param` what a command
finds at `parameter[k]`, an uninitialised pointer if there were too few blanks, and
`Return` what seven blanks do to the return address. `exec` copies entry -1 if
there is no such file. The run of tasks that brings a line is `Irq`'s; here a line
costs the heap what its tasks take.

The assumptions say which input the code can be given. `TreeAssumption`: the blob is
one that a compiler writes, items that nest and end with `End`, names of less than
`MaxString` characters, lengths of four bytes; it may be damaged anywhere, and then
what follows need not nest. `ArchiveAssumption`: at most `MaxMembers` files (which may
be more than the table has room for), names and sizes of eight hexadecimal digits,
and none called like the trailer; the table itself fits the heap.
`KernelAssumption`: the value of `linux,initrd-start` has at least four bytes, and is the
address of the archive or one where no header lies; the tree has at most 60000 bytes,
which is what `buddy_system_init` reserves for it.

### PolledShell: Mailbox

A character time passes only while the processor polls (`Tick`); in it one character
may arrive and one leaves the transmit FIFO. `Send` is `uart_send_char`, `ReadChar`
one turn of the shell's loop, with the echo; `kernel` says whether lab 1 or lab 2
runs. `info` asks the VideoCore through `Mailbox`: lab 1 looks at the success of one
call and of no other, lab 2 waits until an answer is one. The VideoCore answers
every message once: with values, with success and no values, or with an error.
`RebootCmd` starts the watchdog, `Reset` is its expiry, at any later time; the shell
goes on meanwhile. The 256 characters of the line buffer are not counted.

### NodeBins

Addresses are cells: pages, headers and units with their real order of sizes.
`Units` is the loop of `node_alloc_init`, which stops at the first unit that begins
outside the page, not at the first that ends there. `UnitMalloc`, `Rejuvenate` and
`PageMalloc` are `buddy_malloc`, `UnitFree` and `PageFree` `node_free`, which looks
at the alignment of the pointer and at the size in the header.

`buddy_alloc` and `buddy_free` are here as customers of the bins: each block on a free
list has its node in a unit (`nodes`). `Split` draws two from `bins[1]` and frees one
to `bins[0]`; `Take` frees one and, for `rejuv_node_alloc`, cuts the page into units of
the size that the bin's head says, which for `bins[0]` cuts off the units it had
(`dropped`); `FreeNode`, `MergeFind`, `Unlink`, `FreeDone` are `buddy_free`, with the
refill of `bins[1]` in between (`NodeRefill`). A unit of `bins[1]` that the allocator
frees goes to `bins[0]` and from there to whoever asks for a small block. Left open is
which pages make up a block: any free page may be taken and any free pages merged, as
long as there can be as many blocks as there are nodes. As in the code, pages and
units are multiples of the header and a request is at most a page (`BinsAssumption`);
larger ones are `Buddy`'s. After a refill that took the found block, and after
`buddy_free` of what it did not hand out, the model stops (`"wild"`).

### Bootloader

`host` and `pi` are where `uploader.py` and the board are, `down` and `up` what is on
its way to the board and back, `fifo` the board's receive FIFO. `sending` is what is
still to go out of the board: `uart_send_string` returns as soon as at most `TxFifo`
characters of it are left (`Said`), so a text's tail goes out while the board reads.
The last character stands for the text: `read_line` takes any line for the answer,
and an uploader that is opened while a tail goes out gets that line. In a `CharTime`
one character leaves, one byte may arrive, and a full FIFO loses it; it passes
only while the board waits, for a byte or for room, since its loops are faster than
the line. Bytes that arrive before `uart_init` are lost. `KernelStarts` is the loaded
shell, whose `uart_init` empties the FIFOs, the tail of "kernel-loaded" included, and
which then prints a line; a damaged image says nothing. What arrives after the jump
is the shell's. `uart_get_char` is modelled by what it does to a carriage return. The
relocation of the bootloader by `start.S` and the 32-bit wrap of a size are left out;
sizes are below `Place[SizeBytes]`, which is `Base` to that power, by assumption.

## 3. What the runs check

| Run | Bounds | Checks |
|---|---|---|
| `buddy` | 12 pages, orders 0 and 1 (merges reach 2), 5 boot nodes, 3 units a page, requests of 1 and 3 pages, 4 layouts | `TypeOK`, `Disjoint`, `Coverage`, `EntriesMatch`, `NodesKept`; `FramesSpec`: `Buddy` implements `PageFrames`; `OpReturns` under weak fairness of the allocator's own steps |
| `irq` | no nesting, 3 characters, both FIFOs of 1, heap of 44 words, up to 3 timers | `TypeOK`, `Rearmed`, `TimersInOrder`; `ConsoleSpec`: `Irq` implements `Console`; `TimersRun` and `Answered` under fairness |
| `nested` | 3 frames deep, 3 characters, both FIFOs of 1, heap of 60 words | `TasksSorted`, `Drained`, `RxNeverLost` |
| `preempt` | 3 calls deep, a buffer of 5 units, 2 timers, 2 instants | `TypeOK`, `BlocksApart`, `TimersKept` |
| `kernel` | 5 trees, 7 archives, 14 lines, a table of 2 entries, a heap of 800 bytes | `TypeOK`, `FollowsTree`, `IndentIsDepth`, `TableIsArchive`, `FilesFound`, `KernelOverwritten`, `MemoryKept`; `BootEnds` under fairness |
| `polled` | 4 characters, FIFOs of 2 and 1, texts of 3, one reset | `TypeOK`, `RanAsTyped`, `NoAnswerLeft`, `ShownIsAnswer`, `LostOnlyInBetween`; `ShellReads` under fairness |
| `bins` | 6 pages of 12 cells, headers of 1, units of 2, 3, 10 and 11, requests of 1, 5, 10 and a page, 2 blocks at a time | `ApartUnlessSpilt`, `UnitsKept` |
| `bootloader` | bytes below 4, sizes of 2 bytes, both FIFOs of 2, texts of 3 to 5, 32 images up to 6 bytes | `TypeOK`, `NothingLost`, `ImageLoaded`; `UploadEnds` under fairness |

**Why the bounds are enough.** In `buddy` two layouts leave the boot enough nodes: with
pages 2, 4, 6 and 7 reserved the two blocks of order 1 are buddies, so a free merges
them to order 2, one above the largest `buddy_alloc` knows; with 2, 4, 6 and 8 the last
page is given up for want of a node. With the other two, which reserve page 0 and
pages 1 and 3, the boot itself stops for want of nodes. The three units of a page run out while
blocks are split and while they are merged, so every refill, the corruption and every
stop is reached; a request is served exactly, rounded up, and capped. Every action of
every run fires. In `irq` one line
has room for commands without timers, with one, with an immediate one and with
three in a bad order, the heap runs out in some behaviours and not in others, and with
FIFOs of one character both are full while the tasks of the last one still run.
In `bootloader` sizes and images with and without a carriage return occur, a
text holds the board longer than the receive FIFO lasts, the tail of another fits
into the transmit FIFO, and uploader and board are started in either order. In `nested` three frames let a handler interrupt a task that a handler runs on
behalf of a third. In `preempt` three calls let one allocate inside another
inside a third, a buffer of five units runs out, and two timers are enough for one
to be linked behind one that has gone. In `kernel` names, values and contents have
lengths of every remainder modulo four, values look like tokens, archives are
empty, fill the table and overflow it, programs fill their region and exceed it, and
trees name the archive once, twice, wrongly, or are damaged. In `polled` texts are
longer than both FIFOs, so characters are lost, and a carriage return, a command,
`cat` with its name, `info` and `reboot` fit in one behaviour. In `bins` the
units of two sizes fit exactly, as those of 16 bytes do; of one size the last begins in
the last cell of the page, so that its payload is the next page, as it is for 64 and
256 bytes; and one fills its page, so that each request for it needs a page. The
heads of the four bins are fixed (`MCInit`), with the two free pages between them, and
`bins` does not go on after the first loan of a unit that leaves its page (`Unspilt`),
of which its two invariants say nothing; `bins_spill` does.

**Fairness.** `Buddy`: only the steps of an operation that is running are fair;
callers are free never to call. `Irq`: one CPU always runs (`WF(Kernel)`, which
includes taking a pending interrupt: with one CPU and no other code the kernel is
never overtaken) and time goes on while a timer waits. Neither the user nor the line
is fair: nothing the handlers do waits for the transmit FIFO.
`KernelMain`: `main` and the commands go on; nobody need type. `PolledShell`: the
processor, the line, the VideoCore and a running watchdog go on, each by itself;
nobody need type. `Bootloader`: both programs run and time on the line passes
(`WF(CharTime)`); nobody need start them.

**Runs that end in a counterexample.** Each checks what a comment or a message of the
code says, and TLC shows a behaviour of the code that contradicts it.

| Run | Claim | What happens |
|---|---|---|
| `buddy_stale` | "find it from freelist" (299) | the refill between search and unlinking takes the found block |
| `irq_eret` | "Enable interrupts" before `execute_tasks` (`except.c` 168) | a nested interrupt overwrites ELR_EL1 and SPSR_EL1, which `save_all` does not keep |
| `bins_spill` | "4096 is page_sz and binsize[i] is size for that allocator" (`allocator.c` 281) | the last unit does not fit: for 64 and 256 bytes its payload is the next page, for 128 it crosses into it; in the trace the header and the first unit of the next page, which is cut into units later, lie in a caller's block, and `node_free` takes a page-aligned payload for a page |
| `bootloader_cr` | "kernel-loaded" (`bootloader.c` 15) | `uart_get_char` turns 0x0d into 0x0a, in the image and in its size; `lab2/bootloader/shell_kernel.img` has two such bytes |

`ApartUnlessSpilt` and `UnitsKept` say the same of the bins as `GrantsApart` for as
long as no such unit is in use. One that holds a node counts as in use, too.

An upload started before the banner is out may never end: the uploader takes the
banner for the answer to the size and sends the image at once, which overruns the FIFO
while the board prints "size-check correct". That the board waits for the size already
is not enough: up to eight characters of the banner, its line end with them, may still
be in the transmit FIFO. The properties of `bootloader` are therefore about uploads
started when the board waits for the size and the banner's last character has gone
out (`~early`).

`irq_eret` is why `ConsoleSpec`, `TimersInOrder`, `TimersRun` and `Answered` speak of what
happens until an interrupt is taken inside another (`elr = 0`): the outer handler does not
come back from there. `irq` therefore checks them without nesting. What `nested` checks
holds up to the moment the first eret goes astray.

Some things were seen on the way and have no run of their own:

* With `freelist[0]` empty and the nodes used up, splitting a larger block asks for
  nodes itself, and the recursion empties every list before it stops at "CANT REJUV
  BINS" (245), though pages are left (`NodeHang` in `Buddy`).
* `buddy_free` merges past `header->order` (318), into lists that neither
  `buddy_alloc` (199) nor "AVAILABLE PAGES" (186) looks at: `Coverage` still counts
  these pages as listed, but no caller gets them again.
* When the boot runs out of nodes (127 units of one page; a layout with an archive
  and a device tree needs about 140), a block is in the table and on no list, and
  freeing its buddy ends in the `while(1)` at 315.
* When the startup allocator has run out, `create_task` does nothing (`tasklist.c` 41)
  after the receive interrupt was switched off, and the console is dead.
* `binsize[i] > x` (240) sends requests for exactly 16 bytes, the nodes, to
  `bins[1]`, although 277 says nodes and `bins[0]` are merged; refilling `bins[0]`
  drops the nodes `buddy_alloc` has just put there, against the assumption of 263
  (`dropped` in `Buddy` and in `NodeBins`).
* A node of the allocator is a unit of `bins[1]`, the last of a page included, whose
  payload is the next page: what `bins_spill` shows for callers can happen to the free
  lists. Once freed it is on `bins[0]`, from where a request for a small block may get it.
* While the receive task has not run, the receive FIFO takes what it can and drops the
  rest; an echo written at a full transmit FIFO (97) is dropped, and the ring keeps no
  copy.
* `irq_except_handler_c` ("Disable interrupts", 138) and the loop of
  `timer_irq_handler` ("critical section", 52) become interruptible half way
  through, because `enqueue_task` (`tasklist.c` 35) and line 82 enable interrupts.
* `header + n` at `allocator.c` 60 reserves 56 times what the tables take: too much,
  so nothing is lost but memory (`PreinitEnd` in `Reservations`).
* `settimeout` reads its seconds in base 16 (`shell.c` 129); `exec` of a name that is
  not there copies entry -1 (`cpio.c` 85); `cpio_ls` lists one entry too many.
* `except.c` 90 reads the last character typed at index -1 of an empty buffer.
* The start code clears `__bss_size` = (end - start) >> 3 double words, and nothing in
  `linker.ld` aligns the end: in the `kernel8.elf` kept in `lab5/shell` the remainder
  is four bytes, `uart_write_index` (0x86710), which starts with what memory holds
  while `uart_write_head` starts at 0. `Console` starts both at 0.
* `start.S` 48 sets 0x345 where its comment says 0x3c5: interrupts are not masked when
  EL1 is entered. No source of interrupts is enabled before `main.c` does so.
* `start.S` 9-10 stores `x0` in `_dtb_ptr` before the test of the core number.

## 4. What is proved

TLAPS checks the following for every value of the constants that satisfies the
named assumptions. A theorem states a property of a run wherever the run has one:
every invariant and every action property that section 3 lists is proved, and so are
both refinements.

| Module | Theorem | States |
|---|---|---|
| `BuddyProofs` | `TypeCorrect`, `BlocksDisjoint`, `EntriesAgree` | `TypeOK`, `Disjoint`, `EntriesMatch`, from `Invariance` (`IInv`) |
| | `PagesCovered`, `UnitsCounted` | `Coverage`, `NodesKept` |
| | `ImplementsFrames` | `FramesSpec`: `Buddy` implements `PageFrames` |
| | `GrantsExclusive` | no page is granted twice: `PageFrames`' own invariant, of `Buddy` |
| `IrqProofs` | `TypeCorrect`, `AlwaysSorted`, `AlwaysDrained`, `ReceiveNeverLost` | `TypeOK`, `TasksSorted`, `Drained`, `RxNeverLost` |
| `ConsoleProofs` | `AlwaysRearmed` | `Rearmed` |
| | `EchoesInOrder`, `AlwaysInOrder` | `ConsoleSpec` (`Irq` implements `Console`), `TimersInOrder` |
| `PreemptProofs` | `TypeCorrect`, `BlocksDisjoint`, `NoTimerLost` | `TypeOK`, `BlocksApart`, `TimersKept` |
| | `HeapBounded` | no block leaves the buffer, whoever interrupts whom |
| `KernelProofs` | `TypeCorrect`, `TreeFollowed`, `IndentRight` | `TypeOK`, `FollowsTree`, `IndentIsDepth` |
| | `TableRight`, `LookupRight`, `KernelSafe` | `TableIsArchive`, `FilesFound`, `KernelOverwritten` |
| | `MemoryReserved`, by `InUseKept` | `MemoryKept` |
| `PolledProofs` | `TypeCorrect`, `NoneLeft`, `LostInBetween`, `LinesInOrder` | `TypeOK`, `NoAnswerLeft`, `LostOnlyInBetween`, `RanAsTyped` |
| | `ShownRight` | `ShownIsAnswer`, for numbers of 32 bits |
| `BinsProofs` | `BlocksApart`, `UnitsAccounted` | `ApartUnlessSpilt`, `UnitsKept` |
| `BootloaderProofs` | `TypeCorrect`, `ImageArrives` | `TypeOK`, `ImageLoaded` |
| | `NoOverrun` | `NothingLost`, if the FIFO outlasts the last text |

**Allocator.** Assumed: `Size` is the powers of two, some order below `TopOrder`
cannot be reached, the last page is not reserved, a page holds at least two
units. `Disjoint` is not inductive: whether a merge keeps blocks apart depends on the
entries it trusts, and those on the lists. `IInv` (in `BuddyInv`) adds that listed
blocks lie in the table, that every entry of a carved page is an order whose block is
listed, a negative value whose block is in use, or belongs to the inside of a
block, and that what is carved and what is not stay apart. `CoverInv` adds that the
pages ahead of the carving are marked if and only if somebody keeps them, since
`CarveBlock` looks at nothing else. `NodesKept` counts, so its proof is about
cardinalities: each step adds and removes as many nodes and blocks as it moves
units, and a refill of `bins[0]` moves the cut-off ones to `dropped` (`NodeInv`). What
`Coverage` says of blocks the boot gives up needs `GivenUp`, that during the carving no
node is left once there is such a block. For the refinement every step is a grant, a return or a stutter of
`PageFrames`: a split, a merge and a refill move pages between lists and blocks of
the allocator's own, and what callers hold changes in `TakeBlock` and `Free` only.

**Interrupts.** Every insertion keeps `TasksSorted`, because `Behind` looks at
the list as it is at that moment, and so does `Pop`. `Drained` needs the form of
the frames (`Frames`): `eret` is the last step of a frame and comes directly
after `tasks`, so a handler gets to it only through `TasksDone`, with an empty
list, or back from an interrupt taken there, whose own handler left the list
empty. `RxNeverLost` needs which step may follow which (`Shapes`), and that, with the
interrupt off, a frame still has the step that leads to switching it on or the
receive task is on the list, with no later step above it (`RxKept`).

**Console and timers.** As long as no interrupt has nested (`Clean`), `Good` says what
task list, ring, hardware timer and running step have to do with each other: one
character at most is between the FIFOs, the transmit task is on the list exactly
while it is owed, and the hardware timer is set to the head of the timer list or
somebody is about to set it. Once one has nested, the outer frame never comes back to `main`
(`Nested`). So `Rearmed`, which speaks of `main`'s loop, holds at any depth. What is
echoed and in which order timers run is different: a nested handler sends a second
character, or runs a timer, in the middle of an outer one's work, before any eret goes
astray. `ConsoleSpec` and `TimersInOrder` therefore say what holds until an interrupt is
taken inside another, and are proved for every `MaxNest`. `Lossless` says that the
characters received are those echoed and those in FIFO, ring and running step, in that
order; it does not say so of characters typed, nor of those the terminal shows: FIFOs
drop some, and `Console` says when. `TimerInv` says that the list, the callback that runs and what has run make up
the timers set, each once.

**Startup allocator and timer list under interrupts.** `BlocksApart` needs that the
running call, and no other, may be about to store, and stores what it adds to the
offset it will find (`Whole`); that what is used lies below the offset; and, for the
bound, that what was loaded still fits (`CallOK`). For `TimersKept` the list has to be
given as a sequence: `Listed` says there is one, in order of expiry, that the `next`
pointers spell out and that has every timer which waits. `Calm` says that no
interrupted call is at an insertion or a removal and that what the running one has
read of `timer_head` is still so; this is what an interrupt there destroys, and why
the property has `raced`.

**Device tree.** `TreeInv` says that the walk stands where an item of the tree begins
and has passed on exactly the items before it. The structure block is the encoded
items one behind the other (`At` is where each begins), so that an item at the start
of what is left decides which token, name and value the walk reads, whatever bytes
they are and however they are padded. `SpaceInv` says that the indentation is at least the depth, also after a damaged tree has left some, and the depth itself as long
as the tree is sound.

**Archive and commands.** `TableInv`: every entry is the file's if it has been read and
`Zero` if not, so nothing allocated later reaches the table; for this the offset must
lie behind the table from the moment it is allocated (`FlowInv`). That headers do not
overlap and the next one is where `NextHeader` looks follows from how cpio lays
members out. `Lookup` compares the table with the walk: both find the first file of a name, or
neither finds one, unless the name is what lies at address 110. `CpioInv` says that the
tree leads to the archive or to no header. `InUseKept` is linear arithmetic on
pages: a reservation marks every page its range touches (`ReserveCovers`), and two
adjacent ones have no gap (`BothKept`).

**Polled shells.** `LostOnlyInBetween` needs that an echo is one character and that
one which has to wait has left room in the receive FIFO (`Characters`); `NoAnswerLeft`
that there is at most one question or answer under way and only in a call
(`Asking`). `RanAsTyped` needs to know where the lines end among the characters typed:
`LineInv` says there is a sequence of these places, that the lines worked off lie
between them, and that buffer and FIFO have the rest. `ShownIsAnswer` needs that the two words of
the buffer are an answer to the question asked last, or zero, and that eight digits
give a number of 32 bits back. Assumed: FIFOs and texts are not empty, and messages
that wait at the start are nobody's answer.

**Bins.** `Inv` says that units lie one behind the other in pages cut into units, that
each is in one place (a head, a list, a caller, a node of the allocator, cut off), and
that what callers have is a unit or a page of its own; `InHand` has the nodes that a
running `buddy_free` holds. It holds for any sizes until a unit that leaves its page is
drawn, by a caller or for a node (`BInv`).

**Bootloader.** `FlowInv`: of an upload started in time, what was read, what is in the
FIFO and what is on the line make up the size, or the image, in order; and while the
board reads, the FIFO holds at most one byte. For this the uploader must not send the
image before "size-check correct" has gone out, so `FlowInv` also says which texts are
still to come or on their way: none when the uploader is opened, and at most the one
that answers what it has sent (`Asked`). `NoOverrun` assumes that the board waits for the
last text's room no longer than the FIFO lasts: a size that lost a carriage return lets
the rest of the image arrive meanwhile. "kernel-loaded" with its line end is 15
characters, of which the transmit FIFO takes 8, so the board waits for 7, and its
receive FIFO holds 8. `ImageArrives` does not depend on how long any text takes. What it
says of carriage returns is that they may change; a size with one is excluded, as
`bootloader_cr` shows it must be.

**How.** Where TLC can evaluate it, an inductive invariant was checked on the instances
of section 3 before it was proved; the others claim that some sequence exists. Each proof that a step keeps
one has a lemma or a step per action. The library's induction theorems take an operator as a parameter, which the
provers cannot instantiate. What is computed by a recursive function (numbers as
digits, the layout of blob and archive, walks over both) is proved with `LeastNat`
instead: a set of natural numbers that is not empty has a least element, so a
property given as a set has a least counterexample (`Climb`). That such a function exists is a lemma of
its own (`Recursion`, `Recurrence`): TLA+ defines it by CHOOSE.

**Only model-checked.** The liveness properties: `OpReturns`, `TimersRun`, `Answered`,
`BootEnds`, `ShellReads` and `UploadEnds`. They rest on fairness and so on
`ENABLED`, which this prover does not reason about. The four runs that end in a
counterexample have no theorem; the conditions `~spilt`, `~early`, `elr = 0` and the one on
carriage returns say when what they refute does hold.

## 5. Not modelled

* Register set-up (`uart_init`, the exception levels and parking of cores in
  `start.S`, the relocation of the bootloader): it runs once, before any state of the
  models exists.
* The texts that are printed, except where a number in them is the point (`info`).
* Functions without a caller: `cancel_reset`, `uart_async_read`, `uart_async_write`,
  `uart_async_send`, `uart_disable_interrupt`.
* Interrupts between the load and the store of AUX_MU_IER, and memory behind
  `entries`, whose contents depend on addresses.
* What follows corruption: after a wild eret, a wild return, a write through NULL or
  a page given back by the wrong owner the models stop.
* The line buffer of the polled shells as 256 bytes, and the stack of a user
  program, for which `exec` passes the wrong end of the block (`cpio.c` 93).
* Of labs 3 and 4, what is only a stage on the way to lab 5.

Next would be the composition of `NodeBins` with `Buddy`: which pages make up a block is
left open in the one, where a unit lies in its page in the other.
