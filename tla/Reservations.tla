---------------------------- MODULE Reservations ----------------------------
(***************************************************************************)
(* What buddy_system_init marks in the page table before the allocator is  *)
(* set up: its own header and tables, low memory, the kernel, the archive  *)
(* and the device tree.  Addresses and sizes are the code's.               *)
(***************************************************************************)
EXTENDS Utils

CONSTANTS
  HeaderAt,    \* where the allocator's header lies (0x10000000)
  MemSize,     \* bhead->size (0x3C000000)
  Order        \* bhead->order (11)

ASSUME ReservationsAssumption ==
  HeaderAt \in Nat /\ MemSize \in Nat /\ Order \in Nat

PageSize   == 4096
StructSize == 56     \* sizeof(struct buddy_alloc)

\* A range of addresses, without its end.
From(a, b) == [start |-> a, end |-> b]

\* Mutant: the last page is left out when the end lies in it.
WholePages(start, end) == (start \div PageSize) .. AlignDown(end, PageSize) \div PageSize - 1

\* buddy_alloc_reserve: the pages from start's to the one the end lies in.
Reserve(start, end) == (start \div PageSize) .. RetAlign(end, PageSize) \div PageSize - 1

PageCount   == MemSize \div PageSize
EntriesSize == PageCount * 4
ListSize    == (Order + 1) * 8

\* The header, entries and freelist as buddy_alloc_preinit lays them out.
Tables == From(HeaderAt, HeaderAt + StructSize + EntriesSize + ListSize)

\* What it reserves for them: header is a struct pointer, so adding bytes to it
\* goes StructSize times as far.
PreinitEnd == HeaderAt + (StructSize + EntriesSize + ListSize) * StructSize

\* The ranges of buddy_system_init; nobody knows how large archive and tree are.
Ranges(cpio, dtb) ==
  {From(HeaderAt, PreinitEnd), From(0, 4096), From(4096, 524288),
   From(524288, 524288 + 30000), From(cpio, cpio + 30000), From(dtb, dtb + 60000)}

\* Whether page p is marked.
Marked(ranges, p) == \E r \in ranges : p \in Reserve(r.start, r.end)

\* Whether no page of the range can be handed out.
Kept(ranges, r) ==
  \A p \in (r.start \div PageSize) .. (r.end - 1) \div PageSize : Marked(ranges, p)
=============================================================================
