-------------------------------- MODULE Memory --------------------------------
(***************************************************************************)
(* Memory as the boot core sets it up: initPMM turns the memory map of the *)
(* firmware into the bitmap of the page manager                            *)
(* (mm/physicalPageManager.c), bootMain and kHeapInit take their pages     *)
(* (kernelMain.c, mm/kHeap.c), initVMM builds the mappings of the kernel,  *)
(* and address spaces come and go (mm/virtualPageManager.c).               *)
(*                                                                         *)
(* Addresses are in units of which PageSize make a page; page tables have  *)
(* Entries entries.  One call of physicalPageAlloc is one step here:       *)
(* module PhysicalPages shows that it is atomic and takes the first fit.   *)
(***************************************************************************)
EXTENDS Integers, Sequences, FiniteSets

CONSTANTS PageSize,      \* units of the memory map in a page
          MaxPage,       \* bound: pages looked at are 0 .. MaxPage
          MemoryMaps,    \* what the firmware may report
          LowLength,     \* what initPMM reserves at 0: 0x120000
          BootAllocs,    \* pages taken before initVMM: 4, 0x100, 1, 16
          Tables,        \* first of the pages with the kernel's page tables
          Entries,       \* entries of a page table; 512 in the code
          Spaces,        \* entries of pageDirectoryTables; 100 in the code
          Sizes,         \* sizes programs ask for, in pages or large pages
          StaleBits,     \* pages whose bits may be set before initPMM
          StaleEntries,  \* what memory nobody cleared may hold
          MaxFrees       \* bound: calls of freeAddressSpace

ASSUME PageSizeAssumption == PageSize \in Nat \ {0} /\ MaxPage \in Nat \ {0}
ASSUME EntriesAssumption == Entries \in Nat /\ Entries > 3
ASSUME SpacesAssumption == Spaces \in Nat /\ MaxFrees \in Nat
(* Programs ask for less than the machine has. *)
ASSUME SizesAssumption == /\ Sizes \subseteq 1 .. Entries
                          /\ \A size \in Sizes : size * Entries <= MaxPage + 1

(* The sums of the first 0, 1, .. entries of a sequence. *)
Sums(s) == LET sum[i \in 0 .. Len(s)] == IF i = 0 THEN 0 ELSE sum[i - 1] + s[i]
           IN  sum
Total(s) == Sums(s)[Len(s)]

Lengths(m) == [i \in 1 .. Len(m) |-> m[i].length]

(* Where the allocations of the boot end if they follow each other. *)
LowPages == LowLength \div PageSize
BootEnd == LowPages + Total(BootAllocs)

(* The pages that are looked at are as many as the lengths in a map come   *)
(* to.  Its entries may lie anywhere.                                      *)
Limit == (MaxPage + 1) * PageSize
ASSUME MapsAssumption ==
  \A m \in MemoryMaps : /\ m \in Seq([base : Nat, length : Nat, type : Nat])
                        /\ Total(Lengths(m)) <= Limit

ASSUME BootAssumption ==
  /\ LowLength \in PageSize .. Limit
  /\ BootAllocs \in Seq(Nat \ {0}) /\ BootAllocs # <<>>
  /\ Tables \in Nat /\ Tables + 7 <= MaxPage

(* initVMM writes to 0x200000 without asking: the firmware reserves nothing *)
(* from the end of the low memory to the end of the heap.                   *)
ASSUME KernelTablesAssumption ==
  /\ Tables < BootEnd /\ BootEnd < MaxPage
  /\ \A m \in MemoryMaps : \A i \in 1 .. Len(m) :
       m[i].type # 1 => \/ m[i].base + m[i].length <= LowPages * PageSize
                        \/ BootEnd * PageSize <= m[i].base

Pages == 0 .. MaxPage
Indices == 0 .. Entries - 1
Slots == 0 .. Spaces - 1

(* What the processor finds in a page it takes for a table. *)
Contents == [Indices -> [to : Pages, large : BOOLEAN, present : BOOLEAN]]
ASSUME StaleAssumption == /\ StaleEntries \subseteq Contents
                          /\ StaleBits \subseteq SUBSET Nat

KernelEntry == Entries \div 2   \* 256 of 512: HIGH_VMA
HighEntry == Entries - 1        \* 511: KERNEL_HIGH_VMA

VARIABLES
  map,     \* the memory map
  stale,   \* history: the bits that were set before initPMM
  next,    \* how many entries of it initPMM has seen
  bitmap,  \* pages whose bit is set
  total,   \* totalDetectedMemory
  booted,  \* how many of BootAllocs bootMain has made
  ready,   \* initVMM has run
  table,   \* pageDirectoryTables
  frame,   \* the entries in the pages used as page tables
  granted, \* history: every page a caller was given
  clean,   \* history: pages handed out were zero so far
  refused, \* history: an allocation failed
  frees,   \* history: calls of freeAddressSpace
  freedLarge, \* history: one of them was for a space of large pages
  own,     \* history: the data pages of each space
  beyond   \* the table of spaces was left

vmVars == <<table, frame, clean, frees, freedLarge, own, beyond>>
pmVars == <<bitmap, granted, refused>>
vars == <<map, stale, next, total, booted, ready, pmVars, vmVars>>

NotPresent == [to |-> 0, large |-> FALSE, present |-> FALSE]
Entry(p, large) == [to |-> p, large |-> large, present |-> TRUE]
EmptySlot == [pml4 |-> 0, pml3 |-> 0, pml2 |-> 0, pml1 |-> 0, large |-> FALSE]

Run(base, count) == base .. base + count - 1

Kpml3 == Tables + 1
Kpml3HH == Tables + 7

-----------------------------------------------------------------------------
(* initPMM *)

(* Fault: the last page of a region is counted out. *)
RegionShort(start, length) ==
  start \div PageSize .. start \div PageSize + length \div PageSize - 2

(* allocateRegion drops the remainders of start and length. *)
Region(start, length) ==
  start \div PageSize .. start \div PageSize + length \div PageSize - 1

(* The memset of the bitmap clears 0 bytes, as totalDetectedMemory is      *)
(* still 0: any of its bits may be set.                                    *)
Init ==
  /\ map \in MemoryMaps
  /\ next = 0 /\ total = 0
  /\ stale \in StaleBits /\ bitmap = stale
  /\ booted = 0 /\ ready = FALSE
  /\ table = [s \in Slots |-> EmptySlot]
  /\ \E old \in StaleEntries :
       /\ frame = [p \in Pages |-> old]
       /\ clean = (\A i \in Indices : ~old[i].present)
  /\ granted = {} /\ refused = FALSE
  /\ frees = 0 /\ freedLarge = FALSE
  /\ own = [s \in Slots |-> {}]
  /\ beyond = FALSE

(* allocateRegion marks what is not usable, wherever it is, also when it   *)
(* lies above the memory that the bitmap is there for.                     *)
ReadMapEntry ==
  /\ next < Len(map)
  /\ LET e == map[next + 1]
     IN  /\ total' = total + e.length
         /\ bitmap' = IF e.type = 1 THEN bitmap
                      ELSE bitmap \cup Region(e.base, e.length)
  /\ next' = next + 1
  /\ UNCHANGED <<map, stale, booted, ready, granted, refused, vmVars>>

ReserveLowMemory ==
  /\ next = Len(map)
  /\ bitmap' = bitmap \cup Region(0, LowLength)
  /\ next' = next + 1
  /\ UNCHANGED <<map, stale, total, booted, ready, granted, refused, vmVars>>

(* The page physicalPageAlloc finds for a count, given the bits that are   *)
(* set: the first run that fits below the end of memory.                   *)
None == -1
FirstFit(marked, count) ==
  LET fits == {p \in 0 .. total \div PageSize - count :
                 Run(p, count) \cap marked = {}}
  IN  IF fits = {} THEN None ELSE CHOOSE p \in fits : \A q \in fits : p <= q

(* What it returns: 0 is a page like any other, and the sign of failure. *)
Address(found) == IF found = None THEN 0 ELSE found

Taken(marked, count) == LET p == FirstFit(marked, count)
                        IN  IF p = None THEN marked ELSE marked \cup Run(p, count)

(* Several calls in a row: the bits that are set after each. *)
Marks(counts) ==
  LET marks[i \in 0 .. Len(counts)] ==
        IF i = 0 THEN bitmap ELSE Taken(marks[i - 1], counts[i])
  IN  marks

Found(counts) == [i \in 1 .. Len(counts) |-> FirstFit(Marks(counts)[i - 1], counts[i])]
Addresses(counts) == [i \in 1 .. Len(counts) |-> Address(Found(counts)[i])]

Hand(found, counts) ==
  LET pages == UNION {Run(found[i], counts[i]) :
                        i \in {j \in 1 .. Len(counts) : found[j] # None}}
  IN  /\ bitmap' = bitmap \cup pages
      /\ granted' = granted \cup pages
      /\ refused' = (refused \/ \E i \in 1 .. Len(counts) : found[i] = None)

(* bootMain takes a stack, kHeapInit the heap and its two tables. *)
BootAlloc ==
  /\ next > Len(map) /\ booted < Len(BootAllocs)
  /\ LET counts == <<BootAllocs[booted + 1]>> IN Hand(Found(counts), counts)
  /\ booted' = booted + 1
  /\ UNCHANGED <<map, stale, next, total, ready, vmVars>>

(* initVMM: eight pages at a fixed address become the tables of the kernel *)
(* whoever owns them.  What they map, all of memory, is left out but for   *)
(* the two entries that every other space copies.                          *)
InitVMM ==
  /\ booted = Len(BootAllocs) /\ ~ready
  /\ frame' = [frame EXCEPT
                 ![Tables] = [i \in Indices |->
                    IF i \in {0, KernelEntry} THEN Entry(Kpml3, FALSE)
                    ELSE IF i = HighEntry THEN Entry(Kpml3HH, FALSE)
                    ELSE NotPresent]]
  /\ ready' = TRUE
  /\ UNCHANGED <<map, stale, next, total, booted, pmVars, table, clean, frees,
                 freedLarge, own, beyond>>

-----------------------------------------------------------------------------
(* Address spaces.                                                         *)

(* Fault: the search starts at the second entry. *)
IsFirstFreeFromOne(s) == /\ table[s].pml4 = 0 /\ s # 0
                         /\ \A r \in Slots : r < s => table[r].pml4 # 0

IsFirstFree(s) == /\ table[s].pml4 = 0
                  /\ \A r \in Slots : r < s => table[r].pml4 # 0

(* Fault: the entries for the kernel's half are not copied. *)
Pml4WithoutKernel(old, pml3) == [old EXCEPT ![0] = Entry(pml3, FALSE)]

Pml4(old, pml3) == [old EXCEPT ![0] = Entry(pml3, FALSE),
                               ![KernelEntry] = Entry(Kpml3, FALSE),
                               ![HighEntry] = Entry(Kpml3HH, FALSE)]

DataEntries(old, base, size, step) ==
  [i \in Indices |-> IF i < size THEN Entry(base + i * step, step > 1) ELSE old[i]]

(* What both write first.  After failures two of the pages may be the same. *)
UpperTables(b) ==
  LET first == [frame EXCEPT ![b[1]] = Pml4(@, b[2])]
  IN  [first EXCEPT ![b[2]] = [@ EXCEPT ![0] = Entry(b[3], FALSE)]]

(* Pages of 4 KB below a table of their own.  None of the tables is        *)
(* cleared, and no result of physicalPageAlloc is looked at.               *)
SmallCounts(size) == <<1, 1, 1, 1, size>>
SmallTables(b, size) ==
  LET upper == [UpperTables(b) EXCEPT ![b[3]] = [@ EXCEPT ![0] = Entry(b[4], FALSE)]]
  IN  [upper EXCEPT ![b[4]] = DataEntries(@, b[5], size, 1)]

CreateSmall ==
  /\ ready /\ ~beyond
  /\ \E s \in Slots, size \in Sizes :
       /\ IsFirstFree(s)
       /\ LET counts == SmallCounts(size)
              b == Addresses(counts)
          IN  /\ Hand(Found(counts), counts)
              /\ table' = [table EXCEPT ![s] = [pml4 |-> b[1], pml3 |-> b[2],
                             pml2 |-> b[3], pml1 |-> b[4], large |-> FALSE]]
              /\ frame' = SmallTables(b, size)
              /\ own' = [own EXCEPT ![s] = Run(b[5], size)]
  /\ UNCHANGED <<map, stale, next, total, booted, ready, clean, frees, freedLarge, beyond>>

(* Large pages straight from the third level; pml1 stays what it was. *)
LargeCounts(size) == <<1, 1, 1, size * Entries>>
LargeTables(b, size) ==
  [UpperTables(b) EXCEPT ![b[3]] = DataEntries(@, b[4], size, Entries)]

CreateLarge ==
  /\ ready /\ ~beyond
  /\ \E s \in Slots, size \in Sizes :
       /\ IsFirstFree(s)
       /\ LET counts == LargeCounts(size)
              b == Addresses(counts)
          IN  /\ Hand(Found(counts), counts)
              /\ table' = [table EXCEPT ![s] = [pml4 |-> b[1], pml3 |-> b[2],
                             pml2 |-> b[3], pml1 |-> table[s].pml1, large |-> TRUE]]
              /\ frame' = LargeTables(b, size)
              /\ own' = [own EXCEPT ![s] = Run(b[4], size * Entries)]
  /\ UNCHANGED <<map, stale, next, total, booted, ready, clean, frees, freedLarge, beyond>>

(* findFirstFreeSlot looks at 1000 entries of a table that has room for    *)
(* 100, and nobody looks at its -1: with every entry taken, the space is   *)
(* written outside the table.  Nothing is said of what follows.            *)
CreateBeyond ==
  /\ ready /\ ~beyond
  /\ \A s \in Slots : ~IsFirstFree(s)
  /\ beyond' = TRUE
  /\ UNCHANGED <<map, stale, next, total, booted, ready, pmVars, table, frame, clean,
                 frees, freedLarge, own>>

TablePages(s) == {table[s].pml4, table[s].pml3, table[s].pml2, table[s].pml1}

(* Callers free the spaces they use.  The four tables are given back, also *)
(* page 0 for a table that is not there; the data pages are not.           *)
FreeAddressSpace ==
  /\ ready /\ ~beyond /\ frees < MaxFrees
  /\ \E s \in Slots :
       /\ own[s] # {}
       /\ bitmap' = bitmap \ TablePages(s)
       /\ table' = [table EXCEPT ![s] = EmptySlot]
       /\ own' = [own EXCEPT ![s] = {}]
       /\ freedLarge' = (freedLarge \/ table[s].large)
  /\ frees' = frees + 1
  /\ clean' = FALSE
  /\ UNCHANGED <<map, stale, next, total, booted, ready, granted, refused, frame,
                 beyond>>

Next == \/ ReadMapEntry \/ ReserveLowMemory \/ BootAlloc \/ InitVMM
        \/ CreateSmall \/ CreateLarge \/ CreateBeyond \/ FreeAddressSpace

Spec == Init /\ [][Next]_vars

-----------------------------------------------------------------------------
(* The spaces that callers use. *)
Live == {s \in Slots : own[s] # {}}

(* Pages are handed out below the end of the memory that was detected,     *)
(* whatever the map and the bits hold.                                     *)
TypeOK ==
  /\ next \in 0 .. Len(map) + 1
  /\ total \in Nat
  /\ bitmap \subseteq Nat /\ granted \subseteq 0 .. total \div PageSize - 1
  /\ booted \in 0 .. Len(BootAllocs)
  /\ table \in [Slots -> [pml4 : Pages, pml3 : Pages, pml2 : Pages, pml1 : Pages,
                          large : BOOLEAN]]
  /\ frame \in [Pages -> Contents]
  /\ ready \in BOOLEAN /\ clean \in BOOLEAN /\ refused \in BOOLEAN
  /\ freedLarge \in BOOLEAN /\ beyond \in BOOLEAN /\ frees \in 0 .. MaxFrees
  /\ own \in [Slots -> SUBSET Pages]

(* A map initPMM understands: its entries start and end on page boundaries *)
(* and follow each other without a hole.                                   *)
Regular == \A i \in 1 .. Len(map) :
             /\ map[i].base % PageSize = 0 /\ map[i].length % PageSize = 0
             /\ map[i].base = (IF i = 1 THEN 0 ELSE map[i - 1].base + map[i - 1].length)

Usable == {p \in Pages : \E i \in 1 .. Len(map) :
             /\ map[i].type = 1
             /\ map[i].base <= p * PageSize
             /\ (p + 1) * PageSize <= map[i].base + map[i].length}

(* Only memory the firmware calls usable is handed out, and none of the    *)
(* first megabyte, if the map is regular, no allocation failed and no      *)
(* space of large pages was freed (physicalPageManager.c:16-32,65-69,      *)
(* virtualPageManager.c:68-75).                                            *)
HandsOutRam ==
  Regular /\ ~refused /\ ~freedLarge =>
    granted \subseteq Usable \ Region(0, LowLength)

(* What the processor finds for a program of space s: leaf pages below the *)
(* entries that are not the kernel's.  In the entry of a large page the    *)
(* lowest bit of the address (bit 12) is PAT and no part of it; with any   *)
(* other bit that should be 0 the access faults.                           *)
Below(p) == {frame[p][i] : i \in {j \in Indices : frame[p][j].present}}
UserTables(s) == {frame[table[s].pml4][i] : i \in
                    {j \in Indices \ {KernelEntry, HighEntry} :
                       frame[table[s].pml4][j].present}}
LargePage(p) == IF p % Entries \in {0, 1} THEN Run(p - (p % Entries), Entries) ELSE {}
Leaves(e) == IF e.large THEN LargePage(e.to) ELSE {f.to : f \in Below(e.to)}
UserPages(s) ==
  UNION {Leaves(e) : e \in UNION {Below(f.to) : f \in UNION {Below(g.to) :
                                                   g \in UserTables(s)}}}

(* The pages that lie d before those that space s asked for, if the first  *)
(* of those is d after a multiple of a large page.                         *)
Starts(s, d) == \E b \in own[s] : b - 1 \notin own[s] /\ b % Entries = d
Before(s, d) == IF Starts(s, d) THEN {p - d : p \in own[s]} ELSE {}

(* Every space maps the kernel, and for the program its own pages and no   *)
(* others when they are small, or large and at a multiple of a large page. *)
(* physicalPageAlloc looks for no such multiple: one page after it the     *)
(* program gets the page before its memory instead of its last one, and    *)
(* elsewhere nothing.  It needs tables that were zero when they were       *)
(* allocated, allocations that succeed, and a bitmap without set bits      *)
(* where the boot takes its memory (virtualPageManager.c:26-66).           *)
BootInPlace == stale \cap (LowPages .. BootEnd - 1) = {}
SpacesMapOwn ==
  clean /\ ~refused /\ BootInPlace =>
    \A s \in Live :
      /\ frame[table[s].pml4][KernelEntry] = frame[Tables][KernelEntry]
      /\ frame[table[s].pml4][HighEntry] = frame[Tables][HighEntry]
      /\ UserPages(s) = IF table[s].large THEN Before(s, 0) \cup Before(s, 1)
                        ELSE own[s]

(* No page belongs to two spaces or twice to one, the pages of a space are *)
(* marked, and its slot is not given to another, after any calls that      *)
(* create and free spaces, as long as no allocation failed and no space of *)
(* large pages was freed (virtualPageManager.c:29-52,68-75,126).           *)
Held(s) == own[s] \cup (TablePages(s) \ {0})
SpacesDisjoint ==
  ~refused /\ ~freedLarge =>
    /\ \A s \in Live : /\ table[s].pml4 # 0 /\ Held(s) \subseteq bitmap
                       /\ Cardinality(TablePages(s)) = 4
                       /\ own[s] \cap TablePages(s) = {}
    /\ \A r, s \in Live : r # s => Held(r) \cap Held(s) = {}

(* A program reaches the kernel's pages, its own and, when they are large  *)
(* and one page out of place, the one before them, and nobody is given its *)
(* own while it lives (virtualPageManager.c:24-75).                        *)
SpacesIsolated == SpacesMapOwn /\ SpacesDisjoint

(* The table is left only when every entry of it belongs to a space that   *)
(* is in use, after any calls that create and free spaces, whether their   *)
(* allocations succeeded or not (virtualPageManager.c:74,124-131).         *)
LeftWhenFull == beyond => Live = Slots
=============================================================================
