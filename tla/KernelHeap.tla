------------------------------ MODULE KernelHeap ------------------------------
(***************************************************************************)
(* The kernel heap of seaweed (kernel/mm/kHeap.c): kmalloc, kfree and      *)
(* krealloc over a bitmap of blocks and a table of allocations.            *)
(*                                                                         *)
(* Addresses are block numbers.  The heap takes no lock, so one call is    *)
(* one step: the calls of the boot core and, once tasks run, those under   *)
(* the lock of syscallMain.  What callers store in their memory is left    *)
(* out.  live records the allocations whose caller still holds them.       *)
(***************************************************************************)
EXTENDS Integers, FiniteSetsExt

CONSTANTS KBitmapSize,      \* blocks of the heap
          TableEntries,     \* entries in the pages of allocationBitmap
          BlockSize,        \* bytes of a block
          PageDirectories,  \* bytes initVMM asks for, the first call of all
          Requests,         \* bytes the kernel asks kmalloc for
          Growths           \* bytes the kernel passes to krealloc

Roundup(a, b) == (a + b - 1) \div b

ASSUME HeapAssumption ==
  /\ KBitmapSize \in Nat \ {0} /\ TableEntries \in Nat \ {0} /\ BlockSize \in Nat \ {0}
  /\ PageDirectories \in Nat \ {0}
  /\ Roundup(PageDirectories, BlockSize) <= KBitmapSize
  /\ Requests \subseteq Nat \ {0} /\ Growths \subseteq Nat \ {0}

VARIABLES kbitmap,           \* the blocks whose bit is set
          allocationBitmap,  \* the table: first block and size of allocations
          live,              \* the allocations somebody holds
          fault              \* an access outside the bitmap or the table

vars == <<kbitmap, allocationBitmap, live, fault>>

Blocks == 0 .. KBitmapSize - 1
Slots  == 0 .. TableEntries - 1
NoBlock == -1

Allocation == [block : Nat, size : Nat]
Unused == [block |-> 0, size |-> 0]

Run(first, length) == first .. first + length - 1

(* initVMM's page directory tables are the first allocation and stay.      *)
Boot == [block |-> 0, size |-> Roundup(PageDirectories, BlockSize)]

Init == /\ kbitmap = Run(0, Boot.size)
        /\ allocationBitmap = [s \in Slots |-> IF s = 0 THEN Boot ELSE Unused]
        /\ live = {Boot}
        /\ fault = FALSE

(* Fault: a set bit does not restart the count. *)
LookKeepCount(run, block, bitmap, blockCount) ==
  IF run.cnt = blockCount THEN run
  ELSE IF block \in bitmap THEN run
  ELSE [run EXCEPT !.cnt = @ + 1]

(* Fault: a set bit moves the base by the free blocks seen, not past itself. *)
LookBaseBehind(run, block, bitmap, blockCount) ==
  IF run.cnt = blockCount THEN run
  ELSE IF block \in bitmap THEN [base |-> run.base + run.cnt, cnt |-> 0]
  ELSE [run EXCEPT !.cnt = @ + 1]

(* What the loop of kmalloc does to the run it has seen when it looks at a *)
(* block.  It is over when the run is long enough.                         *)
Look(run, block, bitmap, blockCount) ==
  IF run.cnt = blockCount THEN run
  ELSE IF block \in bitmap THEN [base |-> run.base + run.cnt + 1, cnt |-> 0]
  ELSE [run EXCEPT !.cnt = @ + 1]

(* Fault: the loop runs one block too far. *)
ScanBeyondEnd(bitmap, blockCount) ==
  LET first == Min(Blocks \ bitmap)
      loop[i \in 0 .. KBitmapSize + 1] ==
        IF i <= first THEN [base |-> first, cnt |-> 0]
        ELSE Look(loop[i - 1], i - 1, bitmap, blockCount)
      last == loop[KBitmapSize + 1]
  IN  IF last.cnt = blockCount THEN last.base ELSE NoBlock

(* The loop, from the first free block on: loop[i] is the run before its   *)
(* iteration for block i, and the result the run that it finds, or none.   *)
Scan(bitmap, blockCount) ==
  LET first == Min(Blocks \ bitmap)
      loop[i \in 0 .. KBitmapSize] ==
        IF i <= first THEN [base |-> first, cnt |-> 0]
        ELSE Look(loop[i - 1], i - 1, bitmap, blockCount)
      last == loop[KBitmapSize]
  IN  IF last.cnt = blockCount THEN last.base ELSE NoBlock

UnusedSlots(table) == {s \in Slots : table[s].size = 0}
SlotsOf(table, block) == {s \in Slots : table[s].block = block}

(* Fault: the last block of an allocation is not marked. *)
MarkShort(bitmap, a) == bitmap \cup Run(a.block, a.size - 1)

Mark(bitmap, a) == bitmap \cup Run(a.block, a.size)

(* kmalloc finds room: table entry, bitmap and caller.                     *)
Place(bitmap, table, owners, a) ==
  /\ kbitmap' = Mark(bitmap, a)
  /\ allocationBitmap' = [table EXCEPT ![Min(UnusedSlots(table))] = a]
  /\ live' = owners \cup {a}
  /\ UNCHANGED fault

KmallocIn(bitmap, table, owners, bytes) ==
  LET blockCount == Roundup(bytes, BlockSize)
      base == Scan(bitmap, blockCount)
      a == [block |-> base, size |-> blockCount]
  IN  \/ /\ base # NoBlock
         /\ UnusedSlots(table) # {}
         /\ Place(bitmap, table, owners, a)
      \/ (* the entry is written beyond the pages of the table *)
         /\ base # NoBlock
         /\ UnusedSlots(table) = {}
         /\ fault' = TRUE
         /\ UNCHANGED <<kbitmap, allocationBitmap, live>>
      \/ (* "Error out of pages", NULL *)
         /\ base = NoBlock
         /\ kbitmap' = bitmap
         /\ allocationBitmap' = table
         /\ live' = owners
         /\ UNCHANGED fault

Kmalloc ==
  /\ ~fault
  /\ Blocks \ kbitmap # {}
  /\ \E bytes \in Requests : KmallocIn(kbitmap, allocationBitmap, live, bytes)

(* With every bit set firstFreeSlot returns -1, and the loop tests that    *)
(* bit: an address outside the address space.                              *)
KmallocWhenFull ==
  /\ ~fault
  /\ Blocks \subseteq kbitmap
  /\ fault' = TRUE
  /\ UNCHANGED <<kbitmap, allocationBitmap, live>>

(* Fault: the entry's size stays behind. *)
ForgetKeepSize(table, s) == [table EXCEPT ![s].block = 0]

Forget(table, s) == [table EXCEPT ![s] = Unused]

(* kfree of an allocation: the first table entry with its block is its.    *)
(* Nothing in the kernel frees the block at 0, which an unused entry also  *)
(* matches.                                                                *)
SlotOf(a) == Min(SlotsOf(allocationBitmap, a.block))
SizeOf(a) == allocationBitmap[SlotOf(a)].size
BitmapWithout(a) == kbitmap \ Run(a.block, SizeOf(a))
TableWithout(a) == Forget(allocationBitmap, SlotOf(a))

Kfree ==
  /\ ~fault
  /\ \E a \in live \ {Boot} :
       /\ kbitmap' = BitmapWithout(a)
       /\ allocationBitmap' = TableWithout(a)
       /\ live' = live \ {a}
  /\ UNCHANGED fault

(* krealloc adds the blocks of the old allocation to the bytes asked for.  *)
Krealloc ==
  /\ ~fault
  /\ \E a \in live \ {Boot}, bytes \in Growths :
       KmallocIn(BitmapWithout(a), TableWithout(a), live \ {a}, SizeOf(a) + bytes)

Next == Kmalloc \/ KmallocWhenFull \/ Kfree \/ Krealloc

Spec == Init /\ [][Next]_vars

-----------------------------------------------------------------------------
(* Properties. *)

(* Every variable has its type, and no bit beyond the heap is set.  A read *)
(* or write outside bitmap or table sets fault; when that may happen,      *)
(* FaultsOnlyWhenFull says.                                                *)
TypeOK == /\ kbitmap \subseteq Blocks
          /\ allocationBitmap \in [Slots -> Allocation]
          /\ live \subseteq Allocation
          /\ fault \in BOOLEAN

(* No two holders of memory share a block, through any sequence of         *)
(* kmalloc, kfree and krealloc.                                            *)
LiveDisjoint ==
  \A a, b \in live : a # b => Run(a.block, a.size) \cap Run(b.block, b.size) = {}

(* A bit of kbitmap is set exactly when somebody holds its block: nothing  *)
(* leaks.                                                                  *)
BitmapMatchesLive == kbitmap = UNION {Run(a.block, a.size) : a \in live}

(* The table holds what is live and nothing else, so that its entries are  *)
(* used again.                                                             *)
TableMatchesLive ==
  /\ {allocationBitmap[s] : s \in Slots \ UnusedSlots(allocationBitmap)} = live
  /\ \A s, t \in Slots \ UnusedSlots(allocationBitmap) :
       allocationBitmap[s] = allocationBitmap[t] => s = t

(* The loop of kmalloc finds the first run that is long enough, and finds  *)
(* nothing only when there is none.                                        *)
ScanIsFirstFit ==
  Blocks \ kbitmap # {} =>
    \A blockCount \in 1 .. KBitmapSize :
      LET fits == {b \in Blocks : Run(b, blockCount) \subseteq Blocks \ kbitmap}
      IN  Scan(kbitmap, blockCount) = IF fits = {} THEN NoBlock ELSE Min(fits)

(* kmalloc reads before the bitmap (kHeap.c:40) or writes behind the table *)
(* (kHeap.c:26, 48-51) only when the memory that is held fills the one or  *)
(* the other: no sequence of calls uses them up earlier, and krealloc,     *)
(* which gives an allocation back first, never does.                       *)
FaultsOnlyWhenFull ==
  fault => \/ Cardinality(live) = TableEntries
           \/ UNION {Run(a.block, a.size) : a \in live} = Blocks

(* A heap that cannot serve a request says so and returns NULL, as the     *)
(* message at the end of kmalloc has it; the kernel goes on.               *)
ExhaustionIsReported == ~fault
=============================================================================
