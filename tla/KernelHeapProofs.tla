-------------------------- MODULE KernelHeapProofs --------------------------
(***************************************************************************)
(* Theorems about KernelHeap, for a heap, a table and requests of any      *)
(* size: what the loop of kmalloc finds, that no two holders of memory     *)
(* share a block, and that bitmap and table hold what is live and no more. *)
(***************************************************************************)
EXTENDS KernelHeap, TLAPS, WellFoundedInduction, FiniteSetTheorems

-----------------------------------------------------------------------------
(* Numbers. *)

LEMMA LeastOfNat ==
  ASSUME NEW T, T \subseteq Nat, T # {}
  PROVE  \E x \in T : \A y \in T : x <= y
  <1> DEFINE R == OpToRel(<, Nat)
  <1>1. \E x \in T : \A y \in T : ~ (<<y, x>> \in R)
    BY WFMin, NatLessThanWellFounded
  <1>2. \A x, y \in Nat : y < x => <<y, x>> \in R
    BY DEF OpToRel
  <1> HIDE DEF R
  <1>3. PICK x \in T : \A y \in T : ~ (<<y, x>> \in R)
    BY <1>1
  <1>4. \A y \in T : ~(y < x)
    BY <1>2, <1>3
  <1>5. \A y \in T : x <= y
    BY <1>4
  <1> QED
    BY <1>5

LEMMA MinIsLeast ==
  ASSUME NEW T, T \subseteq Nat, T # {}
  PROVE  Min(T) \in T /\ \A y \in T : Min(T) <= y
  BY LeastOfNat DEF Min

LEMMA QuotientIsPositive ==
  ASSUME NEW a \in Nat, NEW d \in Nat \ {0}, d <= a
  PROVE  a \div d \in Nat \ {0}
  <1>1. a \div d \in Int
    OBVIOUS
  <1>2. a \div d > 0
    OBVIOUS
  <1> QED
    BY <1>1, <1>2

LEMMA RoundupIsPositive ==
  ASSUME NEW bytes \in Nat \ {0}
  PROVE  Roundup(bytes, BlockSize) \in Nat \ {0}
  <1>1. BlockSize \in Nat \ {0}
    BY HeapAssumption
  <1>2. bytes + BlockSize - 1 \in Nat /\ BlockSize <= bytes + BlockSize - 1
    BY <1>1
  <1> QED
    BY <1>1, <1>2, QuotientIsPositive DEF Roundup

-----------------------------------------------------------------------------
(* The loop of kmalloc. *)

(* A function that is given by its value at 0 .. n - 1 exists, whatever    *)
(* the step.                                                               *)
LEMMA LoopExists ==
  ASSUME NEW bitmap, NEW blockCount, NEW first \in Nat, NEW n \in Nat
  PROVE  \E loop : loop = [i \in 0 .. n |->
           IF i <= first THEN [base |-> first, cnt |-> 0]
           ELSE Look(loop[i - 1], i - 1, bitmap, blockCount)]
  <1> DEFINE Loops(m, loop) == loop = [i \in 0 .. m |->
                IF i <= first THEN [base |-> first, cnt |-> 0]
                ELSE Look(loop[i - 1], i - 1, bitmap, blockCount)]
             T == {m \in Nat : ~ \E loop : Loops(m, loop)}
  <1>1. ASSUME T # {} PROVE FALSE
    <2>1. PICK m \in T : \A k \in T : m <= k
      BY <1>1, LeastOfNat
    <2>2. CASE m = 0
      <3>1. Loops(0, [i \in 0 .. 0 |-> [base |-> first, cnt |-> 0]])
        OBVIOUS
      <3> QED
        BY <2>1, <2>2, <3>1
    <2>3. CASE m # 0
      <3>1. m \in Nat /\ m - 1 \in Nat /\ m - 1 \notin T
        BY <2>1, <2>3
      <3>2. PICK old : Loops(m - 1, old)
        BY <3>1
      <3> DEFINE last == IF m <= first THEN [base |-> first, cnt |-> 0]
                         ELSE Look(old[m - 1], m - 1, bitmap, blockCount)
                 new == [i \in 0 .. m |-> IF i = m THEN last ELSE old[i]]
      <3>3. new[m] = last /\ \A i \in 0 .. m - 1 : new[i] = old[i]
        BY <3>1
      <3>4. DOMAIN new = 0 .. m /\ new = [i \in 0 .. m |-> new[i]]
        OBVIOUS
      <3> HIDE DEF new
      <3>5. \A i \in 0 .. m - 1 : old[i] = IF i <= first THEN [base |-> first, cnt |-> 0]
                                         ELSE Look(old[i - 1], i - 1, bitmap, blockCount)
        BY <3>2
      <3>6. ASSUME NEW i \in 0 .. m
            PROVE  new[i] = IF i <= first THEN [base |-> first, cnt |-> 0]
                            ELSE Look(new[i - 1], i - 1, bitmap, blockCount)
        <4>1. CASE i = m
          <5>1. ~(m <= first) => m - 1 \in 0 .. m - 1
            BY <3>1
          <5> QED
            BY <3>3, <4>1, <5>1
        <4>2. CASE i # m
          <5>1. i \in 0 .. m - 1 /\ (~(i <= first) => i - 1 \in 0 .. m - 1)
            BY <3>1, <4>2
          <5> QED
            BY <3>3, <3>5, <5>1
        <4> QED
          BY <4>1, <4>2
      <3>7. Loops(m, new)
        BY <3>4, <3>6
      <3> QED
        BY <2>1, <3>7
    <2> QED
      BY <2>2, <2>3
  <1> QED
    BY <1>1

(* What the loop knows of the blocks before i: the run it keeps is free,   *)
(* reaches to i unless it is long enough, and no other begins before it.   *)
Seen(i, run, bitmap, blockCount) ==
  /\ run \in [base : Nat, cnt : 0 .. blockCount]
  /\ run.base + run.cnt <= i
  /\ run.cnt < blockCount => run.base + run.cnt = i
  /\ \A x \in Run(run.base, run.cnt) : x \notin bitmap
  /\ \A b \in Nat : b < run.base => \E x \in Run(b, blockCount) : x \in bitmap

LEMMA LookSees ==
  ASSUME NEW bitmap, NEW blockCount \in Nat \ {0}, NEW i \in Nat, NEW run,
         Seen(i, run, bitmap, blockCount)
  PROVE  Seen(i + 1, Look(run, i, bitmap, blockCount), bitmap, blockCount)
  <1>1. /\ run \in [base : Nat, cnt : 0 .. blockCount]
        /\ run.base \in Nat /\ run.cnt \in Nat /\ run.cnt <= blockCount
        /\ run.base + run.cnt <= i
        /\ run.cnt < blockCount => run.base + run.cnt = i
    BY DEF Seen
  <1>2. CASE run.cnt = blockCount
    BY <1>1, <1>2 DEF Seen, Look
  <1>3. CASE run.cnt # blockCount /\ i \in bitmap
    <2> DEFINE new == [base |-> run.base + run.cnt + 1, cnt |-> 0]
    <2>1. Look(run, i, bitmap, blockCount) = new
      BY <1>3 DEF Look
    <2>2. /\ new \in [base : Nat, cnt : 0 .. blockCount] /\ new.base = i + 1 /\ new.cnt = 0
      BY <1>1, <1>3
    <2>3. ASSUME NEW b \in Nat, b < i + 1 PROVE \E x \in Run(b, blockCount) : x \in bitmap
      <3>1. CASE b < run.base
        BY <3>1 DEF Seen
      <3>2. CASE ~(b < run.base)
        <4>1. i \in Run(b, blockCount)
          BY <1>1, <1>3, <2>3, <3>2 DEF Run
        <4> QED
          BY <1>3, <4>1
      <3> QED
        BY <3>1, <3>2
    <2> HIDE DEF new
    <2>4. \A x \in Run(new.base, new.cnt) : x \notin bitmap
      BY <2>2 DEF Run
    <2> QED
      BY <2>1, <2>2, <2>3, <2>4 DEF Seen
  <1>4. CASE run.cnt # blockCount /\ i \notin bitmap
    <2> DEFINE new == [run EXCEPT !.cnt = @ + 1]
    <2>1. Look(run, i, bitmap, blockCount) = new
      BY <1>4 DEF Look
    <2>2. /\ new \in [base : Nat, cnt : 0 .. blockCount]
          /\ new.base = run.base /\ new.cnt = run.cnt + 1 /\ new.base + new.cnt = i + 1
      BY <1>1, <1>4
    <2> HIDE DEF new
    <2>3. ASSUME NEW x \in Run(new.base, new.cnt) PROVE x \notin bitmap
      <3>1. x \in Run(run.base, run.cnt) \/ x = i
        BY <1>1, <1>4, <2>2, <2>3 DEF Run
      <3> QED
        BY <1>4, <3>1 DEF Seen
    <2>4. \A b \in Nat : b < new.base => \E x \in Run(b, blockCount) : x \in bitmap
      BY <2>2 DEF Seen
    <2> QED
      BY <2>1, <2>2, <2>3, <2>4 DEF Seen
  <1> QED
    BY <1>2, <1>3, <1>4

(* The loop finds the first run that is free and long enough; it finds     *)
(* none only when there is none.                                           *)
Fits(bitmap, blockCount) == {b \in Blocks : Run(b, blockCount) \subseteq Blocks \ bitmap}

LEMMA ScanFindsFirstFit ==
  ASSUME NEW bitmap, Blocks \ bitmap # {}, NEW blockCount \in Nat \ {0}
  PROVE  IF Fits(bitmap, blockCount) = {} THEN Scan(bitmap, blockCount) = NoBlock
         ELSE /\ Scan(bitmap, blockCount) \in Fits(bitmap, blockCount)
              /\ \A b \in Fits(bitmap, blockCount) : Scan(bitmap, blockCount) <= b
  <1> DEFINE first == Min(Blocks \ bitmap)
             loop == CHOOSE loop : loop = [i \in 0 .. KBitmapSize |->
                       IF i <= first THEN [base |-> first, cnt |-> 0]
                       ELSE Look(loop[i - 1], i - 1, bitmap, blockCount)]
             last == loop[KBitmapSize]
  <1>1. KBitmapSize \in Nat \ {0} /\ Blocks \subseteq Nat
    BY HeapAssumption DEF Blocks
  <1>2. first \in Blocks \ bitmap /\ \A b \in Blocks \ bitmap : first <= b
    <2>1. Blocks \ bitmap \subseteq Nat
      BY <1>1
    <2> QED
      BY <2>1, MinIsLeast
  <1>3. first \in Nat /\ first < KBitmapSize
    BY <1>1, <1>2 DEF Blocks
  <1>4. Scan(bitmap, blockCount) = IF last.cnt = blockCount THEN last.base ELSE NoBlock
    BY DEF Scan
  <1> HIDE DEF first
  <1>5. loop = [i \in 0 .. KBitmapSize |->
                  IF i <= first THEN [base |-> first, cnt |-> 0]
                  ELSE Look(loop[i - 1], i - 1, bitmap, blockCount)]
    BY <1>1, <1>3, LoopExists
  <1> HIDE DEF loop
  <1>6. Seen(first, loop[first], bitmap, blockCount)
    <2>1. first \in 0 .. KBitmapSize /\ loop[first] = [base |-> first, cnt |-> 0]
      BY <1>1, <1>3, <1>5
    <2>2. ASSUME NEW b \in Nat, b < first PROVE \E x \in Run(b, blockCount) : x \in bitmap
      <3>1. b \in Blocks /\ b \in Run(b, blockCount)
        BY <1>1, <1>3, <2>2 DEF Blocks, Run
      <3>2. b \in bitmap
        BY <1>1, <1>2, <1>3, <2>2, <3>1
      <3> QED
        BY <3>1, <3>2
    <2>3. \A x \in Run(first, 0) : x \notin bitmap
      BY <1>3 DEF Run
    <2> QED
      BY <1>3, <2>1, <2>2, <2>3 DEF Seen
  <1>7. \A i \in first .. KBitmapSize : Seen(i, loop[i], bitmap, blockCount)
    <2> DEFINE T == {i \in first .. KBitmapSize : ~Seen(i, loop[i], bitmap, blockCount)}
    <2>1. ASSUME T # {} PROVE FALSE
      <3>1. T \subseteq Nat
        BY <1>3
      <3>2. PICK m \in T : \A k \in T : m <= k
        BY <2>1, <3>1, LeastOfNat
      <3>3. m \in first .. KBitmapSize /\ m # first
        BY <1>6, <3>2
      <3>4. m - 1 \in first .. KBitmapSize /\ m - 1 \in Nat /\ m - 1 \notin T
        BY <1>1, <1>3, <3>2, <3>3
      <3>5. Seen(m - 1, loop[m - 1], bitmap, blockCount)
        BY <3>4
      <3>6. loop[m] = Look(loop[m - 1], m - 1, bitmap, blockCount)
        BY <1>1, <1>3, <1>5, <3>3
      <3>7. (m - 1) + 1 = m
        BY <1>1, <1>3, <3>3
      <3>8. Seen(m, loop[m], bitmap, blockCount)
        BY <3>4, <3>5, <3>6, <3>7, LookSees
      <3> QED
        BY <3>2, <3>8
    <2> QED
      BY <2>1
  <1>8. Seen(KBitmapSize, last, bitmap, blockCount)
    BY <1>1, <1>3, <1>7
  <1> HIDE DEF last
  <1>9. /\ last.base \in Nat /\ last.cnt \in Nat /\ last.cnt <= blockCount
        /\ last.base + last.cnt <= KBitmapSize
        /\ last.cnt < blockCount => last.base + last.cnt = KBitmapSize
        /\ \A x \in Run(last.base, last.cnt) : x \notin bitmap
    BY <1>8 DEF Seen
  <1>10. ASSUME NEW b \in Fits(bitmap, blockCount) PROVE last.base <= b
    <2>1. b \in Nat /\ ~ \E x \in Run(b, blockCount) : x \in bitmap
      BY <1>1, <1>10 DEF Fits
    <2>2. ~(b < last.base)
      BY <1>8, <2>1 DEF Seen
    <2> QED
      BY <1>9, <2>1, <2>2
  <1>11. CASE last.cnt = blockCount
    <2>1. Run(last.base, blockCount) \subseteq Blocks
      BY <1>1, <1>9, <1>11 DEF Run, Blocks
    <2>2. last.base \in Blocks
      BY <1>1, <1>9, <1>11 DEF Blocks
    <2>3. last.base \in Fits(bitmap, blockCount)
      BY <1>9, <1>11, <2>1, <2>2 DEF Fits
    <2> QED
      BY <1>4, <1>10, <1>11, <2>3
  <1>12. CASE last.cnt # blockCount
    <2>1. ASSUME NEW b \in Fits(bitmap, blockCount) PROVE FALSE
      <3>1. last.base <= b /\ b \in Nat
        BY <1>1, <1>10 DEF Fits
      <3>2. b + blockCount - 1 \in Run(b, blockCount)
        BY <3>1 DEF Run
      <3>3. b + blockCount - 1 < KBitmapSize
        BY <1>1, <3>2 DEF Fits, Blocks
      <3> QED
        BY <1>1, <1>9, <1>12, <3>1, <3>3
    <2> QED
      BY <1>4, <1>12, <2>1
  <1> QED
    BY <1>11, <1>12

-----------------------------------------------------------------------------
(* The inductive invariant, of any bitmap, table and set of holders: the   *)
(* allocations take at least a block and share none, the bits that are set *)
(* are theirs, and each is in one entry of the table.  An entry that is    *)
(* not in use has block 0, which kfree would take for the first page       *)
(* directory table: Boot never goes.                                       *)
HeapOK(bitmap, table, owners) ==
  /\ bitmap \subseteq Blocks
  /\ table \in [Slots -> Allocation]
  /\ owners \subseteq Allocation
  /\ Boot \in owners
  /\ \A a \in owners : a.size # 0
  /\ \A a, b \in owners : a # b => Run(a.block, a.size) \cap Run(b.block, b.size) = {}
  /\ \A x : x \in bitmap <=> \E a \in owners : x \in Run(a.block, a.size)
  /\ \A s \in Slots : IF table[s].size = 0 THEN table[s].block = 0 ELSE table[s] \in owners
  /\ \A a \in owners : \E s \in Slots : table[s] = a
  /\ \A s, t \in Slots : table[s].size # 0 /\ table[s] = table[t] => s = t

HeapInv == HeapOK(kbitmap, allocationBitmap, live) /\ fault \in BOOLEAN

LEMMA BootIsPlaced ==
  /\ Boot \in Allocation /\ Boot.block = 0 /\ Boot.size # 0 /\ 0 \in Slots
  /\ Run(0, Boot.size) \subseteq Blocks
  <1>1. Roundup(PageDirectories, BlockSize) \in Nat \ {0}
    BY HeapAssumption, RoundupIsPositive
  <1>2. Roundup(PageDirectories, BlockSize) <= KBitmapSize /\ KBitmapSize \in Nat
    BY HeapAssumption
  <1> QED
    BY <1>1, <1>2, HeapAssumption DEF Boot, Allocation, Run, Blocks, Slots

LEMMA InitHeap == Init => HeapInv
  <1> SUFFICES ASSUME Init PROVE HeapInv
    OBVIOUS
  <1>1. /\ kbitmap = Run(0, Boot.size) /\ live = {Boot} /\ fault = FALSE
        /\ allocationBitmap = [s \in Slots |-> IF s = 0 THEN Boot ELSE Unused]
    BY DEF Init
  <1>2. Unused \in Allocation /\ Unused.size = 0 /\ Unused.block = 0
    BY DEF Unused, Allocation
  <1>3. \A s \in Slots : IF allocationBitmap[s].size = 0 THEN s # 0 ELSE s = 0
    BY <1>1, <1>2, BootIsPlaced
  <1>4. /\ \A s \in Slots : IF allocationBitmap[s].size = 0 THEN allocationBitmap[s].block = 0
                            ELSE allocationBitmap[s] \in live
        /\ \A s, t \in Slots : allocationBitmap[s].size # 0 /\ allocationBitmap[s] = allocationBitmap[t]
                                 => s = t
    BY <1>1, <1>2, <1>3
  <1>5. \E s \in Slots : allocationBitmap[s] = Boot
    BY <1>1, BootIsPlaced
  <1>6. allocationBitmap \in [Slots -> Allocation]
    BY <1>1, <1>2, BootIsPlaced
  <1>7. HeapOK(kbitmap, allocationBitmap, live)
    BY <1>1, <1>4, <1>5, <1>6, BootIsPlaced DEF HeapOK
  <1> QED
    BY <1>1, <1>7 DEF HeapInv

(* kmalloc writes an allocation of free blocks into a free entry. *)
LEMMA PlaceKeepsHeap ==
  ASSUME NEW bitmap, NEW table, NEW owners, HeapOK(bitmap, table, owners),
         NEW a \in Allocation, a.size # 0, Run(a.block, a.size) \subseteq Blocks \ bitmap,
         UnusedSlots(table) # {}, Place(bitmap, table, owners, a)
  PROVE  HeapOK(kbitmap', allocationBitmap', live')
  <1> DEFINE s == Min(UnusedSlots(table))
  <1>1. s \in Slots /\ table[s].size = 0
    <2>1. UnusedSlots(table) \subseteq Nat
      BY DEF UnusedSlots, Slots
    <2> QED
      BY <2>1, MinIsLeast DEF UnusedSlots
  <1> HIDE DEF s
  <1>2. /\ kbitmap' = bitmap \cup Run(a.block, a.size) /\ live' = owners \cup {a}
        /\ allocationBitmap' = [table EXCEPT ![s] = a]
    BY DEF Place, Mark, s
  <1>3. /\ table \in [Slots -> Allocation] /\ bitmap \subseteq Blocks /\ owners \subseteq Allocation
        /\ Boot \in owners
        /\ \A b \in owners : b.size # 0
        /\ \A b, c \in owners : b # c => Run(b.block, b.size) \cap Run(c.block, c.size) = {}
        /\ \A x : x \in bitmap <=> \E b \in owners : x \in Run(b.block, b.size)
        /\ \A t \in Slots : IF table[t].size = 0 THEN table[t].block = 0 ELSE table[t] \in owners
        /\ \A b \in owners : \E t \in Slots : table[t] = b
        /\ \A t, r \in Slots : table[t].size # 0 /\ table[t] = table[r] => t = r
    BY DEF HeapOK
  <1>4. allocationBitmap'[s] = a /\ \A t \in Slots : t # s => allocationBitmap'[t] = table[t]
    BY <1>1, <1>2, <1>3
  <1>5. a \notin owners
    <2>1. a.block \in Run(a.block, a.size)
      BY DEF Allocation, Run
    <2> QED
      BY <1>3, <2>1
  <1>6. kbitmap' \subseteq Blocks /\ live' \subseteq Allocation /\ Boot \in live'
    BY <1>2, <1>3
  <1>7. allocationBitmap' \in [Slots -> Allocation]
    BY <1>2, <1>3
  <1>8. \A b \in live' : b.size # 0
    BY <1>2, <1>3
  <1>9. \A b, c \in live' : b # c => Run(b.block, b.size) \cap Run(c.block, c.size) = {}
    <2>1. \A b \in owners : Run(b.block, b.size) \cap Run(a.block, a.size) = {}
      BY <1>3
    <2> QED
      BY <1>2, <1>3, <2>1
  <1>10. \A x : x \in kbitmap' <=> \E b \in live' : x \in Run(b.block, b.size)
    BY <1>2, <1>3
  <1>11. \A t \in Slots : IF allocationBitmap'[t].size = 0 THEN allocationBitmap'[t].block = 0
                          ELSE allocationBitmap'[t] \in live'
    BY <1>2, <1>3, <1>4
  <1>12. \A b \in live' : \E t \in Slots : allocationBitmap'[t] = b
    <2>1. \A b \in owners : \E t \in Slots : t # s /\ table[t] = b
      BY <1>1, <1>3
    <2> QED
      BY <1>1, <1>2, <1>4, <2>1
  <1>13. \A t, r \in Slots : allocationBitmap'[t].size # 0 /\ allocationBitmap'[t] = allocationBitmap'[r]
                               => t = r
    <2>1. \A t \in Slots : table[t] # a
      BY <1>3, <1>5
    <2> QED
      BY <1>3, <1>4, <2>1
  <1> QED
    BY <1>6, <1>7, <1>8, <1>9, <1>10, <1>11, <1>12, <1>13 DEF HeapOK

(* kfree finds the entry of what it is given, and takes out that one. *)
LEMMA KfreeKeepsHeap ==
  ASSUME HeapInv, NEW a \in live \ {Boot}
  PROVE  /\ HeapOK(BitmapWithout(a), TableWithout(a), live \ {a})
         /\ Blocks \ BitmapWithout(a) # {}
         /\ UnusedSlots(TableWithout(a)) # {}
         /\ SizeOf(a) \in Nat \ {0}
  <1>1. /\ allocationBitmap \in [Slots -> Allocation] /\ kbitmap \subseteq Blocks
        /\ live \subseteq Allocation /\ Boot \in live
        /\ \A b \in live : b.size # 0
        /\ \A b, c \in live : b # c => Run(b.block, b.size) \cap Run(c.block, c.size) = {}
        /\ \A x : x \in kbitmap <=> \E b \in live : x \in Run(b.block, b.size)
        /\ \A t \in Slots : IF allocationBitmap[t].size = 0 THEN allocationBitmap[t].block = 0
                            ELSE allocationBitmap[t] \in live
        /\ \A b \in live : \E t \in Slots : allocationBitmap[t] = b
        /\ \A t, r \in Slots : allocationBitmap[t].size # 0 /\ allocationBitmap[t] = allocationBitmap[r]
                                 => t = r
    BY DEF HeapInv, HeapOK
  <1>2. \A b \in live : b.block \in Run(b.block, b.size) /\ b.block \in Nat /\ b.size \in Nat
    BY <1>1 DEF Allocation, Run
  <1>3. a.block # 0
    BY <1>1, <1>2, BootIsPlaced
  <1>4. PICK s \in Slots : allocationBitmap[s] = a
    BY <1>1
  <1>5. SlotsOf(allocationBitmap, a.block) = {s}
    <2>1. ASSUME NEW t \in Slots, allocationBitmap[t].block = a.block PROVE t = s
      <3>1. allocationBitmap[t].size # 0 /\ allocationBitmap[t] \in live
        BY <1>1, <1>3, <2>1
      <3>2. allocationBitmap[t] = a
        BY <1>1, <1>2, <2>1, <3>1
      <3> QED
        BY <1>1, <1>4, <3>1, <3>2
    <2> QED
      BY <1>4, <2>1 DEF SlotsOf
  <1>6. SlotOf(a) = s
    <2>1. {s} \subseteq Nat
      BY DEF Slots
    <2>2. Min({s}) \in {s}
      BY <2>1, MinIsLeast
    <2> QED
      BY <1>5, <2>2 DEF SlotOf
  <1>7. /\ SizeOf(a) = a.size /\ BitmapWithout(a) = kbitmap \ Run(a.block, a.size)
        /\ TableWithout(a) = [allocationBitmap EXCEPT ![s] = Unused]
    BY <1>4, <1>6 DEF SizeOf, BitmapWithout, TableWithout, Forget
  <1> DEFINE bitmap == BitmapWithout(a)
             table == TableWithout(a)
             owners == live \ {a}
  <1>8. /\ Unused \in Allocation /\ Unused.size = 0 /\ Unused.block = 0
        /\ table[s] = Unused /\ \A t \in Slots : t # s => table[t] = allocationBitmap[t]
    BY <1>1, <1>7 DEF Unused, Allocation
  <1>9. table \in [Slots -> Allocation]
    BY <1>1, <1>7, <1>8
  <1> HIDE DEF table
  <1>18. s \in UnusedSlots(table)
    BY <1>8 DEF UnusedSlots
  <1>10. \A x : x \in bitmap <=> \E b \in owners : x \in Run(b.block, b.size)
    BY <1>1, <1>7
  <1>11. a.block \in Blocks \ bitmap
    BY <1>1, <1>2, <1>7
  <1>12. bitmap \subseteq Blocks
    BY <1>1, <1>7
  <1> HIDE DEF bitmap
  <1>13. /\ owners \subseteq Allocation /\ Boot \in owners /\ \A b \in owners : b.size # 0
         /\ \A b, c \in owners : b # c => Run(b.block, b.size) \cap Run(c.block, c.size) = {}
    BY <1>1
  <1>14. \A t \in Slots : IF table[t].size = 0 THEN table[t].block = 0 ELSE table[t] \in owners
    <2>1. \A t \in Slots : t # s => allocationBitmap[t] # a
      BY <1>1, <1>4
    <2> QED
      BY <1>1, <1>8, <2>1
  <1>15. \A b \in owners : \E t \in Slots : table[t] = b
    <2>1. \A b \in owners : \E t \in Slots : t # s /\ allocationBitmap[t] = b
      BY <1>1, <1>4
    <2> QED
      BY <1>8, <2>1
  <1>16. \A t, r \in Slots : table[t].size # 0 /\ table[t] = table[r] => t = r
    BY <1>1, <1>8
  <1>17. HeapOK(bitmap, table, owners)
    BY <1>9, <1>10, <1>12, <1>13, <1>14, <1>15, <1>16 DEF HeapOK
  <1> QED
    <2>1. SizeOf(a) \in Nat \ {0} /\ Blocks \ bitmap # {}
      BY <1>1, <1>2, <1>7, <1>11
    <2>2. UnusedSlots(table) # {}
      BY <1>18
    <2> QED
      BY <1>17, <2>1, <2>2 DEF bitmap, table

LEMMA KmallocKeepsHeap ==
  ASSUME NEW bitmap, NEW table, NEW owners, HeapOK(bitmap, table, owners), Blocks \ bitmap # {},
         HeapInv, NEW bytes \in Nat \ {0}, KmallocIn(bitmap, table, owners, bytes)
  PROVE  HeapInv'
  <1> DEFINE blockCount == Roundup(bytes, BlockSize)
             base == Scan(bitmap, blockCount)
             a == [block |-> base, size |-> blockCount]
  <1>1. blockCount \in Nat \ {0}
    BY RoundupIsPositive
  <1>2. base # NoBlock => base \in Fits(bitmap, blockCount)
    BY <1>1, ScanFindsFirstFit
  <1> HIDE DEF blockCount, base
  <1>3. CASE base # NoBlock /\ UnusedSlots(table) # {} /\ Place(bitmap, table, owners, a)
    <2>1. base \in Blocks /\ Run(base, blockCount) \subseteq Blocks \ bitmap
      BY <1>2, <1>3 DEF Fits
    <2>2. a \in Allocation /\ a.size # 0 /\ a.block = base /\ a.size = blockCount
      BY <1>1, <2>1 DEF Allocation, Blocks
    <2> HIDE DEF a
    <2>3. HeapOK(kbitmap', allocationBitmap', live')
      BY <1>3, <2>1, <2>2, PlaceKeepsHeap
    <2>4. fault' \in BOOLEAN
      BY <1>3 DEF Place, HeapInv
    <2> QED
      BY <2>3, <2>4 DEF HeapInv, HeapOK
  <1>4. CASE fault' = TRUE /\ UNCHANGED <<kbitmap, allocationBitmap, live>>
    BY <1>4 DEF HeapInv, HeapOK
  <1>5. CASE kbitmap' = bitmap /\ allocationBitmap' = table /\ live' = owners /\ UNCHANGED fault
    BY <1>5 DEF HeapInv, HeapOK
  <1> QED
    BY <1>3, <1>4, <1>5 DEF KmallocIn, blockCount, base

LEMMA NextHeap == HeapInv /\ [Next]_vars => HeapInv'
  <1> SUFFICES ASSUME HeapInv, [Next]_vars PROVE HeapInv'
    OBVIOUS
  <1>1. CASE Kmalloc
    <2>1. PICK bytes \in Requests : KmallocIn(kbitmap, allocationBitmap, live, bytes)
      BY <1>1 DEF Kmalloc
    <2>2. bytes \in Nat \ {0}
      BY HeapAssumption
    <2> QED
      BY <1>1, <2>1, <2>2, KmallocKeepsHeap DEF Kmalloc, HeapInv
  <1>2. CASE KmallocWhenFull
    BY <1>2 DEF KmallocWhenFull, HeapInv, HeapOK
  <1>3. CASE Kfree
    <2>1. PICK a \in live \ {Boot} :
            /\ kbitmap' = BitmapWithout(a) /\ allocationBitmap' = TableWithout(a)
            /\ live' = live \ {a} /\ UNCHANGED fault
      BY <1>3 DEF Kfree
    <2>2. HeapOK(BitmapWithout(a), TableWithout(a), live \ {a})
      BY KfreeKeepsHeap
    <2> QED
      BY <2>1, <2>2 DEF HeapInv, HeapOK
  <1>4. CASE Krealloc
    <2>1. PICK a \in live \ {Boot}, bytes \in Growths :
            KmallocIn(BitmapWithout(a), TableWithout(a), live \ {a}, SizeOf(a) + bytes)
      BY <1>4 DEF Krealloc
    <2>2. /\ HeapOK(BitmapWithout(a), TableWithout(a), live \ {a})
          /\ Blocks \ BitmapWithout(a) # {} /\ SizeOf(a) \in Nat \ {0}
      BY KfreeKeepsHeap
    <2>3. SizeOf(a) + bytes \in Nat \ {0}
      BY <2>2, HeapAssumption
    <2> QED
      BY <2>1, <2>2, <2>3, KmallocKeepsHeap
  <1>5. CASE UNCHANGED vars
    BY <1>5 DEF vars, HeapInv, HeapOK
  <1> QED
    BY <1>1, <1>2, <1>3, <1>4, <1>5 DEF Next

LEMMA HeapHolds == Spec => []HeapInv
  BY InitHeap, NextHeap, PTL DEF Spec

-----------------------------------------------------------------------------
(* Theorems. *)

(* Every variable keeps its type, and no bit beyond the heap is set, for   *)
(* any heap and requests of any size.  An access outside bitmap or table   *)
(* is not excluded by this: it sets fault, and stops the model.            *)
THEOREM TypeCorrect == Spec => []TypeOK
  <1>1. HeapInv => TypeOK
    BY DEF HeapInv, HeapOK, TypeOK
  <1> QED
    BY <1>1, HeapHolds, PTL

(* What kmalloc saw when it left the bitmap or the table.                  *)
FaultInv == fault => UnusedSlots(allocationBitmap) = {} \/ Blocks \subseteq kbitmap

LEMMA NextFault == HeapInv /\ FaultInv /\ [Next]_vars => FaultInv'
  <1> SUFFICES ASSUME HeapInv, FaultInv, [Next]_vars PROVE FaultInv'
    OBVIOUS
  <1>1. CASE Kmalloc
    <2>1. PICK bytes \in Requests : KmallocIn(kbitmap, allocationBitmap, live, bytes)
      BY <1>1 DEF Kmalloc
    <2> QED
      BY <1>1, <2>1 DEF Kmalloc, KmallocIn, Place, FaultInv
  <1>2. CASE KmallocWhenFull
    BY <1>2 DEF KmallocWhenFull, FaultInv
  <1>3. CASE Kfree
    BY <1>3 DEF Kfree, FaultInv
  <1>4. CASE Krealloc
    <2>1. PICK a \in live \ {Boot}, bytes \in Growths :
            KmallocIn(BitmapWithout(a), TableWithout(a), live \ {a}, SizeOf(a) + bytes)
      BY <1>4 DEF Krealloc
    <2>2. UnusedSlots(TableWithout(a)) # {}
      BY KfreeKeepsHeap
    <2>3. ~fault'
      BY <1>4, <2>1, <2>2 DEF Krealloc, KmallocIn, Place
    <2> QED
      BY <2>3 DEF FaultInv
  <1>5. CASE UNCHANGED vars
    BY <1>5 DEF vars, FaultInv
  <1> QED
    BY <1>1, <1>2, <1>3, <1>4, <1>5 DEF Next

(* A table without an unused entry holds as many allocations as entries.   *)
LEMMA FullTable ==
  ASSUME HeapInv, UnusedSlots(allocationBitmap) = {}
  PROVE  Cardinality(live) = TableEntries
  <1>1. \A s \in Slots : allocationBitmap[s].size # 0
    BY DEF UnusedSlots
  <1>2. /\ allocationBitmap \in [Slots -> live]
        /\ \A a \in live : \E s \in Slots : allocationBitmap[s] = a
        /\ \A s, t \in Slots : allocationBitmap[s] = allocationBitmap[t] => s = t
    BY <1>1 DEF HeapInv, HeapOK
  <1>3. /\ allocationBitmap \in Surjection(Slots, live)
        /\ allocationBitmap \in Injection(Slots, live)
    BY <1>2 DEF Surjection, Injection, IsInjective
  <1>4. IsFiniteSet(Slots) /\ Cardinality(Slots) = TableEntries
    BY HeapAssumption, FS_Interval DEF Slots
  <1> QED
    BY <1>3, <1>4, FS_Surjection

(* kmalloc reads before the bitmap or writes behind the table only when    *)
(* the memory that is held fills the heap or the table, whatever their     *)
(* sizes and after any calls; krealloc never does.                         *)
THEOREM FaultsWhenFull == Spec => []FaultsOnlyWhenFull
  <1>1. Init => FaultInv
    BY DEF Init, FaultInv
  <1>2. HeapInv /\ FaultInv => FaultsOnlyWhenFull
    <2> SUFFICES ASSUME HeapInv, FaultInv, fault,
                        UnusedSlots(allocationBitmap) # {}
                 PROVE  UNION {Run(a.block, a.size) : a \in live} = Blocks
      BY FullTable DEF FaultsOnlyWhenFull
    <2>1. Blocks = kbitmap
      BY DEF FaultInv, HeapInv, HeapOK
    <2>2. \A x : x \in kbitmap <=> \E a \in live : x \in Run(a.block, a.size)
      BY DEF HeapInv, HeapOK
    <2> QED
      BY <2>1, <2>2
  <1> QED
    BY <1>1, <1>2, NextFault, HeapHolds, PTL DEF Spec

(* No two callers of kmalloc or krealloc hold the same block.              *)
THEOREM AllocationsAreDisjoint == Spec => []LiveDisjoint
  <1>1. HeapInv => LiveDisjoint
    BY DEF HeapInv, HeapOK, LiveDisjoint
  <1> QED
    BY <1>1, HeapHolds, PTL

(* The bits that are set are those of the blocks somebody holds: kfree     *)
(* clears what kmalloc has set.                                            *)
THEOREM NothingLeaks == Spec => []BitmapMatchesLive
  <1>1. HeapInv => BitmapMatchesLive
    <2> SUFFICES ASSUME HeapInv PROVE BitmapMatchesLive
      OBVIOUS
    <2>1. \A x : x \in kbitmap <=> \E a \in live : x \in Run(a.block, a.size)
      BY DEF HeapInv, HeapOK
    <2>2. \A x : x \in UNION {Run(a.block, a.size) : a \in live}
                  <=> \E a \in live : x \in Run(a.block, a.size)
      OBVIOUS
    <2> QED
      BY <2>1, <2>2 DEF BitmapMatchesLive
  <1> QED
    BY <1>1, HeapHolds, PTL

(* The entries of allocationBitmap that are in use are the allocations     *)
(* somebody holds, one each, so that kfree takes out the right one.        *)
THEOREM TableIsExact == Spec => []TableMatchesLive
  <1>1. HeapInv => TableMatchesLive
    <2> SUFFICES ASSUME HeapInv PROVE TableMatchesLive
      OBVIOUS
    <2>1. /\ \A a \in live : a.size # 0 /\ \E s \in Slots : allocationBitmap[s] = a
          /\ \A s \in Slots : allocationBitmap[s].size # 0 => allocationBitmap[s] \in live
          /\ \A s, t \in Slots : allocationBitmap[s].size # 0 /\ allocationBitmap[s] = allocationBitmap[t]
                                  => s = t
      BY DEF HeapInv, HeapOK
    <2>2. \A s : s \in Slots \ UnusedSlots(allocationBitmap)
                  <=> s \in Slots /\ allocationBitmap[s].size # 0
      BY DEF UnusedSlots
    <2>3. {allocationBitmap[s] : s \in Slots \ UnusedSlots(allocationBitmap)} = live
      BY <2>1, <2>2
    <2> QED
      BY <2>1, <2>2, <2>3 DEF TableMatchesLive
  <1> QED
    BY <1>1, HeapHolds, PTL

(* The loop of kmalloc finds the first run of free blocks that is long     *)
(* enough, and none only when there is none, for a bitmap of any size:     *)
(* the loop invariant is Seen.                                             *)
THEOREM KmallocTakesFirstFit == Spec => []ScanIsFirstFit
  <1>1. ScanIsFirstFit
    <2> SUFFICES ASSUME Blocks \ kbitmap # {}, NEW blockCount \in 1 .. KBitmapSize
                 PROVE  Scan(kbitmap, blockCount) =
                          IF Fits(kbitmap, blockCount) = {} THEN NoBlock
                          ELSE Min(Fits(kbitmap, blockCount))
      BY DEF ScanIsFirstFit, Fits
    <2>1. blockCount \in Nat \ {0}
      BY HeapAssumption
    <2>2. Fits(kbitmap, blockCount) \subseteq Nat
      BY DEF Fits, Blocks
    <2>3. CASE Fits(kbitmap, blockCount) = {}
      BY <2>1, <2>3, ScanFindsFirstFit
    <2>4. CASE Fits(kbitmap, blockCount) # {}
      <3> DEFINE found == Scan(kbitmap, blockCount)
                 least == Min(Fits(kbitmap, blockCount))
      <3>1. /\ found \in Fits(kbitmap, blockCount)
            /\ \A b \in Fits(kbitmap, blockCount) : found <= b
        BY <2>1, <2>4, ScanFindsFirstFit
      <3>2. /\ least \in Fits(kbitmap, blockCount)
            /\ \A b \in Fits(kbitmap, blockCount) : least <= b
        BY <2>2, <2>4, MinIsLeast
      <3> HIDE DEF found, least
      <3>3. found = least
        BY <2>2, <3>1, <3>2
      <3> QED
        BY <2>4, <3>3 DEF found, least
    <2> QED
      BY <2>3, <2>4
  <1> QED
    BY <1>1, PTL
=============================================================================
