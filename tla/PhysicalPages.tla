---------------------------- MODULE PhysicalPages ----------------------------
(***************************************************************************)
(* The physical memory manager of seaweed                                  *)
(* (kernel/mm/physicalPageManager.c): physicalPageAlloc, which every core  *)
(* calls, and physicalPageFree.                                            *)
(*                                                                         *)
(* Addresses are page numbers.  Under the lock the scan proceeds one page  *)
(* at a time and the bitmap is set one page at a time, as in the code: the *)
(* other cores may do anything in between that does not need the lock.     *)
(* granted records who was given what and has not given it back.           *)
(***************************************************************************)
EXTENDS Integers

CONSTANTS Cores,       \* the cores that call physicalPageAlloc
          TotalPages,  \* totalDetectedMemory / PAGESIZE
          Reserved,    \* the pages initPMM marks
          Counts       \* the page counts the kernel asks for

Pages == 0 .. TotalPages - 1

ASSUME PagesAssumption == TotalPages \in Nat \ {0} /\ Reserved \subseteq Pages
ASSUME CountsAssumption == Counts \subseteq Nat \ {0}

(* initPMM always marks the first pages (physicalPageManager.c:28), so     *)
(* that 0 is free to mean failure.                                         *)
ASSUME PageZeroAssumption == 0 \in Reserved

VARIABLES lock,      \* the static lock of physicalPageAlloc
          bitmap,    \* the pages whose bit is set
          pc,        \* where each core is
          count,     \* the argument of physicalPageAlloc
          i,         \* its loop variable
          cnt,       \* how many free pages the scan has just seen
          base,      \* where those begin
          j,         \* how many of the pages found are marked
          granted    \* the blocks each core has got

locals == <<count, i, cnt, base, j>>
vars == <<lock, bitmap, pc, locals, granted>>

Run(first, length) == first .. first + length - 1

Block == [base : Pages, count : Counts]

Init == /\ lock = FALSE
        /\ bitmap = Reserved
        /\ pc = [c \in Cores |-> "idle"]
        /\ count = [c \in Cores |-> 0]
        /\ i = [c \in Cores |-> 0]
        /\ cnt = [c \in Cores |-> 0]
        /\ base = [c \in Cores |-> 0]
        /\ j = [c \in Cores |-> 0]
        /\ granted = [c \in Cores |-> {}]

Goto(c, label) == pc' = [pc EXCEPT ![c] = label]

Call(c) ==
  /\ pc[c] = "idle"
  /\ \E k \in Counts : count' = [count EXCEPT ![c] = k]
  /\ Goto(c, "spin")
  /\ UNCHANGED <<lock, bitmap, i, cnt, base, j, granted>>

(* Fault: the lock is set without a test. *)
SpinLockNoTest(c) ==
  /\ pc[c] = "spin"
  /\ lock' = TRUE
  /\ Goto(c, "first")
  /\ UNCHANGED <<bitmap, locals, granted>>

SpinLock(c) ==
  /\ pc[c] = "spin"
  /\ ~lock
  /\ lock' = TRUE
  /\ Goto(c, "first")
  /\ UNCHANGED <<bitmap, locals, granted>>

FirstFreePage(p) == p \in Pages \ bitmap /\ \A q \in Pages \ bitmap : p <= q

StartScan(c) ==
  /\ pc[c] = "first"
  /\ \E p \in Pages : /\ FirstFreePage(p)
                      /\ base' = [base EXCEPT ![c] = p]
                      /\ i' = [i EXCEPT ![c] = p]
  /\ cnt' = [cnt EXCEPT ![c] = 0]
  /\ Goto(c, "scan")
  /\ UNCHANGED <<lock, bitmap, count, j, granted>>

(* firstFreePage returns -1, as an unsigned index beyond every page. *)
NoFreePage(c) ==
  /\ pc[c] = "first"
  /\ Pages \subseteq bitmap
  /\ Goto(c, "fail")
  /\ UNCHANGED <<lock, bitmap, locals, granted>>

(* Fault: a set bit does not restart the count. *)
SkipUsedKeepCount(c) ==
  /\ pc[c] = "scan" /\ i[c] < TotalPages
  /\ i[c] \in bitmap
  /\ i' = [i EXCEPT ![c] = @ + 1]
  /\ UNCHANGED <<lock, bitmap, pc, count, cnt, base, j, granted>>

SkipUsed(c) ==
  /\ pc[c] = "scan" /\ i[c] < TotalPages
  /\ i[c] \in bitmap
  /\ base' = [base EXCEPT ![c] = @ + cnt[c] + 1]
  /\ cnt' = [cnt EXCEPT ![c] = 0]
  /\ i' = [i EXCEPT ![c] = @ + 1]
  /\ UNCHANGED <<lock, bitmap, pc, count, j, granted>>

(* Fault: the loop has no end. *)
CountFreeBeyondEnd(c) ==
  /\ pc[c] = "scan"
  /\ i[c] \notin bitmap
  /\ cnt' = [cnt EXCEPT ![c] = @ + 1]
  /\ IF cnt[c] + 1 = count[c]
     THEN /\ j' = [j EXCEPT ![c] = 0]
          /\ Goto(c, "mark")
          /\ UNCHANGED i
     ELSE /\ i' = [i EXCEPT ![c] = @ + 1]
          /\ UNCHANGED <<pc, j>>
  /\ UNCHANGED <<lock, bitmap, count, base, granted>>

CountFree(c) ==
  /\ pc[c] = "scan" /\ i[c] < TotalPages
  /\ i[c] \notin bitmap
  /\ cnt' = [cnt EXCEPT ![c] = @ + 1]
  /\ IF cnt[c] + 1 = count[c]
     THEN /\ j' = [j EXCEPT ![c] = 0]
          /\ Goto(c, "mark")
          /\ UNCHANGED i
     ELSE /\ i' = [i EXCEPT ![c] = @ + 1]
          /\ UNCHANGED <<pc, j>>
  /\ UNCHANGED <<lock, bitmap, count, base, granted>>

EndOfScan(c) ==
  /\ pc[c] = "scan" /\ i[c] >= TotalPages
  /\ Goto(c, "fail")
  /\ UNCHANGED <<lock, bitmap, locals, granted>>

(* Fault: the last page of the run is not marked. *)
MarkPageShort(c) ==
  /\ pc[c] = "mark"
  /\ bitmap' = bitmap \cup (IF j[c] + 1 = count[c] THEN {} ELSE {base[c] + j[c]})
  /\ j' = [j EXCEPT ![c] = @ + 1]
  /\ IF j[c] + 1 = count[c] THEN Goto(c, "found") ELSE UNCHANGED pc
  /\ UNCHANGED <<lock, count, i, cnt, base, granted>>

MarkPage(c) ==
  /\ pc[c] = "mark"
  /\ bitmap' = bitmap \cup {base[c] + j[c]}
  /\ j' = [j EXCEPT ![c] = @ + 1]
  /\ IF j[c] + 1 = count[c] THEN Goto(c, "found") ELSE UNCHANGED pc
  /\ UNCHANGED <<lock, count, i, cnt, base, granted>>

(* The locals of a call are gone when it returns. *)
ForgetLocals(c) == /\ count' = [count EXCEPT ![c] = 0]
                   /\ i' = [i EXCEPT ![c] = 0]
                   /\ cnt' = [cnt EXCEPT ![c] = 0]
                   /\ base' = [base EXCEPT ![c] = 0]
                   /\ j' = [j EXCEPT ![c] = 0]

ReturnBase(c) ==
  /\ pc[c] = "found"
  /\ lock' = FALSE
  /\ granted' = [granted EXCEPT ![c] =
                   @ \cup {[base |-> base[c], count |-> count[c]]}]
  /\ Goto(c, "idle")
  /\ ForgetLocals(c)
  /\ UNCHANGED bitmap

(* Fault: the failing return forgets the lock. *)
ReturnZeroKeepLock(c) ==
  /\ pc[c] = "fail"
  /\ Goto(c, "idle")
  /\ ForgetLocals(c)
  /\ UNCHANGED <<lock, bitmap, granted>>

ReturnZero(c) ==
  /\ pc[c] = "fail"
  /\ lock' = FALSE
  /\ Goto(c, "idle")
  /\ ForgetLocals(c)
  /\ UNCHANGED <<bitmap, granted>>

(* physicalPageFree takes no lock and changes a byte of the bitmap with a  *)
(* load and a store: its caller must see to it that no core is inside      *)
(* physicalPageAlloc.  Nothing in the kernel calls it yet, except          *)
(* freeAddressSpace, which nobody calls.                                   *)
PhysicalPageFree(c) ==
  /\ pc[c] = "idle"
  /\ \A d \in Cores : pc[d] \in {"idle", "spin"}
  /\ \E b \in granted[c] :
       /\ bitmap' = bitmap \ Run(b.base, b.count)
       /\ granted' = [granted EXCEPT ![c] = @ \ {b}]
  /\ UNCHANGED <<lock, pc, locals>>

PhysicalPageAlloc(c) ==
  \/ StartScan(c) \/ NoFreePage(c)
  \/ SkipUsed(c) \/ CountFree(c) \/ EndOfScan(c)
  \/ MarkPage(c)
  \/ ReturnBase(c) \/ ReturnZero(c)

Next == \E c \in Cores :
          Call(c) \/ SpinLock(c) \/ PhysicalPageAlloc(c) \/ PhysicalPageFree(c)

Spec == Init /\ [][Next]_vars

(* The scan is a loop that ends; a core that spins for the lock gets it    *)
(* although other cores get it too: they leave it for the time between two *)
(* calls, and the spinning core does nothing but test it.                  *)
Fairness == \A c \in Cores : /\ SF_vars(SpinLock(c))
                             /\ WF_vars(PhysicalPageAlloc(c))

FairSpec == Spec /\ Fairness

-----------------------------------------------------------------------------
(* Properties. *)

Critical == {"first", "scan", "mark", "found", "fail"}

(* Every variable has its type. *)
TypeOK ==
  /\ lock \in BOOLEAN
  /\ bitmap \subseteq Pages
  /\ pc \in [Cores -> {"idle", "spin"} \cup Critical]
  /\ count \in [Cores -> Counts \cup {0}]
  /\ i \in [Cores -> 0 .. TotalPages]
  /\ cnt \in [Cores -> Nat]
  /\ base \in [Cores -> 0 .. TotalPages]
  /\ j \in [Cores -> Nat]
  /\ granted \in [Cores -> SUBSET Block]

(* No page is in two blocks, whichever cores got them, and none of them is *)
(* reserved: in particular 0, the answer for failure, is never a block.    *)
NoDoubleAllocation ==
  \A c, d \in Cores : \A a \in granted[c], b \in granted[d] :
    /\ Run(a.base, a.count) \subseteq Pages \ Reserved
    /\ <<c, a>> # <<d, b>> => Run(a.base, a.count) \cap Run(b.base, b.count) = {}

(* The pages of all blocks, and those a core is about to get. *)
Granted == UNION {Run(b.base, b.count) : b \in UNION {granted[c] : c \in Cores}}
Marked  == UNION {Run(base[c], j[c]) : c \in {d \in Cores : pc[d] \in {"mark", "found"}}}

(* The bitmap is exactly what is reserved, granted or being granted: no    *)
(* page is lost and none is free that somebody owns.                       *)
BitmapExact == bitmap = Reserved \cup Granted \cup Marked

(* An allocation fails only when no run of free pages is long enough.      *)
FailsOnlyWhenFull ==
  \A c \in Cores : pc[c] = "fail"
    => \A p \in Pages : ~(Run(p, count[c]) \subseteq Pages \ bitmap)

(* Every call returns. *)
CallsReturn == \A c \in Cores : (pc[c] # "idle") ~> (pc[c] = "idle")

(* The scan under the lock is a first-fit allocator that works in one step. *)
Abstract == INSTANCE PageAllocator
              WITH request <- [c \in Cores |-> IF pc[c] = "idle" THEN 0 ELSE count[c]]
ImplementsPageAllocator == Abstract!Spec
=============================================================================
