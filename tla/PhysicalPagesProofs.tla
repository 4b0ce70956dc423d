------------------------- MODULE PhysicalPagesProofs -------------------------
(***************************************************************************)
(* Theorems about PhysicalPages, for any set of cores, any amount of       *)
(* memory and any reserved pages.                                          *)
(***************************************************************************)
EXTENDS PhysicalPages, TLAPS

USE PagesAssumption, CountsAssumption, PageZeroAssumption

(* One core at most is between spinLock and spinRelease. *)
LockInv ==
  /\ lock <=> \E c \in Cores : pc[c] \in Critical
  /\ \A c, d \in Cores : pc[c] \in Critical /\ pc[d] \in Critical => c = d

(* No run of k free pages begins at p. *)
Blocked(p, k) == \E q \in Run(p, k) : q \notin Pages \/ q \in bitmap

(* What the scan knows: the cnt pages before i are free, and no long       *)
(* enough run begins before them.                                          *)
ScanInv(c) ==
  /\ base[c] + cnt[c] = i[c] /\ cnt[c] < count[c]
  /\ \A p \in Pages : base[c] <= p /\ p < i[c] => p \notin bitmap
  /\ \A p \in Pages : p < base[c] => Blocked(p, count[c])

MarkInv(c) ==
  /\ base[c] + count[c] <= TotalPages /\ j[c] < count[c]
  /\ \A p \in Pages : base[c] + j[c] <= p /\ p < base[c] + count[c] => p \notin bitmap

CallOK(c) ==
  /\ pc[c] # "idle" => count[c] \in Counts
  /\ pc[c] = "scan" => ScanInv(c)
  /\ pc[c] = "mark" => MarkInv(c)
  /\ pc[c] = "found" => base[c] + count[c] <= TotalPages /\ j[c] = count[c]
  /\ pc[c] = "fail" => \A p \in Pages : Blocked(p, count[c])

CallInv == \A c \in Cores : CallOK(c)

ScanStateInv == TypeOK /\ LockInv /\ CallInv

LEMMA InitScanStateInv == Init => ScanStateInv
  <1> SUFFICES ASSUME Init PROVE ScanStateInv
    OBVIOUS
  <1>1. /\ count \in [Cores -> Counts \cup {0}]
        /\ i \in [Cores -> 0 .. TotalPages] /\ cnt \in [Cores -> Nat]
        /\ base \in [Cores -> 0 .. TotalPages] /\ j \in [Cores -> Nat]
    BY DEF Init
  <1>2. TypeOK
    BY <1>1 DEF Init, TypeOK
  <1>3. LockInv /\ CallInv
    BY DEF Init, LockInv, CallInv, CallOK, Critical
  <1> QED
    BY <1>2, <1>3 DEF ScanStateInv

LEMMA NextLockInv == TypeOK /\ LockInv /\ [Next]_vars => LockInv'
  <1> SUFFICES ASSUME TypeOK, LockInv, [Next]_vars PROVE LockInv'
    OBVIOUS
  <1> USE DEF LockInv, Critical, Goto
  <1>0. pc \in [Cores -> {"idle", "spin"} \cup Critical]
    BY DEF TypeOK
  <1>1. ASSUME NEW c \in Cores, Call(c) PROVE LockInv'
    BY <1>0, <1>1 DEF Call
  <1>2. ASSUME NEW c \in Cores, SpinLock(c) PROVE LockInv'
    BY <1>0, <1>2 DEF SpinLock
  <1>3. ASSUME NEW c \in Cores, StartScan(c) \/ NoFreePage(c) PROVE LockInv'
    BY <1>0, <1>3 DEF StartScan, NoFreePage
  <1>4. ASSUME NEW c \in Cores, SkipUsed(c) \/ CountFree(c) \/ EndOfScan(c)
        PROVE  LockInv'
    BY <1>0, <1>4 DEF SkipUsed, CountFree, EndOfScan
  <1>5. ASSUME NEW c \in Cores, MarkPage(c) PROVE LockInv'
    BY <1>0, <1>5 DEF MarkPage
  <1>6. ASSUME NEW c \in Cores, ReturnBase(c) \/ ReturnZero(c) PROVE LockInv'
    BY <1>0, <1>6 DEF ReturnBase, ReturnZero
  <1>7. CASE UNCHANGED <<lock, pc>>
    BY <1>7
  <1> QED
    BY <1>1, <1>2, <1>3, <1>4, <1>5, <1>6, <1>7
       DEF Next, PhysicalPageAlloc, PhysicalPageFree, vars

(* The types of one core's locals, as the steps below use them.            *)
LEMMA LocalTypes ==
  ASSUME TypeOK, NEW c \in Cores
  PROVE  /\ base[c] \in 0 .. TotalPages /\ i[c] \in 0 .. TotalPages
         /\ cnt[c] \in Nat /\ j[c] \in Nat
         /\ count[c] \in Counts \cup {0} /\ count[c] \in Nat
  <1>1. base[c] \in 0 .. TotalPages /\ i[c] \in 0 .. TotalPages
    BY DEF TypeOK
  <1>2. cnt[c] \in Nat /\ j[c] \in Nat
    BY DEF TypeOK
  <1>3. count[c] \in Counts \cup {0}
    BY DEF TypeOK
  <1>4. count[c] \in Nat
    <2>1. Counts \cup {0} \subseteq Nat
      OBVIOUS
    <2> QED
      BY <1>3, <2>1
  <1> QED
    BY <1>1, <1>2, <1>3, <1>4

LEMMA ForgetTypes ==
  ASSUME TypeOK, NEW c \in Cores, ForgetLocals(c)
  PROVE  /\ count' \in [Cores -> Counts \cup {0}]
         /\ i' \in [Cores -> 0 .. TotalPages] /\ cnt' \in [Cores -> Nat]
         /\ base' \in [Cores -> 0 .. TotalPages] /\ j' \in [Cores -> Nat]
  <1>1. count' \in [Cores -> Counts \cup {0}]
    BY DEF TypeOK, ForgetLocals
  <1>2. i' \in [Cores -> 0 .. TotalPages] /\ base' \in [Cores -> 0 .. TotalPages]
    BY DEF TypeOK, ForgetLocals
  <1>3. cnt' \in [Cores -> Nat] /\ j' \in [Cores -> Nat]
    BY DEF TypeOK, ForgetLocals
  <1> QED
    BY <1>1, <1>2, <1>3

LEMMA NextTypeOK == ScanStateInv /\ [Next]_vars => TypeOK'
  <1> SUFFICES ASSUME ScanStateInv, [Next]_vars PROVE TypeOK'
    OBVIOUS
  <1> USE DEF TypeOK, Critical, Goto, locals
  <1>0. TypeOK /\ CallInv
    BY DEF ScanStateInv
  <1>1. ASSUME NEW c \in Cores, Call(c) PROVE TypeOK'
    BY <1>0, <1>1 DEF Call
  <1>2. ASSUME NEW c \in Cores, SpinLock(c) PROVE TypeOK'
    BY <1>0, <1>2 DEF SpinLock
  <1>3. ASSUME NEW c \in Cores, StartScan(c) PROVE TypeOK'
    BY <1>0, <1>3 DEF StartScan, Pages
  <1>4. ASSUME NEW c \in Cores, NoFreePage(c) \/ EndOfScan(c) PROVE TypeOK'
    BY <1>0, <1>4 DEF NoFreePage, EndOfScan
  <1>5. ASSUME NEW c \in Cores, SkipUsed(c) PROVE TypeOK'
    <2>1. base[c] + cnt[c] = i[c] /\ i[c] < TotalPages
      BY <1>0, <1>5 DEF SkipUsed, CallInv, CallOK, ScanInv
    <2> QED
      BY <1>0, <1>5, <2>1 DEF SkipUsed
  <1>6. ASSUME NEW c \in Cores, CountFree(c) PROVE TypeOK'
    BY <1>0, <1>6 DEF CountFree
  <1>7. ASSUME NEW c \in Cores, MarkPage(c) PROVE TypeOK'
    <2>1. base[c] + count[c] <= TotalPages /\ j[c] < count[c]
      BY <1>0, <1>7 DEF MarkPage, CallInv, CallOK, MarkInv
    <2>2. base[c] + j[c] \in Pages
      <3>1. base[c] \in Nat /\ j[c] \in Nat /\ count[c] \in Nat
        BY <1>0, LocalTypes
      <3> HIDE DEF TypeOK
      <3> QED
        BY <3>1, <2>1 DEF Pages
    <2>3. bitmap' \subseteq Pages
      BY <1>0, <1>7, <2>2 DEF MarkPage
    <2>4. j' \in [Cores -> Nat]
      <3>1. j \in [Cores -> Nat] /\ j' = [j EXCEPT ![c] = @ + 1]
        BY <1>0, <1>7 DEF MarkPage
      <3> HIDE DEF TypeOK
      <3> QED
        BY <3>1
    <2>5. pc' \in [Cores -> {"idle", "spin"} \cup Critical]
      BY <1>0, <1>7 DEF MarkPage
    <2> QED
      BY <1>0, <1>7, <2>3, <2>4, <2>5 DEF MarkPage
  <1>8. ASSUME NEW c \in Cores, ReturnBase(c) PROVE TypeOK'
    <2>1. count[c] \in Counts /\ base[c] + count[c] <= TotalPages
      BY <1>0, <1>8 DEF ReturnBase, CallInv, CallOK
    <2>2. [base |-> base[c], count |-> count[c]] \in Block
      <3>1. base[c] \in Nat /\ count[c] \in Nat \ {0}
        BY <1>0, <2>1, LocalTypes
      <3> HIDE DEF TypeOK
      <3> QED
        BY <3>1, <2>1 DEF Block, Pages
    <2>3. granted' \in [Cores -> SUBSET Block]
      <3> DEFINE b == [base |-> base[c], count |-> count[c]]
      <3>1. /\ granted \in [Cores -> SUBSET Block]
            /\ granted' = [granted EXCEPT ![c] = @ \cup {b}]
        BY <1>0, <1>8 DEF ReturnBase
      <3>2. b \in Block
        BY <2>2
      <3> HIDE DEF TypeOK, b
      <3> QED
        BY <3>1, <3>2
    <2>4. ForgetLocals(c) /\ lock' = FALSE /\ UNCHANGED bitmap /\ Goto(c, "idle")
      BY <1>8 DEF ReturnBase
    <2> QED
      BY <1>0, <2>3, <2>4, ForgetTypes
  <1>9. ASSUME NEW c \in Cores, ReturnZero(c) PROVE TypeOK'
    BY <1>0, <1>9, ForgetTypes DEF ReturnZero
  <1>10. ASSUME NEW c \in Cores, PhysicalPageFree(c) PROVE TypeOK'
    BY <1>0, <1>10 DEF PhysicalPageFree
  <1>11. CASE UNCHANGED vars
    BY <1>0, <1>11 DEF vars
  <1> QED
    BY <1>1, <1>2, <1>3, <1>4, <1>5, <1>6, <1>7, <1>8, <1>9, <1>10, <1>11
       DEF Next, PhysicalPageAlloc

(* A call that does not move stays correct when its locals stay and the    *)
(* bitmap stays or is not yet looked at.                                   *)
LEMMA CallOKKept ==
  ASSUME NEW d \in Cores, CallOK(d),
         pc'[d] = pc[d], count'[d] = count[d], i'[d] = i[d],
         cnt'[d] = cnt[d], base'[d] = base[d], j'[d] = j[d],
         pc[d] \in {"idle", "spin"} \/ bitmap' = bitmap
  PROVE  CallOK(d)'
  <1>1. CASE pc[d] \in {"idle", "spin"}
    BY <1>1 DEF CallOK
  <1>2. CASE bitmap' = bitmap
    BY <1>2 DEF CallOK, ScanInv, MarkInv, Blocked
  <1> QED
    BY <1>1, <1>2

(* A step of a core inside the lock that leaves the other cores' locals    *)
(* alone keeps their calls correct, whatever it does to the bitmap.        *)
LEMMA OthersCallOKKept ==
  ASSUME TypeOK, LockInv, CallInv,
         NEW c \in Cores, pc[c] \in Critical,
         NEW d \in Cores, d # c,
         pc'[d] = pc[d], count'[d] = count[d], i'[d] = i[d],
         cnt'[d] = cnt[d], base'[d] = base[d], j'[d] = j[d]
  PROVE  CallOK(d)'
  <1>1. pc[d] \in {"idle", "spin"}
    BY DEF TypeOK, LockInv
  <1>2. CallOK(d)
    BY DEF CallInv
  <1> QED
    BY <1>1, <1>2, CallOKKept

LEMMA StartScanOK ==
  ASSUME TypeOK, CallInv, NEW c \in Cores, StartScan(c)
  PROVE  CallOK(c)'
  <1>1. count[c] \in Counts /\ count[c] \in Nat \ {0}
    BY DEF CallInv, CallOK, StartScan
  <1>2. PICK p \in Pages : FirstFreePage(p) /\ base'[c] = p /\ i'[c] = p
    BY DEF StartScan, TypeOK
  <1>3. pc'[c] = "scan" /\ cnt'[c] = 0 /\ UNCHANGED <<count, bitmap>>
    BY DEF StartScan, TypeOK, Goto
  <1>4. \A q \in Pages : q < p => q \in bitmap
    BY <1>2 DEF FirstFreePage, Pages
  <1>5. \A q \in Pages : q < p => Blocked(q, count[c])
    BY <1>1, <1>4 DEF Blocked, Run, Pages
  <1>6. ScanInv(c)'
    BY <1>1, <1>2, <1>3, <1>5 DEF ScanInv, Blocked, Pages
  <1> QED
    BY <1>1, <1>3, <1>6 DEF CallOK

LEMMA NoFreePageOK ==
  ASSUME TypeOK, CallInv, NEW c \in Cores, NoFreePage(c)
  PROVE  CallOK(c)'
  <1>1. count[c] \in Counts /\ count[c] \in Nat \ {0}
    BY DEF CallInv, CallOK, NoFreePage
  <1>2. pc'[c] = "fail" /\ UNCHANGED <<count, bitmap>>
    BY DEF NoFreePage, TypeOK, Goto, locals
  <1>3. \A p \in Pages : Blocked(p, count[c])
    BY <1>1 DEF NoFreePage, Blocked, Run, Pages
  <1> QED
    BY <1>1, <1>2, <1>3 DEF CallOK, Blocked

LEMMA SkipUsedOK ==
  ASSUME TypeOK, CallInv, NEW c \in Cores, SkipUsed(c)
  PROVE  CallOK(c)'
  <1>1. count[c] \in Counts /\ count[c] \in Nat \ {0} /\ ScanInv(c)
    BY DEF CallInv, CallOK, SkipUsed
  <1>2. base[c] \in Nat /\ i[c] \in Nat /\ cnt[c] \in Nat
    BY LocalTypes
  <1>3. /\ pc'[c] = "scan" /\ UNCHANGED <<count, bitmap>>
        /\ base'[c] = base[c] + cnt[c] + 1 /\ cnt'[c] = 0 /\ i'[c] = i[c] + 1
    BY DEF SkipUsed, TypeOK
  <1>4. i[c] \in bitmap
    BY DEF SkipUsed
  <1>5. ASSUME NEW p \in Pages, p < base'[c] PROVE Blocked(p, count[c])
    <2>1. CASE p < base[c]
      BY <1>1, <2>1 DEF ScanInv
    <2>2. CASE ~(p < base[c])
      <3>1. i[c] \in Run(p, count[c])
        BY <1>1, <1>2, <1>3, <1>5, <2>2 DEF ScanInv, Run, Pages
      <3> QED
        BY <1>4, <3>1 DEF Blocked
    <2> QED
      BY <2>1, <2>2
  <1>6. ScanInv(c)'
    BY <1>1, <1>2, <1>3, <1>5 DEF ScanInv, Blocked, Pages
  <1> QED
    BY <1>1, <1>3, <1>6 DEF CallOK

LEMMA CountFreeOK ==
  ASSUME TypeOK, CallInv, NEW c \in Cores, CountFree(c)
  PROVE  CallOK(c)'
  <1>1. count[c] \in Counts /\ count[c] \in Nat \ {0} /\ ScanInv(c)
    BY DEF CallInv, CallOK, CountFree
  <1>2. base[c] \in Nat /\ i[c] \in Nat /\ cnt[c] \in Nat /\ j[c] \in Nat
    BY LocalTypes
  <1>3. /\ UNCHANGED <<count, bitmap, base>> /\ cnt'[c] = cnt[c] + 1
        /\ i[c] < TotalPages /\ i[c] \notin bitmap
    BY DEF CountFree, TypeOK
  <1>4. CASE cnt[c] + 1 = count[c]
    <2>1. pc'[c] = "mark" /\ j'[c] = 0
      BY <1>4 DEF CountFree, TypeOK, Goto
    <2>2. MarkInv(c)'
      BY <1>1, <1>2, <1>3, <1>4, <2>1 DEF ScanInv, MarkInv, Pages
    <2> QED
      BY <1>1, <1>3, <2>1, <2>2 DEF CallOK
  <1>5. CASE cnt[c] + 1 # count[c]
    <2>1. pc'[c] = "scan" /\ i'[c] = i[c] + 1
      BY <1>5 DEF CountFree, TypeOK, Goto
    <2>2. ScanInv(c)'
      BY <1>1, <1>2, <1>3, <1>5, <2>1 DEF ScanInv, Blocked, Pages
    <2> QED
      BY <1>1, <1>3, <2>1, <2>2 DEF CallOK
  <1> QED
    BY <1>4, <1>5

LEMMA EndOfScanOK ==
  ASSUME TypeOK, CallInv, NEW c \in Cores, EndOfScan(c)
  PROVE  CallOK(c)'
  <1>1. count[c] \in Counts /\ count[c] \in Nat \ {0} /\ ScanInv(c)
    BY DEF CallInv, CallOK, EndOfScan
  <1>2. base[c] \in Nat /\ i[c] \in Nat /\ cnt[c] \in Nat
    BY LocalTypes
  <1>3. pc'[c] = "fail" /\ UNCHANGED <<count, bitmap>> /\ i[c] >= TotalPages
    BY DEF EndOfScan, TypeOK, Goto, locals
  <1>4. ASSUME NEW p \in Pages PROVE Blocked(p, count[c])
    <2>1. CASE p < base[c]
      BY <1>1, <2>1 DEF ScanInv
    <2>2. CASE ~(p < base[c])
      <3>1. i[c] \in Run(p, count[c])
        BY <1>1, <1>2, <1>3, <2>2 DEF ScanInv, Run, Pages
      <3>2. i[c] \notin Pages
        BY <1>2, <1>3 DEF Pages
      <3> QED
        BY <3>1, <3>2 DEF Blocked
    <2> QED
      BY <2>1, <2>2
  <1> QED
    BY <1>1, <1>3, <1>4 DEF CallOK, Blocked

LEMMA MarkPageOK ==
  ASSUME TypeOK, CallInv, NEW c \in Cores, MarkPage(c)
  PROVE  CallOK(c)'
  <1>1. count[c] \in Counts /\ count[c] \in Nat \ {0} /\ MarkInv(c)
    BY DEF CallInv, CallOK, MarkPage
  <1>2. base[c] \in Nat /\ j[c] \in Nat
    BY LocalTypes
  <1>3. /\ UNCHANGED <<count, base>> /\ j'[c] = j[c] + 1
        /\ bitmap' = bitmap \cup {base[c] + j[c]}
    BY DEF MarkPage, TypeOK
  <1>4. CASE j[c] + 1 = count[c]
    <2>1. pc'[c] = "found"
      BY <1>4 DEF MarkPage, TypeOK, Goto
    <2> QED
      BY <1>1, <1>3, <1>4, <2>1 DEF CallOK, MarkInv
  <1>5. CASE j[c] + 1 # count[c]
    <2>1. pc'[c] = "mark"
      BY <1>5 DEF MarkPage, TypeOK, Goto
    <2>2. MarkInv(c)'
      BY <1>1, <1>2, <1>3, <1>5 DEF MarkInv, Pages
    <2> QED
      BY <1>1, <1>3, <2>1, <2>2 DEF CallOK
  <1> QED
    BY <1>4, <1>5

(* The lock keeps the bitmap still for the core that scans it.             *)
LEMMA NextCallInv == ScanStateInv /\ [Next]_vars => CallInv'
  <1> SUFFICES ASSUME ScanStateInv, [Next]_vars PROVE CallInv'
    OBVIOUS
  <1>0. TypeOK /\ LockInv /\ CallInv
    BY DEF ScanStateInv
  <1>a. /\ pc \in [Cores -> {"idle", "spin"} \cup Critical]
        /\ count \in [Cores -> Counts \cup {0}]
    BY <1>0 DEF TypeOK
  <1>b. \A c \in Cores : CallOK(c)
    BY <1>0 DEF CallInv
  <1>1. ASSUME NEW c \in Cores, Call(c) \/ SpinLock(c) PROVE CallInv'
    <2>1. CallOK(c)'
      <3>1. pc'[c] \in {"spin", "first"} /\ count'[c] \in Counts
        BY <1>1, <1>a, <1>b DEF Call, SpinLock, Goto, locals, CallOK
      <3> QED
        BY <3>1 DEF CallOK
    <2>2. ASSUME NEW d \in Cores, d # c PROVE CallOK(d)'
      <3>1. /\ pc'[d] = pc[d] /\ count'[d] = count[d] /\ bitmap' = bitmap
            /\ UNCHANGED <<i, cnt, base, j>>
        BY <2>2, <1>1, <1>a DEF Call, SpinLock, Goto, locals
      <3> QED
        BY <3>1, <1>b, CallOKKept
    <2> QED
      BY <2>1, <2>2 DEF CallInv
  <1>2. ASSUME NEW c \in Cores, PhysicalPageAlloc(c) PROVE CallInv'
    <2>1. CallOK(c)'
      <3>1. CASE ReturnBase(c) \/ ReturnZero(c)
        <4>1. pc'[c] = "idle"
          BY <3>1, <1>a DEF ReturnBase, ReturnZero, Goto
        <4> QED
          BY <4>1 DEF CallOK
      <3> QED
        BY <1>0, <1>2, <3>1, StartScanOK, NoFreePageOK, SkipUsedOK, CountFreeOK,
           EndOfScanOK, MarkPageOK DEF PhysicalPageAlloc
    <2>2. ASSUME NEW d \in Cores, d # c PROVE CallOK(d)'
      <3>1. pc[c] \in Critical
        BY <1>2 DEF PhysicalPageAlloc, StartScan, NoFreePage, SkipUsed, CountFree,
           EndOfScan, MarkPage, ReturnBase, ReturnZero, Critical
      <3>2. /\ pc'[d] = pc[d] /\ count'[d] = count[d] /\ i'[d] = i[d]
            /\ cnt'[d] = cnt[d] /\ base'[d] = base[d] /\ j'[d] = j[d]
        BY <1>0, <1>2, <2>2
           DEF PhysicalPageAlloc, StartScan, NoFreePage, SkipUsed, CountFree,
               EndOfScan, MarkPage, ReturnBase, ReturnZero, ForgetLocals, Goto,
               locals, TypeOK
      <3> QED
        BY <1>0, <2>2, <3>1, <3>2, OthersCallOKKept
    <2> QED
      BY <2>1, <2>2 DEF CallInv
  <1>3. ASSUME NEW c \in Cores, PhysicalPageFree(c) PROVE CallInv'
    <2>1. ASSUME NEW d \in Cores PROVE CallOK(d)'
      <3>1. /\ pc' = pc /\ UNCHANGED <<count, i, cnt, base, j>>
            /\ pc[d] \in {"idle", "spin"}
        BY <1>3 DEF PhysicalPageFree, locals
      <3> QED
        BY <3>1, <1>b, CallOKKept
    <2> QED
      BY <2>1 DEF CallInv
  <1>4. CASE UNCHANGED vars
    <2>1. ASSUME NEW d \in Cores PROVE CallOK(d)'
      BY <1>4, <1>b, CallOKKept DEF vars, locals
    <2> QED
      BY <2>1 DEF CallInv
  <1> QED
    BY <1>1, <1>2, <1>3, <1>4 DEF Next

LEMMA NextScanStateInv == ScanStateInv /\ [Next]_vars => ScanStateInv'
  BY NextTypeOK, NextLockInv, NextCallInv DEF ScanStateInv

LEMMA ScanStateAlways == Spec => []ScanStateInv
  BY InitScanStateInv, NextScanStateInv, PTL DEF Spec

(* Every variable keeps its type.                                          *)
THEOREM TypeCorrect == Spec => []TypeOK
  <1>1. ScanStateInv => TypeOK
    BY DEF ScanStateInv
  <1> QED
    BY <1>1, ScanStateAlways, PTL

(* physicalPageAlloc returns 0 only when no free run is long enough, with  *)
(* any number of cores in it: the pages before base stay blocked while the *)
(* scan goes on, because the lock keeps every other core off the bitmap.   *)
THEOREM FailureIsJustified == Spec => []FailsOnlyWhenFull
  <1>1. ScanStateInv => FailsOnlyWhenFull
    BY DEF ScanStateInv, CallInv, CallOK, Blocked, FailsOnlyWhenFull, Pages
  <1> QED
    BY <1>1, ScanStateAlways, PTL

-----------------------------------------------------------------------------
(* Who owns which page. *)

(* What a core is marking was free when the scan found it.                 *)
MarkedFresh ==
  \A c \in Cores : pc[c] \in {"mark", "found"}
    => Run(base[c], j[c]) \cap (Reserved \cup Granted) = {}

OwnInv == NoDoubleAllocation /\ BitmapExact /\ MarkedFresh

LEMMA MemberOfGranted ==
  ASSUME NEW p
  PROVE  p \in Granted
           <=> \E c \in Cores : \E b \in granted[c] : p \in Run(b.base, b.count)
  BY DEF Granted

(* The lock lets one core mark at a time.                                  *)
LEMMA LoneMarker ==
  ASSUME LockInv, NEW c \in Cores, pc[c] \in {"mark", "found"}
  PROVE  Marked = Run(base[c], j[c])
  <1>1. {d \in Cores : pc[d] \in {"mark", "found"}} = {c}
    BY DEF LockInv, Critical
  <1> QED
    BY <1>1 DEF Marked

LEMMA NoMarker ==
  ASSUME \A c \in Cores : pc[c] \notin {"mark", "found"}
  PROVE  Marked = {}
  BY DEF Marked

LEMMA InitOwnInv == Init => OwnInv
  <1> SUFFICES ASSUME Init PROVE OwnInv
    OBVIOUS
  <1>1. Granted = {} /\ Marked = {}
    BY DEF Init, Granted, Marked
  <1> QED
    BY <1>1 DEF Init, OwnInv, NoDoubleAllocation, BitmapExact, MarkedFresh

(* A step that changes neither blocks, bitmap nor the run being marked.    *)
LEMMA OwnInvKept ==
  ASSUME OwnInv, UNCHANGED <<bitmap, granted>>, Marked' = Marked, MarkedFresh'
  PROVE  OwnInv'
  <1>1. Granted' = Granted
    BY DEF Granted
  <1> QED
    BY <1>1 DEF OwnInv, BitmapExact, NoDoubleAllocation

LEMMA MarkPageOwn ==
  ASSUME ScanStateInv, OwnInv, NEW c \in Cores, MarkPage(c)
  PROVE  OwnInv'
  <1>0. TypeOK /\ LockInv /\ CallOK(c) /\ LockInv'
    BY NextLockInv DEF ScanStateInv, CallInv, Next, PhysicalPageAlloc
  <1>1. /\ UNCHANGED <<count, base, granted>> /\ j' = [j EXCEPT ![c] = j[c] + 1]
        /\ j'[c] = j[c] + 1 /\ bitmap' = bitmap \cup {base[c] + j[c]}
        /\ pc[c] = "mark" /\ pc'[c] \in {"mark", "found"}
    BY <1>0 DEF MarkPage, TypeOK, Goto
  <1>2. base[c] \in Nat /\ j[c] \in Nat
    BY <1>0, LocalTypes
  <1>3. Run(base'[c], j'[c]) = Run(base[c], j[c]) \cup {base[c] + j[c]}
    BY <1>1, <1>2 DEF Run
  <1>4. base[c] + j[c] \notin bitmap
    <2>1. MarkInv(c) /\ count[c] \in Nat
      BY <1>0, <1>1, LocalTypes DEF CallOK
    <2> QED
      BY <1>2, <2>1 DEF MarkInv, Pages
  <1>5. Granted' = Granted
    BY <1>1 DEF Granted
  <1>6. Marked = Run(base[c], j[c]) /\ Marked' = Run(base'[c], j'[c])
    <2>1. Marked = Run(base[c], j[c])
      BY <1>0, <1>1, LoneMarker
    <2>2. {d \in Cores : pc'[d] \in {"mark", "found"}} = {c}
      BY <1>0, <1>1 DEF LockInv, Critical
    <2> QED
      BY <2>1, <2>2 DEF Marked
  <1>7. BitmapExact'
    BY <1>1, <1>3, <1>5, <1>6 DEF OwnInv, BitmapExact
  <1>8. MarkedFresh'
    <2>1. \A d \in Cores : pc'[d] \in {"mark", "found"} => d = c
      BY <1>0, <1>1 DEF LockInv, Critical
    <2>2. Run(base'[c], j'[c]) \cap (Reserved \cup Granted) = {}
      <3>1. Run(base[c], j[c]) \cap (Reserved \cup Granted) = {}
        BY <1>1 DEF OwnInv, MarkedFresh
      <3>2. base[c] + j[c] \notin Reserved \cup Granted
        BY <1>4 DEF OwnInv, BitmapExact
      <3> QED
        BY <1>3, <3>1, <3>2
    <2> QED
      BY <1>5, <2>1, <2>2 DEF MarkedFresh
  <1>9. NoDoubleAllocation'
    BY <1>1 DEF OwnInv, NoDoubleAllocation
  <1> QED
    BY <1>7, <1>8, <1>9 DEF OwnInv

LEMMA ReturnBaseOwn ==
  ASSUME ScanStateInv, OwnInv, NEW c \in Cores, ReturnBase(c)
  PROVE  OwnInv'
  <1> DEFINE new == [base |-> base[c], count |-> count[c]]
             fresh == Run(base[c], count[c])
  <1>0. TypeOK /\ LockInv /\ CallOK(c) /\ pc[c] = "found"
    BY DEF ScanStateInv, CallInv, ReturnBase
  <1>1. /\ granted \in [Cores -> SUBSET Block]
        /\ granted' = [granted EXCEPT ![c] = granted[c] \cup {new}]
        /\ bitmap' = bitmap
    BY <1>0 DEF ReturnBase, TypeOK
  <1>2. \A d \in Cores : pc'[d] \notin {"mark", "found"}
    BY <1>0 DEF ReturnBase, Goto, TypeOK, LockInv, Critical
  <1>3. count[c] \in Nat \ {0} /\ base[c] \in Nat /\ j[c] = count[c]
        /\ base[c] + count[c] <= TotalPages
    BY <1>0, LocalTypes DEF CallOK
  <1>4. new.base = base[c] /\ new.count = count[c]
    OBVIOUS
  <1> HIDE DEF new
  <1>5. fresh \cap (Reserved \cup Granted) = {} /\ Marked = fresh
    BY <1>0, <1>3, LoneMarker DEF OwnInv, MarkedFresh
  <1>6. fresh # {} /\ fresh \subseteq Pages
    BY <1>3 DEF Run, Pages
  <1>7. Granted' = Granted \cup fresh
    <2>1. ASSUME NEW p \in Granted' PROVE p \in Granted \cup fresh
      <3>1. PICK d \in Cores : \E b \in granted'[d] : p \in Run(b.base, b.count)
        BY <2>1 DEF Granted
      <3>2. PICK b \in granted'[d] : p \in Run(b.base, b.count)
        BY <3>1
      <3>3. b \in granted[d] \/ b = new
        BY <1>1, <3>2
      <3> QED
        BY <1>4, <3>2, <3>3, MemberOfGranted
    <2>2. ASSUME NEW p \in Granted PROVE p \in Granted'
      <3>1. PICK d \in Cores : \E b \in granted[d] : p \in Run(b.base, b.count)
        BY <2>2 DEF Granted
      <3>2. \E b \in granted'[d] : p \in Run(b.base, b.count)
        BY <1>1, <3>1
      <3> QED
        BY <3>2 DEF Granted
    <2>3. ASSUME NEW p \in fresh PROVE p \in Granted'
      <3>1. new \in granted'[c] /\ p \in Run(new.base, new.count)
        BY <1>1, <1>4, <2>3
      <3> QED
        BY <3>1 DEF Granted
    <2> QED
      BY <2>1, <2>2, <2>3
  <1>8. BitmapExact'
    <2>1. Marked' = {}
      BY <1>2 DEF Marked
    <2> QED
      BY <1>1, <1>5, <1>7, <2>1 DEF OwnInv, BitmapExact
  <1>9. ASSUME NEW d \in Cores, NEW a \in granted[d]
        PROVE  Run(a.base, a.count) \subseteq Granted
    BY MemberOfGranted
  <1>10. ASSUME NEW d \in Cores, NEW e \in Cores,
                NEW a \in granted'[d], NEW b \in granted'[e]
         PROVE  /\ Run(a.base, a.count) \subseteq Pages \ Reserved
                /\ <<d, a>> # <<e, b>>
                     => Run(a.base, a.count) \cap Run(b.base, b.count) = {}
    <2>1. /\ a \in granted[d] \/ (a = new /\ d = c)
          /\ b \in granted[e] \/ (b = new /\ e = c)
      BY <1>1
    <2>2. CASE a \in granted[d] /\ b \in granted[e]
      BY <2>2 DEF OwnInv, NoDoubleAllocation
    <2>3. CASE a = new /\ d = c
      <3>1. Run(a.base, a.count) = fresh
        BY <1>4, <2>3
      <3>2. <<d, a>> # <<e, b>> => Run(b.base, b.count) \subseteq Granted
        BY <1>9, <2>1, <2>3
      <3> QED
        BY <1>5, <1>6, <3>1, <3>2
    <2>4. CASE a \in granted[d] /\ b = new /\ e = c
      <3>1. Run(b.base, b.count) = fresh /\ Run(a.base, a.count) \subseteq Granted
        BY <1>4, <1>9, <2>4
      <3>2. Run(a.base, a.count) \subseteq Pages \ Reserved
        BY <2>4 DEF OwnInv, NoDoubleAllocation
      <3> QED
        BY <1>5, <3>1, <3>2
    <2> QED
      BY <2>1, <2>2, <2>3, <2>4
  <1>11. NoDoubleAllocation'
    BY <1>10 DEF NoDoubleAllocation
  <1>12. MarkedFresh'
    BY <1>2 DEF MarkedFresh
  <1> QED
    BY <1>8, <1>11, <1>12 DEF OwnInv

LEMMA PhysicalPageFreeOwn ==
  ASSUME ScanStateInv, OwnInv, NEW c \in Cores, PhysicalPageFree(c)
  PROVE  OwnInv'
  <1>1. PICK b \in granted[c] :
          /\ bitmap' = bitmap \ Run(b.base, b.count)
          /\ granted' = [granted EXCEPT ![c] = granted[c] \ {b}]
    BY DEF PhysicalPageFree
  <1>2. granted \in [Cores -> SUBSET Block]
    BY DEF ScanStateInv, TypeOK
  <1>3. /\ \A d \in Cores : pc[d] \notin {"mark", "found"}
        /\ \A d \in Cores : pc'[d] \notin {"mark", "found"}
    BY DEF PhysicalPageFree
  <1>4. \A d \in Cores : granted'[d] \subseteq granted[d]
    BY <1>1, <1>2
  <1>5. Granted' = Granted \ Run(b.base, b.count)
    <2>1. ASSUME NEW d \in Cores, NEW a \in granted[d], <<d, a>> # <<c, b>>
          PROVE  Run(a.base, a.count) \cap Run(b.base, b.count) = {}
      BY <2>1 DEF OwnInv, NoDoubleAllocation
    <2>2. ASSUME NEW p \in Granted' PROVE p \in Granted \ Run(b.base, b.count)
      <3>1. PICK d \in Cores : \E a \in granted'[d] : p \in Run(a.base, a.count)
        BY <2>2 DEF Granted
      <3>2. PICK a \in granted'[d] : p \in Run(a.base, a.count)
        BY <3>1
      <3>3. a \in granted[d] /\ <<d, a>> # <<c, b>>
        BY <1>1, <1>2, <3>2
      <3> QED
        BY <2>1, <3>2, <3>3, MemberOfGranted
    <2>3. ASSUME NEW p \in Granted \ Run(b.base, b.count) PROVE p \in Granted'
      <3>1. PICK d \in Cores : \E a \in granted[d] : p \in Run(a.base, a.count)
        BY <2>3 DEF Granted
      <3>2. PICK a \in granted[d] : p \in Run(a.base, a.count)
        BY <3>1
      <3>3. <<d, a>> # <<c, b>>
        BY <2>3, <3>2
      <3>4. a \in granted'[d]
        BY <1>1, <1>2, <3>2, <3>3
      <3> QED
        BY <3>2, <3>4 DEF Granted
    <2> QED
      BY <2>2, <2>3
  <1>6. BitmapExact'
    <2>1. Marked = {} /\ Marked' = {}
      BY <1>3 DEF Marked
    <2>2. Run(b.base, b.count) \cap Reserved = {}
      BY <1>1 DEF OwnInv, NoDoubleAllocation
    <2> QED
      BY <1>1, <1>5, <2>1, <2>2 DEF OwnInv, BitmapExact
  <1>7. NoDoubleAllocation'
    BY <1>4 DEF OwnInv, NoDoubleAllocation
  <1>8. MarkedFresh'
    BY <1>3 DEF MarkedFresh
  <1> QED
    BY <1>6, <1>7, <1>8 DEF OwnInv

(* A scanning core that starts to mark has marked nothing yet.             *)
LEMMA CountFreeOwn ==
  ASSUME ScanStateInv, OwnInv, NEW c \in Cores, CountFree(c)
  PROVE  OwnInv'
  <1>0. TypeOK /\ LockInv /\ pc[c] = "scan"
    BY DEF ScanStateInv, CountFree
  <1>1. \A d \in Cores : pc[d] \notin {"mark", "found"}
    BY <1>0 DEF LockInv, Critical
  <1>2. UNCHANGED <<bitmap, granted, base>>
    BY DEF CountFree
  <1>3. ASSUME NEW d \in Cores, pc'[d] \in {"mark", "found"}
        PROVE  Run(base'[d], j'[d]) = {}
    <2>1. d = c /\ j'[d] = 0
      BY <1>0, <1>1, <1>3 DEF CountFree, Goto, TypeOK
    <2>2. base'[d] \in Nat
      BY <1>0, <1>2, LocalTypes
    <2> QED
      BY <2>1, <2>2 DEF Run
  <1>4. Marked = {} /\ Marked' = {}
    BY <1>1, <1>3 DEF Marked
  <1>5. MarkedFresh'
    BY <1>3 DEF MarkedFresh
  <1> QED
    BY <1>2, <1>4, <1>5, OwnInvKept

(* The other steps mark nothing.                                           *)
LEMMA NotMarkingOwn ==
  ASSUME ScanStateInv, OwnInv, UNCHANGED <<bitmap, granted>>, NEW c \in Cores,
         pc[c] \notin {"mark", "found"}, pc'[c] \notin {"mark", "found"},
         \A d \in Cores \ {c} : /\ pc'[d] = pc[d]
                                /\ base'[d] = base[d] /\ j'[d] = j[d]
  PROVE  OwnInv'
  <1>1. {d \in Cores : pc'[d] \in {"mark", "found"}}
          = {d \in Cores : pc[d] \in {"mark", "found"}}
    OBVIOUS
  <1>2. \A d \in Cores : pc[d] \in {"mark", "found"} => base'[d] = base[d] /\ j'[d] = j[d]
    OBVIOUS
  <1>3. Marked' = Marked
    BY <1>1, <1>2 DEF Marked
  <1>4. Granted' = Granted
    BY DEF Granted
  <1>5. MarkedFresh'
    BY <1>1, <1>2, <1>4 DEF OwnInv, MarkedFresh
  <1> QED
    BY <1>3, <1>5, OwnInvKept

LEMMA NextOwnInv == ScanStateInv /\ OwnInv /\ [Next]_vars => OwnInv'
  <1> SUFFICES ASSUME ScanStateInv, OwnInv, [Next]_vars PROVE OwnInv'
    OBVIOUS
  <1>0. TypeOK
    BY DEF ScanStateInv
  <1>1. ASSUME NEW c \in Cores, Call(c) \/ SpinLock(c) PROVE OwnInv'
    <2>1. /\ UNCHANGED <<bitmap, granted>>
          /\ pc[c] \notin {"mark", "found"} /\ pc'[c] \notin {"mark", "found"}
          /\ \A d \in Cores \ {c} : pc'[d] = pc[d] /\ base'[d] = base[d] /\ j'[d] = j[d]
      BY <1>0, <1>1 DEF Call, SpinLock, Goto, locals, TypeOK
    <2> QED
      BY <2>1, NotMarkingOwn
  <1>2. ASSUME NEW c \in Cores, StartScan(c) \/ NoFreePage(c) \/ SkipUsed(c)
                                  \/ EndOfScan(c) \/ ReturnZero(c)
        PROVE  OwnInv'
    <2>1. UNCHANGED <<bitmap, granted>>
      BY <1>2 DEF StartScan, NoFreePage, SkipUsed, EndOfScan, ReturnZero
    <2>2. pc[c] \notin {"mark", "found"} /\ pc'[c] \notin {"mark", "found"}
      BY <1>0, <1>2 DEF StartScan, NoFreePage, SkipUsed, EndOfScan, ReturnZero,
         Goto, TypeOK
    <2>3. \A d \in Cores \ {c} : pc'[d] = pc[d] /\ base'[d] = base[d] /\ j'[d] = j[d]
      BY <1>0, <1>2 DEF StartScan, NoFreePage, SkipUsed, EndOfScan, ReturnZero,
         ForgetLocals, Goto, locals, TypeOK
    <2> QED
      BY <2>1, <2>2, <2>3, NotMarkingOwn
  <1>3. CASE UNCHANGED vars
    <2>1. Marked' = Marked /\ Granted' = Granted
      BY <1>3 DEF vars, locals, Marked, Granted
    <2>2. MarkedFresh'
      BY <1>3, <2>1 DEF vars, locals, OwnInv, MarkedFresh
    <2> QED
      BY <1>3, <2>1, <2>2, OwnInvKept DEF vars
  <1> QED
    BY <1>1, <1>2, <1>3, CountFreeOwn, MarkPageOwn, ReturnBaseOwn,
       PhysicalPageFreeOwn DEF Next, PhysicalPageAlloc

LEMMA OwnAlways == Spec => [](ScanStateInv /\ OwnInv)
  BY InitScanStateInv, NextScanStateInv, InitOwnInv, NextOwnInv, PTL DEF Spec

(* No page has two owners and no reserved page has one, whichever cores    *)
(* allocate and free at the same time.                                     *)
THEOREM PagesHaveOneOwner == Spec => []NoDoubleAllocation
  <1>1. OwnInv => NoDoubleAllocation
    BY DEF OwnInv
  <1> QED
    BY <1>1, OwnAlways, PTL

(* The bitmap is what is reserved and owned, no more and no less.          *)
THEOREM BitmapIsExact == Spec => []BitmapExact
  <1>1. OwnInv => BitmapExact
    BY DEF OwnInv
  <1> QED
    BY <1>1, OwnAlways, PTL

-----------------------------------------------------------------------------
(* PhysicalPages implements PageAllocator: the scan page by page under the *)
(* lock, seen through the map of PhysicalPages!Abstract, is first fit in   *)
(* one step.                                                               *)

(* The refinement mapping: what PageAllocator calls request. *)
Request == [c \in Cores |-> IF pc[c] = "idle" THEN 0 ELSE count[c]]

(* No run of k pages that nobody owns begins at p. *)
NoFit(p, k) == \E q \in Run(p, k) : q \notin Pages \/ q \in Reserved \cup Granted

(* The run a core marks is the first that fits.  This is about the owners  *)
(* of the pages and not about the bitmap, which the core is changing.      *)
FirstFitInv ==
  \A c \in Cores : pc[c] \in {"mark", "found"} =>
    \A p \in Pages : p < base[c] => NoFit(p, count[c])

(* While no core marks, a set bit is a page that somebody owns. *)
LEMMA BlockedIsNoFit ==
  ASSUME OwnInv, \A d \in Cores : pc[d] \notin {"mark", "found"},
         NEW p, NEW k, Blocked(p, k)
  PROVE  NoFit(p, k)
  <1>1. bitmap = Reserved \cup Granted
    BY NoMarker DEF OwnInv, BitmapExact
  <1> QED
    BY <1>1 DEF Blocked, NoFit

(* A step that neither begins to mark nor changes owners. *)
LEMMA FirstFitKept ==
  ASSUME FirstFitInv, UNCHANGED granted,
         \A d \in Cores : pc'[d] \in {"mark", "found"}
           => /\ pc[d] \in {"mark", "found"}
              /\ base'[d] = base[d] /\ count'[d] = count[d]
  PROVE  FirstFitInv'
  <1>1. Granted' = Granted
    BY DEF Granted
  <1> QED
    BY <1>1 DEF FirstFitInv, NoFit

(* When the scan has found its run, no run below it is long enough. *)
LEMMA CountFreeFirstFit ==
  ASSUME ScanStateInv, OwnInv, NEW c \in Cores, CountFree(c)
  PROVE  FirstFitInv'
  <1>0. TypeOK /\ LockInv /\ pc[c] = "scan" /\ ScanInv(c)
    BY DEF ScanStateInv, CountFree, CallInv, CallOK
  <1>1. \A d \in Cores : pc[d] \notin {"mark", "found"}
    BY <1>0 DEF LockInv, Critical
  <1>2. UNCHANGED <<base, count, granted>>
    BY DEF CountFree
  <1>3. \A d \in Cores : pc'[d] \in {"mark", "found"} => d = c
    BY <1>0, <1>1 DEF CountFree, Goto, TypeOK
  <1>4. \A p \in Pages : p < base[c] => NoFit(p, count[c])
    BY <1>0, <1>1, BlockedIsNoFit DEF ScanInv
  <1>5. Granted' = Granted
    BY <1>2 DEF Granted
  <1> QED
    BY <1>2, <1>3, <1>4, <1>5 DEF FirstFitInv, NoFit

(* Owners change only while nobody marks. *)
LEMMA NextFirstFitInv ==
  ScanStateInv /\ OwnInv /\ FirstFitInv /\ [Next]_vars => FirstFitInv'
  <1> SUFFICES ASSUME ScanStateInv, OwnInv, FirstFitInv, [Next]_vars
               PROVE  FirstFitInv'
    OBVIOUS
  <1>0. TypeOK /\ LockInv
    BY DEF ScanStateInv
  <1>1. ASSUME NEW c \in Cores,
               Call(c) \/ SpinLock(c) \/ StartScan(c) \/ NoFreePage(c)
                 \/ SkipUsed(c) \/ EndOfScan(c) \/ MarkPage(c) \/ ReturnZero(c)
        PROVE  FirstFitInv'
    <2>1. UNCHANGED granted
      BY <1>1 DEF Call, SpinLock, StartScan, NoFreePage, SkipUsed, EndOfScan,
         MarkPage, ReturnZero
    <2>2. ASSUME NEW d \in Cores, pc'[d] \in {"mark", "found"}
          PROVE  /\ pc[d] \in {"mark", "found"}
                 /\ base'[d] = base[d] /\ count'[d] = count[d]
      <3>1. CASE d = c
        BY <1>0, <1>1, <2>2, <3>1 DEF Call, SpinLock, StartScan, NoFreePage,
           SkipUsed, EndOfScan, MarkPage, ReturnZero, Goto, TypeOK
      <3>2. CASE d # c
        BY <1>0, <1>1, <2>2, <3>2 DEF Call, SpinLock, StartScan, NoFreePage,
           SkipUsed, EndOfScan, MarkPage, ReturnZero, ForgetLocals, Goto,
           locals, TypeOK
      <3> QED
        BY <3>1, <3>2
    <2> QED
      BY <2>1, <2>2, FirstFitKept
  <1>2. ASSUME NEW c \in Cores, ReturnBase(c) PROVE FirstFitInv'
    <2>1. \A d \in Cores : pc'[d] \notin {"mark", "found"}
      BY <1>0, <1>2 DEF ReturnBase, Goto, LockInv, Critical, TypeOK
    <2> QED
      BY <2>1 DEF FirstFitInv
  <1>3. ASSUME NEW c \in Cores, PhysicalPageFree(c) PROVE FirstFitInv'
    BY <1>3 DEF PhysicalPageFree, FirstFitInv
  <1>4. CASE UNCHANGED vars
    BY <1>4, FirstFitKept DEF vars, locals
  <1> QED
    BY <1>1, <1>2, <1>3, <1>4, CountFreeFirstFit DEF Next, PhysicalPageAlloc

-----------------------------------------------------------------------------
(* What the steps do to request. *)

(* A call that goes on asks for what it asked for. *)
LEMMA RequestStays ==
  ASSUME \A d \in Cores : /\ pc'[d] = "idle" <=> pc[d] = "idle"
                          /\ pc[d] # "idle" => count'[d] = count[d]
  PROVE  Request' = Request
  BY DEF Request

(* A call that returns asks for nothing. *)
LEMMA RequestEnds ==
  ASSUME TypeOK, NEW c \in Cores, Goto(c, "idle"), ForgetLocals(c)
  PROVE  Request' = [Request EXCEPT ![c] = 0]
  BY DEF TypeOK, Request, Goto, ForgetLocals

(* What PageAllocator calls a fit. *)
LEMMA FitsIsFit ==
  ASSUME NEW p, NEW k
  PROVE  Abstract!Fits(p, k) <=> ~NoFit(p, k)
  BY DEF Abstract!Fits, Abstract!Run, Abstract!Taken, NoFit, Granted, Run

(* Calling is asking. *)
LEMMA CallAsks ==
  ASSUME ScanStateInv, NEW c \in Cores, Call(c) PROVE Abstract!Ask(c)
  <1>1. PICK k \in Counts : count' = [count EXCEPT ![c] = k]
    BY DEF Call
  <1>2. Request[c] = 0
    BY DEF Request, Call
  <1>3. Request' = [Request EXCEPT ![c] = k]
    BY <1>1 DEF ScanStateInv, TypeOK, Request, Call, Goto
  <1> QED
    BY <1>2, <1>3 DEF Abstract!Ask, Request, Call

(* A run that ends inside memory consists of pages. *)
LEMMA RunInside ==
  ASSUME NEW b \in Nat, NEW k \in Nat \ {0}, b + k <= TotalPages
  PROVE  b \in Pages /\ Run(b, k) \subseteq Pages
  BY DEF Pages, Run

(* The successful return is the grant of the first fit. *)
LEMMA ReturnBaseGrants ==
  ASSUME ScanStateInv, OwnInv, FirstFitInv, NEW c \in Cores, ReturnBase(c)
  PROVE  Abstract!Grant(c)
  <1>0. TypeOK /\ pc[c] = "found" /\ CallOK(c)
    BY DEF ScanStateInv, CallInv, ReturnBase
  <1>1. /\ count[c] \in Nat \ {0}
        /\ base[c] + count[c] <= TotalPages /\ j[c] = count[c]
    BY <1>0 DEF CallOK
  <1>2. base[c] \in Pages /\ Run(base[c], count[c]) \subseteq Pages
    <2>1. base[c] \in Nat
      BY <1>0, LocalTypes
    <2> QED
      BY <1>1, <2>1, RunInside
  <1>3. Abstract!Fits(base[c], count[c])
    <2>1. Run(base[c], count[c]) \cap (Reserved \cup Granted) = {}
      BY <1>0, <1>1 DEF OwnInv, MarkedFresh
    <2>2. ~NoFit(base[c], count[c])
      BY <1>2, <2>1 DEF NoFit
    <2> QED
      BY <2>2, FitsIsFit
  <1>4. \A lower \in Pages : lower < base[c] => ~Abstract!Fits(lower, count[c])
    BY <1>0, FitsIsFit DEF FirstFitInv
  <1>5. Request[c] = count[c]
    BY <1>0 DEF Request
  <1>6. granted' = [granted EXCEPT ![c] =
                      @ \cup {[base |-> base[c], count |-> Request[c]]}]
    BY <1>5 DEF ReturnBase
  <1>7. Request' = [Request EXCEPT ![c] = 0]
    BY <1>0, RequestEnds DEF ReturnBase
  <1> QED
    BY <1>1, <1>2, <1>3, <1>4, <1>5, <1>6, <1>7 DEF Abstract!Grant, Request

(* The failing return is a refusal: nothing fits. *)
LEMMA ReturnZeroRefuses ==
  ASSUME ScanStateInv, OwnInv, NEW c \in Cores, ReturnZero(c)
  PROVE  Abstract!Refuse(c)
  <1>0. TypeOK /\ LockInv /\ pc[c] = "fail" /\ CallOK(c) /\ UNCHANGED granted
    BY DEF ScanStateInv, CallInv, ReturnZero
  <1>1. \A d \in Cores : pc[d] \notin {"mark", "found"}
    BY <1>0 DEF LockInv, Critical
  <1>2. \A p \in Pages : ~Abstract!Fits(p, count[c])
    BY <1>0, <1>1, BlockedIsNoFit, FitsIsFit DEF CallOK
  <1>3. count[c] # 0 /\ Request[c] = count[c]
    <2>1. count[c] \in Counts
      BY <1>0 DEF CallOK
    <2>2. Request[c] = count[c]
      BY <1>0 DEF Request
    <2> QED
      BY <2>1, <2>2
  <1>4. Request' = [Request EXCEPT ![c] = 0]
    BY <1>0, RequestEnds DEF ReturnZero
  <1> QED
    BY <1>0, <1>2, <1>3, <1>4 DEF Abstract!Refuse, Request

(* physicalPageFree gives a block back. *)
LEMMA FreeGivesBack ==
  ASSUME NEW c \in Cores, PhysicalPageFree(c) PROVE Abstract!GiveBack(c)
  <1>1. Request' = Request /\ Request[c] = 0
    BY DEF PhysicalPageFree, locals, Request
  <1> QED
    BY <1>1 DEF PhysicalPageFree, Abstract!GiveBack, Request

(* The lock and the scan do not show. *)
LEMMA InnerStepStutters ==
  ASSUME TypeOK, NEW c \in Cores,
         \/ SpinLock(c) \/ StartScan(c) \/ NoFreePage(c) \/ SkipUsed(c)
         \/ CountFree(c) \/ EndOfScan(c) \/ MarkPage(c)
  PROVE  UNCHANGED Abstract!vars
  <1>1. UNCHANGED <<count, granted>>
    BY DEF SpinLock, StartScan, NoFreePage, SkipUsed, CountFree, EndOfScan,
       MarkPage, locals
  <1>2. \A d \in Cores : pc'[d] = "idle" <=> pc[d] = "idle"
    BY DEF SpinLock, StartScan, NoFreePage, SkipUsed, CountFree, EndOfScan,
       MarkPage, Goto, TypeOK
  <1>3. Request' = Request
    BY <1>1, <1>2, RequestStays
  <1> QED
    BY <1>1, <1>3 DEF Abstract!vars, Request

(* Every step is a step of PageAllocator or changes nothing it can see. *)
LEMMA StepRefines ==
  ScanStateInv /\ OwnInv /\ FirstFitInv /\ [Next]_vars
    => [Abstract!Next]_(Abstract!vars)
  <1> SUFFICES ASSUME ScanStateInv, OwnInv, FirstFitInv, [Next]_vars
               PROVE  [Abstract!Next]_(Abstract!vars)
    OBVIOUS
  <1>0. TypeOK
    BY DEF ScanStateInv
  <1>1. ASSUME NEW c \in Cores, Call(c) PROVE Abstract!Next
    BY <1>1, CallAsks DEF Abstract!Next
  <1>2. ASSUME NEW c \in Cores, ReturnBase(c) PROVE Abstract!Next
    BY <1>2, ReturnBaseGrants DEF Abstract!Next
  <1>3. ASSUME NEW c \in Cores, ReturnZero(c) PROVE Abstract!Next
    BY <1>3, ReturnZeroRefuses DEF Abstract!Next
  <1>4. ASSUME NEW c \in Cores, PhysicalPageFree(c) PROVE Abstract!Next
    BY <1>4, FreeGivesBack DEF Abstract!Next
  <1>5. CASE UNCHANGED vars
    BY <1>5 DEF vars, locals, Abstract!vars
  <1> QED
    BY <1>0, <1>1, <1>2, <1>3, <1>4, <1>5, InnerStepStutters
       DEF Next, PhysicalPageAlloc

(* physicalPageAlloc and physicalPageFree, called by any number of cores   *)
(* at once, are a first-fit allocator whose calls take effect in one step  *)
(* (physicalPageManager.c:34-63).                                          *)
THEOREM AllocationIsAtomicFirstFit == Spec => ImplementsPageAllocator
  <1>1. Init => Abstract!Init
    BY DEF Init, Abstract!Init
  <1>2. Init => FirstFitInv
    BY DEF Init, FirstFitInv
  <1> QED
    BY <1>1, <1>2, OwnAlways, NextFirstFitInv, StepRefines, PTL
       DEF Spec, ImplementsPageAllocator, Abstract!Spec

=============================================================================
